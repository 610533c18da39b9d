-------------------------- MODULE SchedulerProofs --------------------------
(***************************************************************************)
(* Theorems about the scheduler, for every number of processes, of priority *)
(* levels and of ticks.                                                     *)
(*                                                                          *)
(* First what each function of Kernel/scheduler.c does to the process       *)
(* table: to its fields and to the structs, and that it maps a well placed  *)
(* table to a well placed table.  Then the invariants, and last the order   *)
(* of the ready queues and the choice of the next process.                  *)
(***************************************************************************)
EXTENDS Scheduler, QueueLemmas

-----------------------------------------------------------------------------
(* The fields that the elementary updates change. *)

LEMMA PriorityNat == MaxPriority \in Nat /\ Priority \subseteq Nat /\ 0 \in Priority
BY MaxPriorityAssumption DEF Priority

LEMMA PidNat == Pid \subseteq Nat /\ Halt \in Pid /\ Console \in Pid /\ Halt # Console
BY MaxPidAssumption DEF Pid, Halt, Console

LEMMA TableFields ==
  ASSUME NEW t \in Table
  PROVE  /\ t.running \in Pid
         /\ t.ready \in [Priority -> Seq(Pid)]
         /\ t.blocked \in Seq(Pid)
         /\ t.proc \in [Pid -> Process]
         /\ t.processCount \in Int
         /\ t.nextPid \in Nat
BY DEF Table

LEMMA EnqueueFields ==
  ASSUME NEW t \in Table, NEW pid \in Pid
  PROVE  /\ Enqueue(t, pid) \in Table
         /\ Enqueue(t, pid).running = t.running
         /\ Enqueue(t, pid).blocked = t.blocked
         /\ Enqueue(t, pid).proc = t.proc
         /\ Enqueue(t, pid).processCount = t.processCount
         /\ Enqueue(t, pid).nextPid = t.nextPid
         /\ \A i \in Priority :
              Enqueue(t, pid).ready[i] =
                IF i = t.proc[pid].priority
                THEN Append(t.ready[i], pid) ELSE t.ready[i]
<1>1. t.proc[pid].priority \in Priority
  BY DEF Table, Process
<1>2. Append(t.ready[t.proc[pid].priority], pid) \in Seq(Pid)
  BY <1>1, AppendProperties DEF Table
<1> QED
  BY <1>1, <1>2 DEF Table, Enqueue

\* One Process struct is replaced by another.
LEMMA StructFields ==
  ASSUME NEW t \in Table, NEW pid \in Pid, NEW r \in Process
  PROVE  LET u == [t EXCEPT !.proc[pid] = r]
         IN  /\ u \in Table
             /\ u.running = t.running
             /\ u.blocked = t.blocked
             /\ u.ready = t.ready
             /\ u.processCount = t.processCount
             /\ u.nextPid = t.nextPid
             /\ \A p \in Pid : u.proc[p] = IF p = pid THEN r ELSE t.proc[p]
<1> DEFINE f == [t.proc EXCEPT ![pid] = r]
<1>1. f \in [Pid -> Process] /\ \A p \in Pid : f[p] = IF p = pid THEN r ELSE t.proc[p]
  BY DEF Table
<1>2. [t EXCEPT !.proc[pid] = r] = [t EXCEPT !.proc = f]
  OBVIOUS
<1> HIDE DEF f
<1> QED
  BY <1>1, <1>2 DEF Table

LEMMA ProcessFields ==
  ASSUME NEW r \in Process
  PROVE  /\ \A s \in ProcessState :
              LET v == [r EXCEPT !.state = s]
              IN  /\ v \in Process
                  /\ v.state = s
                  /\ v.priority = r.priority
                  /\ v.parentPID = r.parentPID
                  /\ v.kidsCount = r.kidsCount
         /\ \A i \in Priority :
              LET v == [r EXCEPT !.priority = i]
              IN  /\ v \in Process
                  /\ v.state = r.state
                  /\ v.priority = i
                  /\ v.parentPID = r.parentPID
                  /\ v.kidsCount = r.kidsCount
         /\ \A k \in Int :
              LET v == [r EXCEPT !.kidsCount = k]
              IN  /\ v \in Process
                  /\ v.state = r.state
                  /\ v.priority = r.priority
                  /\ v.parentPID = r.parentPID
                  /\ v.kidsCount = k
         /\ r.state \in ProcessState
         /\ r.priority \in Priority
         /\ r.parentPID \in Pid
         /\ r.kidsCount \in Int
BY DEF Process

LEMMA SetStateFields ==
  ASSUME NEW t \in Table, NEW pid \in Pid, NEW s \in ProcessState
  PROVE  /\ SetState(t, pid, s) \in Table
         /\ SetState(t, pid, s).running = t.running
         /\ SetState(t, pid, s).blocked = t.blocked
         /\ SetState(t, pid, s).ready = t.ready
         /\ SetState(t, pid, s).processCount = t.processCount
         /\ SetState(t, pid, s).nextPid = t.nextPid
         /\ \A p \in Pid :
              /\ SetState(t, pid, s).proc[p].state =
                   IF p = pid THEN s ELSE t.proc[p].state
              /\ SetState(t, pid, s).proc[p].priority = t.proc[p].priority
              /\ SetState(t, pid, s).proc[p].parentPID = t.proc[p].parentPID
              /\ SetState(t, pid, s).proc[p].kidsCount = t.proc[p].kidsCount
              /\ p # pid => SetState(t, pid, s).proc[p] = t.proc[p]
<1> DEFINE r == [t.proc[pid] EXCEPT !.state = s]
<1>1. t.proc[pid] \in Process
  BY TableFields
<1>2. /\ r \in Process
      /\ r.state = s
      /\ r.priority = t.proc[pid].priority
      /\ r.parentPID = t.proc[pid].parentPID
      /\ r.kidsCount = t.proc[pid].kidsCount
  BY <1>1, ProcessFields
<1>3. SetState(t, pid, s) = [t EXCEPT !.proc[pid] = r]
  BY DEF SetState
<1> HIDE DEF r
<1> QED
  BY <1>2, <1>3, StructFields

LEMMA SetPriorityFields ==
  ASSUME NEW t \in Table, NEW pid \in Pid, NEW prio \in Priority
  PROVE  LET u == SetPriority(t, pid, prio)
         IN  /\ u \in Table
             /\ u.running = t.running
             /\ u.blocked = t.blocked
             /\ u.ready = t.ready
             /\ u.processCount = t.processCount
             /\ u.nextPid = t.nextPid
             /\ \A p \in Pid :
                  /\ u.proc[p].state = t.proc[p].state
                  /\ u.proc[p].priority = IF p = pid THEN prio ELSE t.proc[p].priority
                  /\ u.proc[p].parentPID = t.proc[p].parentPID
                  /\ u.proc[p].kidsCount = t.proc[p].kidsCount
<1> DEFINE r == [t.proc[pid] EXCEPT !.priority = prio]
<1>1. t.proc[pid] \in Process
  BY TableFields
<1>2. /\ r \in Process
      /\ r.state = t.proc[pid].state
      /\ r.priority = prio
      /\ r.parentPID = t.proc[pid].parentPID
      /\ r.kidsCount = t.proc[pid].kidsCount
  BY <1>1, ProcessFields
<1>3. SetPriority(t, pid, prio) = [t EXCEPT !.proc[pid] = r]
  BY DEF SetPriority
<1> HIDE DEF r
<1> QED
  BY <1>2, <1>3, StructFields

LEMMA SetKidsCountFields ==
  ASSUME NEW t \in Table, NEW pid \in Pid, NEW k \in Int
  PROVE  LET u == SetKidsCount(t, pid, k)
         IN  /\ u \in Table
             /\ u.running = t.running
             /\ u.blocked = t.blocked
             /\ u.ready = t.ready
             /\ u.processCount = t.processCount
             /\ u.nextPid = t.nextPid
             /\ \A p \in Pid :
                  /\ u.proc[p].state = t.proc[p].state
                  /\ u.proc[p].priority = t.proc[p].priority
                  /\ u.proc[p].parentPID = t.proc[p].parentPID
                  /\ u.proc[p].kidsCount = IF p = pid THEN k ELSE t.proc[p].kidsCount
                  /\ p # pid => u.proc[p] = t.proc[p]
<1> DEFINE r == [t.proc[pid] EXCEPT !.kidsCount = k]
<1>1. t.proc[pid] \in Process
  BY TableFields
<1>2. /\ r \in Process
      /\ r.state = t.proc[pid].state
      /\ r.priority = t.proc[pid].priority
      /\ r.parentPID = t.proc[pid].parentPID
      /\ r.kidsCount = k
  BY <1>1, ProcessFields
<1>3. SetKidsCount(t, pid, k) = [t EXCEPT !.proc[pid] = r]
  BY DEF SetKidsCount
<1> HIDE DEF r
<1> QED
  BY <1>2, <1>3, StructFields

LEMMA RemoveReadyFields ==
  ASSUME NEW t \in Table, WellPlaced(t), NEW pid \in Pid
  PROVE  /\ RemoveReady(t, pid) \in Table
         /\ RemoveReady(t, pid).running = t.running
         /\ RemoveReady(t, pid).blocked = t.blocked
         /\ RemoveReady(t, pid).proc = t.proc
         /\ RemoveReady(t, pid).processCount = t.processCount
         /\ RemoveReady(t, pid).nextPid = t.nextPid
         /\ \A i \in Priority :
              /\ IsInjective(RemoveReady(t, pid).ready[i])
              /\ \A x : Contains(RemoveReady(t, pid).ready[i], x)
                         <=> Contains(t.ready[i], x) /\ x # pid
<1>1. \A i \in Priority :
        /\ RemoveFirst(t.ready[i], pid) \in Seq(Pid)
        /\ IsInjective(RemoveFirst(t.ready[i], pid))
        /\ \A x : Contains(RemoveFirst(t.ready[i], pid), x)
                   <=> Contains(t.ready[i], x) /\ x # pid
  <2> TAKE i \in Priority
  <2>1. t.ready[i] \in Seq(Pid) /\ IsInjective(t.ready[i])
    BY TableFields DEF WellPlaced
  <2> QED
    BY <2>1, RemoveFirstProperties
<1> DEFINE q == [i \in Priority |-> RemoveFirst(t.ready[i], pid)]
<1>2. q \in [Priority -> Seq(Pid)]
  BY <1>1
<1>3. RemoveReady(t, pid) = [t EXCEPT !.ready = q]
  BY DEF RemoveReady
<1>4. \A i \in Priority : q[i] = RemoveFirst(t.ready[i], pid)
  OBVIOUS
<1> HIDE DEF q
<1>5. /\ RemoveReady(t, pid) \in Table
      /\ RemoveReady(t, pid).ready = q
  BY <1>2, <1>3 DEF Table
<1>6. /\ RemoveReady(t, pid).running = t.running
      /\ RemoveReady(t, pid).blocked = t.blocked
      /\ RemoveReady(t, pid).proc = t.proc
      /\ RemoveReady(t, pid).processCount = t.processCount
      /\ RemoveReady(t, pid).nextPid = t.nextPid
  BY <1>3 DEF Table
<1> QED
  BY <1>1, <1>4, <1>5, <1>6

LEMMA RemoveBlockedFields ==
  ASSUME NEW t \in Table, IsInjective(t.blocked), NEW pid \in Pid
  PROVE  /\ RemoveBlocked(t, pid) \in Table
         /\ RemoveBlocked(t, pid).running = t.running
         /\ RemoveBlocked(t, pid).ready = t.ready
         /\ RemoveBlocked(t, pid).proc = t.proc
         /\ RemoveBlocked(t, pid).processCount = t.processCount
         /\ RemoveBlocked(t, pid).nextPid = t.nextPid
         /\ IsInjective(RemoveBlocked(t, pid).blocked)
         /\ \A x : Contains(RemoveBlocked(t, pid).blocked, x)
                    <=> Contains(t.blocked, x) /\ x # pid
<1> DEFINE q == RemoveFirst(t.blocked, pid)
<1>1. /\ q \in Seq(Pid)
      /\ IsInjective(q)
      /\ \A x : Contains(q, x) <=> Contains(t.blocked, x) /\ x # pid
  BY TableFields, RemoveFirstProperties
<1>2. RemoveBlocked(t, pid) = [t EXCEPT !.blocked = q]
  BY DEF RemoveBlocked
<1> HIDE DEF q
<1> QED
  BY <1>1, <1>2 DEF Table

LEMMA PushBlockedFields ==
  ASSUME NEW t \in Table, NEW pid \in Pid
  PROVE  LET u == PushBlocked(t, pid)
         IN  /\ u \in Table
             /\ u.running = t.running
             /\ u.ready = t.ready
             /\ u.proc = t.proc
             /\ u.processCount = t.processCount
             /\ u.nextPid = t.nextPid
             /\ IsInjective(t.blocked) /\ ~ Contains(t.blocked, pid)
                  => IsInjective(u.blocked)
             /\ \A x : Contains(u.blocked, x) <=> Contains(t.blocked, x) \/ x = pid
<1> DEFINE q == Cons(pid, t.blocked)
<1>1. /\ q \in Seq(Pid)
      /\ IsInjective(t.blocked) /\ ~ Contains(t.blocked, pid) => IsInjective(q)
      /\ \A x : Contains(q, x) <=> Contains(t.blocked, x) \/ x = pid
  BY TableFields, ConsNewProperties
<1>2. PushBlocked(t, pid) = [t EXCEPT !.blocked = q]
  BY DEF PushBlocked
<1> HIDE DEF q
<1> QED
  BY <1>1, <1>2 DEF Table

-----------------------------------------------------------------------------
(* block and unblock of a process that is not running. *)

\* What these functions leave alone.
SameProcesses(t, u) ==
  /\ u.running = t.running
  /\ u.processCount = t.processCount
  /\ u.nextPid = t.nextPid
  /\ u.proc[t.running] = t.proc[t.running]
  /\ \A p \in Pid : /\ u.proc[p].parentPID = t.proc[p].parentPID
                    /\ u.proc[p].kidsCount = t.proc[p].kidsCount
                    /\ IsLive(u, p) <=> IsLive(t, p)

LEMMA UnblockWellPlaced ==
  ASSUME NEW t \in Table, WellPlaced(t), NEW pid \in Pid
  PROVE  /\ Unblock(t, pid) \in Table
         /\ WellPlaced(Unblock(t, pid))
         /\ SameProcesses(t, Unblock(t, pid))
<1>1. CASE ~ IsBlocked(t, pid)
  BY <1>1 DEF Unblock, SameProcesses
<1>2. CASE IsBlocked(t, pid)
  <2> DEFINE a == RemoveBlocked(t, pid)
             b == SetState(a, pid, "READY")
             u == Enqueue(b, pid)
  <2>1. Unblock(t, pid) = u
    BY <1>2 DEF Unblock
  <2>2. /\ IsInjective(t.blocked)
        /\ t.running \in Pid
        /\ t.proc \in [Pid -> Process]
        /\ t.ready \in [Priority -> Seq(Pid)]
    BY TableFields DEF WellPlaced
  <2>3. /\ a \in Table
        /\ a.running = t.running
        /\ a.ready = t.ready
        /\ a.proc = t.proc
        /\ a.processCount = t.processCount
        /\ a.nextPid = t.nextPid
        /\ IsInjective(a.blocked)
        /\ \A x : Contains(a.blocked, x) <=> Contains(t.blocked, x) /\ x # pid
    BY <2>2, RemoveBlockedFields
  <2> HIDE DEF a
  <2>4. /\ b \in Table
        /\ b.running = t.running
        /\ b.ready = t.ready
        /\ b.blocked = a.blocked
        /\ b.processCount = t.processCount
        /\ b.nextPid = t.nextPid
        /\ \A p \in Pid :
             /\ b.proc[p].state = IF p = pid THEN "READY" ELSE t.proc[p].state
             /\ b.proc[p].parentPID = t.proc[p].parentPID
             /\ b.proc[p].kidsCount = t.proc[p].kidsCount
             /\ p # pid => b.proc[p] = t.proc[p]
    <3>1. "READY" \in ProcessState
      BY DEF ProcessState
    <3> QED
      BY <2>3, <3>1, SetStateFields
  <2> HIDE DEF b
  <2> DEFINE prio == b.proc[pid].priority
  <2>5. /\ u \in Table
        /\ u.running = t.running
        /\ u.blocked = a.blocked
        /\ u.proc = b.proc
        /\ u.processCount = t.processCount
        /\ u.nextPid = t.nextPid
        /\ \A i \in Priority :
             u.ready[i] = IF i = prio THEN Append(t.ready[i], pid) ELSE t.ready[i]
    BY <2>4, EnqueueFields
  <2> HIDE DEF u, prio
  <2>7. \A p \in Pid : /\ u.proc[p].state = IF p = pid THEN "READY" ELSE t.proc[p].state
                      /\ u.proc[p].parentPID = t.proc[p].parentPID
                      /\ u.proc[p].kidsCount = t.proc[p].kidsCount
    BY <2>4, <2>5
  <2>8. /\ t.proc[pid].state = "BLOCKED"
        /\ pid # t.running
        /\ pid # Halt
        /\ \A i \in Priority : ~ Contains(t.ready[i], pid)
    BY <1>2 DEF WellPlaced, IsReady
  <2>9. prio \in Priority
    BY <2>4 DEF prio, Table, Process
  <2>10. \A i \in Priority :
           /\ IsInjective(u.ready[i])
           /\ \A x : Contains(u.ready[i], x)
                      <=> Contains(t.ready[i], x) \/ (i = prio /\ x = pid)
    <3> TAKE i \in Priority
    <3>1. t.ready[i] \in Seq(Pid) /\ IsInjective(t.ready[i])
      BY <2>2 DEF WellPlaced
    <3>2. /\ IsInjective(Append(t.ready[i], pid))
          /\ \A x : Contains(Append(t.ready[i], pid), x)
                     <=> Contains(t.ready[i], x) \/ x = pid
      BY <2>8, <3>1, AppendNewProperties
    <3> QED
      BY <2>5, <3>1, <3>2
  <2>11. WellPlaced(u)
    <3>1. \A i, j \in Priority, p \in Pid :
            Contains(u.ready[i], p) /\ Contains(u.ready[j], p) => i = j
      BY <2>8, <2>10 DEF WellPlaced
    <3>2. \A p \in Pid : IsBlocked(u, p) <=> u.proc[p].state = "BLOCKED"
                                            /\ p # u.running
      BY <2>3, <2>5, <2>7 DEF WellPlaced, IsBlocked
    <3>3. \A p \in Pid : IsReady(u, p) <=> IsReady(t, p) \/ p = pid
      BY <2>9, <2>10 DEF IsReady
    <3>4. \A p \in Pid : IsReady(u, p) <=> u.proc[p].state = "READY"
                                          /\ p \notin {u.running, Halt}
      BY <2>5, <2>7, <2>8, <3>3 DEF WellPlaced
    <3>5. \A p \in Pid : u.proc[p].state \in {"RUNNING", "EXITED"} => p = u.running
      BY <2>5, <2>7 DEF WellPlaced
    <3>6. IsLive(u, u.running) /\ u.proc[Halt].state = "READY"
      BY <2>2, <2>5, <2>7, <2>8, PidNat DEF WellPlaced, IsLive
    <3>7. \A p \in Pid : p >= u.nextPid => ~ IsLive(u, p)
      BY <2>5, <2>7, <2>8 DEF WellPlaced, IsLive
    <3>8. IsInjective(u.blocked) /\ \A i \in Priority : IsInjective(u.ready[i])
      BY <2>3, <2>5, <2>10
    <3> QED
      BY <3>1, <3>2, <3>4, <3>5, <3>6, <3>7, <3>8 DEF WellPlaced
  <2>12. SameProcesses(t, u)
    BY <2>2, <2>4, <2>5, <2>7, <2>8 DEF SameProcesses, IsLive
  <2> QED
    BY <2>1, <2>5, <2>11, <2>12
<1> QED
  BY <1>1, <1>2

\* The placement depends on the lists and on the states of the processes only.
LEMMA PlacementFrame ==
  ASSUME NEW t \in Table, WellPlaced(t), NEW u \in Table,
         u.running = t.running, u.ready = t.ready, u.blocked = t.blocked,
         u.nextPid >= t.nextPid,
         \A p \in Pid : u.proc[p].state = t.proc[p].state
  PROVE  WellPlaced(u)
<1>1. t.running \in Pid /\ t.nextPid \in Nat /\ u.nextPid \in Nat
  BY TableFields
<1>2. \A p \in Pid :
        /\ IsBlocked(u, p) <=> IsBlocked(t, p)
        /\ IsReady(u, p) <=> IsReady(t, p)
        /\ IsLive(u, p) <=> IsLive(t, p)
  BY DEF IsBlocked, IsReady, IsLive
<1>3. ASSUME NEW p \in Pid, p >= u.nextPid
      PROVE  p >= t.nextPid
  <2>1. p \in Nat
    BY PidNat
  <2> QED
    BY <1>1, <1>3, <2>1
<1>4. /\ IsInjective(u.blocked)
      /\ \A i \in Priority : IsInjective(u.ready[i])
      /\ \A i, j \in Priority, p \in Pid :
           Contains(u.ready[i], p) /\ Contains(u.ready[j], p) => i = j
  BY DEF WellPlaced
<1>5. /\ \A p \in Pid : IsBlocked(u, p) <=> /\ u.proc[p].state = "BLOCKED"
                                            /\ p # u.running
      /\ \A p \in Pid : IsReady(u, p) <=> /\ u.proc[p].state = "READY"
                                          /\ p \notin {u.running, Halt}
  BY <1>2 DEF WellPlaced
<1>6. /\ \A p \in Pid : u.proc[p].state \in {"RUNNING", "EXITED"} => p = u.running
      /\ IsLive(u, u.running)
      /\ u.proc[Halt].state = "READY"
  BY <1>1, <1>2, PidNat DEF WellPlaced
<1>7. \A p \in Pid : p >= u.nextPid => ~ IsLive(u, p)
  BY <1>2, <1>3 DEF WellPlaced
<1> QED
  BY <1>4, <1>5, <1>6, <1>7 DEF WellPlaced

LEMMA BlockReadyWellPlaced ==
  ASSUME NEW t \in Table, WellPlaced(t), NEW pid \in Pid
  PROVE  /\ BlockReady(t, pid) \in Table
         /\ WellPlaced(BlockReady(t, pid))
         /\ SameProcesses(t, BlockReady(t, pid))
<1>1. CASE ~ IsReady(t, pid)
  BY <1>1 DEF BlockReady, SameProcesses
<1>2. CASE IsReady(t, pid)
  <2> DEFINE a == RemoveReady(t, pid)
             b == SetState(a, pid, "BLOCKED")
             u == PushBlocked(b, pid)
  <2>1. BlockReady(t, pid) = u
    BY <1>2 DEF BlockReady
  <2>2. t.running \in Pid
    BY TableFields
  <2>3. /\ a \in Table
        /\ a.running = t.running
        /\ a.blocked = t.blocked
        /\ a.proc = t.proc
        /\ a.processCount = t.processCount
        /\ a.nextPid = t.nextPid
        /\ \A i \in Priority :
             /\ IsInjective(a.ready[i])
             /\ \A x : Contains(a.ready[i], x) <=> Contains(t.ready[i], x) /\ x # pid
    BY RemoveReadyFields
  <2> HIDE DEF a
  <2>4. /\ b \in Table
        /\ b.running = t.running
        /\ b.ready = a.ready
        /\ b.blocked = t.blocked
        /\ b.processCount = t.processCount
        /\ b.nextPid = t.nextPid
        /\ \A p \in Pid :
             /\ b.proc[p].state = IF p = pid THEN "BLOCKED" ELSE t.proc[p].state
             /\ b.proc[p].parentPID = t.proc[p].parentPID
             /\ b.proc[p].kidsCount = t.proc[p].kidsCount
             /\ p # pid => b.proc[p] = t.proc[p]
    <3>1. "BLOCKED" \in ProcessState
      BY DEF ProcessState
    <3> QED
      BY <2>3, <3>1, SetStateFields
  <2> HIDE DEF b
  <2>5. /\ t.proc[pid].state = "READY"
        /\ pid # t.running
        /\ pid # Halt
        /\ ~ Contains(t.blocked, pid)
    BY <1>2 DEF WellPlaced, IsBlocked
  <2>6. /\ u \in Table
        /\ u.running = t.running
        /\ u.ready = a.ready
        /\ u.proc = b.proc
        /\ u.processCount = t.processCount
        /\ u.nextPid = t.nextPid
        /\ IsInjective(t.blocked) => IsInjective(u.blocked)
        /\ \A x : Contains(u.blocked, x) <=> Contains(t.blocked, x) \/ x = pid
    BY <2>4, <2>5, PushBlockedFields
  <2> HIDE DEF u
  <2>7. WellPlaced(u)
    <3>1. \A i, j \in Priority, p \in Pid :
            Contains(u.ready[i], p) /\ Contains(u.ready[j], p) => i = j
      BY <2>3, <2>6 DEF WellPlaced
    <3>2. \A p \in Pid : IsBlocked(u, p) <=> u.proc[p].state = "BLOCKED"
                                            /\ p # u.running
      BY <2>4, <2>5, <2>6 DEF WellPlaced, IsBlocked
    <3>3. \A p \in Pid : IsReady(u, p) <=> IsReady(t, p) /\ p # pid
      BY <2>3, <2>6 DEF IsReady
    <3>4. \A p \in Pid : IsReady(u, p) <=> u.proc[p].state = "READY"
                                          /\ p \notin {u.running, Halt}
      BY <2>4, <2>5, <2>6, <3>3 DEF WellPlaced
    <3>5. \A p \in Pid : u.proc[p].state \in {"RUNNING", "EXITED"} => p = u.running
      BY <2>4, <2>6 DEF WellPlaced
    <3>6. IsLive(u, u.running)
      BY <2>2, <2>4, <2>5, <2>6 DEF WellPlaced, IsLive
    <3>9. u.proc[Halt].state = "READY"
      BY <2>4, <2>5, <2>6, PidNat DEF WellPlaced
    <3>7. \A p \in Pid : p >= u.nextPid => ~ IsLive(u, p)
      BY <2>4, <2>5, <2>6 DEF WellPlaced, IsLive
    <3>8. IsInjective(u.blocked) /\ \A i \in Priority : IsInjective(u.ready[i])
      BY <2>3, <2>6 DEF WellPlaced
    <3> QED
      BY <3>1, <3>2, <3>4, <3>5, <3>6, <3>7, <3>8, <3>9 DEF WellPlaced
  <2>8. SameProcesses(t, u)
    BY <2>2, <2>4, <2>5, <2>6 DEF SameProcesses, IsLive
  <2> QED
    BY <2>1, <2>6, <2>7, <2>8
<1> QED
  BY <1>1, <1>2

-----------------------------------------------------------------------------
(* createProcess and the count of children. *)

LEMMA DecrementKidsCountWellPlaced ==
  ASSUME NEW t \in Table, WellPlaced(t), NEW pid \in Pid
  PROVE  LET u == DecrementKidsCount(t, pid)
         IN  /\ u \in Table
             /\ WellPlaced(u)
             /\ u.running = t.running
             /\ u.processCount = t.processCount
             /\ u.nextPid = t.nextPid
             /\ \A p \in Pid :
                  /\ u.proc[p].state = t.proc[p].state
                  /\ u.proc[p].parentPID = t.proc[p].parentPID
                  /\ u.proc[p].kidsCount =
                       IF p = pid /\ (IsBlocked(t, pid) \/ IsReady(t, pid))
                       THEN t.proc[p].kidsCount - 1 ELSE t.proc[p].kidsCount
<1>1. CASE ~ (IsBlocked(t, pid) \/ IsReady(t, pid))
  BY <1>1 DEF DecrementKidsCount
<1>2. CASE IsBlocked(t, pid) \/ IsReady(t, pid)
  <2> DEFINE k == t.proc[pid].kidsCount - 1
             u == SetKidsCount(t, pid, k)
  <2>1. DecrementKidsCount(t, pid) = u
    BY <1>2 DEF DecrementKidsCount
  <2>2. k \in Int
    BY TableFields, ProcessFields
  <2> HIDE DEF k
  <2>3. /\ u \in Table
        /\ u.running = t.running
        /\ u.blocked = t.blocked
        /\ u.ready = t.ready
        /\ u.processCount = t.processCount
        /\ u.nextPid = t.nextPid
        /\ \A p \in Pid :
             /\ u.proc[p].state = t.proc[p].state
             /\ u.proc[p].parentPID = t.proc[p].parentPID
             /\ u.proc[p].kidsCount = IF p = pid THEN k ELSE t.proc[p].kidsCount
    BY <2>2, SetKidsCountFields
  <2> HIDE DEF u
  <2>4. u.nextPid >= t.nextPid
    BY <2>3, TableFields
  <2>5. WellPlaced(u)
    BY <2>3, <2>4, PlacementFrame
  <2> QED
    BY <1>2, <2>1, <2>3, <2>5 DEF k
<1> QED
  BY <1>1, <1>2

LEMMA AddStructFields ==
  ASSUME NEW t \in Table, NEW r \in Process, t.nextPid \in Pid
  PROVE  LET u == AddStruct(t, r)
         IN  /\ u \in Table
             /\ u.running = t.running
             /\ u.blocked = t.blocked
             /\ u.ready = t.ready
             /\ u.processCount = t.processCount + 1
             /\ u.nextPid = t.nextPid + 1
             /\ \A p \in Pid : u.proc[p] = IF p = t.nextPid THEN r ELSE t.proc[p]
<1> DEFINE f == [t.proc EXCEPT ![t.nextPid] = r]
           c == t.processCount + 1
           n == t.nextPid + 1
<1>1. f \in [Pid -> Process]
  BY TableFields
<1>2. \A p \in Pid : f[p] = IF p = t.nextPid THEN r ELSE t.proc[p]
  BY TableFields
<1>3. c \in Int /\ n \in Nat
  BY TableFields
<1>4. AddStruct(t, r) = [t EXCEPT !.proc = f, !.processCount = c, !.nextPid = n]
  BY DEF AddStruct
<1> HIDE DEF f, c, n
<1>5. /\ AddStruct(t, r) \in Table
      /\ AddStruct(t, r).running = t.running
      /\ AddStruct(t, r).blocked = t.blocked
      /\ AddStruct(t, r).ready = t.ready
      /\ AddStruct(t, r).processCount = c
      /\ AddStruct(t, r).nextPid = n
      /\ AddStruct(t, r).proc = f
  BY <1>1, <1>3, <1>4 DEF Table
<1> QED
  BY <1>2, <1>5 DEF c, n

LEMMA FreeStructFields ==
  ASSUME NEW t \in Table, NEW pid \in Pid
  PROVE  LET u == FreeStruct(t, pid)
         IN  /\ u \in Table
             /\ u.running = t.running
             /\ u.blocked = t.blocked
             /\ u.ready = t.ready
             /\ u.processCount = t.processCount - 1
             /\ u.nextPid = t.nextPid
             /\ \A p \in Pid : u.proc[p] = IF p = pid THEN FreeProcess ELSE t.proc[p]
<1> DEFINE f == [t.proc EXCEPT ![pid] = FreeProcess]
           c == t.processCount - 1
<1>0. FreeProcess \in Process
  BY PriorityNat, PidNat DEF FreeProcess, Process, ProcessState
<1>1. f \in [Pid -> Process]
  BY <1>0, TableFields
<1>2. \A p \in Pid : f[p] = IF p = pid THEN FreeProcess ELSE t.proc[p]
  BY TableFields
<1>3. c \in Int
  BY TableFields
<1>4. FreeStruct(t, pid) = [t EXCEPT !.proc = f, !.processCount = c]
  BY DEF FreeStruct
<1> HIDE DEF f, c
<1>5. /\ FreeStruct(t, pid) \in Table
      /\ FreeStruct(t, pid).running = t.running
      /\ FreeStruct(t, pid).blocked = t.blocked
      /\ FreeStruct(t, pid).ready = t.ready
      /\ FreeStruct(t, pid).processCount = c
      /\ FreeStruct(t, pid).nextPid = t.nextPid
      /\ FreeStruct(t, pid).proc = f
  BY <1>1, <1>3, <1>4 DEF Table
<1> QED
  BY <1>2, <1>5 DEF c

\* A new process joins the ready queue of its priority.
LEMMA CreateProcessWellPlaced ==
  ASSUME NEW t \in Table, WellPlaced(t), t.nextPid \in Pid, NEW priority
  PROVE  LET u == CreateProcess(t, priority)
         IN  /\ u \in Table
             /\ WellPlaced(u)
             /\ u.running = t.running
             /\ u.proc[u.running].state = t.proc[t.running].state
             /\ u.nextPid \in t.nextPid .. t.nextPid + 1
<1>0. t.running \in Pid /\ t.nextPid \in Nat
  BY TableFields
<1>1. CASE priority \notin Priority
  BY <1>0, <1>1 DEF CreateProcess
<1>2. CASE priority \in Priority
  <2> DEFINE k == t.proc[t.running].kidsCount + 1
             running == t.running
             c == SetKidsCount(t, running, k)
             child == [state |-> "READY", priority |-> priority,
                       parentPID |-> t.running, kidsCount |-> 0]
             n == t.nextPid
             a == AddStruct(c, child)
             u == Enqueue(a, n)
  <2>1. CreateProcess(t, priority) = u
    BY <1>2 DEF CreateProcess
  <2>2. k \in Int /\ running \in Pid
    BY <1>0, TableFields, ProcessFields
  <2>3. child \in Process /\ child.state = "READY" /\ child.priority = priority
    BY <1>0, <1>2 DEF Process, ProcessState
  <2> HIDE DEF k, child, running
  <2>4. /\ c \in Table
        /\ c.running = t.running
        /\ c.blocked = t.blocked
        /\ c.ready = t.ready
        /\ c.nextPid = t.nextPid
        /\ \A p \in Pid : c.proc[p].state = t.proc[p].state
    BY <2>2, SetKidsCountFields
  <2> HIDE DEF c
  <2>5. /\ a \in Table
        /\ a.running = t.running
        /\ a.blocked = t.blocked
        /\ a.ready = t.ready
        /\ a.nextPid = t.nextPid + 1
        /\ \A p \in Pid : a.proc[p] = IF p = n THEN child ELSE c.proc[p]
    BY <2>3, <2>4, AddStructFields
  <2> HIDE DEF a
  <2>6. /\ u \in Table
        /\ u.running = t.running
        /\ u.blocked = t.blocked
        /\ u.proc = a.proc
        /\ u.nextPid = t.nextPid + 1
        /\ \A i \in Priority :
             u.ready[i] = IF i = a.proc[n].priority
                          THEN Append(t.ready[i], n) ELSE t.ready[i]
    BY <2>5, EnqueueFields
  <2> HIDE DEF u
  <2>7. \A p \in Pid : u.proc[p].state = IF p = n THEN "READY" ELSE t.proc[p].state
    BY <2>3, <2>4, <2>5, <2>6
  <2>8. a.proc[n].priority = priority
    BY <2>3, <2>5
  <2>9. ~ IsLive(t, n)
    BY <1>0 DEF WellPlaced
  <2>10. /\ n # t.running
         /\ n # Halt
         /\ ~ Contains(t.blocked, n)
         /\ \A i \in Priority : ~ Contains(t.ready[i], n)
    BY <2>9 DEF WellPlaced, IsLive, IsReady, IsBlocked
  <2>11. \A i \in Priority :
           /\ IsInjective(u.ready[i])
           /\ \A x : Contains(u.ready[i], x)
                      <=> Contains(t.ready[i], x) \/ (i = priority /\ x = n)
    <3> TAKE i \in Priority
    <3>1. t.ready[i] \in Seq(Pid) /\ IsInjective(t.ready[i])
      BY TableFields DEF WellPlaced
    <3>2. /\ IsInjective(Append(t.ready[i], n))
          /\ \A x : Contains(Append(t.ready[i], n), x)
                     <=> Contains(t.ready[i], x) \/ x = n
      BY <2>10, <3>1, AppendNewProperties
    <3> QED
      BY <2>6, <2>8, <3>1, <3>2
  <2>12. WellPlaced(u)
    <3>1. \A i, j \in Priority, p \in Pid :
            Contains(u.ready[i], p) /\ Contains(u.ready[j], p) => i = j
      BY <2>10, <2>11 DEF WellPlaced
    <3>2. \A p \in Pid : IsBlocked(u, p) <=> u.proc[p].state = "BLOCKED"
                                            /\ p # u.running
      BY <2>6, <2>7, <2>10 DEF WellPlaced, IsBlocked
    <3>3. \A p \in Pid : IsReady(u, p) <=> IsReady(t, p) \/ p = n
      BY <1>2, <2>11 DEF IsReady
    <3>4. \A p \in Pid : IsReady(u, p) <=> u.proc[p].state = "READY"
                                          /\ p \notin {u.running, Halt}
      BY <2>6, <2>7, <2>10, <3>3 DEF WellPlaced
    <3>5. \A p \in Pid : u.proc[p].state \in {"RUNNING", "EXITED"} => p = u.running
      BY <2>6, <2>7 DEF WellPlaced
    <3>6. IsLive(u, u.running)
      BY <1>0, <2>6, <2>7, <2>10 DEF WellPlaced, IsLive
    <3>9. u.proc[Halt].state = "READY"
      BY <2>6, <2>7, <2>10, PidNat DEF WellPlaced
    <3>7. ASSUME NEW p \in Pid, p >= u.nextPid
          PROVE  ~ IsLive(u, p)
      <4>1. p \in Nat
        BY PidNat
      <4>2. p # n /\ p >= t.nextPid
        BY <1>0, <2>6, <3>7, <4>1
      <4> QED
        BY <2>7, <4>2 DEF WellPlaced, IsLive
    <3>8. IsInjective(u.blocked) /\ \A i \in Priority : IsInjective(u.ready[i])
      BY <2>6, <2>11 DEF WellPlaced
    <3> QED
      BY <3>1, <3>2, <3>4, <3>5, <3>6, <3>7, <3>8, <3>9 DEF WellPlaced
  <2> QED
    BY <1>0, <2>1, <2>6, <2>7, <2>10, <2>12
<1> QED
  BY <1>1, <1>2

-----------------------------------------------------------------------------
(* kill and exit. *)

LEMMA SetRunningStateWellPlaced ==
  ASSUME NEW t \in Table, WellPlaced(t), t.running # Halt,
         NEW s \in ProcessState \ {"FREE"}
  PROVE  LET u == SetState(t, t.running, s)
         IN  /\ u \in Table
             /\ WellPlaced(u)
             /\ u.running = t.running
             /\ u.nextPid = t.nextPid
             /\ u.proc[t.running].state = s
<1> DEFINE u == SetState(t, t.running, s)
<1>0. t.running \in Pid
  BY TableFields
<1>1. /\ u \in Table
      /\ u.running = t.running
      /\ u.blocked = t.blocked
      /\ u.ready = t.ready
      /\ u.nextPid = t.nextPid
      /\ \A p \in Pid : u.proc[p].state = IF p = t.running THEN s ELSE t.proc[p].state
  BY <1>0, SetStateFields
<1> HIDE DEF u
<1>2. \A p \in Pid :
        /\ IsBlocked(u, p) <=> IsBlocked(t, p)
        /\ IsReady(u, p) <=> IsReady(t, p)
        /\ IsLive(u, p) <=> IsLive(t, p)
  BY <1>1 DEF IsBlocked, IsReady, IsLive, WellPlaced
<1>3. /\ \A p \in Pid : IsBlocked(u, p) <=> u.proc[p].state = "BLOCKED"
                                            /\ p # u.running
      /\ \A p \in Pid : IsReady(u, p) <=> u.proc[p].state = "READY"
                                          /\ p \notin {u.running, Halt}
      /\ \A p \in Pid : u.proc[p].state \in {"RUNNING", "EXITED"} => p = u.running
  BY <1>1, <1>2 DEF WellPlaced
<1>4. /\ IsLive(u, u.running)
      /\ u.proc[Halt].state = "READY"
      /\ \A p \in Pid : p >= u.nextPid => ~ IsLive(u, p)
  BY <1>0, <1>1, <1>2, PidNat DEF WellPlaced
<1>5. WellPlaced(u)
  BY <1>1, <1>3, <1>4 DEF WellPlaced
<1> QED
  BY <1>0, <1>1, <1>5 DEF u

LEMMA KillRunningWellPlaced ==
  ASSUME NEW t \in Table, WellPlaced(t), t.running # Halt
  PROVE  LET u == KillRunning(t)
         IN  /\ u \in Table
             /\ WellPlaced(u)
             /\ u.running = t.running
             /\ u.nextPid = t.nextPid
             /\ u.proc[t.running].state = "EXITED"
<1> DEFINE a == SetState(t, t.running, "EXITED")
           parent == t.proc[t.running].parentPID
<1>0. parent \in Pid /\ t.running \in Pid
  BY TableFields, ProcessFields
<1>1. KillRunning(t) = Unblock(a, parent)
  BY DEF KillRunning
<1>2. /\ a \in Table
      /\ WellPlaced(a)
      /\ a.running = t.running
      /\ a.nextPid = t.nextPid
      /\ a.proc[t.running].state = "EXITED"
  <2>1. "EXITED" \in ProcessState \ {"FREE"}
    BY DEF ProcessState
  <2> QED
    BY <2>1, SetRunningStateWellPlaced
<1> HIDE DEF a, parent
<1>3. /\ Unblock(a, parent) \in Table
      /\ WellPlaced(Unblock(a, parent))
      /\ SameProcesses(a, Unblock(a, parent))
  BY <1>0, <1>2, UnblockWellPlaced
<1> QED
  BY <1>1, <1>2, <1>3 DEF SameProcesses

LEMMA ExitRunningWellPlaced ==
  ASSUME NEW t \in Table, WellPlaced(t), t.running # Halt
  PROVE  LET u == ExitRunning(t)
         IN  /\ u \in Table
             /\ WellPlaced(u)
             /\ u.running = t.running
             /\ u.nextPid = t.nextPid
             /\ u.proc[t.running].state = "EXITED"
<1> DEFINE parent == t.proc[t.running].parentPID
           a == KillRunning(t)
<1>0. parent \in Pid /\ t.running \in Pid
  BY TableFields, ProcessFields
<1>1. ExitRunning(t) = DecrementKidsCount(a, parent)
  BY DEF ExitRunning
<1>2. /\ a \in Table
      /\ WellPlaced(a)
      /\ a.running = t.running
      /\ a.nextPid = t.nextPid
      /\ a.proc[t.running].state = "EXITED"
  BY KillRunningWellPlaced
<1> HIDE DEF a, parent
<1> QED
  BY <1>0, <1>1, <1>2, DecrementKidsCountWellPlaced

\* Taking a waiting process out of its list and freeing it.
LEMMA FreeWaitingWellPlaced ==
  ASSUME NEW t \in Table, WellPlaced(t), NEW pid \in Pid,
         IsBlocked(t, pid) \/ IsReady(t, pid)
  PROVE  LET c == FreeStruct(RemoveBlocked(RemoveReady(t, pid), pid), pid)
         IN  /\ c \in Table
             /\ WellPlaced(c)
             /\ c.running = t.running
             /\ c.processCount = t.processCount - 1
             /\ c.nextPid = t.nextPid
             /\ \A p \in Pid : c.proc[p] = IF p = pid THEN FreeProcess ELSE t.proc[p]
             /\ pid # t.running
             /\ pid # Halt
<1> DEFINE a == RemoveReady(t, pid)
           b == RemoveBlocked(a, pid)
           c == FreeStruct(b, pid)
<1>0. t.running \in Pid /\ t.nextPid \in Nat
  BY TableFields
<1>1. /\ a \in Table
      /\ a.running = t.running
      /\ a.blocked = t.blocked
      /\ a.proc = t.proc
      /\ a.processCount = t.processCount
      /\ a.nextPid = t.nextPid
      /\ \A i \in Priority :
           /\ IsInjective(a.ready[i])
           /\ \A x : Contains(a.ready[i], x) <=> Contains(t.ready[i], x) /\ x # pid
  BY RemoveReadyFields
<1> HIDE DEF a
<1>2. /\ b \in Table
      /\ b.running = t.running
      /\ b.ready = a.ready
      /\ b.proc = t.proc
      /\ b.processCount = t.processCount
      /\ b.nextPid = t.nextPid
      /\ IsInjective(b.blocked)
      /\ \A x : Contains(b.blocked, x) <=> Contains(t.blocked, x) /\ x # pid
  <2>1. IsInjective(a.blocked)
    BY <1>1 DEF WellPlaced
  <2> QED
    BY <1>1, <2>1, RemoveBlockedFields
<1> HIDE DEF b
<1>3. /\ c \in Table
      /\ c.running = t.running
      /\ c.ready = a.ready
      /\ c.blocked = b.blocked
      /\ c.processCount = t.processCount - 1
      /\ c.nextPid = t.nextPid
      /\ \A p \in Pid : c.proc[p] = IF p = pid THEN FreeProcess ELSE t.proc[p]
  BY <1>2, FreeStructFields
<1> HIDE DEF c
<1>4. \A p \in Pid : c.proc[p].state = IF p = pid THEN "FREE" ELSE t.proc[p].state
  BY <1>3 DEF FreeProcess
<1>5. pid # t.running /\ pid # Halt
  BY DEF WellPlaced
<1>6. WellPlaced(c)
  <2>1. \A i, j \in Priority, p \in Pid :
          Contains(c.ready[i], p) /\ Contains(c.ready[j], p) => i = j
    BY <1>1, <1>3 DEF WellPlaced
  <2>2. \A p \in Pid : IsBlocked(c, p) <=> c.proc[p].state = "BLOCKED"
                                          /\ p # c.running
    BY <1>2, <1>3, <1>4 DEF WellPlaced, IsBlocked
  <2>3. \A p \in Pid : IsReady(c, p) <=> IsReady(t, p) /\ p # pid
    BY <1>1, <1>3 DEF IsReady
  <2>4. \A p \in Pid : IsReady(c, p) <=> c.proc[p].state = "READY"
                                        /\ p \notin {c.running, Halt}
    BY <1>3, <1>4, <1>5, <2>3 DEF WellPlaced
  <2>5. \A p \in Pid : c.proc[p].state \in {"RUNNING", "EXITED"} => p = c.running
    BY <1>3, <1>4 DEF WellPlaced
  <2>6. IsLive(c, c.running)
    BY <1>0, <1>3, <1>4, <1>5 DEF WellPlaced, IsLive
  <2>7. c.proc[Halt].state = "READY"
    BY <1>4, <1>5, PidNat DEF WellPlaced
  <2>8. \A p \in Pid : p >= c.nextPid => ~ IsLive(c, p)
    BY <1>3, <1>4 DEF WellPlaced, IsLive
  <2>9. IsInjective(c.blocked) /\ \A i \in Priority : IsInjective(c.ready[i])
    BY <1>1, <1>2, <1>3
  <2> QED
    BY <2>1, <2>2, <2>4, <2>5, <2>6, <2>7, <2>8, <2>9 DEF WellPlaced
<1> QED
  BY <1>3, <1>5, <1>6 DEF a, b, c

\* Killing a process that is not running leaves the running one alone.
LEMMA KillOtherWellPlaced ==
  ASSUME NEW t \in Table, WellPlaced(t), NEW pid \in Pid
  PROVE  LET u == KillOther(t, pid)
         IN  /\ u \in Table
             /\ WellPlaced(u)
             /\ u.running = t.running
             /\ u.nextPid = t.nextPid
             /\ u.proc[u.running].state = t.proc[t.running].state
<1>0. t.running \in Pid /\ t.nextPid \in Nat
  BY TableFields
<1>1. CASE ~ (pid # Console /\ (IsBlocked(t, pid) \/ IsReady(t, pid)))
  <2>1. KillOther(t, pid) = t
    BY <1>1 DEF KillOther
  <2> QED
    BY <2>1
<1>2. CASE pid # Console /\ (IsBlocked(t, pid) \/ IsReady(t, pid))
  <2> DEFINE parent == t.proc[pid].parentPID
             c == FreeStruct(RemoveBlocked(RemoveReady(t, pid), pid), pid)
             d == DecrementKidsCount(c, parent)
             u == Unblock(d, parent)
  <2>1. KillOther(t, pid) = u
    BY <1>2 DEF KillOther
  <2>2. parent \in Pid
    BY TableFields, ProcessFields
  <2> HIDE DEF parent
  <2>3. /\ c \in Table
        /\ WellPlaced(c)
        /\ c.running = t.running
        /\ c.nextPid = t.nextPid
        /\ c.proc[t.running] = t.proc[t.running]
    BY <1>0, <1>2, FreeWaitingWellPlaced
  <2> HIDE DEF c
  <2>4. /\ d \in Table
        /\ WellPlaced(d)
        /\ d.running = t.running
        /\ d.nextPid = t.nextPid
        /\ \A p \in Pid : d.proc[p].state = c.proc[p].state
    BY <2>2, <2>3, DecrementKidsCountWellPlaced
  <2> HIDE DEF d
  <2>5. /\ u \in Table
        /\ WellPlaced(u)
        /\ SameProcesses(d, u)
    BY <2>2, <2>4, UnblockWellPlaced
  <2>6. /\ u.running = t.running
        /\ u.nextPid = t.nextPid
        /\ u.proc[t.running] = d.proc[t.running]
    BY <2>4, <2>5 DEF SameProcesses
  <2> HIDE DEF u
  <2> QED
    BY <1>0, <2>1, <2>3, <2>4, <2>5, <2>6
<1> QED
  BY <1>1, <1>2

-----------------------------------------------------------------------------
(* priorityScheduler. *)

OnCpu(t) == t.proc[t.running].state \in {"READY", "RUNNING"}

\* Once the running process is retired, whoever holds the cpu may run.
LEMMA RetireWellPlaced ==
  ASSUME NEW t \in Table, WellPlaced(t)
  PROVE  /\ Retire(t) \in Table
         /\ WellPlaced(Retire(t))
         /\ OnCpu(Retire(t))
         /\ Retire(t).nextPid = t.nextPid
<1> DEFINE r == t.running
<1>0. r \in Pid /\ t.nextPid \in Nat /\ t.proc[r].state \in ProcessState
  BY TableFields, ProcessFields
<1>1. CASE t.proc[r].state = "EXITED"
  <2> DEFINE a == FreeStruct(t, r)
             u == [a EXCEPT !.running = Halt]
  <2>1. Retire(t) = u
    BY <1>1 DEF Retire
  <2>2. /\ a \in Table
        /\ a.blocked = t.blocked
        /\ a.ready = t.ready
        /\ a.nextPid = t.nextPid
        /\ \A p \in Pid : a.proc[p] = IF p = r THEN FreeProcess ELSE t.proc[p]
    BY <1>0, FreeStructFields
  <2> HIDE DEF a
  <2>3. /\ u \in Table
        /\ u.running = Halt
        /\ u.blocked = t.blocked
        /\ u.ready = t.ready
        /\ u.nextPid = t.nextPid
        /\ u.proc = a.proc
    BY <2>2, PidNat DEF Table
  <2> HIDE DEF u
  <2>4. \A p \in Pid : u.proc[p].state = IF p = r THEN "FREE" ELSE t.proc[p].state
    BY <2>2, <2>3 DEF FreeProcess
  <2>5. r # Halt
    BY <1>1 DEF WellPlaced
  <2>6. WellPlaced(u)
    <3>1. \A i, j \in Priority, p \in Pid :
            Contains(u.ready[i], p) /\ Contains(u.ready[j], p) => i = j
      BY <2>3 DEF WellPlaced
    <3>2. \A p \in Pid : IsBlocked(u, p) <=> u.proc[p].state = "BLOCKED"
                                            /\ p # u.running
      BY <1>1, <2>3, <2>4, PidNat DEF WellPlaced, IsBlocked
    <3>3. \A p \in Pid : IsReady(u, p) <=> IsReady(t, p)
      BY <2>3 DEF IsReady
    <3>4. \A p \in Pid : IsReady(u, p) <=> u.proc[p].state = "READY"
                                          /\ p \notin {u.running, Halt}
      BY <1>1, <2>3, <2>4, <3>3 DEF WellPlaced
    <3>5. \A p \in Pid : u.proc[p].state \in {"RUNNING", "EXITED"} => p = u.running
      BY <2>3, <2>4 DEF WellPlaced
    <3>6. u.proc[Halt].state = "READY"
      BY <2>4, <2>5, PidNat DEF WellPlaced
    <3>7. IsLive(u, u.running)
      BY <2>3, <3>6 DEF IsLive
    <3>8. \A p \in Pid : p >= u.nextPid => ~ IsLive(u, p)
      BY <2>3, <2>4 DEF WellPlaced, IsLive
    <3>9. IsInjective(u.blocked) /\ \A i \in Priority : IsInjective(u.ready[i])
      BY <2>3 DEF WellPlaced
    <3> QED
      BY <3>1, <3>2, <3>4, <3>5, <3>6, <3>7, <3>8, <3>9 DEF WellPlaced
  <2> QED
    BY <2>1, <2>3, <2>6 DEF OnCpu, WellPlaced
<1>2. CASE t.proc[r].state = "BLOCKED"
  <2> DEFINE a == PushBlocked(t, r)
             u == [a EXCEPT !.running = Halt]
  <2>1. Retire(t) = u
    BY <1>2 DEF Retire
  <2>2. ~ Contains(t.blocked, r)
    BY <1>0 DEF WellPlaced, IsBlocked
  <2>3. /\ a \in Table
        /\ a.ready = t.ready
        /\ a.nextPid = t.nextPid
        /\ a.proc = t.proc
        /\ IsInjective(t.blocked) => IsInjective(a.blocked)
        /\ \A x : Contains(a.blocked, x) <=> Contains(t.blocked, x) \/ x = r
    BY <1>0, <2>2, PushBlockedFields
  <2> HIDE DEF a
  <2>4. /\ u \in Table
        /\ u.running = Halt
        /\ u.blocked = a.blocked
        /\ u.ready = t.ready
        /\ u.nextPid = t.nextPid
        /\ u.proc = t.proc
    BY <2>3, PidNat DEF Table
  <2> HIDE DEF u
  <2>5. r # Halt
    BY <1>2 DEF WellPlaced
  <2>6. WellPlaced(u)
    <3>1. \A i, j \in Priority, p \in Pid :
            Contains(u.ready[i], p) /\ Contains(u.ready[j], p) => i = j
      BY <2>4 DEF WellPlaced
    <3>2. \A p \in Pid : IsBlocked(u, p) <=> IsBlocked(t, p) \/ p = r
      BY <2>3, <2>4 DEF IsBlocked
    <3>3. \A p \in Pid : IsBlocked(u, p) <=> u.proc[p].state = "BLOCKED"
                                            /\ p # u.running
      BY <1>2, <2>4, <2>5, <3>2 DEF WellPlaced
    <3>4. \A p \in Pid : IsReady(u, p) <=> IsReady(t, p)
      BY <2>4 DEF IsReady
    <3>5. \A p \in Pid : IsReady(u, p) <=> u.proc[p].state = "READY"
                                          /\ p \notin {u.running, Halt}
      BY <1>2, <2>4, <3>4 DEF WellPlaced
    <3>6. \A p \in Pid : u.proc[p].state \in {"RUNNING", "EXITED"} => p = u.running
      BY <1>2, <2>4 DEF WellPlaced
    <3>7. u.proc[Halt].state = "READY" /\ IsLive(u, u.running)
      BY <2>4 DEF WellPlaced, IsLive
    <3>8. \A p \in Pid : p >= u.nextPid => ~ IsLive(u, p)
      BY <2>4 DEF WellPlaced, IsLive
    <3>9. IsInjective(u.blocked) /\ \A i \in Priority : IsInjective(u.ready[i])
      BY <2>3, <2>4 DEF WellPlaced
    <3> QED
      BY <3>1, <3>3, <3>5, <3>6, <3>7, <3>8, <3>9 DEF WellPlaced
  <2> QED
    BY <2>1, <2>4, <2>6 DEF OnCpu, WellPlaced
<1>3. CASE t.proc[r].state \notin {"EXITED", "BLOCKED"}
  <2>1. Retire(t) = t
    BY <1>3 DEF Retire
  <2>2. t.proc[r].state # "FREE"
    BY DEF WellPlaced, IsLive
  <2> QED
    BY <1>0, <1>3, <2>1, <2>2 DEF OnCpu, ProcessState
<1> QED
  BY <1>1, <1>2, <1>3

LEMMA AgeWellPlaced ==
  ASSUME NEW t \in Table, WellPlaced(t), OnCpu(t)
  PROVE  /\ Age(t) \in Table
         /\ WellPlaced(Age(t))
         /\ OnCpu(Age(t))
         /\ Age(t).nextPid = t.nextPid
<1> DEFINE r == t.running
           prio == t.proc[r].priority
           u == SetPriority(t, r, prio - 1)
<1>0. r \in Pid /\ prio \in Priority /\ t.nextPid \in Nat
  BY TableFields, ProcessFields
<1>1. CASE prio > 0
  <2>1. Age(t) = u
    BY <1>1 DEF Age
  <2>2. prio - 1 \in Priority
    BY <1>0, <1>1, MaxPriorityAssumption DEF Priority
  <2> HIDE DEF prio
  <2>3. /\ u \in Table
        /\ u.running = t.running
        /\ u.blocked = t.blocked
        /\ u.ready = t.ready
        /\ u.nextPid = t.nextPid
        /\ \A p \in Pid : u.proc[p].state = t.proc[p].state
    BY <1>0, <2>2, SetPriorityFields
  <2> HIDE DEF u
  <2>4. WellPlaced(u)
    <3>1. u.nextPid >= t.nextPid
      BY <1>0, <2>3
    <3> QED
      BY <2>3, <3>1, PlacementFrame
  <2> QED
    BY <1>0, <2>1, <2>3, <2>4 DEF OnCpu
<1>2. CASE ~ (prio > 0)
  <2>1. Age(t) = t
    BY <1>2 DEF Age
  <2> QED
    BY <2>1
<1> QED
  BY <1>1, <1>2

LEMMA TakeHeadFields ==
  ASSUME NEW t \in Table, NEW i \in Priority, t.ready[i] # <<>>
  PROVE  LET u == TakeHead(t, i)
         IN  /\ u \in Table
             /\ u.running = Head(t.ready[i])
             /\ u.blocked = t.blocked
             /\ u.proc = t.proc
             /\ u.processCount = t.processCount
             /\ u.nextPid = t.nextPid
             /\ \A j \in Priority :
                  u.ready[j] = IF j = i THEN Tail(t.ready[i]) ELSE t.ready[j]
<1> DEFINE h == Head(t.ready[i])
           q == [t.ready EXCEPT ![i] = Tail(t.ready[i])]
<1>1. t.ready[i] \in Seq(Pid) /\ t.ready \in [Priority -> Seq(Pid)]
  BY TableFields
<1>2. h \in Pid /\ Tail(t.ready[i]) \in Seq(Pid)
  BY <1>1, HeadTailSplit
<1>3. /\ q \in [Priority -> Seq(Pid)]
      /\ \A j \in Priority : q[j] = IF j = i THEN Tail(t.ready[i]) ELSE t.ready[j]
  BY <1>1, <1>2
<1>4. TakeHead(t, i) = [t EXCEPT !.running = h, !.ready = q]
  BY DEF TakeHead
<1> HIDE DEF h, q
<1>5. /\ TakeHead(t, i) \in Table
      /\ TakeHead(t, i).running = h
      /\ TakeHead(t, i).blocked = t.blocked
      /\ TakeHead(t, i).proc = t.proc
      /\ TakeHead(t, i).processCount = t.processCount
      /\ TakeHead(t, i).nextPid = t.nextPid
      /\ TakeHead(t, i).ready = q
  BY <1>2, <1>3, <1>4 DEF Table
<1> QED
  BY <1>3, <1>5 DEF h

\* After Requeue the process that held the cpu waits like the others do.
Requeued(t, q) ==
  /\ q \in Table
  /\ q.running = t.running
  /\ q.blocked = t.blocked
  /\ q.processCount = t.processCount
  /\ q.nextPid = t.nextPid
  /\ \A p \in Pid :
       /\ q.proc[p].state = IF p = t.running THEN "READY" ELSE t.proc[p].state
       /\ q.proc[p].priority = t.proc[p].priority
       /\ q.proc[p].parentPID = t.proc[p].parentPID
       /\ q.proc[p].kidsCount = t.proc[p].kidsCount
  /\ \A i \in Priority :
       /\ IsInjective(q.ready[i])
       /\ t.ready[i] # <<>> => q.ready[i] # <<>>
  /\ \A i, j \in Priority, p \in Pid :
       Contains(q.ready[i], p) /\ Contains(q.ready[j], p) => i = j
  /\ \A p \in Pid :
       IsReady(q, p) <=> q.proc[p].state = "READY" /\ p # Halt

LEMMA RequeueFields ==
  ASSUME NEW t \in Table, WellPlaced(t), OnCpu(t)
  PROVE  Requeued(t, Requeue(t))
<1> DEFINE r == t.running
           q == Requeue(t)
<1>0. r \in Pid /\ t.proc[r].priority \in Priority
  BY TableFields, ProcessFields
<1>1. CASE r = Halt
  <2>1. q = t
    BY <1>1 DEF Requeue
  <2>2. \A p \in Pid : t.proc[p].state = IF p = r THEN "READY" ELSE t.proc[p].state
    BY <1>1 DEF WellPlaced
  <2>3. \A p \in Pid : IsReady(t, p) <=> t.proc[p].state = "READY" /\ p # Halt
    BY <1>1 DEF WellPlaced
  <2>4. Requeued(t, t)
    BY <2>2, <2>3 DEF WellPlaced, Requeued
  <2> QED
    BY <2>1, <2>4
<1>2. CASE r # Halt
  <2> DEFINE a == SetState(t, r, "READY")
             e == Enqueue(a, r)
             prio == a.proc[r].priority
  <2>1. q = e
    BY <1>2 DEF Requeue
  <2>2. /\ a \in Table
        /\ a.running = t.running
        /\ a.blocked = t.blocked
        /\ a.ready = t.ready
        /\ a.processCount = t.processCount
        /\ a.nextPid = t.nextPid
        /\ \A p \in Pid :
             /\ a.proc[p].state = IF p = r THEN "READY" ELSE t.proc[p].state
             /\ a.proc[p].priority = t.proc[p].priority
             /\ a.proc[p].parentPID = t.proc[p].parentPID
             /\ a.proc[p].kidsCount = t.proc[p].kidsCount
    <3>1. "READY" \in ProcessState
      BY DEF ProcessState
    <3> QED
      BY <1>0, <3>1, SetStateFields
  <2>3. prio \in Priority
    BY <1>0, <2>2
  <2> HIDE DEF a
  <2>4. /\ e \in Table
        /\ e.running = t.running
        /\ e.blocked = t.blocked
        /\ e.proc = a.proc
        /\ e.processCount = t.processCount
        /\ e.nextPid = t.nextPid
        /\ \A i \in Priority :
             e.ready[i] = IF i = prio THEN Append(t.ready[i], r) ELSE t.ready[i]
    BY <1>0, <2>2, EnqueueFields
  <2> HIDE DEF e, prio
  <2>5. \A i \in Priority : ~ Contains(t.ready[i], r)
    BY <1>0 DEF WellPlaced, IsReady
  <2>6. \A i \in Priority :
          /\ IsInjective(e.ready[i])
          /\ t.ready[i] # <<>> => e.ready[i] # <<>>
          /\ \A x : Contains(e.ready[i], x)
                     <=> Contains(t.ready[i], x) \/ (i = prio /\ x = r)
    <3> TAKE i \in Priority
    <3>1. t.ready[i] \in Seq(Pid) /\ IsInjective(t.ready[i])
      BY TableFields DEF WellPlaced
    <3>2. /\ IsInjective(Append(t.ready[i], r))
          /\ \A x : Contains(Append(t.ready[i], r), x)
                     <=> Contains(t.ready[i], x) \/ x = r
      BY <1>0, <2>5, <3>1, AppendNewProperties
    <3>3. Append(t.ready[i], r) # <<>>
      BY <1>0, <3>1, AppendProperties
    <3> QED
      BY <2>4, <3>1, <3>2, <3>3
  <2>7. \A i, j \in Priority, p \in Pid :
          Contains(e.ready[i], p) /\ Contains(e.ready[j], p) => i = j
    BY <2>5, <2>6 DEF WellPlaced
  <2>8. \A p \in Pid : IsReady(e, p) <=> IsReady(t, p) \/ p = r
    BY <2>3, <2>6 DEF IsReady
  <2>9. \A p \in Pid :
          /\ e.proc[p].state = IF p = r THEN "READY" ELSE t.proc[p].state
          /\ e.proc[p].priority = t.proc[p].priority
          /\ e.proc[p].parentPID = t.proc[p].parentPID
          /\ e.proc[p].kidsCount = t.proc[p].kidsCount
    BY <2>2, <2>4
  <2>10. \A p \in Pid : IsReady(e, p) <=> e.proc[p].state = "READY" /\ p # Halt
    BY <1>2, <2>8, <2>9 DEF WellPlaced
  <2>11. Requeued(t, e)
    BY <2>4, <2>6, <2>7, <2>9, <2>10 DEF Requeued
  <2> QED
    BY <2>1, <2>11
<1> QED
  BY <1>1, <1>2

LEMMA DispatchWellPlaced ==
  ASSUME NEW t \in Table, WellPlaced(t), OnCpu(t)
  PROVE  /\ Dispatch(t) \in Table
         /\ WellPlaced(Dispatch(t))
         /\ OnCpu(Dispatch(t))
         /\ Dispatch(t).nextPid = t.nextPid
<1>1. CASE Candidates(t) = {}
  <2>1. Dispatch(t) = t
    BY <1>1 DEF Dispatch
  <2> QED
    BY <2>1
<1>2. CASE Candidates(t) # {}
  <2> DEFINE i == Max(Candidates(t))
             q == Requeue(t)
             s == TakeHead(q, i)
             h == s.running
             u == SetState(s, h, "RUNNING")
  <2>1. Dispatch(t) = u
    BY <1>2 DEF Dispatch
  <2>2. i \in Priority /\ t.ready[i] # <<>>
    <3>1. MaxPriority - 1 \in Nat /\ Candidates(t) \subseteq 0 .. MaxPriority - 1
      BY MaxPriorityAssumption DEF Candidates, Priority
    <3>2. i \in Candidates(t)
      BY <1>2, <3>1, MaxProperties
    <3> QED
      BY <3>2 DEF Candidates
  <2> HIDE DEF i
  <2>3. /\ q \in Table
        /\ q.blocked = t.blocked
        /\ q.nextPid = t.nextPid
        /\ \A p \in Pid : q.proc[p].state =
             IF p = t.running THEN "READY" ELSE t.proc[p].state
        /\ \A j \in Priority :
             /\ IsInjective(q.ready[j])
             /\ t.ready[j] # <<>> => q.ready[j] # <<>>
        /\ \A j, k \in Priority, p \in Pid :
             Contains(q.ready[j], p) /\ Contains(q.ready[k], p) => j = k
        /\ \A p \in Pid : IsReady(q, p) <=> q.proc[p].state = "READY" /\ p # Halt
    BY RequeueFields DEF Requeued
  <2> HIDE DEF q
  <2>4. q.ready[i] # <<>> /\ q.ready[i] \in Seq(Pid) /\ IsInjective(q.ready[i])
    BY <2>2, <2>3, TableFields
  <2>5. /\ s \in Table
        /\ h = Head(q.ready[i])
        /\ s.blocked = q.blocked
        /\ s.proc = q.proc
        /\ s.nextPid = q.nextPid
        /\ \A j \in Priority :
             s.ready[j] = IF j = i THEN Tail(q.ready[i]) ELSE q.ready[j]
    BY <2>2, <2>3, <2>4, TakeHeadFields
  <2> HIDE DEF s
  <2>6. /\ h \in Pid
        /\ Contains(q.ready[i], h)
        /\ IsInjective(Tail(q.ready[i]))
        /\ \A x : Contains(Tail(q.ready[i]), x) <=> Contains(q.ready[i], x) /\ x # h
    BY <2>4, <2>5, HeadTailSplit
  <2>7. q.proc[h].state = "READY" /\ h # Halt
    BY <2>2, <2>3, <2>6 DEF IsReady
  <2> HIDE DEF h
  <2>8. /\ u \in Table
        /\ u.running = s.running
        /\ u.blocked = s.blocked
        /\ u.ready = s.ready
        /\ u.nextPid = s.nextPid
        /\ \A p \in Pid : u.proc[p].state = IF p = h THEN "RUNNING" ELSE s.proc[p].state
    <3>1. "RUNNING" \in ProcessState
      BY DEF ProcessState
    <3> QED
      BY <2>5, <2>6, <3>1, SetStateFields
  <2> HIDE DEF u
  <2>9. u.running = h
    BY <2>8 DEF h
  <2>10. \A j \in Priority :
           /\ IsInjective(u.ready[j])
           /\ \A p \in Pid : Contains(u.ready[j], p) <=> Contains(q.ready[j], p) /\ p # h
    <3> TAKE j \in Priority
    <3>1. CASE j = i
      BY <2>5, <2>6, <2>8, <3>1
    <3>2. CASE j # i
      <4>1. ~ Contains(q.ready[j], h)
        BY <2>2, <2>3, <2>6, <3>2
      <4>2. u.ready[j] = q.ready[j]
        BY <2>5, <2>8, <3>2
      <4> QED
        BY <2>3, <4>1, <4>2
    <3> QED
      BY <3>1, <3>2
  <2>11. \A p \in Pid : u.proc[p].state = IF p = h THEN "RUNNING"
                                          ELSE IF p = t.running THEN "READY"
                                          ELSE t.proc[p].state
    BY <2>3, <2>5, <2>8
  <2>12. h # t.running => IsReady(t, h)
    BY <2>3, <2>6, <2>7 DEF WellPlaced
  <2>13. WellPlaced(u)
    <3>1. \A j, k \in Priority, p \in Pid :
            Contains(u.ready[j], p) /\ Contains(u.ready[k], p) => j = k
      BY <2>3, <2>10
    <3>2. \A p \in Pid : IsBlocked(u, p) <=> IsBlocked(t, p)
      BY <2>3, <2>5, <2>8 DEF IsBlocked
    <3>3. \A p \in Pid : IsBlocked(u, p) <=> u.proc[p].state = "BLOCKED"
                                            /\ p # u.running
      BY <2>3, <2>6, <2>7, <2>9, <2>11, <3>2 DEF WellPlaced
    <3>4. \A p \in Pid : IsReady(u, p) <=> IsReady(q, p) /\ p # h
      BY <2>10 DEF IsReady
    <3>5. \A p \in Pid : IsReady(u, p) <=> u.proc[p].state = "READY"
                                          /\ p \notin {u.running, Halt}
      BY <2>3, <2>9, <2>11, <3>4
    <3>6. \A p \in Pid : u.proc[p].state \in {"RUNNING", "EXITED"} => p = u.running
      BY <2>9, <2>11 DEF WellPlaced
    <3>7. IsLive(u, u.running)
      BY <2>6, <2>9, <2>11 DEF IsLive
    <3>8. u.proc[Halt].state = "READY"
      BY <2>7, <2>11, PidNat DEF WellPlaced
    <3>9. \A p \in Pid : p >= u.nextPid => ~ IsLive(u, p)
      <4>1. u.nextPid = t.nextPid
        BY <2>3, <2>5, <2>8
      <4>2. t.running \in Pid /\ IsLive(t, t.running)
        BY TableFields DEF WellPlaced
      <4>3. IsLive(t, h)
        BY <2>3, <2>6, <2>7, <4>2 DEF IsLive
      <4>4. \A p \in Pid : IsLive(u, p) => IsLive(t, p)
        BY <2>11, <4>2, <4>3 DEF IsLive
      <4> QED
        BY <4>1, <4>4 DEF WellPlaced
    <3>10. IsInjective(u.blocked) /\ \A j \in Priority : IsInjective(u.ready[j])
      BY <2>3, <2>5, <2>8, <2>10 DEF WellPlaced
    <3> QED
      BY <3>1, <3>3, <3>5, <3>6, <3>7, <3>8, <3>9, <3>10 DEF WellPlaced
  <2>14. OnCpu(u)
    BY <2>6, <2>9, <2>11 DEF OnCpu
  <2> QED
    BY <2>1, <2>3, <2>5, <2>8, <2>13, <2>14
<1> QED
  BY <1>1, <1>2

LEMMA PrioritySchedulerWellPlaced ==
  ASSUME NEW t \in Table, WellPlaced(t)
  PROVE  LET u == PriorityScheduler(t)
         IN  u \in Table /\ WellPlaced(u) /\ OnCpu(u) /\ u.nextPid = t.nextPid
<1>1. /\ Retire(t) \in Table
      /\ WellPlaced(Retire(t))
      /\ OnCpu(Retire(t))
      /\ Retire(t).nextPid = t.nextPid
  BY RetireWellPlaced
<1>2. /\ Age(Retire(t)) \in Table
      /\ WellPlaced(Age(Retire(t)))
      /\ OnCpu(Age(Retire(t)))
      /\ Age(Retire(t)).nextPid = t.nextPid
  BY <1>1, AgeWellPlaced
<1> QED
  BY <1>2, DispatchWellPlaced DEF PriorityScheduler

-----------------------------------------------------------------------------
(* changePriority. *)

\* The head or any other process of a queue moves to the tail of a queue.
LEMMA MoveToQueueWellPlaced ==
  ASSUME NEW t \in Table, WellPlaced(t), NEW pid \in Pid, IsReady(t, pid),
         NEW i \in Priority
  PROVE  LET u == MoveToQueue(t, pid, i)
         IN  /\ u \in Table
             /\ WellPlaced(u)
             /\ u.running = t.running
             /\ u.processCount = t.processCount
             /\ u.nextPid = t.nextPid
             /\ u.proc = t.proc
<1> DEFINE a == RemoveReady(t, pid)
           q == [a.ready EXCEPT ![i] = Append(a.ready[i], pid)]
           u == MoveToQueue(t, pid, i)
<1>1. /\ a \in Table
      /\ a.running = t.running
      /\ a.blocked = t.blocked
      /\ a.proc = t.proc
      /\ a.processCount = t.processCount
      /\ a.nextPid = t.nextPid
      /\ \A j \in Priority :
           /\ IsInjective(a.ready[j])
           /\ \A x : Contains(a.ready[j], x) <=> Contains(t.ready[j], x) /\ x # pid
  BY RemoveReadyFields
<1>2. u = [a EXCEPT !.ready = q]
  BY DEF MoveToQueue
<1> HIDE DEF a
<1>3. a.ready \in [Priority -> Seq(Pid)] /\ a.ready[i] \in Seq(Pid)
  BY <1>1, TableFields
<1>4. ~ Contains(a.ready[i], pid) /\ IsInjective(a.ready[i])
  BY <1>1
<1>5. /\ Append(a.ready[i], pid) \in Seq(Pid)
      /\ IsInjective(Append(a.ready[i], pid))
      /\ \A x : Contains(Append(a.ready[i], pid), x)
                 <=> Contains(a.ready[i], x) \/ x = pid
  BY <1>3, <1>4, AppendNewProperties
<1>6. /\ q \in [Priority -> Seq(Pid)]
      /\ \A j \in Priority : q[j] = IF j = i THEN Append(a.ready[i], pid)
                                             ELSE a.ready[j]
  BY <1>3, <1>5
<1> HIDE DEF q, u
<1>7. /\ u \in Table
      /\ u.running = t.running
      /\ u.blocked = t.blocked
      /\ u.proc = t.proc
      /\ u.processCount = t.processCount
      /\ u.nextPid = t.nextPid
      /\ u.ready = q
  BY <1>1, <1>2, <1>6 DEF Table
<1>8. \A j \in Priority :
        /\ IsInjective(u.ready[j])
        /\ \A x : Contains(u.ready[j], x)
                   <=> (Contains(t.ready[j], x) /\ x # pid) \/ (j = i /\ x = pid)
  BY <1>1, <1>5, <1>6, <1>7
<1>9. WellPlaced(u)
  <2>1. \A j, k \in Priority, p \in Pid :
          Contains(u.ready[j], p) /\ Contains(u.ready[k], p) => j = k
    BY <1>8 DEF WellPlaced
  <2>2. \A p \in Pid : IsReady(u, p) <=> IsReady(t, p)
    BY <1>8 DEF IsReady
  <2>3. \A p \in Pid : IsReady(u, p) <=> /\ u.proc[p].state = "READY"
                                         /\ p \notin {u.running, Halt}
    BY <1>7, <2>2 DEF WellPlaced
  <2>4. \A p \in Pid : IsBlocked(u, p) <=> /\ u.proc[p].state = "BLOCKED"
                                           /\ p # u.running
    BY <1>7 DEF WellPlaced, IsBlocked
  <2>5. /\ \A p \in Pid : u.proc[p].state \in {"RUNNING", "EXITED"} => p = u.running
        /\ IsLive(u, u.running)
        /\ u.proc[Halt].state = "READY"
        /\ \A p \in Pid : p >= u.nextPid => ~ IsLive(u, p)
    BY <1>7 DEF WellPlaced, IsLive
  <2>6. IsInjective(u.blocked) /\ \A j \in Priority : IsInjective(u.ready[j])
    BY <1>7, <1>8 DEF WellPlaced
  <2> QED
    BY <2>1, <2>3, <2>4, <2>5, <2>6 DEF WellPlaced
<1> QED
  BY <1>7, <1>9 DEF u

LEMMA SetPriorityWellPlaced ==
  ASSUME NEW t \in Table, WellPlaced(t), NEW pid \in Pid, NEW prio \in Priority
  PROVE  LET u == SetPriority(t, pid, prio)
         IN  /\ u \in Table
             /\ WellPlaced(u)
             /\ u.running = t.running
             /\ u.processCount = t.processCount
             /\ u.nextPid = t.nextPid
             /\ u.ready = t.ready
             /\ \A p \in Pid :
                  /\ u.proc[p].state = t.proc[p].state
                  /\ p # pid => u.proc[p].priority = t.proc[p].priority
                  /\ u.proc[p].parentPID = t.proc[p].parentPID
                  /\ u.proc[p].kidsCount = t.proc[p].kidsCount
<1> DEFINE u == SetPriority(t, pid, prio)
<1>1. /\ u \in Table
      /\ u.running = t.running
      /\ u.blocked = t.blocked
      /\ u.ready = t.ready
      /\ u.processCount = t.processCount
      /\ u.nextPid = t.nextPid
      /\ \A p \in Pid :
           /\ u.proc[p].state = t.proc[p].state
           /\ p # pid => u.proc[p].priority = t.proc[p].priority
           /\ u.proc[p].parentPID = t.proc[p].parentPID
           /\ u.proc[p].kidsCount = t.proc[p].kidsCount
  BY SetPriorityFields
<1> HIDE DEF u
<1>2. u.nextPid >= t.nextPid
  <2>1. t.nextPid \in Nat
    BY TableFields
  <2> QED
    BY <1>1, <2>1
<1>3. WellPlaced(u)
  BY <1>1, <1>2, PlacementFrame
<1> QED
  BY <1>1, <1>3 DEF u

LEMMA ChangePriorityWellPlaced ==
  ASSUME NEW t \in Table, WellPlaced(t), NEW pid \in Pid, NEW priority
  PROVE  LET u == ChangePriority(t, pid, priority)
         IN  /\ u \in Table
             /\ WellPlaced(u)
             /\ u.running = t.running
             /\ u.processCount = t.processCount
             /\ u.nextPid = t.nextPid
             /\ \A p \in Pid :
                  /\ u.proc[p].state = t.proc[p].state
                  /\ p # pid => u.proc[p].priority = t.proc[p].priority
                  /\ u.proc[p].parentPID = t.proc[p].parentPID
                  /\ u.proc[p].kidsCount = t.proc[p].kidsCount
<1>1. CASE ~ CanChangePriority(t, pid, priority)
  BY <1>1 DEF ChangePriority
<1>2. CASE CanChangePriority(t, pid, priority) /\ ~ IsReady(t, pid)
  <2>1. ChangePriority(t, pid, priority) = SetPriority(t, pid, priority)
    BY <1>2 DEF ChangePriority
  <2>2. priority \in Priority
    BY <1>2 DEF CanChangePriority
  <2> QED
    BY <2>1, <2>2, SetPriorityWellPlaced
<1>3. CASE CanChangePriority(t, pid, priority) /\ IsReady(t, pid)
  <2>1. ChangePriority(t, pid, priority) = ChangeReadyPriority(t, pid, priority)
    BY <1>3 DEF ChangePriority
  <2>2. priority \in Priority
    BY <1>3 DEF CanChangePriority
  <2>3. CASE IsHeadOfQueue(t, pid)
    <3>1. ChangePriority(t, pid, priority) = MoveToQueue(t, pid, priority)
      BY <2>1, <2>3 DEF ChangeReadyPriority
    <3> QED
      BY <1>3, <2>2, <3>1, MoveToQueueWellPlaced
  <2>4. CASE ~ IsHeadOfQueue(t, pid)
    <3> DEFINE a == SetPriority(t, pid, priority)
    <3>1. ChangePriority(t, pid, priority) = MoveToQueue(a, pid, priority)
      BY <2>1, <2>4 DEF ChangeReadyPriority
    <3>2. /\ a \in Table
          /\ WellPlaced(a)
          /\ a.running = t.running
          /\ a.processCount = t.processCount
          /\ a.nextPid = t.nextPid
          /\ a.ready = t.ready
          /\ \A p \in Pid :
               /\ a.proc[p].state = t.proc[p].state
               /\ p # pid => a.proc[p].priority = t.proc[p].priority
               /\ a.proc[p].parentPID = t.proc[p].parentPID
               /\ a.proc[p].kidsCount = t.proc[p].kidsCount
      BY <2>2, SetPriorityWellPlaced
    <3> HIDE DEF a
    <3>3. IsReady(a, pid)
      BY <1>3, <3>2 DEF IsReady
    <3> QED
      BY <2>2, <3>1, <3>2, <3>3, MoveToQueueWellPlaced
  <2> QED
    BY <2>3, <2>4
<1> QED
  BY <1>1, <1>2, <1>3

-----------------------------------------------------------------------------
(* What each function does to the structs. *)

\* Nobody is created or freed, and only states differ.
SameStructs(t, u) ==
  /\ u.processCount = t.processCount
  /\ u.nextPid = t.nextPid
  /\ \A p \in Pid : /\ u.proc[p].priority = t.proc[p].priority
                    /\ u.proc[p].parentPID = t.proc[p].parentPID
                    /\ u.proc[p].kidsCount = t.proc[p].kidsCount

LEMMA UnblockEffect ==
  ASSUME NEW t \in Table, WellPlaced(t), NEW pid \in Pid
  PROVE  LET u == Unblock(t, pid)
         IN  /\ u \in Table
             /\ WellPlaced(u)
             /\ u.running = t.running
             /\ SameStructs(t, u)
             /\ \A p \in Pid :
                  u.proc[p].state =
                    IF p = pid /\ IsBlocked(t, pid) THEN "READY" ELSE t.proc[p].state
<1>1. CASE ~ IsBlocked(t, pid)
  BY <1>1 DEF Unblock, SameStructs
<1>2. CASE IsBlocked(t, pid)
  <2> DEFINE a == RemoveBlocked(t, pid)
             b == SetState(a, pid, "READY")
             u == Enqueue(b, pid)
  <2>1. Unblock(t, pid) = u
    BY <1>2 DEF Unblock
  <2>2. "READY" \in ProcessState
    BY DEF ProcessState
  <2>3. /\ a \in Table
        /\ a.running = t.running
        /\ a.proc = t.proc
        /\ a.processCount = t.processCount
        /\ a.nextPid = t.nextPid
    BY RemoveBlockedFields DEF WellPlaced
  <2> HIDE DEF a
  <2>4. /\ b \in Table
        /\ b.running = t.running
        /\ SameStructs(t, b)
        /\ \A p \in Pid : b.proc[p].state = IF p = pid THEN "READY" ELSE t.proc[p].state
    BY <2>2, <2>3, SetStateFields DEF SameStructs
  <2> HIDE DEF b
  <2>5. /\ u.running = t.running
        /\ SameStructs(t, u)
        /\ \A p \in Pid : u.proc[p].state = IF p = pid THEN "READY" ELSE t.proc[p].state
    BY <2>4, EnqueueFields DEF SameStructs
  <2> HIDE DEF u
  <2> QED
    BY <1>2, <2>1, <2>5, UnblockWellPlaced
<1> QED
  BY <1>1, <1>2

LEMMA BlockReadyEffect ==
  ASSUME NEW t \in Table, WellPlaced(t), NEW pid \in Pid
  PROVE  LET u == BlockReady(t, pid)
         IN  /\ u \in Table
             /\ WellPlaced(u)
             /\ u.running = t.running
             /\ SameStructs(t, u)
             /\ \A p \in Pid :
                  u.proc[p].state =
                    IF p = pid /\ IsReady(t, pid) THEN "BLOCKED" ELSE t.proc[p].state
<1>1. CASE ~ IsReady(t, pid)
  BY <1>1 DEF BlockReady, SameStructs
<1>2. CASE IsReady(t, pid)
  <2> DEFINE a == RemoveReady(t, pid)
             b == SetState(a, pid, "BLOCKED")
             u == PushBlocked(b, pid)
  <2>1. BlockReady(t, pid) = u
    BY <1>2 DEF BlockReady
  <2>2. "BLOCKED" \in ProcessState
    BY DEF ProcessState
  <2>3. /\ a \in Table
        /\ a.running = t.running
        /\ a.proc = t.proc
        /\ a.processCount = t.processCount
        /\ a.nextPid = t.nextPid
    BY RemoveReadyFields
  <2> HIDE DEF a
  <2>4. /\ b \in Table
        /\ b.running = t.running
        /\ SameStructs(t, b)
        /\ \A p \in Pid : b.proc[p].state = IF p = pid THEN "BLOCKED" ELSE t.proc[p].state
    BY <2>2, <2>3, SetStateFields DEF SameStructs
  <2> HIDE DEF b
  <2>5. /\ u.running = t.running
        /\ SameStructs(t, u)
        /\ \A p \in Pid : u.proc[p].state = IF p = pid THEN "BLOCKED" ELSE t.proc[p].state
    BY <2>4, PushBlockedFields DEF SameStructs
  <2> HIDE DEF u
  <2> QED
    BY <1>2, <2>1, <2>5, BlockReadyWellPlaced
<1> QED
  BY <1>1, <1>2

LEMMA DecrementEffect ==
  ASSUME NEW t \in Table, WellPlaced(t), NEW pid \in Pid
  PROVE  LET u == DecrementKidsCount(t, pid)
         IN  /\ u \in Table
             /\ WellPlaced(u)
             /\ u.running = t.running
             /\ u.processCount = t.processCount
             /\ u.nextPid = t.nextPid
             /\ \A p \in Pid :
                  /\ u.proc[p].state = t.proc[p].state
                  /\ u.proc[p].priority = t.proc[p].priority
                  /\ u.proc[p].parentPID = t.proc[p].parentPID
                  /\ u.proc[p].kidsCount =
                       IF p = pid /\ (IsBlocked(t, pid) \/ IsReady(t, pid))
                       THEN t.proc[p].kidsCount - 1 ELSE t.proc[p].kidsCount
<1> DEFINE u == DecrementKidsCount(t, pid)
           k == t.proc[pid].kidsCount - 1
<1>1. k \in Int
  BY TableFields, ProcessFields
<1> HIDE DEF k
<1>2. \A p \in Pid : u.proc[p].priority = t.proc[p].priority
  BY <1>1, SetKidsCountFields DEF DecrementKidsCount, k
<1> HIDE DEF u
<1> QED
  BY <1>2, DecrementKidsCountWellPlaced DEF u

\* A valid priority creates a child of the running process, an invalid one nothing.
LEMMA CreateEffect ==
  ASSUME NEW t \in Table, WellPlaced(t), t.nextPid \in Pid, NEW priority
  PROVE  LET u == CreateProcess(t, priority)
         IN  /\ u \in Table
             /\ WellPlaced(u)
             /\ u.running = t.running
             /\ priority \notin Priority => u = t
             /\ priority \in Priority =>
                  /\ u.processCount = t.processCount + 1
                  /\ u.nextPid = t.nextPid + 1
                  /\ \A p \in Pid :
                       /\ u.proc[p].state =
                            IF p = t.nextPid THEN "READY" ELSE t.proc[p].state
                       /\ p # t.nextPid => u.proc[p].priority = t.proc[p].priority
                       /\ u.proc[p].parentPID =
                            IF p = t.nextPid THEN t.running ELSE t.proc[p].parentPID
                       /\ u.proc[p].kidsCount =
                            IF p = t.nextPid THEN 0
                            ELSE IF p = t.running THEN t.proc[p].kidsCount + 1
                            ELSE t.proc[p].kidsCount
<1>1. CASE priority \notin Priority
  BY <1>1 DEF CreateProcess
<1>2. CASE priority \in Priority
  <2> DEFINE r == t.running
             n == t.nextPid
             child == [state |-> "READY", priority |-> priority,
                       parentPID |-> r, kidsCount |-> 0]
             k == t.proc[r].kidsCount + 1
             c == SetKidsCount(t, r, k)
             d == AddStruct(c, child)
             u == Enqueue(d, n)
  <2>1. CreateProcess(t, priority) = u
    BY <1>2 DEF CreateProcess
  <2>2. /\ r \in Pid /\ n \in Pid
        /\ child \in Process
        /\ child.state = "READY" /\ child.parentPID = r /\ child.kidsCount = 0
        /\ k \in Int
    <3>1. r \in Pid /\ t.proc[r] \in Process
      BY TableFields
    <3> QED
      BY <1>2, <3>1 DEF Process, ProcessState
  <2> HIDE DEF child, k, r
  <2>3. /\ c \in Table
        /\ c.running = t.running
        /\ c.processCount = t.processCount
        /\ c.nextPid = n
        /\ \A p \in Pid :
             /\ c.proc[p].state = t.proc[p].state
             /\ c.proc[p].priority = t.proc[p].priority
             /\ c.proc[p].parentPID = t.proc[p].parentPID
             /\ c.proc[p].kidsCount = IF p = r THEN k ELSE t.proc[p].kidsCount
    BY <2>2, SetKidsCountFields
  <2> HIDE DEF c
  <2>4. /\ d \in Table
        /\ d.running = t.running
        /\ d.processCount = t.processCount + 1
        /\ d.nextPid = n + 1
        /\ \A p \in Pid : d.proc[p] = IF p = n THEN child ELSE c.proc[p]
    BY <2>2, <2>3, AddStructFields
  <2> HIDE DEF d
  <2>5. /\ u.running = t.running
        /\ u.processCount = t.processCount + 1
        /\ u.nextPid = n + 1
        /\ \A p \in Pid : u.proc[p] = IF p = n THEN child ELSE c.proc[p]
    <3>1. n \in Pid
      BY <2>2
    <3>2. /\ u.running = d.running
          /\ u.processCount = d.processCount
          /\ u.nextPid = d.nextPid
          /\ u.proc = d.proc
      BY <2>4, <3>1, EnqueueFields
    <3> QED
      BY <2>4, <3>2
  <2> HIDE DEF u
  <2>6. \A p \in Pid :
          /\ u.proc[p].state = IF p = n THEN "READY" ELSE t.proc[p].state
          /\ p # n => u.proc[p].priority = t.proc[p].priority
          /\ u.proc[p].parentPID = IF p = n THEN r ELSE t.proc[p].parentPID
          /\ u.proc[p].kidsCount = IF p = n THEN 0
                                   ELSE IF p = r THEN t.proc[p].kidsCount + 1
                                   ELSE t.proc[p].kidsCount
    BY <2>2, <2>3, <2>5 DEF k
  <2> QED
    BY <1>2, <2>1, <2>5, <2>6, CreateProcessWellPlaced DEF r
<1> QED
  BY <1>1, <1>2

\* Whoever is alive and not on the cpu is in a list, except the halt process.
LEMMA Waiting ==
  ASSUME NEW t \in Table, WellPlaced(t), NEW p \in Pid
  PROVE  IsBlocked(t, p) \/ IsReady(t, p) <=> IsLive(t, p) /\ p \notin {t.running, Halt}
<1>1. t.proc[p].state \in ProcessState
  BY TableFields, ProcessFields
<1> QED
  BY <1>1 DEF WellPlaced, IsLive, ProcessState

LEMMA KillRunningEffect ==
  ASSUME NEW t \in Table, WellPlaced(t), t.running # Halt
  PROVE  LET u == KillRunning(t)
             parent == t.proc[t.running].parentPID
         IN  /\ u \in Table
             /\ WellPlaced(u)
             /\ u.running = t.running
             /\ SameStructs(t, u)
             /\ \A p \in Pid :
                  u.proc[p].state = IF p = t.running THEN "EXITED"
                                    ELSE IF p = parent /\ IsBlocked(t, p) THEN "READY"
                                    ELSE t.proc[p].state
<1> DEFINE a == SetState(t, t.running, "EXITED")
           parent == t.proc[t.running].parentPID
           u == Unblock(a, parent)
<1>1. parent \in Pid /\ t.running \in Pid /\ "EXITED" \in ProcessState \ {"FREE"}
  <2>1. "EXITED" \in ProcessState \ {"FREE"}
    BY DEF ProcessState
  <2> QED
    BY <2>1, TableFields, ProcessFields
<1>2. KillRunning(t) = u
  BY DEF KillRunning
<1> HIDE DEF parent
<1>3. /\ a \in Table
      /\ WellPlaced(a)
      /\ a.running = t.running
      /\ a.blocked = t.blocked
      /\ SameStructs(t, a)
      /\ \A p \in Pid : a.proc[p].state = IF p = t.running THEN "EXITED" ELSE t.proc[p].state
  BY <1>1, SetStateFields, SetRunningStateWellPlaced DEF SameStructs
<1> HIDE DEF a
<1>4. /\ u \in Table
      /\ WellPlaced(u)
      /\ u.running = t.running
      /\ SameStructs(t, u)
      /\ \A p \in Pid :
           u.proc[p].state =
             IF p = parent /\ IsBlocked(a, parent) THEN "READY" ELSE a.proc[p].state
  BY <1>1, <1>3, UnblockEffect DEF SameStructs
<1>5. IsBlocked(a, parent) <=> IsBlocked(t, parent)
  BY <1>3 DEF IsBlocked
<1>6. IsBlocked(t, parent) => parent # t.running
  BY <1>1 DEF WellPlaced
<1> HIDE DEF u
<1>7. \A p \in Pid :
        u.proc[p].state = IF p = t.running THEN "EXITED"
                          ELSE IF p = parent /\ IsBlocked(t, p) THEN "READY"
                          ELSE t.proc[p].state
  BY <1>3, <1>4, <1>5, <1>6
<1> QED
  BY <1>2, <1>4, <1>7 DEF parent

\* The parent, who waits unless it is gone or is the halt process, counts one child less.
LEMMA ExitRunningEffect ==
  ASSUME NEW t \in Table, WellPlaced(t), t.running # Halt
  PROVE  LET u == ExitRunning(t)
             parent == t.proc[t.running].parentPID
         IN  /\ u \in Table
             /\ WellPlaced(u)
             /\ u.running = t.running
             /\ u.processCount = t.processCount
             /\ u.nextPid = t.nextPid
             /\ \A p \in Pid :
                  /\ u.proc[p].state = IF p = t.running THEN "EXITED"
                                       ELSE IF p = parent /\ IsBlocked(t, p) THEN "READY"
                                       ELSE t.proc[p].state
                  /\ u.proc[p].priority = t.proc[p].priority
                  /\ u.proc[p].parentPID = t.proc[p].parentPID
                  /\ u.proc[p].kidsCount =
                       IF p = parent /\ IsLive(t, p) /\ p \notin {t.running, Halt}
                       THEN t.proc[p].kidsCount - 1 ELSE t.proc[p].kidsCount
<1> DEFINE parent == t.proc[t.running].parentPID
           a == KillRunning(t)
           u == DecrementKidsCount(a, parent)
<1>1. parent \in Pid /\ t.running \in Pid
  BY TableFields, ProcessFields
<1>2. ExitRunning(t) = u
  BY DEF ExitRunning
<1>3. /\ a \in Table
      /\ WellPlaced(a)
      /\ a.running = t.running
      /\ SameStructs(t, a)
      /\ \A p \in Pid :
           a.proc[p].state = IF p = t.running THEN "EXITED"
                             ELSE IF p = parent /\ IsBlocked(t, p) THEN "READY"
                             ELSE t.proc[p].state
  BY KillRunningEffect
<1> HIDE DEF a, parent
<1>4. /\ u \in Table
      /\ WellPlaced(u)
      /\ u.running = a.running
      /\ u.processCount = a.processCount
      /\ u.nextPid = a.nextPid
      /\ \A p \in Pid :
           /\ u.proc[p].state = a.proc[p].state
           /\ u.proc[p].priority = a.proc[p].priority
           /\ u.proc[p].parentPID = a.proc[p].parentPID
           /\ u.proc[p].kidsCount =
                IF p = parent /\ (IsBlocked(a, parent) \/ IsReady(a, parent))
                THEN a.proc[p].kidsCount - 1 ELSE a.proc[p].kidsCount
  BY <1>1, <1>3, DecrementEffect
<1>5. IsLive(a, parent) <=> IsLive(t, parent)
  <2>1. IsLive(t, t.running)
    BY DEF WellPlaced
  <2>2. IsBlocked(t, parent) => t.proc[parent].state = "BLOCKED"
    BY <1>1 DEF WellPlaced
  <2> QED
    BY <1>1, <1>3, <2>1, <2>2 DEF IsLive
<1>6. IsBlocked(a, parent) \/ IsReady(a, parent) <=>
        IsLive(t, parent) /\ parent \notin {t.running, Halt}
  BY <1>1, <1>3, <1>5, Waiting
<1> HIDE DEF u
<1> QED
  BY <1>2, <1>3, <1>4, <1>6 DEF parent, SameStructs

Killable(t, pid) == pid # Console /\ (IsBlocked(t, pid) \/ IsReady(t, pid))

LEMMA KillOtherEffect ==
  ASSUME NEW t \in Table, WellPlaced(t), NEW pid \in Pid
  PROVE  LET u == KillOther(t, pid)
             parent == t.proc[pid].parentPID
         IN  /\ u \in Table
             /\ WellPlaced(u)
             /\ u.running = t.running
             /\ u.nextPid = t.nextPid
             /\ ~ Killable(t, pid) => u = t
             /\ Killable(t, pid) =>
                  /\ pid # t.running /\ pid # Halt /\ IsLive(t, pid)
                  /\ u.processCount = t.processCount - 1
                  /\ u.proc[pid].state = "FREE"
                  /\ \A p \in Pid \ {pid} :
                       /\ u.proc[p].state = IF p = parent /\ IsBlocked(t, p) THEN "READY"
                                            ELSE t.proc[p].state
                       /\ u.proc[p].priority = t.proc[p].priority
                       /\ u.proc[p].parentPID = t.proc[p].parentPID
                       /\ u.proc[p].kidsCount =
                            IF p = parent /\ IsLive(t, p) /\ p \notin {t.running, Halt}
                            THEN t.proc[p].kidsCount - 1 ELSE t.proc[p].kidsCount
<1>1. CASE ~ Killable(t, pid)
  BY <1>1 DEF KillOther, Killable
<1>2. CASE Killable(t, pid)
  <2> DEFINE parent == t.proc[pid].parentPID
             c == FreeStruct(RemoveBlocked(RemoveReady(t, pid), pid), pid)
             d == DecrementKidsCount(c, parent)
             u == Unblock(d, parent)
  <2>1. KillOther(t, pid) = u
    BY <1>2 DEF KillOther, Killable
  <2>2. parent \in Pid
    BY TableFields, ProcessFields
  <2>3. IsLive(t, pid) /\ pid # t.running /\ pid # Halt
    BY <1>2, Waiting DEF Killable
  <2> HIDE DEF parent
  <2>4. /\ c \in Table
        /\ WellPlaced(c)
        /\ c.running = t.running
        /\ c.processCount = t.processCount - 1
        /\ c.nextPid = t.nextPid
        /\ \A p \in Pid : c.proc[p] = IF p = pid THEN FreeProcess ELSE t.proc[p]
    BY <1>2, FreeWaitingWellPlaced DEF Killable
  <2> HIDE DEF c
  <2>5. /\ d \in Table
        /\ WellPlaced(d)
        /\ d.running = t.running
        /\ d.processCount = t.processCount - 1
        /\ d.nextPid = t.nextPid
        /\ \A p \in Pid :
             /\ d.proc[p].state = c.proc[p].state
             /\ d.proc[p].priority = c.proc[p].priority
             /\ d.proc[p].parentPID = c.proc[p].parentPID
             /\ d.proc[p].kidsCount =
                  IF p = parent /\ (IsBlocked(c, parent) \/ IsReady(c, parent))
                  THEN c.proc[p].kidsCount - 1 ELSE c.proc[p].kidsCount
    BY <2>2, <2>4, DecrementEffect
  <2>6. c.proc[pid].state = "FREE" /\ d.proc[pid].state = "FREE"
    BY <2>4, <2>5 DEF FreeProcess
  <2>7. IsBlocked(c, parent) \/ IsReady(c, parent) <=>
          IsLive(t, parent) /\ parent \notin {t.running, Halt, pid}
    BY <2>2, <2>4, <2>6, Waiting DEF IsLive
  <2>8. IsBlocked(d, parent) <=> IsBlocked(t, parent) /\ parent # pid
    BY <2>2, <2>4, <2>5, <2>6 DEF WellPlaced
  <2> HIDE DEF d
  <2>9. /\ u \in Table
        /\ WellPlaced(u)
        /\ u.running = d.running
        /\ SameStructs(d, u)
        /\ \A p \in Pid :
             u.proc[p].state =
               IF p = parent /\ IsBlocked(d, parent) THEN "READY" ELSE d.proc[p].state
    BY <2>2, <2>5, UnblockEffect
  <2> HIDE DEF u
  <2>10. /\ u.running = t.running
         /\ u.processCount = t.processCount - 1
         /\ u.nextPid = t.nextPid
         /\ u.proc[pid].state = "FREE"
    BY <2>5, <2>6, <2>8, <2>9 DEF SameStructs
  <2>11. ASSUME NEW p \in Pid \ {pid}
         PROVE  /\ u.proc[p].state = IF p = parent /\ IsBlocked(t, p) THEN "READY"
                                     ELSE t.proc[p].state
                /\ u.proc[p].priority = t.proc[p].priority
                /\ u.proc[p].parentPID = t.proc[p].parentPID
                /\ u.proc[p].kidsCount =
                     IF p = parent /\ IsLive(t, p) /\ p \notin {t.running, Halt}
                     THEN t.proc[p].kidsCount - 1 ELSE t.proc[p].kidsCount
    <3>1. c.proc[p] = t.proc[p]
      BY <2>4
    <3> QED
      BY <2>5, <2>7, <2>8, <2>9, <3>1 DEF SameStructs
  <2> QED
    BY <1>2, <2>1, <2>3, <2>9, <2>10, <2>11 DEF parent
<1> QED
  BY <1>1, <1>2

-----------------------------------------------------------------------------
(* priorityScheduler. *)

\* Who waits for the cpu, and who waits for something else.
Rdy(t) == {p \in Pid : IsReady(t, p)}
Blk(t) == {p \in Pid : IsBlocked(t, p)}

LEMMA RetireEffect ==
  ASSUME NEW t \in Table, WellPlaced(t)
  PROVE  LET u == Retire(t)
         IN  /\ u \in Table
             /\ WellPlaced(u)
             /\ OnCpu(u)
             /\ u.nextPid = t.nextPid
             /\ u.running = IF t.proc[t.running].state \in {"EXITED", "BLOCKED"}
                            THEN Halt ELSE t.running
             /\ u.processCount = IF t.proc[t.running].state = "EXITED"
                                 THEN t.processCount - 1 ELSE t.processCount
             /\ \A p \in Pid :
                  u.proc[p] = IF p = t.running /\ t.proc[p].state = "EXITED"
                              THEN FreeProcess ELSE t.proc[p]
<1> DEFINE r == t.running
<1>0. r \in Pid
  BY TableFields
<1>1. CASE t.proc[r].state = "EXITED"
  <2> DEFINE a == FreeStruct(t, r)
             u == [a EXCEPT !.running = Halt]
  <2>1. Retire(t) = u
    BY <1>1 DEF Retire
  <2>2. /\ a \in Table
        /\ a.processCount = t.processCount - 1
        /\ \A p \in Pid : a.proc[p] = IF p = r THEN FreeProcess ELSE t.proc[p]
    BY <1>0, FreeStructFields
  <2> HIDE DEF a
  <2>3. /\ u.running = Halt
        /\ u.processCount = a.processCount
        /\ u.proc = a.proc
    BY <2>2 DEF Table
  <2> HIDE DEF u
  <2> QED
    BY <1>1, <2>1, <2>2, <2>3, RetireWellPlaced
<1>2. CASE t.proc[r].state = "BLOCKED"
  <2> DEFINE a == PushBlocked(t, r)
             u == [a EXCEPT !.running = Halt]
  <2>1. Retire(t) = u
    BY <1>2 DEF Retire
  <2>2. /\ a \in Table
        /\ a.processCount = t.processCount
        /\ a.proc = t.proc
    BY <1>0, PushBlockedFields
  <2> HIDE DEF a
  <2>3. /\ u.running = Halt
        /\ u.processCount = a.processCount
        /\ u.proc = a.proc
    BY <2>2 DEF Table
  <2> HIDE DEF u
  <2> QED
    BY <1>2, <2>1, <2>2, <2>3, RetireWellPlaced
<1>3. CASE t.proc[r].state \notin {"EXITED", "BLOCKED"}
  <2>1. Retire(t) = t
    BY <1>3 DEF Retire
  <2> QED
    BY <1>3, <2>1, RetireWellPlaced
<1> QED
  BY <1>1, <1>2, <1>3

LEMMA AgeEffect ==
  ASSUME NEW t \in Table, WellPlaced(t), OnCpu(t)
  PROVE  LET u == Age(t)
         IN  /\ u \in Table
             /\ WellPlaced(u)
             /\ OnCpu(u)
             /\ u.running = t.running
             /\ u.processCount = t.processCount
             /\ u.nextPid = t.nextPid
             /\ \A p \in Pid :
                  /\ u.proc[p].state = t.proc[p].state
                  /\ u.proc[p].priority =
                       IF p = t.running /\ t.proc[p].priority > 0
                       THEN t.proc[p].priority - 1 ELSE t.proc[p].priority
                  /\ u.proc[p].parentPID = t.proc[p].parentPID
                  /\ u.proc[p].kidsCount = t.proc[p].kidsCount
<1> DEFINE r == t.running
           prio == t.proc[r].priority
           u == SetPriority(t, r, prio - 1)
<1>1. r \in Pid /\ prio \in Priority
  BY TableFields, ProcessFields
<1>2. CASE prio > 0
  <2>1. Age(t) = u
    BY <1>2 DEF Age
  <2>2. prio - 1 \in Priority
    BY <1>1, <1>2, MaxPriorityAssumption DEF Priority
  <2> HIDE DEF prio
  <2>3. /\ u.running = t.running
        /\ u.processCount = t.processCount
        /\ u.nextPid = t.nextPid
        /\ \A p \in Pid :
             /\ u.proc[p].state = t.proc[p].state
             /\ u.proc[p].priority = IF p = r THEN prio - 1 ELSE t.proc[p].priority
             /\ u.proc[p].parentPID = t.proc[p].parentPID
             /\ u.proc[p].kidsCount = t.proc[p].kidsCount
    BY <1>1, <2>2, SetPriorityFields
  <2> HIDE DEF u
  <2> QED
    BY <1>2, <2>1, <2>3, AgeWellPlaced DEF prio
<1>3. CASE ~ (prio > 0)
  <2>1. Age(t) = t
    BY <1>3 DEF Age
  <2> QED
    BY <1>3, <2>1
<1> QED
  BY <1>2, <1>3

\* Nobody is ready at any level that could be searched.
LEMMA NobodyReady ==
  ASSUME NEW t \in Table, t.proc[t.running].priority = 0
  PROVE  Candidates(t) = {} <=> Rdy(t) = {}
<1>1. ASSUME NEW i \in Priority
      PROVE  t.ready[i] # <<>> <=> \E p \in Pid : Contains(t.ready[i], p)
  <2>1. t.ready[i] \in Seq(Pid)
    BY TableFields
  <2>2. t.ready[i] # <<>> => Head(t.ready[i]) \in Pid /\ Contains(t.ready[i], Head(t.ready[i]))
    BY <2>1, HeadTailSplit
  <2>3. t.ready[i] = <<>> => \A p : ~ Contains(t.ready[i], p)
    BY DEF Contains
  <2> QED
    BY <2>2, <2>3
<1>2. \A i \in Priority : i >= 0
  BY PriorityNat
<1> QED
  BY <1>1, <1>2 DEF Candidates, Rdy, IsReady

\* The process on the cpu keeps it or changes places with one that waited.
LEMMA DispatchEffect ==
  ASSUME NEW t \in Table, WellPlaced(t), OnCpu(t)
  PROVE  LET u == Dispatch(t)
         IN  /\ u \in Table
             /\ WellPlaced(u)
             /\ OnCpu(u)
             /\ SameStructs(t, u)
             /\ \A p \in Pid \ {t.running, u.running} : u.proc[p].state = t.proc[p].state
             /\ \/ u.running = t.running /\ (t.running = Halt => Candidates(t) = {})
                \/ u.running \in Rdy(t) /\ u.proc[t.running].state = "READY"
<1>1. CASE Candidates(t) = {}
  <2>1. Dispatch(t) = t
    BY <1>1 DEF Dispatch
  <2> QED
    BY <1>1, <2>1 DEF SameStructs
<1>2. CASE Candidates(t) # {}
  <2> DEFINE i == Max(Candidates(t))
             q == Requeue(t)
             s == TakeHead(q, i)
             h == s.running
             u == SetState(s, h, "RUNNING")
  <2>1. Dispatch(t) = u
    BY <1>2 DEF Dispatch
  <2>2. i \in Priority /\ t.ready[i] # <<>>
    <3>1. MaxPriority - 1 \in Nat /\ Candidates(t) \subseteq 0 .. MaxPriority - 1
      BY MaxPriorityAssumption DEF Candidates, Priority
    <3>2. i \in Candidates(t)
      BY <1>2, <3>1, MaxProperties
    <3> QED
      BY <3>2 DEF Candidates
  <2> HIDE DEF i
  <2>3. /\ q \in Table
        /\ q.processCount = t.processCount
        /\ q.nextPid = t.nextPid
        /\ \A p \in Pid :
             /\ q.proc[p].state = IF p = t.running THEN "READY" ELSE t.proc[p].state
             /\ q.proc[p].priority = t.proc[p].priority
             /\ q.proc[p].parentPID = t.proc[p].parentPID
             /\ q.proc[p].kidsCount = t.proc[p].kidsCount
        /\ q.ready[i] # <<>>
        /\ \A p \in Pid : IsReady(q, p) <=> q.proc[p].state = "READY" /\ p # Halt
    BY <2>2, RequeueFields DEF Requeued
  <2> HIDE DEF q
  <2>4. q.ready[i] \in Seq(Pid)
    BY <2>2, <2>3, TableFields
  <2>5. /\ s \in Table
        /\ h = Head(q.ready[i])
        /\ s.proc = q.proc
        /\ s.processCount = q.processCount
        /\ s.nextPid = q.nextPid
    BY <2>2, <2>3, TakeHeadFields
  <2> HIDE DEF s
  <2>6. h \in Pid /\ Contains(q.ready[i], h)
    BY <2>3, <2>4, <2>5, HeadTailSplit
  <2>7. q.proc[h].state = "READY" /\ h # Halt
    BY <2>2, <2>3, <2>6 DEF IsReady
  <2>8. h # t.running => h \in Rdy(t)
    BY <2>3, <2>6, <2>7 DEF WellPlaced, Rdy
  <2>9. u.running = h
    <3>1. "RUNNING" \in ProcessState
      BY DEF ProcessState
    <3> QED
      BY <2>5, <2>6, <3>1, SetStateFields
  <2> HIDE DEF h
  <2>10. /\ u.processCount = s.processCount
         /\ u.nextPid = s.nextPid
         /\ \A p \in Pid :
              /\ u.proc[p].state = IF p = h THEN "RUNNING" ELSE s.proc[p].state
              /\ u.proc[p].priority = s.proc[p].priority
              /\ u.proc[p].parentPID = s.proc[p].parentPID
              /\ u.proc[p].kidsCount = s.proc[p].kidsCount
    <3>1. "RUNNING" \in ProcessState
      BY DEF ProcessState
    <3> QED
      BY <2>5, <2>6, <3>1, SetStateFields
  <2> HIDE DEF u
  <2>11. t.running \in Pid
    BY TableFields
  <2>12. SameStructs(t, u)
    BY <2>3, <2>5, <2>10 DEF SameStructs
  <2>13. \A p \in Pid \ {t.running, u.running} : u.proc[p].state = t.proc[p].state
    BY <2>3, <2>5, <2>9, <2>10
  <2>14. h # t.running => u.proc[t.running].state = "READY"
    BY <2>3, <2>5, <2>10, <2>11
  <2> QED
    BY <2>1, <2>7, <2>8, <2>9, <2>12, <2>13, <2>14, DispatchWellPlaced
<1> QED
  BY <1>1, <1>2

\* An interrupt on the table t, up to the timer handler.
LEMMA PrioritySchedulerEffect ==
  ASSUME NEW t \in Table, WellPlaced(t), t.proc[Halt].priority = 0
  PROVE  LET u == PriorityScheduler(t)
             exited == t.proc[t.running].state = "EXITED"
         IN  /\ u \in Table
             /\ WellPlaced(u)
             /\ OnCpu(u)
             /\ u.nextPid = t.nextPid
             /\ u.proc[Halt].priority = 0
             /\ u.processCount = IF exited THEN t.processCount - 1 ELSE t.processCount
             /\ \A p \in Pid \ {t.running} :
                  /\ p # u.running => u.proc[p].state = t.proc[p].state
                  /\ u.proc[p].priority = t.proc[p].priority
                  /\ u.proc[p].parentPID = t.proc[p].parentPID
                  /\ u.proc[p].kidsCount = t.proc[p].kidsCount
             /\ ~ exited =>
                  /\ u.proc[t.running].parentPID = t.proc[t.running].parentPID
                  /\ u.proc[t.running].kidsCount = t.proc[t.running].kidsCount
             /\ \/ u.running \in Rdy(t)
                \/ u.running = t.running /\ OnCpu(t) /\ t.running # Halt
                \/ u.running = Halt /\ Rdy(t) = {} /\ (t.running = Halt \/ ~ OnCpu(t))
             /\ u.running # t.running =>
                  u.proc[t.running].state = IF exited THEN "FREE"
                                            ELSE IF OnCpu(t) THEN "READY"
                                            ELSE "BLOCKED"
<1> DEFINE a == Retire(t)
           b == Age(a)
           u == Dispatch(b)
           exited == t.proc[t.running].state = "EXITED"
<1>0. /\ t.running \in Pid
      /\ t.proc[t.running].state \in ProcessState \ {"FREE"}
      /\ FreeProcess.state = "FREE" /\ FreeProcess.priority = 0
  BY TableFields, ProcessFields DEF WellPlaced, IsLive, FreeProcess
<1>1. PriorityScheduler(t) = u
  BY DEF PriorityScheduler
<1>2. /\ a \in Table
      /\ WellPlaced(a)
      /\ OnCpu(a)
      /\ a.nextPid = t.nextPid
      /\ a.running = IF OnCpu(t) THEN t.running ELSE Halt
      /\ a.processCount = IF exited THEN t.processCount - 1 ELSE t.processCount
      /\ \A p \in Pid : a.proc[p] = IF p = t.running /\ exited THEN FreeProcess ELSE t.proc[p]
  BY <1>0, RetireEffect DEF OnCpu, ProcessState
<1>3. exited \/ t.proc[t.running].state = "BLOCKED" <=> ~ OnCpu(t)
  BY <1>0 DEF OnCpu, ProcessState
<1> HIDE DEF a
<1>4. a.proc[Halt].priority = 0
  BY <1>0, <1>2, PidNat
<1>5. Rdy(a) = Rdy(t)
  <2>1. \A p \in Pid : IsReady(a, p) <=> a.proc[p].state = "READY" /\ p \notin {a.running, Halt}
    BY <1>2 DEF WellPlaced
  <2>2. \A p \in Pid : IsReady(t, p) <=> t.proc[p].state = "READY" /\ p \notin {t.running, Halt}
    BY DEF WellPlaced
  <2>3. \A p \in Pid : IsReady(a, p) <=> IsReady(t, p)
    BY <1>0, <1>2, <2>1, <2>2 DEF OnCpu
  <2> QED
    BY <2>3 DEF Rdy
<1>6. /\ b \in Table
      /\ WellPlaced(b)
      /\ OnCpu(b)
      /\ b.nextPid = a.nextPid
      /\ b.running = a.running
      /\ b.processCount = a.processCount
      /\ \A p \in Pid :
           /\ b.proc[p].state = a.proc[p].state
           /\ b.proc[p].priority = IF p = a.running /\ a.proc[p].priority > 0
                                   THEN a.proc[p].priority - 1 ELSE a.proc[p].priority
           /\ b.proc[p].parentPID = a.proc[p].parentPID
           /\ b.proc[p].kidsCount = a.proc[p].kidsCount
  BY <1>2, AgeEffect
<1> HIDE DEF b
<1>7. b.proc[Halt].priority = 0
  BY <1>4, <1>6, PidNat
<1>8. Rdy(b) = Rdy(a)
  BY <1>2, <1>6 DEF WellPlaced, Rdy
<1>9. /\ u \in Table
      /\ WellPlaced(u)
      /\ OnCpu(u)
      /\ SameStructs(b, u)
      /\ \A p \in Pid \ {b.running, u.running} : u.proc[p].state = b.proc[p].state
      /\ \/ u.running = b.running /\ (b.running = Halt => Candidates(b) = {})
         \/ u.running \in Rdy(b) /\ u.proc[b.running].state = "READY"
  BY <1>6, DispatchEffect
<1> HIDE DEF u
<1>10. b.running = Halt => (Candidates(b) = {} <=> Rdy(b) = {})
  BY <1>6, <1>7, NobodyReady
<1>11. Halt \in Pid /\ u.proc[Halt].state = "READY" /\ b.proc[Halt].state = "READY"
  BY <1>6, <1>9, PidNat DEF WellPlaced
<1>12. u.proc[Halt].priority = 0
  BY <1>7, <1>9, PidNat DEF SameStructs
<1>13. ASSUME NEW p \in Pid \ {t.running}
       PROVE  /\ p # u.running => u.proc[p].state = t.proc[p].state
              /\ u.proc[p].priority = t.proc[p].priority
              /\ u.proc[p].parentPID = t.proc[p].parentPID
              /\ u.proc[p].kidsCount = t.proc[p].kidsCount
  <2>1. a.proc[p] = t.proc[p]
    BY <1>2
  <2>2. p = a.running => p = Halt
    BY <1>2
  <2>3. p # u.running => u.proc[p].state = b.proc[p].state
    BY <1>6, <1>9, <1>11, <2>2
  <2>4. b.proc[p].priority = a.proc[p].priority
    BY <1>4, <1>6, <2>2
  <2> QED
    BY <1>6, <1>9, <2>1, <2>3, <2>4 DEF SameStructs
<1>14. ~ exited => /\ u.proc[t.running].parentPID = t.proc[t.running].parentPID
                   /\ u.proc[t.running].kidsCount = t.proc[t.running].kidsCount
  BY <1>0, <1>2, <1>6, <1>9 DEF SameStructs
<1>15. \/ u.running \in Rdy(t)
       \/ u.running = t.running /\ OnCpu(t) /\ t.running # Halt
       \/ u.running = Halt /\ Rdy(t) = {} /\ (t.running = Halt \/ ~ OnCpu(t))
  BY <1>2, <1>5, <1>6, <1>8, <1>9, <1>10
<1>16. ASSUME u.running # t.running
       PROVE  u.proc[t.running].state = IF exited THEN "FREE"
                                        ELSE IF OnCpu(t) THEN "READY" ELSE "BLOCKED"
  <2>1. CASE OnCpu(t)
    BY <1>0, <1>2, <1>3, <1>6, <1>9, <1>16, <2>1
  <2>2. CASE ~ OnCpu(t)
    <3>1. t.running # Halt
      BY <1>3, <2>2 DEF WellPlaced
    <3>2. u.proc[t.running].state = a.proc[t.running].state
      BY <1>0, <1>2, <1>6, <1>9, <1>16, <2>2, <3>1
    <3> QED
      BY <1>0, <1>2, <1>3, <2>2, <3>2
  <2> QED
    BY <2>1, <2>2
<1> QED
  BY <1>1, <1>2, <1>6, <1>9, <1>12, <1>13, <1>14, <1>15, <1>16 DEF SameStructs

-----------------------------------------------------------------------------
(* The sleep timers. *)

LEMMA EntryTypes ==
  ASSUME NEW s \in Seq(SleepEntry)
  PROVE  /\ \A i \in 1 .. Len(s) : /\ s[i] \in SleepEntry
                                   /\ s[i].pid \in Pid
                                   /\ s[i].ticksLeft \in Int
                                   /\ CountDown(s[i]) \in SleepEntry
         /\ Len(s) \in Nat
         /\ DOMAIN s = 1 .. Len(s)
         /\ s \in [1 .. Len(s) -> SleepEntry]
<1>1. /\ Len(s) \in Nat
      /\ DOMAIN s = 1 .. Len(s)
      /\ s \in [1 .. Len(s) -> SleepEntry]
  OBVIOUS
<1>2. ASSUME NEW e \in SleepEntry
      PROVE  e.pid \in Pid /\ e.ticksLeft \in Int /\ CountDown(e) \in SleepEntry
  BY DEF SleepEntry, CountDown
<1>3. \A i \in 1 .. Len(s) : s[i] \in SleepEntry
  BY <1>1
<1> QED
  BY <1>1, <1>2, <1>3

LEMMA FirstOf ==
  ASSUME NEW n \in Nat, NEW T, T \subseteq 1 .. n, T # {}
  PROVE  Min(T) \in T /\ Min(T) \in 1 .. n
BY MinProperties, 1 .. n \subseteq Nat

LEMMA SeqFromFunction ==
  ASSUME NEW S, NEW n \in Nat, NEW f \in [1 .. n -> S]
  PROVE  f \in Seq(S)
OBVIOUS

LEMMA AddProcSleepType ==
  ASSUME NEW s \in Seq(SleepEntry), NEW pid \in Pid, NEW ticks \in Int
  PROVE  AddProcSleep(s, pid, ticks) \in Seq(SleepEntry)
<1> DEFINE m == Min(EntriesOf(s, pid))
<1>1. CASE EntriesOf(s, pid) = {}
  <2>1. [pid |-> pid, ticksLeft |-> ticks] \in SleepEntry
    BY DEF SleepEntry
  <2>2. Cons([pid |-> pid, ticksLeft |-> ticks], s) \in Seq(SleepEntry)
    BY <2>1, ConsNewProperties
  <2> QED
    BY <1>1, <2>2 DEF AddProcSleep
<1>2. CASE EntriesOf(s, pid) # {}
  <2>1. EntriesOf(s, pid) \subseteq 1 .. Len(s) /\ Len(s) \in Nat
    BY EntryTypes DEF EntriesOf
  <2>2. m \in 1 .. Len(s)
    BY <1>2, <2>1, FirstOf
  <2> HIDE DEF m
  <2> DEFINE e == [s[m] EXCEPT !.ticksLeft = s[m].ticksLeft + ticks]
  <2>3. e \in SleepEntry
    <3>1. s[m] \in SleepEntry
      BY <2>2, EntryTypes
    <3> QED
      BY <3>1 DEF SleepEntry
  <2>4. AddProcSleep(s, pid, ticks) = [s EXCEPT ![m] = e]
    BY <1>2 DEF AddProcSleep, m
  <2> HIDE DEF e
  <2>5. [s EXCEPT ![m] = e] \in [1 .. Len(s) -> SleepEntry]
    BY <2>2, <2>3, EntryTypes
  <2> QED
    BY <2>1, <2>4, <2>5, SeqFromFunction
<1> QED
  BY <1>1, <1>2

LEMMA CheckTimersType ==
  ASSUME NEW s \in Seq(SleepEntry)
  PROVE  CheckTimers(s) \in Seq(SleepEntry)
<1> DEFINE m == Min(Due(s))
<1>1. CASE Due(s) = {}
  <2>1. [i \in DOMAIN s |-> CountDown(s[i])] \in [1 .. Len(s) -> SleepEntry]
    BY EntryTypes
  <2> QED
    BY <1>1, <2>1, EntryTypes, SeqFromFunction DEF CheckTimers
<1>2. CASE Due(s) # {}
  <2>1. Due(s) \subseteq 1 .. Len(s) /\ Len(s) \in Nat
    BY EntryTypes DEF Due
  <2>2. m \in 1 .. Len(s)
    BY <1>2, <2>1, FirstOf
  <2> DEFINE f == [i \in 1 .. Len(s) - 1 |->
                     IF i < m THEN CountDown(s[i]) ELSE s[i + 1]]
  <2>3. CheckTimers(s) = f
    BY <1>2 DEF CheckTimers
  <2> HIDE DEF m
  <2>4. Len(s) - 1 \in Nat
    BY <2>1, <2>2
  <2>5. ASSUME NEW i \in 1 .. Len(s) - 1
        PROVE  (IF i < m THEN CountDown(s[i]) ELSE s[i + 1]) \in SleepEntry
    <3>1. i \in 1 .. Len(s) /\ i + 1 \in 1 .. Len(s)
      BY <2>1, <2>5
    <3> QED
      BY <3>1, EntryTypes
  <2>6. f \in [1 .. Len(s) - 1 -> SleepEntry]
    BY <2>5
  <2> HIDE DEF f
  <2> QED
    BY <2>3, <2>4, <2>6, SeqFromFunction
<1> QED
  BY <1>1, <1>2

\* The timer wakes a blocked process and changes nothing else, so whoever holds
\* the cpu after priorityScheduler keeps it.
LEMMA WakeDueWellPlaced ==
  ASSUME NEW t \in Table, WellPlaced(t), OnCpu(t), NEW s \in Seq(SleepEntry)
  PROVE  LET u == WakeDue(t, s)
         IN  /\ u \in Table
             /\ WellPlaced(u)
             /\ OnCpu(u)
             /\ u.running = t.running
             /\ u.nextPid = t.nextPid
<1>1. CASE Due(s) = {}
  BY <1>1 DEF WakeDue
<1>2. CASE Due(s) # {}
  <2> DEFINE pid == s[Min(Due(s))].pid
             u == Unblock(t, pid)
  <2>1. Due(s) \subseteq 1 .. Len(s) /\ Len(s) \in Nat
    BY EntryTypes DEF Due
  <2>2. Min(Due(s)) \in 1 .. Len(s)
    BY <1>2, <2>1, FirstOf
  <2>3. pid \in Pid
    BY <2>2, EntryTypes
  <2>4. WakeDue(t, s) = u
    BY <1>2 DEF WakeDue
  <2> HIDE DEF pid
  <2>5. u \in Table /\ WellPlaced(u) /\ SameProcesses(t, u)
    BY <2>3, UnblockWellPlaced
  <2> HIDE DEF u
  <2>6. u.running = t.running /\ u.nextPid = t.nextPid /\ OnCpu(u)
    BY <2>5 DEF SameProcesses, OnCpu
  <2> QED
    BY <2>4, <2>5, <2>6
<1> QED
  BY <1>1, <1>2

-----------------------------------------------------------------------------
(* The inductive invariant: the types, and the placement of the processes    *)
(* they are needed for (the lists a call cuts and joins have no duplicates,  *)
(* and whom it finds in one of them is in no other).                         *)

IInv == TypeOK /\ Placement

LEMMA IInvFacts ==
  ASSUME IInv
  PROVE  /\ pcb \in Table
         /\ WellPlaced(pcb)
         /\ OnCpu(pcb)
         /\ Running = pcb.running
         /\ Running \in Pid
         /\ pcb.nextPid \in Nat
         /\ sleeped \in Seq(SleepEntry)
         /\ inCall \in [Pid -> Call]
BY TableFields DEF IInv, TypeOK, Placement, OnCpu, Running

LEMMA InitIInv == Init => IInv
<1> SUFFICES ASSUME Init PROVE IInv
  OBVIOUS
<1> DEFINE r == [FreeProcess EXCEPT !.state = "READY"]
           f == [p \in Pid |-> IF p \in {Halt, Console} THEN r ELSE FreeProcess]
           q == [i \in Priority |-> <<>>]
<1>1. FreeProcess \in Process /\ r \in Process /\ r.state = "READY"
      /\ FreeProcess.state = "FREE"
  BY PriorityNat, PidNat DEF FreeProcess, Process, ProcessState
<1>2. /\ pcb.proc = f
      /\ pcb.running = Console
      /\ pcb.ready = q
      /\ pcb.blocked = <<>>
      /\ pcb.nextPid = 2
      /\ pcb = [running |-> Console, ready |-> q, blocked |-> <<>>, proc |-> f,
                processCount |-> 1, nextPid |-> 2]
  <2>1. [[p \in Pid |-> FreeProcess] EXCEPT ![Halt].state = "READY",
                                            ![Console].state = "READY"] = f
    BY PidNat
  <2> HIDE DEF f, q
  <2>2. pcb = [running |-> Console, ready |-> q, blocked |-> <<>>, proc |-> f,
               processCount |-> 1, nextPid |-> 2]
    BY <2>1 DEF Init, q
  <2> QED
    BY <2>2
<1>3. /\ f \in [Pid -> Process]
      /\ q \in [Priority -> Seq(Pid)]
      /\ \A p \in Pid :
           f[p].state = IF p \in {Halt, Console} THEN "READY" ELSE "FREE"
  BY <1>1
<1> HIDE DEF f
<1>4. TypeOK
  <2>1. pcb \in Table
    <3> HIDE DEF q
    <3>1. <<>> \in Seq(Pid) /\ 1 \in Int /\ 2 \in Nat
      OBVIOUS
    <3> QED
      BY <1>2, <1>3, <3>1, PidNat DEF Table
  <2>2. sleeped \in Seq(SleepEntry) /\ inCall \in [Pid -> Call]
    BY DEF Init, Call
  <2> QED
    BY <2>1, <2>2 DEF TypeOK
<1>5. Placement
  <2>1. \A s : s = <<>> => IsInjective(s) /\ \A x : ~ Contains(s, x)
    BY DEF IsInjective, Contains
  <2>2. \A i \in Priority : pcb.ready[i] = <<>>
    BY <1>2
  <2> HIDE DEF q
  <2>3. \A p \in Pid : ~ IsReady(pcb, p) /\ ~ IsBlocked(pcb, p)
    BY <1>2, <2>1, <2>2 DEF IsReady, IsBlocked
  <2>4. /\ IsInjective(pcb.blocked)
        /\ \A i \in Priority : IsInjective(pcb.ready[i])
        /\ \A i, j \in Priority, p \in Pid :
             Contains(pcb.ready[i], p) /\ Contains(pcb.ready[j], p) => i = j
    BY <1>2, <2>1, <2>2
  <2>5. \A p \in Pid : pcb.proc[p].state = IF p \in {Halt, Console}
                                           THEN "READY" ELSE "FREE"
    BY <1>2, <1>3
  <2>6. \A p \in Pid : p >= pcb.nextPid => p \notin {Halt, Console}
    BY <1>2, PidNat DEF Halt, Console
  <2>7. WellPlaced(pcb)
    <3>1. /\ \A p \in Pid : IsBlocked(pcb, p) <=> /\ pcb.proc[p].state = "BLOCKED"
                                                  /\ p # pcb.running
          /\ \A p \in Pid : IsReady(pcb, p) <=> /\ pcb.proc[p].state = "READY"
                                                /\ p \notin {pcb.running, Halt}
          /\ \A p \in Pid : pcb.proc[p].state \in {"RUNNING", "EXITED"}
                              => p = pcb.running
      BY <1>2, <2>3, <2>5
    <3>2. IsLive(pcb, pcb.running) /\ pcb.proc[Halt].state = "READY"
      BY <1>2, <2>5, PidNat DEF IsLive
    <3>3. \A p \in Pid : p >= pcb.nextPid => ~ IsLive(pcb, p)
      BY <2>5, <2>6 DEF IsLive
    <3> QED
      BY <2>4, <3>1, <3>2, <3>3 DEF WellPlaced
  <2>8. pcb.proc[Running].state = "READY"
    BY <1>2, <2>5, PidNat DEF Running
  <2> QED
    BY <2>7, <2>8 DEF Placement
<1> QED
  BY <1>4, <1>5 DEF IInv

-----------------------------------------------------------------------------
(* Steps. *)

\* Any interrupt, on whatever table the call that raised it has left.
LEMMA FireTimerIntKeeps ==
  ASSUME IInv, NEW t \in Table, WellPlaced(t), NEW s \in Seq(SleepEntry),
         NEW call \in Call, FireTimerInt(t, s, call)
  PROVE  IInv'
<1> DEFINE u == PriorityScheduler(t)
           w == WakeDue(u, s)
<1>1. u \in Table /\ WellPlaced(u) /\ OnCpu(u)
  BY PrioritySchedulerWellPlaced
<1> HIDE DEF u
<1>2. w \in Table /\ WellPlaced(w) /\ OnCpu(w)
  BY <1>1, WakeDueWellPlaced
<1>3. pcb' = w
  BY DEF FireTimerInt, u
<1> HIDE DEF w
<1>4. pcb' \in Table /\ Placement'
  BY <1>2, <1>3 DEF Placement, OnCpu, Running
<1>5. sleeped' \in Seq(SleepEntry)
  BY CheckTimersType DEF FireTimerInt
<1>6. inCall' \in [Pid -> Call]
  <2>1. "none" \in Call /\ inCall \in [Pid -> Call]
    BY IInvFacts DEF Call
  <2>2. inCall' = [p \in Pid |->
                     IF p = pcb'.running \/ pcb'.proc[p].state = "FREE" THEN "none"
                     ELSE IF p = t.running THEN call
                     ELSE inCall[p]]
    BY DEF FireTimerInt
  <2> QED
    BY <2>1, <2>2
<1> QED
  BY <1>4, <1>5, <1>6 DEF IInv, TypeOK

LEMMA ReturnKeeps ==
  ASSUME IInv, NEW t \in Table, WellPlaced(t), OnCpu(t), Return(t)
  PROVE  IInv'
<1>1. pcb' = t /\ sleeped' = sleeped
  BY DEF Return
<1>2. pcb' \in Table /\ Placement'
  BY <1>1 DEF Placement, OnCpu, Running
<1>3. sleeped' \in Seq(SleepEntry)
  BY <1>1, IInvFacts
<1>4. inCall' \in [Pid -> Call]
  <2>1. "none" \in Call /\ inCall \in [Pid -> Call]
    BY IInvFacts DEF Call
  <2>2. inCall' = [p \in Pid |->
                     IF t.proc[p].state = "FREE" THEN "none" ELSE inCall[p]]
    BY DEF Return
  <2> QED
    BY <2>1, <2>2
<1> QED
  BY <1>2, <1>3, <1>4 DEF IInv, TypeOK

LEMMA BlockInKeeps ==
  ASSUME IInv, NEW t \in Table, WellPlaced(t), t.running = Running,
         NEW s \in Seq(SleepEntry), NEW call \in Call, BlockIn(t, s, call)
  PROVE  IInv'
<1> DEFINE b == SetState(t, t.running, "BLOCKED")
<1>1. "BLOCKED" \in ProcessState \ {"FREE"}
  BY DEF ProcessState
<1>2. t.running # Halt
  BY DEF BlockIn
<1>3. b \in Table /\ WellPlaced(b)
  BY <1>1, <1>2, SetRunningStateWellPlaced
<1>4. FireTimerInt(b, s, call)
  BY DEF BlockIn
<1> HIDE DEF b
<1> QED
  BY <1>3, <1>4, FireTimerIntKeeps

LEMMA CreateKeeps ==
  ASSUME IInv, NEW n \in {1, 2}, PidsLeft(n), NEW priority
  PROVE  LET u == CreateProcess(pcb, priority)
         IN  /\ u \in Table
             /\ WellPlaced(u)
             /\ OnCpu(u)
             /\ u.running = Running
             /\ n = 2 => u.nextPid \in Pid
<1>1. pcb.nextPid \in Nat /\ pcb.nextPid + n <= MaxPid + 1 /\ MaxPid \in Nat
  BY IInvFacts, MaxPidAssumption DEF PidsLeft
<1>2. /\ pcb.nextPid \in Pid
      /\ n = 2 => pcb.nextPid + 1 \in Pid
  BY <1>1 DEF Pid
<1> DEFINE u == CreateProcess(pcb, priority)
<1>3. /\ u \in Table
      /\ WellPlaced(u)
      /\ u.running = pcb.running
      /\ u.proc[u.running].state = pcb.proc[pcb.running].state
      /\ u.nextPid \in pcb.nextPid .. pcb.nextPid + 1
  BY <1>2, IInvFacts, CreateProcessWellPlaced
<1> HIDE DEF u
<1>4. u.nextPid \in {pcb.nextPid, pcb.nextPid + 1}
  BY <1>1, <1>3
<1>5. OnCpu(u) /\ u.running = Running
  BY <1>3, IInvFacts DEF OnCpu
<1> QED
  BY <1>2, <1>3, <1>4, <1>5 DEF u

LEMMA OrderlyStepKeeps == IInv /\ OrderlyStep => IInv'
<1> SUFFICES ASSUME IInv, OrderlyStep PROVE IInv'
  OBVIOUS
<1>0. "none" \in Call /\ "create_with_pipes" \in Call /\ "wait" \in Call
  BY DEF Call
<1>1. CASE TimerInterrupt
  BY <1>0, <1>1, IInvFacts, FireTimerIntKeeps DEF TimerInterrupt
<1>2. CASE Yield
  BY <1>0, <1>2, IInvFacts, FireTimerIntKeeps DEF Yield
<1>3. CASE Exit
  <2> DEFINE u == ExitRunning(pcb)
  <2>1. pcb.running # Halt
    BY <1>3 DEF Exit, Running
  <2>2. u \in Table /\ WellPlaced(u)
    BY <2>1, IInvFacts, ExitRunningWellPlaced
  <2>3. FireTimerInt(u, sleeped, "none")
    BY <1>3 DEF Exit
  <2> HIDE DEF u
  <2> QED
    BY <1>0, <2>2, <2>3, IInvFacts, FireTimerIntKeeps
<1>4. ASSUME NEW priority \in Priority, CreateBackground(priority)
      PROVE  IInv'
  <2> DEFINE u == CreateProcess(pcb, priority)
  <2>1. u \in Table /\ WellPlaced(u) /\ OnCpu(u)
    BY <1>4, CreateKeeps DEF CreateBackground
  <2>2. Return(u)
    BY <1>4 DEF CreateBackground
  <2> HIDE DEF u
  <2> QED
    BY <2>1, <2>2, ReturnKeeps
<1>5. CASE CreateWithPipes
  <2> DEFINE u == CreateProcess(pcb, 0)
             w == CreateProcess(u, 0)
  <2>1. u \in Table /\ WellPlaced(u) /\ u.running = Running /\ u.nextPid \in Pid
    BY <1>5, CreateKeeps DEF CreateWithPipes
  <2>2. BlockIn(w, sleeped, "create_with_pipes")
    BY <1>5 DEF CreateWithPipes
  <2> HIDE DEF u
  <2>3. w \in Table /\ WellPlaced(w) /\ w.running = Running
    BY <2>1, CreateProcessWellPlaced
  <2> HIDE DEF w
  <2> QED
    BY <1>0, <2>2, <2>3, IInvFacts, BlockInKeeps
<1>6. CASE Wait
  BY <1>0, <1>6, IInvFacts, BlockInKeeps DEF Wait
<1> QED
  BY <1>1, <1>2, <1>3, <1>4, <1>5, <1>6 DEF OrderlyStep

LEMMA CreateStepKeeps ==
  ASSUME IInv, NEW priority,
         CreateBackground(priority) \/ CreateForeground(priority)
  PROVE  IInv'
<1> DEFINE u == CreateProcess(pcb, priority)
<1>1. u \in Table /\ WellPlaced(u) /\ OnCpu(u) /\ u.running = Running
  BY CreateKeeps DEF CreateBackground, CreateForeground
<1>2. CASE CreateBackground(priority)
  <2>1. Return(u)
    BY <1>2 DEF CreateBackground
  <2> HIDE DEF u
  <2> QED
    BY <1>1, <2>1, ReturnKeeps
<1>3. CASE CreateForeground(priority)
  <2>1. BlockIn(u, sleeped, "create_foreground") /\ "create_foreground" \in Call
    BY <1>3 DEF CreateForeground, Call
  <2> HIDE DEF u
  <2> QED
    BY <1>1, <2>1, IInvFacts, BlockInKeeps
<1> QED
  BY <1>2, <1>3

LEMMA KillStepKeeps == IInv /\ KillStep => IInv'
<1> SUFFICES ASSUME IInv, KillStep PROVE IInv'
  OBVIOUS
<1>1. CASE KillSelf
  <2> DEFINE u == KillRunning(pcb)
  <2>1. pcb.running # Halt
    BY <1>1 DEF KillSelf, Running
  <2>2. u \in Table /\ WellPlaced(u)
    BY <2>1, IInvFacts, KillRunningWellPlaced
  <2>3. FireTimerInt(u, sleeped, "none") /\ "none" \in Call
    BY <1>1 DEF KillSelf, Call
  <2> HIDE DEF u
  <2> QED
    BY <2>2, <2>3, IInvFacts, FireTimerIntKeeps
<1>2. ASSUME NEW pid \in Pid, KillProcess(pid)
      PROVE  IInv'
  <2> DEFINE u == KillOther(pcb, pid)
  <2>1. /\ u \in Table
        /\ WellPlaced(u)
        /\ u.proc[u.running].state = pcb.proc[pcb.running].state
    BY <1>2, IInvFacts, KillOtherWellPlaced
  <2>2. Return(u)
    BY <1>2 DEF KillProcess
  <2> HIDE DEF u
  <2>3. OnCpu(u)
    BY <2>1, IInvFacts DEF OnCpu
  <2> QED
    BY <2>1, <2>2, <2>3, ReturnKeeps
<1> QED
  BY <1>1, <1>2 DEF KillStep

LEMMA SleepStepKeeps == IInv /\ SleepStep => IInv'
<1> SUFFICES ASSUME IInv, NEW ticks \in SleepTicks, Sleep(ticks) PROVE IInv'
  BY DEF SleepStep
<1>1. ticks \in Int
  BY SleepTicksAssumption
<1> DEFINE s == AddProcSleep(sleeped, Running, ticks)
<1>2. s \in Seq(SleepEntry)
  BY <1>1, IInvFacts, AddProcSleepType
<1>3. BlockIn(pcb, s, "sleep") /\ "sleep" \in Call
  BY DEF Sleep, Call
<1> HIDE DEF s
<1> QED
  BY <1>2, <1>3, IInvFacts, BlockInKeeps

LEMMA BlockStepKeeps == IInv /\ BlockStep => IInv'
<1> SUFFICES ASSUME IInv, BlockStep PROVE IInv'
  OBVIOUS
<1>1. CASE BlockSelf
  <2>1. BlockIn(pcb, sleeped, "block") /\ "block" \in Call
    BY <1>1 DEF BlockSelf, Call
  <2> QED
    BY <2>1, IInvFacts, BlockInKeeps
<1>2. ASSUME NEW pid \in Pid, BlockProcess(pid)
      PROVE  IInv'
  <2> DEFINE u == BlockReady(pcb, pid)
  <2>1. u \in Table /\ WellPlaced(u) /\ SameProcesses(pcb, u)
    BY IInvFacts, BlockReadyWellPlaced
  <2>2. Return(u)
    BY <1>2 DEF BlockProcess
  <2> HIDE DEF u
  <2>3. OnCpu(u)
    BY <2>1, IInvFacts DEF OnCpu, SameProcesses
  <2> QED
    BY <2>1, <2>2, <2>3, ReturnKeeps
<1>3. ASSUME NEW pid \in Pid, UnblockProcess(pid)
      PROVE  IInv'
  <2> DEFINE u == Unblock(pcb, pid)
  <2>1. u \in Table /\ WellPlaced(u) /\ SameProcesses(pcb, u)
    BY IInvFacts, UnblockWellPlaced
  <2>2. Return(u)
    BY <1>3 DEF UnblockProcess
  <2> HIDE DEF u
  <2>3. OnCpu(u)
    BY <2>1, IInvFacts DEF OnCpu, SameProcesses
  <2> QED
    BY <2>1, <2>2, <2>3, ReturnKeeps
<1>4. ASSUME NEW pid \in Pid, KeyboardWakes(pid)
      PROVE  IInv'
  <2> DEFINE u == Unblock(pcb, pid)
  <2>1. u \in Table /\ WellPlaced(u) /\ SameProcesses(pcb, u)
    BY IInvFacts, UnblockWellPlaced
  <2>2. pcb' = u /\ sleeped' = sleeped /\ inCall' = inCall
    BY <1>4 DEF KeyboardWakes
  <2> HIDE DEF u
  <2>3. OnCpu(u)
    BY <2>1, IInvFacts DEF OnCpu, SameProcesses
  <2>4. pcb' \in Table /\ Placement'
    BY <2>1, <2>2, <2>3 DEF Placement, OnCpu, Running
  <2> QED
    BY <2>2, <2>4, IInvFacts DEF IInv, TypeOK
<1> QED
  BY <1>1, <1>2, <1>3, <1>4 DEF BlockStep

LEMMA PriorityStepKeeps == IInv /\ PriorityStep => IInv'
<1> SUFFICES ASSUME IInv, NEW pid \in Pid, NEW priority \in AnyPriority,
                    ChangeProcessPriority(pid, priority)
             PROVE  IInv'
  BY DEF PriorityStep
<1> DEFINE u == ChangePriority(pcb, pid, priority)
<1>1. /\ u \in Table
      /\ WellPlaced(u)
      /\ u.running = pcb.running
      /\ \A p \in Pid : u.proc[p].state = pcb.proc[p].state
  BY IInvFacts, ChangePriorityWellPlaced
<1>2. Return(u)
  BY DEF ChangeProcessPriority
<1> HIDE DEF u
<1>3. OnCpu(u)
  BY <1>1, IInvFacts DEF OnCpu
<1> QED
  BY <1>1, <1>2, <1>3, ReturnKeeps

LEMMA StepIInv == IInv /\ [Next]_vars => IInv'
<1> SUFFICES ASSUME IInv, [Next]_vars PROVE IInv'
  OBVIOUS
<1>1. CASE OrderlyStep
  BY <1>1, OrderlyStepKeeps
<1>2. CASE ForegroundStep
  BY <1>2, CreateStepKeeps DEF ForegroundStep
<1>3. CASE InvalidCreateStep
  BY <1>3, CreateStepKeeps DEF InvalidCreateStep
<1>4. CASE KillStep
  BY <1>4, KillStepKeeps
<1>5. CASE SleepStep
  BY <1>5, SleepStepKeeps
<1>6. CASE BlockStep
  BY <1>6, BlockStepKeeps
<1>7. CASE PriorityStep
  BY <1>7, PriorityStepKeeps
<1>8. CASE UNCHANGED vars
  BY <1>8 DEF IInv, TypeOK, Placement, Running, vars
<1> QED
  BY <1>1, <1>2, <1>3, <1>4, <1>5, <1>6, <1>7, <1>8 DEF Next

\* Every variable keeps its type: no count leaves the integers, and every pid in
\* a list or a sleep entry is one that nextPid has handed out or may yet.
THEOREM TypeCorrect == Spec => []TypeOK
<1>1. IInv => TypeOK
  BY DEF IInv
<1> QED
  BY InitIInv, StepIInv, <1>1, PTL DEF Spec

\* block, unblock, kill, exit, changePriority and the timer interrupt, in any
\* order and with any argument, leave every process in the one place its state
\* names: none is lost, none is in two lists.
THEOREM PlacementHolds == Spec => []Placement
<1>1. IInv => Placement
  BY DEF IInv
<1> QED
  BY InitIInv, StepIInv, <1>1, PTL DEF Spec

-----------------------------------------------------------------------------
(* The sleep entries count down to zero and no further. *)

Pending(s) ==
  /\ \A i \in DOMAIN s : s[i].ticksLeft > 0
  /\ \A i, j \in DOMAIN s : s[i].pid = s[j].pid => i = j

LEMMA AddProcSleepPending ==
  ASSUME NEW s \in Seq(SleepEntry), Pending(s), NEW pid \in Pid,
         NEW ticks \in Int, ticks > 0
  PROVE  Pending(AddProcSleep(s, pid, ticks))
<1> DEFINE m == Min(EntriesOf(s, pid))
           r == AddProcSleep(s, pid, ticks)
<1>1. CASE EntriesOf(s, pid) = {}
  <2> DEFINE e == [pid |-> pid, ticksLeft |-> ticks]
  <2>1. r = Cons(e, s)
    BY <1>1 DEF AddProcSleep
  <2>2. e \in SleepEntry /\ e.pid = pid /\ e.ticksLeft = ticks
    BY DEF SleepEntry
  <2> HIDE DEF e, r
  <2>3. /\ Len(r) = Len(s) + 1
        /\ r \in Seq(SleepEntry)
        /\ \A i \in 1 .. Len(s) + 1 : r[i] = IF i = 1 THEN e ELSE s[i - 1]
    BY <2>1, <2>2 DEF Cons
  <2>4. /\ DOMAIN r = 1 .. Len(s) + 1
        /\ DOMAIN s = 1 .. Len(s)
        /\ Len(s) \in Nat
    BY <2>3, EntryTypes
  <2>5. \A i \in 2 .. Len(s) + 1 : i - 1 \in 1 .. Len(s) /\ r[i] = s[i - 1]
    BY <2>3, <2>4
  <2>6. \A i \in 1 .. Len(s) : s[i].pid # pid
    BY <1>1, <2>4 DEF EntriesOf
  <2>7. \A i \in DOMAIN r : i = 1 \/ i \in 2 .. Len(s) + 1
    BY <2>4
  <2>8. r[1] = e
    BY <2>3, <2>4
  <2>9. \A i \in DOMAIN r : r[i].ticksLeft > 0
    BY <2>2, <2>4, <2>5, <2>7, <2>8 DEF Pending
  <2>10. ASSUME NEW i \in DOMAIN r, NEW j \in DOMAIN r, r[i].pid = r[j].pid
         PROVE  i = j
    <3>1. CASE i = 1
      BY <2>2, <2>5, <2>6, <2>7, <2>8, <2>10, <3>1
    <3>2. CASE j = 1
      BY <2>2, <2>5, <2>6, <2>7, <2>8, <2>10, <3>2
    <3>3. CASE i # 1 /\ j # 1
      <4>1. i - 1 = j - 1
        BY <2>4, <2>5, <2>7, <2>10, <3>3 DEF Pending
      <4> QED
        BY <2>4, <4>1
    <3> QED
      BY <3>1, <3>2, <3>3
  <2> QED
    BY <2>9, <2>10 DEF Pending, r
<1>2. CASE EntriesOf(s, pid) # {}
  <2>1. /\ EntriesOf(s, pid) \subseteq 1 .. Len(s)
        /\ Len(s) \in Nat
        /\ DOMAIN s = 1 .. Len(s)
    BY EntryTypes DEF EntriesOf
  <2>2. m \in 1 .. Len(s)
    BY <1>2, <2>1, FirstOf
  <2>3. r = [s EXCEPT ![m].ticksLeft = s[m].ticksLeft + ticks]
    BY <1>2 DEF AddProcSleep
  <2> HIDE DEF m, r
  <2>4. DOMAIN r = 1 .. Len(s)
    BY <2>1, <2>3
  <2>5. \A i \in 1 .. Len(s) :
          /\ r[i].pid = s[i].pid
          /\ r[i].ticksLeft = IF i = m THEN s[m].ticksLeft + ticks ELSE s[i].ticksLeft
    <3>1. s[m] \in SleepEntry
      BY <2>2, EntryTypes
    <3>2. DOMAIN s[m] = {"pid", "ticksLeft"}
      BY <3>1 DEF SleepEntry
    <3> QED
      BY <2>1, <2>2, <2>3, <3>2
  <2>6. s[m].ticksLeft + ticks > 0
    BY <2>1, <2>2, EntryTypes DEF Pending
  <2> QED
    BY <2>1, <2>4, <2>5, <2>6 DEF Pending, r
<1> QED
  BY <1>1, <1>2

LEMMA CheckTimersPending ==
  ASSUME NEW s \in Seq(SleepEntry), Pending(s)
  PROVE  Pending(CheckTimers(s))
<1> DEFINE m == Min(Due(s))
           r == CheckTimers(s)
<1>1. DOMAIN s = 1 .. Len(s) /\ Len(s) \in Nat
  BY EntryTypes
\* An entry that is not due has at least two ticks left.
<1>2. \A i \in DOMAIN s : /\ CountDown(s[i]).pid = s[i].pid
                          /\ i \notin Due(s) => CountDown(s[i]).ticksLeft > 0
  <2> TAKE i \in DOMAIN s
  <2>1. s[i] \in SleepEntry /\ s[i].ticksLeft \in Int
    BY <1>1, EntryTypes
  <2>2. CountDown(s[i]).pid = s[i].pid /\ CountDown(s[i]).ticksLeft = s[i].ticksLeft - 1
    BY <2>1 DEF SleepEntry, CountDown
  <2>3. i \notin Due(s) => s[i].ticksLeft > 1
    BY <2>1 DEF Due, Pending
  <2> QED
    BY <2>1, <2>2, <2>3
<1>3. CASE Due(s) = {}
  <2>1. r = [i \in DOMAIN s |-> CountDown(s[i])]
    BY <1>3 DEF CheckTimers
  <2> HIDE DEF r
  <2> QED
    BY <1>2, <1>3, <2>1 DEF Pending, r
<1>4. CASE Due(s) # {}
  <2>1. Due(s) \subseteq 1 .. Len(s)
    BY <1>1 DEF Due
  <2>2. /\ m \in 1 .. Len(s)
        /\ \A i \in Due(s) : m <= i
    <3>1. Due(s) \subseteq Nat
      BY <2>1
    <3> QED
      BY <1>1, <1>4, <2>1, <3>1, FirstOf, MinProperties
  <2>3. r = [i \in 1 .. Len(s) - 1 |-> IF i < m THEN CountDown(s[i]) ELSE s[i + 1]]
    BY <1>4 DEF CheckTimers
  <2> HIDE DEF m, r
  \* The entry of s that entry i of r was.
  <2> DEFINE from(i) == IF i < m THEN i ELSE i + 1
  <2>4. \A i \in 1 .. Len(s) - 1 : /\ from(i) \in 1 .. Len(s)
                                   /\ i < m => from(i) \notin Due(s)
    BY <1>1, <2>2
  <2>5. \A i, j \in 1 .. Len(s) - 1 : from(i) = from(j) => i = j
    BY <1>1, <2>2
  <2>6. \A i \in 1 .. Len(s) - 1 : r[i] = IF i < m THEN CountDown(s[from(i)]) ELSE s[from(i)]
    BY <2>3
  <2>7. DOMAIN r = 1 .. Len(s) - 1
    BY <2>3
  <2> HIDE DEF from
  <2>8. \A i \in DOMAIN r : r[i].pid = s[from(i)].pid /\ r[i].ticksLeft > 0
    BY <1>1, <1>2, <2>4, <2>6, <2>7 DEF Pending
  <2> QED
    BY <1>1, <2>4, <2>5, <2>7, <2>8 DEF Pending, r
<1> QED
  BY <1>3, <1>4

\* What a step does to the sleep entries.
LEMMA TimerSteps ==
  ASSUME Next
  PROVE  \/ UNCHANGED sleeped
         \/ sleeped' = CheckTimers(sleeped)
         \/ \E ticks \in SleepTicks :
              ticks > 0 /\ sleeped' = CheckTimers(AddProcSleep(sleeped, Running, ticks))
<1>1. CASE OrderlyStep \/ ForegroundStep \/ InvalidCreateStep \/ KillStep
  BY <1>1 DEF OrderlyStep, ForegroundStep, InvalidCreateStep, KillStep, TimerInterrupt,
              Yield, Exit, CreateBackground, CreateForeground, CreateWithPipes, Wait,
              KillSelf, KillProcess, Return, BlockIn, FireTimerInt
<1>2. CASE SleepStep
  BY <1>2 DEF SleepStep, Sleep, BlockIn, FireTimerInt
<1>3. CASE BlockStep \/ PriorityStep
  BY <1>3 DEF BlockStep, PriorityStep, BlockSelf, BlockProcess, UnblockProcess,
              KeyboardWakes, ChangeProcessPriority, Return, BlockIn, FireTimerInt
<1> QED
  BY <1>1, <1>2, <1>3 DEF Next

\* However processes sleep, are woken early and sleep again, an entry is unlinked when
\* its count reaches zero: none is left behind that would count on below it, and a
\* process never has two.
THEOREM TimersStayPending == Spec => []TimersPending
<1>1. Init => TimersPending
  BY DEF Init, TimersPending
<1>2. IInv /\ TimersPending /\ [Next]_vars => TimersPending'
  <2> SUFFICES ASSUME IInv, TimersPending, [Next]_vars PROVE TimersPending'
    OBVIOUS
  <2>1. sleeped \in Seq(SleepEntry) /\ Running \in Pid /\ Pending(sleeped)
    BY IInvFacts DEF TimersPending, Pending
  <2>2. ASSUME NEW s \in Seq(SleepEntry), Pending(s), sleeped' = CheckTimers(s)
        PROVE  TimersPending'
    <3>1. Pending(sleeped')
      BY <2>2, CheckTimersPending
    <3> QED
      BY <3>1 DEF Pending, TimersPending
  <2>3. CASE sleeped' = CheckTimers(sleeped)
    BY <2>1, <2>2, <2>3
  <2>4. ASSUME NEW ticks \in SleepTicks, ticks > 0,
               sleeped' = CheckTimers(AddProcSleep(sleeped, Running, ticks))
        PROVE  TimersPending'
    <3>1. ticks \in Int
      BY SleepTicksAssumption
    <3> QED
      BY <2>1, <2>2, <2>4, <3>1, AddProcSleepType, AddProcSleepPending
  <2>5. CASE UNCHANGED sleeped
    BY <2>5 DEF TimersPending
  <2> QED
    BY <2>3, <2>4, <2>5, TimerSteps DEF vars
<1> QED
  BY <1>1, <1>2, InitIInv, StepIInv, PTL DEF Spec

-----------------------------------------------------------------------------
(* The order of a ready queue: Before(queue, p, q) holds if p stands nearer  *)
(* to the head than q.                                                       *)

LEMMA InQueue ==
  ASSUME NEW S, NEW s \in Seq(S), NEW p
  PROVE  p \in ToSet(s) <=> Contains(s, p)
BY LenProperties DEF ToSet, Contains

LEMMA BeforeIn ==
  ASSUME NEW S, NEW s \in Seq(S), NEW p, NEW q, Before(s, p, q)
  PROVE  Contains(s, p) /\ Contains(s, q)
BY LenProperties DEF Before, Contains

\* In a queue without duplicates only one of two processes is ahead of the other.
LEMMA BeforeOnce ==
  ASSUME NEW S, NEW s \in Seq(S), IsInjective(s), NEW p, NEW q, Before(s, p, q)
  PROVE  p # q /\ ~ Before(s, q, p)
<1>1. DOMAIN s = 1 .. Len(s) /\ Len(s) \in Nat
  BY LenProperties
<1>2. \A i, j \in 1 .. Len(s) : s[i] = s[j] => i = j
  BY <1>1 DEF IsInjective
<1>3. PICK i \in 1 .. Len(s), j \in 1 .. Len(s) : i < j /\ s[i] = p /\ s[j] = q
  BY <1>1 DEF Before
<1>4. p # q
  BY <1>2, <1>3
<1>5. ASSUME NEW k \in 1 .. Len(s), NEW l \in 1 .. Len(s), s[k] = q, s[l] = p
      PROVE  ~ (k < l)
  BY <1>1, <1>2, <1>3, <1>5
<1> QED
  BY <1>1, <1>4, <1>5 DEF Before

\* The head is ahead of everybody else.
LEMMA HeadBefore ==
  ASSUME NEW S, NEW s \in Seq(S), s # <<>>, NEW p, Contains(s, p), p # Head(s)
  PROVE  Before(s, Head(s), p)
<1>1. /\ Len(s) \in Nat \ {0}
      /\ DOMAIN s = 1 .. Len(s)
  BY EmptySeq, LenProperties
<1>2. Head(s) = s[1]
  OBVIOUS
<1>3. PICK j \in 1 .. Len(s) : s[j] = p
  BY DEF Contains
<1>4. 1 < j /\ 1 \in 1 .. Len(s)
  BY <1>1, <1>2, <1>3
<1> QED
  BY <1>1, <1>2, <1>3, <1>4 DEF Before

\* Who is put in at the tail gets ahead of nobody.
LEMMA BeforeAppend ==
  ASSUME NEW S, NEW s \in Seq(S), NEW e \in S, NEW p, p # e,
         NEW q, Before(Append(s, e), q, p)
  PROVE  Before(s, q, p)
<1> DEFINE r == Append(s, e)
<1>1. /\ r \in Seq(S)
      /\ Len(r) = Len(s) + 1
      /\ \A i \in 1 .. Len(s) : r[i] = s[i]
      /\ r[Len(s) + 1] = e
  BY AppendProperties
<1>2. Before(r, q, p)
  OBVIOUS
<1> HIDE DEF r
<1>3. /\ Len(s) \in Nat
      /\ DOMAIN s = 1 .. Len(s)
      /\ DOMAIN r = 1 .. Len(s) + 1
  BY <1>1, LenProperties
<1>4. PICK i \in 1 .. Len(s) + 1, j \in 1 .. Len(s) + 1 : i < j /\ r[i] = q /\ r[j] = p
  BY <1>2, <1>3 DEF Before
<1>5. i \in 1 .. Len(s) /\ j \in 1 .. Len(s)
  BY <1>1, <1>3, <1>4
<1> QED
  BY <1>1, <1>3, <1>4, <1>5 DEF Before

\* Taking the head out, or anybody else, leaves the others in their order.
LEMMA BeforeTail ==
  ASSUME NEW S, NEW s \in Seq(S), s # <<>>, NEW p, NEW q, Before(Tail(s), q, p)
  PROVE  Before(s, q, p)
<1> DEFINE r == Tail(s)
<1>1. /\ Len(s) \in Nat \ {0}
      /\ DOMAIN s = 1 .. Len(s)
  BY EmptySeq, LenProperties
<1>2. /\ r \in Seq(S)
      /\ Len(r) = Len(s) - 1
      /\ \A i \in 1 .. Len(r) : r[i] = s[i + 1]
  BY HeadTailProperties
<1>3. Before(r, q, p)
  OBVIOUS
<1> HIDE DEF r
<1>4. DOMAIN r = 1 .. Len(s) - 1
  BY <1>2, LenProperties
<1>5. PICK i \in 1 .. Len(s) - 1, j \in 1 .. Len(s) - 1 : i < j /\ r[i] = q /\ r[j] = p
  BY <1>3, <1>4 DEF Before
<1>6. i + 1 \in 1 .. Len(s) /\ j + 1 \in 1 .. Len(s) /\ i + 1 < j + 1
  BY <1>1, <1>5
<1>7. s[i + 1] = q /\ s[j + 1] = p
  BY <1>2, <1>5
<1> QED
  BY <1>1, <1>6, <1>7 DEF Before

LEMMA BeforeRemoveFirst ==
  ASSUME NEW S, NEW s \in Seq(S), NEW e, NEW p, NEW q, Before(RemoveFirst(s, e), q, p)
  PROVE  Before(s, q, p)
<1>0. Len(s) \in Nat /\ DOMAIN s = 1 .. Len(s)
  BY LenProperties
<1>1. CASE \E i \in 1 .. Len(s) : s[i] = e
  <2> DEFINE I == {i \in 1 .. Len(s) : s[i] = e}
             k == Min(I)
             r == RemoveAt(s, k)
  <2>1. I \subseteq Nat /\ I # {}
    BY <1>0, <1>1
  <2>2. k \in 1 .. Len(s)
    BY <2>1, MinProperties
  <2>3. RemoveFirst(s, e) = r
    BY <1>1, <2>1 DEF RemoveFirst, SelectInSeq
  <2> HIDE DEF k
  <2>4. /\ r \in Seq(S)
        /\ Len(r) = Len(s) - 1
        /\ \A j \in 1 .. Len(s) - 1 : r[j] = IF j < k THEN s[j] ELSE s[j + 1]
    BY <2>2, RemoveAtProperties
  <2> HIDE DEF r
  <2>5. DOMAIN r = 1 .. Len(s) - 1
    BY <2>4, LenProperties
  <2>6. PICK i \in 1 .. Len(s) - 1, j \in 1 .. Len(s) - 1 : i < j /\ r[i] = q /\ r[j] = p
    BY <2>3, <2>5 DEF Before
  <2> DEFINE at(n) == IF n < k THEN n ELSE n + 1
  <2>7. at(i) \in 1 .. Len(s) /\ at(j) \in 1 .. Len(s) /\ at(i) < at(j)
    BY <1>0, <2>2, <2>6
  <2>8. s[at(i)] = q /\ s[at(j)] = p
    BY <2>4, <2>6
  <2> HIDE DEF at
  <2> QED
    BY <1>0, <2>7, <2>8 DEF Before
<1>2. CASE ~ \E i \in 1 .. Len(s) : s[i] = e
  BY <1>2 DEF RemoveFirst, Contains
<1> QED
  BY <1>1, <1>2

-----------------------------------------------------------------------------
(* What a function of the scheduler does to the ready queues.                *)

\* From t to u nobody gets ahead of p in a ready queue or takes a level from it, and
\* p gets only into the queue of its level, and only if it was not ready.
Keeps(t, u, p) ==
  \A i \in Priority :
    Contains(u.ready[i], p) =>
      IF Contains(t.ready[i], p)
      THEN /\ u.proc[p].priority = t.proc[p].priority
           /\ \A q : Before(u.ready[i], q, p) => Before(t.ready[i], q, p)
      ELSE ~ IsReady(t, p) /\ u.proc[p].priority = i

Follows(t, u) == \A p \in Pid : Keeps(t, u, p)

\* Nobody leaves its queue.
Stays(t, u) ==
  \A i \in Priority, p \in Pid : Contains(t.ready[i], p) => Contains(u.ready[i], p)

Grown(t, u) == Follows(t, u) /\ Stays(t, u)

\* Who was not ready before the second of two steps was not ready before the first.
NoReturn(t, u, v) ==
  \A p \in Pid : IsReady(v, p) /\ ~ IsReady(u, p) => ~ IsReady(t, p)

LEMMA FollowsTwice ==
  ASSUME NEW t, NEW u, NEW v, Follows(t, u), Follows(u, v), NoReturn(t, u, v)
  PROVE  Follows(t, v)
<1> SUFFICES ASSUME NEW p \in Pid, NEW i \in Priority, Contains(v.ready[i], p)
             PROVE  IF Contains(t.ready[i], p)
                    THEN /\ v.proc[p].priority = t.proc[p].priority
                         /\ \A q : Before(v.ready[i], q, p) => Before(t.ready[i], q, p)
                    ELSE ~ IsReady(t, p) /\ v.proc[p].priority = i
  BY DEF Follows, Keeps
<1>1. CASE Contains(u.ready[i], p)
  <2>1. /\ v.proc[p].priority = u.proc[p].priority
        /\ \A q : Before(v.ready[i], q, p) => Before(u.ready[i], q, p)
    BY <1>1 DEF Follows, Keeps
  <2>2. IF Contains(t.ready[i], p)
        THEN /\ u.proc[p].priority = t.proc[p].priority
             /\ \A q : Before(u.ready[i], q, p) => Before(t.ready[i], q, p)
        ELSE ~ IsReady(t, p) /\ u.proc[p].priority = i
    BY <1>1 DEF Follows, Keeps
  <2> QED
    BY <2>1, <2>2
<1>2. CASE ~ Contains(u.ready[i], p)
  <2>1. ~ IsReady(u, p) /\ v.proc[p].priority = i
    BY <1>2 DEF Follows, Keeps
  <2>2. ~ IsReady(t, p)
    BY <2>1 DEF NoReturn, IsReady
  <2>3. ~ Contains(t.ready[i], p)
    BY <2>2 DEF IsReady
  <2> QED
    BY <2>1, <2>2, <2>3
<1> QED
  BY <1>1, <1>2

\* Nobody returns to a queue that it never left.
LEMMA StaysNoReturn ==
  ASSUME NEW t, NEW u, NEW v, Stays(t, u)
  PROVE  NoReturn(t, u, v)
BY DEF Stays, NoReturn, IsReady

LEMMA GrownFollows ==
  ASSUME NEW t, NEW u, NEW v, Grown(t, u), Follows(u, v)
  PROVE  Follows(t, v)
BY StaysNoReturn, FollowsTwice DEF Grown

LEMMA GrownTwice ==
  ASSUME NEW t, NEW u, NEW v, Grown(t, u), Grown(u, v)
  PROVE  Grown(t, v)
<1>1. Follows(t, v)
  BY GrownFollows DEF Grown
<1>2. Stays(t, v)
  BY DEF Grown, Stays
<1> QED
  BY <1>1, <1>2 DEF Grown

\* The queues stay as they are, and so do the levels of those in them.
LEMMA SameQueues ==
  ASSUME NEW t, NEW u, u.ready = t.ready,
         \A p \in Pid : IsReady(t, p) => u.proc[p].priority = t.proc[p].priority
  PROVE  Grown(t, u)
BY DEF Grown, Follows, Stays, Keeps, IsReady

LEMMA GrownSame ==
  ASSUME NEW t
  PROVE  Grown(t, t)
BY SameQueues

LEMMA EnqueueGrown ==
  ASSUME NEW t \in Table, NEW x \in Pid, ~ IsReady(t, x)
  PROVE  LET u == Enqueue(t, x)
         IN  /\ Grown(t, u)
             /\ \A p \in Pid : IsReady(u, p) => IsReady(t, p) \/ p = x
<1> DEFINE u == Enqueue(t, x)
           l == t.proc[x].priority
<1>1. /\ u.proc = t.proc
      /\ \A i \in Priority : u.ready[i] = IF i = l THEN Append(t.ready[i], x) ELSE t.ready[i]
  BY EnqueueFields
<1>2. \A i \in Priority : t.ready[i] \in Seq(Pid)
  BY TableFields
<1> HIDE DEF u
<1>3. ASSUME NEW i \in Priority, NEW p
      PROVE  Contains(u.ready[i], p) <=> Contains(t.ready[i], p) \/ (i = l /\ p = x)
  BY <1>1, <1>2, AppendNewProperties
<1>4. ASSUME NEW i \in Priority, NEW p \in Pid, p # x, NEW q, Before(u.ready[i], q, p)
      PROVE  Before(t.ready[i], q, p)
  <2>1. CASE i = l
    <3>1. Before(Append(t.ready[i], x), q, p)
      BY <1>1, <1>4, <2>1
    <3> HIDE DEF l
    <3> QED
      BY <1>2, <1>4, <3>1, BeforeAppend
  <2>2. CASE i # l
    BY <1>1, <1>4, <2>2
  <2> QED
    BY <2>1, <2>2
<1>5. Follows(t, u)
  <2> SUFFICES ASSUME NEW p \in Pid, NEW i \in Priority, Contains(u.ready[i], p)
               PROVE  IF Contains(t.ready[i], p)
                      THEN /\ u.proc[p].priority = t.proc[p].priority
                           /\ \A q : Before(u.ready[i], q, p) => Before(t.ready[i], q, p)
                      ELSE ~ IsReady(t, p) /\ u.proc[p].priority = i
    BY DEF Follows, Keeps
  <2>1. CASE Contains(t.ready[i], p)
    <3>1. p # x
      BY <2>1 DEF IsReady
    <3> QED
      BY <1>1, <1>4, <2>1, <3>1
  <2>2. CASE ~ Contains(t.ready[i], p)
    BY <1>1, <1>3, <2>2
  <2> QED
    BY <2>1, <2>2
<1>6. Stays(t, u)
  BY <1>3 DEF Stays
<1>7. \A p \in Pid : IsReady(u, p) => IsReady(t, p) \/ p = x
  BY <1>3 DEF IsReady
<1> QED
  BY <1>5, <1>6, <1>7 DEF Grown, u

LEMMA UnblockGrown ==
  ASSUME NEW t \in Table, WellPlaced(t), NEW pid \in Pid
  PROVE  LET u == Unblock(t, pid)
         IN  /\ Grown(t, u)
             /\ \A p \in Pid : IsReady(u, p) => IsReady(t, p) \/ IsBlocked(t, p)
<1>1. CASE ~ IsBlocked(t, pid)
  BY <1>1, GrownSame DEF Unblock
<1>2. CASE IsBlocked(t, pid)
  <2> DEFINE a == RemoveBlocked(t, pid)
             b == SetState(a, pid, "READY")
             u == Enqueue(b, pid)
  <2>1. Unblock(t, pid) = u
    BY <1>2 DEF Unblock
  <2>2. a \in Table /\ a.ready = t.ready /\ a.proc = t.proc
    BY RemoveBlockedFields DEF WellPlaced
  <2>3. ~ IsReady(t, pid)
    BY <1>2 DEF WellPlaced
  <2> HIDE DEF a
  <2>4. /\ b \in Table
        /\ b.ready = t.ready
        /\ \A p \in Pid : b.proc[p].priority = t.proc[p].priority
    <3>1. "READY" \in ProcessState
      BY DEF ProcessState
    <3> QED
      BY <2>2, <3>1, SetStateFields
  <2> HIDE DEF b
  <2>5. Grown(t, b) /\ \A p \in Pid : IsReady(b, p) <=> IsReady(t, p)
    BY <2>4, SameQueues DEF IsReady
  <2>6. Grown(b, u) /\ \A p \in Pid : IsReady(u, p) => IsReady(b, p) \/ p = pid
    BY <2>3, <2>4, <2>5, EnqueueGrown
  <2> HIDE DEF u
  <2> QED
    BY <1>2, <2>1, <2>5, <2>6, GrownTwice
<1> QED
  BY <1>1, <1>2

LEMMA DecrementGrown ==
  ASSUME NEW t \in Table, NEW pid \in Pid
  PROVE  LET u == DecrementKidsCount(t, pid)
         IN  /\ u \in Table
             /\ u.blocked = t.blocked
             /\ u.ready = t.ready
             /\ \A p \in Pid : u.proc[p].priority = t.proc[p].priority
             /\ Grown(t, u)
<1> DEFINE k == t.proc[pid].kidsCount - 1
           u == DecrementKidsCount(t, pid)
<1>1. k \in Int
  BY TableFields, ProcessFields
<1>2. u = SetKidsCount(t, pid, k) \/ u = t
  BY DEF DecrementKidsCount
<1> HIDE DEF k
<1>3. /\ u \in Table
      /\ u.blocked = t.blocked
      /\ u.ready = t.ready
      /\ \A p \in Pid : u.proc[p].priority = t.proc[p].priority
  BY <1>1, <1>2, SetKidsCountFields
<1> HIDE DEF u
<1>4. Grown(t, u)
  BY <1>3, SameQueues
<1> QED
  BY <1>3, <1>4 DEF u

LEMMA SetStateGrown ==
  ASSUME NEW t \in Table, NEW pid \in Pid, NEW s \in ProcessState
  PROVE  Grown(t, SetState(t, pid, s))
<1> DEFINE u == SetState(t, pid, s)
<1>1. u.ready = t.ready /\ \A p \in Pid : u.proc[p].priority = t.proc[p].priority
  BY SetStateFields
<1> HIDE DEF u
<1> QED
  BY <1>1, SameQueues DEF u

\* What system calls do before they raise the interrupt: they put processes in, at the
\* tail, and take nobody out.
LEMMA CreateGrown ==
  ASSUME NEW t \in Table, WellPlaced(t), t.nextPid \in Pid, NEW priority
  PROVE  Grown(t, CreateProcess(t, priority))
<1>1. CASE priority \notin Priority
  BY <1>1, GrownSame DEF CreateProcess
<1>2. CASE priority \in Priority
  <2> DEFINE r == t.running
             k == t.proc[r].kidsCount + 1
             n == t.nextPid
             child == [state |-> "READY", priority |-> priority,
                       parentPID |-> r, kidsCount |-> 0]
             a == SetKidsCount(t, r, k)
             b == AddStruct(a, child)
             u == Enqueue(b, n)
  <2>1. CreateProcess(t, priority) = u
    BY <1>2 DEF CreateProcess
  <2>2. r \in Pid /\ k \in Int
    BY TableFields, ProcessFields
  <2>3. child \in Process
    BY <1>2, <2>2 DEF Process, ProcessState
  <2> HIDE DEF k, child
  <2>4. /\ a \in Table
        /\ a.ready = t.ready
        /\ a.nextPid = n
        /\ \A p \in Pid : a.proc[p].priority = t.proc[p].priority
    BY <2>2, SetKidsCountFields
  <2> HIDE DEF a
  <2>5. /\ b \in Table
        /\ b.ready = a.ready
        /\ \A p \in Pid : b.proc[p] = IF p = n THEN child ELSE a.proc[p]
    BY <2>3, <2>4, AddStructFields
  <2> HIDE DEF b
  <2>6. ~ IsReady(t, n)
    BY TableFields DEF WellPlaced, IsLive
  <2>7. Grown(t, b) /\ ~ IsReady(b, n)
    <3>1. b.ready = t.ready
      BY <2>4, <2>5
    <3>2. \A p \in Pid : IsReady(t, p) => b.proc[p].priority = t.proc[p].priority
      BY <2>4, <2>5, <2>6
    <3> QED
      BY <2>6, <3>1, <3>2, SameQueues DEF IsReady
  <2>8. Grown(b, u)
    BY <2>5, <2>7, EnqueueGrown
  <2> HIDE DEF u
  <2> QED
    BY <2>1, <2>7, <2>8, GrownTwice
<1> QED
  BY <1>1, <1>2

LEMMA KillRunningGrown ==
  ASSUME NEW t \in Table, WellPlaced(t), t.running # Halt
  PROVE  Grown(t, KillRunning(t))
<1> DEFINE parent == t.proc[t.running].parentPID
           a == SetState(t, t.running, "EXITED")
<1>1. parent \in Pid /\ t.running \in Pid
  BY TableFields, ProcessFields
<1>2. KillRunning(t) = Unblock(a, parent)
  BY DEF KillRunning
<1>3. "EXITED" \in ProcessState \ {"FREE"}
  BY DEF ProcessState
<1>4. a \in Table /\ WellPlaced(a) /\ Grown(t, a)
  BY <1>1, <1>3, SetRunningStateWellPlaced, SetStateGrown
<1> HIDE DEF a, parent
<1>5. Grown(a, Unblock(a, parent))
  BY <1>1, <1>4, UnblockGrown
<1> QED
  BY <1>2, <1>4, <1>5, GrownTwice

LEMMA ExitRunningGrown ==
  ASSUME NEW t \in Table, WellPlaced(t), t.running # Halt
  PROVE  Grown(t, ExitRunning(t))
<1> DEFINE parent == t.proc[t.running].parentPID
           a == KillRunning(t)
<1>1. parent \in Pid /\ t.running \in Pid
  BY TableFields, ProcessFields
<1>2. ExitRunning(t) = DecrementKidsCount(a, parent)
  BY DEF ExitRunning
<1>3. a \in Table /\ Grown(t, a)
  BY KillRunningWellPlaced, KillRunningGrown
<1> HIDE DEF a, parent
<1>4. Grown(a, DecrementKidsCount(a, parent))
  BY <1>1, <1>3, DecrementGrown
<1> QED
  BY <1>2, <1>3, <1>4, GrownTwice

\* block and kill take one process out of its queue.
LEMMA RemoveReadyFollows ==
  ASSUME NEW t \in Table, WellPlaced(t), NEW pid \in Pid
  PROVE  LET u == RemoveReady(t, pid)
         IN  /\ Follows(t, u)
             /\ \A p \in Pid : IsReady(u, p) <=> IsReady(t, p) /\ p # pid
<1> DEFINE u == RemoveReady(t, pid)
<1>1. /\ u.proc = t.proc
      /\ \A i \in Priority : \A x : Contains(u.ready[i], x) <=> Contains(t.ready[i], x) /\ x # pid
  BY RemoveReadyFields
<1>2. \A i \in Priority : u.ready[i] = RemoveFirst(t.ready[i], pid)
  BY DEF RemoveReady, Table
<1> HIDE DEF u
<1>3. \A i \in Priority : \A p, q : Before(u.ready[i], q, p) => Before(t.ready[i], q, p)
  <2> TAKE i \in Priority
  <2> TAKE p, q
  <2>1. t.ready[i] \in Seq(Pid)
    BY TableFields
  <2> QED
    BY <1>2, <2>1, BeforeRemoveFirst
<1>4. Follows(t, u)
  BY <1>1, <1>3 DEF Follows, Keeps
<1>5. \A p \in Pid : IsReady(u, p) <=> IsReady(t, p) /\ p # pid
  BY <1>1 DEF IsReady
<1> QED
  BY <1>4, <1>5 DEF u

\* What a function does to the structs of others and to the blocked list after it has
\* taken a process out of its queue changes no queue.
LEMMA FollowsSame ==
  ASSUME NEW t, NEW u, NEW v, Follows(t, u), u.ready = v.ready,
         \A p \in Pid : IsReady(u, p) => v.proc[p].priority = u.proc[p].priority
  PROVE  Follows(t, v) /\ \A p \in Pid : IsReady(v, p) <=> IsReady(u, p)
<1>1. \A p \in Pid : IsReady(v, p) <=> IsReady(u, p)
  BY DEF IsReady
<1>2. Follows(u, v)
  BY SameQueues DEF Grown
<1> QED
  BY <1>1, <1>2, FollowsTwice DEF NoReturn

LEMMA BlockReadyFollows ==
  ASSUME NEW t \in Table, WellPlaced(t), NEW pid \in Pid
  PROVE  Follows(t, BlockReady(t, pid))
<1>1. CASE ~ IsReady(t, pid)
  BY <1>1, GrownSame DEF BlockReady, Grown
<1>2. CASE IsReady(t, pid)
  <2> DEFINE a == RemoveReady(t, pid)
             b == SetState(a, pid, "BLOCKED")
             u == PushBlocked(b, pid)
  <2>1. BlockReady(t, pid) = u
    BY <1>2 DEF BlockReady
  <2>2. a \in Table /\ Follows(t, a)
    BY RemoveReadyFields, RemoveReadyFollows
  <2> HIDE DEF a
  <2>3. /\ b \in Table
        /\ b.ready = a.ready
        /\ \A p \in Pid : b.proc[p].priority = a.proc[p].priority
    <3>1. "BLOCKED" \in ProcessState
      BY DEF ProcessState
    <3> QED
      BY <2>2, <3>1, SetStateFields
  <2> HIDE DEF b
  <2>4. u.ready = b.ready /\ u.proc = b.proc
    BY <2>3, PushBlockedFields
  <2> HIDE DEF u
  <2> QED
    BY <2>1, <2>2, <2>3, <2>4, FollowsSame
<1> QED
  BY <1>1, <1>2

LEMMA KillOtherFollows ==
  ASSUME NEW t \in Table, WellPlaced(t), NEW pid \in Pid
  PROVE  Follows(t, KillOther(t, pid))
<1>1. CASE ~ Killable(t, pid)
  BY <1>1, GrownSame DEF KillOther, Killable, Grown
<1>2. CASE Killable(t, pid)
  <2> DEFINE parent == t.proc[pid].parentPID
             a == RemoveReady(t, pid)
             b == RemoveBlocked(a, pid)
             c == FreeStruct(b, pid)
             d == DecrementKidsCount(c, parent)
             u == Unblock(d, parent)
  <2>0. parent \in Pid
    BY TableFields, ProcessFields
  <2>1. KillOther(t, pid) = u
    BY <1>2 DEF KillOther, Killable
  <2>2. c \in Table /\ WellPlaced(c)
    BY <1>2, FreeWaitingWellPlaced DEF Killable
  <2>3. /\ a \in Table
        /\ a.blocked = t.blocked
        /\ Follows(t, a)
        /\ \A p \in Pid : IsReady(a, p) <=> IsReady(t, p) /\ p # pid
    BY RemoveReadyFields, RemoveReadyFollows
  <2> HIDE DEF a
  <2>4. /\ b \in Table
        /\ b.ready = a.ready
        /\ b.proc = a.proc
        /\ \A x : Contains(b.blocked, x) => Contains(t.blocked, x)
    BY <2>3, RemoveBlockedFields DEF WellPlaced
  <2> HIDE DEF b
  <2>5. /\ c.ready = b.ready
        /\ c.blocked = b.blocked
        /\ \A p \in Pid : p # pid => c.proc[p] = b.proc[p]
    BY <2>4, FreeStructFields
  <2> HIDE DEF c, parent
  <2>6. /\ d \in Table
        /\ d.blocked = c.blocked
        /\ d.ready = c.ready
        /\ \A p \in Pid : d.proc[p].priority = c.proc[p].priority
        /\ WellPlaced(d)
    BY <2>0, <2>2, DecrementGrown, DecrementKidsCountWellPlaced
  <2> HIDE DEF d
  <2>7. Grown(d, u) /\ \A p \in Pid : IsReady(u, p) => IsReady(d, p) \/ IsBlocked(d, p)
    BY <2>0, <2>6, UnblockGrown
  <2> HIDE DEF u
  <2>8. Follows(t, d)
    <3>1. a.ready = d.ready
      BY <2>4, <2>5, <2>6
    <3>2. \A p \in Pid : IsReady(a, p) => d.proc[p].priority = a.proc[p].priority
      BY <2>3, <2>4, <2>5, <2>6
    <3> QED
      BY <2>3, <3>1, <3>2, FollowsSame
  <2>9. NoReturn(t, d, u)
    <3>1. \A p \in Pid : IsBlocked(d, p) => IsBlocked(t, p)
      BY <2>4, <2>5, <2>6 DEF IsBlocked
    <3>2. \A p \in Pid : IsBlocked(t, p) => ~ IsReady(t, p)
      BY DEF WellPlaced
    <3> QED
      BY <2>7, <3>1, <3>2 DEF NoReturn
  <2> QED
    BY <2>1, <2>7, <2>8, <2>9, FollowsTwice DEF Grown
<1> QED
  BY <1>1, <1>2

\* The process that u gives the cpu to: the head of the highest queue of t with anybody
\* in it, or the process that had the cpu, or the halt process, if it is above them all.
Elected(t, u) ==
  \/ /\ u.running \in {t.running, Halt}
     /\ \A i \in Priority : t.ready[i] # <<>> => i < u.proc[u.running].priority
  \/ \E j \in Priority :
       /\ t.ready[j] # <<>>
       /\ u.running = Head(t.ready[j])
       /\ u.proc[u.running].priority = t.proc[u.running].priority
       /\ \A i \in Priority : t.ready[i] # <<>> => i <= j

LEMMA RequeueGrown ==
  ASSUME NEW t \in Table, WellPlaced(t), OnCpu(t)
  PROVE  LET u == Requeue(t)
         IN  /\ Grown(t, u)
             /\ \A i \in Priority :
                  t.ready[i] # <<>> =>
                    u.ready[i] # <<>> /\ Head(u.ready[i]) = Head(t.ready[i])
<1> DEFINE r == t.running
<1>0. r \in Pid /\ ~ IsReady(t, r)
  BY TableFields DEF WellPlaced
<1>1. CASE r = Halt
  BY <1>1, GrownSame DEF Requeue
<1>2. CASE r # Halt
  <2> DEFINE a == SetState(t, r, "READY")
             u == Enqueue(a, r)
  <2>1. Requeue(t) = u
    BY <1>2 DEF Requeue
  <2>2. "READY" \in ProcessState
    BY DEF ProcessState
  <2>3. a \in Table /\ a.ready = t.ready /\ Grown(t, a)
    BY <1>0, <2>2, SetStateFields, SetStateGrown
  <2> HIDE DEF a
  <2>4. ~ IsReady(a, r)
    BY <1>0, <2>3 DEF IsReady
  <2>5. Grown(a, u)
    BY <1>0, <2>3, <2>4, EnqueueGrown
  <2>6. \A i \in Priority : u.ready[i] \in {Append(a.ready[i], r), a.ready[i]}
    BY <1>0, <2>3, EnqueueFields
  <2> HIDE DEF u
  <2>7. ASSUME NEW i \in Priority, t.ready[i] # <<>>
        PROVE  u.ready[i] # <<>> /\ Head(u.ready[i]) = Head(t.ready[i])
    <3> DEFINE s == t.ready[i]
               v == Append(s, r)
    <3>1. s \in Seq(Pid)
      BY TableFields
    <3>2. s # <<>>
      BY <2>7
    <3>3. u.ready[i] \in {v, s}
      BY <2>3, <2>6
    <3> HIDE DEF s
    <3>4. /\ v \in Seq(Pid)
          /\ Len(v) = Len(s) + 1
          /\ \A k \in 1 .. Len(s) : v[k] = s[k]
      BY <1>0, <3>1, AppendProperties
    <3>5. Len(s) \in Nat \ {0}
      BY <3>1, <3>2, EmptySeq, LenProperties
    <3> HIDE DEF v
    <3>6. v # <<>> /\ v[1] = s[1]
      BY <3>4, <3>5
    <3>7. Head(v) = v[1] /\ Head(s) = s[1]
      BY <3>1, <3>4
    <3> QED
      BY <3>2, <3>3, <3>6, <3>7 DEF s
  <2> QED
    BY <2>1, <2>3, <2>5, <2>7, GrownTwice
<1> QED
  BY <1>1, <1>2

LEMMA TakeHeadFollows ==
  ASSUME NEW t \in Table, NEW i \in Priority, t.ready[i] # <<>>,
         \A k \in Priority : IsInjective(t.ready[k])
  PROVE  LET u == TakeHead(t, i)
         IN  /\ Follows(t, u)
             /\ \A p \in Pid : IsReady(u, p) => IsReady(t, p)
<1> DEFINE u == TakeHead(t, i)
<1>1. /\ u.proc = t.proc
      /\ \A k \in Priority : u.ready[k] = IF k = i THEN Tail(t.ready[i]) ELSE t.ready[k]
  BY TakeHeadFields
<1>2. t.ready[i] \in Seq(Pid)
  BY TableFields
<1> HIDE DEF u
<1>3. \A k \in Priority : \A p : Contains(u.ready[k], p) => Contains(t.ready[k], p)
  BY <1>1, <1>2, HeadTailSplit
<1>4. \A k \in Priority : \A p, q : Before(u.ready[k], q, p) => Before(t.ready[k], q, p)
  BY <1>1, <1>2, BeforeTail
<1>5. Follows(t, u)
  BY <1>1, <1>3, <1>4 DEF Follows, Keeps
<1>6. \A p \in Pid : IsReady(u, p) => IsReady(t, p)
  BY <1>3 DEF IsReady
<1> QED
  BY <1>5, <1>6 DEF u

LEMMA DispatchChoice ==
  ASSUME NEW t \in Table, WellPlaced(t), OnCpu(t)
  PROVE  LET u == Dispatch(t)
         IN  /\ Follows(t, u)
             /\ Elected(t, u)
             /\ u.blocked = t.blocked
<1>1. CASE Candidates(t) = {}
  <2>1. Dispatch(t) = t
    BY <1>1 DEF Dispatch
  <2>2. \A i \in Priority : t.ready[i] # <<>> => i < t.proc[t.running].priority
    <3>1. t.proc[t.running].priority \in Nat
      BY TableFields, ProcessFields, PriorityNat
    <3> QED
      BY <1>1, <3>1, PriorityNat DEF Candidates
  <2> QED
    BY <2>1, <2>2, GrownSame DEF Elected, Grown
<1>2. CASE Candidates(t) # {}
  <2> DEFINE j == Max(Candidates(t))
             q == Requeue(t)
             s == TakeHead(q, j)
             h == s.running
             u == SetState(s, h, "RUNNING")
  <2>1. Dispatch(t) = u
    BY <1>2 DEF Dispatch
  <2>2. /\ j \in Priority
        /\ t.ready[j] # <<>>
        /\ \A i \in Priority : t.ready[i] # <<>> => i <= j
    <3>1. MaxPriority - 1 \in Nat /\ Candidates(t) \subseteq 0 .. MaxPriority - 1
      BY MaxPriorityAssumption DEF Candidates, Priority
    <3>2. j \in Candidates(t) /\ \A i \in Candidates(t) : j >= i
      BY <1>2, <3>1, MaxProperties
    <3>3. t.proc[t.running].priority \in Nat
      BY TableFields, ProcessFields, PriorityNat
    <3> HIDE DEF j
    <3>4. j \in Priority /\ t.ready[j] # <<>> /\ j >= t.proc[t.running].priority
      BY <3>2 DEF Candidates
    <3>5. ASSUME NEW i \in Priority, t.ready[i] # <<>>
          PROVE  i <= j
      <4>1. CASE i >= t.proc[t.running].priority
        <5>1. i \in Candidates(t)
          BY <3>5, <4>1 DEF Candidates
        <5> QED
          BY <3>2, <3>4, <5>1, PriorityNat
      <4>2. CASE ~ (i >= t.proc[t.running].priority)
        BY <3>3, <3>4, <4>2, PriorityNat
      <4> QED
        BY <4>1, <4>2
    <3> QED
      BY <3>4, <3>5
  <2> HIDE DEF j
  <2>3. /\ q \in Table
        /\ q.blocked = t.blocked
        /\ \A p \in Pid : q.proc[p].priority = t.proc[p].priority
        /\ \A i \in Priority : IsInjective(q.ready[i])
    BY RequeueFields DEF Requeued
  <2>4. /\ Grown(t, q)
        /\ q.ready[j] # <<>>
        /\ Head(q.ready[j]) = Head(t.ready[j])
    BY <2>2, RequeueGrown
  <2> HIDE DEF q
  <2>5. /\ s \in Table
        /\ h = Head(q.ready[j])
        /\ s.blocked = q.blocked
        /\ s.proc = q.proc
    BY <2>2, <2>3, <2>4, TakeHeadFields
  <2>6. Follows(q, s) /\ \A p \in Pid : IsReady(s, p) => IsReady(q, p)
    BY <2>2, <2>3, <2>4, TakeHeadFollows
  <2> HIDE DEF s
  <2>7. h \in Pid
    BY <2>5, TableFields
  <2>8. /\ u.running = h
        /\ u.blocked = s.blocked
        /\ u.ready = s.ready
        /\ \A p \in Pid : u.proc[p].priority = s.proc[p].priority
    <3>1. "RUNNING" \in ProcessState
      BY DEF ProcessState
    <3>2. s.running = h
      OBVIOUS
    <3> HIDE DEF h
    <3> QED
      BY <2>5, <2>7, <3>1, <3>2, SetStateFields
  <2> HIDE DEF h, u
  <2>9. Follows(t, s)
    BY <2>4, <2>6, GrownFollows
  <2>10. Follows(t, u)
    BY <2>8, <2>9, FollowsSame
  <2>11. Elected(t, u)
    BY <2>2, <2>3, <2>4, <2>5, <2>7, <2>8 DEF Elected
  <2> QED
    BY <2>1, <2>3, <2>5, <2>8, <2>10, <2>11
<1> QED
  BY <1>1, <1>2

LEMMA RetireQueues ==
  ASSUME NEW t \in Table, WellPlaced(t)
  PROVE  /\ Retire(t).ready = t.ready
         /\ Retire(t).running \in {t.running, Halt}
<1> DEFINE r == t.running
           a == FreeStruct(t, r)
           b == PushBlocked(t, r)
<1>0. r \in Pid
  BY TableFields
<1>1. a \in Table /\ a.ready = t.ready
  BY <1>0, FreeStructFields
<1>2. b \in Table /\ b.ready = t.ready
  BY <1>0, PushBlockedFields
<1>3. \/ Retire(t) = [a EXCEPT !.running = Halt]
      \/ Retire(t) = [b EXCEPT !.running = Halt]
      \/ Retire(t) = t
  BY DEF Retire
<1> HIDE DEF a, b
<1> QED
  BY <1>1, <1>2, <1>3 DEF Table

LEMMA AgeQueues ==
  ASSUME NEW t \in Table
  PROVE  Age(t).ready = t.ready /\ Age(t).running = t.running
<1> DEFINE r == t.running
           k == t.proc[r].priority
<1>1. r \in Pid /\ k \in Priority
  BY TableFields, ProcessFields
<1>2. CASE k > 0
  <2>1. k - 1 \in Priority
    BY <1>1, <1>2, MaxPriorityAssumption DEF Priority
  <2>2. Age(t) = SetPriority(t, r, k - 1)
    BY <1>2 DEF Age
  <2> HIDE DEF k
  <2> QED
    BY <1>1, <2>1, <2>2, SetPriorityFields
<1>3. CASE ~ (k > 0)
  BY <1>3 DEF Age
<1> QED
  BY <1>2, <1>3

\* priorityScheduler keeps the queues in order and gives the cpu to the highest.
LEMMA SchedulerChoice ==
  ASSUME NEW t \in Table, WellPlaced(t)
  PROVE  LET u == PriorityScheduler(t)
         IN  /\ Follows(t, u)
             /\ Elected(t, u)
             /\ \A p \in Pid : IsBlocked(u, p) => ~ IsReady(t, p)
<1> DEFINE a == Retire(t)
           b == Age(a)
           u == Dispatch(b)
<1>1. PriorityScheduler(t) = u
  BY DEF PriorityScheduler
<1>2. /\ a \in Table
      /\ WellPlaced(a)
      /\ OnCpu(a)
      /\ a.ready = t.ready
      /\ a.running \in {t.running, Halt}
      /\ \A p \in Pid : p # t.running => a.proc[p] = t.proc[p]
  BY RetireEffect, RetireQueues
<1> HIDE DEF a
<1>3. /\ b \in Table
      /\ WellPlaced(b)
      /\ OnCpu(b)
      /\ b.ready = a.ready
      /\ b.running = a.running
      /\ \A p \in Pid : p # a.running => b.proc[p].priority = a.proc[p].priority
  BY <1>2, AgeEffect, AgeQueues
<1> HIDE DEF b
<1>4. Follows(b, u) /\ Elected(b, u) /\ u.blocked = b.blocked
  BY <1>3, DispatchChoice
<1> HIDE DEF u
<1>5. \A p \in Pid : IsReady(t, p) <=> IsReady(b, p)
  BY <1>2, <1>3 DEF IsReady
<1>6. ASSUME NEW p \in Pid, IsReady(t, p)
      PROVE  b.proc[p].priority = t.proc[p].priority
  <2>1. p # t.running /\ p # a.running
    BY <1>2, <1>3, <1>5, <1>6 DEF WellPlaced
  <2> QED
    BY <1>2, <1>3, <2>1
<1>7. Follows(t, u)
  <2>1. b.ready = t.ready
    BY <1>2, <1>3
  <2>2. Grown(t, b)
    BY <1>6, <2>1, SameQueues
  <2> QED
    BY <1>4, <2>2, GrownFollows
<1>8. Elected(t, u)
  <2>1. CASE /\ u.running \in {b.running, Halt}
             /\ \A i \in Priority : b.ready[i] # <<>> => i < u.proc[u.running].priority
    BY <1>2, <1>3, <2>1 DEF Elected
  <2>2. ASSUME NEW j \in Priority,
               b.ready[j] # <<>>,
               u.running = Head(b.ready[j]),
               u.proc[u.running].priority = b.proc[u.running].priority,
               \A i \in Priority : b.ready[i] # <<>> => i <= j
        PROVE  Elected(t, u)
    <3>1. t.ready = b.ready
      BY <1>2, <1>3
    <3>2. t.ready[j] \in Seq(Pid) /\ t.ready[j] # <<>>
      BY <2>2, <3>1, TableFields
    <3>3. u.running \in Pid /\ Contains(t.ready[j], u.running)
      BY <2>2, <3>1, <3>2, HeadTailSplit
    <3>4. b.proc[u.running].priority = t.proc[u.running].priority
      BY <1>6, <3>3 DEF IsReady
    <3> QED
      BY <2>2, <3>1, <3>4 DEF Elected
  <2> QED
    BY <1>4, <2>1, <2>2 DEF Elected
<1>9. \A p \in Pid : IsBlocked(u, p) => ~ IsReady(t, p)
  BY <1>3, <1>4, <1>5 DEF WellPlaced, IsBlocked
<1> QED
  BY <1>1, <1>7, <1>8, <1>9

\* So does the whole interrupt: the sleeper that it wakes joins a queue at its tail.
LEMMA InterruptChoice ==
  ASSUME NEW t \in Table, WellPlaced(t), NEW s \in Seq(SleepEntry)
  PROVE  LET w == WakeDue(PriorityScheduler(t), s)
         IN  Follows(t, w) /\ Elected(t, w)
<1> DEFINE u == PriorityScheduler(t)
           w == WakeDue(u, s)
<1>1. u \in Table /\ WellPlaced(u)
  BY PrioritySchedulerWellPlaced
<1>2. /\ Follows(t, u)
      /\ Elected(t, u)
      /\ \A p \in Pid : IsBlocked(u, p) => ~ IsReady(t, p)
  BY SchedulerChoice
<1> HIDE DEF u
<1>3. CASE Due(s) = {}
  BY <1>2, <1>3 DEF WakeDue, u
<1>4. CASE Due(s) # {}
  <2> DEFINE pid == s[Min(Due(s))].pid
  <2>1. pid \in Pid
    <3>1. Len(s) \in Nat /\ Due(s) \subseteq 1 .. Len(s)
      BY EntryTypes DEF Due
    <3>2. Min(Due(s)) \in 1 .. Len(s)
      BY <1>4, <3>1, FirstOf
    <3> QED
      BY <3>2, EntryTypes
  <2>2. w = Unblock(u, pid)
    BY <1>4 DEF WakeDue
  <2> HIDE DEF pid, w
  <2>3. /\ Grown(u, w)
        /\ \A p \in Pid : IsReady(w, p) => IsReady(u, p) \/ IsBlocked(u, p)
    BY <1>1, <2>1, <2>2, UnblockGrown
  <2>4. /\ w.running = u.running
        /\ \A p \in Pid : w.proc[p].priority = u.proc[p].priority
    BY <1>1, <2>1, <2>2, UnblockEffect DEF SameStructs
  <2>5. Follows(t, w)
    BY <1>2, <2>3, FollowsTwice DEF NoReturn, Grown
  <2>6. u.running \in Pid
    BY <1>1, TableFields
  <2>7. Elected(t, w)
    BY <1>2, <2>4, <2>6 DEF Elected
  <2> QED
    BY <2>5, <2>7 DEF u, w
<1> QED
  BY <1>3, <1>4

\* changePriority takes the process out of its queue and puts it at the tail of the one it
\* asks for; it gives no level to the others and leaves them in their order.
LEMMA MoveToQueueKeeps ==
  ASSUME NEW t \in Table, WellPlaced(t), NEW pid \in Pid, IsReady(t, pid),
         NEW priority \in Priority
  PROVE  LET u == MoveToQueue(t, pid, priority)
         IN  /\ \A p \in Pid \ {pid} : Keeps(t, u, p)
             /\ \A i \in Priority : Contains(u.ready[i], pid) => i = priority
<1> DEFINE a == RemoveReady(t, pid)
           u == MoveToQueue(t, pid, priority)
<1>1. /\ a \in Table
      /\ Follows(t, a)
      /\ a.proc = t.proc
      /\ \A i \in Priority : \A x : Contains(a.ready[i], x) <=> Contains(t.ready[i], x) /\ x # pid
  BY RemoveReadyFields, RemoveReadyFollows
<1>2. u.proc = t.proc
  BY MoveToQueueWellPlaced
<1>3. \A i \in Priority :
        u.ready[i] = IF i = priority THEN Append(a.ready[i], pid) ELSE a.ready[i]
  <2>1. u = [a EXCEPT !.ready[priority] = Append(@, pid)]
    BY DEF MoveToQueue
  <2> HIDE DEF a, u
  <2> QED
    BY <1>1, <2>1 DEF Table
<1>4. \A i \in Priority : a.ready[i] \in Seq(Pid)
  BY <1>1, TableFields
<1> HIDE DEF a, u
<1>5. ASSUME NEW i \in Priority, NEW p
      PROVE  Contains(u.ready[i], p) <=> Contains(a.ready[i], p) \/ (i = priority /\ p = pid)
  BY <1>3, <1>4, AppendNewProperties
<1>6. ASSUME NEW p \in Pid \ {pid}, NEW i \in Priority, Contains(u.ready[i], p)
      PROVE  IF Contains(t.ready[i], p)
             THEN /\ u.proc[p].priority = t.proc[p].priority
                  /\ \A q : Before(u.ready[i], q, p) => Before(t.ready[i], q, p)
             ELSE ~ IsReady(t, p) /\ u.proc[p].priority = i
  <2>1. Contains(a.ready[i], p) /\ Contains(t.ready[i], p)
    BY <1>1, <1>5, <1>6
  <2>2. \A q : Before(u.ready[i], q, p) => Before(a.ready[i], q, p)
    BY <1>3, <1>4, BeforeAppend
  <2>3. \A q : Before(a.ready[i], q, p) => Before(t.ready[i], q, p)
    BY <1>1, <2>1 DEF Follows, Keeps
  <2> QED
    BY <1>2, <2>1, <2>2, <2>3
<1>7. \A p \in Pid \ {pid} : Keeps(t, u, p)
  BY <1>6 DEF Keeps
<1>8. \A i \in Priority : Contains(u.ready[i], pid) => i = priority
  BY <1>1, <1>5
<1> QED
  BY <1>7, <1>8 DEF u

\* Either nobody is moved, or only the process that changePriority is asked about.
MovesOnly(t, u, pid, priority) ==
  /\ \A p \in Pid \ {pid} : Keeps(t, u, p)
  /\ \A i \in Priority : Contains(u.ready[i], pid) => i = priority

LEMMA ChangePriorityKeeps ==
  ASSUME NEW t \in Table, WellPlaced(t), NEW pid \in Pid, NEW priority
  PROVE  LET u == ChangePriority(t, pid, priority)
         IN  \/ Follows(t, u)
             \/ priority \in Priority /\ MovesOnly(t, u, pid, priority)
<1>1. CASE ~ CanChangePriority(t, pid, priority)
  BY <1>1, GrownSame DEF ChangePriority, Grown
<1>2. CASE CanChangePriority(t, pid, priority) /\ IsReady(t, pid)
  <2> DEFINE b == SetPriority(t, pid, priority)
  <2>1. priority \in Priority
    BY <1>2 DEF CanChangePriority
  <2>2. \/ ChangePriority(t, pid, priority) = MoveToQueue(t, pid, priority)
        \/ ChangePriority(t, pid, priority) = MoveToQueue(b, pid, priority)
    BY <1>2 DEF ChangePriority, ChangeReadyPriority
  <2>3. /\ b \in Table
        /\ WellPlaced(b)
        /\ b.ready = t.ready
        /\ \A p \in Pid : p # pid => b.proc[p].priority = t.proc[p].priority
    BY <2>1, SetPriorityWellPlaced
  <2> HIDE DEF b
  <2>4. \A p \in Pid : IsReady(b, p) <=> IsReady(t, p)
    BY <2>3 DEF IsReady
  <2>5. MovesOnly(t, MoveToQueue(t, pid, priority), pid, priority)
    BY <1>2, <2>1, MoveToQueueKeeps DEF MovesOnly
  <2>6. MovesOnly(b, MoveToQueue(b, pid, priority), pid, priority)
    BY <1>2, <2>1, <2>3, <2>4, MoveToQueueKeeps DEF MovesOnly
  <2>7. \A u : MovesOnly(b, u, pid, priority) => MovesOnly(t, u, pid, priority)
    <3>1. ASSUME NEW u, NEW p \in Pid \ {pid}, Keeps(b, u, p)
          PROVE  Keeps(t, u, p)
      BY <2>3, <2>4, <3>1 DEF Keeps
    <3> QED
      BY <3>1 DEF MovesOnly
  <2> QED
    BY <2>1, <2>2, <2>5, <2>6, <2>7
<1>3. CASE CanChangePriority(t, pid, priority) /\ ~ IsReady(t, pid)
  <2> DEFINE u == SetPriority(t, pid, priority)
  <2>1. ChangePriority(t, pid, priority) = u
    BY <1>3 DEF ChangePriority
  <2>2. u.ready = t.ready /\ \A p \in Pid : p # pid => u.proc[p].priority = t.proc[p].priority
    BY <1>3, SetPriorityWellPlaced DEF CanChangePriority
  <2> HIDE DEF u
  <2>3. Follows(t, u)
    BY <1>3, <2>2, SameQueues DEF Grown
  <2> QED
    BY <2>1, <2>3
<1> QED
  BY <1>1, <1>2, <1>3

-----------------------------------------------------------------------------
(* The same for the steps of the specification.  A step is an interrupt, which *)
(* finds the table t that the call has left and gives the cpu away, or it      *)
(* leaves the cpu alone.                                                       *)

Interrupted(v, w) ==
  \E t \in Table : /\ WellPlaced(t)
                   /\ t.running = v.running
                   /\ Grown(v, t)
                   /\ Follows(t, w)
                   /\ Elected(t, w)

LEMMA FireInterrupts ==
  ASSUME NEW t \in Table, WellPlaced(t), t.running = Running, Grown(pcb, t),
         NEW s \in Seq(SleepEntry), NEW call, FireTimerInt(t, s, call)
  PROVE  Interrupted(pcb, pcb')
<1>1. pcb' = WakeDue(PriorityScheduler(t), s)
  BY DEF FireTimerInt
<1>2. Follows(t, pcb') /\ Elected(t, pcb')
  BY <1>1, InterruptChoice
<1> QED
  BY <1>2 DEF Interrupted, Running

LEMMA BlockInInterrupts ==
  ASSUME NEW t \in Table, WellPlaced(t), t.running = Running, Grown(pcb, t),
         NEW s \in Seq(SleepEntry), NEW call, BlockIn(t, s, call)
  PROVE  Interrupted(pcb, pcb')
<1> DEFINE b == SetState(t, t.running, "BLOCKED")
<1>1. "BLOCKED" \in ProcessState \ {"FREE"}
  BY DEF ProcessState
<1>2. t.running # Halt /\ t.running \in Pid
  BY TableFields DEF BlockIn
<1>3. b \in Table /\ WellPlaced(b) /\ b.running = t.running /\ Grown(t, b)
  BY <1>1, <1>2, SetRunningStateWellPlaced, SetStateGrown
<1>4. FireTimerInt(b, s, call)
  BY DEF BlockIn
<1> HIDE DEF b
<1>5. Grown(pcb, b)
  BY <1>3, GrownTwice
<1> QED
  BY <1>3, <1>4, <1>5, FireInterrupts

LEMMA TimerInterrupts ==
  ASSUME IInv, TimerInterrupt
  PROVE  Interrupted(pcb, pcb')
BY IInvFacts, GrownSame, FireInterrupts DEF TimerInterrupt

\* The other steps leave the cpu to whoever has it.
CpuKept == Running' = Running /\ Follows(pcb, pcb')

MovedOnly ==
  /\ Running' = Running
  /\ \E pid \in Pid, priority \in Priority :
       /\ ChangeProcessPriority(pid, priority)
       /\ MovesOnly(pcb, pcb', pid, priority)

LEMMA ReturnKept ==
  ASSUME NEW t, Return(t), t.running = Running, Follows(pcb, t)
  PROVE  CpuKept
BY DEF Return, CpuKept, Running

LEMMA OrderlyOutcome ==
  ASSUME IInv, OrderlyStep
  PROVE  Interrupted(pcb, pcb') \/ CpuKept
<1>1. CASE TimerInterrupt
  BY <1>1, TimerInterrupts
<1>2. CASE Yield
  BY <1>2, IInvFacts, GrownSame, FireInterrupts DEF Yield
<1>3. CASE Exit
  <2> DEFINE u == ExitRunning(pcb)
  <2>1. pcb.running # Halt
    BY <1>3 DEF Exit, Running
  <2>2. u \in Table /\ WellPlaced(u) /\ u.running = pcb.running /\ Grown(pcb, u)
    BY <2>1, IInvFacts, ExitRunningWellPlaced, ExitRunningGrown
  <2>3. FireTimerInt(u, sleeped, "none")
    BY <1>3 DEF Exit
  <2> HIDE DEF u
  <2> QED
    BY <2>2, <2>3, IInvFacts, FireInterrupts
<1>4. ASSUME NEW priority \in Priority, CreateBackground(priority)
      PROVE  CpuKept
  <2> DEFINE u == CreateProcess(pcb, priority)
  <2>1. u.running = Running /\ pcb.nextPid \in Pid
    <3>1. pcb.nextPid + 1 <= MaxPid + 1 /\ pcb.nextPid \in Nat
      BY <1>4, IInvFacts DEF CreateBackground, PidsLeft
    <3>2. pcb.nextPid \in Pid
      BY <3>1, MaxPidAssumption DEF Pid
    <3> QED
      BY <1>4, <3>2, CreateKeeps DEF CreateBackground
  <2>2. Grown(pcb, u)
    BY <2>1, IInvFacts, CreateGrown
  <2>3. Return(u)
    BY <1>4 DEF CreateBackground
  <2> HIDE DEF u
  <2> QED
    BY <2>1, <2>2, <2>3, ReturnKept DEF Grown
<1>5. CASE CreateWithPipes
  <2> DEFINE u == CreateProcess(pcb, 0)
             w == CreateProcess(u, 0)
  <2>1. /\ u \in Table /\ WellPlaced(u) /\ u.running = Running /\ u.nextPid \in Pid
        /\ pcb.nextPid \in Pid
    <3>1. pcb.nextPid + 2 <= MaxPid + 1 /\ pcb.nextPid \in Nat
      BY <1>5, IInvFacts DEF CreateWithPipes, PidsLeft
    <3>2. pcb.nextPid \in Pid
      BY <3>1, MaxPidAssumption DEF Pid
    <3> QED
      BY <1>5, <3>2, CreateKeeps DEF CreateWithPipes
  <2>2. Grown(pcb, u)
    BY <2>1, IInvFacts, CreateGrown
  <2>3. BlockIn(w, sleeped, "create_with_pipes")
    BY <1>5 DEF CreateWithPipes
  <2> HIDE DEF u
  <2>4. w \in Table /\ WellPlaced(w) /\ w.running = Running /\ Grown(u, w)
    BY <2>1, CreateProcessWellPlaced, CreateGrown
  <2> HIDE DEF w
  <2>5. Grown(pcb, w)
    BY <2>2, <2>4, GrownTwice
  <2> QED
    BY <2>3, <2>4, <2>5, IInvFacts, BlockInInterrupts
<1>6. CASE Wait
  BY <1>6, IInvFacts, GrownSame, BlockInInterrupts DEF Wait
<1> QED
  BY <1>1, <1>2, <1>3, <1>4, <1>5, <1>6 DEF OrderlyStep

LEMMA CreateOutcome ==
  ASSUME IInv, NEW priority,
         CreateBackground(priority) \/ CreateForeground(priority)
  PROVE  Interrupted(pcb, pcb') \/ CpuKept
<1> DEFINE u == CreateProcess(pcb, priority)
<1>1. u \in Table /\ WellPlaced(u) /\ u.running = Running
  BY CreateKeeps DEF CreateBackground, CreateForeground
<1>2. Grown(pcb, u)
  <2>1. pcb.nextPid + 1 <= MaxPid + 1 /\ pcb.nextPid \in Nat
    BY IInvFacts DEF CreateBackground, CreateForeground, PidsLeft
  <2>2. pcb.nextPid \in Pid
    BY <2>1, MaxPidAssumption DEF Pid
  <2> QED
    BY <2>2, IInvFacts, CreateGrown
<1>3. CASE CreateBackground(priority)
  <2>1. Return(u)
    BY <1>3 DEF CreateBackground
  <2> HIDE DEF u
  <2> QED
    BY <1>1, <1>2, <2>1, ReturnKept DEF Grown
<1>4. CASE CreateForeground(priority)
  <2>1. BlockIn(u, sleeped, "create_foreground")
    BY <1>4 DEF CreateForeground
  <2> HIDE DEF u
  <2> QED
    BY <1>1, <1>2, <2>1, IInvFacts, BlockInInterrupts
<1> QED
  BY <1>3, <1>4

LEMMA KillOutcome ==
  ASSUME IInv, KillStep
  PROVE  Interrupted(pcb, pcb') \/ CpuKept
<1>1. CASE KillSelf
  <2> DEFINE u == KillRunning(pcb)
  <2>1. pcb.running # Halt
    BY <1>1 DEF KillSelf, Running
  <2>2. u \in Table /\ WellPlaced(u) /\ u.running = pcb.running /\ Grown(pcb, u)
    BY <2>1, IInvFacts, KillRunningWellPlaced, KillRunningGrown
  <2>3. FireTimerInt(u, sleeped, "none")
    BY <1>1 DEF KillSelf
  <2> HIDE DEF u
  <2> QED
    BY <2>2, <2>3, IInvFacts, FireInterrupts
<1>2. ASSUME NEW pid \in Pid, KillProcess(pid)
      PROVE  CpuKept
  <2> DEFINE u == KillOther(pcb, pid)
  <2>1. u.running = pcb.running /\ Follows(pcb, u)
    BY <1>2, IInvFacts, KillOtherWellPlaced, KillOtherFollows
  <2>2. Return(u)
    BY <1>2 DEF KillProcess
  <2> HIDE DEF u
  <2> QED
    BY <2>1, <2>2, ReturnKept DEF Running
<1> QED
  BY <1>1, <1>2 DEF KillStep

LEMMA SleepOutcome ==
  ASSUME IInv, SleepStep
  PROVE  Interrupted(pcb, pcb')
<1>1. PICK ticks \in SleepTicks : Sleep(ticks)
  BY DEF SleepStep
<1>2. ticks \in Int
  BY SleepTicksAssumption
<1> DEFINE s == AddProcSleep(sleeped, Running, ticks)
<1>3. s \in Seq(SleepEntry)
  BY <1>2, IInvFacts, AddProcSleepType
<1>4. BlockIn(pcb, s, "sleep")
  BY <1>1 DEF Sleep
<1> HIDE DEF s
<1> QED
  BY <1>3, <1>4, IInvFacts, GrownSame, BlockInInterrupts

LEMMA BlockOutcome ==
  ASSUME IInv, BlockStep
  PROVE  Interrupted(pcb, pcb') \/ CpuKept
<1>1. CASE BlockSelf
  BY <1>1, IInvFacts, GrownSame, BlockInInterrupts DEF BlockSelf
<1>2. ASSUME NEW pid \in Pid, BlockProcess(pid)
      PROVE  CpuKept
  <2> DEFINE u == BlockReady(pcb, pid)
  <2>1. u.running = pcb.running /\ Follows(pcb, u)
    BY IInvFacts, BlockReadyWellPlaced, BlockReadyFollows DEF SameProcesses
  <2>2. Return(u)
    BY <1>2 DEF BlockProcess
  <2> HIDE DEF u
  <2> QED
    BY <2>1, <2>2, ReturnKept DEF Running
<1>3. ASSUME NEW pid \in Pid, UnblockProcess(pid) \/ KeyboardWakes(pid)
      PROVE  CpuKept
  <2> DEFINE u == Unblock(pcb, pid)
  <2>1. u.running = pcb.running /\ Follows(pcb, u)
    BY IInvFacts, UnblockWellPlaced, UnblockGrown DEF SameProcesses, Grown
  <2>2. pcb' = u
    BY <1>3 DEF UnblockProcess, Return, KeyboardWakes
  <2> HIDE DEF u
  <2> QED
    BY <2>1, <2>2 DEF CpuKept, Running
<1> QED
  BY <1>1, <1>2, <1>3 DEF BlockStep

LEMMA PriorityOutcome ==
  ASSUME IInv, PriorityStep
  PROVE  CpuKept \/ MovedOnly
<1>1. PICK pid \in Pid, priority \in AnyPriority : ChangeProcessPriority(pid, priority)
  BY DEF PriorityStep
<1> DEFINE u == ChangePriority(pcb, pid, priority)
<1>2. /\ u.running = pcb.running
      /\ \/ Follows(pcb, u)
         \/ priority \in Priority /\ MovesOnly(pcb, u, pid, priority)
  BY IInvFacts, ChangePriorityWellPlaced, ChangePriorityKeeps
<1>3. pcb' = u
  BY <1>1 DEF ChangeProcessPriority, Return
<1> HIDE DEF u
<1>4. Running' = Running
  BY <1>2, <1>3 DEF Running
<1> QED
  BY <1>1, <1>2, <1>3, <1>4 DEF CpuKept, MovedOnly

LEMMA StepOutcome ==
  ASSUME IInv, Next
  PROVE  Interrupted(pcb, pcb') \/ CpuKept \/ MovedOnly
<1>1. CASE OrderlyStep
  BY <1>1, OrderlyOutcome
<1>2. CASE ForegroundStep
  BY <1>2, CreateOutcome DEF ForegroundStep
<1>3. CASE InvalidCreateStep
  BY <1>3, CreateOutcome DEF InvalidCreateStep
<1>4. CASE KillStep
  BY <1>4, KillOutcome
<1>5. CASE SleepStep
  BY <1>5, SleepOutcome
<1>6. CASE BlockStep
  BY <1>6, BlockOutcome
<1>7. CASE PriorityStep
  BY <1>7, PriorityOutcome
<1> QED
  BY <1>1, <1>2, <1>3, <1>4, <1>5, <1>6, <1>7 DEF Next

LEMMA ReadyQueue ==
  ASSUME NEW t \in Table, NEW i \in Priority, NEW p
  PROVE  p \in ToSet(t.ready[i]) <=> p \in Pid /\ Contains(t.ready[i], p)
<1>1. t.ready[i] \in Seq(Pid)
  BY TableFields
<1>2. Contains(t.ready[i], p) => p \in Pid
  BY <1>1, ElementOfSeq DEF Contains
<1> QED
  BY <1>1, <1>2, InQueue

\* An interrupt keeps the queues in order, together with the call that raised it.
LEMMA InterruptedFollows ==
  ASSUME NEW v, NEW w, Interrupted(v, w)
  PROVE  Follows(v, w)
BY GrownFollows DEF Interrupted

LEMMA StepKeeps ==
  ASSUME IInv, Next, NEW p \in Pid
  PROVE  \/ Keeps(pcb, pcb', p)
         \/ \E priority \in Priority :
              /\ ChangeProcessPriority(p, priority)
              /\ \A i \in Priority : Contains(pcb'.ready[i], p) => i = priority
<1>1. CASE Interrupted(pcb, pcb')
  BY <1>1, InterruptedFollows DEF Follows
<1>2. CASE CpuKept
  BY <1>2 DEF CpuKept, Follows
<1>3. CASE MovedOnly
  <2>1. PICK pid \in Pid, priority \in Priority :
          ChangeProcessPriority(pid, priority) /\ MovesOnly(pcb, pcb', pid, priority)
    BY <1>3 DEF MovedOnly
  <2>2. CASE p = pid
    BY <2>1, <2>2 DEF MovesOnly
  <2>3. CASE p # pid
    BY <2>1, <2>3 DEF MovesOnly
  <2> QED
    BY <2>2, <2>3
<1> QED
  BY <1>1, <1>2, <1>3, StepOutcome

\* A process waits in the queue of its level, or in the one that changePriority has put
\* it in, and no scheduling decision takes a level from it while it waits.
THEOREM LevelsAreKept == Spec => QueueMatchesPriority
<1>1. ASSUME IInv, Next
      PROVE  \A i \in Priority : \A p \in ToSet(pcb'.ready[i]) :
               \/ ChangeProcessPriority(p, i)
               \/ IF Contains(pcb.ready[i], p)
                  THEN pcb'.proc[p].priority = pcb.proc[p].priority
                  ELSE pcb'.proc[p].priority = i
  <2> SUFFICES ASSUME NEW i \in Priority, NEW p \in ToSet(pcb'.ready[i])
               PROVE  \/ ChangeProcessPriority(p, i)
                      \/ IF Contains(pcb.ready[i], p)
                         THEN pcb'.proc[p].priority = pcb.proc[p].priority
                         ELSE pcb'.proc[p].priority = i
    OBVIOUS
  <2>1. pcb' \in Table
    BY <1>1, StepIInv DEF IInv, TypeOK
  <2>2. p \in Pid /\ Contains(pcb'.ready[i], p)
    BY <2>1, ReadyQueue
  <2>3. CASE Keeps(pcb, pcb', p)
    BY <2>2, <2>3 DEF Keeps
  <2>4. ASSUME NEW priority \in Priority, ChangeProcessPriority(p, priority),
               Contains(pcb'.ready[i], p) => i = priority
        PROVE  ChangeProcessPriority(p, i)
    BY <2>2, <2>4
  <2> QED
    BY <1>1, <2>2, <2>3, <2>4, StepKeeps
<1> QED
  BY <1>1, InitIInv, StepIInv, PTL DEF Spec, QueueMatchesPriority

\* Whoever gets the cpu from a ready queue stood at its head: nobody ahead of it stays
\* behind.
LEMMA HeadIsChosen ==
  ASSUME NEW v \in Table, WellPlaced(v), NEW w, Interrupted(v, w), w.running # v.running,
         NEW i \in Priority, NEW p \in Pid, Contains(v.ready[i], p)
  PROVE  ~ Before(v.ready[i], p, w.running)
<1> SUFFICES ASSUME Before(v.ready[i], p, w.running) PROVE FALSE
  OBVIOUS
<1> DEFINE r == w.running
<1>1. v.ready[i] \in Seq(Pid) /\ IsInjective(v.ready[i])
  BY TableFields DEF WellPlaced
<1>2. r \in Pid /\ Contains(v.ready[i], r) /\ p # r /\ ~ Before(v.ready[i], r, p)
  <2>1. Contains(v.ready[i], r)
    BY <1>1, BeforeIn
  <2>2. r \in Pid
    BY <1>1, <2>1, ElementOfSeq DEF Contains
  <2> QED
    BY <1>1, <2>1, <2>2, BeforeOnce
<1>3. PICK t \in Table : /\ WellPlaced(t)
                         /\ t.running = v.running
                         /\ Grown(v, t)
                         /\ Elected(t, w)
  BY DEF Interrupted
<1>4. Contains(t.ready[i], r) /\ Contains(t.ready[i], p)
  BY <1>2, <1>3 DEF Grown, Stays
<1>5. r \notin {t.running, Halt}
  BY <1>2, <1>4, <1>3 DEF WellPlaced, IsReady
<1>6. PICK j \in Priority : t.ready[j] # <<>> /\ r = Head(t.ready[j])
  BY <1>3, <1>5 DEF Elected
<1>7. i = j
  <2>1. t.ready[j] \in Seq(Pid)
    BY TableFields
  <2>2. Contains(t.ready[j], r)
    BY <1>6, <2>1, HeadTailSplit
  <2> QED
    BY <1>2, <1>3, <1>4, <2>2 DEF WellPlaced
<1>8. Before(t.ready[i], r, p)
  <2>1. t.ready[i] \in Seq(Pid)
    BY TableFields
  <2> QED
    BY <1>2, <1>4, <1>6, <1>7, <2>1, HeadBefore
<1>9. Before(v.ready[i], r, p)
  BY <1>3, <1>4, <1>8 DEF Grown, Follows, Keeps
<1> QED
  BY <1>2, <1>9

\* Round robin, whatever programs do: nobody overtakes a process that stays in its queue.
THEOREM OrderIsKept == Spec => QueueOrderKept
<1>1. ASSUME IInv, Next
      PROVE  \A i \in Priority :
               \A p \in ToSet(pcb.ready[i]) \cap ToSet(pcb'.ready[i]) :
                 \/ Moved(p)
                 \/ /\ \A q \in ToSet(pcb'.ready[i]) :
                         Before(pcb'.ready[i], q, p) => Before(pcb.ready[i], q, p)
                    /\ Running' # Running => ~ Before(pcb.ready[i], p, Running')
  <2> SUFFICES ASSUME NEW i \in Priority,
                      NEW p \in ToSet(pcb.ready[i]) \cap ToSet(pcb'.ready[i]),
                      ~ Moved(p)
               PROVE  /\ \A q \in ToSet(pcb'.ready[i]) :
                           Before(pcb'.ready[i], q, p) => Before(pcb.ready[i], q, p)
                      /\ Running' # Running => ~ Before(pcb.ready[i], p, Running')
    OBVIOUS
  <2>1. pcb \in Table /\ WellPlaced(pcb) /\ pcb' \in Table
    BY <1>1, IInvFacts, StepIInv DEF IInv, TypeOK
  <2>2. p \in Pid /\ Contains(pcb.ready[i], p) /\ Contains(pcb'.ready[i], p)
    BY <2>1, ReadyQueue
  <2>3. Keeps(pcb, pcb', p)
    BY <1>1, <2>2, StepKeeps DEF Moved
  <2>4. \A q : Before(pcb'.ready[i], q, p) => Before(pcb.ready[i], q, p)
    BY <2>2, <2>3 DEF Keeps
  <2>5. ASSUME Running' # Running
        PROVE  ~ Before(pcb.ready[i], p, Running')
    <3>1. Interrupted(pcb, pcb')
      BY <1>1, <2>5, StepOutcome DEF CpuKept, MovedOnly
    <3>2. pcb'.running # pcb.running
      BY <2>5 DEF Running
    <3> QED
      BY <2>1, <2>2, <3>1, <3>2, HeadIsChosen DEF Running
  <2> QED
    BY <2>4, <2>5
<1> QED
  BY <1>1, InitIInv, StepIInv, PTL DEF Spec, QueueOrderKept

\* Let l be the level the cpu is given from: nobody that was ready in v, before the
\* interrupt, waits above it afterwards.
LEMMA HighestIsChosen ==
  ASSUME NEW v \in Table, WellPlaced(v), NEW w \in Table, Interrupted(v, w),
         NEW l \in Priority,
         IF IsReady(v, w.running) THEN Contains(v.ready[l], w.running)
                                  ELSE l = w.proc[w.running].priority,
         NEW i \in Priority, NEW p \in Pid, Contains(w.ready[i], p), IsReady(v, p)
  PROVE  i <= l
<1> DEFINE r == w.running
<1>1. PICK t \in Table : /\ WellPlaced(t)
                         /\ t.running = v.running
                         /\ Grown(v, t)
                         /\ Follows(t, w)
                         /\ Elected(t, w)
  BY DEF Interrupted
<1>2. Contains(t.ready[i], p)
  <2>1. Contains(v.ready[i], p)
    BY InterruptedFollows DEF Follows, Keeps
  <2> QED
    BY <1>1, <2>1 DEF Grown, Stays
<1>3. t.ready[i] # <<>>
  BY <1>2 DEF Contains
<1>4. r \in Pid /\ i \in Nat /\ l \in Nat
  BY TableFields, PriorityNat
<1>5. ASSUME IsReady(v, r)
      PROVE  Contains(t.ready[l], r)
  BY <1>1, <1>4, <1>5 DEF Grown, Stays
<1>6. CASE r \in {t.running, Halt} /\ i < w.proc[r].priority
  <2>1. ~ IsReady(t, r)
    BY <1>1, <1>4, <1>6 DEF WellPlaced
  <2>2. ~ IsReady(v, r)
    BY <1>5, <2>1 DEF IsReady
  <2>3. l = w.proc[r].priority
    BY <2>2
  <2> HIDE DEF r
  <2> QED
    BY <1>4, <1>6, <2>3
<1>7. ASSUME NEW j \in Priority,
             t.ready[j] # <<>>,
             r = Head(t.ready[j]),
             w.proc[r].priority = t.proc[r].priority,
             i <= j
      PROVE  i <= l
  <2>1. t.ready[j] \in Seq(Pid)
    BY TableFields
  <2>2. Contains(t.ready[j], r)
    BY <1>7, <2>1, HeadTailSplit
  <2>3. CASE IsReady(v, r)
    <3>1. l = j
      BY <1>1, <1>4, <1>5, <2>2, <2>3 DEF WellPlaced
    <3> QED
      BY <1>7, <3>1
  <2>4. CASE ~ IsReady(v, r)
    <3>1. ~ Contains(v.ready[j], r)
      BY <2>4 DEF IsReady
    <3>2. t.proc[r].priority = j
      BY <1>1, <1>4, <2>2, <3>1 DEF Grown, Follows, Keeps
    <3>3. l = w.proc[r].priority
      BY <2>4
    <3> QED
      BY <1>7, <3>2, <3>3
  <2> QED
    BY <2>3, <2>4
<1> QED
  BY <1>1, <1>3, <1>6, <1>7 DEF Elected

LEMMA LevelOf ==
  ASSUME IInv, IInv', NEW p \in Pid
  PROVE  /\ Level(p) \in Priority
         /\ IF IsReady(pcb, p) THEN Contains(pcb.ready[Level(p)], p)
                               ELSE Level(p) = pcb'.proc[p].priority
<1>1. pcb'.proc[p].priority \in Priority
  <2>1. pcb' \in Table
    BY DEF IInv, TypeOK
  <2> QED
    BY <2>1, TableFields, ProcessFields
<1>2. CASE IsReady(pcb, p)
  <2>1. \E i \in Priority : Contains(pcb.ready[i], p)
    BY <1>2 DEF IsReady
  <2>2. Level(p) = CHOOSE i \in Priority : Contains(pcb.ready[i], p)
    BY <1>2 DEF Level
  <2> QED
    BY <1>2, <2>1, <2>2
<1>3. CASE ~ IsReady(pcb, p)
  BY <1>1, <1>3 DEF Level
<1> QED
  BY <1>2, <1>3

\* Every interrupt gives the cpu to the highest level: whoever waits above it was not
\* ready when the choice was made.
THEOREM HighestRuns == Spec => HighestPriorityFirst
<1>1. ASSUME IInv, Next
      PROVE  TimerInterrupt \/ Running' # Running =>
               \A i \in Priority : \A p \in ToSet(pcb'.ready[i]) :
                 i > Level(Running') => ~ IsReady(pcb, p)
  <2> SUFFICES ASSUME TimerInterrupt \/ Running' # Running,
                      NEW i \in Priority, NEW p \in ToSet(pcb'.ready[i]),
                      IsReady(pcb, p)
               PROVE  ~ (i > Level(Running'))
    OBVIOUS
  <2>1. IInv'
    BY <1>1, StepIInv
  <2>2. pcb \in Table /\ WellPlaced(pcb) /\ pcb' \in Table
    BY <1>1, <2>1, IInvFacts DEF IInv, TypeOK
  <2>3. Interrupted(pcb, pcb')
    BY <1>1, StepOutcome, TimerInterrupts DEF CpuKept, MovedOnly
  <2>4. Running' \in Pid /\ Running' = pcb'.running
    BY <2>2, TableFields DEF Running
  <2>5. p \in Pid /\ Contains(pcb'.ready[i], p)
    BY <2>2, ReadyQueue
  <2> DEFINE l == Level(Running')
  <2>6. /\ l \in Priority
        /\ IF IsReady(pcb, Running') THEN Contains(pcb.ready[l], Running')
                                     ELSE l = pcb'.proc[Running'].priority
    BY <1>1, <2>1, <2>4, LevelOf
  <2> HIDE DEF l
  <2>7. i <= l
    BY <2>2, <2>3, <2>4, <2>5, <2>6, HighestIsChosen
  <2>8. i \in Nat /\ l \in Nat
    BY <2>6, PriorityNat
  <2> QED
    BY <2>7, <2>8 DEF l
<1> QED
  BY <1>1, InitIInv, StepIInv, PTL DEF Spec, HighestPriorityFirst
=============================================================================
