----------------------------- MODULE Semaphore -----------------------------
(***************************************************************************)
(* One semaphore of Kernel/sem.c, instruction by instruction where an       *)
(* interrupt can come in between.                                           *)
(*                                                                          *)
(* A system call starts with interrupts disabled; enter_region enables them *)
(* once it has the lock, and the rest of the call can be preempted.  The    *)
(* lock is not released by a wait that leaves the value at zero: it stays   *)
(* held until somebody posts, and a post that finds the value at zero does  *)
(* not take it.                                                             *)
(*                                                                          *)
(* The scheduler is the one of Scheduler seen from here: any ready process  *)
(* may be the next one, the halt process if there is none.  The compiler    *)
(* does not optimise, so val++ and val-- are a load and a store.            *)
(*                                                                          *)
(* The queue is the list from first_proc on; the elements that a miss puts  *)
(* behind a NULL first_proc are lost to it.  The stores of sem_nq_proc are  *)
(* one step: what a post that comes in between does to an empty queue is    *)
(* not modelled.                                                            *)
(***************************************************************************)
EXTENDS Integers, Sequences, SequencesExt

CONSTANTS Proc,         \* the processes
          Halt,         \* the halt process, none of them
          MaxVal,       \* bound: val is read for a post below it, for a wait above -MaxVal
          MaxChars,     \* bound: posts or waits that one system call makes
          MaxQueue      \* bound: the length of the queue at an unblock from elsewhere

ASSUME HaltAssumption == Halt \notin Proc
ASSUME MaxCharsAssumption == MaxChars \in Nat \ {0}

Person == Proc \cup {Halt}

VARIABLES sem,          \* the semaphore
          frame,        \* where the kernel code of each process is
          masked,       \* the processes that run with interrupts disabled
          cpu,          \* the running process
          blocked,      \* the processes that the scheduler holds blocked
          inside        \* processes back from a wait that have not posted since

vars == <<sem, frame, masked, cpu, blocked, inside>>

Locked == 1
Unlocked == 0

Sem == [open : BOOLEAN, lock : {Unlocked, Locked}, val : Int,
        queue : Seq(Person),         \* the pids from first_proc on
        size : Int]                  \* size_list

\* The lines of sem_wait and sem_post, and of enter_region, an interrupt can
\* come between.
Location == {"user", "test_val", "enter_region", "sem_miss", "block", "miss", "load",
             "store", "wake", "dequeue", "shrink", "unblock", "test_zero",
             "leave_region"}

Frame == [call : {"none", "wait", "post"}, at : Location,
          seen : Int,                  \* the register val is loaded in
          woken : SUBSET Person,       \* the pid sem_dq_proc returns, none if it is -1
          left : 0 .. MaxChars]        \* posts or waits this call still makes

UserCode == [call |-> "none", at |-> "user", seen |-> 0, woken |-> {}, left |-> 0]

Starting(call, n) ==
  [call |-> call,
   at |-> IF call = "wait" THEN "enter_region" ELSE "test_val",
   seen |-> 0, woken |-> {}, left |-> n]

\* create_sem on a slot whose struct is s.
Created(s, v) == [open |-> TRUE,
                  lock |-> IF v = 0 THEN Locked ELSE s.lock,
                  val |-> v,
                  queue |-> <<>>,
                  size |-> 0]

Init(v) ==
  /\ sem = Created([lock |-> Unlocked], v)
  /\ frame = [p \in Person |-> UserCode]
  /\ masked = {}
  /\ cpu \in Proc
  /\ blocked = {}
  /\ inside = {}

-----------------------------------------------------------------------------
(* Scheduling. *)

\* int 20h: any process out of asleep may be next.
Switch(asleep) ==
  /\ blocked' = asleep
  /\ cpu' \in IF Proc \subseteq asleep THEN {Halt} ELSE Proc \ asleep

TimerInterrupt ==
  /\ cpu \notin masked
  /\ Switch(blocked)
  /\ UNCHANGED <<sem, frame, masked, inside>>

-----------------------------------------------------------------------------
(* Calls. *)

Call(p, call, n) ==
  /\ p = cpu
  /\ frame[p] = UserCode
  /\ frame' = [frame EXCEPT ![p] = Starting(call, n)]
  /\ masked' = masked \cup {p}
  /\ UNCHANGED <<sem, cpu, blocked>>

\* n calls of sem_wait in a row: sem_wait itself, or system_read of n characters.
CallWait(p, n) ==
  /\ Call(p, "wait", n)
  /\ UNCHANGED inside

\* n calls of sem_post in a row: sem_post itself, or write_to_pipe of n
\* characters.
CallPost(p, n) ==
  /\ Call(p, "post", n)
  /\ inside' = inside \ {p}

\* sem_post in the same system call as the wait before it (open_pipe, close_pipe):
\* enter_region has enabled the interrupts.
PostInCall(p) ==
  /\ p = cpu
  /\ frame[p] = UserCode
  /\ frame' = [frame EXCEPT ![p] = Starting("post", 1)]
  /\ inside' = inside \ {p}
  /\ UNCHANGED <<sem, masked, cpu, blocked>>

\* clear_sem unblocks every process in the queue; lock and val keep their values.  It
\* never ends if size_list says that there are more.
Close(p) ==
  /\ p = cpu
  /\ frame[p] = UserCode
  /\ sem.open
  /\ sem.size = Len(sem.queue)
  /\ sem' = [sem EXCEPT !.open = FALSE, !.queue = <<>>, !.size = 0]
  /\ blocked' = blocked \ ToSet(sem.queue)
  /\ UNCHANGED <<frame, masked, cpu, inside>>

\* unblock(p) from elsewhere: the system call, the exit of a child of p, or a sleep
\* that ends.
Disturb(p) ==
  /\ p \in blocked
  /\ Len(sem.queue) < MaxQueue
  /\ blocked' = blocked \ {p}
  /\ UNCHANGED <<sem, frame, masked, cpu, inside>>

Create(p, v) ==
  /\ p = cpu
  /\ frame[p] = UserCode
  /\ ~sem.open
  /\ sem' = Created(sem, v)
  /\ UNCHANGED <<frame, masked, cpu, blocked, inside>>

-----------------------------------------------------------------------------
(* The code of sem_wait, sem_post and enter_region, for the running process. *)

At(location) == frame[cpu].at = location

Goto(location) == frame' = [frame EXCEPT ![cpu].at = location]

\* The end of sem_wait or sem_post: the next character, or the return.
Done ==
  LET f == frame[cpu]
  IN IF f.left > 1
     THEN /\ frame' = [frame EXCEPT ![cpu] = Starting(f.call, f.left - 1)]
          /\ UNCHANGED <<masked, inside>>
     ELSE /\ frame' = [frame EXCEPT ![cpu] = UserCode]
          /\ masked' = masked \ {cpu}
          /\ inside' = IF f.call = "wait" THEN inside \cup {cpu} ELSE inside

\* sem_post takes the lock only if the value is not zero.
TestVal ==
  /\ At("test_val")
  /\ Goto(IF sem.val # 0 THEN "enter_region" ELSE "load")
  /\ UNCHANGED <<sem, masked, cpu, blocked, inside>>

\* Mutant of EnterHit: the exchange does not write the lock.
EnterHitUnlocked ==
  /\ At("enter_region")
  /\ sem.lock = Unlocked
  /\ Goto("load")
  /\ masked' = masked \ {cpu}
  /\ UNCHANGED <<sem, cpu, blocked, inside>>

EnterHit ==
  /\ At("enter_region")
  /\ sem.lock = Unlocked
  /\ sem' = [sem EXCEPT !.lock = Locked]
  /\ Goto("load")
  /\ masked' = masked \ {cpu}
  /\ UNCHANGED <<cpu, blocked, inside>>

EnterMiss ==
  /\ At("enter_region")
  /\ sem.lock = Locked
  /\ Goto("sem_miss")
  /\ UNCHANGED <<sem, masked, cpu, blocked, inside>>

\* Mutant of SemMiss: it queues the value for the pid.
SemMissValue ==
  /\ At("sem_miss")
  /\ sem' = IF sem.open THEN [sem EXCEPT !.queue = Append(@, sem.val), !.size = @ + 1]
            ELSE sem
  /\ Goto("block")
  /\ UNCHANGED <<masked, cpu, blocked, inside>>

\* sem_nq_proc goes by size_list: if it counts an element that a post has unlinked and
\* not yet taken off, the new one is put behind no other.  A closed semaphore has no
\* queue.
SemMiss ==
  /\ At("sem_miss")
  /\ sem' = IF ~sem.open THEN sem
            ELSE [sem EXCEPT !.queue = IF sem.size # 0 /\ @ = <<>> THEN @ ELSE Append(@, cpu),
                             !.size = @ + 1]
  /\ Goto("block")
  /\ UNCHANGED <<masked, cpu, blocked, inside>>

\* Interrupts are enabled between the queue and the block if the call took a lock before.
Block ==
  /\ At("block")
  /\ Goto("miss")
  /\ Switch(blocked \cup {cpu})
  /\ UNCHANGED <<sem, masked, inside>>

\* Mutant of Retry: who is woken goes on as if it had the lock.
RetryNot ==
  /\ At("miss")
  /\ Goto("load")
  /\ Switch(blocked)
  /\ UNCHANGED <<sem, masked, inside>>

\* Back from block, the process gives the cpu away once more and tries again.
Retry ==
  /\ At("miss")
  /\ Goto("enter_region")
  /\ Switch(blocked)
  /\ UNCHANGED <<sem, masked, inside>>

Load ==
  /\ At("load")
  /\ IF frame[cpu].call = "post" THEN sem.val < MaxVal ELSE sem.val > -MaxVal
  /\ frame' = [frame EXCEPT ![cpu].at = "store", ![cpu].seen = sem.val]
  /\ UNCHANGED <<sem, masked, cpu, blocked, inside>>

\* Mutant of StoreLess: the value is stored as it was read.
StoreSame ==
  /\ At("store")
  /\ frame[cpu].call = "wait"
  /\ sem' = [sem EXCEPT !.val = frame[cpu].seen]
  /\ frame' = [frame EXCEPT ![cpu].at = "test_zero", ![cpu].seen = 0]
  /\ UNCHANGED <<masked, cpu, blocked, inside>>

StoreLess ==
  /\ At("store")
  /\ frame[cpu].call = "wait"
  /\ sem' = [sem EXCEPT !.val = frame[cpu].seen - 1]
  /\ frame' = [frame EXCEPT ![cpu].at = "test_zero", ![cpu].seen = 0]
  /\ UNCHANGED <<masked, cpu, blocked, inside>>

\* Mutant of TestZero: the test is the other way round.
TestZeroSwapped ==
  /\ At("test_zero")
  /\ IF sem.val = 0
     THEN Goto("leave_region") /\ UNCHANGED <<masked, inside>>
     ELSE Done
  /\ UNCHANGED <<sem, cpu, blocked>>

\* sem_wait keeps the lock if the value is zero.
TestZero ==
  /\ At("test_zero")
  /\ IF sem.val # 0
     THEN Goto("leave_region") /\ UNCHANGED <<masked, inside>>
     ELSE Done
  /\ UNCHANGED <<sem, cpu, blocked>>

StoreMore ==
  /\ At("store")
  /\ frame[cpu].call = "post"
  /\ sem' = [sem EXCEPT !.val = frame[cpu].seen + 1]
  /\ frame' = [frame EXCEPT ![cpu].at = "wake", ![cpu].seen = 0]
  /\ UNCHANGED <<masked, cpu, blocked, inside>>

\* The test of size_list.
Wake ==
  /\ At("wake")
  /\ Goto(IF sem.size > 0 THEN "dequeue" ELSE "leave_region")
  /\ UNCHANGED <<sem, masked, cpu, blocked, inside>>

\* Mutant of Dequeue: the oldest is unlinked and the newest returned.
DequeueLast ==
  /\ At("dequeue")
  /\ sem.open /\ sem.queue # <<>>
  /\ sem' = [sem EXCEPT !.queue = Tail(@)]
  /\ frame' = [frame EXCEPT ![cpu].at = "shrink", ![cpu].woken = {Last(sem.queue)}]
  /\ UNCHANGED <<masked, cpu, blocked, inside>>

\* sem_dq_proc unlinks the first element, if there is one.
Dequeue ==
  /\ At("dequeue")
  /\ IF sem.open /\ sem.queue # <<>>
     THEN /\ sem' = [sem EXCEPT !.queue = Tail(@)]
          /\ frame' = [frame EXCEPT ![cpu].at = "shrink", ![cpu].woken = {Head(sem.queue)}]
     ELSE /\ Goto("unblock")
          /\ UNCHANGED sem
  /\ UNCHANGED <<masked, cpu, blocked, inside>>

Shrink ==
  /\ At("shrink")
  /\ sem' = [sem EXCEPT !.size = @ - 1]
  /\ Goto("unblock")
  /\ UNCHANGED <<masked, cpu, blocked, inside>>

\* Mutant of Unblock: the process is dequeued and stays blocked.
UnblockNobody ==
  /\ At("unblock")
  /\ frame' = [frame EXCEPT ![cpu].at = "leave_region", ![cpu].woken = {}]
  /\ UNCHANGED <<sem, masked, cpu, blocked, inside>>

\* unblock does nothing for a process that is not blocked, or not yet.
Unblock ==
  /\ At("unblock")
  /\ blocked' = blocked \ frame[cpu].woken
  /\ frame' = [frame EXCEPT ![cpu].at = "leave_region", ![cpu].woken = {}]
  /\ UNCHANGED <<sem, masked, cpu, inside>>

\* Mutant of LeaveRegion: the lock is not released.
LeaveRegionLocked ==
  /\ At("leave_region")
  /\ Done
  /\ UNCHANGED <<sem, cpu, blocked>>

LeaveRegion ==
  /\ At("leave_region")
  /\ sem' = [sem EXCEPT !.lock = Unlocked]
  /\ Done
  /\ UNCHANGED <<cpu, blocked>>

KernelStep ==
  \/ TestVal
  \/ EnterHit
  \/ EnterMiss
  \/ SemMiss
  \/ Block
  \/ Retry
  \/ Load
  \/ StoreLess
  \/ TestZero
  \/ StoreMore
  \/ Wake
  \/ Dequeue
  \/ Shrink
  \/ Unblock
  \/ LeaveRegion

-----------------------------------------------------------------------------
(* Programs. *)

System == TimerInterrupt \/ KernelStep

\* Critical sections: a process posts after its wait, and only then.
MutexClient ==
  \E p \in Proc :
    \/ p \notin inside /\ CallWait(p, 1)
    \/ p \in inside /\ CallPost(p, 1)

\* test_sync: critical sections around a semaphore created with 1.
MutexNext == System \/ MutexClient
MutexSpec == Init(1) /\ [][MutexNext]_vars

\* The same where whoever waits may be unblocked from elsewhere, and a critical section
\* may lie within one system call.
DisturbedNext ==
  \/ MutexNext
  \/ \E p \in Proc : Disturb(p) \/ (p \in inside /\ PostInCall(p))
DisturbedSpec == Init(1) /\ [][DisturbedNext]_vars

\* A pipe: its reader waits for characters and its writers post them.
PipeClient(readers, writers) ==
  \E n \in 1 .. MaxChars :
    \/ \E p \in readers : CallWait(p, n)
    \/ \E p \in writers : CallPost(p, n)

-----------------------------------------------------------------------------
(* Properties. *)

TypeOK ==
  /\ sem \in Sem
  /\ frame \in [Person -> Frame]
  /\ masked \subseteq Person
  /\ cpu \in Person
  /\ blocked \subseteq Person
  /\ inside \subseteq Person

\* Mutual exclusion: one process at most is between its wait and its post
\* (test_sync counts on it to add up to zero).
MutualExclusion == \A p, q \in inside : p = q

\* The call is between the hit in enter_region and the end of its own wait or
\* post.
InRegion(f) == f.at \in {"load", "store", "wake", "dequeue", "shrink", "unblock",
                         "test_zero", "leave_region"}

\* Outside the calls the lock says whether the value is zero.
LockMeansEmpty ==
  (\A p \in Person : ~InRegion(frame[p]))
    => (sem.lock = Locked <=> sem.val = 0)

\* Nobody is forgotten in the queue: if a process is blocked then another one is
\* awake that holds the semaphore or is in the middle of a call.
SomebodyActive ==
  blocked # {} => \E p \in Proc \ blocked : p \in inside \/ frame[p] # UserCode

Asking(p) ==
  /\ frame[p].call = "wait"
  /\ frame[p].at \in {"enter_region", "sem_miss", "block", "miss", "load", "store"}

Counting == INSTANCE CountingSemaphore
  WITH Process <- Person,
       tokens <- sem.val,
       waiting <- {p \in Person : Asking(p)}

\* Each wait that returns has taken one token, which a post had put there.
CountsTokens == Counting!Spec

\* If some process waits then some process gets in: the second int 20h of a miss and
\* the next try of who was woken do not chase each other for ever.
SomebodyGetsIn == (\E p \in Proc : frame[p].call = "wait") ~> inside # {}

\* The reader and the writers of a pipe are never blocked all together: there are
\* characters to read or there is room to write (the help of the shell offers "p1 | p2").
PipeMoves == ~ Proc \subseteq blocked

\* A semaphore that is opened with a value above zero, while nobody is in a call on the
\* slot, lets a first process in (test_sync opens its semaphore with 1).
FreshLetsIn ==
  [][/\ ~sem.open /\ sem'.open /\ sem'.val > 0
     /\ \A p \in Person : frame[p] = UserCode
     => sem'.lock = Unlocked]_vars
=============================================================================
