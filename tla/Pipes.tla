------------------------------- MODULE Pipes -------------------------------
(***************************************************************************)
(* The pipes of Kernel/pipes.c and the slots of Kernel/sem.c they live on:  *)
(* opening, closing, writing and reading by several processes.              *)
(*                                                                          *)
(* A call is interruptible from its first enter_region on, so the work of   *)
(* open_pipe and close_pipe between taking and giving back the manager      *)
(* semaphore is split into steps.  The manager is a lock here: that one     *)
(* process at a time is past its wait, also where the post comes with       *)
(* interrupts enabled, is what SemaphoreProofs shows (Exclusive).  Who is   *)
(* next, and whether anybody is woken at all, is left open.                 *)
(*                                                                          *)
(* The semaphore of a pipe is its lock and its value, with the steps of     *)
(* sem_post and sem_wait an interrupt can come between.  Its queue is left  *)
(* open as well: who missed the lock tries again at some time, or never.    *)
(* Programs put and get one character a call (put_char, get_char).          *)
(*                                                                          *)
(* pipes.c counts the processes that opened a pipe and never looks at the   *)
(* count.  The programs of this module therefore agree among themselves: a  *)
(* pipe has one reader and one writer at a time, at most Size characters    *)
(* unread, it is closed by the last process that has it, and nobody opens   *)
(* it meanwhile.                                                            *)
(***************************************************************************)
EXTENDS Integers, Sequences, FiniteSetsExt

CONSTANTS Process,
          Name,         \* names of pipes
          Standard,     \* those of initialize_pipes, which nobody closes
          BadName,      \* those that are empty or too long
          Char,
          NoOne,        \* not a process, name or character
          Instances,    \* PIPES_AMOUNT
          Slots,        \* SEM_AMOUNT - 1: available_sem never gives slot 0
          Size,         \* SIZE, the length of the ring
          MaxVal        \* bound: val is read for a post below it, for a wait above -MaxVal

ASSUME StandardAssumption == Standard \subseteq Name \ BadName /\ IsFiniteSet(Standard)
ASSUME RoomAssumption ==
  /\ {Instances, Slots, Size} \subseteq Nat \ {0}
  /\ Cardinality(Standard) <= Instances
  /\ Instances <= Slots
ASSUME NoOneAssumption == NoOne \notin Process \cup Name \cup Char

Index == 1 .. Instances
Slot == 0 .. Slots

\* r_indx and w_indx grow without end; only their rests by Size are used.
Position == 0 .. 2 * Size - 1
Next1(k) == (k + 1) % (2 * Size)

VARIABLES inst,         \* pipe_inst
          slot,         \* sem_inst: availability, name, lock and val
          holder,       \* who has the manager semaphore, or NoOne
          frame,        \* the call each process is in
          fd,           \* the pipe a process has opened, 0 if none
          seen,         \* the register val is loaded in
          received      \* the character a process got from a read, until its next call

vars == <<inst, slot, holder, frame, fd, seen, received>>

Locked == 1
Unlocked == 0

Location == {"user", "wait_open", "get_pipe", "get_free_instance", "create_sem",
             "fail", "return", "wait_close", "sem_close", "available",
             "enter_post", "load_post", "store_post", "leave_post",
             "enter_wait", "load_wait", "store_wait", "test_zero", "leave_wait", "take_char"}

UserCode == [at |-> "user", name |-> NoOne, index |-> 0]

FreeInstance == [available |-> TRUE, name |-> NoOne, sem |-> 0,
                 r |-> 0, w |-> 0, buffer |-> [k \in 0 .. Size - 1 |-> NoOne]]

-----------------------------------------------------------------------------
(* The tables. *)

Available(table, S) == {i \in S : table[i].available}

\* get_pipe: the first instance in use with that name, 0 if there is none.
GetPipe(n) ==
  LET found == {i \in Index : ~inst[i].available /\ inst[i].name = n}
  IN IF found = {} THEN 0 ELSE Min(found)

\* get_sem_indx.
GetSem(n) ==
  LET found == {s \in Slot : ~slot[s].available /\ slot[s].name = n}
  IN IF found = {} THEN 0 ELSE Min(found)

\* get_free_instance and the first lines of create_pipe.  sem and buffer keep what
\* the last pipe left there.
Reserved(i, n) ==
  [inst EXCEPT ![i] = [@ EXCEPT !.available = FALSE, !.name = n, !.r = 0, !.w = 0]]

ValidIndex(i) == i <= Instances /\ ~inst[i].available

Init ==
  \E order \in [1 .. Cardinality(Standard) -> Standard] :
    /\ {order[k] : k \in DOMAIN order} = Standard
    /\ inst = [i \in Index |->
                 IF i \in DOMAIN order
                 THEN [FreeInstance EXCEPT !.available = FALSE, !.name = order[i], !.sem = i]
                 ELSE FreeInstance]
    /\ slot = [s \in Slot |->
                 IF s \in DOMAIN order
                 THEN [available |-> FALSE, name |-> order[s], lock |-> Locked, val |-> 0]
                 ELSE [available |-> TRUE, name |-> NoOne, lock |-> Unlocked, val |-> 0]]
    /\ holder = NoOne
    /\ frame = [p \in Process |-> UserCode]
    /\ fd = [p \in Process |-> 0]
    /\ seen = [p \in Process |-> 0]
    /\ received = [p \in Process |-> NoOne]

At(p, location) == frame[p].at = location

Goto(p, location) == frame' = [frame EXCEPT ![p].at = location]

Forget(p) == received' = [received EXCEPT ![p] = NoOne]

Return(p) == frame' = [frame EXCEPT ![p] = UserCode]

-----------------------------------------------------------------------------
(* open_pipe. *)

\* What the programs agree on: nobody closes n now.
OpenPipe(p, n) ==
  /\ At(p, "user")
  /\ fd[p] = 0
  /\ \A q \in Process : frame[q].at \in {"wait_close", "sem_close", "available"}
                          => inst[frame[q].index].name # n
  /\ frame' = [frame EXCEPT ![p] = [at |-> "wait_open", name |-> n, index |-> 0]]
  /\ Forget(p)
  /\ UNCHANGED <<inst, slot, holder, fd, seen>>

\* sem_wait(sem_for_pipe_man): its hit in enter_region.
TakeManager(p, from, to) ==
  /\ At(p, from)
  /\ holder = NoOne
  /\ holder' = p
  /\ Goto(p, to)
  /\ UNCHANGED <<inst, slot, fd, seen, received>>

\* Mutant of EnterOpen: the manager semaphore is taken by nobody.
EnterOpenUnlocked(p) ==
  /\ At(p, "wait_open")
  /\ Goto(p, "get_pipe")
  /\ UNCHANGED <<inst, slot, holder, fd, seen, received>>

EnterOpen(p) == TakeManager(p, "wait_open", "get_pipe")

LookUp(p) ==
  /\ At(p, "get_pipe")
  /\ LET i == GetPipe(frame[p].name)
     IN frame' = [frame EXCEPT ![p] =
                   [at |-> IF i = 0 THEN "get_free_instance" ELSE "return",
                    name |-> frame[p].name, index |-> i]]
  /\ UNCHANGED <<inst, slot, holder, fd, seen, received>>

CreatePipe(p) ==
  /\ At(p, "get_free_instance")
  /\ LET free == Available(inst, Index)
     IN IF free = {} \/ frame[p].name \in BadName
        THEN Goto(p, "fail") /\ UNCHANGED inst
        ELSE /\ inst' = Reserved(Min(free), frame[p].name)
             /\ frame' = [frame EXCEPT ![p] = [at |-> "create_sem", name |-> frame[p].name,
                                                index |-> Min(free)]]
  /\ UNCHANGED <<slot, holder, fd, seen, received>>

\* create_sem(0, read_sem_name), which starts locked.  If it fails the instance stays
\* reserved.
CreateSem(p) ==
  /\ At(p, "create_sem")
  /\ LET free == Available(slot, Slot \ {0})
     IN IF free = {}
        THEN Goto(p, "fail") /\ UNCHANGED <<inst, slot>>
        ELSE /\ slot' = [slot EXCEPT ![Min(free)] =
                          [available |-> FALSE, name |-> frame[p].name, lock |-> Locked, val |-> 0]]
             /\ inst' = [inst EXCEPT ![frame[p].index].sem = Min(free)]
             /\ Goto(p, "return")
  /\ UNCHANGED <<holder, fd, seen, received>>

\* open_pipe and close_pipe end with sem_post(sem_for_pipe_man), whose last step,
\* leave_region, lets the next process in.
\*
\* Mutant of OpenFails: open_pipe returns -1 at once.
OpenFailsLocked(p) ==
  /\ At(p, "fail")
  /\ Return(p)
  /\ UNCHANGED <<inst, slot, holder, fd, seen, received>>

OpenFails(p) ==
  /\ At(p, "fail")
  /\ holder' = NoOne
  /\ Return(p)
  /\ UNCHANGED <<inst, slot, fd, seen, received>>

OpenReturns(p) ==
  /\ At(p, "return")
  /\ holder' = NoOne
  /\ fd' = [fd EXCEPT ![p] = frame[p].index]
  /\ Return(p)
  /\ UNCHANGED <<inst, slot, seen, received>>

-----------------------------------------------------------------------------
(* close_pipe. *)

\* What the programs agree on: p is the last that has the pipe, or is about to.
ClosePipe(p) ==
  /\ At(p, "user")
  /\ fd[p] # 0
  /\ inst[fd[p]].name \notin Standard
  /\ \A q \in Process \ {p} : fd[q] # fd[p] /\ frame[q].name # inst[fd[p]].name
  /\ IF ValidIndex(fd[p])
     THEN frame' = [frame EXCEPT ![p] = [at |-> "wait_close", name |-> NoOne, index |-> fd[p]]]
     ELSE UNCHANGED frame
  /\ fd' = [fd EXCEPT ![p] = 0]
  /\ Forget(p)
  /\ UNCHANGED <<inst, slot, holder, seen>>

EnterClose(p) == TakeManager(p, "wait_close", "sem_close")

\* sem_close goes by name.  If the name is not found, close_pipe returns -1 and
\* keeps the manager.
CloseSem(p) ==
  /\ At(p, "sem_close")
  /\ LET s == GetSem(inst[frame[p].index].name)
     IN IF s = 0
        THEN Return(p) /\ UNCHANGED slot
        ELSE /\ slot' = [slot EXCEPT ![s].available = TRUE]
             /\ Goto(p, "available")
  /\ UNCHANGED <<inst, holder, fd, seen, received>>

CloseReturns(p) ==
  /\ At(p, "available")
  /\ inst' = [inst EXCEPT ![frame[p].index].available = TRUE]
  /\ holder' = NoOne
  /\ Return(p)
  /\ UNCHANGED <<slot, fd, seen, received>>

-----------------------------------------------------------------------------
(* Characters. *)

Unread(i) == (inst[i].w + 2 * Size - inst[i].r) % (2 * Size)

Posting == {"enter_post", "load_post", "store_post", "leave_post"}
Waiting == {"enter_wait", "load_wait", "store_wait", "test_zero", "leave_wait", "take_char"}

InCall(i, locations) == \E q \in Process : frame[q].index = i /\ frame[q].at \in locations

SemOf(p) == inst[frame[p].index].sem

With(s, lock, val) == [slot EXCEPT ![s] = [@ EXCEPT !.lock = lock, !.val = val]]

\* The first enter_region of a call of p, with interrupts disabled.
StartRegion(p, hit, miss) ==
  LET s == inst[fd[p]].sem
      free == slot[s].lock = Unlocked
  IN /\ slot' = With(s, Locked, slot[s].val)
     /\ frame' = [frame EXCEPT ![p] = [at |-> IF free THEN hit ELSE miss,
                                        name |-> NoOne, index |-> fd[p]]]

\* write_char up to the first line of its sem_post that can be interrupted: there is none
\* if the value is zero, since such a post does not take the lock.  Bound: Size
\* characters unread.
WriteChar(p, c) ==
  LET s == inst[fd[p]].sem
  IN /\ At(p, "user")
     /\ fd[p] # 0
     /\ ~InCall(fd[p], Posting)
     /\ Unread(fd[p]) < Size
     /\ ValidIndex(fd[p])
     /\ inst' = [inst EXCEPT ![fd[p]].buffer[inst[fd[p]].w % Size] = c,
                             ![fd[p]].w = Next1(@)]
     /\ IF slot[s].val = 0
        THEN slot' = With(s, Unlocked, 1) /\ UNCHANGED frame
        ELSE StartRegion(p, "load_post", "enter_post")
     /\ Forget(p)
     /\ UNCHANGED <<holder, fd, seen>>

\* read_pipe up to the lock or the miss.
ReadPipe(p) ==
  /\ At(p, "user")
  /\ fd[p] # 0
  /\ ~InCall(fd[p], Waiting)
  /\ ValidIndex(fd[p])
  /\ StartRegion(p, "load_wait", "enter_wait")
  /\ Forget(p)
  /\ UNCHANGED <<inst, holder, fd, seen>>

\* Who missed the lock has it at last.
EnterRegion(p, from, to) ==
  /\ At(p, from)
  /\ slot[SemOf(p)].lock = Unlocked
  /\ slot' = With(SemOf(p), Locked, slot[SemOf(p)].val)
  /\ Goto(p, to)
  /\ UNCHANGED <<inst, holder, fd, seen, received>>

Load(p, from, to) ==
  /\ At(p, from)
  /\ IF from = "load_post" THEN slot[SemOf(p)].val < MaxVal ELSE slot[SemOf(p)].val > -MaxVal
  /\ seen' = [seen EXCEPT ![p] = slot[SemOf(p)].val]
  /\ Goto(p, to)
  /\ UNCHANGED <<inst, slot, holder, fd, received>>

Store(p, from, to, val) ==
  /\ At(p, from)
  /\ slot' = With(SemOf(p), slot[SemOf(p)].lock, val)
  /\ seen' = [seen EXCEPT ![p] = 0]
  /\ Goto(p, to)
  /\ UNCHANGED <<inst, holder, fd, received>>

LeavePost(p) ==
  /\ At(p, "leave_post")
  /\ slot' = With(SemOf(p), Unlocked, slot[SemOf(p)].val)
  /\ Return(p)
  /\ UNCHANGED <<inst, holder, fd, seen, received>>

Post(p) ==
  \/ EnterRegion(p, "enter_post", "load_post")
  \/ Load(p, "load_post", "store_post")
  \/ Store(p, "store_post", "leave_post", seen[p] + 1)
  \/ LeavePost(p)

\* sem_wait keeps the lock if the value is zero.
TestZero(p) ==
  /\ At(p, "test_zero")
  /\ Goto(p, IF slot[SemOf(p)].val # 0 THEN "leave_wait" ELSE "take_char")
  /\ UNCHANGED <<inst, slot, holder, fd, seen, received>>

LeaveWait(p) ==
  /\ At(p, "leave_wait")
  /\ slot' = With(SemOf(p), Unlocked, slot[SemOf(p)].val)
  /\ Goto(p, "take_char")
  /\ UNCHANGED <<inst, holder, fd, seen, received>>

Wait(p) ==
  \/ EnterRegion(p, "enter_wait", "load_wait")
  \/ Load(p, "load_wait", "store_wait")
  \/ Store(p, "store_wait", "test_zero", seen[p] - 1)
  \/ TestZero(p)
  \/ LeaveWait(p)

TakeChar(p) ==
  LET i == frame[p].index
  IN /\ At(p, "take_char")
     /\ received' = [received EXCEPT ![p] = inst[i].buffer[inst[i].r % Size]]
     /\ inst' = [inst EXCEPT ![i].r = Next1(@)]
     /\ Return(p)
     /\ UNCHANGED <<slot, holder, fd, seen>>

-----------------------------------------------------------------------------
Call(p) ==
  \/ \E n \in Name : OpenPipe(p, n)
  \/ ClosePipe(p)
  \/ \E c \in Char : WriteChar(p, c)
  \/ ReadPipe(p)

Enter(p) == EnterOpen(p) \/ EnterClose(p)

Manage(p) ==
  \/ LookUp(p)
  \/ CreatePipe(p)
  \/ CreateSem(p)
  \/ OpenFails(p)
  \/ OpenReturns(p)
  \/ CloseSem(p)
  \/ CloseReturns(p)

Transfer(p) == Post(p) \/ Wait(p) \/ TakeChar(p)

Next == \E p \in Process : Call(p) \/ Enter(p) \/ Manage(p) \/ Transfer(p)

Spec == Init /\ [][Next]_vars

-----------------------------------------------------------------------------
(* Properties. *)

\* Instances that a process can use by now: create_pipe is through with them.
Usable == {i \in Index : /\ ~inst[i].available
                         /\ ~InCall(i, {"create_sem", "sem_close", "available"})}

\* However many processes open and close pipes at the same time, no two pipes have the
\* same name or read semaphore, and no pipe is left on a semaphore that somebody else
\* may be given.
PipesApart ==
  \A i \in Usable :
    /\ ~slot[inst[i].sem].available
    /\ slot[inst[i].sem].name = inst[i].name
    /\ \A j \in Usable \ {i} : inst[i].name # inst[j].name /\ inst[i].sem # inst[j].sem

\* Between taking and giving back the manager semaphore.
Managing == {"get_pipe", "get_free_instance", "create_sem", "fail", "return",
             "sem_close", "available"}

\* No way out of open_pipe or close_pipe leaves the manager semaphore taken, also where
\* no pipe can be made; the early return of close_pipe, which would, is never taken,
\* since the semaphore of a pipe that is open is always found by its name.
ManagerGivenBack == holder # NoOne => frame[holder].at \in Managing

Promise == INSTANCE Channels
  WITH Pipe <- Index,
       Nothing <- NoOne,
       content <- [i \in Usable |->
                     [k \in 1 .. Unread(i) |-> inst[i].buffer[(inst[i].r + k - 1) % Size]]]

\* Every character written comes out once and in order, and nothing else does: the help
\* of the shell offers to pipe two processes and to count the lines of an input.
ArrivesInOrder == Promise!Spec
=============================================================================
