# PepsOS verification

TLA+ models of PepsOS, a small multitasking kernel for x86-64 and the programs
of its shell, checked with TLC and proved about with TLAPS. The models are
written from the C and assembly sources; `PROJECT.json` maps each definition to
the lines it stands for.

Run, inside this directory:

    tlc -config SchedSafety.cfg MCScheduler.tla
    tlapm SharingProofs.tla

and the other modules that end in `Proofs`, and `QueueLemmas`, in the same way.

## 1. The system

The kernel is loaded by a boot loader, together with one user-land image. One
processor runs one process at a time. The hardware timer interrupts at a fixed
rate; programs reach the kernel through a software interrupt (`int 60h`).

| component | state | operations |
|---|---|---|
| process table and scheduler (`Kernel/scheduler.c`) | `pcb`: running process, a queue per priority (`ready`, `lastReady`), the list `blocked`, `processCount`; `nextPid`; the `Process` structs | `createProcess` (background, foreground, piped pair), `block`, `unblock`, `kill`, `exit`, `wait`, `yield`, `changePriority`, `priorityScheduler`, `sleep` |
| sleep timers (`Kernel/time.c`) | list `sleeped` of pid and ticks left; tick counter | `addProcSleep`, `checkTimers` (from the timer handler) |
| semaphores (`Kernel/sem.c`, `asm/libasm.asm`) | 128 slots: `lock`, `val`, list of waiting pids, name | `sem_open`, `create_sem`, `sem_close`, `sem_wait`, `sem_post`, `enter_region`, `leave_region` |
| pipes (`Kernel/pipes.c`) | instances with a ring buffer, two indices and a read semaphore; a manager semaphore | `open_pipe`, `close_pipe`, `write_to_pipe`, `read_pipe` |
| keyboard and key buffer (`Kernel/keyboard.c`, `lib.c`) | shift, caps lock, control; a buffer used by the games | keyboard interrupt, `addToBuffer`, readers |
| memory managers (`BuddyMemoryManager.c`, `BlockMemoryManager.c`, one of them built in) | tree of nodes or list of used blocks; counters | `allocMemory`, `freeMemory`, `memState` |
| system calls (`irqDispatcher.c`, `asm/interrupts.asm`) | none | dispatch to the above; `system_read`, `system_write` choose screen or pipe |
| start-up and module loader (`kernel.c`, `moduleLoader.c`, `Toolchain/ModulePacker`) | none after start-up | copy the packed modules, clear the bss, create the shell |
| shell and filters (`consola.c`, `IPC.c`, `ps.c`) | command line, arguments | parse, create processes in foreground, background or as a pipeline |
| philosophers (`philosophers.c`) | forks (semaphores), states, number at the table | take and put forks, add and remove a philosopher |
| games, menu (`snake.c`, `menu.c`, ...) | bodies and directions, selected entry | one step per key and per tick |

How they interact: the timer handler calls the scheduler and then the sleep
timers; `sem_wait` blocks and `sem_post` unblocks processes; pipes post one
token for each character; the keyboard interrupt writes to the pipe of STDIN;
the death of a process wakes its parent, whatever the parent is blocked in.

### What is hard

* **Interleaving.** All gates of the IDT are interrupt gates, so a system call
  runs with interrupts disabled, and is atomic, with two exceptions:
  `enter_region` executes `sti` when it has taken the lock (so the rest of
  `sem_wait` and `sem_post`, and of the call they belong to, can be preempted: a later
  miss, the edit of the queue and the allocations in it included),
  and `timer_wait` halts with interrupts enabled. A call that gives up the cpu
  executes `int 20h`, which runs the very handler of the timer: such a call
  counts as a tick for the sleepers.
* **Ordering inside an interrupt.** The handler chooses the next process first
  and wakes sleepers after that.
* **Pointer surgery.** Every kernel function edits singly linked lists with a
  head and a tail pointer, out of the middle.
* **Counters kept by hand.** `processCount`, `kidsCount`, `val`, `size_list`.
* **Early wake-ups.** `unblock` does not look at what the process is blocked in.
* **Reuse.** Slots of semaphores and pipes keep what their last user left.
* **One keyboard.** A flag sends keys either to STDIN or to the key buffer, and each
  program has to leave it right on every path.

### What makes each component correct

* Scheduler: each process is in the one list its state names; counters match;
  round robin in a level, highest level first; no starvation; who waits for a
  child has one.
* Sleep timers: no entry is missed; each sleeper is woken.
* Semaphores: a wait that returns has taken a token; mutual exclusion; nobody
  is left in the queue with nobody to wake him; a new semaphore is free.
* Pipes: no two share a name or a semaphore; characters arrive once, in order, and reader
  and writer do not jam (the last two fail: PipesRace, SemPipe).
* Memory managers: blocks handed out are disjoint; freeing everything gives the
  memory back as one piece; no free piece is hidden from a request of its size.
* Keyboard, shell, games: a key reaches the program that has the screen; the shell
  runs the command it shows; a snake stays in one piece.
* Philosophers: neighbours are not shown eating together; who is hungry eats in the end.
* Module loader: what the packer put behind the kernel is found at its address.

## 2. The models

### ProcessTable, SleepTimers, Scheduler

`ProcessTable` takes the process table as a value (a record `t`) and gives one
operator for each C function, from tables to tables: `CreateProcess`,
`BlockReady`, `Unblock`, `KillOther`, `KillRunning`, `ExitRunning`,
`ChangePriority`, and `PriorityScheduler`, made of `Retire` (the dead process is
freed), `Age` (the running process loses a level), and `Dispatch` (the search
of the levels). Linked lists are sequences; a C statement that would be
undefined on the lists (a NULL `lastReady`) is modelled by what the assignments
around it leave. The operators `...Lowest`, `...First`, `...Quietly` and the
like, each introduced as a mutant, are changed copies that show which change of
the code a property would notice.

`SleepTimers` does the same for the list of `time.c`. `checkTimers` counts down
from the head and stops at the first entry that expires; that is what
`CheckTimers` computes.

`Scheduler` has the variables `pcb`, `sleeped` and `inCall` (where the saved
stack pointer of a suspended process leads back to: which call it is in). One
action per system call, plus `TimerInterrupt` and `KeyboardWakes`.
`FireTimerInt` is the whole of `_irq00Handler`, and is part of each call that
raises `int 20h`. Programs are arbitrary: the running process makes any call
with any argument, invalid priorities and pids included.

`CpuSharing` is the abstract promise: a set of ready processes, a set of blocked
ones, the cpu. `Scheduler!SharesCpu` states that the scheduler implements it.

### Semaphore

One semaphore at the level of the instructions between which an interrupt can
come. `frame[p].at` is the line the kernel code of `p` is at; `masked` is the
set of processes that have interrupts disabled. `TimerInterrupt` happens only
if the running process is not masked. `val++` and `val--` are a load and a store
(the kernel is compiled without optimisation). `EnterMiss`, `SemMiss`, `Block` and
`Retry` are the loop of `enter_region`: fail, queue, block, try again. The wake of a
post is four steps: the test of `size_list` (`Wake`), `sem_dq_proc` (`Dequeue`,
`Shrink`) and `Unblock`. Which of them can be cut depends on `masked` alone: a call
starts masked, the first lock it takes unmasks it, and `PostInCall` is a post that comes
after a wait in the same system call, as in `open_pipe`.

The scheduler of this module is any choice of a process that is not blocked.
That is more than the real one does, so safety carries over; the liveness
property rests on the fairness below.

`CountingSemaphore` is the abstract promise (tokens and processes that wait);
`CountsTokens` is the refinement.

The queue is what hangs from `first_proc`; `size` is `size_list`, which `sem_nq_proc` and
`clear_sem` go by. The two differ while a post is between its steps. The stores of
`sem_nq_proc` itself are one step. `Semaphore` leaves out names and the table of slots,
allocation failures in `sem_nq_proc`, and the post of the keyboard interrupt, which works
on behalf of whoever runs.

### BlockMemory, BuddyMemory, Memory

Each memory manager is a value, like the process table: `BlockMemory` has the list
of blocks as a sequence in address order, `BuddyMemory` the tree as a function from
node numbers to states. C recursion over the list or along a path of the tree
becomes a choice of the first block, or of the leftmost usable leaf. A node of the
tree is its number; the code puts the struct of a node at a distance from its
parent's that is the node's number, and no two of those places coincide.
`Memory` is `memMan.c`: `useBuddy` is the build option, and programs allocate and
free in any order, never freeing what they do not have. `mem_allocated` wraps at
`Word`.

A call is one step, and what is shown is shown of calls that come one after the other.
Most do: system calls run with interrupts disabled. But `sem_nq_proc` and `sem_dq_proc`
allocate and free after `enter_region` has enabled interrupts (`sem.c:107`, `:97`), and
`checkTimers` frees in the timer interrupt (`time.c:45`). Two calls that overlap may take
the same address: between `BlockMemoryManager.c:83` and `:86` the bytes are chosen and not
yet counted. Nothing here speaks of them.

`Allocator` is the abstract promise: the pieces in use do not overlap.

### Pipes, Channels

`Pipes` has the table of instances (`inst`), the slots of semaphores (`slot`), and
for each process the call it is in (`frame`). `open_pipe` and `close_pipe` are cut
where they may be interrupted: taking the manager semaphore, the search, the
reservation of an instance, the creation of its semaphore, the return.

The manager semaphore is a lock (`holder`). That it is one, one process at a time past
its wait, is what `Semaphore` shows of a semaphore created with 1, also where the post
comes in the same system call with interrupts enabled (`Exclusive`, for `DisturbedSpec`).
Nothing more is assumed of it: who is next, and whether anybody is woken at all, is open.
In the code a process that misses between the post's test of `size_list` and its
`leave_region` is queued and not woken; so there is no property that calls return.

A read semaphore is its lock and its value, with the steps of `sem_post` and `sem_wait`
that an interrupt can cut: the test of the value, the lock, load, store, the test for
zero, the release. Its queue is left open: who missed the lock tries again at some time,
or never. Programs move one character in a call. `proc_count` is left out, as nothing
looks at it; so the programs of the model agree among themselves when to close (guards of
`OpenPipe`, `ClosePipe`, `WriteChar`, `ReadPipe`).

`Channels` is the abstract promise: an open pipe is a queue of characters. PipesRace
shows that the code does not keep it.

### Philosophers

The processes of `philosophers.c`, one action per system call, and the program that
lays the table (`main`). Semaphores are numbers of tokens. `testPhilo` runs under
`stateLock` and is part of the step that gives the lock back.
`main` changes `qtyPhilosophers` without the lock, and each `left(i)` and `right(i)` loads
it anew, `left(i)` twice: `loaded` is the quantity when `stateLock` was taken, and `Loads`
any sequence of quantities between that and the present one, so that each load of a step
has its own. `wanted` is the right fork a philosopher waits for, computed before the wait.
`Quit` leaves the command loop and stops the last philosopher. The user adds philosophers
and ends dinners; removal, which kills a process that may hold the lock, is left out.

Once a philosopher has been added, forks can be lost: `putForks` computes `right(i)`
anew (`philosophers.c:268`), so when the table grows while the last philosopher eats,
the fork of seat 0 is put down at another seat, and seats 0 and last starve.
`NobodyForgotten` and `GuestEats` therefore speak of a table that has not grown. So does
`MarkedApart`: if the fourth is added between the two loads of `left(1)`, the neighbour that
is looked at is seat 3 and not seat 0, and 1 is marked as eating beside 0. At the end of a
dinner philosophers are killed wherever they are. If
one has `stateLock`, the next dinner creates its own in the same slot and finds it locked
(what SemReuse shows of `create_sem`): nobody eats, and the user may only quit.

### Startup, KeyInput, CommandLine, Snakes, Session

Four modules of operators on values: `Startup` (the image that ModulePacker writes and
the loader's walk through it), `KeyInput` (the keyboard's flags, the key buffer, and
what is unread in the pipe of STDIN), `CommandLine` (the shell's line buffer), `Snakes`
(bodies, turns, collisions, in unsigned arithmetic). `Session` puts them together:
`keys` is the keyboard and `app` the program that has the screen, with the state that
program needs at the place it is at. `app.at` goes from `boot` through the menu to the
shell, a command, a dinner or a game and back. Any key may be pressed between any two
steps. A program is reading STDIN or polling the key buffer; between its creation and
its first system call (`starting`, `sets_table`) and while it winds up (`over`,
`clears_table`) keys still go where they went before.

With control held, `keyAct` uses a character it never assigned for any key but C and D;
`Typed` lets it be any character. `ESC` after the first of two players has won returns
from the process's function to an unknown address, and is left out.

## 3. What is checked

`MCScheduler`, `MCSemaphore` and the modules named after their run give TLC the
specifications below; each is a part of the system with a class of programs.

| run | programs | shows |
|---|---|---|
| SchedSafety | any call, any argument | `TypeOK`, `Placement` (each process in the one list its state names), `ProcessCountExact`, `KidsNeverUndercounted`, `HaltOnlyWhenIdle`, `ChildDeathWakesParent`, refinement of `CpuSharing` (`SharesCpu`); `QueueMatchesPriority`, `QueueOrderKept` (round robin), `HighestPriorityFirst` |
| SchedOrderly | processes end by `exit`, fair timer | `WaiterHasChild`, `ForegroundHasChild`, `SleeperHasTimer`: nobody is blocked with nobody left to wake him; `TimersPending`: one entry for each sleeper and no count past zero; `SleeperWakes`; `ReadyRuns`: once nobody sleeps any more, aging prevents starvation |
| SemMutex | critical sections, value 1 | `MutualExclusion`, `LockMeansEmpty`, `SomebodyActive`, `CountsTokens`, `SomebodyGetsIn` |
| Memory | allocate and free, built with either manager | `AllocatesApart` (refinement of `Allocator`), `HeadersUntouched`, `NothingLost` (free finds its piece, whatever was merged), `AllMerged`, `NoLeafHidden` (a refusal means that no free leaf has the rounded size); for calls that do not overlap |
| Pipes | two processes that agree on who reads, writes and closes | `PipesApart` (no two pipes with one name or one semaphore), `ManagerGivenBack` (no way out of a call keeps the manager semaphore) |
| Philosophers | three philosophers and one more, any number of dinners | `NobodyOutlivesDinner`; at a table that has not grown `MarkedApart`, `NobodyForgotten`, `GuestEats` |
| Session | any keys, any command | `ModulesLoaded`, `KeysReachTheProgram`, `LineAsShown`, `SnakeWhole` |

`SomebodyActive` does not hold when waiting processes are unblocked from
elsewhere: a stale queue entry swallows a wake-up, and a process sleeps on until
the next post. Nor does it hold where the post runs with interrupts enabled. Nothing in
the repository promises otherwise, so both are recorded as hazards only. `NoLeafHidden`
says nothing of a request that would fit as it is: the code rounds it to a power of two
first, and refuses some with everything free.

Runs that show a disagreement between the code and what the repository says:

| run | property | what happens |
|---|---|---|
| SchedPriorityChanged | `PriorityChanged` | `changePriority` of the head of a ready queue returns 1 and leaves the priority |
| SchedWait | `WaiterHasChild` | after a child that killed itself, `wait` blocks a parent without children |
| SemPipe | `PipeMoves` | a post that meets the reader in its region is queued; the reader keeps the lock at zero and queues behind it |
| SemReuse | `FreshLetsIn` | a slot closed while a process is in its critical section gives a new semaphore of value 1 that is locked for good |
| PipesRace | `ArrivesInOrder` | a post at value zero releases the lock inside the reader's region; a later `val++` meets a `val--`, a token too many is left, and a cell is read twice |

With a semaphore used as in a pipe (posts and waits by different processes)
`CountsTokens` and `LockMeansEmpty` fail as well: a post at value zero enters no
region, finishes inside that of the reader, and releases its lock. SemPipe and PipesRace
show the two consequences that matter most.

### Bounds

* `MaxPid` (2 or 3 processes besides `halt` and the shell's pid 1; pids are not
  reused): with pids 0 to 3 three processes share the lists, enough for a removal
  from head, middle and tail, and for parent, child and bystander.
* `MaxPriority` 2 in SchedSafety and 3 elsewhere, instead of 5: a highest, a lowest and
  one between. The code treats all levels alike.
* `SleepTicks`, `MaxTicks`: in SchedOrderly sleeps of 1, 2 and 4 ticks and entries up to
  6, so that two entries expire together, one stops the count of those behind, and a
  process woken early sleeps again while its old entry still counts; shorter sleeps
  in the runs about the queues.
* `Proc` 2 or 3 processes on a semaphore, one post or wait in a call (`MaxChars`), as
  critical sections and single characters make; `MaxVal` bounds `val` where it is loaded
  (a broken region lets it drift without limit); `MaxQueue` bounds duplicate entries.
* Memory: a tree of three levels whose smallest nodes are of `MinBlock`, so that
  requests take a node of each level, and up to four pieces (`MaxLive`), so that
  every leaf can be in use; sizes that are and are not powers of two, zero, and one
  that is refused. `MemorySize` lets the block manager make four blocks and use
  merged ones again; it is never so full in practice, as the code gives it all
  addresses. `Word` is small so that `mem_allocated` does wrap.
* Pipes: three instances, one of them STDIN's, so that two can be opened and closed
  again and again and a third name finds no room; a name that is refused; rings of two
  characters, whose indices wrap; `MaxVal` as for semaphores. PipesRace: one pipe, a ring
  of three, a writer and a reader.
* Philosophers: `MinPhilos` 3 (the right and the left neighbour differ) and one seat
  more; `MaxTokens` 2: `testPhilo` posts tokens nobody put down, without end.
* Session: modules of up to two bytes and a bss that covers the first of them; a key
  buffer of one, since it is read newest first and a full one starts again; one unread
  character, as programs take them one at a time; lines of two letters, enough for a
  letter that is left behind by backspace and picked up by a later command; a field of
  three by four squares, two faces' places, snakes that grow from two to four squares,
  the least that can close a loop. `MaxLength` bounds what `eat()` does not. Neither a
  line nor the body of a snake is ever full. Commands that read keys are not run in the
  background, where they would share them with the shell.

### Fairness

The scheduler runs assume only `WF(TimerInterrupt)`: the hardware timer ticks,
and programs run with interrupts enabled. Nothing is assumed of programs.
`SomebodyGetsIn` assumes that a ready process gets the cpu again and again (what
`ReadyRuns` shows of the scheduler), runs when it has it, and that a process
leaves its critical section. Pipes has only safety properties and no fairness: the code
gives no order among those who miss a lock. In Philosophers a ready process runs (`WF`), the
user is free to do nothing, and the waits of the first `MinPhilos` philosophers have `SF`: a
fork or `stateLock` that is free again and again is got in the end. The semaphores wake in
the order of their queues, and whoever puts a fork back draws the table before it asks for
anything again (`renderPhilosophers`), which gives the one that was woken the time to try.
Session has only safety properties and no fairness.

Deadlock is checked in every run but those of Pipes, where programs that all wait for input
have stopped for good reason. Elsewhere the timer interrupt is always possible when
interrupts are enabled, in Memory a call that returns NULL is a step, a user may end
any dinner, and a key may always be pressed.

## 4. What is proved

Each theorem holds for every value of the constants that meets the assumptions named
where the constants are declared. Those say that bounds are naturals, that arrays are
not empty, that a field has room for the snakes that start on it (`StartAssumption`),
that no key gives the character 0 (`NulAssumption`), that the packed modules end in front
of the address of the first (`LayoutAssumption`), and that values standing for nobody are
none of the processes. TLC checks every inductive invariant or its parts on a small
instance as well; the properties below are those of the runs of section 3.

### Scheduler

| theorem | property | module |
|---|---|---|
| `TypeCorrect`, `PlacementHolds` | `TypeOK`, `Placement` | SchedulerProofs |
| `TimersStayPending` | `TimersPending` | SchedulerProofs |
| `LevelsAreKept`, `OrderIsKept`, `HighestRuns` | `QueueMatchesPriority`, `QueueOrderKept`, `HighestPriorityFirst` | SchedulerProofs |
| `SchedulerSharesCpu` | `SharesCpu`, the refinement of `CpuSharing` | SharingProofs |
| `IdleOnlyIfNobodyReady` | `HaltOnlyWhenIdle` | SharingProofs |
| `ProcessesCounted`, `ChildrenCounted` | `ProcessCountExact`, `KidsNeverUndercounted` | SharingProofs |
| `ParentsAreWoken` | `ChildDeathWakesParent` | SharingProofs |
| `WaitersAreWoken`, `ForegroundIsWoken` | `WaiterHasChild`, `ForegroundHasChild` (orderly programs) | SharingProofs |
| `SleepersAreWoken` | `SleeperHasTimer` (orderly programs) | SharingProofs |

The inductive invariant is `IInv == TypeOK /\ Placement`. Neither part is
inductive alone: the type of the table needs to know that a queue that is taken
from has a head, and that the running process is in no list; the placement needs
the types of the lists. `Placement` is `WellPlaced(pcb)`, which says where the
process of each state is, which list holds whom, that nobody is in two lists or
twice in one, and that pids not handed out have no process.

The argument goes by layers:

1. `QueueLemmas`: what appending to, consing to and removing from a sequence
   without duplicates does to the set of its members and to their uniqueness.
2. `SchedulerProofs`, first part: each operator of `ProcessTable` keeps types and
   placement: first the field updates, then `BlockReady`, `Unblock`, the kills, creation,
   priority changes, then `Retire`, `Age`, `Dispatch`. Inside `PriorityScheduler` the
   running process may be blocked or dead, so the lemmas there use weaker forms of the
   placement. In a well placed table the states of the processes determine the lists, so
   for what follows it is enough to know what each function does to the structs: the
   lemmas named `...Effect` say it.
3. `SchedulerProofs`, second part: the sleep list keeps its type and its entries stay
   pending (by how far `CheckTimers` gets); waking whoever is due keeps the placement;
   hence each system call and interrupt keeps `IInv`.
4. `SchedulerProofs`, last part: the order of the queues, as a relation between tables.
   `Follows(t, u)`: from `t` to `u` nobody gets ahead of a process in its queue or takes a
   level from it, and who is put in was not ready and goes to the queue of its level.
   `Stays(t, u)`: nobody leaves its queue. What system calls do before they raise the
   interrupt has both properties, so the two compose with the interrupt without looking at
   who was ready when (`GrownFollows`); in the interrupt and in `kill` somebody leaves a
   queue and somebody else enters one, and it takes the placement to know that they are not
   the same (`NoReturn`). `Elected` says whom `priorityScheduler` takes: the head of the
   highest queue with anybody in it, unless the process on the cpu is above them all. Each
   step is an interrupt, leaves the cpu alone, or moves the one process that
   `changePriority` was asked for (`StepOutcome`).
5. `SharingProofs`: each action is one of a few kinds of steps (`StepKinds`), and each kind
   is a step of `CpuSharing` or a stutter. That the halt process runs only when nobody is
   ready needs one more invariant (`HaltLowest`): the search of the levels goes from the top
   down to that of the process that had the cpu, so it finds everybody only if the halt
   process is never raised.
6. The counters follow the same kinds: `CountRight` compares `processCount` with the
   number of live processes, `KidsRight` each `kidsCount` with the live children, and
   knows that parents have smaller pids than their children (without this a new process
   could be born with children).
7. `Minded`: whoever is blocked in `wait` or behind a foreground process or a pipeline has a
   child alive, and whoever sleeps has an entry. It holds of orderly programs only (see
   SchedWait for the others) and needs the counts to be exact: `wait` blocks on a count that
   is not zero. `KidsExact` says that they are, as long as processes leave by `exit`. A
   child that dies wakes its parent in the same step, so no death takes a waiting parent's
   last child from under it; the timer handler unlinks no entry but that of the process it
   wakes (`WakeDueWakes`).

### Semaphore

| theorem | property | programs |
|---|---|---|
| `Exclusive`, `LockFollowsValue` | `MutualExclusion`, `LockMeansEmpty` | critical sections, also within one system call; processes unblocked from elsewhere |
| `Typed` | `TypeOK` | the same |
| `WaitsTakeTokens` | `CountsTokens`, the refinement of `CountingSemaphore` | the same |
| `SomebodyAwake` | `SomebodyActive` | critical sections |

`SemInv` follows the token: `Holds(p)` says that `p` is inside or on its way in or out; if
the lock is free the value is 1 and nobody holds, if not exactly one process does, and the
value is the one its place in the code implies (`ValueFor`). In particular a post of a
critical section always finds the value at zero, takes no lock, and inherits that of the
wait. The processes without the token only move within the loop of `enter_region`
(`WaitsOn`), the one with it moves alone (`HolderMoves`). The refinement uses it too: a
load and a store of `val` are one step of the abstract semaphore because nobody else
holds the token between them.

`AwakeInv` makes the queue exact (`QueueExact`) and says with whom the next move is
(`SomebodyMoves`): a holder that has not yet woken the head, or a process that is awake in
its loop. It needs the masked sections (`CodeOf`): between the miss of the lock and the
block, and from a post's load to its end, nobody else runs. With processes unblocked from
elsewhere, or a post that is not masked, `QueueExact` fails, and `SomebodyActive` with it.

### Pipes

`PipesProofs` proves `PipesStayApart` (`PipesApart`) and `ManagerIsGivenBack`
(`ManagerGivenBack`). `PipesInv` has what each process in the middle of `open_pipe` or
`close_pipe` has found out so far and may still rely on (`OpenFrame`, `CloseFrame`), with the
manager semaphore as the reason (`Owns`), and ties pipes to semaphore slots one by one
(`Tables`). `PipesApart` alone is not inductive: it does not look at pipes that are being
made or given up. The early return of `close_pipe` would keep the manager; it is not taken
because the slot of an open pipe is in use under its name. What becomes of the characters is
not proved, since it is not so.

### Philosophers

`PhilosophersProofs` proves, for any number of seats, `NobodyLeft`
(`NobodyOutlivesDinner`), `NeighboursApart` (`MarkedApart`) and `NobodyIsForgotten`
(`NobodyForgotten`), the last two of a table that has not grown. `TableInv` says who is at
the table, as far as `main` has got. `NoticeInv` says why a hungry philosopher is not
forgotten: until it eats, a neighbour eats, or somebody is about to test it (`Noticed`); who
tests has `stateLock` (`Locked`), and as long as nobody was added each load of
`qtyPhilosophers` gives the same (`LoadsExact`).

### Session

| theorem | property | invariant |
|---|---|---|
| `KeysRouted` | `KeysReachTheProgram` | `Routed` |
| `ShownIsCommanded` | `LineAsShown` | `LineInv` |
| `SnakesStayWhole` | `SnakeWhole` | `GameInv` |
| `ModulesInPlace` | `ModulesLoaded` | `LoaderInv` |

`Routed`: the mode of the keyboard is a flag of the kernel that programs set with two
system calls, and the property compares it with what the program does next. It is not
inductive, as it does not look at a program that is about to make one of the two calls.
`Routed` says for every place of every program whether the flag is set. No operation of
the keyboard or the buffer touches the flag (`KeyActKeepsFlag`, `OthersKeepFlag`), so a
step that is not a call of the two only has to stay on its side (`SameSide`), and the
four steps that are cross over.

`LineInv`: the letters on the screen are the first cells of the line buffer, and the cells
behind them are empty unless a letter was erased (`GoodLine`). The line of a command that
is still going on has to be good as well.

`GameInv`: the body of a snake is `Whole`. Moving the head into the square ahead keeps
adjacent squares adjacent in 16-bit unsigned arithmetic, because the field ends at least
a square before the numbers do (`AheadIsNear`); growing doubles the tail, which is made
good by the move that follows (`AdvanceIsGood`). Steering never turns a snake on the spot.

`LoaderInv`: the modules before `next` are in place and the others still packed where the
cursor will find them (`Loading`). It rests on where the packer puts them
(`PackedImage`), on copies going to higher addresses than any packed byte, and on the
targets being apart; the bss, cleared last, ends in front of the targets.

### Memory

| theorem | property |
|---|---|
| `MemoryTyped` | `TypeOK` |
| `SequentialCallsAllocateApart` | `AllocatesApart`, the refinement of `Allocator` |
| `HeadersStayUntouched` | `HeadersUntouched` |
| `MemoryIsKept` | `NothingLost` |
| `FreedMemoryMerges` | `AllMerged` |
| `NoLeafIsHidden` | `NoLeafHidden` |

They are about calls that do not overlap, and hold for a tree of any depth, also if its size is no power of two, for lists of any
length and for any requests, 0 among them. The assumptions are those of the modules: a
struct has at least one byte, and the nodes of the deepest level are at most `MinBlock`.

`MemInv` has two halves. The first is the shape of what a manager keeps. For the blocks it
is `Laid`: each lies behind the one before and its own struct, all within `spaceUsed`, and
no two neighbours are free. For the tree it is `TreeOK`: nodes come in pairs below a node of
the tree, `check_state` would change none, and no inner node is free. The second half,
`Matched`, is common to both: the blocks or leaves in use are apart, and stand one to one
for the pieces handed out, which they are large enough for. A call changes the used memory
by one chunk (`AllocatesBlock`, `FreesBlock`, `AllocatesLeaf`, `FreesLeaf`), and
`MatchedMore` and `MatchedLess` do the rest. `NothingLost` alone is not inductive: without
the shape, `free` could find another block first.

The tree: that nodes which are not above one another lie side by side (`SideBySide`) and
that a leaf's address leads back to it (`PathToLeaf`) are about nodes, sizes and addresses
only. `MallocTree` and `FreeTree` then say what becomes of the leaves; between a leaf that
is split or freed and the root only states change (`CheckedWay`), and what is dropped at a
`free` is a pair of free leaves. The list: `coalesceFreeBlocks` is followed block by block
(`JoinStep`).

Sizes, addresses, `above`, `splitInto`, `CheckStates` and `CoalesceFreeBlocks` are
recursive functions. That they have the values of their definitions (`Sizes`, `AboveDef`,
`CheckStatesDef`, `CoalesceDef` and so on) rests on `RecursionExists`: a rule that asks only
for values of lower rank has a function that obeys it. Induction is by the least element of
a set of numbers, or of nodes (`AllNumbers`, `Downwards`).

### What stays with TLC

Liveness (`SleeperWakes`, `ReadyRuns`, `SomebodyGetsIn`, `GuestEats`): the
proofs would need fairness and `ENABLED`, which the prover does not handle. Every invariant
and action property of the passing runs is proved.

## 5. Plan

In this order.

1. `Semaphore` with kill and close while a process is inside, the keyboard's post, and the
   stores of `sem_nq_proc` one by one.
2. The memory managers with calls that overlap: what a cut between choosing and counting
   the bytes does.
3. `Philosophers` with removal; a pipeline of two processes in `Session` on top of `Pipes`.
4. `timer_wait`, and the parser of the command line.

## 6. Not modelled

* The boot loader (third party: BMFS and Pure64, runs before the kernel).
* Video, fonts, sound, text console, bitmaps: drawing and ports; nothing is decided from
  them. The printing of exceptions, dates and registers.
* Stacks and saved registers, names and arguments of processes.
* Which words spell a command, conversions of numbers, the text of the filters, the
  computations of the tests: functions of their input, with no state.
* Shift and caps lock: they choose between two characters that no modelled program tells
  apart.
* Calls of the memory manager that interrupt one another, and the post of the keyboard
  interrupt (section 2).
* Removal of a philosopher by the user, processes killed inside a semaphore, programs
  that disagree about a pipe, commands that share the keyboard with the shell: the code
  promises nothing there; `PROJECT.json` lists them as hazards.
* Build files.
