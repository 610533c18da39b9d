-------------------------- MODULE SemaphoreProofs --------------------------
(***************************************************************************)
(* Theorems about a semaphore, for any set of processes: used for critical  *)
(* sections, it excludes, counts and forgets nobody.                        *)
(***************************************************************************)
EXTENDS MCSemaphore, QueueLemmas

-----------------------------------------------------------------------------
(* The inductive invariant. *)

\* p has the token: it is inside, or on its way in or out.
Holds(p) ==
  \/ p \in inside
  \/ frame[p].call = "post"
  \/ frame[p].call = "wait" /\ frame[p].at \in {"load", "store", "test_zero"}

\* The kernel code of p is in a place where a critical section leads: a post never
\* finds the value above zero.
FrameOf(p) ==
  /\ frame[p] \in Frame
  /\ frame[p].call = "none" => frame[p] = UserCode
  /\ frame[p].call = "wait" =>
       /\ p \notin inside
       /\ frame[p].left = 1
       /\ frame[p].at \in {"enter_region", "sem_miss", "block", "miss", "load",
                           "store", "test_zero"}
  /\ frame[p].call = "post" =>
       /\ p \notin inside
       /\ frame[p].left = 1
       /\ frame[p].at \in {"test_val", "load", "store", "wake", "dequeue",
                           "shrink", "unblock", "leave_region"}

\* What the value is while p has the token.
ValueFor(p) ==
  /\ p \in inside => sem.val = 0
  /\ frame[p].call = "wait" =>
       /\ frame[p].at = "load" => sem.val = 1
       /\ frame[p].at = "store" => sem.val = 1 /\ frame[p].seen = 1
       /\ frame[p].at = "test_zero" => sem.val = 0
  /\ frame[p].call = "post" =>
       /\ frame[p].at \in {"test_val", "load"} => sem.val = 0
       /\ frame[p].at = "store" => sem.val = 0 /\ frame[p].seen = 0
       /\ frame[p].at \in {"wake", "dequeue", "shrink", "unblock", "leave_region"}
            => sem.val = 1

Fields == {"open", "lock", "val", "queue", "size"}

Types ==
  /\ frame \in [Person -> Frame]
  /\ inside \subseteq Person
  /\ cpu \in Person
  /\ sem.lock \in {Unlocked, Locked}
  /\ sem.val \in Int
  /\ DOMAIN sem = Fields

\* Nobody has the token if the lock is free, and one process has it if not.
OneHolder ==
  /\ \A p, q \in Person : Holds(p) /\ Holds(q) => p = q
  /\ sem.lock = Locked => \E p \in Person : Holds(p)
  /\ sem.lock = Unlocked => sem.val = 1 /\ \A p \in Person : ~Holds(p)

SemInv ==
  /\ Types
  /\ \A p \in Person : FrameOf(p)
  /\ \A p \in Person : ValueFor(p)
  /\ OneHolder

-----------------------------------------------------------------------------
(* The queue. *)

\* The semaphore is open, and the pids of processes are in its queue.
QueueInv ==
  /\ DOMAIN sem = Fields
  /\ sem.open = TRUE
  /\ sem.queue \in Seq(Person)
  /\ sem.size \in Int
  /\ cpu \in Person
  /\ blocked \subseteq Person

LEMMA InitQueueInv == Init(1) => QueueInv
<1> SUFFICES ASSUME Init(1) PROVE QueueInv
  OBVIOUS
<1>1. sem = [open |-> TRUE, lock |-> Unlocked, val |-> 1, queue |-> <<>>, size |-> 0]
  BY DEF Init, Created
<1>2. sem.queue = <<>> /\ <<>> \in Seq(Person)
  BY <1>1
<1>3. blocked = {} /\ cpu \in Person
  BY DEF Init, Person
<1> QED
  BY <1>1, <1>2, <1>3 DEF QueueInv, Fields

\* Steps that leave the list alone.
LEMMA QueueAlone ==
  ASSUME QueueInv, DOMAIN sem' = DOMAIN sem,
         sem'.open = sem.open, sem'.queue = sem.queue, sem'.size = sem.size,
         blocked' \subseteq Person, cpu' \in Person
  PROVE  QueueInv'
BY DEF QueueInv

LEMMA SwitchType == ASSUME NEW S, Switch(S) PROVE cpu' \in Person
BY DEF Switch, Person

LEMMA SemMissQueues == QueueInv /\ SemMiss => QueueInv'
<1> SUFFICES ASSUME QueueInv, SemMiss PROVE QueueInv'
  OBVIOUS
<1>1. /\ DOMAIN sem' = DOMAIN sem /\ sem'.open = TRUE
      /\ sem'.queue = sem.queue \/ sem'.queue = Append(sem.queue, cpu)
      /\ sem'.size = sem.size + 1
      /\ UNCHANGED <<blocked, cpu>>
  BY DEF SemMiss, QueueInv, Fields
<1>2. sem'.queue \in Seq(Person)
  <2> DEFINE q == sem.queue
  <2>1. q \in Seq(Person) /\ cpu \in Person
    BY DEF QueueInv
  <2>2. sem'.queue = q \/ sem'.queue = Append(q, cpu)
    BY <1>1
  <2> HIDE DEF q
  <2> QED
    BY <2>1, <2>2
<1> QED
  BY <1>1, <1>2 DEF QueueInv

LEMMA DequeueQueues == QueueInv /\ Dequeue => QueueInv'
<1> SUFFICES ASSUME QueueInv, Dequeue PROVE QueueInv'
  OBVIOUS
<1>1. CASE sem.queue # <<>>
  <2>1. /\ DOMAIN sem' = DOMAIN sem /\ sem'.open = TRUE
        /\ sem'.queue = Tail(sem.queue) /\ sem'.size = sem.size
        /\ UNCHANGED <<blocked, cpu>>
    BY <1>1 DEF Dequeue, QueueInv, Fields
  <2>2. Tail(sem.queue) \in Seq(Person)
    BY <1>1 DEF QueueInv
  <2> QED
    BY <2>1, <2>2 DEF QueueInv
<1>2. CASE sem.queue = <<>>
  BY <1>2, QueueAlone DEF Dequeue, QueueInv
<1> QED
  BY <1>1, <1>2

\* The rest of the kernel code, the timer, calls, and unblocks from elsewhere.
LEMMA KernelQueues == QueueInv /\ KernelStep => QueueInv'
<1> SUFFICES ASSUME QueueInv, KernelStep PROVE QueueInv'
  OBVIOUS
<1>1. CASE SemMiss
  BY <1>1, SemMissQueues
<1>2. CASE Dequeue
  BY <1>2, DequeueQueues
<1>3. CASE TestVal \/ EnterMiss \/ Load \/ TestZero \/ Wake \/ Unblock
  BY <1>3, QueueAlone DEF TestVal, EnterMiss, Load, TestZero, Wake, Unblock, QueueInv
<1>4. CASE EnterHit \/ StoreLess \/ StoreMore \/ LeaveRegion
  <2>1. /\ DOMAIN sem' = DOMAIN sem
        /\ sem'.open = sem.open /\ sem'.queue = sem.queue /\ sem'.size = sem.size
        /\ blocked' = blocked /\ cpu' = cpu
    BY <1>4 DEF EnterHit, StoreLess, StoreMore, LeaveRegion, QueueInv, Fields
  <2> QED
    BY <2>1, QueueAlone DEF QueueInv
<1>5. CASE Block \/ Retry
  BY <1>5, QueueAlone, SwitchType DEF Block, Retry, Switch, QueueInv
<1>6. CASE Shrink
  <2>1. /\ DOMAIN sem' = DOMAIN sem
        /\ sem'.open = sem.open /\ sem'.queue = sem.queue
        /\ sem'.size = sem.size - 1
        /\ UNCHANGED <<blocked, cpu>>
    BY <1>6 DEF Shrink, QueueInv, Fields
  <2> QED
    BY <2>1 DEF QueueInv
<1> QED
  BY <1>1, <1>2, <1>3, <1>4, <1>5, <1>6 DEF KernelStep

LEMMA StepQueueInv == QueueInv /\ [DisturbedNext]_vars => QueueInv'
<1> SUFFICES ASSUME QueueInv, [DisturbedNext]_vars, ~KernelStep PROVE QueueInv'
  BY KernelQueues
<1>1. sem' = sem /\ blocked' \subseteq blocked /\ cpu' \in Person
  BY SwitchType
  DEF DisturbedNext, MutexNext, System, MutexClient, TimerInterrupt, Disturb, CallWait,
      CallPost, PostInCall, Call, Switch, vars, QueueInv
<1> QED
  BY <1>1, QueueAlone DEF QueueInv

-----------------------------------------------------------------------------
(* Every step keeps it. *)

LEMMA InitSemInv == Init(1) => SemInv
<1> SUFFICES ASSUME Init(1) PROVE SemInv
  OBVIOUS
<1>1. UserCode \in Frame
  BY MaxCharsAssumption DEF UserCode, Frame, Location
<1>2. sem.val = 1 /\ sem.lock = Unlocked
  BY DEF Init, Created, Unlocked, Locked
<1>3. Types
  BY <1>1, <1>2 DEF Types, Init, Created, Person, Fields
<1>4. \A p \in Person : FrameOf(p) /\ ValueFor(p) /\ ~Holds(p)
  BY <1>1 DEF Init, FrameOf, ValueFor, Holds, UserCode
<1> QED
  BY <1>2, <1>3, <1>4 DEF SemInv, OneHolder, Locked, Unlocked

LEMMA CallKeeps ==
  ASSUME SemInv, NEW p \in Proc,
         \/ p \notin inside /\ CallWait(p, 1)
         \/ p \in inside /\ (CallPost(p, 1) \/ PostInCall(p))
  PROVE  SemInv'
<1> USE MaxCharsAssumption
<1>1. p \in Person /\ frame[p] = UserCode /\ UNCHANGED <<sem, cpu>>
  BY DEF CallWait, CallPost, PostInCall, Call, Person
<1>2. \A q \in Person : FrameOf(q) /\ ValueFor(q)
  BY DEF SemInv
<1>3. CASE p \notin inside /\ CallWait(p, 1)
  <2>1. frame' = [frame EXCEPT ![p] = Starting("wait", 1)] /\ inside' = inside
    BY <1>3 DEF CallWait, Call
  <2>2. Starting("wait", 1) \in Frame
    BY DEF Starting, Frame, Location
  <2>3. Types'
    BY <1>1, <2>1, <2>2 DEF SemInv, Types
  <2>4. \A q \in Person : q # p => frame'[q] = frame[q]
    BY <2>1 DEF SemInv, Types
  <2>5. frame'[p] = Starting("wait", 1)
    BY <2>1, <1>1 DEF SemInv, Types
  <2>6. \A q \in Person : FrameOf(q)'
    BY <2>1, <2>2, <2>4, <2>5, <1>2, <1>3 DEF FrameOf, Starting
  <2>7. \A q \in Person : ValueFor(q)'
    BY <2>1, <2>4, <2>5, <1>2, <1>1, <1>3 DEF ValueFor, Starting
  <2>8. \A q \in Person : Holds(q)' <=> Holds(q)
    BY <2>1, <2>4, <2>5, <1>1 DEF Holds, Starting, UserCode
  <2> QED
    BY <2>3, <2>6, <2>7, <2>8, <1>1 DEF SemInv, OneHolder
<1>4. CASE p \in inside /\ (CallPost(p, 1) \/ PostInCall(p))
  <2>1. frame' = [frame EXCEPT ![p] = Starting("post", 1)] /\ inside' = inside \ {p}
    BY <1>4 DEF CallPost, PostInCall, Call
  <2>2. Starting("post", 1) \in Frame
    BY DEF Starting, Frame, Location
  <2>3. Types'
    BY <1>1, <2>1, <2>2 DEF SemInv, Types
  <2>4. \A q \in Person : q # p => frame'[q] = frame[q]
    BY <2>1 DEF SemInv, Types
  <2>5. frame'[p] = Starting("post", 1)
    BY <2>1, <1>1 DEF SemInv, Types
  <2>6. \A q \in Person : FrameOf(q)'
    BY <2>1, <2>2, <2>4, <2>5, <1>2 DEF FrameOf, Starting
  <2>7. \A q \in Person : ValueFor(q)'
    BY <2>1, <2>4, <2>5, <1>2, <1>1, <1>4 DEF ValueFor, Starting
  <2>8. \A q \in Person : Holds(q)' <=> Holds(q)
    BY <2>1, <2>4, <2>5, <1>1, <1>4 DEF Holds, Starting, UserCode
  <2> QED
    BY <2>3, <2>6, <2>7, <2>8, <1>1 DEF SemInv, OneHolder
<1> QED
  BY <1>3, <1>4

\* What every step of kernel code starts from.
LEMMA KernelStart ==
  ASSUME SemInv
  PROVE  /\ Types /\ OneHolder
         /\ cpu \in Person /\ frame[cpu] \in Frame
         /\ \A q \in Person : FrameOf(q) /\ ValueFor(q)
BY DEF SemInv, Types

\* The process on the cpu goes to another place of its call.
MovesTo(at) ==
  /\ frame' \in [Person -> Frame]
  /\ frame'[cpu].call = frame[cpu].call
  /\ frame'[cpu].at = at
  /\ frame'[cpu].left = frame[cpu].left
  /\ \A q \in Person : q # cpu => frame'[q] = frame[q]

LEMMA GotoMoves ==
  ASSUME Types, NEW at \in Location, Goto(at)
  PROVE  MovesTo(at)
BY DEF Types, Frame, Goto, MovesTo

LEMMA SeenMoves ==
  ASSUME Types, NEW at \in Location, NEW seen \in Int,
         frame' = [frame EXCEPT ![cpu].at = at, ![cpu].seen = seen]
  PROVE  MovesTo(at) /\ frame'[cpu].seen = seen
<1> DEFINE f == frame[cpu]
           g == [f EXCEPT !.at = at, !.seen = seen]
<1>1. f \in Frame /\ cpu \in Person /\ frame \in [Person -> Frame]
  BY DEF Types
<1>2. g \in Frame /\ g.call = f.call /\ g.at = at /\ g.seen = seen /\ g.left = f.left
  BY <1>1 DEF Frame
<1>3. frame' = [frame EXCEPT ![cpu] = g]
  OBVIOUS
<1> HIDE DEF g
<1> QED
  BY <1>1, <1>2, <1>3 DEF MovesTo

LEMMA WokenMoves ==
  ASSUME Types, NEW at \in Location, NEW woken \in SUBSET Person,
         frame' = [frame EXCEPT ![cpu].at = at, ![cpu].woken = woken]
  PROVE  MovesTo(at) /\ frame'[cpu].woken = woken
<1> DEFINE f == frame[cpu]
           g == [f EXCEPT !.at = at, !.woken = woken]
<1>1. f \in Frame /\ cpu \in Person /\ frame \in [Person -> Frame]
  BY DEF Types
<1>2. g \in Frame /\ g.call = f.call /\ g.at = at /\ g.woken = woken /\ g.left = f.left
  BY <1>1 DEF Frame
<1>3. frame' = [frame EXCEPT ![cpu] = g]
  OBVIOUS
<1> HIDE DEF g
<1> QED
  BY <1>1, <1>2, <1>3 DEF MovesTo

LEMMA TestValKeeps == SemInv /\ TestVal => SemInv'
<1> SUFFICES ASSUME SemInv, TestVal PROVE SemInv'
  OBVIOUS
<1>1. frame[cpu].call = "post" /\ sem.val = 0
  BY KernelStart DEF TestVal, At, FrameOf, ValueFor, UserCode, Frame
<1>2. Goto("load") /\ UNCHANGED <<sem, cpu, inside>>
  BY <1>1 DEF TestVal
<1>3. "load" \in Location
  BY DEF Location
<1>4. MovesTo("load")
  BY <1>2, <1>3, GotoMoves, KernelStart
<1>5. Types'
  BY <1>2, <1>4, KernelStart DEF Types, MovesTo
<1>6. \A q \in Person : FrameOf(q)'
  BY <1>1, <1>2, <1>4, KernelStart DEF FrameOf, MovesTo
<1>7. \A q \in Person : ValueFor(q)'
  BY <1>1, <1>2, <1>4, KernelStart DEF ValueFor, FrameOf, MovesTo
<1>8. \A q \in Person : Holds(q)' <=> Holds(q)
  BY <1>1, <1>2, <1>4 DEF Holds, MovesTo
<1> QED
  BY <1>2, <1>5, <1>6, <1>7, <1>8, KernelStart DEF SemInv, OneHolder

LEMMA EnterHitKeeps == SemInv /\ EnterHit => SemInv'
<1> SUFFICES ASSUME SemInv, EnterHit PROVE SemInv'
  OBVIOUS
<1>1. frame[cpu].call = "wait" /\ sem.val = 1 /\ \A q \in Person : ~Holds(q)
  BY KernelStart DEF EnterHit, At, FrameOf, OneHolder, UserCode, Frame
<1>2. Goto("load") /\ UNCHANGED <<cpu, inside>>
  BY DEF EnterHit
<1>3. /\ DOMAIN sem' = Fields
      /\ sem'.lock = Locked
      /\ sem'.val = sem.val
  BY KernelStart DEF EnterHit, Types
<1>4. "load" \in Location
  BY DEF Location
<1>5. MovesTo("load")
  BY <1>2, <1>4, GotoMoves, KernelStart
<1>6. Types'
  BY <1>2, <1>3, <1>5, KernelStart DEF Types, MovesTo
<1>7. \A q \in Person : FrameOf(q)'
  BY <1>1, <1>2, <1>5, KernelStart DEF FrameOf, MovesTo
<1>8. \A q \in Person : ValueFor(q)'
  BY <1>1, <1>2, <1>3, <1>5, KernelStart DEF ValueFor, FrameOf, MovesTo
<1>9. \A q \in Person : Holds(q)' <=> q = cpu
  BY <1>1, <1>2, <1>5, KernelStart DEF Holds, MovesTo
<1> QED
  BY <1>3, <1>2, <1>6, <1>7, <1>8, <1>9, KernelStart
  DEF SemInv, OneHolder, Locked, Unlocked

\* A process without the token that moves within the loop of enter_region.
LEMMA WaitsOn ==
  ASSUME SemInv, frame[cpu].call = "wait", ~Holds(cpu),
         NEW at \in {"enter_region", "sem_miss", "block", "miss"}, Goto(at),
         DOMAIN sem' = Fields,
         sem'.lock = sem.lock, sem'.val = sem.val,
         UNCHANGED inside, cpu' \in Person
  PROVE  SemInv'
<1>1. at \in Location
  BY DEF Location
<1>2. MovesTo(at)
  BY <1>1, GotoMoves, KernelStart
<1>3. Types'
  BY <1>2, KernelStart DEF Types, MovesTo
<1>4. \A q \in Person : FrameOf(q)'
  BY <1>2, KernelStart DEF FrameOf, MovesTo
<1>5. \A q \in Person : ValueFor(q)'
  BY <1>2, KernelStart DEF ValueFor, FrameOf, MovesTo
<1>6. \A q \in Person : Holds(q)' <=> Holds(q)
  BY <1>2 DEF Holds, MovesTo
<1> QED
  BY <1>3, <1>4, <1>5, <1>6, KernelStart DEF SemInv, OneHolder

LEMMA MissKeeps == SemInv /\ (EnterMiss \/ SemMiss \/ Block \/ Retry) => SemInv'
<1> SUFFICES ASSUME SemInv, EnterMiss \/ SemMiss \/ Block \/ Retry PROVE SemInv'
  OBVIOUS
<1>1. frame[cpu].at \in {"enter_region", "sem_miss", "block", "miss"}
  BY DEF EnterMiss, SemMiss, Block, Retry, At
<1>2. frame[cpu].call = "wait" /\ ~Holds(cpu)
  BY <1>1, KernelStart DEF FrameOf, Holds, UserCode, Frame, ValueFor
<1>3. CASE EnterMiss
  BY <1>2, <1>3, WaitsOn, KernelStart DEF EnterMiss, Types
<1>4. CASE SemMiss
  <2>1. /\ DOMAIN sem' = Fields
        /\ sem'.lock = sem.lock /\ sem'.val = sem.val
        /\ Goto("block") /\ UNCHANGED inside
        /\ cpu' \in Person
    BY <1>4, KernelStart DEF SemMiss, Types, Fields
  <2> QED
    BY <2>1, <1>2, WaitsOn
<1>5. CASE Block \/ Retry
  BY <1>2, <1>5, WaitsOn, SwitchType, KernelStart DEF Block, Retry, Types
<1> QED
  BY <1>3, <1>4, <1>5

\* The process with the token is alone: the lock is held and nobody else has it.
LEMMA Alone ==
  ASSUME SemInv, Holds(cpu)
  PROVE  sem.lock = Locked /\ \A q \in Person : Holds(q) => q = cpu
BY KernelStart DEF OneHolder, Types

\* The process with the token moves on and keeps it; what must be shown is that the
\* value is right for it.
LEMMA HolderMoves ==
  ASSUME SemInv, Holds(cpu), NEW at, MovesTo(at),
         DOMAIN sem' = Fields,
         sem'.lock = sem.lock, sem'.val \in Int,
         UNCHANGED <<inside, cpu>>,
         cpu \notin inside, FrameOf(cpu)', ValueFor(cpu)', Holds(cpu)'
  PROVE  SemInv'
<1>1. /\ frame' \in [Person -> Frame]
      /\ \A q \in Person : q # cpu => frame'[q] = frame[q]
  BY DEF MovesTo
<1>2. Types'
  BY <1>1, KernelStart DEF Types
<1>3. \A q \in Person : FrameOf(q)'
  BY <1>1, KernelStart DEF FrameOf
<1>4. \A q \in Person : q # cpu => ~Holds(q) /\ (Holds(q)' <=> Holds(q))
  BY <1>1, Alone DEF Holds
<1>5. \A q \in Person : ValueFor(q)'
  BY <1>1, <1>4, KernelStart DEF ValueFor, Holds
<1> QED
  BY <1>2, <1>3, <1>4, <1>5, Alone, KernelStart
  DEF SemInv, OneHolder, Locked, Unlocked

LEMMA LoadKeeps == SemInv /\ Load => SemInv'
<1> SUFFICES ASSUME SemInv, Load PROVE SemInv'
  OBVIOUS
<1>1. /\ frame' = [frame EXCEPT ![cpu].at = "store", ![cpu].seen = sem.val]
      /\ "store" \in Location /\ sem.val \in Int
      /\ UNCHANGED <<sem, inside, cpu>>
  BY KernelStart DEF Load, Types, Location
<1>2. Types
  BY KernelStart
<1>3. MovesTo("store") /\ frame'[cpu].seen = sem.val
  BY <1>1, <1>2, SeenMoves
<1>4. frame[cpu].at = "load" /\ frame[cpu].call \in {"wait", "post"}
  BY KernelStart DEF Load, At, FrameOf, UserCode, Frame
<1>5. cpu \notin inside /\ Holds(cpu) /\ Holds(cpu)'
  BY <1>1, <1>3, <1>4, KernelStart DEF FrameOf, Holds, MovesTo
<1>6. FrameOf(cpu)' /\ ValueFor(cpu)'
  BY <1>1, <1>3, <1>4, <1>5, KernelStart DEF FrameOf, ValueFor, MovesTo
<1> QED
  BY <1>1, <1>2, <1>3, <1>5, <1>6, HolderMoves DEF Types

LEMMA StoreLessKeeps == SemInv /\ StoreLess => SemInv'
<1> SUFFICES ASSUME SemInv, StoreLess PROVE SemInv'
  OBVIOUS
<1>1. /\ frame' = [frame EXCEPT ![cpu].at = "test_zero", ![cpu].seen = 0]
      /\ "test_zero" \in Location /\ 0 \in Int
      /\ UNCHANGED <<inside, cpu>>
  BY DEF StoreLess, Location
<1>2. frame[cpu].at = "store" /\ frame[cpu].call = "wait" /\ frame[cpu].seen = 1
  BY KernelStart DEF StoreLess, At, ValueFor
<1>3. /\ DOMAIN sem' = Fields
      /\ sem'.lock = sem.lock /\ sem'.val = 0 /\ sem'.val \in Int
  BY <1>2, KernelStart DEF StoreLess, Types
<1>4. MovesTo("test_zero")
  BY <1>1, SeenMoves, KernelStart
<1>5. cpu \notin inside /\ Holds(cpu) /\ Holds(cpu)'
  BY <1>1, <1>2, <1>4, KernelStart DEF FrameOf, Holds, MovesTo
<1>6. FrameOf(cpu)' /\ ValueFor(cpu)'
  BY <1>1, <1>2, <1>3, <1>4, <1>5, KernelStart DEF FrameOf, ValueFor, MovesTo
<1> QED
  BY <1>1, <1>3, <1>4, <1>5, <1>6, HolderMoves

LEMMA StoreMoreKeeps == SemInv /\ StoreMore => SemInv'
<1> SUFFICES ASSUME SemInv, StoreMore PROVE SemInv'
  OBVIOUS
<1>1. /\ frame' = [frame EXCEPT ![cpu].at = "wake", ![cpu].seen = 0]
      /\ "wake" \in Location /\ 0 \in Int
      /\ UNCHANGED <<inside, cpu>>
  BY DEF StoreMore, Location
<1>2. frame[cpu].at = "store" /\ frame[cpu].call = "post" /\ frame[cpu].seen = 0
  BY KernelStart DEF StoreMore, At, ValueFor
<1>3. /\ DOMAIN sem' = Fields
      /\ sem'.lock = sem.lock /\ sem'.val = 1 /\ sem'.val \in Int
  BY <1>2, KernelStart DEF StoreMore, Types
<1>4. MovesTo("wake")
  BY <1>1, SeenMoves, KernelStart
<1>5. cpu \notin inside /\ Holds(cpu) /\ Holds(cpu)'
  BY <1>1, <1>2, <1>4, KernelStart DEF FrameOf, Holds, MovesTo
<1>6. FrameOf(cpu)' /\ ValueFor(cpu)'
  BY <1>1, <1>2, <1>3, <1>4, <1>5, KernelStart DEF FrameOf, ValueFor, MovesTo
<1> QED
  BY <1>1, <1>3, <1>4, <1>5, <1>6, HolderMoves

\* The steps of a post between the store and the release of the lock.
Waking == Wake \/ Dequeue \/ Shrink \/ Unblock

LEMMA WakingMoves ==
  ASSUME SemInv, QueueInv, Waking
  PROVE  /\ \E at \in {"dequeue", "shrink", "unblock", "leave_region"} : MovesTo(at)
         /\ DOMAIN sem' = DOMAIN sem /\ sem'.lock = sem.lock /\ sem'.val = sem.val
         /\ sem'.open = sem.open
         /\ UNCHANGED <<masked, inside, cpu>>
<1>1. Types /\ {"dequeue", "shrink", "unblock", "leave_region"} \subseteq Location
  BY KernelStart DEF Location
<1>2. CASE Wake
  BY <1>1, <1>2, GotoMoves DEF Wake
<1>3. CASE Dequeue
  <2>1. CASE sem.open /\ sem.queue # <<>>
    <3> DEFINE w == Head(sem.queue)
    <3>1. {w} \in SUBSET Person
      BY <2>1 DEF QueueInv
    <3>2. MovesTo("shrink")
      <4>1. frame' = [frame EXCEPT ![cpu].at = "shrink", ![cpu].woken = {w}]
        BY <1>3, <2>1 DEF Dequeue
      <4> HIDE DEF w
      <4> QED
        BY <1>1, <3>1, <4>1, WokenMoves
    <3> QED
      BY <1>1, <1>3, <2>1, <3>2 DEF Dequeue, Types, Fields
  <2>2. CASE ~(sem.open /\ sem.queue # <<>>)
    BY <1>1, <1>3, <2>2, GotoMoves DEF Dequeue
  <2> QED
    BY <2>1, <2>2
<1>4. CASE Shrink
  BY <1>1, <1>4, GotoMoves DEF Shrink, Types, Fields
<1>5. CASE Unblock
  <2>1. MovesTo("leave_region")
    <3>1. {} \in SUBSET Person
      OBVIOUS
    <3>2. frame' = [frame EXCEPT ![cpu].at = "leave_region", ![cpu].woken = {}]
      BY <1>5 DEF Unblock
    <3> QED
      BY <1>1, <3>1, <3>2, WokenMoves
  <2> QED
    BY <1>1, <1>5, <2>1 DEF Unblock
<1> QED
  BY <1>2, <1>3, <1>4, <1>5 DEF Waking

LEMMA WakingKeeps == SemInv /\ QueueInv /\ Waking => SemInv'
<1> SUFFICES ASSUME SemInv, QueueInv, Waking PROVE SemInv'
  OBVIOUS
<1>1. PICK at \in {"dequeue", "shrink", "unblock", "leave_region"} : MovesTo(at)
  BY WakingMoves
<1>2. /\ DOMAIN sem' = Fields
      /\ sem'.lock = sem.lock /\ sem'.val = sem.val
      /\ UNCHANGED <<inside, cpu>>
  BY WakingMoves, KernelStart DEF Types
<1>3. /\ frame[cpu].at \in {"wake", "dequeue", "shrink", "unblock"}
      /\ frame[cpu].call = "post" /\ sem.val = 1
  BY KernelStart
  DEF Waking, Wake, Dequeue, Shrink, Unblock, At, ValueFor, FrameOf, UserCode, Frame
<1>4. cpu \notin inside /\ Holds(cpu) /\ Holds(cpu)'
  BY <1>1, <1>2, <1>3, KernelStart DEF FrameOf, Holds, MovesTo
<1>5. FrameOf(cpu)' /\ ValueFor(cpu)'
  BY <1>1, <1>2, <1>3, <1>4, KernelStart DEF FrameOf, ValueFor, MovesTo
<1> QED
  BY <1>1, <1>2, <1>3, <1>4, <1>5, HolderMoves

\* The end of a call returns to the program.
LEMMA DoneReturns ==
  ASSUME SemInv, Done, frame[cpu].left = 1
  PROVE  /\ frame' \in [Person -> Frame]
         /\ frame'[cpu] = UserCode
         /\ \A q \in Person : q # cpu => frame'[q] = frame[q]
         /\ inside' = IF frame[cpu].call = "wait" THEN inside \cup {cpu} ELSE inside
<1>1. UserCode \in Frame
  BY MaxCharsAssumption DEF UserCode, Frame, Location
<1>2. frame' = [frame EXCEPT ![cpu] = UserCode]
  BY DEF Done
<1> QED
  BY <1>1, <1>2, KernelStart DEF Done, Types

LEMMA TestZeroKeeps == SemInv /\ TestZero => SemInv'
<1> SUFFICES ASSUME SemInv, TestZero PROVE SemInv'
  OBVIOUS
<1>1. /\ frame[cpu].at = "test_zero" /\ frame[cpu].call = "wait"
      /\ frame[cpu].left = 1 /\ sem.val = 0 /\ Holds(cpu)
  BY KernelStart DEF TestZero, At, FrameOf, ValueFor, Holds, UserCode, Frame
<1>2. Done /\ UNCHANGED <<sem, cpu>>
  BY <1>1 DEF TestZero
<1>3. /\ frame' \in [Person -> Frame]
      /\ frame'[cpu] = UserCode
      /\ \A q \in Person : q # cpu => frame'[q] = frame[q]
      /\ inside' = inside \cup {cpu}
  BY <1>1, <1>2, DoneReturns
<1>4. Types'
  BY <1>2, <1>3, KernelStart DEF Types
<1>5. \A q \in Person : FrameOf(q)'
  BY <1>3, KernelStart DEF FrameOf, UserCode
<1>6. \A q \in Person : ValueFor(q)'
  BY <1>1, <1>2, <1>3, KernelStart DEF ValueFor, UserCode
<1>7. \A q \in Person : Holds(q)' <=> Holds(q)
  BY <1>1, <1>3 DEF Holds
<1> QED
  BY <1>2, <1>4, <1>5, <1>6, <1>7, KernelStart DEF SemInv, OneHolder

LEMMA LeaveRegionKeeps == SemInv /\ LeaveRegion => SemInv'
<1> SUFFICES ASSUME SemInv, LeaveRegion PROVE SemInv'
  OBVIOUS
<1>1. /\ frame[cpu].at = "leave_region" /\ frame[cpu].call = "post"
      /\ frame[cpu].left = 1 /\ sem.val = 1 /\ cpu \notin inside /\ Holds(cpu)
  BY KernelStart DEF LeaveRegion, At, FrameOf, ValueFor, Holds, UserCode, Frame
<1>2. Done /\ cpu' = cpu
  BY DEF LeaveRegion
<1>3. /\ DOMAIN sem' = Fields
      /\ sem'.lock = Unlocked /\ sem'.val = sem.val
  BY KernelStart DEF LeaveRegion, Types
<1>4. /\ frame' \in [Person -> Frame]
      /\ frame'[cpu] = UserCode
      /\ \A q \in Person : q # cpu => frame'[q] = frame[q]
      /\ inside' = inside
  BY <1>1, <1>2, DoneReturns
<1>5. Types'
  BY <1>2, <1>3, <1>4, KernelStart DEF Types
<1>6. \A q \in Person : FrameOf(q)'
  BY <1>1, <1>4, KernelStart DEF FrameOf, UserCode
<1>7. \A q \in Person : ~Holds(q)'
  BY <1>1, <1>4, Alone DEF Holds, UserCode
<1>8. \A q \in Person : ValueFor(q)'
  BY <1>3, <1>4, <1>7, KernelStart DEF ValueFor, Holds, UserCode
<1> QED
  BY <1>1, <1>3, <1>5, <1>6, <1>7, <1>8, KernelStart
  DEF SemInv, OneHolder, Locked, Unlocked

\* Interrupts and unblocks from elsewhere do not touch the semaphore.
LEMMA ElsewhereKeeps ==
  ASSUME SemInv, UNCHANGED <<sem, frame, inside>>, cpu' \in Person
  PROVE  SemInv'
BY DEF SemInv, Types, FrameOf, ValueFor, OneHolder, Holds

LEMMA StepSemInv == SemInv /\ QueueInv /\ [DisturbedNext]_vars => SemInv'
<1> SUFFICES ASSUME SemInv, QueueInv, [DisturbedNext]_vars PROVE SemInv'
  OBVIOUS
<1>1. CASE TimerInterrupt
  BY <1>1, ElsewhereKeeps, SwitchType DEF TimerInterrupt
<1>2. CASE KernelStep
  BY <1>2, TestValKeeps, EnterHitKeeps, MissKeeps, LoadKeeps, StoreLessKeeps,
     TestZeroKeeps, StoreMoreKeeps, WakingKeeps, LeaveRegionKeeps
  DEF KernelStep, Waking
<1>3. CASE MutexClient
  BY <1>3, CallKeeps DEF MutexClient
<1>4. CASE \E p \in Proc : Disturb(p)
  BY <1>4, ElsewhereKeeps, KernelStart DEF Disturb
<1>5. CASE \E p \in Proc : p \in inside /\ PostInCall(p)
  BY <1>5, CallKeeps
<1>6. CASE UNCHANGED vars
  BY <1>6, ElsewhereKeeps, KernelStart DEF vars
<1> QED
  BY <1>1, <1>2, <1>3, <1>4, <1>5, <1>6 DEF DisturbedNext, MutexNext, System

LEMMA InvExcludes == SemInv => MutualExclusion
BY DEF SemInv, Types, OneHolder, Holds, MutualExclusion

LEMMA InvLocks == SemInv => LockMeansEmpty
<1> SUFFICES ASSUME SemInv, \A p \in Person : ~InRegion(frame[p])
             PROVE  sem.lock = Locked <=> sem.val = 0
  BY DEF LockMeansEmpty
<1>1. \A p \in Person : ~InRegion(frame[p])
  OBVIOUS
<1>2. ASSUME NEW p \in Person, Holds(p) PROVE sem.val = 0
  BY <1>1, <1>2, KernelStart DEF Holds, FrameOf, ValueFor, InRegion
<1> QED
  BY <1>2, KernelStart DEF OneHolder, Types, Locked, Unlocked

\* For any set of processes, whatever unblocks those that wait (a system call, a
\* dying child, a sleep that ends), also where the post is in the same system call as
\* the wait (open_pipe): one process at most is between sem_wait and sem_post on a
\* semaphore created with 1.
THEOREM Exclusive == DisturbedSpec => []MutualExclusion
BY InitSemInv, StepSemInv, InitQueueInv, StepQueueInv, InvExcludes, PTL DEF DisturbedSpec

\* The same for the lock word: while no call is in the region it is held exactly if
\* the value is zero, so sem_wait's way of not releasing it loses nothing.
THEOREM LockFollowsValue == DisturbedSpec => []LockMeansEmpty
BY InitSemInv, StepSemInv, InitQueueInv, StepQueueInv, InvLocks, PTL DEF DisturbedSpec

-----------------------------------------------------------------------------
(* Types. *)

TypedInv == SemInv /\ QueueInv /\ TypeOK

LEMMA InitTypedInv == Init(1) => TypedInv
<1> SUFFICES ASSUME Init(1) PROVE TypedInv
  OBVIOUS
<1>1. SemInv /\ QueueInv
  BY InitSemInv, InitQueueInv
<1>2. UserCode \in Frame
  BY MaxCharsAssumption DEF UserCode, Frame, Location
<1>3. sem = [open |-> TRUE, lock |-> Unlocked, val |-> 1, queue |-> <<>>, size |-> 0]
  BY DEF Init, Created
<1>4. sem \in Sem
  <2>1. <<>> \in Seq(Person)
    OBVIOUS
  <2> QED
    BY <1>3, <2>1 DEF Sem
<1> QED
  BY <1>1, <1>2, <1>4 DEF TypedInv, TypeOK, Init, Person

LEMMA SemTyped ==
  ASSUME TypedInv, QueueInv', KernelStep
  PROVE  sem' \in Sem
<1>1. /\ sem \in Sem
      /\ sem.queue \in Seq(Person) /\ sem.size \in Int /\ cpu \in Person
      /\ frame[cpu].seen \in Int
  BY DEF TypedInv, TypeOK, QueueInv, Frame
<1>2. CASE sem' = sem
  BY <1>1, <1>2
<1>3. CASE EnterHit \/ LeaveRegion
  BY <1>1, <1>3 DEF EnterHit, LeaveRegion, Sem, Locked, Unlocked
<1>4. CASE StoreLess \/ StoreMore \/ Shrink
  BY <1>1, <1>4 DEF StoreLess, StoreMore, Shrink, Sem
<1>5. CASE SemMiss
  <2>1. sem'.queue \in Seq(Person)
    BY DEF QueueInv
  <2>2. sem' = [sem EXCEPT !.queue = sem'.queue, !.size = @ + 1] \/ sem' = sem
    BY <1>1, <1>5 DEF SemMiss, Sem
  <2>3. sem.size + 1 \in Int
    BY <1>1
  <2> DEFINE q == sem'.queue
             n == sem.size + 1
  <2>4. ASSUME q \in Seq(Person), n \in Int
        PROVE  [sem EXCEPT !.queue = q, !.size = n] \in Sem
    <3> HIDE DEF q, n
    <3> QED
      BY <1>1, <2>4 DEF Sem
  <2> QED
    BY <1>1, <2>1, <2>2, <2>3, <2>4
<1>6. CASE Dequeue
  <2>1. sem'.queue \in Seq(Person)
    BY DEF QueueInv
  <2>2. sem' = [sem EXCEPT !.queue = sem'.queue] \/ sem' = sem
    BY <1>1, <1>6 DEF Dequeue, Sem
  <2> QED
    BY <1>1, <2>1, <2>2 DEF Sem
<1> QED
  BY <1>2, <1>3, <1>4, <1>5, <1>6
  DEF KernelStep, TestVal, EnterMiss, Block, Retry, Load, TestZero, Wake, Unblock

LEMMA StepTypedInv == TypedInv /\ [DisturbedNext]_vars => TypedInv'
<1> SUFFICES ASSUME TypedInv, [DisturbedNext]_vars PROVE TypedInv'
  OBVIOUS
<1>1. SemInv' /\ QueueInv'
  BY StepSemInv, StepQueueInv DEF TypedInv
<1>2. /\ frame' \in [Person -> Frame]
      /\ cpu' \in Person /\ inside' \subseteq Person
  BY <1>1 DEF SemInv, Types
<1>3. blocked' \subseteq Person
  BY <1>1 DEF QueueInv
<1>4. sem' \in Sem
  <2>1. CASE KernelStep
    BY <1>1, <2>1, SemTyped
  <2>2. CASE sem' = sem
    BY <2>2 DEF TypedInv, TypeOK
  <2> QED
    BY <2>1, <2>2
    DEF DisturbedNext, MutexNext, System, MutexClient, TimerInterrupt, CallWait,
        CallPost, PostInCall, Call, Disturb, vars
<1>5. masked' \subseteq Person
  <2>1. masked \subseteq Person /\ cpu \in Person
    BY DEF TypedInv, TypeOK
  <2>2. CASE KernelStep
    BY <2>1, <2>2
    DEF KernelStep, TestVal, EnterHit, EnterMiss, SemMiss, Block, Retry, Load, StoreLess,
        TestZero, StoreMore, Wake, Dequeue, Shrink, Unblock, LeaveRegion, Done
  <2>3. CASE ~ KernelStep
    BY <2>1, <2>3
    DEF DisturbedNext, MutexNext, System, MutexClient, TimerInterrupt, CallWait,
        CallPost, PostInCall, Call, Disturb, vars, Person
  <2> QED
    BY <2>2, <2>3
<1> QED
  BY <1>1, <1>2, <1>3, <1>4, <1>5 DEF TypedInv, TypeOK

\* The values of the variables, also of the register that holds the value of the
\* semaphore between its load and its store, for any set of processes.
THEOREM Typed == DisturbedSpec => []TypeOK
<1>1. TypedInv => TypeOK
  BY DEF TypedInv
<1> QED
  BY <1>1, InitTypedInv, StepTypedInv, PTL DEF DisturbedSpec

-----------------------------------------------------------------------------
(* A semaphore implements CountingSemaphore. *)

Askers == {p \in Person : Asking(p)}

\* Where their code is.  It is the store that takes the token, not the hit of the lock.
Takers == {p \in Person : frame[p].call = "wait" /\ frame[p].at # "test_zero"}

LEMMA AskersAreTakers == SemInv => Askers = Takers
<1> SUFFICES ASSUME SemInv PROVE Askers = Takers
  OBVIOUS
<1>1. ASSUME NEW p \in Person
      PROVE  Asking(p) <=> frame[p].call = "wait" /\ frame[p].at # "test_zero"
  BY DEF SemInv, Asking, FrameOf
<1> QED
  BY <1>1 DEF Askers, Takers

LEMMA NextAskersAreTakers == (SemInv => Askers = Takers)'
BY AskersAreTakers, PTL

LEMMA InitCounts == Init(1) => Counting!Init
<1> SUFFICES ASSUME Init(1) PROVE Counting!Init
  OBVIOUS
<1>1. SemInv /\ sem.val = 1
  BY InitSemInv DEF Init, Created
<1>2. Askers = {}
  BY <1>1, AskersAreTakers DEF Init, UserCode, Takers
<1> QED
  BY <1>1, <1>2 DEF Counting!Init, Askers

\* What a step of one process does to the set of those that ask.
LEMMA OneAsks ==
  ASSUME SemInv, SemInv', NEW p \in Person,
         \A q \in Person : q # p => frame'[q] = frame[q]
  PROVE  Askers' = IF frame'[p].call = "wait" /\ frame'[p].at # "test_zero"
                   THEN Askers \cup {p} ELSE Askers \ {p}
BY AskersAreTakers, NextAskersAreTakers DEF Takers

\* Steps of kernel code that are not a store take no token and put none there.
LEMMA KernelStutters ==
  ASSUME SemInv, QueueInv, SemInv', KernelStep, ~StoreLess, ~StoreMore
  PROVE  sem'.val = sem.val /\ Askers' = Askers
<1>1. cpu \in Person /\ FrameOf(cpu) /\ ValueFor(cpu) /\ Types
  BY KernelStart
<1>2. CASE TestVal \/ EnterHit \/ EnterMiss \/ SemMiss \/ Block \/ Retry \/ Load
  <2>1. PICK at \in {"enter_region", "sem_miss", "block", "miss", "load", "store"} :
          /\ \A q \in Person : q # cpu => frame'[q] = frame[q]
          /\ frame'[cpu].call = frame[cpu].call
          /\ frame'[cpu].at = at
    BY <1>1, <1>2
    DEF TestVal, EnterHit, EnterMiss, SemMiss, Block, Retry, Load, Goto, Types, Frame
  <2>2. frame[cpu].call = "wait" <=> cpu \in Takers
    BY <1>1, <1>2
    DEF TestVal, EnterHit, EnterMiss, SemMiss, Block, Retry, Load, At, Takers
  <2>3. Askers' = IF frame[cpu].call = "wait" THEN Askers \cup {cpu} ELSE Askers \ {cpu}
    <3>1. at # "test_zero"
      OBVIOUS
    <3> QED
      BY <1>1, <2>1, <3>1, OneAsks
  <2>5. Askers' = Askers
    BY <2>2, <2>3, AskersAreTakers
  <2>4. sem'.val = sem.val
    BY <1>1, <1>2
    DEF TestVal, EnterHit, EnterMiss, SemMiss, Block, Retry, Load, Types, Fields
  <2> QED
    BY <2>4, <2>5
<1>3. CASE TestZero
  <2>1. frame[cpu].at = "test_zero" /\ frame[cpu].call = "wait"
        /\ frame[cpu].left = 1 /\ sem.val = 0
    BY <1>1, <1>3 DEF TestZero, At, FrameOf, ValueFor, UserCode, Frame
  <2>2. Done /\ sem' = sem
    BY <1>3, <2>1 DEF TestZero
  <2>3. frame'[cpu] = UserCode /\ \A q \in Person : q # cpu => frame'[q] = frame[q]
    BY <2>1, <2>2, DoneReturns
  <2>4. cpu \notin Askers
    BY <2>1, AskersAreTakers DEF Takers
  <2>5. Askers' = Askers \ {cpu}
    BY <1>1, <2>3, OneAsks DEF UserCode
  <2> QED
    BY <2>2, <2>4, <2>5
<1>4. CASE LeaveRegion
  <2>1. frame[cpu].call = "post" /\ frame[cpu].left = 1
    BY <1>1, <1>4 DEF LeaveRegion, At, FrameOf, UserCode, Frame
  <2>2. Done /\ sem'.val = sem.val
    BY <1>1, <1>4 DEF LeaveRegion, Types, Fields
  <2>3. frame'[cpu] = UserCode /\ \A q \in Person : q # cpu => frame'[q] = frame[q]
    BY <2>1, <2>2, DoneReturns
  <2>4. cpu \notin Askers
    BY <2>1, AskersAreTakers DEF Takers
  <2>5. Askers' = Askers \ {cpu}
    BY <1>1, <2>3, OneAsks DEF UserCode
  <2> QED
    BY <2>2, <2>4, <2>5
<1>5. CASE Waking
  <2>1. PICK at \in {"dequeue", "shrink", "unblock", "leave_region"} : MovesTo(at)
    BY <1>5, WakingMoves
  <2>2. frame[cpu].call = "post"
    BY <1>1, <1>5
    DEF Waking, Wake, Dequeue, Shrink, Unblock, At, FrameOf, UserCode, Frame
  <2>3. Askers' = Askers
    BY <1>1, <2>1, <2>2, OneAsks, AskersAreTakers DEF Takers, MovesTo
  <2> QED
    BY <1>5, <2>3, WakingMoves
<1> QED
  BY <1>2, <1>3, <1>4, <1>5 DEF KernelStep, Waking

LEMMA StorePasses ==
  ASSUME SemInv, SemInv', StoreLess
  PROVE  Counting!Pass(cpu)
<1>1. cpu \in Person /\ FrameOf(cpu) /\ ValueFor(cpu) /\ Types
  BY KernelStart
<1>2. /\ frame[cpu].at = "store" /\ frame[cpu].call = "wait"
      /\ frame[cpu].seen = 1 /\ sem.val = 1
  BY <1>1 DEF StoreLess, At, ValueFor
<1>3. sem'.val = 0
  BY <1>1, <1>2 DEF StoreLess, Types, Fields
<1>4. /\ frame'[cpu].at = "test_zero"
      /\ \A q \in Person : q # cpu => frame'[q] = frame[q]
  BY <1>1 DEF StoreLess, Types, Frame
<1>5. Askers' = Askers \ {cpu} /\ cpu \in Askers
  BY <1>1, <1>2, <1>4, OneAsks, AskersAreTakers DEF Takers
<1> QED
  BY <1>2, <1>3, <1>5 DEF Counting!Pass, Askers

LEMMA StorePosts ==
  ASSUME SemInv, SemInv', StoreMore
  PROVE  Counting!Post
<1>1. cpu \in Person /\ FrameOf(cpu) /\ ValueFor(cpu) /\ Types
  BY KernelStart
<1>2. /\ frame[cpu].at = "store" /\ frame[cpu].call = "post"
      /\ frame[cpu].seen = 0 /\ sem.val = 0
  BY <1>1 DEF StoreMore, At, ValueFor
<1>3. sem'.val = 1
  BY <1>1, <1>2 DEF StoreMore, Types, Fields
<1>4. /\ frame'[cpu].call = "post"
      /\ \A q \in Person : q # cpu => frame'[q] = frame[q]
  BY <1>1, <1>2 DEF StoreMore, Types, Frame
<1>5. Askers' = Askers
  BY <1>1, <1>2, <1>4, OneAsks, AskersAreTakers DEF Takers
<1> QED
  BY <1>2, <1>3, <1>5 DEF Counting!Post, Askers

LEMMA CallAsks ==
  ASSUME SemInv, SemInv', NEW p \in Proc,
         \/ p \notin inside /\ CallWait(p, 1)
         \/ p \in inside /\ (CallPost(p, 1) \/ PostInCall(p))
  PROVE  Counting!Ask(p) \/ UNCHANGED Counting!vars
<1>1. p \in Person /\ frame[p] = UserCode /\ sem' = sem
  BY DEF CallWait, CallPost, PostInCall, Call, Person
<1>2. \A q \in Person : q # p => frame'[q] = frame[q]
  BY <1>1 DEF CallWait, CallPost, PostInCall, Call, SemInv, Types
<1>3. p \notin Askers
  BY <1>1, AskersAreTakers DEF Takers, UserCode
<1>4. CASE CallWait(p, 1)
  <2>1. frame'[p] = Starting("wait", 1)
    BY <1>1, <1>4 DEF CallWait, Call, SemInv, Types
  <2>2. Askers' = Askers \cup {p}
    BY <1>1, <1>2, <2>1, OneAsks DEF Starting
  <2> QED
    BY <1>1, <1>3, <2>2 DEF Counting!Ask, Askers
<1>5. CASE CallPost(p, 1) \/ PostInCall(p)
  <2>1. frame'[p] = Starting("post", 1)
    BY <1>1, <1>5 DEF CallPost, PostInCall, Call, SemInv, Types
  <2>2. Askers' = Askers
    BY <1>1, <1>2, <1>3, <2>1, OneAsks DEF Starting
  <2> QED
    BY <1>1, <2>2 DEF Counting!vars, Askers
<1> QED
  BY <1>4, <1>5

LEMMA StepCounts ==
  SemInv /\ QueueInv /\ [DisturbedNext]_vars => [Counting!Next]_(Counting!vars)
<1> SUFFICES ASSUME SemInv, QueueInv, [DisturbedNext]_vars
             PROVE  [Counting!Next]_(Counting!vars)
  OBVIOUS
<1>1. SemInv'
  BY StepSemInv
<1>2. CASE KernelStep
  <2>1. CASE StoreLess
    BY <1>1, <2>1, StorePasses, KernelStart DEF Counting!Next
  <2>2. CASE StoreMore
    BY <1>1, <2>2, StorePosts DEF Counting!Next
  <2>3. CASE ~StoreLess /\ ~StoreMore
    BY <1>1, <1>2, <2>3, KernelStutters DEF Counting!vars, Askers
  <2> QED
    BY <2>1, <2>2, <2>3
<1>3. CASE MutexClient \/ \E p \in Proc : p \in inside /\ PostInCall(p)
  BY <1>1, <1>3, CallAsks DEF MutexClient, Counting!Next, Person
<1>4. CASE UNCHANGED <<sem, frame>>
  BY <1>4 DEF Counting!vars, Asking
<1> QED
  BY <1>2, <1>3, <1>4 DEF DisturbedNext, MutexNext, System, TimerInterrupt, Disturb, vars

\* For any set of processes, and whatever unblocks those that wait: a wait returns only
\* by taking a token that was there, although the value is loaded and stored in two
\* steps, interrupts are enabled between them, and the posts do not take the lock.
THEOREM WaitsTakeTokens == DisturbedSpec => CountsTokens
BY InitSemInv, InitCounts, StepSemInv, InitQueueInv, StepQueueInv, StepCounts, PTL
DEF DisturbedSpec, CountsTokens, Counting!Spec

-----------------------------------------------------------------------------
(* Somebody is awake. *)

\* Where the code of p is.  A post is never preempted here: it finds the value at zero
\* and goes on with interrupts disabled.  Nor is a wait, between the miss of the lock
\* and the block.
CodeOf(p) ==
  /\ p \in blocked => frame[p].call = "wait" /\ frame[p].at = "miss"
  /\ frame[p].call = "wait"
       /\ frame[p].at \in {"enter_region", "sem_miss", "block", "miss"}
         => p \in masked
  /\ frame[p].at \in {"sem_miss", "block"} => p = cpu /\ sem.lock = Locked
  /\ frame[p].call = "post" => p = cpu /\ p \in masked
  /\ frame[p].at = "dequeue" => sem.size > 0
  /\ IF frame[p].at \in {"shrink", "unblock"}
     THEN \E w \in blocked : frame[p].woken = {w}
     ELSE frame[p].woken = {}

\* Who is in the queue: those that are blocked, but for the one a post is waking, and
\* the one that is about to block.
Queued(p) ==
  /\ p \in blocked \/ (p = cpu /\ frame[p].at = "block")
  /\ p \notin frame[cpu].woken

\* size_list counts them, and the one a post has unlinked.
Unlinked == IF frame[cpu].at = "shrink" THEN 1 ELSE 0

QueueExact ==
  /\ IsInjective(sem.queue)
  /\ \A p : Contains(sem.queue, p) <=> Queued(p)
  /\ sem.size = Len(sem.queue) + Unlinked

\* If somebody is blocked then the token is with a process that has not woken anyone
\* yet, or another process is trying to get it.
SomebodyMoves ==
  blocked # {} =>
    \/ \E p \in Proc : Holds(p) /\ frame[p].at # "leave_region"
    \/ \E p \in Proc \ blocked : frame[p].call = "wait"

AwakeInv ==
  /\ SemInv /\ QueueInv
  /\ QueueExact
  /\ blocked \subseteq Proc /\ cpu \notin blocked
  /\ inside \subseteq Proc /\ frame[Halt] = UserCode
  /\ \A p \in Proc : CodeOf(p)
  /\ SomebodyMoves

LEMMA InitAwakeInv == Init(1) => AwakeInv
<1> SUFFICES ASSUME Init(1) PROVE AwakeInv
  OBVIOUS
<1>1. SemInv /\ QueueInv
  BY InitSemInv, InitQueueInv
<1>2. sem.queue = <<>> /\ sem.size = 0
  BY DEF Init, Created
<1>3. QueueExact
  <2>1. frame[cpu] = UserCode /\ blocked = {}
    BY DEF Init, Person
  <2>2. (\A p : ~Queued(p)) /\ Unlinked = 0
    BY <2>1 DEF Queued, Unlinked, UserCode
  <2>3. IsInjective(<<>>) /\ Len(<<>>) = 0 /\ \A p : ~Contains(<<>>, p)
    BY DEF IsInjective, Contains
  <2> QED
    BY <1>2, <2>2, <2>3 DEF QueueExact
<1> QED
  BY <1>1, <1>3, HaltAssumption
  DEF Init, AwakeInv, CodeOf, SomebodyMoves, UserCode, Person

\* What the code of the process on the cpu means to the queue.
SameMark ==
  /\ frame'[cpu].at = "block" <=> frame[cpu].at = "block"
  /\ frame'[cpu].at = "shrink" <=> frame[cpu].at = "shrink"
  /\ frame'[cpu].woken = frame[cpu].woken

\* The process on the cpu moves and keeps the cpu; the queue stays as it is.
LEMMA OneMoves ==
  ASSUME AwakeInv, SemInv', QueueInv', cpu \in Proc,
         frame' \in [Person -> Frame],
         \A q \in Person : q # cpu => frame'[q] = frame[q],
         masked' \ {cpu} = masked \ {cpu},
         sem'.queue = sem.queue, sem'.size = sem.size, blocked' = blocked, cpu' = cpu,
         SameMark, inside' \subseteq Proc, CodeOf(cpu)', SomebodyMoves'
  PROVE  AwakeInv'
<1>1. ASSUME NEW q \in Proc, q # cpu PROVE CodeOf(q)'
  <2>1. CodeOf(q) /\ q \in Person /\ FrameOf(q)
    BY DEF AwakeInv, SemInv, Person
  <2>2. /\ frame'[q] = frame[q] /\ blocked' = blocked
        /\ q \in masked => q \in masked'
    BY <1>1, <2>1
  <2>3. frame[q].call # "post" /\ frame[q].at \notin {"sem_miss", "block"}
    BY <1>1, <2>1 DEF CodeOf
  <2>4. frame[q].at # "dequeue"
    BY <2>1, <2>3 DEF FrameOf, UserCode, Frame
  <2> QED
    BY <2>1, <2>2, <2>3, <2>4 DEF CodeOf
<1>2. frame'[Halt] = UserCode
  BY HaltAssumption DEF AwakeInv, Person
<1>3. QueueExact'
  BY DEF AwakeInv, QueueExact, Queued, Unlinked, SameMark
<1> QED
  BY <1>1, <1>2, <1>3 DEF AwakeInv

\* Only processes run kernel code here: the halt process makes no call.
LEMMA ProcRuns ==
  ASSUME AwakeInv, KernelStep
  PROVE  cpu \in Proc /\ cpu \in Person /\ FrameOf(cpu) /\ CodeOf(cpu) /\ Types
<1>1. frame[cpu].at # "user"
  BY DEF KernelStep, TestVal, EnterHit, EnterMiss, SemMiss, Block, Retry, Load,
         StoreLess, TestZero, StoreMore, Wake, Dequeue, Shrink, Unblock, LeaveRegion, At
<1> QED
  BY <1>1 DEF AwakeInv, SemInv, Types, Person, UserCode

\* The call of a process that has or gets the token goes on with it.
LEMMA HolderAwake ==
  ASSUME AwakeInv, SemInv', QueueInv',
         TestVal \/ EnterHit \/ Load \/ StoreLess \/ StoreMore
  PROVE  AwakeInv'
<1>1. cpu \in Proc /\ cpu \in Person /\ FrameOf(cpu) /\ CodeOf(cpu) /\ Types
  BY ProcRuns DEF KernelStep
<1>2. frame[cpu].at \in {"test_val", "enter_region", "load", "store"}
  BY DEF TestVal, EnterHit, Load, StoreLess, StoreMore, At
<1>3. frame[cpu].call \in {"wait", "post"}
  BY <1>1, <1>2 DEF FrameOf, UserCode, Frame
<1>4. TestVal => sem.val = 0
  BY <1>1, <1>3, KernelStart DEF AwakeInv, TestVal, At, ValueFor, FrameOf
<1>5. PICK at \in {"load", "store", "test_zero", "wake"} :
        /\ \A q \in Person : q # cpu => frame'[q] = frame[q]
        /\ frame'[cpu].call = frame[cpu].call
        /\ frame'[cpu].at = at
        /\ frame'[cpu].woken = frame[cpu].woken
        /\ at = "wake" => frame[cpu].call = "post"
  <2>1. CASE TestVal
    BY <1>1, <1>4, <2>1 DEF TestVal, Goto, Types, Frame
  <2>2. CASE EnterHit
    BY <1>1, <2>2 DEF EnterHit, Goto, Types, Frame
  <2>3. CASE Load
    BY <1>1, <2>3 DEF Load, Types, Frame
  <2>4. CASE StoreLess
    BY <1>1, <2>4 DEF StoreLess, Types, Frame
  <2>5. CASE StoreMore
    BY <1>1, <2>5 DEF StoreMore, Types, Frame
  <2> QED
    BY <2>1, <2>2, <2>3, <2>4, <2>5
<1>6. /\ blocked' = blocked /\ cpu' = cpu /\ inside' = inside
      /\ sem'.queue = sem.queue /\ sem'.size = sem.size
  BY <1>1 DEF TestVal, EnterHit, Load, StoreLess, StoreMore, Types, Fields
<1>7. \/ masked' = masked
      \/ frame[cpu].call = "wait" /\ masked' = masked \ {cpu}
  BY <1>1, <1>3 DEF TestVal, EnterHit, Load, StoreLess, StoreMore, FrameOf, At
<1>8. Holds(cpu)'
  BY <1>3, <1>5, <1>6 DEF Holds
<1>9. SomebodyMoves'
  BY <1>1, <1>5, <1>6, <1>8 DEF SomebodyMoves
<1>10. frame[cpu].woken = {}
  BY <1>1, <1>2 DEF CodeOf
<1>11. CodeOf(cpu)' /\ SameMark
  BY <1>1, <1>2, <1>5, <1>6, <1>7, <1>10 DEF CodeOf, AwakeInv, SameMark
<1>12. frame' \in [Person -> Frame] /\ inside' \subseteq Proc
       /\ masked' \ {cpu} = masked \ {cpu}
  BY <1>6, <1>7 DEF SemInv, Types, AwakeInv
<1> QED
  BY <1>1, <1>5, <1>6, <1>9, <1>11, <1>12, OneMoves

LEMMA EnterMissAwake ==
  ASSUME AwakeInv, SemInv', QueueInv', EnterMiss
  PROVE  AwakeInv'
<1>1. cpu \in Proc /\ cpu \in Person /\ FrameOf(cpu) /\ CodeOf(cpu) /\ Types
  BY ProcRuns DEF KernelStep
<1>2. /\ \A q \in Person : q # cpu => frame'[q] = frame[q]
      /\ frame'[cpu].call = frame[cpu].call
      /\ frame'[cpu].at = "sem_miss"
      /\ frame'[cpu].woken = frame[cpu].woken
      /\ UNCHANGED <<sem, masked, cpu, blocked, inside>>
      /\ sem.lock = Locked
  BY <1>1 DEF EnterMiss, Goto, Types, Frame
<1>3. frame[cpu].call = "wait" /\ frame[cpu].at = "enter_region"
  BY <1>1 DEF EnterMiss, At, FrameOf, UserCode, Frame
<1>4. cpu \notin blocked
  BY DEF AwakeInv
<1>5. CodeOf(cpu)' /\ SomebodyMoves' /\ SameMark
  BY <1>1, <1>2, <1>3, <1>4 DEF CodeOf, SomebodyMoves, SameMark
<1>6. frame' \in [Person -> Frame]
  BY DEF SemInv, Types
<1> QED
  BY <1>1, <1>2, <1>5, <1>6, OneMoves DEF AwakeInv

\* The miss goes in the queue; nobody is in the middle of a post then.
LEMMA SemMissAwake ==
  ASSUME AwakeInv, SemInv', QueueInv', SemMiss
  PROVE  AwakeInv'
<1>1. cpu \in Proc /\ cpu \in Person /\ FrameOf(cpu) /\ CodeOf(cpu) /\ Types
  BY ProcRuns DEF KernelStep
<1>2. /\ \A q \in Person : q # cpu => frame'[q] = frame[q]
      /\ frame'[cpu].call = frame[cpu].call
      /\ frame'[cpu].at = "block"
      /\ frame'[cpu].woken = frame[cpu].woken
      /\ UNCHANGED <<masked, cpu, blocked, inside>>
  BY <1>1 DEF SemMiss, Goto, Types, Frame
<1>3. frame[cpu].call = "wait" /\ frame[cpu].at = "sem_miss" /\ sem.lock = Locked
  BY <1>1 DEF SemMiss, At, FrameOf, UserCode, Frame, CodeOf
<1>4. frame[cpu].woken = {} /\ cpu \in masked /\ cpu \notin blocked
  BY <1>1, <1>3 DEF CodeOf, AwakeInv
<1> DEFINE q == sem.queue
<1>5. /\ q \in Seq(Person) /\ IsInjective(q) /\ ~ Contains(q, cpu)
      /\ \A p : Contains(q, p) <=> p \in blocked
      /\ sem.size = Len(q)
  BY <1>3, <1>4 DEF AwakeInv, QueueInv, QueueExact, Queued, Unlinked
<1>6. sem.size = 0 <=> q = <<>>
  BY <1>5
<1>7. sem'.lock = sem.lock /\ sem'.queue = Append(q, cpu) /\ sem'.size = sem.size + 1
  BY <1>1, <1>6 DEF SemMiss, Types, AwakeInv, QueueInv, Fields
<1> HIDE DEF q
<1>8. /\ IsInjective(Append(q, cpu)) /\ Len(Append(q, cpu)) = Len(q) + 1
      /\ \A p : Contains(Append(q, cpu), p) <=> Contains(q, p) \/ p = cpu
  BY <1>1, <1>5, AppendNewProperties
<1>9. QueueExact'
  BY <1>2, <1>4, <1>5, <1>7, <1>8 DEF QueueExact, Queued, Unlinked
<1>10. SomebodyMoves'
  BY <1>1, <1>2, <1>3, <1>4 DEF SomebodyMoves
<1>11. ASSUME NEW p \in Proc PROVE CodeOf(p)'
  <2>1. CodeOf(p) /\ p \in Person /\ FrameOf(p)
    BY DEF AwakeInv, SemInv, Person
  <2>2. CASE p = cpu
    BY <1>2, <1>3, <1>4, <1>7, <2>2 DEF CodeOf
  <2>3. CASE p # cpu
    <3>1. frame[p].at \notin {"sem_miss", "block", "dequeue"} /\ frame[p].call # "post"
      BY <2>1, <2>3 DEF CodeOf, FrameOf, UserCode, Frame
    <3>2. frame'[p] = frame[p] /\ blocked' = blocked /\ masked' = masked
      BY <1>2, <2>1, <2>3
    <3> QED
      BY <2>1, <3>1, <3>2 DEF CodeOf
  <2> QED
    BY <2>2, <2>3
<1>12. frame'[Halt] = UserCode
  BY <1>1, <1>2, HaltAssumption DEF AwakeInv, Person
<1> QED
  BY <1>1, <1>2, <1>9, <1>10, <1>11, <1>12 DEF AwakeInv

\* At the block the token stays where it is, with a process that has yet to wake
\* somebody: who posts is not interrupted.
LEMMA BlockAwake ==
  ASSUME AwakeInv, SemInv', QueueInv', Block
  PROVE  AwakeInv'
<1>1. cpu \in Proc /\ cpu \in Person /\ FrameOf(cpu) /\ CodeOf(cpu) /\ Types
  BY ProcRuns DEF KernelStep
<1>2. /\ \A q \in Person : q # cpu => frame'[q] = frame[q]
      /\ frame'[cpu].call = frame[cpu].call
      /\ frame'[cpu].at = "miss"
      /\ frame'[cpu].woken = frame[cpu].woken
      /\ blocked' = blocked \cup {cpu}
      /\ UNCHANGED <<sem, masked, inside>>
  BY <1>1 DEF Block, Goto, Types, Frame, Switch
<1>3. frame[cpu].call = "wait" /\ frame[cpu].at = "block" /\ sem.lock = Locked
  BY <1>1 DEF Block, At, FrameOf, UserCode, Frame, CodeOf
<1>4. frame[cpu].woken = {} /\ cpu \in masked /\ cpu \notin blocked
  BY <1>1, <1>3 DEF CodeOf, AwakeInv
<1>5. cpu' \notin blocked' /\ cpu' \in Person /\ cpu' # cpu
  BY <1>1, <1>2, HaltAssumption DEF Block, Switch, AwakeInv, Person
<1>6. ASSUME NEW p \in Person, p # cpu
      PROVE  /\ frame'[p] = frame[p]
             /\ frame[p].at \notin {"sem_miss", "block", "dequeue", "shrink", "unblock",
                                     "leave_region"}
             /\ frame[p].call # "post" /\ frame[p].woken = {}
  <2>1. CASE p \in Proc
    <3>1. CodeOf(p) /\ FrameOf(p)
      BY <2>1 DEF AwakeInv, SemInv
    <3>2. frame[p].call # "post" /\ frame[p].at \notin {"sem_miss", "block"}
      BY <1>6, <3>1 DEF CodeOf
    <3>3. frame[p].at \notin {"dequeue", "shrink", "unblock", "leave_region"}
      BY <3>1, <3>2 DEF FrameOf, UserCode, Frame
    <3> QED
      BY <1>2, <1>6, <3>1, <3>2, <3>3 DEF CodeOf
  <2>2. CASE p = Halt
    BY <1>2, <1>6, <2>2 DEF AwakeInv, UserCode
  <2> QED
    BY <2>1, <2>2 DEF Person
<1>7. frame'[cpu'].woken = {} /\ frame'[cpu'].at \notin {"block", "shrink"}
  BY <1>5, <1>6
<1>8. QueueExact'
  <2>1. Unlinked' = 0 /\ Unlinked = 0
    BY <1>3, <1>7 DEF Unlinked
  <2>2. \A p : Queued(p)' <=> Queued(p)
    BY <1>2, <1>3, <1>4, <1>7 DEF Queued
  <2> QED
    BY <1>2, <2>1, <2>2 DEF AwakeInv, QueueExact
<1>9. PICK h \in Person : Holds(h)
  BY <1>3 DEF AwakeInv, SemInv, OneHolder
<1>10. h \in Proc /\ h # cpu
  BY <1>3, <1>4, <1>9, <1>1, HaltAssumption
  DEF AwakeInv, Holds, Person, UserCode, FrameOf
<1>11. Holds(h)' /\ frame'[h].at # "leave_region"
  BY <1>2, <1>6, <1>9, <1>10 DEF Holds
<1>12. SomebodyMoves'
  BY <1>10, <1>11 DEF SomebodyMoves
<1>13. ASSUME NEW p \in Proc PROVE CodeOf(p)'
  <2>1. CodeOf(p) /\ p \in Person
    BY DEF AwakeInv, Person
  <2>2. CASE p = cpu
    BY <1>2, <1>3, <1>4, <2>2 DEF CodeOf
  <2>3. CASE p # cpu
    BY <1>2, <1>6, <2>1, <2>3 DEF CodeOf
  <2> QED
    BY <2>2, <2>3
<1>14. frame'[Halt] = UserCode
  BY <1>1, <1>2, HaltAssumption DEF AwakeInv, Person
<1> QED
  BY <1>1, <1>2, <1>5, <1>8, <1>12, <1>13, <1>14 DEF AwakeInv

\* No process is in the middle of a post, or between the miss of the lock and the block:
\* the cpu may be given away.
LEMMA SwitchAwake ==
  ASSUME AwakeInv, SemInv', QueueInv', Switch(blocked), cpu \in Person,
         UNCHANGED <<sem, masked, inside>>,
         \A q \in Person : q # cpu => frame'[q] = frame[q],
         \/ frame' = frame /\ cpu \notin masked
         \/ /\ cpu \in Proc
            /\ frame'[cpu].call = "wait" /\ frame[cpu].call = "wait"
            /\ frame'[cpu].at = "enter_region" /\ frame[cpu].at = "miss"
            /\ frame'[cpu].woken = frame[cpu].woken
  PROVE  AwakeInv'
<1>1. blocked' = blocked /\ cpu' \notin blocked /\ cpu' \in Person
  BY HaltAssumption DEF Switch, AwakeInv, Person
<1>2. frame'[Halt] = UserCode
  BY HaltAssumption DEF AwakeInv, Person
<1>3. ASSUME NEW p \in Person
      PROVE  /\ frame[p].at \notin {"sem_miss", "block", "dequeue", "shrink", "unblock"}
             /\ frame[p].call # "post" /\ frame[p].woken = {}
             /\ frame'[p].at \notin {"sem_miss", "block", "dequeue", "shrink", "unblock"}
             /\ frame'[p].call # "post" /\ frame'[p].woken = {}
  <2>1. CASE p \in Proc
    <3>1. CodeOf(p) /\ FrameOf(p)
      BY <2>1 DEF AwakeInv, SemInv
    <3>2. frame[p].call # "post"
      BY <3>1 DEF CodeOf
    <3>3. frame[p].at \notin {"sem_miss", "block"}
      BY <3>1, <3>2 DEF CodeOf, FrameOf, UserCode, Frame
    <3>4. frame[p].at \notin {"dequeue", "shrink", "unblock"}
      BY <3>1, <3>2 DEF FrameOf, UserCode, Frame
    <3> QED
      BY <3>1, <3>2, <3>3, <3>4 DEF CodeOf
  <2>2. CASE p = Halt
    BY <1>2, <2>2 DEF AwakeInv, UserCode
  <2> QED
    BY <2>1, <2>2 DEF Person
<1>4. ASSUME NEW p \in Proc PROVE CodeOf(p)'
  <2>1. CodeOf(p) /\ cpu \notin blocked /\ p \in Person
    BY DEF AwakeInv, Person
  <2> QED
    BY <1>1, <1>3, <2>1 DEF CodeOf
<1>5. SomebodyMoves'
  BY <1>1 DEF AwakeInv, SomebodyMoves, Holds, Person
<1>6. QueueExact'
  <2>1. Unlinked' = 0 /\ Unlinked = 0
    BY <1>1, <1>3 DEF Unlinked
  <2>2. \A p : Queued(p)' <=> Queued(p)
    BY <1>1, <1>3 DEF Queued
  <2> QED
    BY <2>1, <2>2 DEF AwakeInv, QueueExact
<1> QED
  BY <1>1, <1>2, <1>4, <1>5, <1>6 DEF AwakeInv

\* Where a post is, and what it has done to the queue.
LEMMA PostCode ==
  ASSUME AwakeInv, Waking
  PROVE  /\ cpu \in Proc /\ cpu \in Person /\ CodeOf(cpu)
         /\ frame[cpu].call = "post" /\ cpu \in masked /\ cpu \notin blocked
         /\ sem.open = TRUE /\ DOMAIN sem = Fields /\ sem.queue \in Seq(Person)
         /\ \A p : Contains(sem.queue, p) <=> p \in blocked /\ p \notin frame[cpu].woken
<1>1. cpu \in Proc /\ cpu \in Person /\ FrameOf(cpu) /\ CodeOf(cpu) /\ Types
  BY ProcRuns DEF KernelStep, Waking
<1>2. frame[cpu].at \in {"wake", "dequeue", "shrink", "unblock"}
  BY DEF Waking, Wake, Dequeue, Shrink, Unblock, At
<1>3. frame[cpu].call = "post" /\ cpu \in masked
  BY <1>1, <1>2 DEF FrameOf, UserCode, Frame, CodeOf
<1> QED
  BY <1>1, <1>2, <1>3 DEF AwakeInv, QueueInv, QueueExact, Queued

\* A post goes on; what is left to show is where it is and what the queue is.
LEMMA PostMoves ==
  ASSUME AwakeInv, SemInv', QueueInv', Waking, NEW at, MovesTo(at),
         blocked' \subseteq blocked, CodeOf(cpu)', QueueExact', SomebodyMoves'
  PROVE  AwakeInv'
<1>1. /\ cpu \in Proc /\ cpu \in Person
      /\ UNCHANGED <<masked, inside, cpu>>
  BY PostCode, WakingMoves DEF AwakeInv
<1>2. ASSUME NEW p \in Proc, p # cpu PROVE CodeOf(p)'
  <2>1. CodeOf(p) /\ p \in Person /\ FrameOf(p)
    BY DEF AwakeInv, SemInv, Person
  <2>2. frame[p].call # "post" /\ frame[p].at \notin {"sem_miss", "block"}
    BY <1>2, <2>1 DEF CodeOf
  <2>3. frame[p].at \notin {"dequeue", "shrink", "unblock"}
    BY <2>1, <2>2 DEF FrameOf, UserCode, Frame
  <2>4. frame'[p] = frame[p]
    BY <1>2, <2>1 DEF MovesTo
  <2> QED
    BY <1>1, <2>1, <2>2, <2>3, <2>4 DEF CodeOf
<1>3. frame'[Halt] = UserCode
  BY <1>1, HaltAssumption DEF AwakeInv, Person, MovesTo
<1> QED
  BY <1>1, <1>2, <1>3 DEF AwakeInv

LEMMA WakeAwake ==
  ASSUME AwakeInv, SemInv', QueueInv', Wake
  PROVE  AwakeInv'
<1>1. Waking /\ frame[cpu].at = "wake"
  BY DEF Waking, Wake, At
<1>2. /\ cpu \in Proc /\ cpu \in Person /\ frame[cpu].call = "post"
      /\ cpu \in masked /\ cpu \notin blocked /\ frame[cpu].woken = {}
      /\ sem.queue \in Seq(Person)
  BY <1>1, PostCode DEF CodeOf
<1>3. /\ UNCHANGED <<sem, masked, cpu, blocked, inside>>
      /\ frame'[cpu].woken = {}
  BY <1>2 DEF Wake, Goto, AwakeInv, SemInv, Types, Frame
<1>4. sem.size = Len(sem.queue)
  BY <1>1 DEF AwakeInv, QueueExact, Unlinked
<1>5. CASE sem.size > 0
  <2>1. MovesTo("dequeue")
    BY <1>5, GotoMoves DEF Wake, AwakeInv, SemInv, Location
  <2>2. CodeOf(cpu)' /\ SomebodyMoves'
    BY <1>2, <1>3, <1>5, <2>1 DEF CodeOf, SomebodyMoves, MovesTo, Holds
  <2>3. QueueExact'
    BY <1>1, <1>2, <1>3, <2>1 DEF AwakeInv, QueueExact, Queued, Unlinked, MovesTo
  <2> QED
    BY <1>1, <1>3, <2>1, <2>2, <2>3, PostMoves
<1>6. CASE ~(sem.size > 0)
  <2>1. MovesTo("leave_region")
    BY <1>6, GotoMoves DEF Wake, AwakeInv, SemInv, Location
  <2>2. sem.queue = <<>>
    BY <1>2, <1>4, <1>6
  <2>3. blocked = {}
    BY <1>1, <1>2, <2>2, PostCode DEF Contains
  <2>4. CodeOf(cpu)' /\ SomebodyMoves'
    BY <1>2, <1>3, <2>1, <2>3 DEF CodeOf, SomebodyMoves, MovesTo
  <2>5. QueueExact'
    BY <1>1, <1>2, <1>3, <2>1 DEF AwakeInv, QueueExact, Queued, Unlinked, MovesTo
  <2> QED
    BY <1>1, <1>3, <2>1, <2>4, <2>5, PostMoves
<1> QED
  BY <1>5, <1>6

\* Who is first in the queue is on the way to be woken, and still blocked.
LEMMA DequeueAwake ==
  ASSUME AwakeInv, SemInv', QueueInv', Dequeue
  PROVE  AwakeInv'
<1>1. Waking /\ frame[cpu].at = "dequeue"
  BY DEF Waking, Dequeue, At
<1> DEFINE q == sem.queue
           w == Head(q)
<1>2. /\ cpu \in Proc /\ cpu \in Person /\ frame[cpu].call = "post"
      /\ cpu \in masked /\ cpu \notin blocked /\ frame[cpu].woken = {}
      /\ q \in Seq(Person) /\ sem.open = TRUE /\ DOMAIN sem = Fields
      /\ \A p : Contains(q, p) <=> p \in blocked
      /\ sem.size > 0
  BY <1>1, PostCode DEF CodeOf
<1>3. sem.size = Len(q) /\ IsInjective(q)
  BY <1>1 DEF AwakeInv, QueueExact, Unlinked
<1>4. q # <<>> /\ w \in Person
  BY <1>2, <1>3
<1>5. /\ sem'.queue = Tail(q) /\ sem'.size = sem.size
      /\ frame' = [frame EXCEPT ![cpu].at = "shrink", ![cpu].woken = {w}]
      /\ UNCHANGED <<masked, cpu, blocked, inside>>
  BY <1>2, <1>4 DEF Dequeue, Fields
<1> HIDE DEF q
<1>6. /\ Contains(q, w) /\ IsInjective(Tail(q)) /\ Len(Tail(q)) = Len(q) - 1
      /\ Len(q) \in Nat
      /\ \A p : Contains(Tail(q), p) <=> Contains(q, p) /\ p # w
  BY <1>2, <1>3, <1>4, HeadTailSplit
<1> HIDE DEF w
<1>7. MovesTo("shrink") /\ frame'[cpu].woken = {w}
  <2>1. "shrink" \in Location /\ {w} \in SUBSET Person /\ Types
    BY <1>4 DEF Location, AwakeInv, SemInv
  <2> QED
    BY <1>5, <2>1, WokenMoves
<1>8. w \in blocked
  BY <1>2, <1>6
<1>9. CodeOf(cpu)' /\ SomebodyMoves'
  BY <1>2, <1>5, <1>7, <1>8 DEF CodeOf, SomebodyMoves, MovesTo, Holds
<1>10. QueueExact'
  <2>1. Unlinked' = 1
    BY <1>5, <1>7 DEF Unlinked, MovesTo
  <2>2. \A p : Queued(p)' <=> p \in blocked /\ p # w
    BY <1>5, <1>7 DEF Queued, MovesTo
  <2>3. sem'.size = Len(sem'.queue) + 1
    BY <1>3, <1>5, <1>6
  <2> QED
    BY <1>2, <1>5, <1>6, <2>1, <2>2, <2>3 DEF QueueExact
<1> QED
  BY <1>1, <1>5, <1>7, <1>9, <1>10, PostMoves

LEMMA ShrinkAwake ==
  ASSUME AwakeInv, SemInv', QueueInv', Shrink
  PROVE  AwakeInv'
<1>1. Waking /\ frame[cpu].at = "shrink"
  BY DEF Waking, Shrink, At
<1>2. /\ cpu \in Proc /\ cpu \in Person /\ frame[cpu].call = "post" /\ CodeOf(cpu)
      /\ cpu \in masked /\ cpu \notin blocked /\ DOMAIN sem = Fields
      /\ sem.queue \in Seq(Person)
  BY <1>1, PostCode
<1>3. /\ sem'.queue = sem.queue /\ sem'.size = sem.size - 1
      /\ frame'[cpu].woken = frame[cpu].woken
      /\ UNCHANGED <<masked, cpu, blocked, inside>>
  BY <1>2 DEF Shrink, Goto, AwakeInv, SemInv, Types, Frame, Fields
<1>4. MovesTo("unblock")
  BY GotoMoves DEF Shrink, AwakeInv, SemInv, Location
<1>5. CodeOf(cpu)' /\ SomebodyMoves'
  BY <1>1, <1>2, <1>3, <1>4 DEF CodeOf, SomebodyMoves, MovesTo, Holds
<1>6. QueueExact'
  <2>1. Unlinked = 1 /\ Unlinked' = 0
    BY <1>1, <1>3, <1>4 DEF Unlinked, MovesTo
  <2>2. \A p : Queued(p)' <=> Queued(p)
    BY <1>1, <1>3, <1>4 DEF Queued, MovesTo
  <2>3. sem.size = Len(sem.queue) + 1 /\ Len(sem.queue) \in Nat
    BY <1>2, <2>1 DEF AwakeInv, QueueExact
  <2>4. sem'.size = Len(sem'.queue) + 0
    BY <1>3, <2>3
  <2> QED
    BY <1>3, <2>1, <2>2, <2>4 DEF AwakeInv, QueueExact
<1> QED
  BY <1>1, <1>3, <1>4, <1>5, <1>6, PostMoves

LEMMA UnblockAwake ==
  ASSUME AwakeInv, SemInv', QueueInv', Unblock
  PROVE  AwakeInv'
<1>1. Waking /\ frame[cpu].at = "unblock"
  BY DEF Waking, Unblock, At
<1>2. /\ cpu \in Proc /\ cpu \in Person /\ frame[cpu].call = "post" /\ CodeOf(cpu)
      /\ cpu \in masked /\ cpu \notin blocked
  BY <1>1, PostCode
<1>3. PICK w \in blocked : frame[cpu].woken = {w}
  BY <1>1, <1>2 DEF CodeOf
<1>4. /\ blocked' = blocked \ {w}
      /\ frame' = [frame EXCEPT ![cpu].at = "leave_region", ![cpu].woken = {}]
      /\ UNCHANGED <<sem, masked, cpu, inside>>
  BY <1>3 DEF Unblock
<1>5. MovesTo("leave_region") /\ frame'[cpu].woken = {}
  <2>1. "leave_region" \in Location /\ {} \in SUBSET Person /\ Types
    BY DEF Location, AwakeInv, SemInv
  <2> QED
    BY <1>4, <2>1, WokenMoves
<1>6. w \in Proc /\ w # cpu /\ frame[w].call = "wait"
  BY <1>2, <1>3 DEF AwakeInv, CodeOf
<1>7. CodeOf(cpu)' /\ SomebodyMoves'
  <2>1. frame'[w] = frame[w]
    BY <1>5, <1>6 DEF MovesTo, Person
  <2> QED
    BY <1>2, <1>4, <1>5, <1>6, <2>1 DEF CodeOf, SomebodyMoves, MovesTo
<1>8. QueueExact'
  <2>1. Unlinked = 0 /\ Unlinked' = 0
    BY <1>1, <1>4, <1>5 DEF Unlinked, MovesTo
  <2>2. \A p : Queued(p)' <=> Queued(p)
    BY <1>1, <1>3, <1>4, <1>5 DEF Queued, MovesTo
  <2> QED
    BY <1>4, <2>1, <2>2 DEF AwakeInv, QueueExact
<1> QED
  BY <1>1, <1>4, <1>5, <1>7, <1>8, PostMoves

\* The end of a wait: the process is inside.
LEMMA TestZeroAwake ==
  ASSUME AwakeInv, SemInv', QueueInv', TestZero
  PROVE  AwakeInv'
<1>1. cpu \in Proc /\ cpu \in Person /\ FrameOf(cpu) /\ ValueFor(cpu)
  BY ProcRuns, KernelStart DEF AwakeInv, KernelStep
<1>2. /\ frame[cpu].at = "test_zero" /\ frame[cpu].call = "wait"
      /\ frame[cpu].left = 1 /\ sem.val = 0
  BY <1>1 DEF TestZero, At, FrameOf, ValueFor, UserCode, Frame
<1>3. Done /\ UNCHANGED <<sem, cpu, blocked>>
  BY <1>2 DEF TestZero
<1>4. /\ frame' \in [Person -> Frame]
      /\ frame'[cpu] = UserCode
      /\ \A q \in Person : q # cpu => frame'[q] = frame[q]
      /\ inside' = inside \cup {cpu}
  BY <1>2, <1>3, DoneReturns DEF AwakeInv
<1>5. masked' = masked \ {cpu}
  BY <1>2, <1>3 DEF Done
<1>6. CodeOf(cpu)' /\ SomebodyMoves' /\ SameMark
  BY <1>1, <1>2, <1>3, <1>4 DEF AwakeInv, CodeOf, SomebodyMoves, Holds, UserCode, SameMark
<1>7. inside' \subseteq Proc
  BY <1>1, <1>4 DEF AwakeInv
<1> QED
  BY <1>1, <1>3, <1>4, <1>5, <1>6, <1>7, OneMoves

\* The end of a post: whoever it woke is on the way.
LEMMA LeaveRegionAwake ==
  ASSUME AwakeInv, SemInv', QueueInv', LeaveRegion
  PROVE  AwakeInv'
<1>1. cpu \in Proc /\ cpu \in Person /\ FrameOf(cpu) /\ Types
  BY ProcRuns DEF KernelStep
<1>2. frame[cpu].at = "leave_region" /\ frame[cpu].call = "post" /\ frame[cpu].left = 1
  BY <1>1 DEF LeaveRegion, At, FrameOf, UserCode, Frame
<1>3. /\ Done /\ UNCHANGED <<cpu, blocked>>
      /\ sem'.queue = sem.queue /\ sem'.size = sem.size
  BY <1>1 DEF LeaveRegion, Types, Fields
<1>4. /\ frame' \in [Person -> Frame]
      /\ frame'[cpu] = UserCode
      /\ \A q \in Person : q # cpu => frame'[q] = frame[q]
      /\ inside' = inside
  BY <1>2, <1>3, DoneReturns DEF AwakeInv
<1>5. masked' = masked \ {cpu}
  BY <1>2, <1>3 DEF Done
<1>6. CodeOf(cpu)' /\ SameMark
  <2>1. CodeOf(cpu)
    BY <1>1 DEF AwakeInv
  <2> QED
    BY <1>2, <1>3, <1>4, <2>1 DEF AwakeInv, CodeOf, UserCode, SameMark
<1>7. \A p \in Person : Holds(p) => p = cpu
  BY <1>1, <1>2 DEF AwakeInv, SemInv, OneHolder, Holds
<1>8. SomebodyMoves'
  <2>1. ASSUME blocked # {}
        PROVE  \E p \in Proc \ blocked : frame'[p].call = "wait"
    <3>1. PICK p \in Proc \ blocked : frame[p].call = "wait"
      BY <1>2, <1>7, <2>1 DEF AwakeInv, SomebodyMoves, Person
    <3>2. p # cpu /\ p \in Person
      BY <1>2, <3>1 DEF Person
    <3> QED
      BY <1>4, <3>1, <3>2
  <2> QED
    BY <1>3, <2>1 DEF SomebodyMoves
<1> QED
  BY <1>1, <1>3, <1>4, <1>5, <1>6, <1>8, OneMoves DEF AwakeInv

LEMMA CallAwake ==
  ASSUME AwakeInv, SemInv', QueueInv', NEW p \in Proc,
         \/ p \notin inside /\ CallWait(p, 1)
         \/ p \in inside /\ CallPost(p, 1)
  PROVE  AwakeInv'
<1>1. /\ p \in Person /\ p = cpu /\ masked' = masked \cup {p}
      /\ UNCHANGED <<sem, cpu, blocked>>
  BY DEF CallWait, CallPost, Call, Person
<1>2. p \notin blocked
  BY <1>1 DEF AwakeInv
<1>3. PICK call \in {"wait", "post"} :
        frame' = [frame EXCEPT ![p] = Starting(call, 1)]
  BY DEF CallWait, CallPost, Call
<1>4. /\ \A q \in Person : q # p => frame'[q] = frame[q]
      /\ frame'[p].call = call
      /\ frame'[p].at \in {"enter_region", "test_val"}
      /\ frame'[p].woken = {} /\ frame[p] = UserCode
  BY <1>1, <1>3 DEF AwakeInv, SemInv, Types, Starting, CallWait, CallPost, Call
<1>5. CodeOf(p)' /\ SameMark
  BY <1>1, <1>2, <1>4 DEF CodeOf, SameMark, UserCode
<1>6. SomebodyMoves'
  BY <1>1, <1>2, <1>4 DEF SomebodyMoves, Holds
<1>7. frame' \in [Person -> Frame] /\ inside' \subseteq Proc
  BY DEF CallWait, CallPost, AwakeInv, SemInv, Types
<1> QED
  BY <1>1, <1>4, <1>5, <1>6, <1>7, OneMoves

LEMMA StepAwakeInv == AwakeInv /\ [MutexNext]_vars => AwakeInv'
<1> SUFFICES ASSUME AwakeInv, [MutexNext]_vars PROVE AwakeInv'
  OBVIOUS
<1>1. SemInv' /\ QueueInv' /\ cpu \in Person /\ Types
  BY StepSemInv, StepQueueInv, KernelStart DEF AwakeInv, DisturbedNext
<1>2. CASE TimerInterrupt
  BY <1>1, <1>2, SwitchAwake DEF TimerInterrupt
<1>3. CASE Retry
  <2>1. cpu \in Proc /\ FrameOf(cpu)
    BY <1>3, ProcRuns DEF KernelStep
  <2>2. frame[cpu].call = "wait" /\ frame[cpu].at = "miss"
    BY <1>3, <2>1 DEF Retry, At, FrameOf, UserCode, Frame
  <2>3. /\ \A q \in Person : q # cpu => frame'[q] = frame[q]
        /\ frame'[cpu].call = "wait" /\ frame'[cpu].at = "enter_region"
        /\ frame'[cpu].woken = frame[cpu].woken
        /\ Switch(blocked) /\ UNCHANGED <<sem, masked, inside>>
    BY <1>1, <1>3, <2>2 DEF Retry, Goto, Types, Frame
  <2> QED
    BY <1>1, <2>1, <2>2, <2>3, SwitchAwake
<1>4. CASE KernelStep /\ ~Retry
  BY <1>1, <1>4, HolderAwake, EnterMissAwake, SemMissAwake, BlockAwake, WakeAwake,
     DequeueAwake, ShrinkAwake, UnblockAwake, TestZeroAwake, LeaveRegionAwake
  DEF KernelStep
<1>5. CASE MutexClient
  BY <1>1, <1>5, CallAwake DEF MutexClient
<1>6. CASE UNCHANGED vars
  BY <1>1, <1>6
  DEF vars, AwakeInv, QueueExact, Queued, Unlinked, CodeOf, SomebodyMoves, Holds
<1> QED
  BY <1>2, <1>3, <1>4, <1>5, <1>6 DEF MutexNext, System

LEMMA InvAwake == AwakeInv => SomebodyActive
<1> SUFFICES ASSUME AwakeInv, blocked # {}
             PROVE  \E p \in Proc \ blocked : p \in inside \/ frame[p] # UserCode
  BY DEF SomebodyActive
<1>1. CASE \E p \in Proc : Holds(p) /\ frame[p].at # "leave_region"
  <2>1. PICK p \in Proc : Holds(p)
    BY <1>1
  <2>2. p \in inside \/ frame[p] # UserCode
    BY <2>1 DEF Holds, UserCode
  <2>3. p \notin blocked
    BY <2>1 DEF AwakeInv, SemInv, CodeOf, FrameOf, Holds, Person
  <2> QED
    BY <2>2, <2>3
<1>2. CASE \E p \in Proc \ blocked : frame[p].call = "wait"
  BY <1>2 DEF UserCode
<1> QED
  BY <1>1, <1>2 DEF AwakeInv, SomebodyMoves

\* For any set of processes that use a semaphore for critical sections: never is
\* everybody blocked or elsewhere while somebody waits, so no wake-up is lost, although
\* a wait that misses the lock queues itself after it has let go of it.
THEOREM SomebodyAwake == MutexSpec => []SomebodyActive
BY InitAwakeInv, StepAwakeInv, InvAwake, PTL DEF MutexSpec
=============================================================================
