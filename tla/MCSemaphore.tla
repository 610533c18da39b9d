---------------------------- MODULE MCSemaphore ----------------------------
(***************************************************************************)
(* Programs that share a semaphore, for TLC.                                *)
(***************************************************************************)
EXTENDS Semaphore

CONSTANT reader

\* Every process that is ready gets the cpu again and again, goes on when it has it,
\* and leaves its critical section.
MutexFairness ==
  \A p \in Proc :
    /\ SF_vars(TimerInterrupt /\ cpu' = p)
    /\ SF_vars(cpu = p /\ KernelStep)
    /\ SF_vars(p \in inside /\ CallPost(p, 1))
MutexFairSpec == MutexSpec /\ MutexFairness

\* The read semaphore of a pipe.
PipeNext == System \/ PipeClient({reader}, Proc \ {reader})
PipeSpec == Init(0) /\ [][PipeNext]_vars

\* Its slot is closed and created again; nobody begins a call on it in between.
ReuseNext ==
  \/ System
  \/ sem.open /\ MutexClient
  \/ \E p \in Proc : Close(p) \/ Create(p, 1)
ReuseSpec == Init(1) /\ [][ReuseNext]_vars
=============================================================================
