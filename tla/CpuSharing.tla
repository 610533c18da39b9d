----------------------------- MODULE CpuSharing -----------------------------
(***************************************************************************)
(* What multitasking promises to programs, without queues, priorities or    *)
(* lists: the processes alive are the one on the cpu, a set that is ready   *)
(* and a set that is blocked; a dead process stays dead; only the death of  *)
(* a process, an unblock or the timer takes another out of the blocked set; *)
(* and the cpu is never idle while a process is ready, save for one that    *)
(* the timer wakes too late to be chosen.                                   *)
(***************************************************************************)
EXTENDS Naturals, FiniteSets

CONSTANTS Process, Idle     \* Idle is none of the processes

VARIABLES cpu, ready, blocked, gone

vars == <<cpu, ready, blocked, gone>>

OnCpu == {cpu} \ {Idle}
Unborn == Process \ (OnCpu \cup ready \cup blocked \cup gone)

UpTo(n, S) == {T \in SUBSET S : Cardinality(T) <= n}

Init ==
  /\ cpu \in Process
  /\ ready = {}
  /\ blocked = {}
  /\ gone = {}

-----------------------------------------------------------------------------
\* The cpu is free and r are ready; the processes in late become ready once
\* the choice is made.
Release(r, late) ==
  \/ /\ r = {}
     /\ cpu' = Idle
     /\ ready' = late
  \/ \E p \in r : /\ cpu' = p
                  /\ ready' = (r \ {p}) \cup late

\* An interrupt: the process on the cpu keeps it or changes places with another.
Tick ==
  \E late \in UpTo(1, blocked) :
    /\ blocked' = blocked \ late
    /\ \/ cpu = Idle /\ Release(ready, late)
       \/ cpu # Idle /\ cpu' = cpu /\ ready' = ready \cup late
       \/ cpu # Idle /\ \E p \in ready :
            cpu' = p /\ ready' = (ready \ {p}) \cup {cpu} \cup late
    /\ UNCHANGED gone

Spawn ==
  \E born \in UpTo(2, Unborn) :
    /\ cpu # Idle
    /\ ready' = ready \cup born
    /\ UNCHANGED <<cpu, blocked, gone>>

\* The process on the cpu blocks, perhaps after creating others.  The timer may
\* wake it at once.
SpawnAndBlock ==
  \E born \in UpTo(2, Unborn), late \in UpTo(1, blocked \cup {cpu}) :
    /\ cpu # Idle
    /\ blocked' = (blocked \cup {cpu}) \ late
    /\ Release(ready \cup born, late)
    /\ UNCHANGED gone

Block ==
  \E p \in ready :
    /\ ready' = ready \ {p}
    /\ blocked' = blocked \cup {p}
    /\ UNCHANGED <<cpu, gone>>

Wake ==
  \E p \in blocked :
    /\ blocked' = blocked \ {p}
    /\ ready' = ready \cup {p}
    /\ UNCHANGED <<cpu, gone>>

\* The process on the cpu dies and its parent is woken.
Die ==
  \E parent \in UpTo(1, blocked) : \E late \in UpTo(1, blocked \ parent) :
    /\ cpu # Idle
    /\ gone' = gone \cup {cpu}
    /\ blocked' = blocked \ (parent \cup late)
    /\ Release(ready \cup parent, late)

\* The process on the cpu kills another one, whose parent is woken.
Kill ==
  \E p \in ready \cup blocked : \E parent \in UpTo(1, blocked \ {p}) :
    /\ gone' = gone \cup {p}
    /\ ready' = (ready \ {p}) \cup parent
    /\ blocked' = blocked \ (parent \cup {p})
    /\ UNCHANGED cpu

Next == Tick \/ Spawn \/ SpawnAndBlock \/ Block \/ Wake \/ Die \/ Kill

Spec == Init /\ [][Next]_vars
=============================================================================
