---------------------------- MODULE SleepTimers ----------------------------
(***************************************************************************)
(* The list of sleeping processes of Kernel/time.c, newest entry first, and *)
(* the two functions that change it.  The tick counter itself is left out:  *)
(* it only grows, and nothing that is modelled here reads it.               *)
(***************************************************************************)
EXTENDS ProcessTable

\* struct procSleep
SleepEntry == [pid : Pid, ticksLeft : Int]

EntriesOf(sleeped, pid) == {i \in DOMAIN sleeped : sleeped[i].pid = pid}

\* Ticks a process still has to sleep if it asks for some more.
TicksAfterAdd(sleeped, pid, ticks) ==
  IF EntriesOf(sleeped, pid) = {}
  THEN ticks
  ELSE sleeped[Min(EntriesOf(sleeped, pid))].ticksLeft + ticks

\* Mutant of AddProcSleep: an entry the process already has is not looked for.
AddProcSleepTwice(sleeped, pid, ticks) ==
  Cons([pid |-> pid, ticksLeft |-> ticks], sleeped)

AddProcSleep(sleeped, pid, ticks) ==
  IF EntriesOf(sleeped, pid) = {}
  THEN Cons([pid |-> pid, ticksLeft |-> ticks], sleeped)
  ELSE [sleeped EXCEPT ![Min(EntriesOf(sleeped, pid))].ticksLeft = @ + ticks]

-----------------------------------------------------------------------------
(* checkTimers counts entries down from the head until one reaches zero:    *)
(* that one is woken and unlinked, and the entries behind it keep their     *)
(* count.  At most one process is woken per tick.                           *)

Due(sleeped) == {i \in DOMAIN sleeped : sleeped[i].ticksLeft = 1}

CountDown(entry) == [entry EXCEPT !.ticksLeft = @ - 1]

\* Mutant of CheckTimers: the entries passed on the way to the due one are lost.
CheckTimersCut(sleeped) ==
  IF Due(sleeped) = {}
  THEN [i \in DOMAIN sleeped |-> CountDown(sleeped[i])]
  ELSE SubSeq(sleeped, Min(Due(sleeped)) + 1, Len(sleeped))

CheckTimers(sleeped) ==
  IF Due(sleeped) = {}
  THEN [i \in DOMAIN sleeped |-> CountDown(sleeped[i])]
  ELSE [i \in 1 .. Len(sleeped) - 1 |->
          IF i < Min(Due(sleeped)) THEN CountDown(sleeped[i])
                                   ELSE sleeped[i + 1]]

\* Mutant of WakeDue: the newest sleeper is woken instead of the due one.
WakeNewest(t, sleeped) ==
  IF Due(sleeped) = {} THEN t ELSE Unblock(t, Head(sleeped).pid)

\* The call of unblock that checkTimers makes on the table t.
WakeDue(t, sleeped) ==
  IF Due(sleeped) = {}
  THEN t
  ELSE Unblock(t, sleeped[Min(Due(sleeped))].pid)
=============================================================================
