---------------------------- MODULE Philosophers ----------------------------
(***************************************************************************)
(* The dining philosophers of SampleCodeModule/philosophers.c: the program  *)
(* that lays the table and adds philosophers at the user's command, dinner  *)
(* after dinner, and the processes that think and eat.                      *)
(*                                                                          *)
(* Each system call is a step, so anybody may run between two of them; the  *)
(* semaphores are numbers of tokens.  Calls of testPhilo, which run under   *)
(* stateLock, and two posts that follow one another are one step: nothing   *)
(* in between can be told from before or after but qtyPhilosophers, which   *)
(* main changes without a lock.  left(i) loads it twice and right(i) once,  *)
(* and each load under stateLock may find another value.  A load that is    *)
(* the only one of its step finds what was there before the step: what main *)
(* adds between the call and the load could as well come before the call.   *)
(*                                                                          *)
(* The user does not remove philosophers: call_kill stops one wherever it   *)
(* is, with the lock or with forks in its hand.                             *)
(***************************************************************************)
EXTENDS Integers

CONSTANTS MinPhilos,    \* MIN_PHILOS
          MaxPhilos,    \* MAX_PHILOS
          Guest,        \* a seat: the philosopher whose meals are followed
          MaxTokens     \* bound: tokens of a fork; testPhilo adds more without end

ASSUME PhilosAssumption == MinPhilos \in Nat \ {0, 1} /\ MaxPhilos \in Nat
                           /\ MinPhilos <= MaxPhilos
ASSUME GuestAssumption == Guest \in 0 .. MinPhilos - 1
ASSUME MaxTokensAssumption == MaxTokens \in Nat \ {0}

Seat == 0 .. MaxPhilos - 1
Nobody == MaxPhilos

VARIABLES qty,      \* qtyPhilosophers
          state,    \* philoStates
          forks,    \* the tokens of each fork
          lock,     \* who has stateLock, or Nobody
          loaded,   \* qty when stateLock was taken, MinPhilos when nobody has it
          wanted,   \* the right fork that each philosopher waits for, or Nobody
          at,       \* what each philosopher does next
          main      \* what run_Philosophers does, and the index of its loop

vars == <<qty, state, forks, lock, loaded, wanted, at, main>>

State == {"NONE", "EATING", "HUNGRY", "THINKING"}

Location == {"absent", "start", "think", "test_self", "take_own", "take_right", "eat",
             "lock", "test_neighbours"}

\* n and m are what the loads of qtyPhilosophers find.
left(i, n, m) == (i + n - 1) % m
right(i, n) == (i + 1) % n

\* What k loads may find that who has stateLock makes one after the other.
Loads(k) == {n \in [1 .. k -> loaded .. qty] : \A j \in 1 .. k - 1 : n[j] <= n[j + 1]}

TakeLock(i) ==
  /\ lock = Nobody
  /\ lock' = i
  /\ loaded' = qty

ReleaseLock ==
  /\ lock' = Nobody
  /\ loaded' = MinPhilos

Goto(i, location) == at' = [at EXCEPT ![i] = location]

\* initializePhilosophers, up to its second loop; nobody is at the table.  The forks get
\* new slots.  stateLock gets the slot that the last dinner closed, and create_sem does
\* not touch its lock: if the philosopher that had it was killed, it stays taken.
LaidTable ==
  /\ state' = [i \in Seat |-> "NONE"]
  /\ forks' = [i \in Seat |-> 1]
  /\ UNCHANGED lock

Init ==
  /\ qty = MinPhilos
  /\ state = [i \in Seat |-> "NONE"]
  /\ forks = [i \in Seat |-> 1]
  /\ lock = Nobody
  /\ loaded = MinPhilos
  /\ wanted = [i \in Seat |-> Nobody]
  /\ at = [i \in Seat |-> "absent"]
  /\ main = [at |-> "start", index |-> 0]

-----------------------------------------------------------------------------
(* run_Philosophers. *)

\* The second loop of initializePhilosophers.
StartPhilosopher ==
  /\ main.at = "start"
  /\ Goto(main.index, "start")
  /\ main' = IF main.index + 1 < MinPhilos
             THEN [main EXCEPT !.index = @ + 1]
             ELSE [at |-> "command", index |-> 0]
  /\ UNCHANGED <<qty, state, forks, lock, loaded, wanted>>

\* COMMAND_ADD.  The new philosopher calls call_wait(SHORT_WAIT) before it looks at the
\* table: main has counted it by then.
AddPhilosopher ==
  /\ main.at = "command"
  /\ qty < MaxPhilos
  /\ Goto(qty, "start")
  /\ qty' = qty + 1
  /\ UNCHANGED <<state, forks, lock, loaded, wanted, main>>

\* stopPhilosopher(i) kills the process, if there is one, whatever it is at.
Stop(i) ==
  /\ Goto(i, "absent")
  /\ wanted' = [wanted EXCEPT ![i] = Nobody]
  /\ loaded' = IF lock = i THEN MinPhilos ELSE loaded
  /\ main' = IF i > 0 THEN [at |-> "stop", index |-> i - 1] ELSE [at |-> "over", index |-> 0]
  /\ UNCHANGED <<qty, state, forks, lock>>

\* Mutant of Quit: as many are stopped as were there at the start.
QuitFew ==
  /\ main.at = "command"
  /\ Stop(MinPhilos - 1)

\* COMMAND_QUIT, and the first of the philosophers that it stops.
Quit ==
  /\ main.at = "command"
  /\ Stop(qty - 1)

StopPhilosopher ==
  /\ main.at = "stop"
  /\ Stop(main.index)

\* phylo is run again: qtyPhilosophers is what it was.
\* Bound: there are slots for more forks, which nobody gives back.
DineAgain ==
  /\ main.at = "over"
  /\ LaidTable
  /\ main' = [at |-> "start", index |-> 0]
  /\ UNCHANGED <<qty, loaded, wanted, at>>

-----------------------------------------------------------------------------
(* philosopher. *)

More(tokens) == IF tokens < MaxTokens THEN tokens + 1 ELSE tokens

\* Mutant of Tested: the right neighbour is not looked at.
TestedLeft(states, i, a, b, c) ==
  IF states[i] = "HUNGRY" /\ states[left(i, a, b)] # "EATING"
  THEN [states EXCEPT ![i] = "EATING"]
  ELSE states

\* The states after testPhilo(i), whose loads of qtyPhilosophers find a, b and c.
Tested(states, i, a, b, c) ==
  IF states[i] = "HUNGRY" /\ "EATING" \notin {states[left(i, a, b)], states[right(i, c)]}
  THEN [states EXCEPT ![i] = "EATING"]
  ELSE states

\* Mutant of TestPhilos: nobody gets a token.
TestPhilosQuietly(states) ==
  /\ state' = states
  /\ UNCHANGED forks

\* The states that calls of testPhilo lead to: who is marked as eating now gets a token for
\* his own fork.
TestPhilos(states) ==
  /\ state' = states
  /\ forks' = [i \in Seat |-> IF states[i] = state[i] THEN forks[i] ELSE More(forks[i])]

SitDown(i) ==
  /\ at[i] = "start"
  /\ state' = [state EXCEPT ![i] = "THINKING"]
  /\ Goto(i, "think")
  /\ UNCHANGED <<qty, forks, lock, loaded, wanted, main>>

GetHungry(i) ==
  /\ at[i] = "think"
  /\ TakeLock(i)
  /\ state' = [state EXCEPT ![i] = "HUNGRY"]
  /\ Goto(i, "test_self")
  /\ UNCHANGED <<qty, forks, wanted, main>>

TestSelf(i) ==
  /\ at[i] = "test_self"
  /\ \E n \in Loads(3) : TestPhilos(Tested(state, i, n[1], n[2], n[3]))
  /\ ReleaseLock
  /\ Goto(i, "take_own")
  /\ UNCHANGED <<qty, wanted, main>>

TakeFork(i, fork, from, to) ==
  /\ at[i] = from
  /\ forks[fork] > 0
  /\ forks' = [forks EXCEPT ![fork] = @ - 1]
  /\ Goto(i, to)
  /\ UNCHANGED <<qty, state, lock, loaded, main>>

TakeOwn(i) ==
  /\ TakeFork(i, i, "take_own", "take_right")
  /\ wanted' = [wanted EXCEPT ![i] = right(i, qty)]

TakeRight(i) ==
  /\ TakeFork(i, wanted[i], "take_right", "eat")
  /\ wanted' = [wanted EXCEPT ![i] = Nobody]

PutForks(i) ==
  /\ at[i] = "eat"
  /\ forks' = [forks EXCEPT ![i] = More(@), ![right(i, qty)] = More(@)]
  /\ Goto(i, "lock")
  /\ UNCHANGED <<qty, state, lock, loaded, wanted, main>>

StopEating(i) ==
  /\ at[i] = "lock"
  /\ TakeLock(i)
  /\ state' = [state EXCEPT ![i] = "THINKING"]
  /\ Goto(i, "test_neighbours")
  /\ UNCHANGED <<qty, forks, wanted, main>>

\* Mutant of TestNeighbours: the right one is not told.
TestNeighboursLeft(i) ==
  /\ at[i] = "test_neighbours"
  /\ \E n \in Loads(5) :
       TestPhilos(Tested(state, left(i, n[1], n[2]), n[3], n[4], n[5]))
  /\ ReleaseLock
  /\ Goto(i, "think")
  /\ UNCHANGED <<qty, wanted, main>>

TestNeighbours(i) ==
  /\ at[i] = "test_neighbours"
  /\ \E n \in Loads(9) :
       LET one == Tested(state, left(i, n[1], n[2]), n[3], n[4], n[5])
       IN TestPhilos(Tested(one, right(i, n[6]), n[7], n[8], n[9]))
  /\ ReleaseLock
  /\ Goto(i, "think")
  /\ UNCHANGED <<qty, wanted, main>>

-----------------------------------------------------------------------------
Main ==
  \/ StartPhilosopher
  \/ AddPhilosopher
  \/ Quit
  \/ StopPhilosopher
  \/ DineAgain

\* sem_wait, on the lock or a fork.
Wait(i) == GetHungry(i) \/ TakeOwn(i) \/ TakeRight(i) \/ StopEating(i)

Continue(i) ==
  \/ SitDown(i)
  \/ TestSelf(i)
  \/ PutForks(i)
  \/ TestNeighbours(i)

Next == Main \/ \E i \in Seat : Wait(i) \/ Continue(i)

\* A ready process runs, and a semaphore serves its queue in order.  Nothing is assumed
\* of the user, nor of the philosophers that were added.
Fairness ==
  /\ WF_vars(StartPhilosopher \/ StopPhilosopher)
  /\ \A i \in 0 .. MinPhilos - 1 : SF_vars(Wait(i) \/ Continue(i))

Spec == Init /\ [][Next]_vars /\ Fairness

-----------------------------------------------------------------------------
(* Properties. *)

\* A philosopher has been added to this dinner.
Grown == \E i \in Seat : i >= MinPhilos /\ at[i] # "absent"

\* A dinner that nobody has been added to.
SameTable == main.at \in {"start", "command"} /\ ~Grown

\* As long as the table does not grow, the screen never shows two neighbours eating, in
\* the first dinner and in those after a dinner that grew, where qtyPhilosophers is larger
\* than the number of philosophers.
MarkedApart ==
  SameTable =>
    \A i \in 0 .. qty - 1 : ~(state[i] = "EATING" /\ state[right(i, qty)] = "EATING")

\* No wake-up is lost while nobody is added: a philosopher left hungry has a neighbour
\* who is marked as eating, and will look at him when it has finished.
NobodyForgotten ==
  main.at = "command" /\ lock = Nobody /\ ~Grown =>
    \A i \in 0 .. qty - 1 :
      state[i] = "HUNGRY" => "EATING" \in {state[left(i, qty, qty)], state[right(i, qty)]}

\* At a table that has not grown, philosophers who all have their own fork in hand are
\* never stuck, and the one at seat Guest does not wait for its forks for ever, although
\* forks are neither reserved nor handed to who waits for them.
GuestEats == []<>(at[Guest] \notin {"take_own", "take_right"} \/ Grown)

\* No philosopher outlives its dinner, although the count of seats does: the next dinner
\* would give its seat to a second process.
NobodyOutlivesDinner == main.at = "over" => \A i \in Seat : at[i] = "absent"
=============================================================================
