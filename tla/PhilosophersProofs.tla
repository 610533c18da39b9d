------------------------- MODULE PhilosophersProofs -------------------------
(***************************************************************************)
(* Theorems about the dining philosophers, for any number of seats: nobody  *)
(* outlives the dinner, and at a table that has not grown neighbours are    *)
(* never both marked as eating and nobody is left hungry between two who do *)
(* not eat.  At such a table every load of qtyPhilosophers finds the same   *)
(* number, which is the invariant LoadsExact.                               *)
(***************************************************************************)
EXTENDS Philosophers, TLAPS

-----------------------------------------------------------------------------
(* The inductive invariant. *)

Types ==
  /\ qty \in MinPhilos .. MaxPhilos
  /\ state \in [Seat -> State]
  /\ at \in [Seat -> Location]
  /\ lock \in Seat \cup {Nobody}
  /\ loaded \in MinPhilos .. qty
  /\ main \in [at : {"start", "command", "stop", "over"}, index : Seat]

\* Who is at the table, as far as main has got.
Present ==
  \A i \in Seat :
    /\ main.at = "start" /\ i >= main.index => at[i] = "absent"
    /\ main.at = "command" /\ i >= qty => at[i] = "absent"
    /\ main.at = "stop" /\ i > main.index => at[i] = "absent"
    /\ main.at = "over" => at[i] = "absent"
    /\ i >= qty => at[i] = "absent" /\ state[i] = "NONE"

MainBounds == /\ main.at = "start" => main.index < MinPhilos
              /\ main.at = "stop" => main.index < qty

\* What a philosopher is marked as, while a dinner goes on.
Dining == main.at \in {"start", "command"}

Marks ==
  Dining =>
    \A i \in Seat :
      /\ at[i] \in {"absent", "start"} => state[i] = "NONE"
      /\ at[i] \in {"think", "test_neighbours"} => state[i] = "THINKING"

Locked == \A i \in Seat : at[i] \in {"test_self", "test_neighbours"} => lock = i

\* Who has stateLock took it when qtyPhilosophers was what it is.
LoadsExact ==
  SameTable => \A i \in Seat : at[i] \in {"test_self", "test_neighbours"} => loaded = qty

\* The neighbours and testPhilo, when all loads find what there is.
leftOf(i) == left(i, qty, qty)
rightOf(i) == right(i, qty)
Looked(states, i) == Tested(states, i, qty, qty, qty)

Apart(states) == \A i \in 0 .. qty - 1 : ~(states[i] = "EATING" /\ states[rightOf(i)] = "EATING")

\* Somebody will look at a philosopher who is hungry: a neighbour that eats, itself, or
\* a neighbour that has just finished.
Noticed(i) ==
  \/ "EATING" \in {state[leftOf(i)], state[rightOf(i)]}
  \/ at[i] = "test_self"
  \/ \E j \in 0 .. qty - 1 : at[j] = "test_neighbours" /\ i \in {leftOf(j), rightOf(j)}

HungryNoticed ==
  SameTable => \A i \in 0 .. qty - 1 : state[i] = "HUNGRY" => Noticed(i)

TableInv == Types /\ Present /\ MainBounds
NoticeInv == Marks /\ Locked /\ LoadsExact /\ MarkedApart /\ HungryNoticed

-----------------------------------------------------------------------------
(* Neighbours. *)

LEMMA Bounds ==
  /\ MinPhilos \in Nat /\ MaxPhilos \in Nat
  /\ 2 <= MinPhilos /\ MinPhilos <= MaxPhilos
  BY PhilosAssumption

LEMMA Remainders ==
  ASSUME NEW n \in Nat, 2 <= n, NEW i \in 0 .. n - 1
  PROVE  /\ (i + 1) % n = IF i = n - 1 THEN 0 ELSE i + 1
         /\ (i + n - 1) % n = IF i = 0 THEN n - 1 ELSE i - 1
BY SMT

\* i is the right neighbour of its left neighbour, and the left one of its right one.
LEMMA Neighbours ==
  ASSUME Types, NEW i \in 0 .. qty - 1
  PROVE  /\ qty \in Nat /\ 2 <= qty /\ 0 .. qty - 1 \subseteq Seat
         /\ leftOf(i) \in 0 .. qty - 1 /\ leftOf(i) # i
         /\ rightOf(i) \in 0 .. qty - 1 /\ rightOf(i) # i
         /\ leftOf(rightOf(i)) = i
         /\ rightOf(leftOf(i)) = i
         /\ rightOf(i) = IF i = qty - 1 THEN 0 ELSE i + 1
<1>1. qty \in Nat /\ 2 <= qty /\ 0 .. qty - 1 \subseteq Seat
  BY Bounds DEF Types, Seat
<1>2. \A j \in 0 .. qty - 1 :
        /\ rightOf(j) = IF j = qty - 1 THEN 0 ELSE j + 1
        /\ leftOf(j) = IF j = 0 THEN qty - 1 ELSE j - 1
  BY <1>1, Remainders DEF leftOf, rightOf, left, right
<1>3. leftOf(i) \in 0 .. qty - 1 /\ rightOf(i) \in 0 .. qty - 1
  BY <1>1, <1>2
<1>4. leftOf(rightOf(i)) = i /\ rightOf(leftOf(i)) = i
  BY <1>1, <1>2, <1>3
<1>. QED  BY <1>1, <1>2, <1>3, <1>4

\* testPhilo marks at most the seat it looks at, and only if it is hungry, whatever its
\* loads of qtyPhilosophers find.
LEMMA TestedMarks ==
  ASSUME Types, NEW states \in [Seat -> State], NEW i \in 0 .. qty - 1, NEW a, NEW b, NEW c
  PROVE  /\ Tested(states, i, a, b, c) \in [Seat -> State]
         /\ \A j \in Seat : j # i => Tested(states, i, a, b, c)[j] = states[j]
         /\ \/ Tested(states, i, a, b, c)[i] = states[i]
            \/ states[i] = "HUNGRY" /\ Tested(states, i, a, b, c)[i] = "EATING"
<1>. DEFINE new == [states EXCEPT ![i] = "EATING"]
<1>1. i \in Seat
  BY Neighbours
<1>2. /\ new \in [Seat -> State] /\ new[i] = "EATING"
      /\ \A j \in Seat : j # i => new[j] = states[j]
  BY <1>1 DEF State
<1>3. \/ states[i] = "HUNGRY" /\ Tested(states, i, a, b, c) = new
      \/ Tested(states, i, a, b, c) = states
  BY DEF Tested
<1>. HIDE DEF new
<1>. QED  BY <1>2, <1>3

\* testPhilo marks at most the seat it looks at, never next to one who eats, and leaves
\* it hungry only if a neighbour eats.
LEMMA TestedIs ==
  ASSUME Types, NEW states \in [Seat -> State], Apart(states), NEW i \in 0 .. qty - 1
  PROVE  /\ Looked(states, i) \in [Seat -> State]
         /\ Apart(Looked(states, i))
         /\ \A j \in Seat : j # i => Looked(states, i)[j] = states[j]
         /\ \/ Looked(states, i)[i] = states[i]
            \/ states[i] = "HUNGRY" /\ Looked(states, i)[i] = "EATING"
         /\ Looked(states, i)[i] = "HUNGRY" => "EATING" \in {states[leftOf(i)], states[rightOf(i)]}
<1>1. i \in Seat /\ leftOf(i) \in Seat /\ rightOf(i) \in Seat
  BY Neighbours
<1>2. CASE states[i] = "HUNGRY" /\ "EATING" \notin {states[leftOf(i)], states[rightOf(i)]}
  <2>. DEFINE new == [states EXCEPT ![i] = "EATING"]
  <2>1. Looked(states, i) = new
    BY <1>2 DEF Looked, Tested, leftOf, rightOf
  <2>2. new \in [Seat -> State] /\ new[i] = "EATING" /\ \A j \in Seat \ {i} : new[j] = states[j]
    BY <1>1 DEF State
  <2>3. ASSUME NEW k \in 0 .. qty - 1, new[k] = "EATING", new[rightOf(k)] = "EATING"
        PROVE  FALSE
    <3>1. k \in Seat /\ rightOf(k) \in Seat /\ leftOf(rightOf(k)) = k /\ rightOf(k) # k
      BY Neighbours
    <3>2. ~(states[k] = "EATING" /\ states[rightOf(k)] = "EATING")
      BY DEF Apart
    <3>. QED  BY <1>2, <2>2, <2>3, <3>1, <3>2
  <2>4. Apart(new)
    BY <2>3 DEF Apart
  <2>. QED  BY <1>2, <2>1, <2>2, <2>4
<1>3. CASE ~(states[i] = "HUNGRY" /\ "EATING" \notin {states[leftOf(i)], states[rightOf(i)]})
  BY <1>3 DEF Looked, Tested, leftOf, rightOf
<1>. QED  BY <1>2, <1>3

-----------------------------------------------------------------------------
(* Seats and marks. *)

LEMMA AtTheTable ==
  ASSUME TableInv, NEW i \in Seat, at[i] # "absent"
  PROVE  i \in 0 .. qty - 1
BY Bounds DEF TableInv, Types, Present, Seat

\* Wherever the loads of left(i) and right(i) find the table, the seat is at it.
LEMMA SeatsLoaded ==
  ASSUME Types, NEW i \in 0 .. qty - 1,
         NEW n \in MinPhilos .. qty, NEW m \in MinPhilos .. qty
  PROVE  left(i, n, m) \in 0 .. qty - 1 /\ right(i, m) \in 0 .. qty - 1
<1>1. qty \in Nat /\ i \in Nat /\ n \in Nat /\ m \in Nat /\ 2 <= n /\ 2 <= m /\ m <= qty
  BY Bounds DEF Types
<1>2. \A k \in Nat : k % m \in 0 .. m - 1
  BY <1>1
<1>. QED  BY <1>1, <1>2 DEF left, right

\* A step of a philosopher at the table.
LEMMA AtTableStep ==
  ASSUME TableInv, NEW i \in Seat, at[i] # "absent",
         NEW location \in Location, location # "absent", Goto(i, location),
         lock' \in {lock, i, Nobody}, loaded' \in {loaded, qty, MinPhilos},
         UNCHANGED <<qty, main>>,
         state' \in [Seat -> State],
         \A j \in Seat : j >= qty => state'[j] = state[j]
  PROVE  TableInv'
<1>1. qty \in MinPhilos .. qty /\ MinPhilos \in MinPhilos .. qty
  BY Bounds DEF TableInv, Types
<1>2. Types'
  BY <1>1 DEF TableInv, Types, Goto
<1>3. i < qty /\ at'[i] = location /\ \A j \in Seat \ {i} : at'[j] = at[j]
  BY AtTheTable DEF TableInv, Types, Goto
<1>4. Present' /\ MainBounds'
  BY <1>3 DEF TableInv, Present, MainBounds
<1>. QED  BY <1>2, <1>4 DEF TableInv

\* The loads under stateLock.
LEMMA LoadsBound ==
  ASSUME Types, NEW k \in Nat, NEW n \in Loads(k)
  PROVE  \A j \in 1 .. k : n[j] \in MinPhilos .. qty
<1>1. n \in [1 .. k -> loaded .. qty] /\ loaded \in MinPhilos .. qty
  BY DEF Loads, Types
<1>. QED  BY <1>1, Bounds DEF Types

\* What a call of testPhilo after the lock does to the marks, at any table.
LEMMA TestSelfMarks ==
  ASSUME TableInv, NEW i \in Seat, TestSelf(i)
  PROVE  /\ state' \in [Seat -> State]
         /\ \A j \in Seat : j # i => state'[j] = state[j]
         /\ \A j \in Seat : state[j] # "HUNGRY" => state'[j] = state[j]
<1>1. PICK n \in Loads(3) : state' = Tested(state, i, n[1], n[2], n[3])
  BY DEF TestSelf, TestPhilos
<1>2. i \in 0 .. qty - 1
  BY AtTheTable DEF TestSelf
<1>3. state \in [Seat -> State]
  BY DEF TableInv, Types
<1>4. PICK a, b, c : state' = Tested(state, i, a, b, c)
  BY <1>1
<1>. QED  BY <1>2, <1>3, <1>4, TestedMarks DEF TableInv

LEMMA TestNeighboursMarks ==
  ASSUME TableInv, NEW i \in Seat, TestNeighbours(i)
  PROVE  /\ state' \in [Seat -> State]
         /\ \A j \in Seat : j >= qty => state'[j] = state[j]
         /\ \A j \in Seat : state[j] # "HUNGRY" => state'[j] = state[j]
<1>. DEFINE l(n) == left(i, n[1], n[2])
            r(n) == right(i, n[6])
            one(n) == Tested(state, l(n), n[3], n[4], n[5])
<1>1. PICK n \in Loads(9) : state' = Tested(one(n), r(n), n[7], n[8], n[9])
  BY DEF TestNeighbours, TestPhilos
<1>2. i \in 0 .. qty - 1 /\ qty \in Nat /\ Types
  BY AtTheTable, Bounds DEF TestNeighbours, TableInv, Types
<1>3. n[1] \in MinPhilos .. qty /\ n[2] \in MinPhilos .. qty /\ n[6] \in MinPhilos .. qty
  BY <1>2, LoadsBound
<1>4. l(n) \in 0 .. qty - 1 /\ r(n) \in 0 .. qty - 1
  BY <1>2, <1>3, SeatsLoaded
<1>5. state \in [Seat -> State]
  BY <1>2 DEF Types
<1>. HIDE DEF l, r
<1>6. /\ one(n) \in [Seat -> State]
      /\ \A j \in Seat : j # l(n) => one(n)[j] = state[j]
      /\ one(n)[l(n)] = state[l(n)] \/ state[l(n)] = "HUNGRY"
  BY <1>2, <1>4, <1>5, TestedMarks
<1>. HIDE DEF one
<1>7. /\ state' \in [Seat -> State]
      /\ \A j \in Seat : j # r(n) => state'[j] = one(n)[j]
      /\ state'[r(n)] = one(n)[r(n)] \/ one(n)[r(n)] = "HUNGRY"
  BY <1>1, <1>2, <1>4, <1>6, TestedMarks
<1>8. \A j \in Seat : j >= qty => j # l(n) /\ j # r(n)
  BY <1>2, <1>4
<1>9. \A j \in Seat : state[j] # "HUNGRY" => one(n)[j] = state[j]
  BY <1>6
<1>10. \A j \in Seat : state[j] # "HUNGRY" => state'[j] = state[j]
  BY <1>7, <1>9
<1>. QED  BY <1>6, <1>7, <1>8, <1>10

LEMMA PhilosopherKeepsTable ==
  ASSUME TableInv, NEW i \in Seat, Wait(i) \/ Continue(i)
  PROVE  TableInv'
<1>. USE DEF TableInv, Types, Location
<1>1. at[i] # "absent"
  BY DEF Wait, Continue, GetHungry, TakeOwn, TakeRight, TakeFork, StopEating,
         SitDown, TestSelf, PutForks, TestNeighbours
<1>2. i \in 0 .. qty - 1
  BY <1>1, AtTheTable
<1>3. CASE UNCHANGED <<state, lock, loaded>>
  BY <1>1, <1>2, <1>3, AtTableStep DEF Wait, Continue, GetHungry, TakeOwn, TakeRight, TakeFork,
     StopEating, SitDown, TestSelf, PutForks, TestNeighbours
<1>4. ASSUME NEW mark \in State, state' = [state EXCEPT ![i] = mark]
      PROVE  /\ state' \in [Seat -> State]
             /\ \A j \in Seat : j >= qty => state'[j] = state[j]
  BY <1>2, <1>4 DEF Seat
<1>5. CASE SitDown(i)
  BY <1>1, <1>4, <1>5, AtTableStep DEF SitDown, State
<1>6. CASE GetHungry(i)
  BY <1>1, <1>4, <1>6, AtTableStep DEF GetHungry, TakeLock, State
<1>7. CASE StopEating(i)
  BY <1>1, <1>4, <1>7, AtTableStep DEF StopEating, TakeLock, State
<1>8. CASE TestSelf(i)
  BY <1>1, <1>2, <1>8, TestSelfMarks, AtTableStep DEF TestSelf, ReleaseLock
<1>9. CASE TestNeighbours(i)
  BY <1>1, <1>9, TestNeighboursMarks, AtTableStep DEF TestNeighbours, ReleaseLock
<1>. QED  BY <1>3, <1>5, <1>6, <1>7, <1>8, <1>9
     DEF Wait, Continue, TakeOwn, TakeRight, TakeFork, PutForks

LEMMA MainKeepsTable ==
  ASSUME TableInv, Main
  PROVE  TableInv'
<1>. USE DEF TableInv, Types, Location
<1>1. main \in [at : {"start", "command", "stop", "over"}, index : Seat]
  OBVIOUS
<1>2. PICK k \in Seat : k = main.index
  BY <1>1
<1>3. CASE StartPhilosopher
  <2>1. /\ main.at = "start"
        /\ at' = [at EXCEPT ![k] = "start"]
        /\ UNCHANGED <<qty, state, forks, lock, loaded>>
        /\ k < MinPhilos
    BY <1>2, <1>3 DEF StartPhilosopher, Goto, MainBounds
  <2>2. \/ k + 1 < MinPhilos /\ main'.at = "start" /\ main'.index = k + 1
        \/ k + 1 = MinPhilos /\ main'.at = "command" /\ main'.index = 0
    <3>1. k + 1 < MinPhilos \/ k + 1 = MinPhilos
      BY <2>1, Bounds DEF Seat
    <3>2. main' = IF k + 1 < MinPhilos THEN [main EXCEPT !.index = k + 1]
                                       ELSE [at |-> "command", index |-> 0]
      BY <1>2, <1>3 DEF StartPhilosopher
    <3>. QED  BY <1>1, <2>1, <3>1, <3>2, Bounds
  <2>3. main' \in [at : {"start", "command", "stop", "over"}, index : Seat]
    <3>1. k + 1 < MinPhilos => k + 1 \in Seat
      BY Bounds DEF Seat
    <3>2. 0 \in Seat
      BY Bounds DEF Seat
    <3>. QED  BY <1>1, <1>2, <1>3, <3>1, <3>2 DEF StartPhilosopher
  <2>4. Types'
    BY <2>1, <2>3
  <2>5. Present'
    BY <1>2, <2>1, <2>2, Bounds DEF Present, Seat
  <2>6. MainBounds'
    BY <2>1, <2>2, Bounds DEF MainBounds
  <2>. QED  BY <2>4, <2>5, <2>6
<1>4. CASE AddPhilosopher
  <2>1. /\ main.at = "command"
        /\ qty < MaxPhilos
        /\ at' = [at EXCEPT ![qty] = "start"]
        /\ qty' = qty + 1
        /\ UNCHANGED <<state, forks, lock, loaded, main>>
    BY <1>4 DEF AddPhilosopher, Goto
  <2>2. /\ qty \in Seat /\ qty + 1 \in MinPhilos .. MaxPhilos /\ qty \in Nat /\ 2 <= qty
        /\ loaded \in MinPhilos .. qty + 1
    BY <2>1, Bounds DEF Seat
  <2>3. Types'
    BY <2>1, <2>2
  <2>4. Present'
    BY <2>1, <2>2 DEF Present, Seat
  <2>5. MainBounds'
    BY <2>1 DEF MainBounds
  <2>. QED  BY <2>3, <2>4, <2>5
<1>5. ASSUME NEW i \in Seat, i < qty, Stop(i),
             \A j \in Seat : j > i => at[j] = "absent"
      PROVE  TableInv'
  <2>1. /\ at' = [at EXCEPT ![i] = "absent"]
        /\ UNCHANGED <<qty, state, forks, lock>>
        /\ main' = IF i > 0 THEN [at |-> "stop", index |-> i - 1] ELSE [at |-> "over", index |-> 0]
    BY <1>5 DEF Stop, Goto
  <2>2. i \in Nat /\ (i > 0 => i - 1 \in Seat) /\ 0 \in Seat
    BY Bounds DEF Seat
  <2>3. main' \in [at : {"start", "command", "stop", "over"}, index : Seat]
    BY <2>1, <2>2
  <2>4. \/ i > 0 /\ main'.at = "stop" /\ main'.index = i - 1
        \/ i = 0 /\ main'.at = "over"
    BY <2>1, <2>2
  <2>5. loaded' \in MinPhilos .. qty
    BY <1>5, Bounds DEF Stop
  <2>6. Types'
    BY <2>1, <2>3, <2>5
  <2>7. Present'
    BY <1>5, <2>1, <2>2, <2>4 DEF Present, Seat
  <2>8. MainBounds'
    BY <1>5, <2>1, <2>2, <2>4 DEF MainBounds
  <2>. QED  BY <2>6, <2>7, <2>8
<1>6. CASE Quit
  <2>1. qty - 1 \in Seat /\ qty - 1 < qty /\ Stop(qty - 1)
    BY <1>6, Bounds DEF Seat, Quit
  <2>2. \A j \in Seat : j > qty - 1 => at[j] = "absent"
    BY <1>6, Bounds DEF Present, Seat
  <2>. QED  BY <1>5, <2>1, <2>2
<1>8. CASE StopPhilosopher
  <2>1. k < qty /\ Stop(k) /\ \A j \in Seat : j > k => at[j] = "absent"
    BY <1>2, <1>8 DEF StopPhilosopher, MainBounds, Present
  <2>. QED  BY <1>5, <2>1
<1>7. CASE DineAgain
  <2>1. /\ main.at = "over"
        /\ state' = [i \in Seat |-> "NONE"]
        /\ main' = [at |-> "start", index |-> 0]
        /\ UNCHANGED <<qty, at, lock, loaded>>
    BY <1>7 DEF DineAgain, LaidTable
  <2>2. 0 \in Seat /\ 0 < MinPhilos
    BY Bounds DEF Seat
  <2>3. Types'
    BY <2>1, <2>2 DEF State
  <2>4. Present' /\ MainBounds'
    BY <2>1, <2>2 DEF Present, MainBounds
  <2>. QED  BY <2>3, <2>4
<1>. QED  BY <1>3, <1>4, <1>6, <1>7, <1>8 DEF Main

LEMMA TableInvariant == Spec => []TableInv
<1>1. Init => TableInv
  <2>. SUFFICES ASSUME Init
               PROVE  TableInv
    OBVIOUS
  <2>1. 0 \in Seat /\ MinPhilos \in Nat /\ 0 < MinPhilos
    BY Bounds DEF Seat
  <2>2. Types
    BY <2>1, Bounds DEF Init, Types, State, Location
  <2>. QED  BY <2>1, <2>2 DEF Init, TableInv, Present, MainBounds
<1>2. TableInv /\ [Next]_vars => TableInv'
  <2>. SUFFICES ASSUME TableInv, [Next]_vars
               PROVE  TableInv'
    OBVIOUS
  <2>1. CASE UNCHANGED vars
    BY <2>1 DEF vars, TableInv, Types, Present, MainBounds
  <2>. QED  BY <2>1, MainKeepsTable, PhilosopherKeepsTable DEF Next
<1>. QED  BY <1>1, <1>2, PTL DEF Spec

\* Whoever is killed or not, and however often seats were added: when run_Philosophers is
\* over, no philosopher is left.
THEOREM NobodyLeft == Spec => []NobodyOutlivesDinner
<1>1. TableInv => NobodyOutlivesDinner
  BY DEF TableInv, Present, NobodyOutlivesDinner
<1>. QED  BY <1>1, TableInvariant, PTL

-----------------------------------------------------------------------------
(* Who is hungry is noticed. *)

LEMMA NoticedNext ==
  ASSUME qty' = qty, NEW h \in Seat
  PROVE  Noticed(h)' <=>
           \/ "EATING" \in {state'[leftOf(h)], state'[rightOf(h)]}
           \/ at'[h] = "test_self"
           \/ \E j \in 0 .. qty - 1 : at'[j] = "test_neighbours" /\ h \in {leftOf(j), rightOf(j)}
BY DEF Noticed, leftOf, rightOf

\* What a philosopher's step does to everybody's place.
LEMMA OnesPlace ==
  ASSUME TableInv, NEW i \in Seat, at[i] # "absent",
         NEW location \in Location, location # "absent", Goto(i, location)
  PROVE  /\ at'[i] = location
         /\ \A j \in Seat : j # i => at'[j] = at[j]
         /\ Grown' <=> Grown
BY DEF TableInv, Types, Goto, Grown

\* testPhilo(i) keeps the marks of those who have no part in it, and notices whoever was
\* noticed by their neighbours.
LEMMA TestedNotices ==
  ASSUME Types, NEW states \in [Seat -> State], Apart(states), NEW i \in 0 .. qty - 1
  PROVE  /\ \A j \in Seat : states[j] = "EATING" => Looked(states, i)[j] = "EATING"
         /\ \A j \in Seat : Looked(states, i)[j] # "EATING" => Looked(states, i)[j] = states[j]
         /\ \A j \in Seat : states[j] # "HUNGRY" => Looked(states, i)[j] = states[j]
         /\ Looked(states, i)[i] = "HUNGRY" =>
              "EATING" \in {Looked(states, i)[leftOf(i)], Looked(states, i)[rightOf(i)]}
<1>. DEFINE new == Looked(states, i)
<1>1. /\ \A j \in Seat : j # i => new[j] = states[j]
      /\ new[i] = states[i] \/ (states[i] = "HUNGRY" /\ new[i] = "EATING")
      /\ new[i] = "HUNGRY" => "EATING" \in {states[leftOf(i)], states[rightOf(i)]}
  BY TestedIs
<1>2. leftOf(i) \in Seat \ {i} /\ rightOf(i) \in Seat \ {i} /\ i \in Seat
  BY Neighbours
<1>. HIDE DEF new
<1>3. /\ \A j \in Seat : states[j] = "EATING" => new[j] = "EATING"
      /\ \A j \in Seat : new[j] # "EATING" => new[j] = states[j]
      /\ \A j \in Seat : states[j] # "HUNGRY" => new[j] = states[j]
      /\ new[i] = "HUNGRY" => "EATING" \in {new[leftOf(i)], new[rightOf(i)]}
  BY <1>1, <1>2
<1>. QED  BY <1>3 DEF new

LEMMA ApartNow ==
  ASSUME NoticeInv, SameTable
  PROVE  Apart(state)
BY DEF NoticeInv, MarkedApart, Apart, rightOf

LEMMA MarkKeepsApart ==
  ASSUME Types, Apart(state), NEW i \in 0 .. qty - 1, NEW mark, mark # "EATING",
         state' = [state EXCEPT ![i] = mark]
  PROVE  Apart(state')
<1>1. state \in [Seat -> State] /\ i \in Seat
  BY Neighbours DEF Types
<1>2. state'[i] = mark /\ \A j \in Seat : j # i => state'[j] = state[j]
  BY <1>1
<1>3. \A j \in 0 .. qty - 1 : j \in Seat /\ rightOf(j) \in Seat
  BY Neighbours
<1>. QED  BY <1>2, <1>3 DEF Apart

\* At a table that has not grown, all loads under stateLock find what there is.
LEMMA LoadsSame ==
  ASSUME TableInv, NoticeInv, SameTable, NEW i \in Seat,
         at[i] \in {"test_self", "test_neighbours"}, NEW k \in Nat, NEW n \in Loads(k)
  PROVE  \A j \in 1 .. k : n[j] = qty
<1>1. loaded = qty /\ qty \in Nat
  BY Bounds DEF NoticeInv, LoadsExact, TableInv, Types
<1>2. n \in [1 .. k -> loaded .. qty]
  BY DEF Loads
<1>. QED  BY <1>1, <1>2

LEMMA TestSelfLooks ==
  ASSUME TableInv, NoticeInv, SameTable, NEW i \in Seat, TestSelf(i)
  PROVE  state' = Looked(state, i)
<1>1. PICK n \in Loads(3) : state' = Tested(state, i, n[1], n[2], n[3])
  BY DEF TestSelf, TestPhilos
<1>2. at[i] = "test_self"
  BY DEF TestSelf
<1>3. n[1] = qty /\ n[2] = qty /\ n[3] = qty
  BY <1>2, LoadsSame
<1>. QED  BY <1>1, <1>3 DEF Looked

LEMMA TestNeighboursLooks ==
  ASSUME TableInv, NoticeInv, SameTable, NEW i \in Seat, TestNeighbours(i)
  PROVE  state' = Looked(Looked(state, leftOf(i)), rightOf(i))
<1>1. PICK n \in Loads(9) :
        state' = Tested(Tested(state, left(i, n[1], n[2]), n[3], n[4], n[5]),
                        right(i, n[6]), n[7], n[8], n[9])
  BY DEF TestNeighbours, TestPhilos
<1>2. at[i] = "test_neighbours"
  BY DEF TestNeighbours
<1>3. \A j \in 1 .. 9 : n[j] = qty
  BY <1>2, LoadsSame
<1>4. /\ n[1] = qty /\ n[2] = qty /\ n[3] = qty /\ n[4] = qty /\ n[5] = qty
      /\ n[6] = qty /\ n[7] = qty /\ n[8] = qty /\ n[9] = qty
  BY <1>3
<1>. QED  BY <1>1, <1>4 DEF Looked, leftOf, rightOf

\* A philosopher's step under which everybody who is hungry still has what it was noticed
\* by, neighbours stay apart and who has stateLock knows how many sit at the table.
LEMMA KeptNotice ==
  ASSUME TableInv, NoticeInv, UNCHANGED <<qty, main>>, Grown' <=> Grown,
         Marks', Locked',
         \A j \in Seat : at'[j] \in {"test_self", "test_neighbours"} =>
           loaded' = qty \/ (at[j] = at'[j] /\ loaded' = loaded),
         SameTable => Apart(state'),
         \A h \in 0 .. qty - 1 : SameTable /\ state'[h] = "HUNGRY" => Noticed(h)'
  PROVE  NoticeInv'
<1>1. SameTable' <=> SameTable
  BY DEF SameTable
<1>2. HungryNoticed'
  BY <1>1 DEF HungryNoticed
<1>3. MarkedApart'
  BY <1>1 DEF MarkedApart, Apart, rightOf
<1>4. LoadsExact'
  BY <1>1 DEF NoticeInv, LoadsExact
<1>. QED  BY <1>2, <1>3, <1>4 DEF NoticeInv

LEMMA GettingHungryKeepsNotice ==
  ASSUME TableInv, NoticeInv, NEW i \in Seat, GetHungry(i)
  PROVE  NoticeInv'
<1>. USE DEF TableInv, Types
<1>1. /\ at[i] = "think" /\ lock = Nobody /\ lock' = i /\ loaded' = qty
      /\ state' = [state EXCEPT ![i] = "HUNGRY"]
      /\ Goto(i, "test_self")
      /\ UNCHANGED <<qty, main>>
  BY DEF GetHungry, TakeLock
<1>2. /\ at'[i] = "test_self"
      /\ \A j \in Seat : j # i => at'[j] = at[j] /\ state'[j] = state[j]
      /\ state'[i] = "HUNGRY"
      /\ Grown' <=> Grown
  BY <1>1, OnesPlace DEF Location
<1>3. Marks'
  BY <1>1, <1>2 DEF NoticeInv, Marks, Dining
<1>4. \A j \in Seat : at[j] \notin {"test_self", "test_neighbours"}
  BY <1>1, Bounds DEF NoticeInv, Locked, Seat, Nobody
<1>5. Locked'
  BY <1>1, <1>2, <1>4 DEF Locked
<1>6. ASSUME NEW h \in 0 .. qty - 1, SameTable, state'[h] = "HUNGRY"
      PROVE  Noticed(h)'
  <2>1. h \in Seat /\ leftOf(h) \in Seat /\ rightOf(h) \in Seat /\ 0 .. qty - 1 \subseteq Seat
    BY Neighbours
  <2>2. CASE h = i
    BY <1>1, <1>2, <2>1, <2>2, NoticedNext
  <2>3. CASE h # i
    <3>1. Noticed(h)
      BY <1>2, <1>6, <2>1, <2>3 DEF NoticeInv, HungryNoticed
    <3>2. "EATING" \in {state[leftOf(h)], state[rightOf(h)]}
      BY <1>4, <2>1, <3>1 DEF Noticed
    <3>3. state[i] # "EATING"
      BY <1>1, <1>6 DEF NoticeInv, Marks, SameTable, Dining
    <3>4. "EATING" \in {state'[leftOf(h)], state'[rightOf(h)]}
      BY <1>2, <2>1, <3>2, <3>3
    <3>. QED  BY <1>1, <2>1, <3>4, NoticedNext
  <2>. QED  BY <2>2, <2>3
<1>7. SameTable => Apart(state')
  BY <1>1, AtTheTable, ApartNow, MarkKeepsApart
<1>. QED  BY <1>1, <1>2, <1>3, <1>5, <1>6, <1>7, KeptNotice

LEMMA StoppingKeepsNotice ==
  ASSUME TableInv, NoticeInv, NEW i \in Seat, StopEating(i)
  PROVE  NoticeInv'
<1>. USE DEF TableInv, Types
<1>1. /\ at[i] = "lock" /\ lock = Nobody /\ lock' = i /\ loaded' = qty
      /\ state' = [state EXCEPT ![i] = "THINKING"]
      /\ Goto(i, "test_neighbours")
      /\ UNCHANGED <<qty, main>>
  BY DEF StopEating, TakeLock
<1>2. /\ at'[i] = "test_neighbours"
      /\ \A j \in Seat : j # i => at'[j] = at[j] /\ state'[j] = state[j]
      /\ state'[i] = "THINKING"
      /\ Grown' <=> Grown
  BY <1>1, OnesPlace DEF Location
<1>3. Marks'
  BY <1>1, <1>2 DEF NoticeInv, Marks, Dining
<1>4. \A j \in Seat : at[j] \notin {"test_self", "test_neighbours"}
  BY <1>1, Bounds DEF NoticeInv, Locked, Seat, Nobody
<1>5. Locked'
  BY <1>1, <1>2, <1>4 DEF Locked
<1>6. ASSUME NEW h \in 0 .. qty - 1, SameTable, state'[h] = "HUNGRY"
      PROVE  Noticed(h)'
  <2>1. /\ h \in Seat /\ leftOf(h) \in Seat /\ rightOf(h) \in Seat /\ 0 .. qty - 1 \subseteq Seat
        /\ rightOf(leftOf(h)) = h /\ leftOf(rightOf(h)) = h
    BY Neighbours
  <2>2. h # i /\ state[h] = "HUNGRY" /\ i \in 0 .. qty - 1
    BY <1>1, <1>2, <1>6, <2>1, AtTheTable
  <2>3. "EATING" \in {state[leftOf(h)], state[rightOf(h)]}
    BY <1>4, <1>6, <2>1, <2>2 DEF NoticeInv, HungryNoticed, Noticed
  <2>4. CASE i \in {leftOf(h), rightOf(h)}
    <3>1. h \in {leftOf(i), rightOf(i)}
      BY <2>1, <2>4
    <3>. QED  BY <1>1, <1>2, <2>1, <2>2, <3>1, NoticedNext
  <2>5. CASE i \notin {leftOf(h), rightOf(h)}
    <3>1. "EATING" \in {state'[leftOf(h)], state'[rightOf(h)]}
      BY <1>2, <2>1, <2>3, <2>5
    <3>. QED  BY <1>1, <2>1, <3>1, NoticedNext
  <2>. QED  BY <2>4, <2>5
<1>7. SameTable => Apart(state')
  BY <1>1, AtTheTable, ApartNow, MarkKeepsApart
<1>. QED  BY <1>1, <1>2, <1>3, <1>5, <1>6, <1>7, KeptNotice

LEMMA TestingSelfKeepsNotice ==
  ASSUME TableInv, NoticeInv, NEW i \in Seat, TestSelf(i)
  PROVE  NoticeInv'
<1>. USE DEF TableInv, Types
<1>1. /\ at[i] = "test_self" /\ lock' = Nobody
      /\ Goto(i, "take_own")
      /\ UNCHANGED <<qty, main>>
  BY DEF TestSelf, ReleaseLock
<1>2. /\ at'[i] = "take_own"
      /\ \A j \in Seat : j # i => at'[j] = at[j]
      /\ Grown' <=> Grown
  BY <1>1, OnesPlace DEF Location
<1>3. i \in 0 .. qty - 1
  BY <1>1, AtTheTable
<1>4. /\ \A j \in Seat : j # i => state'[j] = state[j]
      /\ \A j \in Seat : state[j] # "HUNGRY" => state'[j] = state[j]
  BY TestSelfMarks
<1>10. ASSUME SameTable
       PROVE  /\ Apart(state')
              /\ \A j \in Seat : state[j] = "EATING" => state'[j] = "EATING"
              /\ state'[i] = "HUNGRY" => "EATING" \in {state'[leftOf(i)], state'[rightOf(i)]}
  BY <1>3, <1>10, TestSelfLooks, ApartNow, TestedIs, TestedNotices
<1>5. Marks'
  BY <1>1, <1>2, <1>4 DEF NoticeInv, Marks, Dining
<1>6. \A j \in Seat \ {i} : at[j] \notin {"test_self", "test_neighbours"}
  BY <1>1 DEF NoticeInv, Locked
<1>7. Locked'
  BY <1>1, <1>2, <1>6 DEF Locked
<1>8. ASSUME NEW h \in 0 .. qty - 1, SameTable, state'[h] = "HUNGRY"
      PROVE  Noticed(h)'
  <2>1. h \in Seat /\ leftOf(h) \in Seat /\ rightOf(h) \in Seat /\ 0 .. qty - 1 \subseteq Seat
    BY Neighbours
  <2>2. CASE h = i
    BY <1>1, <1>8, <1>10, <2>1, <2>2, NoticedNext
  <2>3. CASE h # i
    <3>1. Noticed(h)
      BY <1>4, <1>8, <2>1, <2>3 DEF NoticeInv, HungryNoticed
    <3>2. "EATING" \in {state[leftOf(h)], state[rightOf(h)]}
      BY <1>1, <1>6, <2>1, <2>3, <3>1 DEF Noticed
    <3>3. "EATING" \in {state'[leftOf(h)], state'[rightOf(h)]}
      BY <1>4, <1>8, <1>10, <2>1, <3>2
    <3>. QED  BY <1>1, <2>1, <3>3, NoticedNext
  <2>. QED  BY <2>2, <2>3
<1>. QED  BY <1>1, <1>2, <1>5, <1>6, <1>7, <1>8, <1>10, KeptNotice

LEMMA TestingNeighboursKeepsNotice ==
  ASSUME TableInv, NoticeInv, NEW i \in Seat, TestNeighbours(i)
  PROVE  NoticeInv'
<1>. USE DEF TableInv, Types
<1>1. /\ at[i] = "test_neighbours" /\ lock' = Nobody
      /\ Goto(i, "think")
      /\ UNCHANGED <<qty, main>>
  BY DEF TestNeighbours, ReleaseLock
<1>2. /\ at'[i] = "think"
      /\ \A j \in Seat : j # i => at'[j] = at[j]
      /\ Grown' <=> Grown
  BY <1>1, OnesPlace DEF Location
<1>3. i \in 0 .. qty - 1
  BY <1>1, AtTheTable
<1>4. \A j \in Seat : state[j] # "HUNGRY" => state'[j] = state[j]
  BY TestNeighboursMarks
<1>5. Marks'
  BY <1>1, <1>2, <1>4 DEF NoticeInv, Marks, Dining
<1>6. \A j \in Seat \ {i} : at[j] \notin {"test_self", "test_neighbours"}
  BY <1>1 DEF NoticeInv, Locked
<1>7. Locked'
  BY <1>1, <1>2, <1>6 DEF Locked
<1>8. ASSUME SameTable
      PROVE  /\ Apart(state')
             /\ \A h \in 0 .. qty - 1 :
                  state'[h] = "HUNGRY" => "EATING" \in {state'[leftOf(h)], state'[rightOf(h)]}
  <2>1. PICK l \in 0 .. qty - 1, r \in 0 .. qty - 1 : l = leftOf(i) /\ r = rightOf(i)
    BY <1>3, Neighbours
  <2>2. PICK one \in [Seat -> State] : one = Looked(state, l) /\ Apart(one)
    BY <1>8, ApartNow, TestedIs
  <2>3. state' = Looked(one, r)
    BY <1>8, <2>1, <2>2, TestNeighboursLooks
  <2>4. /\ \A j \in Seat : state[j] = "EATING" => one[j] = "EATING"
        /\ \A j \in Seat : one[j] # "EATING" => one[j] = state[j]
        /\ one[l] = "HUNGRY" => "EATING" \in {one[leftOf(l)], one[rightOf(l)]}
    BY <1>8, <2>2, ApartNow, TestedNotices
  <2>5. /\ \A j \in Seat : one[j] = "EATING" => state'[j] = "EATING"
        /\ \A j \in Seat : state'[j] # "EATING" => state'[j] = one[j]
        /\ state'[r] = "HUNGRY" => "EATING" \in {state'[leftOf(r)], state'[rightOf(r)]}
    BY <2>2, <2>3, TestedNotices
  <2>6. Apart(state')
    BY <2>2, <2>3, TestedIs
  <2>7. ASSUME NEW h \in 0 .. qty - 1, state'[h] = "HUNGRY"
        PROVE  "EATING" \in {state'[leftOf(h)], state'[rightOf(h)]}
    <3>1. h \in Seat /\ leftOf(h) \in Seat /\ rightOf(h) \in Seat /\ 0 .. qty - 1 \subseteq Seat
      BY Neighbours
    <3>2. one[h] = "HUNGRY" /\ state[h] = "HUNGRY"
      BY <2>4, <2>5, <2>7, <3>1
    <3>3. CASE h = r
      BY <2>5, <2>7, <3>3
    <3>4. CASE h = l
      BY <2>4, <2>5, <3>1, <3>2, <3>4
    <3>5. CASE h # l /\ h # r
      <4>1. Noticed(h)
        BY <1>8, <3>2 DEF NoticeInv, HungryNoticed
      <4>2. at[h] # "test_self"
        BY <1>1, <1>6, <3>1
      <4>3. ASSUME NEW j \in 0 .. qty - 1, at[j] = "test_neighbours", h \in {leftOf(j), rightOf(j)}
            PROVE  FALSE
        BY <1>6, <2>1, <3>1, <3>5, <4>3
      <4>4. "EATING" \in {state[leftOf(h)], state[rightOf(h)]}
        BY <4>1, <4>2, <4>3 DEF Noticed
      <4>. QED  BY <2>4, <2>5, <3>1, <4>4
    <3>. QED  BY <3>3, <3>4, <3>5
  <2>. QED  BY <2>6, <2>7
<1>9. ASSUME NEW h \in 0 .. qty - 1, SameTable, state'[h] = "HUNGRY"
      PROVE  Noticed(h)'
  <2>1. h \in Seat
    BY Neighbours
  <2>. QED  BY <1>1, <1>8, <1>9, <2>1, NoticedNext
<1>. QED  BY <1>1, <1>2, <1>5, <1>6, <1>7, <1>8, <1>9, KeptNotice

\* The forks say nothing about who is noticed.
LEMMA ForksKeepNotice ==
  ASSUME TableInv, NoticeInv, NEW i \in Seat, TakeOwn(i) \/ TakeRight(i) \/ PutForks(i)
  PROVE  NoticeInv'
<1>. USE DEF TableInv, Types
<1>1. PICK location \in {"take_right", "eat", "lock"} :
        /\ Goto(i, location)
        /\ at[i] \in {"take_own", "take_right", "eat"}
        /\ UNCHANGED <<qty, state, lock, loaded, main>>
  BY DEF TakeOwn, TakeRight, TakeFork, PutForks
<1>2. /\ at'[i] = location
      /\ \A j \in Seat : j # i => at'[j] = at[j]
      /\ Grown' <=> Grown
  BY <1>1, OnesPlace DEF Location
<1>3. Marks' /\ Locked'
  BY <1>1, <1>2 DEF NoticeInv, Marks, Dining, Locked
<1>4. ASSUME NEW h \in 0 .. qty - 1, SameTable, state'[h] = "HUNGRY"
      PROVE  Noticed(h)'
  <2>1. h \in Seat /\ 0 .. qty - 1 \subseteq Seat
    BY Neighbours
  <2>2. Noticed(h)
    BY <1>1, <1>4 DEF NoticeInv, HungryNoticed
  <2>. QED  BY <1>1, <1>2, <2>1, <2>2, NoticedNext DEF Noticed
<1>. QED  BY <1>1, <1>2, <1>3, <1>4, ApartNow, KeptNotice

LEMMA SittingDownKeepsNotice ==
  ASSUME TableInv, NoticeInv, NEW i \in Seat, SitDown(i)
  PROVE  NoticeInv'
<1>. USE DEF TableInv, Types
<1>1. /\ at[i] = "start"
      /\ state' = [state EXCEPT ![i] = "THINKING"]
      /\ Goto(i, "think")
      /\ UNCHANGED <<qty, lock, loaded, main>>
  BY DEF SitDown
<1>2. /\ at'[i] = "think"
      /\ \A j \in Seat : j # i => at'[j] = at[j] /\ state'[j] = state[j]
      /\ state'[i] = "THINKING"
      /\ Grown' <=> Grown
  BY <1>1, OnesPlace DEF Location
<1>3. Marks' /\ Locked'
  BY <1>1, <1>2 DEF NoticeInv, Marks, Dining, Locked
<1>4. ASSUME NEW h \in 0 .. qty - 1, SameTable, state'[h] = "HUNGRY"
      PROVE  Noticed(h)'
  <2>1. h \in Seat /\ leftOf(h) \in Seat /\ rightOf(h) \in Seat /\ 0 .. qty - 1 \subseteq Seat
    BY Neighbours
  <2>2. h # i /\ state[i] = "NONE"
    BY <1>1, <1>2, <1>4 DEF NoticeInv, Marks, SameTable, Dining
  <2>3. Noticed(h)
    BY <1>2, <1>4, <2>1, <2>2 DEF NoticeInv, HungryNoticed
  <2>. QED  BY <1>1, <1>2, <2>1, <2>2, <2>3, NoticedNext DEF Noticed
<1>5. SameTable => Apart(state')
  BY <1>1, AtTheTable, ApartNow, MarkKeepsApart
<1>. QED  BY <1>1, <1>2, <1>3, <1>4, <1>5, KeptNotice

LEMMA StopKeepsNotice ==
  ASSUME TableInv, NoticeInv, NEW i \in Seat, Stop(i)
  PROVE  NoticeInv'
<1>1. /\ at' = [at EXCEPT ![i] = "absent"]
      /\ UNCHANGED lock
      /\ main'.at \in {"stop", "over"}
  BY DEF Stop, Goto
<1>2. \A j \in Seat : at'[j] \in {at[j], "absent"}
  BY <1>1 DEF TableInv, Types
<1>3. ~Dining' /\ ~SameTable' /\ Locked'
  BY <1>1, <1>2 DEF NoticeInv, Dining, SameTable, Locked
<1>. QED  BY <1>3 DEF NoticeInv, Marks, LoadsExact, MarkedApart, HungryNoticed

LEMMA MainKeepsNotice ==
  ASSUME TableInv, NoticeInv, Main
  PROVE  NoticeInv'
<1>. USE DEF TableInv, Types, NoticeInv
<1>1. PICK k \in Seat : k = main.index
  OBVIOUS
<1>2. CASE StartPhilosopher
  <2>1. /\ main.at = "start"
        /\ at' = [at EXCEPT ![k] = "start"]
        /\ UNCHANGED <<qty, state, lock, loaded>>
        /\ k < MinPhilos
        /\ at[k] = "absent"
    BY <1>1, <1>2 DEF StartPhilosopher, Goto, MainBounds, Present, Seat
  <2>2. /\ at'[k] = "start"
        /\ \A j \in Seat : j # k => at'[j] = at[j]
        /\ Grown' <=> Grown
    BY <2>1, Bounds DEF Grown, Seat
  <2>3. Marks' /\ Locked'
    BY <2>1, <2>2 DEF Marks, Dining, Locked
  <2>4. SameTable' => SameTable
    BY <2>1, <2>2 DEF SameTable
  <2>5. ASSUME NEW h \in 0 .. qty - 1, SameTable', state'[h] = "HUNGRY"
        PROVE  Noticed(h)'
    <3>1. h \in Seat /\ 0 .. qty - 1 \subseteq Seat
      BY Neighbours
    <3>2. Noticed(h)
      BY <2>1, <2>4, <2>5 DEF HungryNoticed
    <3>. QED  BY <2>1, <2>2, <3>1, <3>2, NoticedNext DEF Noticed
  <2>6. HungryNoticed'
    BY <2>1, <2>5 DEF HungryNoticed
  <2>7. MarkedApart'
    BY <2>1, <2>4 DEF MarkedApart
  <2>8. LoadsExact'
    BY <2>1, <2>2, <2>4 DEF LoadsExact
  <2>. QED  BY <2>3, <2>6, <2>7, <2>8
<1>3. CASE AddPhilosopher
  <2>1. /\ at' = [at EXCEPT ![qty] = "start"]
        /\ UNCHANGED <<state, lock, main>>
        /\ main.at = "command"
        /\ qty < MaxPhilos
    BY <1>3 DEF AddPhilosopher, Goto
  <2>2. qty \in Seat /\ qty >= MinPhilos
    BY <2>1, Bounds DEF Seat
  <2>3. /\ at'[qty] = "start"
        /\ \A j \in Seat : j # qty => at'[j] = at[j]
        /\ state[qty] = "NONE"
    BY <2>1, <2>2 DEF Present
  <2>4. Marks' /\ Locked'
    BY <2>1, <2>3 DEF Marks, Dining, Locked
  <2>5. ~SameTable'
    BY <2>2, <2>3 DEF Grown, SameTable
  <2>. QED  BY <2>4, <2>5 DEF LoadsExact, MarkedApart, HungryNoticed
<1>4. CASE Quit
  <2>1. qty - 1 \in Seat
    BY Bounds DEF Seat
  <2>. QED  BY <1>4, <2>1, StopKeepsNotice DEF Quit
<1>5. CASE StopPhilosopher
  BY <1>1, <1>5, StopKeepsNotice DEF StopPhilosopher
<1>6. CASE DineAgain
  <2>1. /\ main.at = "over"
        /\ state' = [i \in Seat |-> "NONE"]
        /\ UNCHANGED <<qty, at, lock>>
    BY <1>6 DEF DineAgain, LaidTable
  <2>2. \A j \in Seat : at[j] = "absent" /\ state'[j] = "NONE"
    BY <2>1 DEF Present
  <2>3. \A j \in 0 .. qty - 1 : state'[j] = "NONE"
    BY <2>2, Neighbours
  <2>. QED  BY <2>1, <2>2, <2>3 DEF Marks, Locked, LoadsExact, MarkedApart, HungryNoticed
<1>. QED  BY <1>2, <1>3, <1>4, <1>5, <1>6 DEF Main

LEMMA NoticeInvariant == Spec => [](TableInv /\ NoticeInv)
<1>1. Init /\ TableInv => NoticeInv
  <2>. SUFFICES ASSUME Init, TableInv
               PROVE  NoticeInv
    OBVIOUS
  <2>1. \A j \in 0 .. qty - 1 : state[j] = "NONE"
    BY Neighbours DEF Init, TableInv
  <2>. QED  BY <2>1 DEF Init, NoticeInv, Marks, Locked, LoadsExact, MarkedApart, HungryNoticed
<1>2. TableInv /\ NoticeInv /\ [Next]_vars => NoticeInv'
  <2>. SUFFICES ASSUME TableInv, NoticeInv, [Next]_vars
               PROVE  NoticeInv'
    OBVIOUS
  <2>1. CASE UNCHANGED vars
    BY <2>1 DEF vars, NoticeInv, Marks, Locked, LoadsExact, MarkedApart, HungryNoticed, Dining,
       SameTable, Grown, Noticed, leftOf, rightOf
  <2>2. ASSUME NEW i \in Seat, Wait(i) \/ Continue(i)
        PROVE  NoticeInv'
    BY <2>2, GettingHungryKeepsNotice, StoppingKeepsNotice, TestingSelfKeepsNotice,
       TestingNeighboursKeepsNotice, ForksKeepNotice, SittingDownKeepsNotice
       DEF Wait, Continue
  <2>. QED  BY <2>1, <2>2, MainKeepsNotice DEF Next
<1>. QED  BY <1>1, <1>2, TableInvariant, PTL DEF Spec

\* At a table of any size that has not grown, no two neighbours are marked as eating, in
\* the first dinner and in those that follow one that grew.
THEOREM NeighboursApart == Spec => []MarkedApart
<1>1. NoticeInv => MarkedApart
  BY DEF NoticeInv
<1>. QED  BY <1>1, NoticeInvariant, PTL

\* No wake-up is lost at a table that has not grown, whatever its size: who is hungry while
\* nobody has the lock has a neighbour that is marked as eating, and will be looked at when
\* it has finished.
THEOREM NobodyIsForgotten == Spec => []NobodyForgotten
<1>1. TableInv /\ NoticeInv => NobodyForgotten
  <2>. SUFFICES ASSUME TableInv, NoticeInv, main.at = "command", lock = Nobody, ~Grown,
                       NEW i \in 0 .. qty - 1, state[i] = "HUNGRY"
               PROVE  "EATING" \in {state[leftOf(i)], state[rightOf(i)]}
    BY DEF NobodyForgotten, leftOf, rightOf
  <2>1. i \in Seat /\ 0 .. qty - 1 \subseteq Seat
    BY Neighbours DEF TableInv
  <2>2. \A j \in Seat : at[j] \notin {"test_self", "test_neighbours"}
    BY Bounds DEF NoticeInv, Locked, Seat, Nobody
  <2>3. Noticed(i)
    BY DEF NoticeInv, HungryNoticed, SameTable
  <2>. QED  BY <2>1, <2>2, <2>3 DEF Noticed
<1>. QED  BY <1>1, NoticeInvariant, PTL

=============================================================================
