---------------------------- MODULE BuddyMemory ----------------------------
(***************************************************************************)
(* The buddy memory manager of Kernel/BuddyMemoryManager.c as a value, and  *)
(* its functions as operators.                                              *)
(*                                                                         *)
(* A tree t gives the state of each node, "NONE" if there is no such node.  *)
(* Nodes go by Node.index: the children of i are 2i+1 and 2i+2.  Addresses  *)
(* are offsets from the start of the root.  The recursions go down one path *)
(* of the tree and apply check_state on the way back.                       *)
(***************************************************************************)
EXTENDS Integers, FiniteSets

CONSTANTS RootSize,     \* the memory given to init_mm
          MinBlock,     \* MIN_BLOCK
          Depth,        \* the deepest level: its nodes are not split
          Word          \* mem_allocated wraps at this number, 2^64 in the code

ASSUME RootSizeAssumption == RootSize \in Nat \ {0}
ASSUME MinBlockAssumption == MinBlock \in Nat
ASSUME DepthAssumption == Depth \in Nat /\ RootSize \div 2 ^ Depth <= MinBlock
ASSUME WordAssumption == Word \in Nat \ {0}

Node == 0 .. 2 ^ (Depth + 1) - 2

Left(i) == 2 * i + 1
Right(i) == 2 * i + 2
Parent(i) == (i - 1) \div 2
IsLeft(i) == i % 2 = 1

NodeState == {"FREE", "ALLOCATED", "PARCIAL", "NONE"}

Tree == [Node -> NodeState]

size[i \in Node] == IF i = 0 THEN RootSize ELSE size[Parent(i)] \div 2

start[i \in Node] ==
  IF i = 0 THEN 0
  ELSE IF IsLeft(i) THEN start[Parent(i)] ELSE start[Parent(i)] + size[i]

Root == [i \in Node |-> IF i = 0 THEN "FREE" ELSE "NONE"]

Exists(t, i) == i \in Node /\ t[i] # "NONE"
IsInner(t, i) == Exists(t, i) /\ Exists(t, Left(i))
IsLeaf(t, i) == Exists(t, i) /\ ~Exists(t, Left(i))

\* j is i or above it.
above[j \in Node] == [i \in Node |-> i = j \/ (i > j /\ above[j][Parent(i)])]

AboveOrAt(i) == {j \in Node : above[j][i]}

\* Mutated: one allocated half is enough.
CheckedHalf(left, right) ==
  IF left = "FREE" /\ right = "FREE" THEN "FREE"
  ELSE IF left = "ALLOCATED" \/ right = "ALLOCATED" THEN "ALLOCATED"
  ELSE "PARCIAL"

Checked(left, right) ==
  IF left = "FREE" /\ right = "FREE" THEN "FREE"
  ELSE IF left = "ALLOCATED" /\ right = "ALLOCATED" THEN "ALLOCATED"
  ELSE "PARCIAL"

\* check_state on the nodes of a path, from below.
CheckStates(t, path) ==
  LET checked[i \in Node] ==
        IF i \in path /\ IsInner(t, i)
        THEN Checked(checked[Left(i)], checked[Right(i)])
        ELSE t[i]
  IN checked

-----------------------------------------------------------------------------
\* The next power of two.
RoundUp(n) == CHOOSE r \in {2 ^ k : k \in 0 .. n} :
                r >= n /\ \A k \in 0 .. n : 2 ^ k >= n => r <= 2 ^ k

\* The leaves malloc_rec can end in: none above them is marked allocated.
Usable(t, bytes) ==
  {i \in Node : /\ IsLeaf(t, i)
                /\ size[i] >= bytes
                /\ \A j \in AboveOrAt(i) : t[j] # "ALLOCATED"}

\* It tries the left child first.
Leftmost(S) == CHOOSE i \in S : \A j \in S : start[i] <= start[j]

CanSplit(i, bytes) == size[i] \div 2 >= bytes /\ size[i] > MinBlock

\* The leaf is split, and its left child, for as long as half is enough.
splitInto[i \in Node] ==
  [bytes \in Nat |->
     IF CanSplit(i, bytes) THEN {i} \cup splitInto[Left(i)][bytes] ELSE {i}]

Deepest(S) == CHOOSE i \in S : \A j \in S : j <= i

Taken(t, n) == Deepest(splitInto[Leftmost(Usable(t, RoundUp(n)))][RoundUp(n)])

\* mallocBuddy.
MallocFails(t, n) == RootSize < n \/ Usable(t, RoundUp(n)) = {}

MallocBuddy(t, n) ==
  LET taken == Taken(t, n)
      split == [i \in Node |->
                  IF i = taken THEN "ALLOCATED"
                  ELSE IF t[i] # "NONE" THEN t[i]
                  ELSE IF i > 0 /\ above[Leftmost(Usable(t, RoundUp(n)))][i]
                                /\ Parent(i) \in AboveOrAt(taken) \ {taken} THEN "FREE"
                  ELSE "NONE"]
  IN CheckStates(split, AboveOrAt(taken))

-----------------------------------------------------------------------------
\* The nodes freeBuddy goes through: the last is the leaf that holds the address.
PathTo(t, address) ==
  {i \in Node : /\ Exists(t, i)
                /\ start[i] <= address
                /\ address < start[i] + size[i]}

Frees(t, address) ==
  LET leaf == Deepest(PathTo(t, address))
  IN t[leaf] = "ALLOCATED" /\ start[leaf] = address

\* On its way back it drops the children of the nodes that are free again.
FreeBuddy(t, address) ==
  LET path == PathTo(t, address)
      freed == IF Frees(t, address) THEN [t EXCEPT ![Deepest(path)] = "FREE"] ELSE t
      checked == CheckStates(freed, path)
  IN [i \in Node |->
        IF \E j \in AboveOrAt(i) \ {i} : j \in path /\ checked[j] = "FREE"
        THEN "NONE"
        ELSE checked[i]]

\* mem_allocated counts what was rounded up to, and takes off the size of the node.
CountMalloc(allocated, n) == (allocated + RoundUp(n)) % Word

CountFree(allocated, t, address) ==
  IF Frees(t, address)
  THEN (allocated - size[Deepest(PathTo(t, address))]) % Word
  ELSE allocated
=============================================================================
