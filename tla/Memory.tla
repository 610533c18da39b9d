------------------------------- MODULE Memory -------------------------------
(***************************************************************************)
(* The memory manager as the kernel and its programs see it                 *)
(* (Kernel/memMan.c), built with either manager, for calls that come one    *)
(* after the other.  Nothing in memMan.c sees to it that they do: most run  *)
(* with interrupts masked, but sem_nq_proc and sem_dq_proc also allocate    *)
(* and free after enter_region has let interrupts in, and two calls that    *)
(* overlap may take the same address.  That is not in this module.          *)
(***************************************************************************)
EXTENDS BlockMemory, BuddyMemory

CONSTANTS Request,      \* the sizes programs ask for
          MaxLive       \* bound: the pieces of memory in use

ASSUME RequestAssumption == Request \subseteq Nat

VARIABLES useBuddy,     \* USE_BUDDY
          manager,      \* the block manager
          tree,         \* the buddy manager: its nodes
          memAllocated, \* mem_allocated
          live          \* the pieces handed out and not freed: address and size

vars == <<useBuddy, manager, tree, memAllocated, live>>

Init ==
  /\ useBuddy \in BOOLEAN
  /\ manager = NoBlocks
  /\ tree = Root
  /\ memAllocated = 0
  /\ live = {}

\* Both calls from beginning to end, with nobody else's in between.
AllocMemory(n) ==
  /\ Cardinality(live) < MaxLive
  /\ IF useBuddy
     THEN /\ ~MallocFails(tree, n)
          /\ tree' = MallocBuddy(tree, n)
          /\ memAllocated' = CountMalloc(memAllocated, n)
          /\ live' = live \cup {[start |-> start[Taken(tree, n)], size |-> n]}
          /\ UNCHANGED manager
     ELSE /\ ~Refuses(manager, n)
          /\ manager' = AllocBlock(manager, n)
          /\ live' = live \cup {[start |-> BlockAddress(manager, n), size |-> n]}
          /\ UNCHANGED <<tree, memAllocated>>
  /\ UNCHANGED useBuddy

\* allocMemory returns NULL.
RefuseMemory(n) ==
  /\ IF useBuddy THEN MallocFails(tree, n) ELSE Refuses(manager, n)
  /\ UNCHANGED vars

FreeMemory(piece) ==
  /\ IF useBuddy
     THEN /\ tree' = FreeBuddy(tree, piece.start)
          /\ memAllocated' = CountFree(memAllocated, tree, piece.start)
          /\ UNCHANGED manager
     ELSE /\ manager' = FreeBlock(manager, piece.start)
          /\ UNCHANGED <<tree, memAllocated>>
  /\ live' = live \ {piece}
  /\ UNCHANGED useBuddy

Next ==
  \/ \E n \in Request : AllocMemory(n) \/ RefuseMemory(n)
  \/ \E piece \in live : FreeMemory(piece)

Spec == Init /\ [][Next]_vars

-----------------------------------------------------------------------------
(* Properties. *)

\* The blocks and nodes keep their types; no size or address becomes negative.
TypeOK ==
  /\ useBuddy \in BOOLEAN
  /\ manager \in Manager
  /\ tree \in Tree
  /\ memAllocated \in 0 .. Word - 1
  /\ live \subseteq [start : Nat, size : Request]

Pieces == INSTANCE Allocator WITH Size <- Request

\* Whatever has been allocated and freed before, by calls that do not overlap, no two
\* programs are given the same byte.
AllocatesApart == Pieces!Spec

\* Neither is a program given a byte of the struct of a block in the list.
HeadersUntouched ==
  \A piece \in live, i \in DOMAIN manager.blocks :
    \/ useBuddy
    \/ piece.start + piece.size <= manager.blocks[i].start - Header
    \/ manager.blocks[i].start <= piece.start

Used == IF useBuddy
        THEN {start[i] : i \in {j \in Node : IsLeaf(tree, j) /\ tree[j] = "ALLOCATED"}}
        ELSE {b.start : b \in {c \in ToSet(manager.blocks) : ~c.isFree}}

\* The managers keep exactly the memory that is in use: free finds the piece it is
\* given, also when its neighbours have been merged or used again.
NothingLost == Used = {piece.start : piece \in live}

\* Once everything is freed the memory is one free piece again: both managers merge
\* whatever can be merged at each free.
AllMerged ==
  live = {} =>
    /\ tree = Root
    /\ \A i \in DOMAIN manager.blocks : i = 1 /\ manager.blocks[i].isFree

\* check_state hides no free leaf: when mallocBuddy refuses a request, none has the size
\* that the request is rounded up to.  There may still be one that the request itself
\* would fit, even the root: mallocBuddy compares with the power of two above it.
NoLeafHidden ==
  \A n \in Request :
    n <= RootSize /\ MallocFails(tree, n) =>
      \A i \in Node : IsLeaf(tree, i) /\ tree[i] = "FREE" => size[i] < RoundUp(n)
=============================================================================
