---------------------------- MODULE BlockMemory ----------------------------
(***************************************************************************)
(* The block memory manager of Kernel/BlockMemoryManager.c as a value, and  *)
(* its functions as operators.                                              *)
(*                                                                         *)
(* A manager m is the struct with the list of blocks that hangs from it:    *)
(*   m.spaceUsed                                                           *)
(*   m.blocks       the list from firstBlock on; each block has the address *)
(*                  of its bytes, their number, and isFree                  *)
(* Addresses are offsets from the managed memory.  The struct of a block    *)
(* lies in front of its bytes.                                              *)
(***************************************************************************)
EXTENDS Integers, Sequences, SequencesExt

CONSTANTS Header,       \* sizeof(BlockCDT)
          MemorySize,   \* USER_MEMORY_SIZE
          BlockMaxSize  \* BLOCK_MAX_SIZE

ASSUME HeaderAssumption == Header \in Nat \ {0}
ASSUME MemorySizeAssumption == MemorySize \in Nat
ASSUME BlockMaxSizeAssumption == BlockMaxSize \in Nat

Block == [start : Nat, size : Nat, isFree : BOOLEAN]

Manager == [spaceUsed : Nat, blocks : Seq(Block)]

NoBlocks == [spaceUsed |-> 0, blocks |-> <<>>]

End(b) == b.start + b.size

-----------------------------------------------------------------------------
\* allocMemory and allocMemoryImpl refuse such a request.
Refuses(m, n) == n > BlockMaxSize \/ m.spaceUsed + n > MemorySize

\* Mutated: a free block is taken whatever its size.
FittingAny(m, n) == {i \in DOMAIN m.blocks : m.blocks[i].isFree}

\* The free blocks createBlock finds large enough; it takes the first of them, whole.
Fitting(m, n) == {i \in DOMAIN m.blocks : m.blocks[i].isFree /\ m.blocks[i].size >= n}

First(S) == CHOOSE i \in S : \A j \in S : i <= j

NewBlock(m, n) == [start |-> m.spaceUsed + 1 + Header, size |-> n, isFree |-> FALSE]

\* Mutated: the struct of the block is not counted.
AllocBlockOnly(m, n) ==
  [spaceUsed |-> m.spaceUsed + n,
   blocks |-> IF Fitting(m, n) # {}
              THEN [m.blocks EXCEPT ![First(Fitting(m, n))].isFree = FALSE]
              ELSE Append(m.blocks, NewBlock(m, n))]

\* spaceUsed grows even if a block is used again.
AllocBlock(m, n) ==
  [spaceUsed |-> m.spaceUsed + n + Header,
   blocks |-> IF Fitting(m, n) # {}
              THEN [m.blocks EXCEPT ![First(Fitting(m, n))].isFree = FALSE]
              ELSE Append(m.blocks, NewBlock(m, n))]

BlockAddress(m, n) ==
  IF Fitting(m, n) # {}
  THEN m.blocks[First(Fitting(m, n))].start
  ELSE NewBlock(m, n).start

-----------------------------------------------------------------------------
\* Mutated: the sizes are taken off.
AbsorbOff(b, next) == [b EXCEPT !.size = @ - next.size - Header]

\* A block takes up the one behind it in the list, and its struct.
Absorb(b, next) == [b EXCEPT !.size = @ + next.size + Header]

\* Mutated: only the first two free neighbours are merged.
CoalescePairs(blocks) ==
  LET pairs == {i \in DOMAIN blocks : i + 1 \in DOMAIN blocks
                                      /\ blocks[i].isFree /\ blocks[i + 1].isFree}
  IN IF pairs = {} THEN blocks
     ELSE RemoveAt([blocks EXCEPT ![First(pairs)] = Absorb(@, blocks[First(pairs) + 1])],
                   First(pairs) + 1)

\* Each free block takes up all the free blocks that follow it.
CoalesceFreeBlocks(blocks) ==
  LET done[n \in 0 .. Len(blocks)] ==
        IF n = 0 THEN <<>>
        ELSE IF done[n - 1] # <<>> /\ Last(done[n - 1]).isFree /\ blocks[n].isFree
        THEN [done[n - 1] EXCEPT ![Len(done[n - 1])] = Absorb(@, blocks[n])]
        ELSE Append(done[n - 1], blocks[n])
  IN done[Len(blocks)]

\* Mutated: the first block that does not begin behind the address.
ReachingFrom(m, address) == {i \in DOMAIN m.blocks : address >= m.blocks[i].start}

\* freeMemoryRec looks for the first block that does not end at or before the address.
Reaching(m, address) ==
  {i \in DOMAIN m.blocks : address = m.blocks[i].start \/ address < End(m.blocks[i])}

FreeBlock(m, address) ==
  [m EXCEPT !.blocks =
     CoalesceFreeBlocks([@ EXCEPT ![First(Reaching(m, address))].isFree = TRUE])]
=============================================================================
