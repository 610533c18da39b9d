----------------------------- MODULE Allocator -----------------------------
(***************************************************************************)
(* What a memory manager promises: the pieces of memory it has handed out   *)
(* and not got back do not overlap.  A request may be refused.              *)
(***************************************************************************)
EXTENDS Integers

CONSTANT Size       \* the sizes that are asked for

VARIABLE live       \* the pieces in use: a start address and the size asked for

Piece == [start : Nat, size : Size]

Apart(p, q) ==
  /\ p.start # q.start
  /\ p.start + p.size <= q.start \/ q.start + q.size <= p.start

Init == live = {}

Allocate(p) ==
  /\ \A q \in live : Apart(p, q)
  /\ live' = live \cup {p}

Free(p) == live' = live \ {p}

\* A piece handed out starts anywhere.
Next ==
  \/ \E p \in live' \ live : p \in Piece /\ Allocate(p)
  \/ \E p \in live : Free(p)

Spec == Init /\ [][Next]_live
=============================================================================
