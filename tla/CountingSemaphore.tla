------------------------- MODULE CountingSemaphore -------------------------
(***************************************************************************)
(* What a semaphore promises: there are some tokens, a post adds one, and a *)
(* process that waits passes only by taking one.                            *)
(***************************************************************************)
EXTENDS Naturals

CONSTANT Process

VARIABLES tokens, waiting

vars == <<tokens, waiting>>

Init ==
  /\ tokens \in Nat
  /\ waiting = {}

Ask(p) ==
  /\ p \notin waiting
  /\ waiting' = waiting \cup {p}
  /\ UNCHANGED tokens

Pass(p) ==
  /\ p \in waiting
  /\ tokens > 0
  /\ tokens' = tokens - 1
  /\ waiting' = waiting \ {p}

Post ==
  /\ tokens' = tokens + 1
  /\ UNCHANGED waiting

Next == Post \/ \E p \in Process : Ask(p) \/ Pass(p)

Spec == Init /\ [][Next]_vars
=============================================================================
