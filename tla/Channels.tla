------------------------------ MODULE Channels ------------------------------
(***************************************************************************)
(* What pipes promise to programs, without instances, rings or semaphores:  *)
(* a pipe that is open is a queue of characters, and each character comes   *)
(* out once, in the order in which they were written.                       *)
(***************************************************************************)
EXTENDS Sequences

CONSTANTS Pipe, Process, Char, Nothing

VARIABLES content,      \* the open pipes: the characters nobody has taken yet
          received      \* the character a process got last, or Nothing

vars == <<content, received>>

Init ==
  /\ \E open \in SUBSET Pipe : content = [i \in open |-> <<>>]
  /\ received = [p \in Process |-> Nothing]

\* What p got last is used up when p calls again.
Forget(p) == received' = [received EXCEPT ![p] = Nothing]

Open(i, p) ==
  /\ i \notin DOMAIN content
  /\ content' = [j \in DOMAIN content \cup {i} |-> IF j = i THEN <<>> ELSE content[j]]
  /\ Forget(p)

Close(i, p) ==
  /\ i \in DOMAIN content
  /\ content' = [j \in DOMAIN content \ {i} |-> content[j]]
  /\ Forget(p)

Write(i, p, c) ==
  /\ i \in DOMAIN content
  /\ content' = [content EXCEPT ![i] = Append(@, c)]
  /\ Forget(p)

Read(i, p) ==
  /\ i \in DOMAIN content
  /\ content[i] # <<>>
  /\ content' = [content EXCEPT ![i] = Tail(@)]
  /\ received' = [received EXCEPT ![p] = Head(content[i])]

Next ==
  \E p \in Process :
    \/ Forget(p) /\ UNCHANGED content
    \/ \E i \in Pipe :
         \/ Open(i, p)
         \/ Close(i, p)
         \/ \E c \in Char : Write(i, p, c)
         \/ Read(i, p)

Spec == Init /\ [][Next]_vars
=============================================================================
