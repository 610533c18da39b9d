------------------------------ MODULE KeyInput ------------------------------
(***************************************************************************)
(* The keyboard interrupt (Kernel/keyboard.c) and the key buffer            *)
(* (Kernel/lib.c) as a value k:                                             *)
(*   k.ctrl, k.gameplay    the flags of keyboard.c                          *)
(*   k.buffer              kbBuffer up to bufferIndx, the newest key last   *)
(*   k.stdin               what nobody has read yet from the pipe of STDIN  *)
(* Upper and lower case are not told apart (no program but the shell's line *)
(* does), so shift and caps lock are left out.                              *)
(***************************************************************************)
EXTENDS Naturals, SequencesExt

CONSTANTS Letter,       \* the letters on the keyboard
          BufferSize    \* BUFFER_SIZE

ASSUME BufferAssumption == BufferSize \in Nat \ {0}

Arrow == {"up", "left", "right", "down"}    \* characters 17, 18, 19 and 20
Key == Letter \cup Arrow \cup {"enter", "back", "esc"}

\* KILL_SIGNAL and EOF are ctrl with C and D.
Char == Key \cup {"kill", "eof"}

NoKeys == [ctrl |-> FALSE, gameplay |-> FALSE, buffer |-> <<>>, stdin |-> <<>>]

-----------------------------------------------------------------------------
\* What keyAct takes the next key for.  With ctrl down it sets keyChar for two keys only,
\* C and D: for any other, keyChar is whatever the stack holds.
Typed(k) == IF k.ctrl THEN Char ELSE Key

\* A full buffer starts again from its first cell.
AddToBuffer(k, c) ==
  [k EXCEPT !.buffer = IF Len(@) >= BufferSize THEN <<c>> ELSE Append(@, c)]

\* The rest of keyAct, once it knows the character.
KeyAct(k, c) ==
  IF k.gameplay THEN AddToBuffer(k, c)
  ELSE IF c \in Arrow THEN k
  ELSE [k EXCEPT !.stdin = Append(@, c)]

SetCtrl(k, down) == [k EXCEPT !.ctrl = down]

\* getKbChar: the newest key, or 0.
KbChar(k) == IF k.buffer = <<>> THEN "none" ELSE Last(k.buffer)
GetKbChar(k) == [k EXCEPT !.buffer = IF @ = <<>> THEN @ ELSE Front(@)]

ReadStdin(k) == [k EXCEPT !.stdin = Tail(@)]

GameplayOn(k) == [k EXCEPT !.gameplay = TRUE]

\* Mutant of GameplayOff: nothing is switched.
GameplayStays(k) == k

GameplayOff(k) == [k EXCEPT !.gameplay = FALSE]
=============================================================================
