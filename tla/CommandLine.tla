---------------------------- MODULE CommandLine ----------------------------
(***************************************************************************)
(* The line editor of the shell (runConsole in consola.c) and the kinds of  *)
(* commands that interpretCommand tells apart, as values.                   *)
(*                                                                          *)
(* A line l is                                                              *)
(*   l.cell      internalBuffer, Nul where there is no letter               *)
(*   l.size      bufferSize                                                 *)
(*   l.shown     the letters on the screen                                  *)
(*   l.erased    whether a letter was ever erased since the shell started   *)
(* Which words spell a command is left open: any line may be any command.   *)
(***************************************************************************)
EXTENDS Naturals, SequencesExt

CONSTANT LineSize   \* the length of internalBuffer

ASSUME LineAssumption == LineSize \in Nat \ {0}

Nul == "nul"
Cell == 0 .. LineSize - 1

EmptyLine == [cell |-> [i \in Cell |-> Nul], size |-> 0, shown |-> <<>>, erased |-> FALSE]

\* The string that interpretCommand is given, as far as the first 0.
Text(l) ==
  LET n == CHOOSE n \in 0 .. LineSize :
             /\ n = LineSize \/ l.cell[n] = Nul
             /\ \A i \in 0 .. n - 1 : l.cell[i] # Nul
  IN [i \in 1 .. n |-> l.cell[i - 1]]

-----------------------------------------------------------------------------
\* Bound: a line is never full, as a full one has no 0 at its end.
HasRoom(l) == l.size + 1 < LineSize

TypeLetter(l, c) ==
  [l EXCEPT !.cell[l.size] = c, !.size = @ + 1, !.shown = Append(@, c)]

\* Mutant of Erase: the letter before the erased one is lost as well.
EraseTwo(l) ==
  IF l.size = 0 THEN l
  ELSE [l EXCEPT !.cell = [i \in Cell |-> IF i + 2 >= l.size THEN Nul ELSE l.cell[i]],
                 !.size = @ - 1, !.shown = Front(@), !.erased = TRUE]

\* '\b': internalBuffer[bufferSize--] = 0, which clears the cell behind the letter that
\* goes.
Erase(l) ==
  IF l.size = 0 THEN l
  ELSE [l EXCEPT !.cell[l.size] = Nul, !.size = @ - 1,
                 !.shown = Front(@), !.erased = TRUE]

\* '\n', after the command: as many cells are cleared as there are letters.
ClearLine(l) ==
  [l EXCEPT !.cell = [i \in Cell |-> IF i < l.size THEN Nul ELSE l.cell[i]],
            !.size = 0, !.shown = <<>>]

-----------------------------------------------------------------------------
\* What interpretCommand does with each CommandType:
\*   "wait_key"    shows or changes something and reads a character: help, mem, the
\*                 font sizes, kill, nice, block
\*   "exception"   testdivzero and testinvalidopcode
\*   "background"  loop, and testmm and testsem with &
\*   "foreground"  ps and the tests
\*   "cat"         cat, alone, or what reads STDIN for a pipeline
\*   "phylo"       run_Philosophers
\*   "nothing"     CMD_UNKNOWN, and wc and filter alone
\* Bound: what reads keys is not run in the background, where it shares them with the
\* shell; and phylo gets its semaphore.
CommandType == {"wait_key", "exception", "background", "foreground", "cat", "phylo",
                "nothing"}
=============================================================================
