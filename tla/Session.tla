------------------------------ MODULE Session ------------------------------
(***************************************************************************)
(* A user at the keyboard, and the program that has the screen: the kernel  *)
(* starts, the menu, the shell with its commands, the two games.            *)
(*                                                                          *)
(*   keys   the keyboard and the key buffer, see KeyInput                   *)
(*   app    the program in the foreground; app.at says where it is          *)
(*                                                                          *)
(* A program gets keys in one of two ways.  It reads STDIN, and waits until *)
(* there is a character; or it polls the key buffer.  keyAct sends a key to *)
(* one of them, as the flag gameplay says.  The programs set that flag, the *)
(* keyboard interrupts them anywhere, and a child that is created in the    *)
(* foreground sets it only when it runs.                                    *)
(***************************************************************************)
EXTENDS Startup, KeyInput, CommandLine, Snakes

CONSTANT MaxUnread  \* bound: characters in the pipe of STDIN

ASSUME UnreadAssumption == MaxUnread \in Nat \ {0}
ASSUME NulAssumption == Nul \notin Letter   \* no key gives the character 0

VARIABLES keys, app

vars == <<keys, app>>

Init ==
  /\ keys = NoKeys
  /\ \E files \in Files : app = [at |-> "boot", files |-> files, machine |-> Loaded(files)]

-----------------------------------------------------------------------------
(* The kernel starts; its interrupts are off. *)

\* drawMenu starts anew, with its first option hovered.
Menu == [at |-> "menu", hover |-> 0]

Loader ==
  /\ app.at = "boot"
  /\ UNCHANGED keys
  /\ LET m == app.machine
     IN \/ m.cursor = 0 /\ app' = [app EXCEPT !.machine = ReadCount(m)]
        \/ /\ m.cursor > 0 /\ m.next <= m.count
           /\ app' = [app EXCEPT !.machine = LoadModule(m)]
        \/ /\ m.cursor > 0 /\ m.next > m.count
           /\ app' = [app EXCEPT !.at = "loaded", !.machine = ClearBSS(m)]

\* What the kernel initializes, and the process it creates at sampleCodeModuleAddress.
StartMain == app.at = "loaded" /\ app' = Menu /\ UNCHANGED keys

-----------------------------------------------------------------------------
(* The keyboard. *)

Running == app.at \notin {"boot", "loaded"}

PressKey(c) ==
  /\ Running
  /\ c \in Typed(keys)
  /\ keys' = KeyAct(keys, c)
  /\ Len(keys'.stdin) <= MaxUnread
  /\ UNCHANGED app

HoldCtrl(down) ==
  Running /\ keys' = SetCtrl(keys, down) /\ UNCHANGED app

-----------------------------------------------------------------------------
(* Programs that read STDIN. *)

Reading == {"menu", "any_key", "shell", "command_key", "cat", "ending"}

\* A program that is at `place' is given c.
Reads(place, c) ==
  /\ app.at = place
  /\ keys.stdin # <<>> /\ Head(keys.stdin) = c
  /\ keys' = ReadStdin(keys)

\* drawMenu.  The arrows never come by STDIN.
Options == 6

Starting(game) == [at |-> "starting", game |-> game]
Shell == [at |-> "shell", line |-> EmptyLine]

Hover(c) ==
  /\ Reads("menu", c)
  /\ \/ c = "w" /\ app' = [app EXCEPT !.hover = (@ + Options - 1) % Options]
     \/ c = "s" /\ app' = [app EXCEPT !.hover = (@ + 1) % Options]
     \/ c \notin {"w", "s", "enter"} /\ UNCHANGED app

Select ==
  /\ Reads("menu", "enter")
  /\ app' = CASE app.hover = 0 -> Starting(1)
              [] app.hover = 1 -> Starting(2)
              [] app.hover \in {2, 3} -> [at |-> "any_key"]     \* time, registers
              [] app.hover = 4 -> Shell
              [] OTHER -> Menu                                  \* starts again

AnyKey(c) == Reads("any_key", c) /\ app' = Menu

-----------------------------------------------------------------------------
(* runConsole.  While a command goes on, its line stays in the buffer. *)

EditLine(c) ==
  /\ Reads("shell", c)
  /\ \/ c = "back" /\ app' = [app EXCEPT !.line = Erase(@)]
     \/ /\ c \notin {"back", "enter", "esc"}
        /\ HasRoom(app.line)
        /\ app' = [app EXCEPT !.line = TypeLetter(@, c)]

LeaveShell == Reads("shell", "esc") /\ app' = Menu

\* interpretCommand returns.
NextLine(a) == [at |-> "shell", line |-> ClearLine(a.line)]

Interpret(cmd) ==
  /\ Reads("shell", "enter")
  /\ app' = CASE cmd = "wait_key" -> [app EXCEPT !.at = "command_key"]
              [] cmd = "exception" -> Menu      \* exceptionHandler, in the same process
              [] cmd \in {"background", "nothing"} -> NextLine(app)
              [] cmd = "foreground" -> [app EXCEPT !.at = "test"]
              [] cmd = "cat" -> [app EXCEPT !.at = "cat"]
              [] cmd = "phylo" -> [app EXCEPT !.at = "sets_table"]

CommandKey(c) == Reads("command_key", c) /\ app' = NextLine(app)

\* The program ends, or asks for a last key.
EndTest ==
  /\ app.at = "test"
  /\ app' \in {NextLine(app), [app EXCEPT !.at = "command_key"]}
  /\ UNCHANGED keys

Cat(c) ==
  /\ Reads("cat", c)
  /\ app' = IF c \in {"kill", "eof"} THEN NextLine(app) ELSE app

-----------------------------------------------------------------------------
(* run_Philosophers, as far as the keyboard is concerned. *)

BeginDinner ==
  /\ app.at = "sets_table"
  /\ keys' = GameplayOn(keys)
  /\ app' = [app EXCEPT !.at = "dinner"]

PollDinner ==
  /\ app.at = "dinner"
  /\ keys' = GetKbChar(keys)
  /\ app' = IF KbChar(keys) = "q" THEN [app EXCEPT !.at = "clears_table"] ELSE app

EndDinner ==
  /\ app.at = "clears_table"
  /\ keys' = GameplayOff(keys)
  /\ app' = NextLine(app)

-----------------------------------------------------------------------------
(* start_game and start_gameTwo. *)

BeginGame ==
  /\ app.at = "starting"
  /\ keys' = GameplayOn(keys)
  /\ LET snakes == IF app.game = 1 THEN <<NewSnake(StartX)>>
                   ELSE <<NewSnake(StartX), NewSnake(StartX2)>>
     IN \E face \in FreeSpots({snakes[i] : i \in DOMAIN snakes}) :
          app' = [at |-> "playing", game |-> app.game, snakes |-> snakes, face |-> face]

\* gameInput and gameInputTwo.
Steered(snakes, c) ==
  [i \in DOMAIN snakes |-> IF i = 1 THEN Steer(snakes[1], c) ELSE SteerSecond(snakes[2], c)]

\* An iteration of the loop before the tick.
PollGame ==
  /\ app.at = "playing"
  /\ keys' = GetKbChar(keys)
  /\ app' = [app EXCEPT !.snakes = Steered(@, KbChar(keys))]

Over(game, winner) == [at |-> "over", game |-> game, winner |-> winner]

\* An iteration that calls updateSnake.
Tick ==
  /\ app.at = "playing" /\ app.game = 1
  /\ keys' = GetKbChar(keys)
  /\ LET s == Steered(app.snakes, KbChar(keys))[1]
         eaten == Reaches(Ahead(s), app.face)
         fed == IF eaten THEN Eat(s) ELSE s
     IN /\ Len(fed.body) <= MaxLength
        /\ \E face \in IF eaten THEN FreeSpots({fed}) ELSE {app.face} :
             app' = IF Crashes(fed) THEN Over(1, 1)
                    ELSE [app EXCEPT !.snakes = <<Advance(fed)>>, !.face = face]

\* With two players a face ends the game, and nobody grows.  The second snake is not
\* looked at when the first has eaten.
TickTwo ==
  /\ app.at = "playing" /\ app.game = 2
  /\ keys' = GetKbChar(keys)
  /\ LET s == Steered(app.snakes, KbChar(keys))
         eaten1 == Reaches(Ahead(s[1]), app.face)
         eaten2 == ~eaten1 /\ Reaches(Ahead(s[2]), app.face)
         crash1 == Crashes(s[1])
         crash2 == ~eaten1 /\ Crashes(s[2])
         winner == IF eaten1 \/ (~crash1 /\ ~eaten2) THEN 1 ELSE 2
     IN \/ /\ eaten1 \/ eaten2 \/ crash1 \/ crash2
           /\ app' = Over(2, winner)
        \/ /\ ~(eaten1 \/ eaten2 \/ crash1 \/ crash2)
           /\ app' = [app EXCEPT !.snakes = <<Advance(s[1]), Advance(s[2])>>]

\* After the sound.
EndGame ==
  /\ app.at = "over"
  /\ keys' = GameplayOff(keys)
  /\ app' = [app EXCEPT !.at = "ending"]

Replay == Reads("ending", "enter") /\ app' = Starting(app.game)

\* Bound: ESC when the first of two players has won returns from the process's function,
\* to whatever address its stack holds.
LeaveGame ==
  /\ Reads("ending", "esc")
  /\ app.game = 1 \/ app.winner = 2
  /\ app' = Menu

OtherKey(c) ==
  c \notin {"enter", "esc"} /\ Reads("ending", c) /\ UNCHANGED app

-----------------------------------------------------------------------------
Next ==
  \/ Loader \/ StartMain
  \/ \E c \in Char : PressKey(c)
  \/ \E down \in BOOLEAN : HoldCtrl(down)
  \/ \E c \in Char :
       Hover(c) \/ AnyKey(c) \/ EditLine(c) \/ CommandKey(c) \/ Cat(c) \/ OtherKey(c)
  \/ Select
  \/ LeaveShell \/ EndTest
  \/ \E cmd \in CommandType : Interpret(cmd)
  \/ BeginDinner \/ PollDinner \/ EndDinner
  \/ BeginGame \/ PollGame \/ Tick \/ TickTwo \/ EndGame \/ Replay \/ LeaveGame

Spec == Init /\ [][Next]_vars

-----------------------------------------------------------------------------
\* ModulesLoaded: when the kernel has copied the packed modules and cleared its bss, each
\* module is at its address, whole, although the bss covers the place it was packed in.
ModulesLoaded ==
  app.at = "loaded" => InPlace(app.machine, app.files)

\* KeysReachTheProgram: a program that polls the key buffer finds the keyboard in
\* gameplay mode and one that reads STDIN finds it out of it, whatever was played, left,
\* replayed or brought down by an exception before; with the flag the other way round the
\* program is deaf and can never be left.
KeysReachTheProgram ==
  /\ app.at \in {"playing", "dinner"} => keys.gameplay
  /\ app.at \in Reading => ~keys.gameplay

\* LineAsShown: the command that interpretCommand would be given begins with the letters
\* on the screen, and is no more than them unless a letter was erased: internalBuffer
\* keeps an erased letter, and the commands that follow may still end in it.
LineAsShown ==
  app.at = "shell" =>
    /\ IsPrefix(app.line.shown, Text(app.line))
    /\ app.line.erased \/ app.line.shown = Text(app.line)

\* SnakeWhole: while a game is on, the squares of each snake form a chain on the field
\* that never crosses itself, however the keys were pressed and however it has grown.
Near(p, q) ==
  \/ p.x = q.x /\ (p.y = q.y + SquareSize \/ q.y = p.y + SquareSize)
  \/ p.y = q.y /\ (p.x = q.x + SquareSize \/ q.x = p.x + SquareSize)

SnakeWhole ==
  app.at = "playing" =>
    \A i \in DOMAIN app.snakes :
      LET body == app.snakes[i].body
      IN /\ \A k \in 2 .. Len(body) : Near(body[k - 1], body[k])
         /\ IsInjective(body)
         /\ \A k \in DOMAIN body : ~Outside(body[k])
=============================================================================
