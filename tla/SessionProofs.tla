--------------------------- MODULE SessionProofs ---------------------------
(***************************************************************************)
(* Theorems about a user at the keyboard, for any keys, any line buffer,    *)
(* any field and any layout of memory: keys reach the program that has the  *)
(* screen, the shell runs what it shows, a snake stays in one piece, and    *)
(* the loader puts each module in its place.  Each has an invariant of its  *)
(* own, which adds to Routed what app holds where that program runs.        *)
(***************************************************************************)
EXTENDS Session, QueueLemmas

\* Where the keyboard is in gameplay mode: between the program's first system call and
\* its last one.
Polling == {"playing", "over", "dinner", "clears_table"}

\* The inductive invariant.  KeysReachTheProgram alone says nothing of a game that is
\* starting or over.
Routed ==
  /\ "at" \in DOMAIN app
  /\ "gameplay" \in DOMAIN keys
  /\ keys.gameplay = IF app.at \in Polling THEN TRUE ELSE FALSE

-----------------------------------------------------------------------------
(* What the operators of KeyInput do to the flag. *)

\* The flag of k is that of j.
SameFlag(k, j) ==
  /\ "gameplay" \in DOMAIN k
  /\ k.gameplay = j.gameplay

\* keyAct, addToBuffer and the pipe never touch the flag.
LEMMA KeyActKeepsFlag ==
  ASSUME NEW k, NEW c, "gameplay" \in DOMAIN k
  PROVE  SameFlag(KeyAct(k, c), k)
  BY DEF SameFlag, KeyAct, AddToBuffer

\* Nor do control, getKbChar and a read from STDIN.
LEMMA OthersKeepFlag ==
  ASSUME NEW k, NEW down, "gameplay" \in DOMAIN k
  PROVE  /\ SameFlag(SetCtrl(k, down), k)
         /\ SameFlag(GetKbChar(k), k)
         /\ SameFlag(ReadStdin(k), k)
  BY DEF SameFlag, SetCtrl, GetKbChar, ReadStdin

\* gameplay_on and gameplay_off.
LEMMA FlagIsSet ==
  ASSUME NEW k, "gameplay" \in DOMAIN k
  PROVE  /\ "gameplay" \in DOMAIN GameplayOn(k) /\ GameplayOn(k).gameplay = TRUE
         /\ "gameplay" \in DOMAIN GameplayOff(k) /\ GameplayOff(k).gameplay = FALSE
  BY DEF GameplayOn, GameplayOff

\* A step that keeps the flag keeps Routed if it stays on its side.
LEMMA SameSide ==
  ASSUME Routed, SameFlag(keys', keys), "at" \in DOMAIN app',
         app.at \in Polling <=> app'.at \in Polling
  PROVE  Routed'
  BY DEF Routed, SameFlag

-----------------------------------------------------------------------------
(* The steps. *)

\* The kernel's start and the keyboard.
LEMMA KernelRoutes ==
  ASSUME Routed,
         \/ Loader \/ StartMain
         \/ \E c \in Char : PressKey(c)
         \/ \E down \in BOOLEAN : HoldCtrl(down)
  PROVE  Routed'
<1>1. SameFlag(keys', keys)
  BY KeyActKeepsFlag, OthersKeepFlag, ZenonT(60)
  DEF Routed, SameFlag, Loader, StartMain, PressKey, HoldCtrl
<1>2. "at" \in DOMAIN app' /\ (app.at \in Polling <=> app'.at \in Polling)
  <2>1. CASE Loader
    BY <2>1 DEF Routed, Loader, Polling
  <2>2. CASE StartMain
    BY <2>2 DEF Routed, StartMain, Menu, Polling
  <2>3. CASE UNCHANGED app
    BY <2>3 DEF Routed
  <2>. QED  BY <2>1, <2>2, <2>3 DEF PressKey, HoldCtrl
<1>. QED  BY <1>1, <1>2, SameSide

\* Programs that read STDIN: wherever they go, they leave the flag to the next program.
LEMMA ReadersRoute ==
  ASSUME Routed,
         \/ \E c \in Char :
              Hover(c) \/ AnyKey(c) \/ EditLine(c) \/ CommandKey(c) \/ Cat(c) \/ OtherKey(c)
         \/ Select \/ LeaveShell \/ Replay \/ LeaveGame
         \/ \E cmd \in CommandType : Interpret(cmd)
  PROVE  Routed'
<1>1. PICK place, c : place \in Reading /\ Reads(place, c)
  BY DEF Hover, AnyKey, EditLine, CommandKey, Cat, OtherKey, Select, LeaveShell, Replay,
         LeaveGame, Interpret, Reading
<1>2. SameFlag(keys', keys)
  BY <1>1, OthersKeepFlag DEF Routed, Reads
<1>3. app.at \notin Polling
  BY <1>1 DEF Reads, Reading, Polling
<1>4. "at" \in DOMAIN app' /\ app'.at \notin Polling
  <2>1. CASE \E d \in Char :
          Hover(d) \/ AnyKey(d) \/ EditLine(d) \/ CommandKey(d) \/ Cat(d) \/ OtherKey(d)
    <3>. PICK d \in Char :
           Hover(d) \/ AnyKey(d) \/ EditLine(d) \/ CommandKey(d) \/ Cat(d) \/ OtherKey(d)
      BY <2>1
    <3>1. CASE Hover(d) \/ EditLine(d) \/ OtherKey(d)
      BY <1>3, <3>1 DEF Routed, Hover, EditLine, OtherKey
    <3>2. CASE AnyKey(d) \/ CommandKey(d)
      BY <1>3, <3>2 DEF Routed, AnyKey, CommandKey, Menu, NextLine, Polling
    <3>3. CASE Cat(d)
      <4>1. app' = NextLine(app) \/ app' = app
        BY <3>3 DEF Cat
      <4>. QED  BY <1>3, <4>1 DEF Routed, NextLine, Polling
    <3>. QED  BY <3>1, <3>2, <3>3
  <2>2. CASE Select \/ LeaveShell \/ Replay \/ LeaveGame
    BY <1>3, <2>2
    DEF Routed, Select, LeaveShell, Replay, LeaveGame, Menu, Shell, Starting, Reads, Polling
  <2>3. CASE \E cmd \in CommandType : Interpret(cmd)
    BY <1>3, <2>3 DEF Routed, Interpret, CommandType, Menu, NextLine, Polling
  <2>. QED  BY <2>1, <2>2, <2>3
<1>. QED  BY <1>2, <1>3, <1>4, SameSide

\* A test that ends, and programs that poll the key buffer, before their last system call.
LEMMA PollersRoute ==
  ASSUME Routed, EndTest \/ PollDinner \/ PollGame \/ Tick \/ TickTwo
  PROVE  Routed'
<1>1. SameFlag(keys', keys)
  BY OthersKeepFlag DEF Routed, SameFlag, EndTest, PollDinner, PollGame, Tick, TickTwo
<1>2. "at" \in DOMAIN app' /\ (app.at \in Polling <=> app'.at \in Polling)
  <2>1. CASE EndTest
    BY <2>1 DEF Routed, EndTest, NextLine, Polling
  <2>2. CASE PollDinner \/ PollGame
    BY <2>2 DEF Routed, PollDinner, PollGame, Polling
  <2>3. CASE Tick
    <3>. DEFINE s == Steered(app.snakes, KbChar(keys))[1]
                fed == IF Reaches(Ahead(s), app.face) THEN Eat(s) ELSE s
    <3>1. app.at = "playing"
      BY <2>3 DEF Tick
    <3>2. PICK face : app' = IF Crashes(fed) THEN Over(1, 1)
                             ELSE [app EXCEPT !.snakes = <<Advance(fed)>>, !.face = face]
      BY <2>3, Zenon DEF Tick
    <3>3. CASE Crashes(fed)
      BY <3>1, <3>2, <3>3, Zenon DEF Over, Polling, Routed
    <3>4. CASE ~Crashes(fed)
      <4>. HIDE DEF fed
      <4>. QED  BY <3>1, <3>2, <3>4 DEF Polling, Routed
    <3>. QED  BY <3>3, <3>4
  <2>4. CASE TickTwo
    <3>1. /\ app.at = "playing"
          /\ \/ \E winner : app' = Over(2, winner)
             \/ \E snakes : app' = [app EXCEPT !.snakes = snakes]
      BY <2>4, SMTT(30) DEF TickTwo
    <3>. QED  BY <3>1 DEF Routed, Over, Polling
  <2>. QED  BY <2>1, <2>2, <2>3, <2>4
<1>. QED  BY <1>1, <1>2, SameSide

\* The four steps that set the flag.
LEMMA SettersRoute ==
  ASSUME Routed, BeginDinner \/ EndDinner \/ BeginGame \/ EndGame
  PROVE  Routed'
<1>1. CASE BeginDinner
  BY <1>1, FlagIsSet DEF Routed, BeginDinner, Polling
<1>2. CASE EndDinner
  BY <1>2, FlagIsSet DEF Routed, EndDinner, NextLine, Polling
<1>3. CASE BeginGame
  <2>1. "at" \in DOMAIN app' /\ app'.at = "playing"
    BY <1>3 DEF BeginGame
  <2>. QED  BY <1>3, <2>1, FlagIsSet DEF Routed, BeginGame, Polling
<1>4. CASE EndGame
  BY <1>4, FlagIsSet DEF Routed, EndGame, Polling
<1>. QED  BY <1>1, <1>2, <1>3, <1>4

-----------------------------------------------------------------------------
LEMMA InitRouted == Init => Routed
  BY DEF Init, NoKeys, Routed, Polling

LEMMA NextRouted == Routed /\ [Next]_vars => Routed'
<1>1. ASSUME Routed, Next PROVE Routed'
  BY <1>1, KernelRoutes, ReadersRoute, PollersRoute, SettersRoute DEF Next
<1>2. ASSUME Routed, UNCHANGED vars PROVE Routed'
  BY <1>2 DEF vars, Routed
<1>. QED  BY <1>1, <1>2

\* A program that polls the key buffer always finds the keyboard in gameplay mode, and
\* one that reads STDIN out of it: keyAct sends each key where the program looks.
THEOREM KeysRouted == Spec => []KeysReachTheProgram
<1>1. Routed => KeysReachTheProgram
  BY DEF Routed, KeysReachTheProgram, Polling, Reading
<1>. QED  BY InitRouted, NextRouted, <1>1, PTL DEF Spec

-----------------------------------------------------------------------------
(* The line of the shell. *)

Line == [cell : [Cell -> Char \cup {Nul}], size : Cell, shown : Seq(Char),
         erased : BOOLEAN]

\* The letters on the screen are in the first cells; behind them is nothing, or what was
\* left there when a letter was erased.
GoodLine(l) ==
  /\ l \in Line
  /\ Len(l.shown) = l.size
  /\ \A i \in 1 .. l.size : l.cell[i - 1] = l.shown[i]
  /\ ~l.erased => \A i \in Cell : i >= l.size => l.cell[i] = Nul

LEMMA NulIsNoChar == Nul \notin Char
BY NulAssumption DEF Nul, Char, Key, Arrow

LEMMA EmptyIsGood == GoodLine(EmptyLine)
<1>1. <<>> \in Seq(Char) /\ 0 \in Cell
  BY LineAssumption DEF Cell
<1> QED
  BY <1>1 DEF GoodLine, EmptyLine, Line

LEMMA TypeLetterIsGood ==
  ASSUME NEW l, GoodLine(l), NEW c \in Char, HasRoom(l)
  PROVE  GoodLine(TypeLetter(l, c))
<1> DEFINE r == TypeLetter(l, c)
           t == Append(l.shown, c)
<1>1. /\ l.size \in Cell /\ l.size + 1 \in Cell /\ l.size \in Nat
      /\ l.cell \in [Cell -> Char \cup {Nul}]
      /\ l.shown \in Seq(Char) /\ Len(l.shown) = l.size
  BY LineAssumption DEF GoodLine, Line, Cell, HasRoom
<1>2. t \in Seq(Char) /\ Len(t) = l.size + 1 /\ t[l.size + 1] = c
      /\ \A i \in 1 .. l.size : t[i] = l.shown[i]
  BY <1>1
<1> HIDE DEF t
<1>3. /\ r.cell = [l.cell EXCEPT ![l.size] = c] /\ r.size = l.size + 1
      /\ r.shown = t /\ r.erased = l.erased
      /\ r \in Line
  BY <1>1, <1>2 DEF t, TypeLetter, GoodLine, Line
<1> HIDE DEF r
<1>4. ASSUME NEW i \in 1 .. l.size + 1 PROVE r.cell[i - 1] = t[i]
  <2>1. CASE i = l.size + 1
    BY <1>1, <1>2, <1>3, <2>1
  <2>2. CASE i # l.size + 1
    <3>1. i \in 1 .. l.size /\ i - 1 \in Cell /\ i - 1 # l.size
      BY <1>1, <2>2, LineAssumption DEF Cell
    <3> QED
      BY <1>1, <1>2, <1>3, <3>1 DEF GoodLine
  <2> QED
    BY <2>1, <2>2
<1>5. ASSUME ~l.erased, NEW i \in Cell, i >= l.size + 1 PROVE r.cell[i] = Nul
  <2>1. i # l.size /\ i >= l.size
    BY <1>1, <1>5 DEF Cell
  <2> QED
    BY <1>1, <1>3, <1>5, <2>1 DEF GoodLine
<1> QED
  BY <1>2, <1>3, <1>4, <1>5 DEF GoodLine, r

LEMMA EraseIsGood ==
  ASSUME NEW l, GoodLine(l)
  PROVE  GoodLine(Erase(l))
<1>1. CASE l.size = 0
  BY <1>1 DEF Erase
<1>2. CASE l.size # 0
  <2> DEFINE r == Erase(l)
             t == Front(l.shown)
  <2>1. /\ l.size \in Cell /\ l.size - 1 \in Cell /\ l.size \in Nat
        /\ l.cell \in [Cell -> Char \cup {Nul}]
        /\ l.shown \in Seq(Char) /\ Len(l.shown) = l.size
    BY <1>2, LineAssumption DEF GoodLine, Line, Cell
  <2>2. t \in Seq(Char) /\ Len(t) = l.size - 1
        /\ \A i \in 1 .. l.size - 1 : t[i] = l.shown[i]
    BY <1>2, <2>1 DEF Front
  <2> HIDE DEF t
  <2>3. /\ r.cell = [l.cell EXCEPT ![l.size] = Nul] /\ r.size = l.size - 1
        /\ r.shown = t /\ r.erased = TRUE
        /\ r \in Line
    BY <1>2, <2>1, <2>2 DEF t, Erase, GoodLine, Line
  <2> HIDE DEF r
  <2>4. ASSUME NEW i \in 1 .. l.size - 1 PROVE r.cell[i - 1] = t[i]
    <3>1. i \in 1 .. l.size /\ i - 1 \in Cell /\ i - 1 # l.size
      BY <2>1, LineAssumption DEF Cell
    <3> QED
      BY <2>1, <2>2, <2>3, <3>1 DEF GoodLine
  <2> QED
    BY <2>2, <2>3, <2>4 DEF GoodLine, r
<1> QED
  BY <1>1, <1>2

LEMMA ClearLineIsGood ==
  ASSUME NEW l, GoodLine(l)
  PROVE  GoodLine(ClearLine(l))
<1> DEFINE r == ClearLine(l)
<1>1. <<>> \in Seq(Char) /\ 0 \in Cell /\ l.size \in Nat
  BY LineAssumption DEF Cell, GoodLine, Line
<1>2. /\ r.cell = [i \in Cell |-> IF i < l.size THEN Nul ELSE l.cell[i]]
      /\ r.size = 0 /\ r.shown = <<>> /\ r.erased = l.erased
      /\ r \in Line
  BY <1>1 DEF ClearLine, GoodLine, Line
<1> HIDE DEF r
<1>3. ASSUME ~l.erased, NEW i \in Cell PROVE r.cell[i] = Nul
  BY <1>1, <1>2, <1>3 DEF GoodLine, Cell
<1> QED
  BY <1>2, <1>3 DEF GoodLine, r

\* The string ends at the first 0 or where internalBuffer does.
LEMMA TextEnds ==
  ASSUME NEW l, GoodLine(l)
  PROVE  \E n \in 0 .. LineSize :
           /\ Text(l) = [i \in 1 .. n |-> l.cell[i - 1]]
           /\ n = LineSize \/ l.cell[n] = Nul
           /\ \A i \in 0 .. n - 1 : l.cell[i] # Nul
<1> DEFINE Ends(n) == /\ n = LineSize \/ l.cell[n] = Nul
                      /\ \A i \in 0 .. n - 1 : l.cell[i] # Nul
           T == {n \in 0 .. LineSize : n = LineSize \/ l.cell[n] = Nul}
           m == CHOOSE n \in 0 .. LineSize : Ends(n)
<1>1. T \subseteq Nat /\ LineSize \in T
  BY LineAssumption
<1>2. Min(T) \in T /\ \A y \in T : Min(T) <= y
  BY <1>1, MinProperties
<1>3. Min(T) \in 0 .. LineSize /\ Ends(Min(T))
  <2> HIDE DEF T
  <2>1. ASSUME NEW i \in 0 .. Min(T) - 1 PROVE l.cell[i] # Nul
    <3>1. i \in 0 .. LineSize /\ i \notin T
      BY <1>1, <1>2, LineAssumption DEF T
    <3> QED
      BY <3>1 DEF T
  <2> QED
    BY <1>2, <2>1 DEF T
<1>4. m \in 0 .. LineSize /\ Ends(m)
  <2> HIDE DEF Ends, T
  <2> QED
    BY <1>3
<1>5. Text(l) = [i \in 1 .. m |-> l.cell[i - 1]]
  BY DEF Text
<1> HIDE DEF m
<1> QED
  BY <1>4, <1>5

\* LineAsShown of one line.
LEMMA GoodLineShows ==
  ASSUME NEW l, GoodLine(l)
  PROVE  /\ IsPrefix(l.shown, Text(l))
         /\ l.erased \/ l.shown = Text(l)
<1>1. PICK n \in 0 .. LineSize :
        /\ Text(l) = [i \in 1 .. n |-> l.cell[i - 1]]
        /\ n = LineSize \/ l.cell[n] = Nul
        /\ \A i \in 0 .. n - 1 : l.cell[i] # Nul
  BY TextEnds
<1> DEFINE t == Text(l)
           k == l.size
           shown == l.shown
<1>2. /\ k \in Cell /\ k \in 0 .. LineSize /\ k \in Nat /\ k < LineSize
      /\ shown \in Seq(Char) /\ Len(shown) = k
      /\ l.cell \in [Cell -> Char \cup {Nul}]
      /\ \A i \in 1 .. k : l.cell[i - 1] = shown[i] /\ shown[i] \in Char
  BY LineAssumption DEF GoodLine, Line, Cell
<1>3. \A i \in 1 .. k : l.cell[i - 1] # Nul
  BY <1>2, NulIsNoChar
<1>4. k <= n
  <2>1. ASSUME n < k PROVE FALSE
    <3>1. n + 1 \in 1 .. k
      BY <1>2, <2>1
    <3>2. l.cell[(n + 1) - 1] # Nul
      BY <1>3, <3>1
    <3> QED
      BY <1>1, <1>2, <2>1, <3>2
  <2> QED
    BY <1>2, <2>1
<1>5. t \in Seq(Char \cup {Nul}) /\ Len(t) = n
  <2>1. \A i \in 1 .. n : l.cell[i - 1] \in Char \cup {Nul}
    BY <1>2, LineAssumption DEF Cell
  <2> QED
    BY <1>1, <2>1
<1>6. \A i \in 1 .. k : t[i] = shown[i]
  BY <1>1, <1>2, <1>4
<1> HIDE DEF t, k, shown
<1>7. IsPrefix(shown, t)
  <2>1. Len(SubSeq(shown, 1, k)) = k /\ Len(SubSeq(t, 1, k)) = k
    BY <1>2, <1>4, <1>5
  <2>2. \A i \in 1 .. k : SubSeq(shown, 1, k)[i] = shown[i] /\ SubSeq(t, 1, k)[i] = t[i]
    BY <1>2, <1>4, <1>5
  <2>3. SubSeq(shown, 1, k) = SubSeq(t, 1, k)
    <3>1. SubSeq(shown, 1, k) \in Seq(Char \cup {Nul})
      BY <1>2
    <3>2. SubSeq(t, 1, k) \in Seq(Char \cup {Nul})
      BY <1>2, <1>4, <1>5
    <3> QED
      BY <1>2, <1>6, <2>1, <2>2, <3>1, <3>2, SeqEqual
  <2> QED
    BY <1>2, <1>4, <1>5, <2>3 DEF IsPrefix
<1>8. ASSUME ~l.erased PROVE shown = t
  <2>1. l.cell[k] = Nul
    BY <1>2, <1>8 DEF GoodLine, k
  <2>2. n = k
    BY <1>1, <1>2, <1>4, <2>1
  <2>3. shown \in Seq(Char \cup {Nul})
    BY <1>2
  <2> QED
    BY <1>2, <1>5, <1>6, <2>2, <2>3, SeqEqual
<1> QED
  BY <1>7, <1>8 DEF t, shown

-----------------------------------------------------------------------------
(* The shell and its commands. *)

\* Where the line is kept, also while a command goes on.
HasLine == {"shell", "command_key", "test", "cat", "sets_table", "dinner",
            "clears_table"}

\* Wherever the program has a line, while a command goes on included, it is a good one.
LineInv ==
  /\ Routed
  /\ app.at \in HasLine =>
       /\ {"at", "line"} \subseteq DOMAIN app
       /\ GoodLine(app.line)

LEMMA NextLineIsGood ==
  ASSUME LineInv, app.at \in HasLine
  PROVE  /\ {"at", "line"} \subseteq DOMAIN NextLine(app)
         /\ GoodLine(NextLine(app).line)
BY ClearLineIsGood DEF LineInv, NextLine

\* The programs outside the shell have no line.
LEMMA OthersHaveNoLine ==
  ASSUME LineInv,
         \/ Loader \/ StartMain
         \/ \E c \in Char : Hover(c) \/ AnyKey(c) \/ OtherKey(c)
         \/ Select \/ LeaveShell
         \/ BeginGame \/ PollGame \/ Tick \/ TickTwo \/ EndGame \/ Replay \/ LeaveGame
  PROVE  app'.at \in HasLine =>
           /\ {"at", "line"} \subseteq DOMAIN app'
           /\ GoodLine(app'.line)
<1>1. CASE Loader
  BY <1>1 DEF LineInv, Routed, Loader, HasLine
<1>2. CASE StartMain \/ LeaveShell \/ LeaveGame
  BY <1>2 DEF StartMain, LeaveShell, LeaveGame, Menu, HasLine
<1>3. CASE \E c \in Char : Hover(c) \/ AnyKey(c) \/ OtherKey(c)
  BY <1>3 DEF LineInv, Routed, Hover, AnyKey, OtherKey, Reads, Menu, HasLine
<1>4. CASE Select
  BY <1>4, EmptyIsGood DEF Select, Starting, Shell, Menu, HasLine
<1>5. CASE BeginGame \/ Replay
  <2>1. BeginGame => app'.at = "playing"
    BY DEF BeginGame
  <2>2. Replay => app'.at = "starting"
    BY DEF Replay, Starting
  <2> QED
    BY <1>5, <2>1, <2>2 DEF HasLine
<1>6. CASE PollGame \/ EndGame
  BY <1>6 DEF LineInv, Routed, PollGame, EndGame, HasLine
<1>7. CASE Tick \/ TickTwo
  <2>1. app'.at \in {"playing", "over"}
    <3>1. CASE Tick
      <4> DEFINE s == Steered(app.snakes, KbChar(keys))[1]
                 fed == IF Reaches(Ahead(s), app.face) THEN Eat(s) ELSE s
      <4>1. app.at = "playing"
        BY <3>1 DEF Tick
      <4>2. PICK face : app' = IF Crashes(fed) THEN Over(1, 1)
                               ELSE [app EXCEPT !.snakes = <<Advance(fed)>>, !.face = face]
        BY <3>1, Zenon DEF Tick
      <4> HIDE DEF fed
      <4> QED
        BY <4>1, <4>2 DEF Over, LineInv, Routed
    <3>2. CASE TickTwo
      <4>1. /\ app.at = "playing"
            /\ \/ \E winner : app' = Over(2, winner)
               \/ \E snakes : app' = [app EXCEPT !.snakes = snakes]
        BY <3>2, SMTT(30) DEF TickTwo
      <4> QED
        BY <4>1 DEF LineInv, Routed, Over
    <3> QED
      BY <1>7, <3>1, <3>2
  <2> QED
    BY <2>1 DEF HasLine
<1> QED
  BY <1>1, <1>2, <1>3, <1>4, <1>5, <1>6, <1>7

LEMMA ShellKeepsLine ==
  ASSUME LineInv,
         \/ \E c \in Char : EditLine(c) \/ CommandKey(c) \/ Cat(c)
         \/ EndTest \/ BeginDinner \/ PollDinner \/ EndDinner
         \/ \E cmd \in CommandType : Interpret(cmd)
  PROVE  app'.at \in HasLine =>
           /\ {"at", "line"} \subseteq DOMAIN app'
           /\ GoodLine(app'.line)
<1>1. app.at \in HasLine
  BY DEF EditLine, CommandKey, Cat, EndTest, BeginDinner, PollDinner, EndDinner,
         Interpret, Reads, HasLine
<1>2. {"at", "line"} \subseteq DOMAIN app /\ GoodLine(app.line)
  BY <1>1 DEF LineInv
<1>3. CASE \E c \in Char : EditLine(c)
  <2>1. PICK c \in Char : EditLine(c)
    BY <1>3
  <2>2. \/ app' = [app EXCEPT !.line = Erase(@)]
        \/ HasRoom(app.line) /\ app' = [app EXCEPT !.line = TypeLetter(@, c)]
    BY <2>1 DEF EditLine
  <2> QED
    BY <1>2, <2>2, EraseIsGood, TypeLetterIsGood
<1>4. CASE app' = NextLine(app)
  BY <1>1, <1>4, NextLineIsGood
<1>5. CASE app' = app \/ \E at : app' = [app EXCEPT !.at = at]
  BY <1>2, <1>5
<1>6. CASE app' = Menu
  BY <1>6 DEF Menu, HasLine
<1>7. CASE EndTest
  BY <1>4, <1>5, <1>7 DEF EndTest
<1>8. CASE \E cmd \in CommandType : Interpret(cmd)
  <2>1. \/ app' \in {Menu, NextLine(app)}
        \/ \E at : app' = [app EXCEPT !.at = at]
    BY <1>8 DEF Interpret, CommandType
  <2> QED
    BY <1>4, <1>5, <1>6, <2>1
<1>9. CASE \E c \in Char : CommandKey(c) \/ Cat(c)
  BY <1>4, <1>5, <1>9 DEF CommandKey, Cat
<1>10. CASE BeginDinner \/ PollDinner \/ EndDinner
  BY <1>4, <1>5, <1>10 DEF BeginDinner, PollDinner, EndDinner
<1> QED
  BY <1>3, <1>7, <1>8, <1>9, <1>10

LEMMA NextLineInv == LineInv /\ [Next]_vars => LineInv'
<1> SUFFICES ASSUME LineInv, [Next]_vars PROVE LineInv'
  OBVIOUS
<1>1. Routed'
  BY NextRouted DEF LineInv
<1>2. CASE UNCHANGED app
  BY <1>1, <1>2 DEF LineInv
<1>3. CASE Next
  <2>1. UNCHANGED app \/ (app'.at \in HasLine => {"at", "line"} \subseteq DOMAIN app'
                                                 /\ GoodLine(app'.line))
    BY <1>3, OthersHaveNoLine, ShellKeepsLine DEF Next, PressKey, HoldCtrl
  <2> QED
    BY <1>1, <1>2, <2>1 DEF LineInv
<1> QED
  BY <1>2, <1>3 DEF vars

\* Whatever is typed and erased, at any size of internalBuffer: the command that
\* interpretCommand is given begins with the letters on the screen, and ends with them
\* unless a letter was erased.
THEOREM ShownIsCommanded == Spec => []LineAsShown
<1>1. Init => LineInv
  BY InitRouted DEF Init, LineInv, HasLine
<1>2. LineInv => LineAsShown
  BY GoodLineShows DEF LineInv, LineAsShown, HasLine
<1> QED
  BY <1>1, <1>2, NextLineInv, PTL DEF Spec

-----------------------------------------------------------------------------
(* The body of a snake. *)

Spot == [x : Nat, y : Nat]

\* What SnakeWhole says of the body b.
Whole(b) ==
  /\ b \in Seq(Spot) /\ b # <<>>
  /\ \A k \in 2 .. Len(b) : Near(b[k - 1], b[k])
  /\ IsInjective(b)
  /\ \A k \in 1 .. Len(b) : ~Outside(b[k])

GoodSnake(s) ==
  /\ s \in [body : Seq(Spot), mov : DOMAIN Opposite]
  /\ Whole(s.body)

LEMMA ProductGrows ==
  ASSUME NEW a \in Nat, NEW b \in Nat
  PROVE  a * b \in Nat
OBVIOUS

\* The squares of a new snake lie side by side, to the right of where it starts.
LEMMA NewSnakeIsGood ==
  ASSUME NEW startX \in {StartX, StartX2}
  PROVE  GoodSnake(NewSnake(startX))
<1> DEFINE D == DefaultLength
           S == SquareSize
           X(i) == startX + (D - i) * S
           b == [i \in 1 .. D |-> Point(X(i), StartY)]
<1>1. /\ D \in Nat /\ D >= 1 /\ S \in Nat /\ S > 0 /\ startX \in Nat
      /\ StartY \in Nat /\ InterfaceLength \in Nat /\ Width \in Nat /\ Height \in Nat
      /\ startX + (D - 1) * S < Width
      /\ InterfaceLength <= StartY /\ StartY < Height
  BY FieldAssumption, StartAssumption
<1> HIDE DEF D, S
<1>2. ASSUME NEW i \in 1 .. D
      PROVE  /\ X(i) \in Nat /\ X(i) < Width
             /\ \A j \in 1 .. D : i < j => X(j) + S <= X(i)
             /\ i > 1 => X(i - 1) = X(i) + S
  <2>1. (D - i) * S \in Nat /\ (i - 1) * S \in Nat
    <3>1. D - i \in Nat /\ i - 1 \in Nat
      BY <1>1
    <3> QED
      BY <1>1, <3>1, ProductGrows
  <2>2. X(i) \in Nat
    BY <1>1, <2>1
  <2>3. (D - i) * S + (i - 1) * S = (D - 1) * S
    BY <1>1
  <2>4. X(i) < Width
    BY <1>1, <2>1, <2>3
  <2>5. ASSUME NEW j \in 1 .. D, i < j PROVE X(j) + S <= X(i)
    <3>1. j - i - 1 \in Nat
      BY <2>5, <1>1
    <3>2. (j - i - 1) * S \in Nat
      BY <1>1, <3>1, ProductGrows
    <3>3. (D - i) * S = (D - j) * S + S + (j - i - 1) * S
      BY <1>1
    <3>4. (D - j) * S \in Int
      BY <1>1
    <3> QED
      BY <1>1, <2>1, <3>2, <3>3, <3>4
  <2>6. i > 1 => X(i - 1) = X(i) + S
    <3>1. (D - (i - 1)) * S = (D - i) * S + S
      BY <1>1
    <3> QED
      BY <1>1, <2>1, <3>1
  <2> QED
    BY <2>2, <2>4, <2>5, <2>6
<1> HIDE DEF X
<1>3. \A i \in 1 .. D : Point(X(i), StartY) \in Spot
  BY <1>1, <1>2 DEF Point, Spot
<1>4. b \in Seq(Spot) /\ Len(b) = D /\ b # <<>>
      /\ \A i \in 1 .. D : b[i].x = X(i) /\ b[i].y = StartY
  BY <1>1, <1>3 DEF Point
<1> HIDE DEF b
<1>5. ASSUME NEW k \in 2 .. D PROVE Near(b[k - 1], b[k])
  <2>1. k \in 1 .. D /\ k - 1 \in 1 .. D /\ k > 1
    BY <1>1
  <2>2. X(k - 1) = X(k) + S
    BY <1>2, <2>1
  <2> QED
    BY <1>4, <2>1, <2>2 DEF Near, S
<1>6. IsInjective(b)
  <2>1. ASSUME NEW i \in 1 .. D, NEW j \in 1 .. D, i < j PROVE X(i) # X(j)
    BY <1>1, <1>2, <2>1
  <2>2. \A i, j \in 1 .. D : X(i) = X(j) => i = j
    BY <1>1, <2>1
  <2>3. DOMAIN b = 1 .. D
    BY <1>4
  <2> QED
    BY <1>4, <2>2, <2>3 DEF IsInjective
<1>7. \A k \in 1 .. D : ~Outside(b[k])
  BY <1>1, <1>2, <1>4 DEF Outside
<1>8. NewSnake(startX) = [body |-> b, mov |-> "down"]
  BY DEF NewSnake, b, X, D, S
<1>9. Whole(b)
  BY <1>4, <1>5, <1>6, <1>7 DEF Whole
<1> QED
  BY <1>4, <1>8, <1>9 DEF GoodSnake, Opposite

\* A key changes the direction only.
LEMMA SteerIsGood ==
  ASSUME NEW s, GoodSnake(s), NEW c
  PROVE  GoodSnake(Steer(s, c)) /\ GoodSnake(SteerSecond(s, c))
<1>1. ASSUME NEW m \in DOMAIN Opposite PROVE GoodSnake(Turn(s, m))
  BY <1>1 DEF Turn, GoodSnake
<1>2. c \in DOMAIN FirstPlayer => FirstPlayer[c] \in DOMAIN Opposite
  BY DEF FirstPlayer, Opposite
<1> QED
  BY <1>1, <1>2 DEF Steer, SteerSecond

\* A head that is on the field did not wrap: it is next to where it was.
LEMMA AheadIsNear ==
  ASSUME NEW s, GoodSnake(s), ~Outside(Ahead(s))
  PROVE  /\ Ahead(s) \in Spot
         /\ Near(Ahead(s), s.body[1])
         /\ Ahead(s) # s.body[1]
<1> DEFINE h == s.body[1]
           S == SquareSize
<1>1. h \in Spot /\ ~Outside(h)
  BY DEF GoodSnake, Whole
<1>2. /\ S \in Nat /\ S > 0 /\ Width \in Nat /\ Height \in Nat
      /\ InterfaceLength \in Nat
      /\ Width + S <= 65536 /\ Height + S <= 65536
  BY FieldAssumption, StartAssumption DEF Word
<1>3. h.x \in Nat /\ h.y \in Nat /\ h.x < Width /\ h.y < Height
  BY <1>1, <1>2 DEF Spot, Outside
<1>4. s.mov \in {"up", "down", "left", "right"}
  BY DEF GoodSnake, Opposite
<1> HIDE DEF h, S
<1>5. /\ (h.x + S) % 65536 = h.x + S
      /\ (h.y + S) % 65536 = h.y + S
      /\ h.x >= S => (h.x - S) % 65536 = h.x - S
      /\ h.y >= S => (h.y - S) % 65536 = h.y - S
      /\ h.x < S => (h.x - S) % 65536 = 65536 + h.x - S
      /\ h.y < S => (h.y - S) % 65536 = 65536 + h.y - S
  BY <1>2, <1>3
<1>6. CASE s.mov = "down"
  <2>1. Ahead(s) = [x |-> h.x, y |-> h.y + S]
    BY <1>5, <1>6 DEF Ahead, Point, Word, h, S
  <2> QED
    BY <1>2, <1>3, <2>1 DEF Spot, Near, h, S
<1>7. CASE s.mov = "right"
  <2>1. Ahead(s) = [x |-> h.x + S, y |-> h.y]
    BY <1>5, <1>7 DEF Ahead, Point, Word, h, S
  <2> QED
    BY <1>2, <1>3, <2>1 DEF Spot, Near, h, S
<1>8. CASE s.mov = "up"
  <2>1. Ahead(s) = [x |-> h.x, y |-> (h.y - S) % 65536]
    BY <1>8 DEF Ahead, Point, Word, h, S
  <2>2. h.y >= S
    BY <1>2, <1>3, <1>5, <2>1 DEF Outside
  <2>3. Ahead(s).x = h.x /\ Ahead(s).y = h.y - S /\ Ahead(s) \in Spot
    BY <1>2, <1>3, <1>5, <2>1, <2>2 DEF Spot
  <2> QED
    BY <1>2, <1>3, <2>3 DEF Near, h, S
<1>9. CASE s.mov = "left"
  <2>1. Ahead(s) = [x |-> (h.x - S) % 65536, y |-> h.y]
    BY <1>9 DEF Ahead, Point, Word, h, S
  <2>2. h.x >= S
    BY <1>2, <1>3, <1>5, <2>1 DEF Outside
  <2>3. Ahead(s).x = h.x - S /\ Ahead(s).y = h.y /\ Ahead(s) \in Spot
    BY <1>2, <1>3, <1>5, <2>1, <2>2 DEF Spot
  <2> QED
    BY <1>2, <1>3, <2>3 DEF Near, h, S
<1> QED
  BY <1>4, <1>6, <1>7, <1>8, <1>9

\* A square in front of a body that it does not touch but at its head.
LEMMA WholeGrows ==
  ASSUME NEW b, Whole(b), NEW h \in Spot, Near(h, b[1]), ~Outside(h),
         \A i \in 1 .. Len(b) : b[i] # h
  PROVE  Whole(<<h>> \o b)
<1> DEFINE r == <<h>> \o b
<1>1. b \in Seq(Spot) /\ Len(b) \in Nat /\ Len(b) >= 1
  BY DEF Whole
<1>2. /\ r \in Seq(Spot) /\ Len(r) = Len(b) + 1 /\ r # <<>>
      /\ r[1] = h
      /\ \A i \in 2 .. Len(b) + 1 : r[i] = b[i - 1]
  BY <1>1
<1> HIDE DEF r
<1>3. ASSUME NEW k \in 2 .. Len(r) PROVE Near(r[k - 1], r[k])
  <2>1. CASE k = 2
    BY <1>1, <1>2, <2>1
  <2>2. CASE k # 2
    <3>1. k - 1 \in 2 .. Len(b) /\ k \in 2 .. Len(b) + 1 /\ k - 1 \in 2 .. Len(b) + 1
      BY <1>1, <1>2, <2>2
    <3>2. r[k] = b[k - 1] /\ r[k - 1] = b[(k - 1) - 1]
      BY <1>2, <3>1
    <3> QED
      BY <3>1, <3>2 DEF Whole
  <2> QED
    BY <2>1, <2>2
<1>4. IsInjective(r)
  <2>1. DOMAIN r = 1 .. Len(b) + 1 /\ DOMAIN b = 1 .. Len(b)
    BY <1>1, <1>2
  <2>2. ASSUME NEW i \in 1 .. Len(b) + 1, NEW j \in 1 .. Len(b) + 1, i < j
        PROVE  r[i] # r[j]
    <3>1. j - 1 \in 1 .. Len(b) /\ r[j] = b[j - 1] /\ i < j
      BY <1>1, <1>2, <2>2
    <3>2. CASE i = 1
      BY <1>2, <3>1, <3>2
    <3>3. CASE i # 1
      <4>1. i - 1 \in 1 .. Len(b) /\ r[i] = b[i - 1] /\ i - 1 # j - 1
        BY <1>1, <1>2, <2>2, <3>3
      <4> QED
        BY <2>1, <3>1, <4>1 DEF Whole, IsInjective
    <3> QED
      BY <3>2, <3>3
  <2>3. \A i, j \in 1 .. Len(b) + 1 : r[i] = r[j] => i = j
    BY <1>1, <2>2
  <2> QED
    BY <2>1, <2>3 DEF IsInjective
<1>5. ASSUME NEW k \in 1 .. Len(r) PROVE ~Outside(r[k])
  <2>1. k = 1 \/ (k - 1 \in 1 .. Len(b) /\ r[k] = b[k - 1])
    BY <1>1, <1>2
  <2> QED
    BY <1>2, <2>1 DEF Whole
<1> QED
  BY <1>2, <1>3, <1>4, <1>5 DEF Whole, r

LEMMA FrontProperties ==
  ASSUME NEW S, NEW b \in Seq(S), Len(b) >= 1
  PROVE  /\ Front(b) \in Seq(S)
         /\ Len(Front(b)) = Len(b) - 1
         /\ \A i \in 1 .. Len(b) - 1 : Front(b)[i] = b[i]
<1> DEFINE n == Len(b) - 1
           t == SubSeq(b, 1, n)
<1>1. Len(b) \in Nat /\ n \in Nat /\ \A i \in 1 .. n : b[i] \in S
  OBVIOUS
<1>2. Front(b) = t
  BY DEF Front
<1> HIDE DEF n
<1>3. /\ t \in Seq(S)
      /\ Len(t) = IF 1 <= n THEN n - 1 + 1 ELSE 0
      /\ \A i \in 1 .. n - 1 + 1 : t[i] = b[1 + i - 1]
  BY <1>1, SubSeqProperties, SMTT(30)
<1> HIDE DEF t
<1>4. Len(t) = n
  BY <1>1, <1>3
<1>5. \A i \in 1 .. n : t[i] = b[i]
  BY <1>1, <1>3
<1> QED
  BY <1>2, <1>3, <1>4, <1>5 DEF n

\* What is left when the last square goes.
LEMMA WholeShrinks ==
  ASSUME NEW b, Whole(b), Len(b) > 1
  PROVE  Whole(Front(b))
<1> DEFINE r == Front(b)
<1>1. b \in Seq(Spot) /\ Len(b) \in Nat
  BY DEF Whole
<1>2. /\ r \in Seq(Spot) /\ Len(r) = Len(b) - 1
      /\ \A i \in 1 .. Len(b) - 1 : r[i] = b[i]
  BY <1>1, FrontProperties
<1> HIDE DEF r
<1>3. r # <<>>
  BY <1>1, <1>2
<1>4. ASSUME NEW k \in 2 .. Len(r) PROVE Near(r[k - 1], r[k])
  <2>1. k - 1 \in 1 .. Len(b) - 1 /\ k \in 1 .. Len(b) - 1 /\ k \in 2 .. Len(b)
    BY <1>1, <1>2
  <2> QED
    BY <1>2, <2>1 DEF Whole
<1>5. IsInjective(r)
  <2>1. DOMAIN r = 1 .. Len(b) - 1 /\ DOMAIN b = 1 .. Len(b)
    BY <1>1, <1>2
  <2>2. \A i, j \in 1 .. Len(b) : b[i] = b[j] => i = j
    BY <2>1 DEF Whole, IsInjective
  <2>3. \A i, j \in 1 .. Len(b) - 1 : r[i] = r[j] => i = j
    BY <1>1, <1>2, <2>2
  <2> QED
    BY <2>1, <2>3 DEF IsInjective
<1>6. \A k \in 1 .. Len(r) : ~Outside(r[k])
  BY <1>1, <1>2 DEF Whole
<1> QED
  BY <1>2, <1>3, <1>4, <1>5, <1>6 DEF Whole, r

\* A snake that did not crash, and one that has eaten.
LEMMA AdvanceIsGood ==
  ASSUME NEW s, GoodSnake(s), NEW fed, fed = s \/ fed = Eat(s), ~Crashes(fed)
  PROVE  GoodSnake(Advance(fed))
<1> DEFINE b == s.body
           h == Ahead(s)
<1>1. b \in Seq(Spot) /\ Len(b) \in Nat /\ Len(b) >= 1 /\ Whole(b)
      /\ s \in [body : Seq(Spot), mov : DOMAIN Opposite]
  BY DEF GoodSnake, Whole
<1>2. Last(b) \in Spot
  BY <1>1 DEF Last
<1>3. /\ Append(b, Last(b)) \in Seq(Spot)
      /\ Len(Append(b, Last(b))) = Len(b) + 1
      /\ \A i \in 1 .. Len(b) : Append(b, Last(b))[i] = b[i]
  BY <1>1, <1>2
<1>4. /\ fed \in [body : Seq(Spot), mov : DOMAIN Opposite]
      /\ fed.mov = s.mov
      /\ fed.body = b \/ fed.body = Append(b, Last(b))
  BY <1>1, <1>3 DEF Eat
<1>5. fed.body[1] = b[1] /\ Len(fed.body) >= Len(b) /\ Len(fed.body) \in Nat
      /\ \A i \in 1 .. Len(b) : fed.body[i] = b[i]
  BY <1>1, <1>3, <1>4
<1>6. Ahead(fed) = h
  BY <1>4, <1>5 DEF Ahead
<1>7. ~Outside(h) /\ \A i \in 2 .. Len(b) : b[i] # h
  BY <1>5, <1>6 DEF Crashes, Bites
<1>8. h \in Spot /\ Near(h, b[1]) /\ h # b[1]
  BY <1>7, AheadIsNear
<1> HIDE DEF b, h
<1>9. \A i \in 1 .. Len(b) : b[i] # h
  BY <1>1, <1>7, <1>8
<1>10. Whole(<<h>> \o b)
  BY <1>1, <1>7, <1>8, <1>9, WholeGrows
<1>11. Whole(<<h>> \o Front(fed.body))
  <2>1. CASE fed.body = Append(b, Last(b))
    <3>1. Front(fed.body) \in Seq(Spot) /\ Len(Front(fed.body)) = Len(b)
          /\ \A i \in 1 .. Len(b) : Front(fed.body)[i] = b[i]
      BY <1>1, <1>3, <2>1 DEF Front
    <3>2. Front(fed.body) = b
      BY <1>1, <3>1, SeqEqual
    <3> QED
      BY <1>10, <3>2
  <2>2. CASE fed.body = b
    <3> DEFINE longer == <<h>> \o b
               t == Front(b)
    <3>1. /\ longer \in Seq(Spot) /\ Len(longer) = Len(b) + 1
          /\ \A i \in 1 .. Len(b) + 1 : longer[i] = IF i = 1 THEN h ELSE b[i - 1]
      BY <1>1, <1>8
    <3>2. t \in Seq(Spot) /\ Len(t) = Len(b) - 1
          /\ \A i \in 1 .. Len(b) - 1 : t[i] = b[i]
      BY <1>1, FrontProperties
    <3> HIDE DEF longer, t
    <3>3. Front(longer) \in Seq(Spot) /\ Len(Front(longer)) = Len(b)
          /\ \A i \in 1 .. Len(b) : Front(longer)[i] = longer[i]
      BY <1>1, <3>1, FrontProperties
    <3>4. <<h>> \o t \in Seq(Spot) /\ Len(<<h>> \o t) = Len(b)
          /\ \A i \in 1 .. Len(b) : (<<h>> \o t)[i] = IF i = 1 THEN h ELSE t[i - 1]
      BY <1>1, <1>8, <3>2
    <3>5. ASSUME NEW i \in 1 .. Len(b) PROVE (<<h>> \o t)[i] = Front(longer)[i]
      BY <1>1, <3>1, <3>2, <3>3, <3>4
    <3>6. <<h>> \o t = Front(longer)
      BY <3>3, <3>4, <3>5, SeqEqual, SMTT(30)
    <3>7. Whole(longer)
      BY <1>10 DEF longer
    <3>8. Whole(Front(longer))
      BY <1>1, <3>1, <3>7, WholeShrinks
    <3> QED
      BY <2>2, <3>6, <3>8 DEF t
  <2> QED
    BY <1>4, <2>1, <2>2 DEF b
<1>12. Advance(fed) = [fed EXCEPT !.body = <<h>> \o Front(fed.body)]
  BY <1>4, <1>6 DEF Advance, h
<1>13. <<h>> \o Front(fed.body) \in Seq(Spot)
  BY <1>11 DEF Whole
<1> QED
  BY <1>4, <1>11, <1>12, <1>13 DEF GoodSnake

-----------------------------------------------------------------------------
(* The games. *)

InGame == {"starting", "playing", "over", "ending"}

GoodSnakes(snakes, n) ==
  /\ DOMAIN snakes = 1 .. n
  /\ \A i \in 1 .. n : GoodSnake(snakes[i])

\* From the menu to the last key of a game its number says how many snakes there are.
GameInv ==
  /\ Routed
  /\ app.at \in InGame => {"at", "game"} \subseteq DOMAIN app /\ app.game \in {1, 2}
  /\ app.at = "playing" => "snakes" \in DOMAIN app /\ GoodSnakes(app.snakes, app.game)

\* What GameInv says of the program after a step.
GameKept ==
  /\ app'.at \in InGame => {"at", "game"} \subseteq DOMAIN app' /\ app'.game \in {1, 2}
  /\ app'.at = "playing" =>
       "snakes" \in DOMAIN app' /\ GoodSnakes(app'.snakes, app'.game)

LEMMA SteeredAreGood ==
  ASSUME NEW snakes, NEW n \in {1, 2}, GoodSnakes(snakes, n), NEW c
  PROVE  GoodSnakes(Steered(snakes, c), n)
BY SteerIsGood DEF GoodSnakes, Steered

\* Only a game leads into a game, but for the menu, which starts one.
LEMMA ElsewhereNoGame ==
  ASSUME GameInv,
         \/ Loader \/ StartMain
         \/ \E c \in Char :
              Hover(c) \/ AnyKey(c) \/ EditLine(c) \/ CommandKey(c) \/ Cat(c) \/ OtherKey(c)
         \/ Select \/ LeaveShell \/ EndTest
         \/ \E cmd \in CommandType : Interpret(cmd)
         \/ BeginDinner \/ PollDinner \/ EndDinner
         \/ EndGame \/ Replay \/ LeaveGame
  PROVE  GameKept
<1> USE DEF GameKept
<1>1. CASE app' = app
  BY <1>1 DEF GameInv
<1>2. CASE app' = Menu \/ app' = Shell \/ app' = [at |-> "any_key"] \/ app' = NextLine(app)
  BY <1>2 DEF Menu, Shell, NextLine, InGame
<1>3. CASE \E game \in {1, 2} : app' = Starting(game)
  BY <1>3 DEF Starting
<1>4. CASE \E at : at \notin InGame /\ app' = [app EXCEPT !.at = at]
  BY <1>4 DEF GameInv, Routed, InGame
<1>5. CASE /\ app.at \notin InGame
           /\ \E hover : app' = [app EXCEPT !.hover = hover]
  BY <1>5 DEF GameInv, Routed, InGame
<1>6. CASE /\ app.at \notin InGame
           /\ \E line : app' = [app EXCEPT !.line = line]
  BY <1>6 DEF GameInv, Routed, InGame
<1>7. CASE Loader
  <2>1. \/ \E m : app.at = "boot" /\ app' = [app EXCEPT !.machine = m]
        \/ \E m : app' = [app EXCEPT !.at = "loaded", !.machine = m]
    BY <1>7 DEF Loader
  <2> QED
    BY <2>1 DEF GameInv, Routed, InGame
<1>8. CASE EndGame
  BY <1>8 DEF GameInv, EndGame, InGame
<1>9. CASE Replay
  BY <1>3, <1>9 DEF GameInv, Replay, Reads, InGame
<1>10. CASE \E c \in Char : Hover(c) \/ AnyKey(c) \/ OtherKey(c)
  <2>1. PICK c \in Char : Hover(c) \/ AnyKey(c) \/ OtherKey(c)
    BY <1>10
  <2>2. \/ app' = app \/ app' = Menu
        \/ /\ app.at = "menu"
           /\ \E hover : app' = [app EXCEPT !.hover = hover]
    BY <2>1 DEF Hover, AnyKey, OtherKey, Reads
  <2> QED
    BY <1>1, <1>2, <1>5, <2>2 DEF InGame
<1>11. CASE \E c \in Char : EditLine(c) \/ CommandKey(c) \/ Cat(c)
  <2>1. PICK c \in Char : EditLine(c) \/ CommandKey(c) \/ Cat(c)
    BY <1>11
  <2>2. \/ app' = app \/ app' = NextLine(app)
        \/ /\ app.at = "shell"
           /\ \E line : app' = [app EXCEPT !.line = line]
    BY <2>1 DEF EditLine, CommandKey, Cat, Reads
  <2> QED
    BY <1>1, <1>2, <1>6, <2>2 DEF InGame
<1>12. CASE Select
  BY <1>2, <1>3, <1>12 DEF Select
<1>13. CASE \E cmd \in CommandType : Interpret(cmd)
  <2>1. \/ app' \in {Menu, NextLine(app)}
        \/ \E at \in {"command_key", "test", "cat", "sets_table"} :
             app' = [app EXCEPT !.at = at]
    BY <1>13 DEF Interpret, CommandType
  <2> QED
    BY <1>2, <1>4, <2>1 DEF InGame
<1>14. CASE EndTest \/ BeginDinner \/ PollDinner \/ EndDinner
  <2>1. \/ app' = app \/ app' = NextLine(app)
        \/ \E at \in {"command_key", "dinner", "clears_table"} :
             app' = [app EXCEPT !.at = at]
    BY <1>14 DEF EndTest, BeginDinner, PollDinner, EndDinner
  <2> QED
    BY <1>1, <1>2, <1>4, <2>1 DEF InGame
<1>15. CASE StartMain \/ LeaveShell \/ LeaveGame
  BY <1>2, <1>15 DEF StartMain, LeaveShell, LeaveGame
<1> QED
  BY <1>7, <1>8, <1>9, <1>10, <1>11, <1>12, <1>13, <1>14, <1>15

LEMMA BeginGameKeeps == GameInv /\ BeginGame => GameKept
<1> SUFFICES ASSUME GameInv, BeginGame PROVE GameKept
  OBVIOUS
<1> DEFINE snakes == IF app.game = 1 THEN <<NewSnake(StartX)>>
                     ELSE <<NewSnake(StartX), NewSnake(StartX2)>>
<1>1. app.game \in {1, 2}
  BY DEF GameInv, BeginGame, InGame
<1>2. PICK face : app' = [at |-> "playing", game |-> app.game, snakes |-> snakes,
                          face |-> face]
  BY DEF BeginGame
<1>3. GoodSnakes(snakes, app.game)
  <2>1. GoodSnake(NewSnake(StartX)) /\ GoodSnake(NewSnake(StartX2))
    BY NewSnakeIsGood
  <2>2. CASE app.game = 1
    BY <2>1, <2>2 DEF GoodSnakes
  <2>3. CASE app.game = 2
    BY <2>1, <2>3 DEF GoodSnakes
  <2> QED
    BY <1>1, <2>2, <2>3
<1> HIDE DEF snakes
<1> QED
  BY <1>1, <1>2, <1>3 DEF GameKept, InGame

LEMMA PollGameKeeps == GameInv /\ PollGame => GameKept
<1> SUFFICES ASSUME GameInv, PollGame PROVE GameKept
  OBVIOUS
<1>1. /\ app.at = "playing" /\ app.game \in {1, 2}
      /\ {"at", "game", "snakes"} \subseteq DOMAIN app
      /\ GoodSnakes(app.snakes, app.game)
  BY DEF GameInv, PollGame, InGame
<1> DEFINE t == Steered(app.snakes, KbChar(keys))
<1>2. GoodSnakes(t, app.game)
  BY <1>1, SteeredAreGood
<1>3. app' = [app EXCEPT !.snakes = t]
  BY DEF PollGame
<1> HIDE DEF t
<1> QED
  BY <1>1, <1>2, <1>3 DEF GameKept, InGame

LEMMA TickKeeps == GameInv /\ Tick => GameKept
<1> SUFFICES ASSUME GameInv, Tick PROVE GameKept
  OBVIOUS
<1>1. /\ app.at = "playing" /\ app.game = 1
      /\ {"at", "game", "snakes"} \subseteq DOMAIN app
      /\ GoodSnakes(app.snakes, 1)
  BY DEF GameInv, Tick, InGame
<1> DEFINE s == Steered(app.snakes, KbChar(keys))[1]
           fed == IF Reaches(Ahead(s), app.face) THEN Eat(s) ELSE s
<1>2. GoodSnake(s)
  BY <1>1, SteeredAreGood DEF GoodSnakes
<1>3. PICK face : app' = IF Crashes(fed) THEN Over(1, 1)
                         ELSE [app EXCEPT !.snakes = <<Advance(fed)>>, !.face = face]
  BY Zenon DEF Tick
<1>4. fed = s \/ fed = Eat(s)
  OBVIOUS
<1> HIDE DEF s, fed
<1>5. CASE Crashes(fed)
  <2>1. app' = Over(1, 1)
    BY <1>3, <1>5
  <2> QED
    BY <2>1 DEF Over, GameKept
<1>6. CASE ~Crashes(fed)
  <2>1. app' = [app EXCEPT !.snakes = <<Advance(fed)>>, !.face = face]
    BY <1>3, <1>6
  <2>2. GoodSnake(Advance(fed))
    BY <1>2, <1>4, <1>6, AdvanceIsGood
  <2>3. GoodSnakes(<<Advance(fed)>>, 1)
    BY <2>2 DEF GoodSnakes
  <2> QED
    BY <1>1, <2>1, <2>3 DEF GameKept
<1> QED
  BY <1>5, <1>6

LEMMA TickTwoKeeps == GameInv /\ TickTwo => GameKept
<1> SUFFICES ASSUME GameInv, TickTwo PROVE GameKept
  OBVIOUS
<1>1. /\ app.at = "playing" /\ app.game = 2
      /\ {"at", "game", "snakes"} \subseteq DOMAIN app
      /\ GoodSnakes(app.snakes, 2)
  BY DEF GameInv, TickTwo, InGame
<1> DEFINE s == Steered(app.snakes, KbChar(keys))
<1>2. GoodSnakes(s, 2)
  BY <1>1, SteeredAreGood
<1>3. \/ \E winner : app' = Over(2, winner)
      \/ /\ ~Crashes(s[1]) /\ ~Crashes(s[2])
         /\ app' = [app EXCEPT !.snakes = <<Advance(s[1]), Advance(s[2])>>]
  BY SMTT(30) DEF TickTwo
<1> HIDE DEF s
<1>4. CASE \E winner : app' = Over(2, winner)
  BY <1>4 DEF Over, GameKept
<1>5. CASE /\ ~Crashes(s[1]) /\ ~Crashes(s[2])
           /\ app' = [app EXCEPT !.snakes = <<Advance(s[1]), Advance(s[2])>>]
  <2>1. GoodSnake(Advance(s[1])) /\ GoodSnake(Advance(s[2]))
    BY <1>2, <1>5, AdvanceIsGood DEF GoodSnakes
  <2>2. GoodSnakes(<<Advance(s[1]), Advance(s[2])>>, 2)
    BY <2>1 DEF GoodSnakes
  <2> QED
    BY <1>1, <1>5, <2>2 DEF GameKept
<1> QED
  BY <1>3, <1>4, <1>5

LEMMA NextGameInv == GameInv /\ [Next]_vars => GameInv'
<1> SUFFICES ASSUME GameInv, [Next]_vars PROVE GameInv'
  OBVIOUS
<1>1. Routed'
  BY NextRouted DEF GameInv
<1>2. CASE UNCHANGED app
  BY <1>1, <1>2 DEF GameInv
<1>3. CASE Next
  <2>1. UNCHANGED app \/ GameKept
    BY <1>3, ElsewhereNoGame, BeginGameKeeps, PollGameKeeps, TickKeeps, TickTwoKeeps
    DEF Next, PressKey, HoldCtrl
  <2> QED
    BY <1>1, <1>2, <2>1 DEF GameInv, GameKept
<1> QED
  BY <1>2, <1>3 DEF vars

LEMMA GameIsWhole == GameInv => SnakeWhole
<1> SUFFICES ASSUME GameInv, app.at = "playing", NEW i \in DOMAIN app.snakes
             PROVE  LET body == app.snakes[i].body
                    IN /\ \A k \in 2 .. Len(body) : Near(body[k - 1], body[k])
                       /\ IsInjective(body)
                       /\ \A k \in DOMAIN body : ~Outside(body[k])
  BY DEF SnakeWhole
<1>1. Whole(app.snakes[i].body)
  BY DEF GameInv, GoodSnakes, GoodSnake
<1> QED
  BY <1>1 DEF Whole

\* On a field of any size, with snakes of any length, steered by any keys: the squares of
\* each snake are a chain on the field that never crosses itself, also when it has eaten,
\* although the coordinates are unsigned and the tail is doubled before the head moves.
THEOREM SnakesStayWhole == Spec => []SnakeWhole
<1>1. Init => GameInv
  BY InitRouted DEF Init, GameInv, InGame
<1> QED
  BY <1>1, NextGameInv, GameIsWhole, PTL DEF Spec

-----------------------------------------------------------------------------
(* The packed image. *)

\* A module behind its size.
Packed(f) == <<Len(f)>> \o f

LEMMA FileProperties ==
  ASSUME NEW files \in Files
  PROVE  /\ Len(files) \in {1, 2} /\ DOMAIN files = 1 .. Len(files)
         /\ files \in Seq(Seq(Byte))
         /\ \A i \in 1 .. Len(files) :
              /\ files[i] \in Seq(Byte)
              /\ Len(files[i]) \in 0 .. MaxSize
              /\ DOMAIN files[i] = 1 .. Len(files[i])
<1>1. MaxSize \in Nat
  BY LayoutAssumption
<1>2. PICK n \in 1 .. 2 : files \in [1 .. n -> SeqOf(Byte, MaxSize)]
  BY DEF Files, MaxModules
<1>3. ASSUME NEW f \in SeqOf(Byte, MaxSize)
      PROVE  f \in Seq(Byte) /\ Len(f) \in 0 .. MaxSize /\ DOMAIN f = 1 .. Len(f)
  <2>1. PICK m \in 0 .. MaxSize : f \in [1 .. m -> Byte]
    BY DEF SeqOf
  <2>2. m \in Nat
    BY <1>1
  <2> QED
    BY <2>1, <2>2
<1>4. \A i \in 1 .. n : files[i] \in SeqOf(Byte, MaxSize)
  BY <1>2
<1>5. files \in [1 .. n -> Seq(Byte)]
  BY <1>2, <1>3
<1> QED
  BY <1>2, <1>3, <1>4, <1>5

\* FlattenSeq of the lists there are.
LEMMA FlattenOneOrTwo ==
  ASSUME NEW S, NEW seqs \in Seq(Seq(S)), Len(seqs) \in {1, 2}
  PROVE  /\ Len(seqs) = 1 => FlattenSeq(seqs) = seqs[1]
         /\ Len(seqs) = 2 => FlattenSeq(seqs) = seqs[1] \o seqs[2]
<1> DEFINE n == Len(seqs)
           Is(g) == g = [i \in 1 .. n |-> IF i = 1 THEN seqs[i] ELSE g[i - 1] \o seqs[i]]
           g0 == [i \in 1 .. n |-> IF i = 1 THEN seqs[1] ELSE seqs[1] \o seqs[2]]
           flatten == CHOOSE g : Is(g)
<1>1. FlattenSeq(seqs) = flatten[n]
  BY DEF FlattenSeq
<1>2. Is(g0)
  <2>1. ASSUME NEW i \in 1 .. n
        PROVE  g0[i] = IF i = 1 THEN seqs[i] ELSE g0[i - 1] \o seqs[i]
    <3>1. CASE n = 1
      BY <3>1
    <3>2. CASE n = 2
      BY <3>2
    <3> QED
      BY <3>1, <3>2
  <2> QED
    BY <2>1
<1>3. Is(flatten)
  <2> HIDE DEF Is
  <2> QED
    BY <1>2
<1> HIDE DEF flatten
<1>4. \A i \in 1 .. n : flatten[i] = IF i = 1 THEN seqs[i] ELSE flatten[i - 1] \o seqs[i]
  BY <1>3
<1>5. flatten[1] = seqs[1]
  BY <1>4
<1>6. n = 2 => flatten[2] = seqs[1] \o seqs[2]
  <2> SUFFICES ASSUME n = 2 PROVE flatten[2] = seqs[1] \o seqs[2]
    OBVIOUS
  <2>1. flatten[2] = flatten[2 - 1] \o seqs[2]
    BY <1>4
  <2>2. flatten[2 - 1] = seqs[1]
    BY <1>5
  <2> QED
    BY <2>1, <2>2
<1> QED
  BY <1>1, <1>5, <1>6

\* The address of the size of module i, and that behind all of them.
Start(files, i) ==
  CASE i = 1 -> 1
    [] i = 2 -> 2 + Len(files[1])
    [] OTHER -> 3 + Len(files[1]) + Len(files[2])

LEMMA LayoutFits ==
  /\ MaxSize \in Nat /\ BssSize \in Nat /\ FirstTarget \in Nat /\ Gap \in Nat
  /\ MaxSize <= Gap /\ 3 + 2 * MaxSize <= FirstTarget /\ BssSize <= FirstTarget
  /\ Address = 0 .. FirstTarget + 2 * Gap - 1
  /\ Target(1) = FirstTarget /\ Target(2) = FirstTarget + Gap
<1>1. /\ MaxSize \in Nat /\ BssSize \in Nat /\ FirstTarget \in Nat /\ Gap \in Nat
      /\ MaxSize <= Gap /\ 1 + 2 * (1 + MaxSize) <= FirstTarget
      /\ BssSize <= FirstTarget
  BY LayoutAssumption DEF MaxModules
<1> QED
  BY <1>1 DEF Address, MaxModules, Target

LEMMA JoinProperties ==
  ASSUME NEW S, NEW p \in Seq(S), NEW q \in Seq(S)
  PROVE  /\ p \o q \in Seq(S) /\ Len(p \o q) = Len(p) + Len(q)
         /\ \A k \in 1 .. Len(p) : (p \o q)[k] = p[k]
         /\ \A k \in 1 .. Len(q) : (p \o q)[Len(p) + k] = q[k]
BY ConcatProperties

\* What the packer writes, where the loader will look for it.
LEMMA PackedImage ==
  ASSUME NEW files \in Files
  PROVE  /\ Len(Pack(files)) \in 1 .. FirstTarget
         /\ Pack(files)[1] = Len(files)
         /\ \A i \in 1 .. Len(files) :
              /\ Start(files, i) + Len(files[i]) < Len(Pack(files))
              /\ Pack(files)[Start(files, i) + 1] = Len(files[i])
              /\ \A k \in 1 .. Len(files[i]) :
                   Pack(files)[Start(files, i) + k + 1] = files[i][k]
<1> DEFINE n == Len(files)
           V == Byte \cup Nat
           image == Pack(files)
           parts == [i \in DOMAIN files |-> <<Len(files[i])>> \o files[i]]
<1>1. /\ n \in {1, 2} /\ DOMAIN files = 1 .. n
      /\ \A i \in 1 .. n : /\ files[i] \in Seq(V)
                           /\ Len(files[i]) \in 0 .. MaxSize /\ Len(files[i]) \in Nat
  <2>1. \A i \in 1 .. n : files[i] \in Seq(Byte)
    BY FileProperties
  <2>2. \A i \in 1 .. n : files[i] \in Seq(V)
    BY <2>1
  <2>3. MaxSize \in Nat
    BY LayoutFits
  <2> QED
    BY <2>2, <2>3, FileProperties
<1>2. parts = [i \in 1 .. n |-> <<Len(files[i])>> \o files[i]]
      /\ Len(parts) = n
  BY <1>1
<1>3. image = <<n>> \o FlattenSeq(parts)
  BY DEF Pack
<1> HIDE DEF n, V, image, parts
<1>4. ASSUME NEW i \in 1 .. n
      PROVE  /\ parts[i] \in Seq(V) /\ Len(parts[i]) = 1 + Len(files[i])
             /\ parts[i][1] = Len(files[i])
             /\ \A k \in 1 .. Len(files[i]) : parts[i][k + 1] = files[i][k]
  <2> DEFINE f == files[i]
             p == <<Len(f)>> \o f
  <2>1. f \in Seq(V) /\ Len(f) \in V /\ Len(f) \in Nat
    BY <1>1 DEF V
  <2>2. parts[i] = p
    BY <1>2
  <2> HIDE DEF f
  <2>3. p \in Seq(V) /\ Len(p) = 1 + Len(f) /\ p[1] = Len(f)
        /\ \A k \in 1 .. Len(f) : p[k + 1] = f[k]
    BY <2>1
  <2> HIDE DEF p
  <2> QED
    BY <2>2, <2>3 DEF f
<1>5. FlattenSeq(parts) = IF n = 1 THEN parts[1] ELSE parts[1] \o parts[2]
  <2>1. Len(parts) \in {1, 2} /\ parts \in Seq(Seq(V))
    <3>1. parts = [i \in 1 .. n |-> parts[i]] /\ Len(parts) = n
      BY <1>2
    <3> QED
      BY <1>1, <1>4, <3>1
  <2>2. /\ Len(parts) = 1 => FlattenSeq(parts) = parts[1]
        /\ Len(parts) = 2 => FlattenSeq(parts) = parts[1] \o parts[2]
    BY <2>1, FlattenOneOrTwo
  <2> QED
    BY <1>1, <1>2, <2>2
<1>6. n \in V
  BY <1>1 DEF V
<1>7. CASE n = 1
  <2> DEFINE p == parts[1]
             f == files[1]
  <2>1. /\ p \in Seq(V) /\ Len(p) = 1 + Len(f) /\ Len(f) \in Nat
        /\ p[1] = Len(f) /\ \A k \in 1 .. Len(f) : p[k + 1] = f[k]
        /\ Len(f) <= MaxSize
    BY <1>1, <1>4, <1>7, LayoutFits
  <2>2. image = <<n>> \o p
    BY <1>3, <1>5, <1>7
  <2> HIDE DEF p, f
  <2>3. /\ Len(image) = 2 + Len(f) /\ image[1] = n
        /\ \A k \in 1 .. Len(p) : image[k + 1] = p[k]
    BY <1>6, <2>1, <2>2
  <2>4. image[1 + 1] = Len(f)
    BY <2>1, <2>3
  <2>5. ASSUME NEW k \in 1 .. Len(f) PROVE image[1 + k + 1] = f[k]
    <3>1. k + 1 \in 1 .. Len(p)
      BY <2>1
    <3>2. image[(k + 1) + 1] = f[k]
      BY <2>1, <2>3, <3>1
    <3>3. (k + 1) + 1 = 1 + k + 1
      BY <2>1
    <3> QED
      BY <3>2, <3>3
  <2>6. Start(files, 1) = 1 /\ Len(image) \in 1 .. FirstTarget
    BY <2>1, <2>3, LayoutFits DEF Start
  <2> QED
    BY <1>7, <2>1, <2>3, <2>4, <2>5, <2>6 DEF f, n, image
<1>8. CASE n = 2
  <2> DEFINE p == parts[1]
             q == parts[2]
             f == files[1]
             g == files[2]
             t == p \o q
  <2>1. /\ p \in Seq(V) /\ Len(p) = 1 + Len(f) /\ Len(f) \in Nat
        /\ p[1] = Len(f) /\ \A k \in 1 .. Len(f) : p[k + 1] = f[k]
        /\ Len(f) <= MaxSize
    BY <1>1, <1>4, <1>8, LayoutFits
  <2>2. /\ q \in Seq(V) /\ Len(q) = 1 + Len(g) /\ Len(g) \in Nat
        /\ q[1] = Len(g) /\ \A k \in 1 .. Len(g) : q[k + 1] = g[k]
        /\ Len(g) <= MaxSize
    BY <1>1, <1>4, <1>8, LayoutFits
  <2>3. image = <<n>> \o t
    BY <1>3, <1>5, <1>8
  <2> HIDE DEF p, q, f, g
  <2>4. /\ t \in Seq(V) /\ Len(t) = 2 + Len(f) + Len(g)
        /\ \A k \in 1 .. Len(p) : t[k] = p[k]
        /\ \A k \in 1 .. Len(q) : t[Len(p) + k] = q[k]
    <3>1. /\ t \in Seq(V) /\ Len(t) = Len(p) + Len(q)
          /\ \A k \in 1 .. Len(p) : t[k] = p[k]
          /\ \A k \in 1 .. Len(q) : t[Len(p) + k] = q[k]
      <4> HIDE DEF t
      <4>1. p \in Seq(V) /\ q \in Seq(V)
        BY <2>1, <2>2
      <4>2. /\ p \o q \in Seq(V) /\ Len(p \o q) = Len(p) + Len(q)
            /\ \A k \in 1 .. Len(p) : (p \o q)[k] = p[k]
            /\ \A k \in 1 .. Len(q) : (p \o q)[Len(p) + k] = q[k]
        BY <4>1, JoinProperties
      <4> QED
        BY <4>2 DEF t
    <3> QED
      BY <2>1, <2>2, <3>1
  <2> HIDE DEF t
  <2>5. /\ Len(image) = 3 + Len(f) + Len(g) /\ image[1] = n
        /\ \A k \in 1 .. Len(t) : image[k + 1] = t[k]
    <3>1. /\ Len(image) = 1 + Len(t) /\ image[1] = n
          /\ \A k \in 1 .. Len(t) : image[k + 1] = t[k]
      BY <1>6, <2>3, <2>4, SMTT(30)
    <3> QED
      BY <2>1, <2>2, <2>4, <3>1
  <2>6. image[1 + 1] = Len(f)
    BY <2>1, <2>2, <2>4, <2>5
  <2>7. ASSUME NEW k \in 1 .. Len(f) PROVE image[1 + k + 1] = f[k]
    <3>1. k + 1 \in 1 .. Len(p) /\ k + 1 \in 1 .. Len(t)
      BY <2>1, <2>2, <2>4
    <3>2. image[(k + 1) + 1] = f[k]
      BY <2>1, <2>4, <2>5, <3>1
    <3>3. (k + 1) + 1 = 1 + k + 1
      BY <2>1
    <3> QED
      BY <3>2, <3>3
  <2>8. image[(2 + Len(f)) + 1] = Len(g)
    <3>1. 2 + Len(f) \in 1 .. Len(t) /\ 1 \in 1 .. Len(q) /\ 2 + Len(f) = Len(p) + 1
      BY <2>1, <2>2, <2>4
    <3> QED
      BY <2>2, <2>4, <2>5, <3>1
  <2>9. ASSUME NEW k \in 1 .. Len(g) PROVE image[(2 + Len(f)) + k + 1] = g[k]
    <3>1. k + 1 \in 1 .. Len(q) /\ Len(p) + (k + 1) \in 1 .. Len(t)
      BY <2>1, <2>2, <2>4
    <3>2. image[(Len(p) + (k + 1)) + 1] = g[k]
      BY <2>2, <2>4, <2>5, <3>1
    <3>3. (Len(p) + (k + 1)) + 1 = (2 + Len(f)) + k + 1
      BY <2>1
    <3> QED
      BY <3>2, <3>3
  <2>10. Start(files, 1) = 1 /\ Start(files, 2) = 2 + Len(f)
    BY DEF Start, f
  <2>11. Len(image) \in 1 .. FirstTarget
    BY <2>1, <2>2, <2>5, LayoutFits
  <2>12. ASSUME NEW i \in 1 .. 2
         PROVE  /\ Start(files, i) + Len(files[i]) < Len(image)
                /\ image[Start(files, i) + 1] = Len(files[i])
                /\ \A k \in 1 .. Len(files[i]) :
                     image[Start(files, i) + k + 1] = files[i][k]
    <3>1. CASE i = 1
      BY <2>1, <2>2, <2>5, <2>6, <2>7, <2>10, <3>1 DEF f
    <3>2. CASE i = 2
      <4>1. Start(files, i) = 2 + Len(f) /\ files[i] = g
        BY <2>10, <3>2 DEF g
      <4>2. 2 + Len(f) + Len(g) < Len(image)
        BY <2>1, <2>2, <2>5
      <4> QED
        BY <2>8, <2>9, <4>1, <4>2
    <3> QED
      BY <3>1, <3>2
  <2> QED
    BY <1>8, <2>5, <2>11, <2>12 DEF n, image
<1> QED
  BY <1>1, <1>7, <1>8

-----------------------------------------------------------------------------
(* The loader. *)

\* Module i is still packed in front of the targets.
StillPacked(m, files, i) ==
  /\ m.memory[Start(files, i)] = Len(files[i])
  /\ \A k \in 1 .. Len(files[i]) : m.memory[Start(files, i) + k] = files[i][k]

\* Module i is at its address, whole.
Placed(m, files, i) ==
  \A k \in 1 .. Len(files[i]) : m.memory[Target(i) + k - 1] = files[i][k]

MachineType(m) ==
  /\ DOMAIN m = {"memory", "cursor", "count", "next"}
  /\ DOMAIN m.memory = Address
  /\ m.cursor \in Nat

\* Between two modules: those before m.next are placed, the others still packed, and the
\* cursor is at the next of them.
Loading(m, files) ==
  /\ MachineType(m)
  /\ m.next \in 1 .. Len(files) + 1
  /\ m.cursor = 0 => m.next = 1 /\ m.memory[0] = Len(files)
  /\ m.cursor # 0 => m.count = Len(files) /\ m.cursor = Start(files, m.next)
  /\ \A i \in m.next .. Len(files) : StillPacked(m, files, i)
  /\ \A i \in 1 .. m.next - 1 : Placed(m, files, i)

LEMMA StartValues ==
  ASSUME NEW files
  PROVE  /\ Start(files, 1) = 1
         /\ Start(files, 2) = 2 + Len(files[1])
         /\ Start(files, 3) = 3 + Len(files[1]) + Len(files[2])
<1>1. Start(files, 1) = 1
  BY DEF Start
<1>2. Start(files, 2) = 2 + Len(files[1])
  BY DEF Start
<1>3. Start(files, 3) = 3 + Len(files[1]) + Len(files[2])
  BY DEF Start
<1> QED
  BY <1>1, <1>2, <1>3

LEMMA LoadedIsLoading ==
  ASSUME NEW files \in Files
  PROVE  Loading(Loaded(files), files)
<1>0. /\ Start(files, 1) = 1
      /\ Start(files, 2) = 2 + Len(files[1])
      /\ Start(files, 3) = 3 + Len(files[1]) + Len(files[2])
  BY StartValues, Zenon
<1> DEFINE m == Loaded(files)
           image == Pack(files)
           n == Len(files)
<1>1. /\ Len(image) \in 1 .. FirstTarget
      /\ image[1] = n
      /\ \A i \in 1 .. n :
           /\ Start(files, i) + Len(files[i]) < Len(image)
           /\ image[Start(files, i) + 1] = Len(files[i])
           /\ \A k \in 1 .. Len(files[i]) : image[Start(files, i) + k + 1] = files[i][k]
  BY PackedImage
<1>2. /\ m.memory = [a \in Address |-> IF a < Len(image) THEN image[a + 1] ELSE 0]
      /\ m.cursor = 0 /\ m.next = 1
      /\ DOMAIN m = {"memory", "cursor", "count", "next"}
  BY DEF Loaded
<1>3. n \in {1, 2} /\ \A i \in 1 .. n : Start(files, i) \in Nat /\ Len(files[i]) \in Nat
  <2>1. n \in {1, 2} /\ \A i \in 1 .. n : Len(files[i]) \in Nat
    BY FileProperties, LayoutFits
  <2>2. ASSUME NEW i \in 1 .. n PROVE Start(files, i) \in Nat
    <3>1. i = 1 \/ (i = 2 /\ n = 2)
      BY <2>1
    <3>2. CASE i = 1
      BY <3>2, <1>0
    <3>3. CASE i = 2 /\ n = 2
      BY <2>1, <3>3, <1>0
    <3> QED
      BY <3>1, <3>2, <3>3
  <2> QED
    BY <2>1, <2>2
<1> HIDE DEF m, image, n
<1>4. ASSUME NEW a \in Nat, a < Len(image) PROVE m.memory[a] = image[a + 1]
  <2>1. a \in Address
    BY <1>1, <1>4, LayoutFits
  <2> QED
    BY <1>2, <1>4, <2>1
<1>5. m.memory[0] = n
  BY <1>1, <1>4
<1>6. ASSUME NEW i \in 1 .. n PROVE StillPacked(m, files, i)
  <2> DEFINE a == Start(files, i)
  <2>1. a \in Nat /\ Len(files[i]) \in Nat /\ a + Len(files[i]) < Len(image)
        /\ Len(image) \in Nat
    BY <1>1, <1>3, LayoutFits
  <2>2. image[a + 1] = Len(files[i])
        /\ \A k \in 1 .. Len(files[i]) : image[a + k + 1] = files[i][k]
    BY <1>1
  <2> HIDE DEF a
  <2>3. m.memory[a] = Len(files[i])
    BY <1>4, <2>1, <2>2
  <2>4. ASSUME NEW k \in 1 .. Len(files[i]) PROVE m.memory[a + k] = files[i][k]
    <3>1. a + k \in Nat /\ a + k < Len(image) /\ (a + k) + 1 = a + k + 1
      BY <2>1
    <3> QED
      BY <1>4, <2>2, <3>1
  <2> QED
    BY <2>3, <2>4 DEF StillPacked, a
<1>7. DOMAIN m.memory = Address
  BY <1>2
<1> QED
  BY <1>2, <1>3, <1>5, <1>6, <1>7 DEF Loading, MachineType, m, n

LEMMA ReadCountLoads ==
  ASSUME NEW files \in Files, NEW m, Loading(m, files), m.cursor = 0
  PROVE  Loading(ReadCount(m), files)
<1> DEFINE r == ReadCount(m)
<1>1. /\ r.memory = m.memory /\ r.cursor = 1 /\ r.count = Len(files) /\ r.next = m.next
      /\ DOMAIN r = DOMAIN m
  BY DEF ReadCount, Loading, MachineType
<1>2. m.next = 1 /\ Start(files, 1) = 1
  BY DEF Loading, Start
<1> HIDE DEF r
<1> QED
  BY <1>1, <1>2 DEF Loading, MachineType, StillPacked, Placed, r

\* A copy touches neither the modules still packed nor those already placed.
LEMMA LoadModuleLoads ==
  ASSUME NEW files \in Files, NEW m, Loading(m, files),
         m.cursor > 0, m.next <= m.count
  PROVE  Loading(LoadModule(m), files)
<1>0. /\ Start(files, 1) = 1
      /\ Start(files, 2) = 2 + Len(files[1])
      /\ Start(files, 3) = 3 + Len(files[1]) + Len(files[2])
  BY StartValues, Zenon
<1> DEFINE r == LoadModule(m)
           j == m.next
           n == Len(files)
           size == Len(files[j])
           to == Target(j)
           from == Start(files, j) + 1
<1>1. /\ n \in {1, 2} /\ j \in 1 .. n /\ size \in Nat /\ size <= MaxSize
      /\ m.cursor = Start(files, j) /\ MachineType(m) /\ m.count = n
      /\ \A i \in 1 .. n : Len(files[i]) \in Nat /\ Len(files[i]) <= MaxSize
  <2>1. n \in {1, 2} /\ \A i \in 1 .. n : Len(files[i]) \in Nat /\ Len(files[i]) <= MaxSize
    BY FileProperties, LayoutFits
  <2>2. j \in 1 .. n + 1 /\ m.cursor # 0 /\ MachineType(m)
    BY DEF Loading, MachineType
  <2>3. m.count = n /\ m.cursor = Start(files, j)
    BY <2>2 DEF Loading
  <2> QED
    BY <2>1, <2>2, <2>3
<1>2. StillPacked(m, files, j)
  BY <1>1 DEF Loading
<1>3. m.memory[m.cursor] = size /\ m.cursor + 1 = from
  BY <1>1, <1>2 DEF StillPacked
<1>4. r = [m EXCEPT !.memory = [a \in Address |-> IF a \in to .. to + size - 1
                                                 THEN m.memory[from + a - to]
                                                 ELSE m.memory[a]],
                    !.cursor = from + size, !.next = j + 1]
  BY <1>1, <1>3 DEF LoadModule, MachineType
<1>5. /\ r.memory = [a \in Address |-> IF a \in to .. to + size - 1
                                       THEN m.memory[from + a - to]
                                       ELSE m.memory[a]]
      /\ r.cursor = from + size /\ r.next = j + 1 /\ r.count = n
      /\ DOMAIN r = {"memory", "cursor", "count", "next"}
  BY <1>1, <1>4 DEF MachineType
<1>6. /\ Start(files, j) \in Nat
      /\ to \in Nat /\ to >= FirstTarget
      /\ to + size <= FirstTarget + 2 * Gap
      /\ \A i \in 1 .. j - 1 : Target(i) \in Nat /\ Target(i) >= FirstTarget
                               /\ Target(i) + Len(files[i]) <= to
  <2>1. CASE j = 1
    BY <1>1, <2>1, LayoutFits, <1>0
  <2>2. CASE j = 2
    <3>1. Len(files[1]) \in Nat /\ Len(files[1]) <= MaxSize /\ size <= MaxSize
      BY <1>1, <2>2
    <3>2. Start(files, j) \in Nat /\ to = FirstTarget + Gap
      BY <2>2, <3>1, LayoutFits, <1>0
    <3>3. \A i \in 1 .. j - 1 : i = 1
      BY <2>2
    <3> HIDE DEF to, size
    <3>4. /\ to \in Nat /\ to >= FirstTarget /\ to + size <= FirstTarget + 2 * Gap
          /\ Target(1) \in Nat /\ Target(1) >= FirstTarget
          /\ Target(1) + Len(files[1]) <= to
      BY <1>1, <3>1, <3>2, LayoutFits
    <3> QED
      BY <3>2, <3>3, <3>4
  <2> QED
    BY <1>1, <2>1, <2>2
<1> HIDE DEF r, to, from, size
<1>7. \A a \in Address : a \notin to .. to + size - 1 => r.memory[a] = m.memory[a]
  BY <1>5
<1>8. Placed(r, files, j)
  <2> SUFFICES ASSUME NEW k \in 1 .. size
               PROVE  r.memory[to + k - 1] = files[j][k]
    BY DEF Placed, size, to
  <2>1. to + k - 1 \in Address /\ to + k - 1 \in to .. to + size - 1
    BY <1>1, <1>6, LayoutFits
  <2>2. from + (to + k - 1) - to = Start(files, j) + k
    BY <1>6 DEF from
  <2>3. m.memory[Start(files, j) + k] = files[j][k]
    BY <1>2 DEF StillPacked, size
  <2> QED
    BY <1>5, <2>1, <2>2, <2>3
<1>9. ASSUME NEW i \in 1 .. j - 1 PROVE Placed(r, files, i)
  <2> SUFFICES ASSUME NEW k \in 1 .. Len(files[i])
               PROVE  r.memory[Target(i) + k - 1] = files[i][k]
    BY DEF Placed
  <2>1. m.memory[Target(i) + k - 1] = files[i][k]
    BY DEF Loading, Placed
  <2>2. i \in 1 .. n /\ Len(files[i]) \in Nat
    BY <1>1
  <2>3. Target(i) \in Nat /\ Target(i) >= FirstTarget /\ Target(i) + Len(files[i]) <= to
    BY <1>6
  <2> DEFINE a == Target(i) + k - 1
             t == Target(i)
             l == Len(files[i])
             top == FirstTarget + 2 * Gap
  <2>4. /\ t \in Nat /\ l \in Nat /\ t + l <= to /\ k \in 1 .. l /\ top \in Nat
        /\ to \in Nat /\ size \in Nat /\ to + size <= top /\ Address = 0 .. top - 1
    BY <1>1, <1>6, <2>2, <2>3, LayoutFits
  <2> HIDE DEF t, l, top
  <2>5. a = t + k - 1
    BY DEF t
  <2>6. a \in Address /\ a \notin to .. to + size - 1
    BY <2>4, <2>5
  <2> QED
    BY <1>7, <2>1, <2>6
<1>10. ASSUME NEW i \in j + 1 .. n PROVE StillPacked(r, files, i)
  <2>1. j = 1 /\ i = 2 /\ n = 2
    BY <1>1, SMTT(30)
  <2>2. StillPacked(m, files, i)
    BY <1>1, <2>1 DEF Loading
  <2>3. ASSUME NEW a \in Nat, a < FirstTarget PROVE r.memory[a] = m.memory[a]
    <3>1. a \in Address /\ a \notin to .. to + size - 1
      BY <1>1, <1>6, <2>3, LayoutFits
    <3> QED
      BY <1>7, <3>1
  <2>4. /\ Start(files, i) \in Nat /\ Len(files[i]) \in Nat
        /\ Start(files, i) + Len(files[i]) < FirstTarget
    <3>1. Start(files, i) + Len(files[i]) < Len(Pack(files))
          /\ Len(Pack(files)) \in 1 .. FirstTarget
      BY <2>1, PackedImage
    <3>2. Start(files, i) \in Nat /\ Len(files[i]) \in Nat
      BY <1>1, <2>1, <1>0
    <3> QED
      BY <3>1, <3>2, LayoutFits
  <2>5. r.memory[Start(files, i)] = m.memory[Start(files, i)]
    <3>1. Start(files, i) < FirstTarget
      BY <2>4, LayoutFits
    <3> QED
      BY <2>3, <2>4, <3>1
  <2>6. ASSUME NEW k \in 1 .. Len(files[i])
        PROVE  r.memory[Start(files, i) + k] = m.memory[Start(files, i) + k]
    <3>1. Start(files, i) + k \in Nat /\ Start(files, i) + k < FirstTarget
      BY <2>4, LayoutFits
    <3> QED
      BY <2>3, <3>1
  <2> QED
    BY <2>2, <2>5, <2>6 DEF StillPacked
<1>11. r.cursor = Start(files, j + 1) /\ r.cursor # 0 /\ r.cursor \in Nat
  <2>1. CASE j = 1
    BY <1>1, <1>5, <2>1, <1>0 DEF from, size
  <2>2. CASE j = 2
    <3>1. Len(files[1]) \in Nat /\ Len(files[2]) \in Nat
      BY <1>1, <2>2
    <3>2. r.cursor = (2 + Len(files[1])) + 1 + Len(files[2])
      BY <1>5, <2>2, <1>0 DEF from, size
    <3>3. j + 1 = 3
      BY <2>2
    <3> HIDE DEF j
    <3>4. Start(files, j + 1) = 3 + Len(files[1]) + Len(files[2])
      BY <3>3, <1>0
    <3> DEFINE a == Len(files[1])
               b == Len(files[2])
    <3>5. a \in Nat /\ b \in Nat /\ r.cursor = (2 + a) + 1 + b
          /\ Start(files, j + 1) = 3 + a + b
      BY <3>1, <3>2, <3>4
    <3> HIDE DEF a, b
    <3> QED
      BY <3>5
  <2> QED
    BY <1>1, <2>1, <2>2
<1>12. DOMAIN r.memory = Address
  BY <1>5
<1>13. \A i \in 1 .. (j + 1) - 1 : Placed(r, files, i)
  BY <1>1, <1>8, <1>9
<1>14. \A i \in j + 1 .. n : StillPacked(r, files, i)
  BY <1>10
<1>15. j + 1 \in 1 .. n + 1
  BY <1>1
<1> HIDE DEF j
<1> QED
  BY <1>5, <1>11, <1>12, <1>13, <1>14, <1>15 DEF Loading, MachineType, r, n

\* The bss ends in front of the targets.
LEMMA ClearBSSKeeps ==
  ASSUME NEW files \in Files, NEW m, Loading(m, files),
         m.cursor > 0, m.next > m.count
  PROVE  InPlace(ClearBSS(m), files)
<1> DEFINE r == ClearBSS(m)
           n == Len(files)
<1>1. /\ n \in {1, 2} /\ DOMAIN files = 1 .. n
      /\ \A i \in 1 .. n : /\ Len(files[i]) \in Nat /\ Len(files[i]) <= MaxSize
                           /\ DOMAIN files[i] = 1 .. Len(files[i])
  BY FileProperties, LayoutFits
<1>2. /\ m.count = n /\ m.next = n + 1
      /\ \A i \in 1 .. n : Placed(m, files, i)
  <2>1. m.next \in 1 .. n + 1 /\ m.cursor # 0
    BY DEF Loading, MachineType
  <2>2. m.count = n
    BY <2>1 DEF Loading
  <2>3. m.next = n + 1
    BY <1>1, <2>1, <2>2
  <2> QED
    BY <1>1, <2>2, <2>3 DEF Loading
<1>3. r.memory = [a \in Address |-> IF a < BssSize THEN 0 ELSE m.memory[a]]
  BY DEF ClearBSS, Loading, MachineType
<1> HIDE DEF r
<1>4. ASSUME NEW i \in 1 .. n, NEW k \in 1 .. Len(files[i])
      PROVE  r.memory[Target(i) + k - 1] = files[i][k]
  <2>1. Target(i) \in Nat /\ Target(i) >= FirstTarget
        /\ Target(i) + k - 1 \in Address
    <3>1. CASE i = 1
      BY <1>1, <3>1, LayoutFits
    <3>2. CASE i = 2
      BY <1>1, <3>2, LayoutFits
    <3> QED
      BY <1>1, <3>1, <3>2
  <2>2. ~(Target(i) + k - 1 < BssSize)
    BY <1>1, <2>1, LayoutFits
  <2> QED
    BY <1>2, <1>3, <2>1, <2>2 DEF Placed
<1> QED
  BY <1>1, <1>4 DEF InPlace, r

\* The loader is between two modules, or has put all of them in their places.
LoaderInv ==
  /\ Routed
  /\ app.at \in {"boot", "loaded"} =>
       /\ {"at", "files", "machine"} \subseteq DOMAIN app
       /\ app.files \in Files
  /\ app.at = "boot" => Loading(app.machine, app.files)
  /\ app.at = "loaded" => InPlace(app.machine, app.files)

LEMMA LoaderKeeps == LoaderInv /\ Loader => LoaderInv'
<1> SUFFICES ASSUME LoaderInv, Loader PROVE LoaderInv'
  OBVIOUS
<1> DEFINE m == app.machine
           files == app.files
<1>1. Routed'
  BY NextRouted DEF LoaderInv, Next
<1>2. /\ {"at", "files", "machine"} \subseteq DOMAIN app
      /\ files \in Files /\ Loading(m, files) /\ app.at = "boot"
  BY DEF LoaderInv, Loader
<1>3. CASE m.cursor = 0 /\ app' = [app EXCEPT !.machine = ReadCount(m)]
  <2>1. Loading(ReadCount(m), files)
    BY <1>2, <1>3, ReadCountLoads
  <2> QED
    BY <1>1, <1>2, <1>3, <2>1 DEF LoaderInv
<1>4. CASE /\ m.cursor > 0 /\ m.next <= m.count
           /\ app' = [app EXCEPT !.machine = LoadModule(m)]
  <2>1. Loading(LoadModule(m), files)
    BY <1>2, <1>4, LoadModuleLoads
  <2> QED
    BY <1>1, <1>2, <1>4, <2>1 DEF LoaderInv
<1>5. CASE /\ m.cursor > 0 /\ m.next > m.count
           /\ app' = [app EXCEPT !.at = "loaded", !.machine = ClearBSS(m)]
  <2>1. InPlace(ClearBSS(m), files)
    BY <1>2, <1>5, ClearBSSKeeps
  <2> QED
    BY <1>1, <1>2, <1>5, <2>1 DEF LoaderInv
<1> QED
  BY <1>3, <1>4, <1>5 DEF Loader

\* After the start nothing leads back into it.
LEMMA RunningGoesOn ==
  ASSUME Routed, Next, ~Loader
  PROVE  UNCHANGED app \/ app'.at \notin {"boot", "loaded"}
<1>1. CASE app' = Menu \/ app' = Shell \/ app' = [at |-> "any_key"] \/ app' = NextLine(app)
  BY <1>1 DEF Menu, Shell, NextLine
<1>2. CASE \E game : app' = Starting(game)
  BY <1>2 DEF Starting
<1>3. CASE \E at : at \notin {"boot", "loaded"} /\ app' = [app EXCEPT !.at = at]
  BY <1>3 DEF Routed
<1>4. CASE /\ app.at \notin {"boot", "loaded"}
           /\ \/ \E hover : app' = [app EXCEPT !.hover = hover]
              \/ \E line : app' = [app EXCEPT !.line = line]
              \/ \E snakes : app' = [app EXCEPT !.snakes = snakes]
              \/ \E snakes, face : app' = [app EXCEPT !.snakes = snakes, !.face = face]
  BY <1>4 DEF Routed
<1>5. CASE \E game, winner : app' = Over(game, winner)
  BY <1>5 DEF Over
<1>6. CASE \E game, snakes, face :
             app' = [at |-> "playing", game |-> game, snakes |-> snakes, face |-> face]
  BY <1>6
<1>7. CASE StartMain \/ LeaveShell \/ LeaveGame \/ Select
  BY <1>1, <1>2, <1>7 DEF StartMain, LeaveShell, LeaveGame, Select
<1>8. CASE \E c \in Char : PressKey(c)
  BY <1>8 DEF PressKey
<1>9. CASE \E down \in BOOLEAN : HoldCtrl(down)
  BY <1>9 DEF HoldCtrl
<1>10. CASE \E c \in Char :
              Hover(c) \/ AnyKey(c) \/ EditLine(c) \/ CommandKey(c) \/ Cat(c) \/ OtherKey(c)
  <2>1. PICK c \in Char :
          Hover(c) \/ AnyKey(c) \/ EditLine(c) \/ CommandKey(c) \/ Cat(c) \/ OtherKey(c)
    BY <1>10
  <2>2. \/ UNCHANGED app \/ app' = Menu \/ app' = NextLine(app)
        \/ /\ app.at \in {"menu", "shell"}
           /\ \/ \E hover : app' = [app EXCEPT !.hover = hover]
              \/ \E line : app' = [app EXCEPT !.line = line]
    BY <2>1 DEF Hover, AnyKey, EditLine, CommandKey, Cat, OtherKey, Reads
  <2> QED
    BY <1>1, <1>4, <2>2
<1>11. CASE \E cmd \in CommandType : Interpret(cmd)
  <2>1. \/ app' \in {Menu, NextLine(app)}
        \/ \E at \in {"command_key", "test", "cat", "sets_table"} :
             app' = [app EXCEPT !.at = at]
    BY <1>11 DEF Interpret, CommandType
  <2> QED
    BY <1>1, <1>3, <2>1
<1>12. CASE EndTest \/ BeginDinner \/ PollDinner \/ EndDinner \/ EndGame
  <2>1. \/ UNCHANGED app \/ app' = NextLine(app)
        \/ \E at \in {"command_key", "dinner", "clears_table", "ending"} :
             app' = [app EXCEPT !.at = at]
    BY <1>12 DEF EndTest, BeginDinner, PollDinner, EndDinner, EndGame
  <2> QED
    BY <1>1, <1>3, <2>1
<1>13. CASE Replay \/ PollGame
  BY <1>2, <1>4, <1>13 DEF Replay, PollGame
<1>14. CASE BeginGame
  <2> DEFINE snakes == IF app.game = 1 THEN <<NewSnake(StartX)>>
                       ELSE <<NewSnake(StartX), NewSnake(StartX2)>>
  <2>1. PICK face : app' = [at |-> "playing", game |-> app.game, snakes |-> snakes,
                            face |-> face]
    BY <1>14 DEF BeginGame
  <2> HIDE DEF snakes
  <2> QED
    BY <1>6, <2>1
<1>15. CASE Tick
  <2> DEFINE s == Steered(app.snakes, KbChar(keys))[1]
             fed == IF Reaches(Ahead(s), app.face) THEN Eat(s) ELSE s
  <2>1. app.at = "playing"
    BY <1>15 DEF Tick
  <2>2. PICK face : app' = IF Crashes(fed) THEN Over(1, 1)
                           ELSE [app EXCEPT !.snakes = <<Advance(fed)>>, !.face = face]
    BY <1>15, Zenon DEF Tick
  <2> HIDE DEF fed
  <2> QED
    BY <1>4, <1>5, <2>1, <2>2
<1>16. CASE TickTwo
  <2>1. /\ app.at = "playing"
        /\ \/ \E winner : app' = Over(2, winner)
           \/ \E snakes : app' = [app EXCEPT !.snakes = snakes]
    BY <1>16, SMTT(30) DEF TickTwo
  <2> QED
    BY <1>4, <1>5, <2>1
<1> QED
  BY <1>7, <1>8, <1>9, <1>10, <1>11, <1>12, <1>13, <1>14, <1>15, <1>16 DEF Next

LEMMA NextLoaderInv == LoaderInv /\ [Next]_vars => LoaderInv'
<1> SUFFICES ASSUME LoaderInv, [Next]_vars PROVE LoaderInv'
  OBVIOUS
<1>1. Routed'
  BY NextRouted DEF LoaderInv
<1>2. CASE UNCHANGED app
  BY <1>1, <1>2 DEF LoaderInv
<1>3. CASE Loader
  BY <1>3, LoaderKeeps
<1>4. CASE Next /\ ~Loader
  <2>1. UNCHANGED app \/ app'.at \notin {"boot", "loaded"}
    BY <1>4, RunningGoesOn DEF LoaderInv
  <2> QED
    BY <1>1, <1>2, <2>1 DEF LoaderInv
<1> QED
  BY <1>2, <1>3, <1>4 DEF vars

\* Whatever the two modules contain, at any size that fits in front of their addresses:
\* when the kernel creates its first process each module is at its address, whole.
THEOREM ModulesInPlace == Spec => []ModulesLoaded
<1>1. Init => LoaderInv
  BY InitRouted, LoadedIsLoading DEF Init, LoaderInv
<1>2. LoaderInv => ModulesLoaded
  BY DEF LoaderInv, ModulesLoaded
<1> QED
  BY <1>1, <1>2, NextLoaderInv, PTL DEF Spec
=============================================================================
