------------------------------- MODULE Snakes -------------------------------
(***************************************************************************)
(* The snakes of snake.c and snake2.c as values: a snake is its body, the   *)
(* head first, and the direction in which it moves.                         *)
(***************************************************************************)
EXTENDS Integers, SequencesExt

CONSTANTS SquareSize, Width, Height, InterfaceLength,
          DefaultLength,    \* SNAKE_DEFAULT_LEN
          MaxLength,        \* bound: eat() does not look at MAX_LENGTH
          StartX, StartX2, StartY,      \* where the snakes of the players start
          FaceX, FaceY      \* where drawRandomFace may put the face

Word == 65536   \* coordinates wrap; at 2^32 in the code

ASSUME FieldAssumption ==
  /\ {SquareSize, Width, Height, InterfaceLength, DefaultLength, MaxLength,
      StartX, StartX2, StartY} \subseteq Nat
  /\ FaceX \subseteq SquareSize .. Width - SquareSize
  /\ FaceY \subseteq SquareSize + InterfaceLength .. Height - SquareSize

\* The snakes start on the field, and what wraps is not on it.
ASSUME StartAssumption ==
  /\ SquareSize > 0 /\ DefaultLength > 0
  /\ Width + SquareSize <= Word /\ Height + SquareSize <= Word
  /\ \A x \in {StartX, StartX2} : x + (DefaultLength - 1) * SquareSize < Width
  /\ InterfaceLength <= StartY /\ StartY < Height

Point(x, y) == [x |-> x, y |-> y]

-----------------------------------------------------------------------------
\* initializeSnake.  The head is on the right, and moves down.
NewSnake(startX) ==
  [body |-> [i \in 1 .. DefaultLength |->
               Point(startX + (DefaultLength - i) * SquareSize, StartY)],
   mov |-> "down"]

\* moveSnake.
Opposite == [up |-> "down", down |-> "up", left |-> "right", right |-> "left"]

Turn(s, mov) == IF s.mov = Opposite[mov] THEN s ELSE [s EXCEPT !.mov = mov]

\* gameInput and gameInputTwo: the letters steer the first player's snake, the arrows
\* the second's.
FirstPlayer == [w |-> "up", a |-> "left", s |-> "down", d |-> "right"]

Steer(s, c) == IF c \in DOMAIN FirstPlayer THEN Turn(s, FirstPlayer[c]) ELSE s
SteerSecond(s, c) == IF c \in DOMAIN Opposite THEN Turn(s, c) ELSE s

-----------------------------------------------------------------------------
(* updateSnake. *)

\* Where the head goes, in unsigned arithmetic.
Ahead(s) ==
  LET h == s.body[1]
  IN CASE s.mov = "down"  -> Point(h.x, (h.y + SquareSize) % Word)
       [] s.mov = "up"    -> Point(h.x, (h.y - SquareSize) % Word)
       [] s.mov = "right" -> Point((h.x + SquareSize) % Word, h.y)
       [] s.mov = "left"  -> Point((h.x - SquareSize) % Word, h.y)

\* checkSnakeEatRevamped, before what follows from it.
Reaches(h, face) ==
  /\ face.x - SquareSize <= h.x /\ h.x <= face.x + SquareSize
  /\ face.y - SquareSize <= h.y /\ h.y <= face.y + SquareSize

Outside(h) == h.x >= Width \/ h.y >= Height \/ h.y < InterfaceLength

Bites(s, h) == \E i \in 2 .. Len(s.body) : s.body[i] = h

Crashes(s) == Outside(Ahead(s)) \/ Bites(s, Ahead(s))

\* eat() doubles the tail, before the snake moves.
Eat(s) == [s EXCEPT !.body = Append(@, Last(@))]

\* Mutant of Advance: the tail stays where it is.
AdvanceStretched(s) == [s EXCEPT !.body = <<Ahead(s)>> \o Front(Front(@)) \o <<Last(@)>>]

Advance(s) == [s EXCEPT !.body = <<Ahead(s)>> \o Front(@)]

-----------------------------------------------------------------------------
\* checkSelfCollision: a square at p overlaps the snake.
Covers(s, p) ==
  \E i \in DOMAIN s.body :
    /\ p.x < s.body[i].x + SquareSize /\ s.body[i].x < p.x + SquareSize
    /\ p.y < s.body[i].y + SquareSize /\ s.body[i].y < p.y + SquareSize

\* drawRandomFace and drawRandomFaceTwo, which try again until it fits.
FreeSpots(snakes) ==
  {p \in [x : FaceX, y : FaceY] : \A s \in snakes : ~Covers(s, p)}
=============================================================================
