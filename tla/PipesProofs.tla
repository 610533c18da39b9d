---------------------------- MODULE PipesProofs ----------------------------
(***************************************************************************)
(* Theorems about pipes, for any processes, names, characters and sizes of  *)
(* the tables: no two pipes share a name or a semaphore, and the manager    *)
(* semaphore is given back.                                                 *)
(***************************************************************************)
EXTENDS Pipes, QueueLemmas, FiniteSetTheorems

-----------------------------------------------------------------------------
(* The inductive invariant. *)

Instance ==
  [available : BOOLEAN, name : Name \cup {NoOne}, sem : Slot,
   r : Position, w : Position, buffer : [0 .. Size - 1 -> Char \cup {NoOne}]]

SemSlot == [available : BOOLEAN, name : Name \cup {NoOne},
            lock : {Unlocked, Locked}, val : Int]

Frame == [at : Location, name : Name \cup {NoOne}, index : 0 .. Instances]

Types ==
  /\ inst \in [Index -> Instance]
  /\ slot \in [Slot -> SemSlot]
  /\ holder \in Process \cup {NoOne}
  /\ frame \in [Process -> Frame]
  /\ fd \in [Process -> 0 .. Instances]
  /\ seen \in [Process -> Int]
  /\ received \in [Process -> Char \cup {NoOne}]

Opening == {"wait_open", "get_pipe", "get_free_instance", "create_sem", "fail", "return"}
Closing == {"wait_close", "sem_close", "available"}
Moving == Posting \cup Waiting

\* i has its semaphore: it is neither being made nor being given up.
Complete(i) ==
  /\ i \in Index
  /\ ~inst[i].available
  /\ ~InCall(i, {"create_sem", "available"})

\* What an open_pipe of p has found out so far.
OpenFrame(p) ==
  frame[p].at \in Opening =>
    /\ fd[p] = 0
    /\ frame[p].name # NoOne
    /\ frame[p].at \in {"wait_open", "get_pipe", "get_free_instance", "fail"}
         => frame[p].index = 0
    /\ frame[p].at = "get_free_instance" =>
         \A i \in Index : inst[i].name = frame[p].name => inst[i].available
    /\ frame[p].at = "create_sem" =>
         /\ frame[p].index # 0
         /\ ~inst[frame[p].index].available
         /\ inst[frame[p].index].name = frame[p].name
    /\ frame[p].at = "return" =>
         /\ Complete(frame[p].index)
         /\ inst[frame[p].index].name = frame[p].name

\* q has nothing to do with the pipe that p closes.
KeepsOff(q, p) ==
  /\ fd[q] # frame[p].index
  /\ frame[q].name # inst[frame[p].index].name
  /\ q # p /\ frame[q].at \in Closing => frame[q].index # frame[p].index

CloseFrame(p) ==
  frame[p].at \in Closing =>
    /\ fd[p] = 0
    /\ frame[p].name = NoOne
    /\ frame[p].index # 0
    /\ ~inst[frame[p].index].available
    /\ \A q \in Process : KeepsOff(q, p)

OtherFrame(p) ==
  /\ frame[p].at \in Moving =>
       /\ frame[p].name = NoOne
       /\ frame[p].index # 0
       /\ frame[p].index = fd[p]
  /\ frame[p].at = "user" => frame[p] = UserCode

Owns(p) ==
  /\ frame[p].at \in Managing => holder = p
  /\ fd[p] # 0 => Complete(fd[p])

Frames == \A p \in Process : OpenFrame(p) /\ CloseFrame(p) /\ OtherFrame(p) /\ Owns(p)

\* Pipes and semaphores belong together one by one; in this form it is inductive.
Tables ==
  /\ \A i, j \in Index :
       /\ ~inst[i].available => inst[i].name # NoOne
       /\ i # j /\ ~inst[i].available /\ ~inst[j].available
            => inst[i].name # inst[j].name
  /\ \A i \in Index :
       Complete(i) => /\ inst[i].sem # 0
                      /\ ~slot[inst[i].sem].available
                      /\ slot[inst[i].sem].name = inst[i].name
  /\ \A s \in Slot :
       ~slot[s].available => \E i \in Index : Complete(i) /\ inst[i].sem = s

PipesInv == Types /\ Frames /\ Tables

-----------------------------------------------------------------------------
(* Types. *)

LEMMA Sizes == Instances \in Nat \ {0} /\ Slots \in Nat \ {0} /\ Size \in Nat \ {0}
  BY RoomAssumption

LEMMA FrameTypes ==
  /\ UserCode \in Frame
  /\ \A f \in Frame, location \in Location : [f EXCEPT !.at = location] \in Frame
  BY Sizes DEF UserCode, Frame, Location

LEMMA Positions ==
  ASSUME NEW k \in Position
  PROVE  Next1(k) \in Position /\ k % Size \in 0 .. Size - 1
<1>1. k \in Nat /\ 2 * Size \in Nat \ {0} /\ k + 1 \in Nat
  BY Sizes DEF Position
<1>2. \A m \in Nat \ {0}, x \in Nat : x % m \in 0 .. m - 1
  BY SMT
<1>. QED  BY <1>1, <1>2, Sizes DEF Position, Next1

-----------------------------------------------------------------------------
(* Writing and reading. *)

\* The parts of the tables that opening and closing look at.
SameCatalogue ==
  /\ \A i \in Index : /\ inst'[i].available = inst[i].available
                      /\ inst'[i].name = inst[i].name
                      /\ inst'[i].sem = inst[i].sem
  /\ \A s \in Slot : /\ slot'[s].available = slot[s].available
                     /\ slot'[s].name = slot[s].name

\* A step of p within a call that moves characters changes nothing of what the others
\* rely on.
LEMMA CatalogueKept ==
  ASSUME PipesInv, Types', SameCatalogue, UNCHANGED <<holder, fd>>,
         NEW p \in Process,
         frame[p].at \in Moving \cup {"user"},
         frame'[p].at \in Moving \cup {"user"},
         OtherFrame(p)',
         \A q \in Process \ {p} : frame'[q] = frame[q]
  PROVE  PipesInv'
<1>. USE DEF PipesInv, Moving, Posting, Waiting, SameCatalogue
<1>1. \A i : Complete(i)' <=> Complete(i)
  BY DEF Complete, InCall
<1>2. \A q \in Process :
        /\ frame'[q].name = frame[q].name
        /\ frame'[q].at \in Opening \cup Closing => frame'[q] = frame[q]
  BY DEF Types, Frames, OtherFrame, UserCode, Opening, Closing
<1>3. Frames'
  <2>. SUFFICES ASSUME NEW q \in Process
               PROVE  (OpenFrame(q) /\ CloseFrame(q) /\ OtherFrame(q) /\ Owns(q))'
    BY DEF Frames
  <2>1. OpenFrame(q)'
    <3>. SUFFICES ASSUME frame'[q].at \in Opening
                 PROVE  OpenFrame(q)'
      BY DEF OpenFrame
    <3>1. frame'[q] = frame[q] /\ (frame[q].index # 0 => frame[q].index \in Index)
      BY <1>2 DEF Types, Frame, Index
    <3>2. OpenFrame(q)
      BY DEF Frames
    <3>. QED  BY <1>1, <3>1, <3>2, Sizes DEF OpenFrame, Opening, Complete, Index
  <2>2. CloseFrame(q)'
    <3>. SUFFICES ASSUME frame'[q].at \in Closing
                 PROVE  CloseFrame(q)'
      BY DEF CloseFrame
    <3>1. frame'[q] = frame[q] /\ frame[q].index \in Index
      BY <1>2 DEF Types, Frame, Index, Frames, CloseFrame
    <3>2. CloseFrame(q)
      BY DEF Frames
    <3>. QED  BY <1>2, <3>1, <3>2 DEF CloseFrame, KeepsOff
  <2>3. OtherFrame(q)'
    BY DEF Frames, OtherFrame
  <2>4. Owns(q)'
    BY <1>1 DEF Frames, Owns, Managing, Opening, Closing
  <2>. QED  BY <2>1, <2>2, <2>3, <2>4
<1>4. Tables'
  <2>1. \A i \in Index : inst[i].sem \in Slot
    BY DEF Types, Instance
  <2>. QED  BY <1>1, <2>1 DEF Tables
<1>. QED  BY <1>3, <1>4

\* The value and the lock of a semaphore may become anything.
LEMMA WithTyped ==
  ASSUME slot \in [Slot -> SemSlot], NEW s \in Slot,
         NEW lock \in {Unlocked, Locked}, NEW val \in Int,
         slot' = With(s, lock, val)
  PROVE  /\ slot' \in [Slot -> SemSlot]
         /\ \A t \in Slot : slot'[t].available = slot[t].available /\ slot'[t].name = slot[t].name
<1>. DEFINE new == [slot[s] EXCEPT !.lock = lock, !.val = val]
<1>1. slot[s] \in SemSlot
  OBVIOUS
<1>2. /\ new \in SemSlot
      /\ new.available = slot[s].available
      /\ new.name = slot[s].name
  BY <1>1 DEF SemSlot
<1>3. slot' = [slot EXCEPT ![s] = new]
  BY DEF With
<1>. HIDE DEF new
<1>. QED  BY <1>2, <1>3

\* The first step of a call that moves a character.
LEMMA StartKeeps ==
  ASSUME PipesInv, NEW p \in Process, frame[p].at = "user", fd[p] # 0,
         NEW hit \in Moving, NEW miss \in Moving,
         StartRegion(p, hit, miss)
  PROVE  /\ slot' \in [Slot -> SemSlot]
         /\ \A t \in Slot : slot'[t].available = slot[t].available /\ slot'[t].name = slot[t].name
         /\ frame' \in [Process -> Frame]
         /\ frame'[p].at \in Moving /\ frame'[p].name = NoOne /\ frame'[p].index = fd[p]
         /\ \A q \in Process \ {p} : frame'[q] = frame[q]
<1>. DEFINE s == inst[fd[p]].sem
            at == IF slot[s].lock = Unlocked THEN hit ELSE miss
            f == [at |-> at, name |-> NoOne, index |-> fd[p]]
<1>1. /\ frame' = [frame EXCEPT ![p] = f]
      /\ slot' = With(s, Locked, slot[s].val)
  BY DEF StartRegion
<1>2. at \in Moving /\ at \in Location
  BY DEF Moving, Posting, Waiting, Location
<1>3. /\ fd[p] \in Index
      /\ frame \in [Process -> Frame]
      /\ slot \in [Slot -> SemSlot]
  BY DEF PipesInv, Types, Index
<1>4. s \in Slot /\ slot[s].val \in Int
  BY <1>3 DEF PipesInv, Types, Instance, SemSlot
<1>. HIDE DEF at
<1>5. f \in Frame
  BY <1>2, <1>3, Sizes DEF Frame, Index
<1>. QED  BY <1>1, <1>2, <1>3, <1>4, <1>5, WithTyped

LEMMA WriteCharKeeps ==
  ASSUME PipesInv, NEW p \in Process, NEW c \in Char, WriteChar(p, c)
  PROVE  PipesInv'
<1>. DEFINE i == fd[p]
            s == inst[i].sem
            buffer == [inst[i].buffer EXCEPT ![inst[i].w % Size] = c]
            new == [inst[i] EXCEPT !.buffer = buffer, !.w = Next1(inst[i].w)]
<1>. USE DEF PipesInv
<1>1. /\ i \in Index
      /\ i # 0
      /\ inst' = [inst EXCEPT ![i].buffer = buffer, ![i].w = Next1(@)]
      /\ received' = [received EXCEPT ![p] = NoOne]
      /\ UNCHANGED <<holder, fd, seen>>
      /\ frame[p].at = "user"
      /\ \/ slot' = With(s, Unlocked, 1) /\ UNCHANGED frame
         \/ StartRegion(p, "load_post", "enter_post")
  BY DEF Types, Index, WriteChar, Forget, At
<1>2. inst[i] \in Instance /\ s \in Slot
  BY <1>1 DEF Types, Instance
<1>3. buffer \in [0 .. Size - 1 -> Char \cup {NoOne}] /\ Next1(inst[i].w) \in Position
  BY <1>2, Positions DEF Instance
<1>4. /\ inst' \in [Index -> Instance]
      /\ \A j \in Index : /\ inst'[j].available = inst[j].available
                          /\ inst'[j].name = inst[j].name
                          /\ inst'[j].sem = inst[j].sem
  BY <1>1, <1>2, <1>3 DEF Types, Instance
<1>5. /\ slot' \in [Slot -> SemSlot]
      /\ \A t \in Slot : slot'[t].available = slot[t].available /\ slot'[t].name = slot[t].name
      /\ frame' \in [Process -> Frame]
      /\ OtherFrame(p)'
      /\ frame'[p].at \in Moving \cup {"user"}
      /\ \A q \in Process \ {p} : frame'[q] = frame[q]
  <2>1. CASE slot' = With(s, Unlocked, 1) /\ UNCHANGED frame
    <3>1. OtherFrame(p)' /\ slot \in [Slot -> SemSlot] /\ frame \in [Process -> Frame]
      BY <1>1, <2>1 DEF Types, Frames, OtherFrame
    <3>2. Unlocked \in {Unlocked, Locked} /\ 1 \in Int
      OBVIOUS
    <3>. QED  BY <1>1, <1>2, <2>1, <3>1, <3>2, WithTyped
  <2>2. CASE StartRegion(p, "load_post", "enter_post")
    <3>1. {"load_post", "enter_post"} \subseteq Moving /\ "user" \notin Moving
      BY DEF Moving, Posting, Waiting
    <3>2. /\ slot' \in [Slot -> SemSlot]
          /\ \A t \in Slot : slot'[t].available = slot[t].available /\ slot'[t].name = slot[t].name
          /\ frame' \in [Process -> Frame]
          /\ frame'[p].at \in Moving /\ frame'[p].name = NoOne /\ frame'[p].index = fd[p]
          /\ \A q \in Process \ {p} : frame'[q] = frame[q]
      BY <1>1, <2>2, <3>1, StartKeeps
    <3>. QED  BY <1>1, <3>1, <3>2 DEF OtherFrame
  <2>. QED  BY <1>1, <2>1, <2>2
<1>6. Types' /\ SameCatalogue
  BY <1>1, <1>4, <1>5 DEF Types, SameCatalogue
<1>. QED  BY <1>1, <1>5, <1>6, CatalogueKept

LEMMA ReadPipeKeeps ==
  ASSUME PipesInv, NEW p \in Process, ReadPipe(p)
  PROVE  PipesInv'
<1>. USE DEF PipesInv
<1>1. /\ fd[p] # 0
      /\ received' = [received EXCEPT ![p] = NoOne]
      /\ UNCHANGED <<inst, holder, fd, seen>>
      /\ frame[p].at = "user"
      /\ StartRegion(p, "load_wait", "enter_wait")
  BY DEF ReadPipe, Forget, At
<1>2. {"load_wait", "enter_wait"} \subseteq Moving /\ "user" \notin Moving
  BY DEF Moving, Posting, Waiting
<1>3. /\ slot' \in [Slot -> SemSlot]
      /\ \A t \in Slot : slot'[t].available = slot[t].available /\ slot'[t].name = slot[t].name
      /\ frame' \in [Process -> Frame]
      /\ frame'[p].at \in Moving /\ frame'[p].name = NoOne /\ frame'[p].index = fd[p]
      /\ \A q \in Process \ {p} : frame'[q] = frame[q]
  BY <1>1, <1>2, StartKeeps
<1>4. Types' /\ SameCatalogue
  BY <1>1, <1>3 DEF Types, SameCatalogue
<1>5. OtherFrame(p)'
  BY <1>1, <1>2, <1>3 DEF OtherFrame
<1>. QED  BY <1>1, <1>3, <1>4, <1>5, CatalogueKept

\* The other steps, where the call goes on.
LEMMA InTransfer ==
  ASSUME PipesInv, NEW p \in Process, frame[p].at \in Moving
  PROVE  /\ frame[p].index = fd[p]
         /\ frame[p].name = NoOne
         /\ fd[p] \in Index
         /\ inst[fd[p]] \in Instance
         /\ slot[inst[fd[p]].sem] \in SemSlot
BY DEF PipesInv, Types, Frames, Instance, OtherFrame, Index

\* They touch the lock and the value of the semaphore, the register and the own frame.
LEMMA TransferStep ==
  ASSUME PipesInv, NEW p \in Process, frame[p].at \in Moving,
         UNCHANGED <<inst, holder, fd, received>>,
         seen' \in [Process -> Int],
         \/ UNCHANGED slot
         \/ \E lock \in {Unlocked, Locked}, val \in Int : slot' = With(SemOf(p), lock, val),
         Return(p) \/ \E to \in Moving : Goto(p, to)
  PROVE  PipesInv'
<1>. USE DEF PipesInv
<1>1. SemOf(p) \in Slot
  BY InTransfer DEF SemOf, Instance
<1>2. /\ slot' \in [Slot -> SemSlot]
      /\ \A t \in Slot : slot'[t].available = slot[t].available /\ slot'[t].name = slot[t].name
  <2>1. slot \in [Slot -> SemSlot]
    BY DEF Types
  <2>2. CASE UNCHANGED slot
    BY <2>1, <2>2
  <2>3. CASE \E lock \in {Unlocked, Locked}, val \in Int : slot' = With(SemOf(p), lock, val)
    BY <1>1, <2>1, <2>3, WithTyped
  <2>. QED  BY <2>2, <2>3
<1>3. /\ frame' \in [Process -> Frame]
      /\ frame'[p].at \in Moving \cup {"user"}
      /\ OtherFrame(p)'
      /\ \A q \in Process \ {p} : frame'[q] = frame[q]
  <2>1. frame \in [Process -> Frame] /\ "user" \notin Moving
    BY DEF Types, Moving, Posting, Waiting
  <2>2. CASE Return(p)
    <3>1. UserCode \in Frame /\ UserCode.at = "user"
      BY FrameTypes DEF UserCode
    <3>. QED  BY <2>1, <2>2, <3>1 DEF Return, OtherFrame
  <2>3. CASE \E to \in Moving : Goto(p, to)
    <3>1. PICK to \in Moving : frame' = [frame EXCEPT ![p].at = to]
      BY <2>3 DEF Goto
    <3>2. to \in Location /\ to # "user" /\ frame[p] \in Frame
      BY <2>1, <3>1 DEF Moving, Posting, Waiting, Location
    <3>3. [frame[p] EXCEPT !.at = to] \in Frame
      BY <3>2, FrameTypes
    <3>4. /\ frame'[p].at = to
          /\ frame'[p].name = NoOne
          /\ frame'[p].index = fd[p]
          /\ fd[p] # 0
      BY <2>1, <3>1, <3>2, InTransfer, Sizes DEF Frame, Index
    <3>. QED  BY <2>1, <3>1, <3>2, <3>3, <3>4 DEF OtherFrame
  <2>. QED  BY <2>2, <2>3
<1>4. Types' /\ SameCatalogue
  BY <1>2, <1>3 DEF Types, SameCatalogue
<1>. QED  BY <1>3, <1>4, CatalogueKept

LEMMA TransferKeeps ==
  ASSUME PipesInv, NEW p \in Process, Post(p) \/ Wait(p)
  PROVE  PipesInv'
<1>2. /\ {"enter_post", "load_post", "store_post", "leave_post"} \subseteq Moving
      /\ {"enter_wait", "load_wait", "store_wait", "test_zero", "leave_wait", "take_char"}
           \subseteq Moving
  BY DEF Moving, Posting, Waiting
<1>3. /\ seen \in [Process -> Int]
      /\ {Locked, Unlocked} \subseteq {Unlocked, Locked}
      /\ seen[p] + 1 \in Int /\ seen[p] - 1 \in Int
  BY DEF PipesInv, Types
<1>4. frame[p].at \in Moving =>
        slot[SemOf(p)].lock \in {Unlocked, Locked} /\ slot[SemOf(p)].val \in Int
  BY InTransfer DEF SemOf, SemSlot
<1>5. ASSUME NEW from \in Moving, NEW to \in Moving, EnterRegion(p, from, to)
      PROVE  PipesInv'
  <2>1. /\ frame[p].at \in Moving
        /\ UNCHANGED <<inst, holder, fd, received>>
        /\ seen' = seen
        /\ Goto(p, to)
        /\ slot' = With(SemOf(p), Locked, slot[SemOf(p)].val)
    BY <1>5 DEF EnterRegion, At
  <2>. QED  BY <1>3, <1>4, <2>1, TransferStep
<1>6. ASSUME NEW from \in Moving, NEW to \in Moving, Load(p, from, to)
      PROVE  PipesInv'
  <2>1. /\ frame[p].at \in Moving
        /\ UNCHANGED <<inst, slot, holder, fd, received>>
        /\ seen' = [seen EXCEPT ![p] = slot[SemOf(p)].val]
        /\ Goto(p, to)
    BY <1>6 DEF Load, At
  <2>2. seen' \in [Process -> Int]
    BY <1>3, <1>4, <2>1
  <2>. QED  BY <2>1, <2>2, TransferStep
<1>7. ASSUME NEW from \in Moving, NEW to \in Moving, NEW val \in Int, Store(p, from, to, val)
      PROVE  PipesInv'
  <2>1. /\ frame[p].at \in Moving
        /\ UNCHANGED <<inst, holder, fd, received>>
        /\ seen' = [seen EXCEPT ![p] = 0]
        /\ Goto(p, to)
        /\ slot' = With(SemOf(p), slot[SemOf(p)].lock, val)
    BY <1>7 DEF Store, At
  <2>2. seen' \in [Process -> Int]
    BY <1>3, <2>1
  <2>. QED  BY <1>4, <2>1, <2>2, TransferStep
<1>8. ASSUME LeavePost(p)
      PROVE  PipesInv'
  <2>1. /\ frame[p].at \in Moving
        /\ UNCHANGED <<inst, holder, fd, received>>
        /\ seen' = seen
        /\ Return(p)
        /\ slot' = With(SemOf(p), Unlocked, slot[SemOf(p)].val)
    BY <1>2, <1>8 DEF LeavePost, At
  <2>. QED  BY <1>3, <1>4, <2>1, TransferStep
<1>9. ASSUME TestZero(p)
      PROVE  PipesInv'
  <2>1. /\ frame[p].at \in Moving
        /\ UNCHANGED <<inst, slot, holder, fd, received>>
        /\ seen' = seen
        /\ \E to \in Moving : Goto(p, to)
    BY <1>2, <1>9 DEF TestZero, At
  <2>. QED  BY <1>3, <2>1, TransferStep
<1>10. ASSUME LeaveWait(p)
       PROVE  PipesInv'
  <2>1. /\ frame[p].at \in Moving
        /\ UNCHANGED <<inst, holder, fd, received>>
        /\ seen' = seen
        /\ Goto(p, "take_char") /\ "take_char" \in Moving
        /\ slot' = With(SemOf(p), Unlocked, slot[SemOf(p)].val)
    BY <1>2, <1>10 DEF LeaveWait, At
  <2>. QED  BY <1>3, <1>4, <2>1, TransferStep
<1>11. CASE Post(p)
  BY <1>2, <1>3, <1>5, <1>6, <1>7, <1>8, <1>11 DEF Post
<1>12. CASE Wait(p)
  BY <1>2, <1>3, <1>5, <1>6, <1>7, <1>9, <1>10, <1>12 DEF Wait
<1>. QED  BY <1>11, <1>12

LEMMA TakeCharKeeps ==
  ASSUME PipesInv, NEW p \in Process, TakeChar(p)
  PROVE  PipesInv'
<1>. DEFINE i == fd[p]
<1>. USE DEF PipesInv
<1>1. /\ received' = [received EXCEPT ![p] = inst[i].buffer[inst[i].r % Size]]
      /\ inst' = [inst EXCEPT ![i].r = Next1(@)]
      /\ frame' = [frame EXCEPT ![p] = UserCode]
      /\ UNCHANGED <<slot, holder, fd, seen>>
      /\ frame[p].at = "take_char"
  BY InTransfer DEF TakeChar, Return, At, Moving, Waiting
<1>2. i \in Index /\ inst[i] \in Instance
  BY <1>1, InTransfer DEF Moving, Waiting
<1>3. /\ inst[i].buffer[inst[i].r % Size] \in Char \cup {NoOne}
      /\ Next1(inst[i].r) \in Position
  BY <1>2, Positions DEF Instance
<1>4. inst' \in [Index -> Instance] /\ SameCatalogue
  BY <1>1, <1>2, <1>3 DEF Types, Instance, SameCatalogue
<1>5. Types'
  BY <1>1, <1>3, <1>4, FrameTypes DEF Types
<1>6. OtherFrame(p)' /\ frame'[p].at = "user"
  BY <1>1 DEF Types, OtherFrame, UserCode, Moving, Posting, Waiting
<1>. QED  BY <1>1, <1>4, <1>5, <1>6, CatalogueKept DEF Types, Moving, Posting, Waiting

-----------------------------------------------------------------------------
(* Opening and closing, where the tables stay as they are. *)

\* Most steps of p change its own frame, perhaps its descriptor and the holder.
LEMMA CallStep ==
  ASSUME PipesInv, Types', UNCHANGED <<inst, slot>>, NEW p \in Process,
         {frame[p].at, frame'[p].at} \cap {"create_sem", "available"} = {},
         (OpenFrame(p) /\ CloseFrame(p) /\ OtherFrame(p) /\ Owns(p))',
         \A q \in Process \ {p} :
           /\ frame'[q] = frame[q]
           /\ fd'[q] = fd[q]
           /\ frame[q].at \in Managing => holder' = q
           /\ frame[q].at \in Closing => KeepsOff(p, q)'
  PROVE  PipesInv'
<1>. USE DEF PipesInv
<1>1. \A i : Complete(i)' <=> Complete(i)
  BY DEF Complete, InCall
<1>2. \A q \in Process : frame[q].index \in Index \/ frame[q].index = 0
  BY Sizes DEF Types, Frame, Index
<1>3. Frames'
  <2>. SUFFICES ASSUME NEW q \in Process \ {p}
               PROVE  (OpenFrame(q) /\ CloseFrame(q) /\ OtherFrame(q) /\ Owns(q))'
    BY DEF Frames
  <2>0. frame'[q] = frame[q] /\ fd'[q] = fd[q]
    OBVIOUS
  <2>1. OpenFrame(q)'
    <3>1. OpenFrame(q)
      BY DEF Frames
    <3>. QED  BY <1>1, <2>0, <3>1 DEF OpenFrame
  <2>2. CloseFrame(q)'
    <3>. SUFFICES ASSUME frame[q].at \in Closing
                 PROVE  CloseFrame(q)'
      BY <2>0 DEF CloseFrame
    <3>1. CloseFrame(q) /\ KeepsOff(p, q)'
      BY DEF Frames
    <3>2. \A other \in Process : KeepsOff(other, q)'
      BY <3>1, <2>0 DEF CloseFrame, KeepsOff
    <3>. QED  BY <2>0, <3>1, <3>2 DEF CloseFrame
  <2>3. OtherFrame(q)'
    BY <2>0 DEF Frames, OtherFrame
  <2>4. Owns(q)'
    BY <1>1, <2>0 DEF Frames, Owns
  <2>. QED  BY <2>1, <2>2, <2>3, <2>4
<1>4. Tables'
  BY <1>1 DEF Tables
<1>. QED  BY <1>3, <1>4

\* Only one process is between taking and giving back the manager semaphore.
LEMMA ManagerAlone ==
  ASSUME PipesInv, NEW p \in Process, frame[p].at \in Managing
  PROVE  holder = p /\ \A q \in Process \ {p} : frame[q].at \notin Managing
BY DEF PipesInv, Frames, Owns

\* The programs open a pipe only when nobody closes it.
LEMMA OpenPipeKeeps ==
  ASSUME PipesInv, NEW p \in Process, NEW n \in Name, OpenPipe(p, n)
  PROVE  PipesInv'
<1>. DEFINE f == [at |-> "wait_open", name |-> n, index |-> 0]
<1>. USE DEF PipesInv
<1>1. /\ frame[p].at = "user"
      /\ frame' = [frame EXCEPT ![p] = f]
      /\ received' = [received EXCEPT ![p] = NoOne]
      /\ UNCHANGED <<inst, slot, holder, fd, seen>>
      /\ fd[p] = 0
  BY DEF OpenPipe, Forget, At
<1>2. f \in Frame /\ n # NoOne
  BY Sizes, NoOneAssumption DEF Frame, Location
<1>3. Types'
  BY <1>1, <1>2 DEF Types
<1>4. frame'[p] = f
  BY <1>1 DEF Types
<1>5. (OpenFrame(p) /\ CloseFrame(p) /\ OtherFrame(p) /\ Owns(p))'
  BY <1>1, <1>2, <1>4 DEF OpenFrame, CloseFrame, OtherFrame, Owns, Opening, Closing,
         Managing, Moving, Posting, Waiting
<1>6. ASSUME NEW q \in Process \ {p}, frame[q].at \in Closing
      PROVE  KeepsOff(p, q)'
  <2>1. frame'[q] = frame[q] /\ inst[frame[q].index].name # n /\ frame[q].index # 0
    BY <1>1, <1>6 DEF OpenPipe, Closing, Frames, CloseFrame
  <2>. QED  BY <1>1, <1>4, <2>1 DEF KeepsOff, Closing
<1>7. \A q \in Process \ {p} : frame[q].at \in Managing => holder' = q
  BY <1>1 DEF Frames, Owns
<1>. QED  BY <1>1, <1>3, <1>4, <1>5, <1>6, <1>7, CallStep

LEMMA EnterKeeps ==
  ASSUME PipesInv, NEW p \in Process, Enter(p)
  PROVE  PipesInv'
<1>. USE DEF PipesInv
<1>1. PICK from \in {"wait_open", "wait_close"}, to \in {"get_pipe", "sem_close"} :
        /\ from = "wait_open" <=> to = "get_pipe"
        /\ TakeManager(p, from, to)
  BY DEF Enter, EnterOpen, EnterClose
<1>2. /\ frame[p].at = from
      /\ holder = NoOne
      /\ holder' = p
      /\ frame' = [frame EXCEPT ![p].at = to]
      /\ UNCHANGED <<inst, slot, fd, seen, received>>
  BY <1>1 DEF TakeManager, At, Goto
<1>3. [frame[p] EXCEPT !.at = to] \in Frame
  BY FrameTypes DEF Types, Location
<1>4. Types'
  BY <1>2, <1>3 DEF Types
<1>5. /\ frame'[p].at = to
      /\ frame'[p].name = frame[p].name
      /\ frame'[p].index = frame[p].index
  BY <1>2 DEF Types, Frame
<1>6. OpenFrame(p)' /\ OtherFrame(p)' /\ Owns(p)'
  <2>1. OpenFrame(p) /\ Owns(p)
    BY DEF Frames
  <2>2. \A i : Complete(i) => Complete(i)'
    BY <1>2, <1>5 DEF Types, Complete, InCall
  <2>. QED  BY <1>1, <1>2, <1>5, <2>1, <2>2
       DEF OpenFrame, OtherFrame, Owns, Opening, Closing, Moving, Posting, Waiting
<1>7. CloseFrame(p)'
  <2>1. CloseFrame(p)
    BY DEF Frames
  <2>2. \A q \in Process : KeepsOff(q, p) => KeepsOff(q, p)'
    BY <1>1, <1>2, <1>5 DEF Types, KeepsOff, Closing
  <2>. QED  BY <1>1, <1>2, <1>5, <2>1, <2>2 DEF CloseFrame, Closing
<1>8. \A q \in Process \ {p} : frame[q].at \in Managing => holder' = q
  BY <1>2, NoOneAssumption DEF Frames, Owns
<1>9. ASSUME NEW q \in Process \ {p}, frame[q].at \in Closing
      PROVE  KeepsOff(p, q)'
  <2>1. KeepsOff(p, q)
    BY <1>9 DEF Frames, CloseFrame
  <2>. QED  BY <1>1, <1>2, <1>5, <2>1 DEF KeepsOff, Closing
<1>. QED  BY <1>1, <1>2, <1>4, <1>5, <1>6, <1>7, <1>8, <1>9, CallStep

\* What a look-up by name returns.
LEMMA GetPipeFinds ==
  ASSUME Types, NEW n
  PROVE  \/ GetPipe(n) = 0 /\ \A i \in Index : inst[i].name = n => inst[i].available
         \/ GetPipe(n) \in Index /\ ~inst[GetPipe(n)].available /\ inst[GetPipe(n)].name = n
<1>. DEFINE found == {i \in Index : ~inst[i].available /\ inst[i].name = n}
<1>1. found # {} => Min(found) \in found
  BY MinProperties, Sizes DEF Index
<1>. QED  BY <1>1 DEF GetPipe

LEMMA LookUpKeeps ==
  ASSUME PipesInv, NEW p \in Process, LookUp(p)
  PROVE  PipesInv'
<1>. DEFINE n == frame[p].name
            i == GetPipe(n)
            f == [at |-> IF i = 0 THEN "get_free_instance" ELSE "return", name |-> n, index |-> i]
<1>. USE DEF PipesInv
<1>1. /\ frame[p].at = "get_pipe"
      /\ frame[p] \in Frame
      /\ UNCHANGED <<inst, slot, holder, fd, seen, received>>
      /\ holder = p
      /\ \A q \in Process \ {p} : frame[q].at \notin Managing
  BY ManagerAlone DEF LookUp, At, Managing, Opening, Types
<1>2. frame' = [frame EXCEPT ![p] = f]
  BY DEF LookUp
<1>3. f \in Frame
  BY <1>1, GetPipeFinds, Sizes DEF Frame, Location, Index
<1>4. Types'
  BY <1>1, <1>2, <1>3 DEF Types
<1>5. frame'[p] = f
  BY <1>2 DEF Types
<1>6. \A j : Complete(j)' <=> Complete(j)
  BY <1>1, <1>2, <1>5 DEF Types, Complete, InCall
<1>7. OpenFrame(p)'
  <2>1. n # NoOne /\ fd[p] = 0
    BY <1>1 DEF Frames, OpenFrame, Opening
  <2>2. i # 0 => Complete(i) /\ inst[i].name = n
    BY <1>1, GetPipeFinds DEF Complete, InCall, Managing, Opening, Closing
  <2>3. i = 0 => \A j \in Index : inst[j].name = n => inst[j].available
    BY GetPipeFinds DEF Index
  <2>. QED  BY <1>1, <1>5, <1>6, <2>1, <2>2, <2>3 DEF OpenFrame
<1>8. (CloseFrame(p) /\ OtherFrame(p) /\ Owns(p))'
  BY <1>1, <1>5, <1>6 DEF Frames, CloseFrame, OtherFrame, Owns, Closing, Moving, Posting, Waiting
<1>9. ASSUME NEW q \in Process \ {p}, frame[q].at \in Closing
      PROVE  KeepsOff(p, q)'
  <2>1. KeepsOff(p, q)
    BY <1>9 DEF Frames, CloseFrame
  <2>. QED  BY <1>1, <1>2, <1>5, <2>1 DEF KeepsOff, Closing
<1>. QED  BY <1>1, <1>2, <1>4, <1>5, <1>7, <1>8, <1>9, CallStep

\* The last step of open_pipe, with a pipe or without.
LEMMA OpenReturnsKeeps ==
  ASSUME PipesInv, NEW p \in Process, OpenReturns(p)
  PROVE  PipesInv'
<1>. DEFINE i == frame[p].index
<1>. USE DEF PipesInv
<1>1. /\ frame[p].at = "return"
      /\ frame' = [frame EXCEPT ![p] = UserCode]
      /\ fd' = [fd EXCEPT ![p] = i]
      /\ holder' = NoOne
      /\ UNCHANGED <<inst, slot, seen, received>>
  BY DEF OpenReturns, At, Return
<1>2. \A q \in Process \ {p} : frame[q].at \notin Managing
  BY <1>1, ManagerAlone DEF Managing, Opening
<1>3. Complete(i) /\ inst[i].name = frame[p].name /\ frame[p].name # NoOne
  BY <1>1 DEF Frames, OpenFrame, Opening
<1>4. Types'
  BY <1>1, FrameTypes DEF Types, Frame
<1>5. frame'[p] = UserCode /\ fd'[p] = i
  BY <1>1 DEF Types
<1>6. \A j : Complete(j)' <=> Complete(j)
  BY <1>1, <1>5 DEF Types, Complete, InCall, UserCode
<1>7. (OpenFrame(p) /\ CloseFrame(p) /\ OtherFrame(p) /\ Owns(p))'
  BY <1>3, <1>5, <1>6
     DEF OpenFrame, CloseFrame, OtherFrame, Owns, UserCode, Opening, Closing,
         Managing, Moving, Posting, Waiting
<1>8. ASSUME NEW q \in Process \ {p}, frame[q].at \in Closing
      PROVE  KeepsOff(p, q)'
  <2>1. KeepsOff(p, q) /\ frame'[q] = frame[q]
    BY <1>1, <1>8 DEF Frames, CloseFrame, Types
  <2>2. ~inst[frame[q].index].available /\ frame[q].index \in Index
    BY <1>8, Sizes DEF Frames, CloseFrame, Types, Frame, Index
  <2>3. inst[frame[q].index].name # NoOne
    BY <2>2 DEF Tables
  <2>. QED  BY <1>1, <1>3, <1>5, <2>1, <2>3 DEF KeepsOff, UserCode, Closing
<1>. QED  BY <1>1, <1>2, <1>4, <1>5, <1>7, <1>8, CallStep DEF UserCode

LEMMA OpenFailsKeeps ==
  ASSUME PipesInv, NEW p \in Process, OpenFails(p)
  PROVE  PipesInv'
<1>. USE DEF PipesInv
<1>1. /\ frame[p].at = "fail"
      /\ frame' = [frame EXCEPT ![p] = UserCode]
      /\ holder' = NoOne
      /\ UNCHANGED <<inst, slot, fd, seen, received>>
  BY DEF OpenFails, At, Return
<1>2. \A q \in Process \ {p} : frame[q].at \notin Managing
  BY <1>1, ManagerAlone DEF Managing, Opening
<1>3. fd[p] = 0
  BY <1>1 DEF Frames, OpenFrame, Opening
<1>4. Types'
  BY <1>1, FrameTypes DEF Types
<1>5. frame'[p] = UserCode
  BY <1>1 DEF Types
<1>6. (OpenFrame(p) /\ CloseFrame(p) /\ OtherFrame(p) /\ Owns(p))'
  BY <1>1, <1>3, <1>5
     DEF OpenFrame, CloseFrame, OtherFrame, Owns, UserCode, Opening, Closing,
         Managing, Moving, Posting, Waiting
<1>7. ASSUME NEW q \in Process \ {p}, frame[q].at \in Closing
      PROVE  KeepsOff(p, q)'
  <2>1. KeepsOff(p, q) /\ frame'[q] = frame[q]
    BY <1>1, <1>7 DEF Frames, CloseFrame, Types
  <2>2. ~inst[frame[q].index].available /\ frame[q].index \in Index
    BY <1>7, Sizes DEF Frames, CloseFrame, Types, Frame, Index
  <2>3. inst[frame[q].index].name # NoOne
    BY <2>2 DEF Tables
  <2>. QED  BY <1>1, <1>5, <2>1, <2>3 DEF KeepsOff, UserCode, Closing
<1>. QED  BY <1>1, <1>2, <1>4, <1>5, <1>6, <1>7, CallStep DEF UserCode

\* The programs close a pipe that nobody else has or is about to open.
LEMMA ClosePipeKeeps ==
  ASSUME PipesInv, NEW p \in Process, ClosePipe(p)
  PROVE  PipesInv'
<1>. DEFINE i == fd[p]
            f == [at |-> "wait_close", name |-> NoOne, index |-> i]
<1>. USE DEF PipesInv
<1>1. /\ frame[p].at = "user"
      /\ fd' = [fd EXCEPT ![p] = 0]
      /\ received' = [received EXCEPT ![p] = NoOne]
      /\ UNCHANGED <<inst, slot, holder, seen>>
      /\ i # 0
      /\ \A q \in Process \ {p} : fd[q] # i /\ frame[q].name # inst[i].name
  BY DEF ClosePipe, At, Forget
<1>2. Complete(i) /\ inst[i].name # NoOne
  BY <1>1 DEF Frames, Owns, Complete, Tables
<1>3. frame' = [frame EXCEPT ![p] = f]
  BY <1>2, Sizes DEF ClosePipe, ValidIndex, Complete, Index
<1>4. f \in Frame
  BY <1>2, Sizes DEF Frame, Location, Complete, Index
<1>5. Types'
  BY <1>1, <1>3, <1>4, Sizes DEF Types
<1>6. frame'[p] = f /\ fd'[p] = 0
  BY <1>1, <1>3 DEF Types
<1>7. ASSUME NEW q \in Process \ {p}
      PROVE  /\ KeepsOff(q, p)'
             /\ frame[q].at \in Closing => KeepsOff(p, q)'
  <2>1. frame'[q] = frame[q] /\ fd'[q] = fd[q]
    BY <1>1, <1>3 DEF Types
  <2>2. ASSUME frame[q].at \in Closing
        PROVE  /\ KeepsOff(p, q)
               /\ frame[q].index # 0
               /\ inst[frame[q].index].name # NoOne
    <3>1. KeepsOff(p, q) /\ ~inst[frame[q].index].available /\ frame[q].index \in Index
      BY <2>2, Sizes DEF Frames, CloseFrame, Types, Frame, Index
    <3>. QED  BY <3>1, Sizes DEF Tables, Index
  <2>. QED  BY <1>1, <1>6, <2>1, <2>2 DEF KeepsOff, Closing
<1>8. KeepsOff(p, p)'
  BY <1>1, <1>2, <1>6 DEF KeepsOff
<1>9. (OpenFrame(p) /\ CloseFrame(p) /\ OtherFrame(p) /\ Owns(p))'
  BY <1>1, <1>2, <1>6, <1>7, <1>8
     DEF OpenFrame, CloseFrame, OtherFrame, Owns, Opening, Closing,
         Managing, Moving, Posting, Waiting, Complete
<1>10. \A q \in Process \ {p} : frame[q].at \in Managing => holder' = q
  BY <1>1 DEF Frames, Owns
<1>. QED  BY <1>1, <1>3, <1>5, <1>6, <1>7, <1>9, <1>10, CallStep

-----------------------------------------------------------------------------
(* Opening and closing, where the tables change. *)

\* A step of the manager p that changes pipe i, which nobody has yet or any more.
LEMMA ManagerStep ==
  ASSUME PipesInv, NEW p \in Process, NEW i \in Index, UNCHANGED fd,
         frame[p].at \in Managing,
         frame'[p].name \in {frame[p].name, NoOne},
         frame'[p].at \in Closing => frame'[p].index = i,
         (OpenFrame(p) /\ CloseFrame(p) /\ OtherFrame(p) /\ Owns(p))',
         \A j \in Index \ {i} : /\ inst'[j] = inst[j]
                                /\ Complete(j)' <=> Complete(j),
         \A q \in Process : fd[q] # i,
         \A q \in Process \ {p} :
           /\ frame'[q] = frame[q]
           /\ frame[q].at \in Closing => frame[q].index # i
  PROVE  Frames'
<1>. USE DEF PipesInv
<1>. SUFFICES ASSUME NEW q \in Process \ {p}
              PROVE  (OpenFrame(q) /\ CloseFrame(q) /\ OtherFrame(q) /\ Owns(q))'
  BY DEF Frames
<1>1. frame[q].at \notin Managing /\ frame'[q] = frame[q]
  BY ManagerAlone
<1>2. OpenFrame(q)'
  BY <1>1 DEF Frames, OpenFrame, Managing, Opening, Closing
<1>3. CloseFrame(q)'
  <2>. SUFFICES ASSUME frame[q].at \in Closing
               PROVE  CloseFrame(q)'
    BY <1>1 DEF CloseFrame
  <2>1. CloseFrame(q)
    BY DEF Frames
  <2>2. frame[q].index \in Index \ {i}
    BY <2>1, Sizes DEF CloseFrame, Types, Frame, Index
  <2>3. inst[frame[q].index].name # NoOne
    BY <2>1, <2>2 DEF CloseFrame, Tables
  <2>4. \A other \in Process : KeepsOff(other, q)'
    BY <1>1, <2>1, <2>2, <2>3 DEF CloseFrame, KeepsOff
  <2>. QED  BY <1>1, <2>1, <2>2, <2>4 DEF CloseFrame
<1>4. OtherFrame(q)'
  BY <1>1 DEF Frames, OtherFrame
<1>5. Owns(q)'
  BY <1>1 DEF Frames, Owns, Complete
<1>. QED  BY <1>2, <1>3, <1>4, <1>5

LEMMA ReserveKeeps ==
  ASSUME PipesInv, NEW p \in Process, frame[p].at = "get_free_instance",
         NEW i \in Index, inst[i].available,
         inst' = Reserved(i, frame[p].name),
         frame' = [frame EXCEPT ![p] = [at |-> "create_sem", name |-> frame[p].name, index |-> i]],
         UNCHANGED <<slot, holder, fd, seen, received>>
  PROVE  PipesInv'
<1>. DEFINE n == frame[p].name
            new == [inst[i] EXCEPT !.available = FALSE, !.name = n, !.r = 0, !.w = 0]
            f == [at |-> "create_sem", name |-> n, index |-> i]
<1>. USE DEF PipesInv
<1>1. /\ n \in Name
      /\ n # NoOne
      /\ fd[p] = 0
      /\ frame[p].index = 0
      /\ \A j \in Index : inst[j].name = n => inst[j].available
      /\ holder = p
      /\ \A q \in Process \ {p} : frame[q].at \notin Managing
  <2>1. frame[p] \in Frame
    BY DEF Types
  <2>. QED  BY <2>1, ManagerAlone DEF Managing, Opening, Frame, Frames, OpenFrame
<1>2. new \in Instance /\ f \in Frame
  <2>1. inst[i] \in Instance /\ i \in 0 .. Instances /\ 0 \in Position
    BY Sizes DEF Types, Index, Position
  <2>. QED  BY <1>1, <2>1 DEF Instance, Frame, Location
<1>3. inst' = [inst EXCEPT ![i] = new]
  BY DEF Reserved, Types
<1>4. Types'
  BY <1>2, <1>3 DEF Types
<1>5. /\ ~inst'[i].available
      /\ inst'[i].name = n
      /\ \A j \in Index \ {i} : inst'[j] = inst[j]
  <2>1. inst[i] \in Instance
    BY DEF Types
  <2>. QED  BY <1>3, <2>1 DEF Types, Instance
<1>6. /\ frame'[p].at = "create_sem"
      /\ frame'[p].name = n
      /\ frame'[p].index = i
      /\ \A q \in Process \ {p} : frame'[q] = frame[q]
  BY DEF Types
<1>7. ~Complete(i) /\ ~Complete(i)' /\ \A j \in Index \ {i} : Complete(j)' <=> Complete(j)
  BY <1>1, <1>5, <1>6 DEF Complete, InCall
<1>8. \A q \in Process : fd[q] # i
  BY <1>7, Sizes DEF Frames, Owns, Index
<1>9. \A q \in Process : frame[q].at \in Closing => frame[q].index # i
  BY DEF Frames, CloseFrame
<1>10. (OpenFrame(p) /\ CloseFrame(p) /\ OtherFrame(p) /\ Owns(p))'
  <2>1. i # 0
    BY Sizes DEF Index
  <2>. QED  BY <1>1, <1>5, <1>6, <2>1 DEF OpenFrame, CloseFrame, OtherFrame, Owns, Closing, Moving, Posting, Waiting
<1>11. Frames'
  BY <1>5, <1>6, <1>7, <1>8, <1>9, <1>10, ManagerStep DEF Managing, Opening, Closing
<1>12. Tables'
  <2>1. ASSUME NEW j \in Index, NEW k \in Index
        PROVE  /\ ~inst'[j].available => inst'[j].name # NoOne
               /\ j # k /\ ~inst'[j].available /\ ~inst'[k].available
                    => inst'[j].name # inst'[k].name
    BY <1>1, <1>5 DEF Tables
  <2>2. \A j \in Index : Complete(j)' => Complete(j) /\ inst'[j] = inst[j]
    BY <1>5, <1>7
  <2>3. \A j \in Index : Complete(j) => Complete(j)' /\ inst'[j] = inst[j]
    BY <1>5, <1>7
  <2>. QED  BY <2>1, <2>2, <2>3 DEF Tables
<1>. QED  BY <1>4, <1>11, <1>12

LEMMA CreatePipeKeeps ==
  ASSUME PipesInv, NEW p \in Process, CreatePipe(p)
  PROVE  PipesInv'
<1>. USE DEF PipesInv
<1>1. /\ frame[p].at = "get_free_instance"
      /\ frame[p] \in Frame
      /\ frame[p].index = 0
      /\ frame[p].name # NoOne
      /\ fd[p] = 0
      /\ UNCHANGED <<slot, holder, fd, seen, received>>
      /\ holder = p
      /\ \A q \in Process \ {p} : frame[q].at \notin Managing
  BY ManagerAlone DEF CreatePipe, At, Managing, Opening, Types, Frames, OpenFrame
<1>2. CASE UNCHANGED inst /\ frame' = [frame EXCEPT ![p].at = "fail"]
  <2>1. [frame[p] EXCEPT !.at = "fail"] \in Frame
    BY <1>1, FrameTypes DEF Location
  <2>2. Types'
    BY <1>1, <1>2, <2>1 DEF Types
  <2>3. /\ frame'[p].at = "fail"
        /\ frame'[p].name = frame[p].name
        /\ frame'[p].index = 0
    BY <1>1, <1>2 DEF Types, Frame
  <2>4. (OpenFrame(p) /\ CloseFrame(p) /\ OtherFrame(p) /\ Owns(p))'
    BY <1>1, <2>3 DEF OpenFrame, CloseFrame, OtherFrame, Owns, Opening, Closing, Moving, Posting, Waiting
  <2>5. ASSUME NEW q \in Process \ {p}, frame[q].at \in Closing
        PROVE  KeepsOff(p, q)'
    <3>1. KeepsOff(p, q)
      BY <2>5 DEF Frames, CloseFrame
    <3>. QED  BY <1>1, <1>2, <2>3, <3>1 DEF KeepsOff, Closing
  <2>. QED  BY <1>1, <1>2, <2>2, <2>3, <2>4, <2>5, CallStep
<1>3. CASE \E i \in Available(inst, Index) :
             /\ inst' = Reserved(i, frame[p].name)
             /\ frame' = [frame EXCEPT ![p] =
                           [at |-> "create_sem", name |-> frame[p].name, index |-> i]]
  BY <1>1, <1>3, ReserveKeeps DEF Available
<1>4. Available(inst, Index) # {} => Min(Available(inst, Index)) \in Available(inst, Index)
  BY MinProperties, Sizes DEF Available, Index
<1>. QED  BY <1>2, <1>3, <1>4 DEF CreatePipe, Goto

\* create_sem always finds a slot: every slot in use belongs to another pipe, and there
\* are fewer of those than slots.
LEMMA SlotLeft ==
  ASSUME PipesInv, NEW p \in Process, frame[p].at = "create_sem"
  PROVE  Available(slot, Slot \ {0}) # {}
<1>. DEFINE i == frame[p].index
            Others == Index \ {i}
            pipe == [s \in 1 .. Slots |-> CHOOSE j \in Others : inst[j].sem = s]
<1>. SUFFICES ASSUME Available(slot, Slot \ {0}) = {}
              PROVE  FALSE
  OBVIOUS
<1>1. i \in Index /\ ~Complete(i)
  BY Sizes DEF PipesInv, Types, Frame, Frames, OpenFrame, Opening, Complete, InCall, Index
<1>2. ASSUME NEW s \in 1 .. Slots
      PROVE  \E j \in Others : inst[j].sem = s
  <2>1. s \in Slot /\ ~slot[s].available
    BY <1>2, Sizes DEF Slot, Available
  <2>. QED  BY <1>1, <2>1 DEF PipesInv, Tables
<1>3. \A s \in 1 .. Slots : pipe[s] \in Others /\ inst[pipe[s]].sem = s
  BY <1>2
<1>4. pipe \in Injection(1 .. Slots, Others)
  BY <1>3 DEF Injection, IsInjective
<1>5. /\ IsFiniteSet(Index) /\ Cardinality(Index) = Instances
      /\ IsFiniteSet(1 .. Slots) /\ Cardinality(1 .. Slots) = Slots
  BY FS_Interval, Sizes DEF Index
<1>6. IsFiniteSet(Others) /\ Cardinality(Others) = Instances - 1
  BY <1>1, <1>5, FS_RemoveElement
<1>7. Slots <= Instances - 1
  BY <1>4, <1>5, <1>6, FS_Injection
<1>. QED  BY <1>7, Sizes, RoomAssumption

LEMMA AttachKeeps ==
  ASSUME PipesInv, NEW p \in Process, frame[p].at = "create_sem",
         NEW s \in Slot \ {0}, slot[s].available,
         slot' = [slot EXCEPT ![s] = [available |-> FALSE, name |-> frame[p].name, lock |-> Locked, val |-> 0]],
         inst' = [inst EXCEPT ![frame[p].index].sem = s],
         frame' = [frame EXCEPT ![p].at = "return"],
         UNCHANGED <<holder, fd, seen, received>>
  PROVE  PipesInv'
<1>. USE DEF PipesInv
<1>1. PICK i \in Index : i = frame[p].index
  BY Sizes DEF Types, Frame, Index, Frames, OpenFrame, Opening
<1>2. PICK n \in Name : n = frame[p].name
  BY DEF Types, Frame, Frames, OpenFrame, Opening
<1>3. /\ n # NoOne
      /\ fd[p] = 0
      /\ ~inst[i].available
      /\ inst[i].name = n
      /\ holder = p
      /\ \A q \in Process \ {p} : frame[q].at \notin Managing
  BY <1>1, <1>2, ManagerAlone DEF Managing, Opening, Frames, OpenFrame
<1>4. [frame[p] EXCEPT !.at = "return"] \in Frame
  BY FrameTypes DEF Types, Location
<1>5. [inst[i] EXCEPT !.sem = s] \in Instance
  <2>1. inst[i] \in Instance
    BY DEF Types
  <2>. QED  BY <2>1 DEF Instance
<1>6. [available |-> FALSE, name |-> n, lock |-> Locked, val |-> 0] \in SemSlot
  BY DEF SemSlot
<1>7. inst' = [inst EXCEPT ![i] = [inst[i] EXCEPT !.sem = s]]
  BY <1>1 DEF Types
<1>8. Types'
  BY <1>2, <1>4, <1>5, <1>6, <1>7 DEF Types
<1>9. /\ ~inst'[i].available
      /\ inst'[i].name = n
      /\ inst'[i].sem = s
      /\ \A j \in Index \ {i} : inst'[j] = inst[j]
  <2>1. inst[i] \in Instance
    BY DEF Types
  <2>. QED  BY <1>3, <1>7, <2>1 DEF Types, Instance
<1>10. /\ frame'[p].at = "return"
       /\ frame'[p].name = n
       /\ frame'[p].index = i
       /\ \A q \in Process \ {p} : frame'[q] = frame[q]
  BY <1>1, <1>2 DEF Types, Frame
<1>11. /\ ~slot'[s].available
       /\ slot'[s].name = n
       /\ \A t \in Slot \ {s} : slot'[t] = slot[t]
  BY <1>2 DEF Types
<1>12. ~Complete(i) /\ Complete(i)' /\ \A j \in Index \ {i} : Complete(j)' <=> Complete(j)
  BY <1>1, <1>3, <1>9, <1>10 DEF Complete, InCall, Managing, Opening, Closing
<1>13. \A q \in Process : fd[q] # i
  BY <1>12, Sizes DEF Frames, Owns, Index
<1>14. ASSUME NEW q \in Process \ {p}, frame[q].at \in Closing
       PROVE  frame[q].index # i
  BY <1>1, <1>2, <1>3, <1>14 DEF Frames, CloseFrame, KeepsOff
<1>15. (OpenFrame(p) /\ CloseFrame(p) /\ OtherFrame(p) /\ Owns(p))'
  BY <1>3, <1>9, <1>10, <1>12 DEF OpenFrame, CloseFrame, OtherFrame, Owns, Closing, Moving, Posting, Waiting
<1>16. Frames'
  BY <1>2, <1>9, <1>10, <1>12, <1>13, <1>14, <1>15, ManagerStep DEF Managing, Opening, Closing
<1>17. Tables'
  <2>1. ASSUME NEW j \in Index, NEW k \in Index
        PROVE  /\ ~inst'[j].available => inst'[j].name # NoOne
               /\ j # k /\ ~inst'[j].available /\ ~inst'[k].available
                    => inst'[j].name # inst'[k].name
    BY <1>3, <1>9 DEF Tables
  <2>2. ASSUME NEW j \in Index, Complete(j)'
        PROVE  /\ inst'[j].sem # 0
               /\ ~slot'[inst'[j].sem].available
               /\ slot'[inst'[j].sem].name = inst'[j].name
    <3>1. CASE j = i
      BY <1>9, <1>11, <3>1
    <3>2. CASE j # i
      <4>1. Complete(j) /\ inst'[j] = inst[j] /\ inst[j].sem \in Slot
        BY <1>9, <1>12, <2>2, <3>2 DEF Types, Instance
      <4>2. /\ inst[j].sem # 0
            /\ ~slot[inst[j].sem].available
            /\ slot[inst[j].sem].name = inst[j].name
        BY <4>1 DEF Tables
      <4>3. inst[j].sem # s
        BY <4>2
      <4>. QED  BY <1>11, <4>1, <4>2, <4>3
    <3>. QED  BY <3>1, <3>2
  <2>3. ASSUME NEW t \in Slot, ~slot'[t].available
        PROVE  \E j \in Index : Complete(j)' /\ inst'[j].sem = t
    <3>1. CASE t = s
      BY <1>9, <1>12, <3>1
    <3>2. CASE t # s
      <4>1. PICK j \in Index : Complete(j) /\ inst[j].sem = t
        BY <1>11, <2>3, <3>2 DEF Tables
      <4>. QED  BY <1>9, <1>12, <4>1
    <3>. QED  BY <3>1, <3>2
  <2>. QED  BY <2>1, <2>2, <2>3 DEF Tables
<1>. QED  BY <1>8, <1>16, <1>17

LEMMA CreateSemKeeps ==
  ASSUME PipesInv, NEW p \in Process, CreateSem(p)
  PROVE  PipesInv'
<1>. DEFINE free == Available(slot, Slot \ {0})
<1>1. frame[p].at = "create_sem" /\ free # {}
  BY SlotLeft DEF CreateSem, At
<1>2. Min(free) \in free
  BY <1>1, MinProperties, Sizes DEF Available, Slot
<1>3. Min(free) \in Slot \ {0} /\ slot[Min(free)].available
  BY <1>2 DEF Available
<1>. HIDE DEF free
<1>. QED  BY <1>1, <1>3, AttachKeeps DEF CreateSem, Goto, free

\* sem_close goes by name and finds the semaphore of that pipe.
LEMMA GetSemFinds ==
  ASSUME PipesInv, NEW i \in Index, Complete(i)
  PROVE  GetSem(inst[i].name) = inst[i].sem
<1>. DEFINE found == {s \in Slot : ~slot[s].available /\ slot[s].name = inst[i].name}
<1>1. inst[i].sem \in found
  BY DEF PipesInv, Types, Instance, Tables
<1>2. ASSUME NEW s \in found
      PROVE  s = inst[i].sem
  <2>1. PICK j \in Index : Complete(j) /\ inst[j].sem = s
    BY DEF PipesInv, Tables
  <2>2. inst[j].name = inst[i].name
    BY <2>1 DEF PipesInv, Tables
  <2>3. j = i
    BY <2>1, <2>2 DEF PipesInv, Tables, Complete
  <2>. QED  BY <2>1, <2>3
<1>3. Min(found) \in found
  BY <1>1, MinProperties, Sizes DEF Slot
<1>. QED  BY <1>1, <1>2, <1>3 DEF GetSem

\* What close_pipe relies on while it has the manager semaphore.
LEMMA WhileClosing ==
  ASSUME PipesInv, NEW p \in Process, frame[p].at \in {"sem_close", "available"}
  PROVE  /\ frame[p].index \in Index
         /\ frame[p].name = NoOne
         /\ fd[p] = 0
         /\ ~inst[frame[p].index].available
         /\ holder = p
         /\ \A q \in Process : fd[q] # frame[p].index
         /\ \A q \in Process \ {p} :
              /\ frame[q].at \notin Managing
              /\ frame[q].at \in Closing => frame[q].index # frame[p].index
<1>1. frame[p].at \in Closing \cap Managing
  BY DEF Closing, Managing
<1>. QED  BY <1>1, ManagerAlone, Sizes
     DEF PipesInv, Types, Frame, Index, Frames, CloseFrame, KeepsOff

LEMMA CloseSemKeeps ==
  ASSUME PipesInv, NEW p \in Process, CloseSem(p)
  PROVE  PipesInv'
<1>. USE DEF PipesInv
<1>1. frame[p].at = "sem_close"
  BY DEF CloseSem, At
<1>2. PICK i \in Index : i = frame[p].index
  BY <1>1, WhileClosing
<1>3. PICK s \in Slot : s = inst[i].sem
  BY DEF Types, Instance
<1>4. /\ frame[p].name = NoOne
      /\ fd[p] = 0
      /\ ~inst[i].available
      /\ inst[i].name # NoOne
      /\ holder = p
      /\ \A q \in Process : fd[q] # i
      /\ \A q \in Process \ {p} :
           /\ frame[q].at \notin Managing
           /\ frame[q].at \in Closing => frame[q].index # i
  BY <1>1, <1>2, WhileClosing DEF Tables
<1>5. Complete(i)
  BY <1>1, <1>2, <1>4 DEF Complete, InCall, Managing, Opening, Closing
<1>6. /\ s # 0
      /\ slot[s].name = inst[i].name
      /\ GetSem(inst[i].name) = s
  BY <1>3, <1>5, GetSemFinds DEF Tables
<1>7. /\ slot' = [slot EXCEPT ![s].available = TRUE]
      /\ frame' = [frame EXCEPT ![p].at = "available"]
      /\ UNCHANGED <<inst, holder, fd, seen, received>>
  BY <1>2, <1>6 DEF CloseSem, Goto
<1>8. Types'
  <2>1. slot[s] \in SemSlot /\ frame[p] \in Frame
    BY DEF Types
  <2>2. [slot[s] EXCEPT !.available = TRUE] \in SemSlot
    BY <2>1 DEF SemSlot
  <2>3. [frame[p] EXCEPT !.at = "available"] \in Frame
    BY <2>1, FrameTypes DEF Location
  <2>. QED  BY <1>7, <2>2, <2>3 DEF Types
<1>9. /\ frame'[p].at = "available"
      /\ frame'[p].name = NoOne
      /\ frame'[p].index = i
      /\ \A q \in Process \ {p} : frame'[q] = frame[q]
  BY <1>2, <1>4, <1>7 DEF Types, Frame
<1>10. /\ slot'[s].available
       /\ \A t \in Slot \ {s} : slot'[t] = slot[t]
  <2>1. slot[s] \in SemSlot
    BY DEF Types
  <2>. QED  BY <1>7, <2>1 DEF Types, SemSlot
<1>11. ~Complete(i)' /\ \A j \in Index \ {i} : Complete(j)' <=> Complete(j)
  BY <1>1, <1>2, <1>7, <1>9 DEF Complete, InCall
<1>12. \A q \in Process : KeepsOff(q, p)'
  <2>1. \A q \in Process : KeepsOff(q, p)
    BY <1>1 DEF Frames, CloseFrame, Closing
  <2>. QED  BY <1>2, <1>4, <1>7, <1>9, <2>1 DEF KeepsOff
<1>13. (OpenFrame(p) /\ CloseFrame(p) /\ OtherFrame(p) /\ Owns(p))'
  <2>1. i # 0
    BY Sizes DEF Index
  <2>. QED  BY <1>4, <1>7, <1>9, <1>12, <2>1 DEF OpenFrame, CloseFrame, OtherFrame, Owns, Opening, Moving, Posting, Waiting
<1>14. Frames'
  BY <1>1, <1>4, <1>7, <1>9, <1>11, <1>13, ManagerStep DEF Managing, Opening, Closing
<1>15. Tables'
  <2>1. ASSUME NEW j \in Index, Complete(j)'
        PROVE  /\ inst'[j].sem # 0
               /\ ~slot'[inst'[j].sem].available
               /\ slot'[inst'[j].sem].name = inst'[j].name
    <3>1. j # i /\ Complete(j) /\ inst[j].sem \in Slot
      BY <1>11, <2>1 DEF Types, Instance
    <3>2. /\ inst[j].sem # 0
          /\ ~slot[inst[j].sem].available
          /\ slot[inst[j].sem].name = inst[j].name
      BY <3>1 DEF Tables
    <3>3. inst[j].name # inst[i].name
      BY <1>5, <3>1 DEF Tables, Complete
    <3>4. inst[j].sem # s
      BY <1>6, <3>2, <3>3
    <3>. QED  BY <1>7, <1>10, <3>1, <3>2, <3>4
  <2>2. ASSUME NEW t \in Slot, ~slot'[t].available
        PROVE  \E j \in Index : Complete(j)' /\ inst'[j].sem = t
    <3>1. t # s /\ ~slot[t].available
      BY <1>10, <2>2
    <3>2. PICK j \in Index : Complete(j) /\ inst[j].sem = t
      BY <3>1 DEF Tables
    <3>. QED  BY <1>3, <1>7, <1>11, <3>1, <3>2
  <2>. QED  BY <1>7, <2>1, <2>2 DEF Tables
<1>. QED  BY <1>8, <1>14, <1>15

LEMMA CloseReturnsKeeps ==
  ASSUME PipesInv, NEW p \in Process, CloseReturns(p)
  PROVE  PipesInv'
<1>. USE DEF PipesInv
<1>1. frame[p].at = "available"
  BY DEF CloseReturns, At
<1>2. PICK i \in Index : i = frame[p].index
  BY <1>1, WhileClosing
<1>3. /\ inst' = [inst EXCEPT ![i].available = TRUE]
      /\ frame' = [frame EXCEPT ![p] = UserCode]
      /\ holder' = NoOne
      /\ UNCHANGED <<slot, fd, seen, received>>
  BY <1>2 DEF CloseReturns, Return
<1>4. /\ fd[p] = 0
      /\ \A q \in Process : fd[q] # i
      /\ \A q \in Process \ {p} :
           /\ frame[q].at \notin Managing
           /\ frame[q].at \in Closing => frame[q].index # i
  BY <1>1, <1>2, WhileClosing
<1>5. inst[i] \in Instance
  BY DEF Types
<1>6. Types'
  <2>1. [inst[i] EXCEPT !.available = TRUE] \in Instance
    BY <1>5 DEF Instance
  <2>. QED  BY <1>3, <2>1, FrameTypes DEF Types
<1>7. frame'[p] = UserCode /\ \A q \in Process \ {p} : frame'[q] = frame[q]
  BY <1>3 DEF Types
<1>8. inst'[i].available /\ \A j \in Index \ {i} : inst'[j] = inst[j]
  BY <1>3, <1>5 DEF Types, Instance
<1>9. ~Complete(i) /\ ~Complete(i)' /\ \A j \in Index \ {i} : Complete(j)' <=> Complete(j)
  BY <1>1, <1>2, <1>7, <1>8 DEF Complete, InCall, UserCode
<1>10. (OpenFrame(p) /\ CloseFrame(p) /\ OtherFrame(p) /\ Owns(p))'
  BY <1>3, <1>4, <1>7
     DEF OpenFrame, CloseFrame, OtherFrame, Owns, UserCode, Opening, Closing, Managing, Moving, Posting, Waiting
<1>11. Frames'
  BY <1>1, <1>3, <1>4, <1>7, <1>8, <1>9, <1>10, ManagerStep
     DEF Managing, Opening, Closing, UserCode
<1>12. Tables'
  <2>1. ASSUME NEW j \in Index, NEW k \in Index
        PROVE  /\ ~inst'[j].available => inst'[j].name # NoOne
               /\ j # k /\ ~inst'[j].available /\ ~inst'[k].available
                    => inst'[j].name # inst'[k].name
    BY <1>8 DEF Tables
  <2>2. \A j \in Index : Complete(j)' => Complete(j) /\ inst'[j] = inst[j]
    BY <1>8, <1>9
  <2>3. \A j \in Index : Complete(j) => Complete(j)' /\ inst'[j] = inst[j]
    BY <1>8, <1>9
  <2>. QED  BY <1>3, <2>1, <2>2, <2>3 DEF Tables
<1>. QED  BY <1>6, <1>11, <1>12

-----------------------------------------------------------------------------
(* The invariant holds, and what it says of the pipes. *)

\* initialize_pipes opens each standard pipe once.
LEMMA InitHolds == Init => PipesInv
<1>. DEFINE Count == Cardinality(Standard)
<1>. SUFFICES ASSUME Init
              PROVE  PipesInv
  OBVIOUS
<1>1. Count \in Nat /\ Count <= Instances /\ Instances <= Slots
  BY StandardAssumption, RoomAssumption, FS_CardinalityType
<1>. HIDE DEF Count
<1>2. PICK order \in [1 .. Count -> Standard] :
        /\ {order[k] : k \in DOMAIN order} = Standard
        /\ inst = [i \in Index |->
                     IF i \in DOMAIN order
                     THEN [FreeInstance EXCEPT !.available = FALSE, !.name = order[i], !.sem = i]
                     ELSE FreeInstance]
        /\ slot = [s \in Slot |->
                     IF s \in DOMAIN order
                     THEN [available |-> FALSE, name |-> order[s], lock |-> Locked, val |-> 0]
                     ELSE [available |-> TRUE, name |-> NoOne, lock |-> Unlocked, val |-> 0]]
        /\ holder = NoOne
        /\ frame = [p \in Process |-> UserCode]
        /\ fd = [p \in Process |-> 0]
        /\ seen = [p \in Process |-> 0]
        /\ received = [p \in Process |-> NoOne]
  BY DEF Init, Count
<1>3. \A k, m \in 1 .. Count : k # m => order[k] # order[m]
  <2>1. IsFiniteSet(1 .. Count) /\ Cardinality(1 .. Count) = Count
    BY <1>1, FS_Interval
  <2>2. \A n \in Standard : \E k \in 1 .. Count : order[k] = n
    BY <1>2
  <2>3. order \in Surjection(1 .. Count, Standard)
    BY <2>2 DEF Surjection
  <2>4. order \in Injection(1 .. Count, Standard)
    BY <2>1, <2>3, FS_SurjSameCardinalityImpliesInj DEF Count
  <2>. QED  BY <2>4 DEF Injection, IsInjective
<1>4. /\ FreeInstance \in Instance
      /\ FreeInstance.available
      /\ 0 \in Slot
      /\ 1 .. Count \subseteq Index
      /\ 1 .. Count \subseteq Slot \ {0}
  BY <1>1, Sizes DEF FreeInstance, Instance, Position, Index, Slot
<1>5. \A n \in Standard : n \in Name /\ n # NoOne
  BY StandardAssumption, NoOneAssumption
<1>6. ASSUME NEW k \in 1 .. Count
      PROVE  /\ inst[k] \in Instance /\ ~inst[k].available
             /\ inst[k].name = order[k] /\ inst[k].sem = k
             /\ slot[k] \in SemSlot /\ ~slot[k].available /\ slot[k].name = order[k]
             /\ order[k] # NoOne
  <2>1. order[k] \in Name /\ order[k] # NoOne
    BY <1>2, <1>5
  <2>2. inst[k] = [FreeInstance EXCEPT !.available = FALSE, !.name = order[k], !.sem = k]
    BY <1>2, <1>4
  <2>3. slot[k] = [available |-> FALSE, name |-> order[k], lock |-> Locked, val |-> 0]
    BY <1>2, <1>4
  <2>4. inst[k] \in Instance /\ ~inst[k].available /\ inst[k].name = order[k] /\ inst[k].sem = k
    <3>1. k \in Slot /\ order[k] \in Name \cup {NoOne}
      BY <1>4, <2>1
    <3>. QED  BY <1>4, <2>2, <3>1, ZenonT(60) DEF Instance
  <2>5. slot[k] \in SemSlot /\ ~slot[k].available /\ slot[k].name = order[k]
    BY <2>1, <2>3 DEF SemSlot
  <2>. QED  BY <2>1, <2>4, <2>5
<1>7. ASSUME NEW i \in Index, i \notin 1 .. Count
      PROVE  inst[i] = FreeInstance
  BY <1>2, <1>7
<1>8. ASSUME NEW s \in Slot, s \notin 1 .. Count
      PROVE  slot[s] \in SemSlot /\ slot[s].available
  <2>1. slot[s] = [available |-> TRUE, name |-> NoOne, lock |-> Unlocked, val |-> 0]
    BY <1>2, <1>8
  <2>. QED  BY <2>1 DEF SemSlot
<1>9. Types
  <2>1. inst \in [Index -> Instance]
    <3>1. \A i \in Index : inst[i] \in Instance
      BY <1>4, <1>6, <1>7
    <3>. QED  BY <1>2, <3>1
  <2>2. slot \in [Slot -> SemSlot]
    <3>1. \A s \in Slot : slot[s] \in SemSlot
      BY <1>6, <1>8
    <3>. QED  BY <1>2, <3>1
  <2>3. frame \in [Process -> Frame]
    BY <1>2, FrameTypes
  <2>4. fd \in [Process -> 0 .. Instances]
    <3>1. 0 \in 0 .. Instances
      BY Sizes
    <3>. QED  BY <1>2, <3>1
  <2>5. seen \in [Process -> Int]
    <3>1. seen = [p \in Process |-> 0]
      BY <1>2, Zenon
    <3>. QED  BY <3>1
  <2>. QED  BY <1>2, <2>1, <2>2, <2>3, <2>4, <2>5 DEF Types
<1>10. Frames
  BY <1>2 DEF Frames, OpenFrame, CloseFrame, OtherFrame, Owns, UserCode,
              Opening, Closing, Managing, Moving, Posting, Waiting
<1>11. ASSUME NEW i \in Index
       PROVE  /\ Complete(i) <=> i \in 1 .. Count
              /\ ~inst[i].available => i \in 1 .. Count
  BY <1>2, <1>4, <1>6, <1>7 DEF Complete, InCall, UserCode
<1>12. Tables
  <2>1. \A s \in Slot : ~slot[s].available => s \in 1 .. Count
    BY <1>8
  <2>2. \A i \in Index : ~inst[i].available => inst[i].name # NoOne
    BY <1>6, <1>11
  <2>3. ASSUME NEW i \in Index, NEW j \in Index, i # j, ~inst[i].available, ~inst[j].available
        PROVE  inst[i].name # inst[j].name
    BY <1>3, <1>6, <1>11, <2>3
  <2>4. ASSUME NEW i \in Index, Complete(i)
        PROVE  /\ inst[i].sem # 0
               /\ ~slot[inst[i].sem].available
               /\ slot[inst[i].sem].name = inst[i].name
    BY <1>4, <1>6, <1>11, <2>4
  <2>5. ASSUME NEW s \in Slot, ~slot[s].available
        PROVE  \E i \in Index : Complete(i) /\ inst[i].sem = s
    BY <1>4, <1>6, <1>11, <2>1, <2>5
  <2>. QED  BY <2>2, <2>3, <2>4, <2>5 DEF Tables
<1>. QED  BY <1>9, <1>10, <1>12 DEF PipesInv

LEMMA NextKeeps == PipesInv /\ [Next]_vars => PipesInv'
<1>. SUFFICES ASSUME PipesInv, [Next]_vars
              PROVE  PipesInv'
  OBVIOUS
<1>1. CASE UNCHANGED vars
  BY <1>1 DEF vars, PipesInv, Types, Frames, Tables, OpenFrame, CloseFrame, KeepsOff,
              OtherFrame, Owns, Complete, InCall
<1>2. ASSUME NEW p \in Process, Call(p)
      PROVE  PipesInv'
  BY <1>2, OpenPipeKeeps, ClosePipeKeeps, WriteCharKeeps, ReadPipeKeeps DEF Call
<1>3. ASSUME NEW p \in Process, Manage(p)
      PROVE  PipesInv'
  BY <1>3, LookUpKeeps, CreatePipeKeeps, CreateSemKeeps, OpenFailsKeeps, OpenReturnsKeeps,
     CloseSemKeeps, CloseReturnsKeeps DEF Manage
<1>4. ASSUME NEW p \in Process, Transfer(p)
      PROVE  PipesInv'
  BY <1>4, TransferKeeps, TakeCharKeeps DEF Transfer
<1>. QED  BY <1>1, <1>2, <1>3, <1>4, EnterKeeps DEF Next

THEOREM PipesInvariant == Spec => []PipesInv
  BY InitHolds, NextKeeps, PTL DEF Spec

\* No two pipes that processes can use have the same name or read semaphore, and none
\* is on a slot that create_sem may give away.
THEOREM PipesStayApart == Spec => []PipesApart
<1>1. PipesInv => PipesApart
  <2>. SUFFICES ASSUME PipesInv, NEW i \in Usable
               PROVE  /\ ~slot[inst[i].sem].available
                      /\ slot[inst[i].sem].name = inst[i].name
                      /\ \A j \in Usable \ {i} :
                           inst[i].name # inst[j].name /\ inst[i].sem # inst[j].sem
    BY DEF PipesApart
  <2>1. \A j \in Usable : Complete(j)
    BY DEF Usable, Complete, InCall
  <2>2. ASSUME NEW j \in Usable \ {i}
        PROVE  inst[i].name # inst[j].name
    BY <2>1 DEF PipesInv, Tables, Complete
  <2>. QED  BY <2>1, <2>2 DEF PipesInv, Tables, Complete
<1>. QED  BY <1>1, PipesInvariant, PTL

\* Every step of a process that has the manager semaphore ends in a place where it still
\* has it, or gives it back.
THEOREM ManagerIsGivenBack == Spec => []ManagerGivenBack
<1>1. Init => ManagerGivenBack
  BY DEF Init, ManagerGivenBack
<1>2. PipesInv /\ ManagerGivenBack /\ [Next]_vars => ManagerGivenBack'
  <2>. SUFFICES ASSUME PipesInv, ManagerGivenBack, [Next]_vars, holder' # NoOne
               PROVE  frame'[holder'].at \in Managing
    BY DEF ManagerGivenBack
  <2>1. frame \in [Process -> Frame] /\ holder \in Process \cup {NoOne}
    BY DEF PipesInv, Types
  <2>2. ASSUME NEW p \in Process, UNCHANGED holder, frame[p].at \notin Managing,
               \A q \in Process \ {p} : frame'[q] = frame[q]
        PROVE  frame'[holder'].at \in Managing
    BY <2>1, <2>2 DEF ManagerGivenBack
  <2>3. ASSUME NEW p \in Process, UNCHANGED holder, frame[p].at \in Managing,
               frame'[p].at \in Managing
        PROVE  frame'[holder'].at \in Managing
    BY <2>3, ManagerAlone
  <2>4. CASE UNCHANGED vars
    BY <2>4 DEF vars, ManagerGivenBack
  <2>5. ASSUME NEW p \in Process, Call(p)
        PROVE  frame'[holder'].at \in Managing
    <3>1. frame[p].at = "user" /\ UNCHANGED holder
      BY <2>5 DEF Call, OpenPipe, ClosePipe, WriteChar, ReadPipe, At
    <3>2. \A q \in Process \ {p} : frame'[q] = frame[q]
      BY <2>1, <2>5 DEF Call, OpenPipe, ClosePipe, WriteChar, ReadPipe, StartRegion
    <3>. QED  BY <2>2, <3>1, <3>2 DEF Managing
  <2>6. ASSUME NEW p \in Process, Enter(p)
        PROVE  frame'[holder'].at \in Managing
    <3>1. PICK to \in {"get_pipe", "sem_close"} : holder' = p /\ Goto(p, to)
      BY <2>6 DEF Enter, EnterOpen, EnterClose, TakeManager
    <3>2. frame'[p].at = to
      BY <2>1, <3>1 DEF Goto, Frame
    <3>. QED  BY <3>1, <3>2 DEF Managing
  <2>7. ASSUME NEW p \in Process, Manage(p)
        PROVE  frame'[holder'].at \in Managing
    <3>1. CASE OpenFails(p) \/ OpenReturns(p) \/ CloseReturns(p)
      BY <3>1 DEF OpenFails, OpenReturns, CloseReturns
    <3>2. CASE LookUp(p)
      BY <2>1, <2>3, <3>2 DEF LookUp, At, Managing
    <3>3. CASE CreatePipe(p)
      <4>1. frame'[p].at \in {"fail", "create_sem"} /\ UNCHANGED holder
        BY <2>1, <3>3 DEF CreatePipe, Goto, Frame
      <4>. QED  BY <2>3, <3>3, <4>1 DEF CreatePipe, At, Managing
    <3>4. CASE CreateSem(p)
      <4>1. frame'[p].at \in {"fail", "return"} /\ UNCHANGED holder
        BY <2>1, <3>4 DEF CreateSem, Goto, Frame
      <4>. QED  BY <2>3, <3>4, <4>1 DEF CreateSem, At, Managing
    <3>5. CASE CloseSem(p)
      <4>. DEFINE i == frame[p].index
      <4>1. frame[p].at = "sem_close" /\ UNCHANGED holder
        BY <3>5 DEF CloseSem, At
      <4>2. i \in Index /\ ~inst[i].available /\ \A q \in Process \ {p} : frame[q].at \notin Managing
        BY <4>1, WhileClosing
      <4>3. Complete(i)
        BY <4>1, <4>2 DEF Complete, InCall, Managing
      <4>4. GetSem(inst[i].name) # 0
        BY <4>2, <4>3, GetSemFinds DEF PipesInv, Tables
      <4>5. frame' = [frame EXCEPT ![p].at = "available"]
        BY <3>5, <4>4 DEF CloseSem, Goto
      <4>6. frame'[p].at = "available"
        BY <2>1, <4>5 DEF Frame
      <4>. QED  BY <2>3, <4>1, <4>6 DEF Managing
    <3>. QED  BY <2>7, <3>1, <3>2, <3>3, <3>4, <3>5 DEF Manage
  <2>8. ASSUME NEW p \in Process, Transfer(p)
        PROVE  frame'[holder'].at \in Managing
    <3>1. /\ frame[p].at \in Moving
          /\ UNCHANGED holder
          /\ \A q \in Process \ {p} : frame'[q] = frame[q]
      BY <2>1, <2>8 DEF Transfer, Post, Wait, TakeChar, EnterRegion, Load, Store, LeavePost,
         TestZero, LeaveWait, At, Goto, Return, Moving, Posting, Waiting
    <3>. QED  BY <2>2, <3>1 DEF Managing, Moving, Posting, Waiting
  <2>. QED  BY <2>4, <2>5, <2>6, <2>7, <2>8 DEF Next
<1>. QED  BY <1>1, <1>2, PipesInvariant, PTL DEF Spec
=============================================================================
