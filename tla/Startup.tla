------------------------------ MODULE Startup ------------------------------
(***************************************************************************)
(* The image that Toolchain/ModulePacker builds and the loader of the       *)
(* kernel (moduleLoader.c, kernel.c), which takes it apart.                 *)
(*                                                                          *)
(* Addresses count from endOfKernelBinary, where the packed modules begin.  *)
(* The kernel's own bss begins there as well: nothing of it may be used, or *)
(* cleared, before the modules have been copied.  A cell of memory holds a  *)
(* byte of a module or one of the packer's numbers.                         *)
(***************************************************************************)
EXTENDS Naturals, SequencesExt

CONSTANTS Byte,
          MaxSize,      \* bound: bytes of a module
          BssSize,      \* endOfKernel - bss
          FirstTarget,  \* sampleCodeModuleAddress
          Gap           \* from there to sampleDataModuleAddress

MaxModules == 2     \* moduleAddresses has two entries

Files == UNION {[1 .. n -> SeqOf(Byte, MaxSize)] : n \in 1 .. MaxModules}

ASSUME ByteAssumption == Byte # {} /\ Byte \cap Nat = {}
ASSUME LayoutAssumption ==
  /\ {MaxSize, BssSize, FirstTarget, Gap} \subseteq Nat
  /\ MaxSize <= Gap
  /\ 1 + MaxModules * (1 + MaxSize) <= FirstTarget
  /\ BssSize <= FirstTarget

Address == 0 .. FirstTarget + MaxModules * Gap - 1
Target(i) == FirstTarget + (i - 1) * Gap

-----------------------------------------------------------------------------
\* buildImage, behind the kernel.
Pack(files) ==
  <<Len(files)>> \o FlattenSeq([i \in DOMAIN files |-> <<Len(files[i])>> \o files[i]])

\* The boot loader has put the image into memory.
Loaded(files) ==
  LET image == Pack(files)
  IN [memory |-> [a \in Address |-> IF a < Len(image) THEN image[a + 1] ELSE 0],
      cursor |-> 0, count |-> 0, next |-> 1]

\* The first lines of loadModules.
ReadCount(m) == [m EXCEPT !.count = m.memory[m.cursor], !.cursor = @ + 1]

\* Mutant of LoadModule: the copy stops one byte early.
LoadModuleShort(m) ==
  LET size == m.memory[m.cursor]
      from == m.cursor + 1
      to == Target(m.next)
  IN [m EXCEPT !.memory = [a \in Address |-> IF a \in to .. to + size - 2
                                             THEN m.memory[from + a - to]
                                             ELSE m.memory[a]],
               !.cursor = from + size,
               !.next = @ + 1]

LoadModule(m) ==
  LET size == m.memory[m.cursor]
      from == m.cursor + 1
      to == Target(m.next)
  IN [m EXCEPT !.memory = [a \in Address |-> IF a \in to .. to + size - 1
                                             THEN m.memory[from + a - to]
                                             ELSE m.memory[a]],
               !.cursor = from + size,
               !.next = @ + 1]

ClearBSS(m) ==
  [m EXCEPT !.memory = [a \in Address |-> IF a < BssSize THEN 0 ELSE m.memory[a]]]

\* Each module is at its address, whole.
InPlace(m, files) ==
  \A i \in DOMAIN files : \A k \in DOMAIN files[i] :
    m.memory[Target(i) + k - 1] = files[i][k]
=============================================================================
