---------------------------- MODULE MemoryProofs ----------------------------
(***************************************************************************)
(* Theorems about the memory manager, with either manager, for any sizes    *)
(* and any requests: the pieces handed out do not overlap and touch no      *)
(* struct, none is lost, everything is merged again once it is freed, and   *)
(* the marks of the buddy manager hide no free leaf.  Calls of the memory   *)
(* manager do not overlap in Memory, so nothing is said of those that do.   *)
(*                                                                         *)
(* The functions of the managers are recursive: what they compute follows   *)
(* from equations, and that functions with these equations exist is shown   *)
(* first (RecursionExists).  Then come the tree, malloc and free of the     *)
(* buddy manager, the list of blocks, and the invariant MemInv.             *)
(***************************************************************************)
EXTENDS Memory, QueueLemmas, FiniteSetTheorems, FunctionTheorems

-----------------------------------------------------------------------------
(* Recursive functions. *)

\* A set of numbers that has 0 and, with each of its numbers, the next one has them all.
LEMMA AllNumbers ==
  ASSUME NEW S \in SUBSET Nat, 0 \in S, \A n \in S : n + 1 \in S
  PROVE  S = Nat
<1> SUFFICES ASSUME Nat \ S # {} PROVE FALSE
  OBVIOUS
<1>1. PICK x \in Nat \ S : \A y \in Nat \ S : x <= y
  BY MinProperties
<1>2. x - 1 \in Nat /\ x - 1 \in S
  BY <1>1
<1> QED
  BY <1>1, <1>2

\* G says what the value of a function from D to V is at x, and looks only at its values
\* at arguments of lower rank.
IsRecursion(D, V, rank, top, G) ==
  /\ V # {}
  /\ top \in Nat
  /\ rank \in [D -> Nat]
  /\ \A x \in D : rank[x] < top
  /\ G \in [D -> [[D -> V] -> V]]
  /\ \A x \in D : \A f, g \in [D -> V] :
       (\A y \in D : rank[y] < rank[x] => f[y] = g[y]) => G[x][f] = G[x][g]

\* Then there is a function with these values.
LEMMA RecursionExists ==
  ASSUME NEW D, NEW V, NEW rank, NEW top, NEW G, IsRecursion(D, V, rank, top, G)
  PROVE  \E f \in [D -> V] : \A x \in D : f[x] = G[x][f]
<1>0. /\ top \in Nat
      /\ rank \in [D -> Nat]
      /\ \A x \in D : rank[x] < top
      /\ G \in [D -> [[D -> V] -> V]]
      /\ \A x \in D : \A f, g \in [D -> V] :
           (\A y \in D : rank[y] < rank[x] => f[y] = g[y]) => G[x][f] = G[x][g]
  BY DEF IsRecursion
<1> PICK v \in V : TRUE
  BY DEF IsRecursion
<1> USE <1>0
<1> DEFINE Upto(n, f) == \A x \in D : rank[x] < n => f[x] = G[x][f]
           S == {n \in Nat : \E f \in [D -> V] : Upto(n, f)}
<1>1. 0 \in S
  <2>1. Upto(0, [x \in D |-> v])
    OBVIOUS
  <2>2. [x \in D |-> v] \in [D -> V]
    OBVIOUS
  <2> QED
    BY <2>1, <2>2
<1>2. ASSUME NEW n \in S PROVE n + 1 \in S
  <2>1. PICK f \in [D -> V] : Upto(n, f)
    BY <1>2
  <2> DEFINE g == [x \in D |-> IF rank[x] = n THEN G[x][f] ELSE f[x]]
  <2>2. g \in [D -> V]
    OBVIOUS
  <2>3. ASSUME NEW x \in D, rank[x] < n + 1 PROVE g[x] = G[x][g]
    <3>1. \A y \in D : rank[y] < rank[x] => f[y] = g[y]
      BY <2>3
    <3> HIDE DEF g
    <3>2. G[x][f] = G[x][g]
      BY <2>2, <3>1
    <3>3. CASE rank[x] = n
      BY <3>2, <3>3 DEF g
    <3>4. CASE rank[x] < n
      BY <2>1, <3>2, <3>4 DEF g
    <3> QED
      <4>1. n \in Nat /\ rank[x] \in Nat
        BY <1>2
      <4>2. rank[x] < n + 1
        BY <2>3
      <4>3. \A a, b \in Nat : a < b + 1 => a = b \/ a < b
        OBVIOUS
      <4>4. rank[x] = n \/ rank[x] < n
        BY <4>1, <4>2, <4>3, Zenon
      <4> QED
        BY <3>3, <3>4, <4>4
  <2> HIDE DEF g
  <2>4. Upto(n + 1, g)
    BY <2>3
  <2> QED
    BY <2>2, <2>4
<1> HIDE DEF S
<1>3. S = Nat
  <2>1. S \in SUBSET Nat
    BY DEF S
  <2> QED
    BY <1>1, <1>2, <2>1, AllNumbers
<1> QED
  BY <1>3 DEF S

-----------------------------------------------------------------------------
(* Powers of two and halves. *)

\* 2 ^ n is the number of sets of numbers up to n: one number more doubles it.
LEMMA NextPower ==
  ASSUME NEW n \in Nat
  PROVE  2 ^ (n + 1) = 2 * 2 ^ n
<1> DEFINE S == 1 .. n
           T == SUBSET S
           U == {x \cup {n + 1} : x \in T}
<1>1. IsFiniteSet(S) /\ Cardinality(S) = n
  BY FS_Interval
<1>2. IsFiniteSet(1 .. n + 1) /\ Cardinality(1 .. n + 1) = n + 1
  BY FS_Interval
<1>3. IsFiniteSet(T) /\ Cardinality(T) = 2 ^ n
  BY <1>1, FS_SUBSET
<1>4. Cardinality(SUBSET (1 .. n + 1)) = 2 ^ (n + 1)
  BY <1>2, FS_SUBSET
<1>5. IsFiniteSet(U) /\ Cardinality(U) = Cardinality(T)
  <2> DEFINE f == [x \in T |-> x \cup {n + 1}]
  <2>1. \A x, y \in T : x \cup {n + 1} = y \cup {n + 1} => x = y
    <3> TAKE x, y \in T
    <3>1. n + 1 \notin x /\ n + 1 \notin y
      OBVIOUS
    <3> QED
      BY <3>1
  <2>2. f \in Bijection(T, U)
    <3>1. f \in [T -> U] /\ \A u \in U : \E x \in T : f[x] = u
      OBVIOUS
    <3>2. \A x, y \in T : f[x] = f[y] => x = y
      BY <2>1
    <3> HIDE DEF f, T, U
    <3> QED
      BY <3>1, <3>2, Fun_IsBij
  <2> QED
    BY <1>3, <2>2, FS_Bijection DEF ExistsBijection
<1>6. T \cup U = SUBSET (1 .. n + 1)
  <2>1. ASSUME NEW x \in SUBSET (1 .. n + 1) PROVE x \in T \cup U
    <3>1. CASE n + 1 \in x
      <4>1. x \ {n + 1} \in T /\ x = (x \ {n + 1}) \cup {n + 1}
        BY <3>1
      <4> QED
        BY <4>1
    <3>2. CASE n + 1 \notin x
      BY <3>2
    <3> QED
      BY <3>1, <3>2
  <2>2. ASSUME NEW x \in T PROVE x \subseteq 1 .. n + 1 /\ x \cup {n + 1} \subseteq 1 .. n + 1
    <3>1. \A k \in x : k \in 1 .. n
      OBVIOUS
    <3> QED
      BY <3>1
  <2>3. T \cup U \subseteq SUBSET (1 .. n + 1)
    BY <2>2
  <2> HIDE DEF T, U
  <2> QED
    BY <2>1, <2>3
<1>7. T \cap U = {}
  OBVIOUS
<1> HIDE DEF T, U
<1>8. Cardinality(T \cup U) = Cardinality(T) + Cardinality(U) - Cardinality({})
  BY <1>3, <1>5, <1>7, FS_Union
<1>9. Cardinality({}) = 0
  BY FS_EmptySet
<1>10. 2 ^ n \in Int
  OBVIOUS
<1>11. Cardinality(T \cup U) = 2 ^ n + 2 ^ n
  <2> DEFINE c == Cardinality(T)
  <2>1. Cardinality(T \cup U) = c + c - 0
    BY <1>5, <1>8, <1>9
  <2>2. c = 2 ^ n
    BY <1>3
  <2> HIDE DEF c
  <2> QED
    BY <1>10, <2>1, <2>2
<1>12. 2 ^ (n + 1) = Cardinality(T \cup U)
  BY <1>4, <1>6
<1> QED
  BY <1>10, <1>11, <1>12

LEMMA PowersGrow ==
  ASSUME NEW n \in Nat
  PROVE  2 ^ n \in Nat /\ 2 ^ n > n
<1> DEFINE S == {k \in Nat : 2 ^ k \in Nat /\ 2 ^ k > k}
<1>1. 0 \in S
  OBVIOUS
<1>2. ASSUME NEW k \in S PROVE k + 1 \in S
  BY NextPower
<1>3. S = Nat
  <2> HIDE DEF S
  <2>1. S \in SUBSET Nat
    BY DEF S
  <2> QED
    BY <1>1, <1>2, <2>1, AllNumbers
<1> QED
  BY <1>3

\* Halving what was divided already.
LEMMA Halved ==
  ASSUME NEW r \in Nat, NEW a \in Nat \ {0}
  PROVE  (r \div a) \div 2 = r \div (2 * a)
<1> DEFINE q == r \div a
           h == q \div 2
           s == q % 2
           m == r % a
<1>1. q \in Nat /\ m \in 0 .. a - 1 /\ r = a * q + m
  OBVIOUS
<1> HIDE DEF q, m
<1>2. h \in Nat /\ s \in {0, 1} /\ q = 2 * h + s
  BY <1>1
<1> HIDE DEF h, s
<1>3. r = (2 * a) * h + (a * s + m)
  BY <1>1, <1>2
<1>4. a * s + m \in 0 .. 2 * a - 1
  BY <1>1, <1>2
<1> QED
  BY <1>2, <1>3, <1>4 DEF h, q

-----------------------------------------------------------------------------
(* The nodes of the tree. *)

\* The nodes go up to an even number: the children of a node come in pairs.
LEMMA NodeSet == \E m \in Nat : Node = 0 .. 2 * m
<1>1. Depth \in Nat
  BY DepthAssumption
<1>2. 2 ^ Depth \in Nat /\ 2 ^ Depth > 0
  <2>1. 2 ^ Depth \in Nat /\ 2 ^ Depth > Depth
    BY <1>1, PowersGrow
  <2> QED
    BY <1>1, <2>1
<1>3. 2 ^ (Depth + 1) = 2 * 2 ^ Depth
  BY <1>1, NextPower
<1> DEFINE m == 2 ^ Depth - 1
<1>4. m \in Nat /\ 2 ^ (Depth + 1) - 2 = 2 * m
  BY <1>2, <1>3
<1> HIDE DEF m
<1>5. Node = 0 .. 2 * m
  BY <1>4 DEF Node
<1> QED
  BY <1>4, <1>5

\* Parents and children.
LEMMA Family ==
  /\ Node \subseteq Nat
  /\ 0 \in Node
  /\ \A i \in Node \ {0} : /\ Parent(i) \in Node
                           /\ Parent(i) < i
                           /\ IF IsLeft(i) THEN i = Left(Parent(i)) ELSE i = Right(Parent(i))
  /\ \A i \in Node : /\ Left(i) \in Node <=> Right(i) \in Node
                     /\ Left(i) > i /\ Right(i) > i /\ Left(i) # Right(i)
                     /\ Parent(Left(i)) = i /\ Parent(Right(i)) = i
                     /\ IsLeft(Left(i)) /\ ~ IsLeft(Right(i))
<1>1. PICK m \in Nat : Node = 0 .. 2 * m
  BY NodeSet
<1>2. \A i \in Node : i \in Nat /\ i <= 2 * m
  BY <1>1
<1>3. ASSUME NEW i \in Node \ {0}
      PROVE  /\ Parent(i) \in Node
             /\ Parent(i) < i
             /\ IF IsLeft(i) THEN i = Left(Parent(i)) ELSE i = Right(Parent(i))
  <2>1. i \in Nat \ {0} /\ i <= 2 * m
    BY <1>2
  <2>2. Parent(i) \in Nat /\ Parent(i) < i
    BY <2>1 DEF Parent
  <2>3. Parent(i) \in Node
    BY <1>1, <2>1, <2>2
  <2>4. IF IsLeft(i) THEN i = Left(Parent(i)) ELSE i = Right(Parent(i))
    BY <2>1 DEF IsLeft, Left, Right, Parent
  <2> QED
    BY <2>2, <2>3, <2>4
<1>4. ASSUME NEW i \in Node
      PROVE  /\ Left(i) \in Node <=> Right(i) \in Node
             /\ Left(i) > i /\ Right(i) > i /\ Left(i) # Right(i)
             /\ Parent(Left(i)) = i /\ Parent(Right(i)) = i
             /\ IsLeft(Left(i)) /\ ~ IsLeft(Right(i))
  <2>1. i \in Nat
    BY <1>2
  <2>2. Left(i) \in Node <=> Right(i) \in Node
    BY <1>1, <2>1 DEF Left, Right
  <2> QED
    BY <2>1, <2>2 DEF Left, Right, Parent, IsLeft
<1>5. Node \subseteq Nat /\ 0 \in Node
  BY <1>1
<1> QED
  BY <1>3, <1>4, <1>5

\* A set of nodes that has the root and each node whose parent it has is the whole tree.
LEMMA Downwards ==
  ASSUME NEW S, 0 \in S, \A i \in Node \ {0} : Parent(i) \in S => i \in S
  PROVE  Node \subseteq S
<1> SUFFICES ASSUME Node \ S # {} PROVE FALSE
  OBVIOUS
<1>1. PICK i \in Node \ S : \A j \in Node \ S : i <= j
  BY Family, MinProperties
<1>2. i \in Node \ {0} /\ Parent(i) \in Node /\ Parent(i) < i /\ i \in Nat /\ Parent(i) \in Nat
  BY <1>1, Family
<1>3. Parent(i) \in S
  BY <1>1, <1>2
<1> QED
  BY <1>1, <1>2, <1>3

-----------------------------------------------------------------------------
(* Sizes and addresses. *)

LEMMA Halves == \A n \in Nat : n \div 2 \in Nat /\ 2 * (n \div 2) <= n
OBVIOUS

\* size has the values its definition says; a child has half the size of its parent.
LEMMA Sizes ==
  /\ size \in [Node -> Nat]
  /\ \A i \in Node : size[i] = IF i = 0 THEN RootSize ELSE size[Parent(i)] \div 2
<1> DEFINE V == [Node -> Nat]
           G == [i \in Node |-> [f \in V |-> IF i = 0 THEN RootSize ELSE f[Parent(i)] \div 2]]
           rank == [i \in Node |-> i]
<1>1. PICK m \in Nat : Node = 0 .. 2 * m
  BY NodeSet
<1>2. rank \in [Node -> Nat] /\ \A i \in Node : rank[i] < 2 * m + 1
  BY <1>1
<1>3. G \in [Node -> [V -> Nat]]
  <2>1. RootSize \in Nat
    BY RootSizeAssumption
  <2>2. \A i \in Node, f \in V : i # 0 => f[Parent(i)] \div 2 \in Nat
    BY Family, Halves
  <2> QED
    BY <2>1, <2>2
<1>4. \A i \in Node : \A f, g \in V :
        (\A j \in Node : rank[j] < rank[i] => f[j] = g[j]) => G[i][f] = G[i][g]
  <2> TAKE i \in Node
  <2> TAKE f, g \in V
  <2> HAVE \A j \in Node : rank[j] < rank[i] => f[j] = g[j]
  <2>1. CASE i = 0
    BY <2>1
  <2>2. CASE i # 0
    <3>1. Parent(i) \in Node /\ Parent(i) < i
      BY <2>2, Family
    <3>2. f[Parent(i)] = g[Parent(i)]
      BY <3>1
    <3> QED
      BY <2>2, <3>2
  <2> QED
    BY <2>1, <2>2
<1> HIDE DEF rank
<1>5. PICK f \in V : \A i \in Node : f[i] = G[i][f]
  <2> HIDE DEF G
  <2>1. 2 * m + 1 \in Nat /\ Nat # {}
    OBVIOUS
  <2>2. IsRecursion(Node, Nat, rank, 2 * m + 1, G)
    BY <1>2, <1>3, <1>4, <2>1, Zenon DEF IsRecursion
  <2> QED
    BY <2>2, RecursionExists
<1>6. f = [i \in Node |-> IF i = 0 THEN RootSize ELSE f[Parent(i)] \div 2]
  BY <1>5
<1>7. size = [i \in Node |-> IF i = 0 THEN RootSize ELSE size[Parent(i)] \div 2]
  BY <1>6, Zenon DEF size
<1>8. \A i \in Node : size[i] = IF i = 0 THEN RootSize ELSE size[Parent(i)] \div 2
  BY <1>7
<1>9. size[0] \in Nat
  BY <1>8, Family, RootSizeAssumption
<1>10. \A i \in Node \ {0} : size[Parent(i)] \in Nat => size[i] \in Nat
  BY <1>8, Halves
<1>11. \A i \in Node : size[i] \in Nat
  <2> DEFINE S == {i \in Node : size[i] \in Nat}
  <2>1. 0 \in S /\ \A i \in Node \ {0} : Parent(i) \in S => i \in S
    BY <1>9, <1>10, Family
  <2> HIDE DEF S
  <2>2. Node \subseteq S
    BY <2>1, Downwards
  <2> QED
    BY <2>2 DEF S
<1> QED
  BY <1>7, <1>8, <1>11

\* start has the values its definition says: a right child begins where the left one ends.
LEMMA Starts ==
  /\ start \in [Node -> Nat]
  /\ start[0] = 0
  /\ \A i \in Node \ {0} :
       start[i] = IF IsLeft(i) THEN start[Parent(i)] ELSE start[Parent(i)] + size[i]
<1> DEFINE V == [Node -> Nat]
           G == [i \in Node |-> [f \in V |->
                  IF i = 0 THEN 0
                  ELSE IF IsLeft(i) THEN f[Parent(i)] ELSE f[Parent(i)] + size[i]]]
           rank == [i \in Node |-> i]
<1>1. PICK m \in Nat : Node = 0 .. 2 * m
  BY NodeSet
<1>2. rank \in [Node -> Nat] /\ \A i \in Node : rank[i] < 2 * m + 1
  BY <1>1
<1>3. G \in [Node -> [V -> Nat]]
  <2>1. ASSUME NEW i \in Node, NEW f \in V, i # 0
        PROVE  f[Parent(i)] \in Nat /\ f[Parent(i)] + size[i] \in Nat
    <3>1. Parent(i) \in Node /\ size[i] \in Nat
      BY <2>1, Family, Sizes
    <3> QED
      BY <3>1
  <2> QED
    BY <2>1
<1>4. \A i \in Node : \A f, g \in V :
        (\A j \in Node : rank[j] < rank[i] => f[j] = g[j]) => G[i][f] = G[i][g]
  <2> TAKE i \in Node
  <2> TAKE f, g \in V
  <2> HAVE \A j \in Node : rank[j] < rank[i] => f[j] = g[j]
  <2>1. CASE i = 0
    BY <2>1
  <2>2. CASE i # 0
    <3>1. Parent(i) \in Node /\ Parent(i) < i
      BY <2>2, Family
    <3>2. f[Parent(i)] = g[Parent(i)]
      BY <3>1
    <3> QED
      BY <2>2, <3>2
  <2> QED
    BY <2>1, <2>2
<1> HIDE DEF rank
<1>5. PICK f \in V : \A i \in Node : f[i] = G[i][f]
  <2> HIDE DEF G
  <2>1. 2 * m + 1 \in Nat /\ Nat # {}
    OBVIOUS
  <2>2. IsRecursion(Node, Nat, rank, 2 * m + 1, G)
    BY <1>2, <1>3, <1>4, <2>1, Zenon DEF IsRecursion
  <2> QED
    BY <2>2, RecursionExists
<1>6. f = [i \in Node |->
             IF i = 0 THEN 0
             ELSE IF IsLeft(i) THEN f[Parent(i)] ELSE f[Parent(i)] + size[i]]
  BY <1>5
<1>7. start = [i \in Node |->
                 IF i = 0 THEN 0
                 ELSE IF IsLeft(i) THEN start[Parent(i)] ELSE start[Parent(i)] + size[i]]
  BY <1>6, Zenon DEF start
<1>8. \A i \in Node :
        start[i] = IF i = 0 THEN 0
                   ELSE IF IsLeft(i) THEN start[Parent(i)] ELSE start[Parent(i)] + size[i]
  BY <1>7
<1>9. start[0] = 0
  BY <1>8, Family
<1>10. \A i \in Node \ {0} : start[Parent(i)] \in Nat => start[i] \in Nat
  BY <1>8, Sizes
<1>11. \A i \in Node : start[i] \in Nat
  <2> DEFINE S == {i \in Node : start[i] \in Nat}
  <2>1. 0 \in S /\ \A i \in Node \ {0} : Parent(i) \in S => i \in S
    BY <1>9, <1>10, Family
  <2> HIDE DEF S
  <2>2. Node \subseteq S
    BY <2>1, Downwards
  <2> QED
    BY <2>2 DEF S
<1> QED
  BY <1>7, <1>8, <1>9, <1>11

\* The halves of a node are as long as each other, lie side by side and within the node.
LEMMA Split ==
  ASSUME NEW i \in Node, Left(i) \in Node
  PROVE  /\ Right(i) \in Node
         /\ size[Left(i)] = size[i] \div 2
         /\ size[Right(i)] = size[i] \div 2
         /\ start[Left(i)] = start[i]
         /\ start[Right(i)] = start[Left(i)] + size[Left(i)]
         /\ start[Right(i)] + size[Right(i)] <= start[i] + size[i]
<1>1. /\ Right(i) \in Node
      /\ Parent(Left(i)) = i /\ Parent(Right(i)) = i
      /\ IsLeft(Left(i)) /\ ~ IsLeft(Right(i))
      /\ Left(i) # 0 /\ Right(i) # 0
  BY Family
<1>2. size[Left(i)] = size[i] \div 2 /\ size[Right(i)] = size[i] \div 2
  BY <1>1, Sizes
<1>3. start[Left(i)] = start[i] /\ start[Right(i)] = start[i] + size[Right(i)]
  BY <1>1, Starts
<1>4. size[i] \in Nat /\ start[i] \in Nat
  BY Sizes, Starts
<1> QED
  BY <1>1, <1>2, <1>3, <1>4, Halves

-----------------------------------------------------------------------------
(* Who is above whom. *)

\* above has the values its definition says.
LEMMA AboveDef ==
  ASSUME NEW j \in Node, NEW i \in Node
  PROVE  /\ above[j][i] \in BOOLEAN
         /\ above[j][i] <=> i = j \/ (i > j /\ above[j][Parent(i)])
<1> DEFINE D == Node \X Node
           V == [D -> BOOLEAN]
           Value(x, f) == x[2] = x[1] \/ (x[2] > x[1] /\ f[<<x[1], Parent(x[2])>>])
           G == [x \in D |-> [f \in V |-> Value(x, f)]]
           rank == [x \in D |-> x[2]]
<1>1. PICK m \in Nat : Node = 0 .. 2 * m
  BY NodeSet
<1>2. rank \in [D -> Nat] /\ \A x \in D : rank[x] < 2 * m + 1
  BY <1>1
<1>3. ASSUME NEW x \in D, x[2] > x[1]
      PROVE  <<x[1], Parent(x[2])>> \in D /\ Parent(x[2]) < x[2]
  <2>1. x[1] \in Node /\ x[2] \in Node
    OBVIOUS
  <2>2. x[2] # 0
    <3>1. x[1] \in Nat
      BY <2>1, Family
    <3> QED
      BY <1>3, <3>1
  <2>3. Parent(x[2]) \in Node /\ Parent(x[2]) < x[2]
    BY <2>1, <2>2, Family
  <2> QED
    BY <2>1, <2>3
<1>4. G \in [D -> [V -> BOOLEAN]]
  OBVIOUS
<1>5. \A x \in D : \A f, g \in V :
        (\A y \in D : rank[y] < rank[x] => f[y] = g[y]) => G[x][f] = G[x][g]
  <2> TAKE x \in D
  <2> TAKE f, g \in V
  <2> HAVE \A y \in D : rank[y] < rank[x] => f[y] = g[y]
  <2>1. CASE x[2] > x[1]
    <3>1. f[<<x[1], Parent(x[2])>>] = g[<<x[1], Parent(x[2])>>]
      BY <1>3, <2>1
    <3> QED
      BY <3>1
  <2>2. CASE ~ (x[2] > x[1])
    BY <2>2
  <2> QED
    BY <2>1, <2>2
<1> HIDE DEF rank
<1>6. PICK h \in V : \A x \in D : h[x] = Value(x, h)
  <2>1. 2 * m + 1 \in Nat /\ BOOLEAN # {}
    <3>1. 2 * m + 1 \in Nat
      OBVIOUS
    <3>2. TRUE \in BOOLEAN
      OBVIOUS
    <3> QED
      BY <3>1, <3>2, Zenon
  <2>2. \A h \in V, x \in D : G[x][h] = Value(x, h)
    <3> HIDE DEF Value, V, D
    <3> QED
      BY Zenon
  <2> HIDE DEF G
  <2>3. IsRecursion(D, BOOLEAN, rank, 2 * m + 1, G)
    BY <1>2, <1>4, <1>5, <2>1, Zenon DEF IsRecursion
  <2>4. \E h \in V : \A x \in D : h[x] = G[x][h]
    BY <2>3, RecursionExists
  <2> HIDE DEF Value, V, D
  <2> QED
    BY <2>2, <2>4
<1> DEFINE f == [k \in Node |-> [l \in Node |-> h[<<k, l>>]]]
<1>7. \A k, l \in Node : h[<<k, l>>] = (l = k \/ (l > k /\ h[<<k, Parent(l)>>]))
  <2> TAKE k, l \in Node
  <2>1. <<k, l>> \in D /\ <<k, l>>[1] = k /\ <<k, l>>[2] = l
    OBVIOUS
  <2> QED
    BY <1>6, <2>1
<1>8. \A k, l \in Node : f[k][l] = (l = k \/ (l > k /\ f[k][Parent(l)]))
  <2> TAKE k, l \in Node
  <2>1. l > k => Parent(l) \in Node
    BY Family
  <2> QED
    BY <1>7, <2>1
<1>9. f = [k \in Node |-> [l \in Node |-> l = k \/ (l > k /\ f[k][Parent(l)])]]
  BY <1>8
<1> HIDE DEF f
<1>10. above = [k \in Node |-> [l \in Node |-> l = k \/ (l > k /\ above[k][Parent(l)])]]
  BY <1>9, Zenon DEF above
<1> DEFINE E(k) == [l \in Node |-> l = k \/ (l > k /\ above[k][Parent(l)])]
<1>11. above = [k \in Node |-> E(k)]
  BY <1>10
<1>12. /\ E(j)[i] \in BOOLEAN
       /\ E(j)[i] <=> i = j \/ (i > j /\ above[j][Parent(i)])
  OBVIOUS
<1> HIDE DEF E
<1>13. above[j] = E(j)
  BY <1>11
<1> QED
  BY <1>12, <1>13

\* Each node is above itself, and otherwise what is above a node is above its parent.
LEMMA AboveFacts ==
  ASSUME NEW j \in Node, NEW i \in Node
  PROVE  /\ above[j][i] \in BOOLEAN
         /\ above[i][i]
         /\ above[j][i] => j <= i
         /\ above[j][i] /\ i # j => i > j /\ i # 0 /\ above[j][Parent(i)]
         /\ i # 0 /\ above[j][Parent(i)] => above[j][i]
<1>1. i \in Nat /\ j \in Nat
  BY Family
<1>2. /\ above[j][i] \in BOOLEAN
      /\ above[j][i] <=> i = j \/ (i > j /\ above[j][Parent(i)])
  BY AboveDef
<1>3. above[i][i]
  BY AboveDef
<1>4. ASSUME i # 0, above[j][Parent(i)] PROVE i > j
  <2>1. Parent(i) \in Node /\ Parent(i) < i /\ Parent(i) \in Nat
    BY <1>4, Family
  <2>2. Parent(i) = j \/ Parent(i) > j
    BY <1>4, <2>1, AboveDef
  <2>3. Parent(i) >= j
    BY <1>1, <2>1, <2>2
  <2> QED
    BY <1>1, <2>1, <2>3
<1>5. above[j][i] \in BOOLEAN /\ above[i][i]
  BY <1>2, <1>3
<1>6. above[j][i] => j <= i
  BY <1>1, <1>2
<1>7. above[j][i] /\ i # j => i > j /\ i # 0 /\ above[j][Parent(i)]
  BY <1>1, <1>2
<1>8. i # 0 /\ above[j][Parent(i)] => above[j][i]
  BY <1>2, <1>4
<1> QED
  BY <1>5, <1>6, <1>7, <1>8

LEMMA RootAbove == \A i \in Node : above[0][i]
<1> DEFINE S == {i \in Node : above[0][i]}
<1>1. 0 \in S
  BY Family, AboveFacts
<1>2. \A i \in Node \ {0} : Parent(i) \in S => i \in S
  BY Family, AboveFacts
<1> HIDE DEF S
<1>3. Node \subseteq S
  BY <1>1, <1>2, Downwards
<1> QED
  BY <1>3 DEF S

\* What is inherited from each node to its children holds below a node at which it holds.
LEMMA Inherited ==
  ASSUME NEW j \in Node, NEW S, j \in S,
         \A i \in Node \ {0} : above[j][Parent(i)] /\ Parent(i) \in S => i \in S
  PROVE  \A i \in Node : above[j][i] => i \in S
<1> DEFINE T == {i \in Node : above[j][i] => i \in S}
<1>1. 0 \in T
  <2>1. above[j][0] => j <= 0
    BY Family, AboveFacts
  <2>2. above[j][0] => j = 0
    BY <2>1, Family
  <2> QED
    BY <2>2, Family
<1>2. ASSUME NEW i \in Node \ {0}, Parent(i) \in T PROVE i \in T
  <2> SUFFICES ASSUME above[j][i], i # j PROVE i \in S
    OBVIOUS
  <2>1. above[j][Parent(i)]
    BY AboveFacts
  <2>2. Parent(i) \in S
    BY <1>2, <2>1
  <2> QED
    BY <2>1, <2>2
<1> HIDE DEF T
<1>3. Node \subseteq T
  BY <1>1, <1>2, Downwards
<1> QED
  BY <1>3 DEF T

\* What is above a node above i is above i.
LEMMA AboveTransitive ==
  ASSUME NEW k \in Node, NEW j \in Node, NEW i \in Node, above[k][j], above[j][i]
  PROVE  above[k][i]
<1> DEFINE S == {x \in Node : above[k][x]}
<1>1. j \in S
  OBVIOUS
<1>2. \A x \in Node \ {0} : above[j][Parent(x)] /\ Parent(x) \in S => x \in S
  BY AboveFacts
<1> HIDE DEF S
<1>3. i \in S
  BY <1>1, <1>2, Inherited
<1> QED
  BY <1>3 DEF S

\* The way down from a node leads through one of its children.
LEMMA ThroughChild ==
  ASSUME NEW j \in Node, NEW i \in Node, above[j][i], i # j
  PROVE  /\ Left(j) \in Node /\ Right(j) \in Node
         /\ above[Left(j)][i] \/ above[Right(j)][i]
<1> DEFINE Through(x) == /\ Left(j) \in Node /\ Right(j) \in Node
                         /\ above[Left(j)][x] \/ above[Right(j)][x]
           S == {x \in Node : x = j \/ Through(x)}
<1>1. j \in S
  OBVIOUS
<1>2. ASSUME NEW x \in Node \ {0}, Parent(x) \in S PROVE x \in S
  <2>1. CASE Parent(x) = j
    <3>1. x = Left(j) \/ x = Right(j)
      BY <2>1, Family
    <3>2. Left(j) \in Node /\ Right(j) \in Node
      BY <3>1, Family
    <3> QED
      BY <3>1, <3>2, AboveFacts
  <2>2. CASE Parent(x) # j
    <3>1. Through(Parent(x))
      BY <1>2, <2>2
    <3>2. Parent(x) \in Node
      BY Family
    <3> QED
      BY <3>1, <3>2, AboveFacts
  <2> QED
    BY <2>1, <2>2
<1> HIDE DEF S
<1>3. i \in S
  BY <1>1, <1>2, Inherited
<1> QED
  BY <1>3 DEF S

\* Two nodes above a third are above one another.
LEMMA OneWayUp ==
  ASSUME NEW j \in Node, NEW k \in Node, NEW i \in Node, above[j][i], above[k][i]
  PROVE  above[j][k] \/ above[k][j]
<1> DEFINE S == {x \in Node : above[k][x] => above[j][k] \/ above[k][j]}
<1>1. j \in S
  OBVIOUS
<1>2. ASSUME NEW x \in Node \ {0}, above[j][Parent(x)], Parent(x) \in S PROVE x \in S
  <2> SUFFICES ASSUME above[k][x] PROVE above[j][k] \/ above[k][j]
    OBVIOUS
  <2>1. CASE x = k
    BY <1>2, <2>1, AboveFacts
  <2>2. CASE x # k
    BY <1>2, <2>2, AboveFacts
  <2> QED
    BY <2>1, <2>2
<1> HIDE DEF S
<1>3. i \in S
  BY <1>1, <1>2, Inherited
<1> QED
  BY <1>3 DEF S

\* A node lies within those above it.
LEMMA Within ==
  ASSUME NEW j \in Node, NEW i \in Node, above[j][i]
  PROVE  /\ start[j] <= start[i]
         /\ start[i] + size[i] <= start[j] + size[j]
         /\ size[i] <= size[j]
<1> DEFINE P(x) == /\ start[j] <= start[x]
                   /\ start[x] + size[x] <= start[j] + size[j]
                   /\ size[x] <= size[j]
           S == {x \in Node : P(x)}
<1>1. j \in S
  BY Sizes, Starts
<1>2. ASSUME NEW x \in Node \ {0}, Parent(x) \in S PROVE x \in S
  <2> DEFINE p == Parent(x)
  <2>1. p \in Node /\ (x = Left(p) \/ x = Right(p))
    BY Family
  <2>2. Left(p) \in Node /\ Right(p) \in Node
    BY <2>1, Family
  <2>3. P(p)
    BY <1>2
  <2> HIDE DEF p
  <2>4. /\ size[Left(p)] = size[p] \div 2
        /\ size[Right(p)] = size[p] \div 2
        /\ start[Left(p)] = start[p]
        /\ start[Right(p)] = start[Left(p)] + size[Left(p)]
        /\ start[Right(p)] + size[Right(p)] <= start[p] + size[p]
    BY <2>1, <2>2, Split
  <2>5. /\ size[p] \in Nat /\ size[p] \div 2 \in Nat /\ 2 * (size[p] \div 2) <= size[p]
        /\ start[p] \in Nat /\ start[j] \in Nat /\ size[j] \in Nat
    BY <2>1, Sizes, Starts, Halves
  <2>6. P(x)
    BY <2>1, <2>3, <2>4, <2>5
  <2> QED
    BY <2>6
<1> HIDE DEF S
<1>3. i \in S
  BY <1>1, <1>2, Inherited
<1> QED
  BY <1>3 DEF S

Beside(i, j) == start[i] + size[i] <= start[j] \/ start[j] + size[j] <= start[i]

\* Nodes that are not above one another lie side by side.
LEMMA SideBySide ==
  ASSUME NEW i \in Node, NEW j \in Node, ~ above[i][j], ~ above[j][i]
  PROVE  Beside(i, j)
<1> DEFINE Bad(x) == \E y \in Node : /\ y < x /\ ~ above[x][y] /\ ~ above[y][x]
                                     /\ ~ Beside(x, y)
           T == {x \in Node : Bad(x)}
<1>1. ASSUME NEW x \in T, \A z \in T : x <= z PROVE FALSE
  <2>1. PICK y \in Node : y < x /\ ~ above[x][y] /\ ~ above[y][x] /\ ~ Beside(x, y)
    OBVIOUS
  <2> DEFINE p == Parent(x)
  <2>2. x \in Node /\ x \in Nat /\ y \in Nat /\ x # 0
    BY <2>1, Family
  <2>3. p \in Node /\ p < x /\ (x = Left(p) \/ x = Right(p)) /\ p \in Nat
    BY <2>2, Family
  <2>4. Left(p) \in Node /\ Right(p) \in Node
    BY <2>2, <2>3, Family
  <2>5. ~ above[y][p] /\ y # p
    BY <2>1, <2>2, <2>3, AboveFacts
  <2>6. /\ start[p] <= start[x]
        /\ start[x] + size[x] <= start[p] + size[p]
    <3>1. above[p][x]
      BY <2>2, <2>3, AboveFacts
    <3> QED
      BY <2>2, <2>3, <3>1, Within
  <2>7. \A k \in Node : start[k] \in Nat /\ size[k] \in Nat
    BY Sizes, Starts
  <2> HIDE DEF p
  <2>8. CASE ~ above[p][y]
    <3>1. Beside(p, y)
      <4>1. CASE y < p
        <5>1. p \notin T
          BY <1>1, <2>2, <2>3
        <5> QED
          BY <2>3, <2>5, <2>8, <4>1, <5>1
      <4>2. CASE p < y
        <5>1. y \notin T
          BY <1>1, <2>1, <2>2, <2>3
        <5>2. Beside(y, p)
          BY <2>3, <2>5, <2>8, <4>2, <5>1
        <5> QED
          BY <5>2 DEF Beside
      <4> QED
        BY <2>2, <2>3, <2>5, <4>1, <4>2
    <3>2. Beside(x, y)
      BY <2>2, <2>3, <2>6, <2>7, <3>1 DEF Beside
    <3> QED
      BY <2>1, <3>2
  <2>9. CASE above[p][y]
    <3>1. above[Left(p)][y] \/ above[Right(p)][y]
      BY <2>3, <2>5, <2>9, ThroughChild
    <3>2. PICK c \in {Left(p), Right(p)} : above[c][y] /\ c # x
      BY <2>1, <3>1
    <3>3. c \in Node /\ start[c] <= start[y] /\ start[y] + size[y] <= start[c] + size[c]
      BY <2>4, <3>2, Within
    <3>4. Beside(x, c)
      <4>1. start[Right(p)] = start[Left(p)] + size[Left(p)]
        BY <2>3, <2>4, Split
      <4>2. \/ x = Left(p) /\ c = Right(p)
            \/ x = Right(p) /\ c = Left(p)
        BY <2>3, <3>2
      <4> QED
        BY <2>4, <2>7, <4>1, <4>2 DEF Beside
    <3>5. Beside(x, y)
      BY <2>2, <2>7, <3>3, <3>4 DEF Beside
    <3> QED
      BY <2>1, <3>5
  <2> QED
    BY <2>8, <2>9
<1>2. T = {}
  <2> HIDE DEF T
  <2>1. T \subseteq Nat
    BY Family DEF T
  <2> QED
    BY <1>1, <2>1, MinProperties
<1>3. i \in Nat /\ j \in Nat /\ i # j
  BY Family, AboveFacts
<1>4. CASE j < i
  BY <1>2, <1>4
<1>5. CASE i < j
  <2>1. Beside(j, i)
    BY <1>2, <1>5
  <2> QED
    BY <2>1 DEF Beside
<1> QED
  BY <1>3, <1>4, <1>5

-----------------------------------------------------------------------------
(* Splitting a leaf. *)

\* The size of the nodes of a level.
LEMMA LevelSize ==
  ASSUME NEW k \in Nat, NEW i \in Node, 2 ^ k - 1 <= i, i <= 2 ^ (k + 1) - 2
  PROVE  size[i] = RootSize \div 2 ^ k
<1> DEFINE P(n) == \A j \in Node :
             2 ^ n - 1 <= j /\ j <= 2 ^ (n + 1) - 2 => size[j] = RootSize \div 2 ^ n
           S == {n \in Nat : P(n)}
<1>0. RootSize \in Nat
  BY RootSizeAssumption
<1>1. 0 \in S
  <2>1. 2 ^ 0 = 1 /\ 2 ^ (0 + 1) = 2
    OBVIOUS
  <2>2. ASSUME NEW j \in Node, 2 ^ 0 - 1 <= j, j <= 2 ^ (0 + 1) - 2
        PROVE  size[j] = RootSize \div 2 ^ 0
    <3>1. j = 0
      BY <2>1, <2>2, Family
    <3>2. size[j] = RootSize
      BY <3>1, Sizes
    <3>3. RootSize \div 1 = RootSize
      BY <1>0
    <3> QED
      BY <2>1, <3>2, <3>3
  <2> QED
    BY <2>2
<1>2. ASSUME NEW n \in S PROVE n + 1 \in S
  <2> DEFINE a == 2 ^ n
  <2>1. a \in Nat \ {0} /\ 2 ^ (n + 1) = 2 * a /\ 2 ^ ((n + 1) + 1) = 4 * a
    <3>1. 2 ^ n \in Nat /\ 2 ^ n > n
      BY PowersGrow
    <3>2. 2 ^ (n + 1) = 2 * 2 ^ n
      BY NextPower
    <3>3. 2 ^ ((n + 1) + 1) = 2 * 2 ^ (n + 1)
      BY NextPower
    <3> QED
      BY <3>1, <3>2, <3>3
  <2>2. P(n)
    BY <1>2
  <2>3. ASSUME NEW j \in Node, 2 ^ (n + 1) - 1 <= j, j <= 2 ^ ((n + 1) + 1) - 2
        PROVE  size[j] = RootSize \div 2 ^ (n + 1)
    <3>1. 2 * a - 1 <= j /\ j <= 4 * a - 2
      BY <2>1, <2>3
    <3> HIDE DEF a
    <3>2. j \in Nat /\ j # 0
      BY <2>1, <3>1, Family
    <3> DEFINE p == Parent(j)
    <3>3. p \in Node /\ a - 1 <= p /\ p <= 2 * a - 2
      <4>1. p \in Node
        BY <3>2, Family
      <4>2. p = (j - 1) \div 2
        BY DEF Parent
      <4> HIDE DEF p
      <4>3. a - 1 <= p /\ p <= 2 * a - 2
        BY <2>1, <3>1, <3>2, <4>2
      <4> QED
        BY <4>1, <4>3
    <3>4. size[p] = RootSize \div a
      BY <2>1, <2>2, <3>3 DEF a
    <3>5. size[j] = size[p] \div 2
      BY <3>2, Sizes
    <3>6. size[j] = RootSize \div (2 * a)
      BY <1>0, <2>1, <3>4, <3>5, Halved
    <3> QED
      BY <2>1, <3>6
  <2> HIDE DEF a
  <2> QED
    BY <2>3
<1> HIDE DEF S
<1>3. S = Nat
  <2>1. S \in SUBSET Nat
    BY DEF S
  <2> QED
    BY <1>1, <1>2, <2>1, AllNumbers
<1> QED
  BY <1>3 DEF S

\* The nodes of the deepest level are at most as large as MinBlock.
LEMMA BottomSize ==
  ASSUME NEW i \in Node, Left(i) \notin Node
  PROVE  size[i] <= MinBlock
<1> DEFINE a == 2 ^ Depth
<1>1. Depth \in Nat
  BY DepthAssumption
<1>2. a \in Nat /\ 2 ^ (Depth + 1) = 2 * a
  BY <1>1, PowersGrow, NextPower
<1>3. i \in Nat /\ i <= 2 ^ (Depth + 1) - 2
  <2>1. 2 ^ (Depth + 1) - 2 \in Int
    BY <1>2
  <2> QED
    BY <2>1 DEF Node
<1>4. 2 ^ Depth - 1 <= i
  <2>1. ~ (2 * i + 1 <= 2 * a - 2)
    BY <1>2, <1>3 DEF Node, Left
  <2> HIDE DEF a
  <2>2. a - 1 <= i
    BY <1>2, <1>3, <2>1
  <2> QED
    BY <2>2 DEF a
<1>5. size[i] = RootSize \div 2 ^ Depth
  BY <1>1, <1>3, <1>4, LevelSize
<1> QED
  BY <1>5, DepthAssumption

LEMMA CanSplitInTree ==
  ASSUME NEW i \in Node, NEW bytes \in Nat, CanSplit(i, bytes)
  PROVE  Left(i) \in Node
<1>1. size[i] \in Nat /\ size[i] > MinBlock /\ MinBlock \in Nat
  BY Sizes, MinBlockAssumption DEF CanSplit
<1> QED
  BY <1>1, BottomSize

\* splitInto has the values its definition says.
LEMMA SplitIntoDef ==
  ASSUME NEW i \in Node, NEW bytes \in Nat
  PROVE  splitInto[i][bytes] =
           IF CanSplit(i, bytes) THEN {i} \cup splitInto[Left(i)][bytes] ELSE {i}
<1> DEFINE D == Node \X Nat
           W == SUBSET Node
           V == [D -> W]
           Value(x, f) == IF CanSplit(x[1], x[2]) THEN {x[1]} \cup f[<<Left(x[1]), x[2]>>]
                          ELSE {x[1]}
           G == [x \in D |-> [f \in V |-> Value(x, f)]]
<1>1. PICK m \in Nat : Node = 0 .. 2 * m
  BY NodeSet
<1> DEFINE rank == [x \in D |-> 2 * m - x[1]]
<1>2. rank \in [D -> Nat] /\ \A x \in D : rank[x] < 2 * m + 1
  BY <1>1
<1>3. ASSUME NEW x \in D, CanSplit(x[1], x[2])
      PROVE  <<Left(x[1]), x[2]>> \in D /\ rank[<<Left(x[1]), x[2]>>] < rank[x]
  <2>1. x[1] \in Node /\ x[2] \in Nat
    OBVIOUS
  <2>2. Left(x[1]) \in Node
    BY <1>3, <2>1, CanSplitInTree
  <2>3. Left(x[1]) > x[1] /\ x[1] \in Nat /\ Left(x[1]) \in Nat
    BY <2>1, <2>2, Family
  <2> QED
    BY <2>1, <2>2, <2>3
<1>4. G \in [D -> [V -> W]]
  <2>1. \A x \in D, f \in V : Value(x, f) \in W
    BY <1>3
  <2> QED
    BY <2>1
<1>5. \A x \in D : \A f, g \in V :
        (\A y \in D : rank[y] < rank[x] => f[y] = g[y]) => G[x][f] = G[x][g]
  <2> TAKE x \in D
  <2> TAKE f, g \in V
  <2> HAVE \A y \in D : rank[y] < rank[x] => f[y] = g[y]
  <2> HIDE DEF rank
  <2>1. CASE CanSplit(x[1], x[2])
    <3>1. f[<<Left(x[1]), x[2]>>] = g[<<Left(x[1]), x[2]>>]
      BY <1>3, <2>1
    <3> QED
      BY <3>1
  <2>2. CASE ~ CanSplit(x[1], x[2])
    BY <2>2
  <2> QED
    BY <2>1, <2>2
<1> HIDE DEF rank
<1>6. PICK h \in V : \A x \in D : h[x] = Value(x, h)
  <2>1. 2 * m + 1 \in Nat /\ W # {}
    OBVIOUS
  <2>2. \A h \in V, x \in D : G[x][h] = Value(x, h)
    <3> HIDE DEF Value, V, D
    <3> QED
      BY Zenon
  <2> HIDE DEF G
  <2>3. IsRecursion(D, W, rank, 2 * m + 1, G)
    BY <1>2, <1>4, <1>5, <2>1, Zenon DEF IsRecursion
  <2>4. \E h \in V : \A x \in D : h[x] = G[x][h]
    BY <2>3, RecursionExists
  <2> HIDE DEF Value, V, D
  <2> QED
    BY <2>2, <2>4
<1> DEFINE f == [k \in Node |-> [b \in Nat |-> h[<<k, b>>]]]
<1>7. \A k \in Node, b \in Nat :
        h[<<k, b>>] = IF CanSplit(k, b) THEN {k} \cup h[<<Left(k), b>>] ELSE {k}
  <2> TAKE k \in Node, b \in Nat
  <2>1. <<k, b>> \in D /\ <<k, b>>[1] = k /\ <<k, b>>[2] = b
    OBVIOUS
  <2> QED
    BY <1>6, <2>1
<1>8. \A k \in Node, b \in Nat :
        f[k][b] = IF CanSplit(k, b) THEN {k} \cup f[Left(k)][b] ELSE {k}
  <2> TAKE k \in Node, b \in Nat
  <2>1. CanSplit(k, b) => Left(k) \in Node
    BY CanSplitInTree
  <2> QED
    BY <1>7, <2>1
<1>9. f = [k \in Node |-> [b \in Nat |->
             IF CanSplit(k, b) THEN {k} \cup f[Left(k)][b] ELSE {k}]]
  BY <1>8
<1> HIDE DEF f
<1>10. splitInto = [k \in Node |-> [b \in Nat |->
                      IF CanSplit(k, b) THEN {k} \cup splitInto[Left(k)][b] ELSE {k}]]
  BY <1>9, Zenon DEF splitInto
<1> DEFINE E(k) == [b \in Nat |->
                      IF CanSplit(k, b) THEN {k} \cup splitInto[Left(k)][b] ELSE {k}]
<1>11. splitInto = [k \in Node |-> E(k)]
  BY <1>10
<1>12. E(i)[bytes] = IF CanSplit(i, bytes) THEN {i} \cup splitInto[Left(i)][bytes] ELSE {i}
  OBVIOUS
<1> HIDE DEF E
<1>13. splitInto[i] = E(i)
  BY <1>11
<1> QED
  BY <1>12, <1>13

\* Whatever a leaf is split into is large enough and below it.
LEMMA SplitIntoFits ==
  ASSUME NEW i \in Node, NEW bytes \in Nat, size[i] >= bytes
  PROVE  /\ i \in splitInto[i][bytes]
         /\ \A x \in splitInto[i][bytes] : x \in Node /\ above[i][x] /\ size[x] >= bytes
<1> DEFINE P(j) == /\ j \in splitInto[j][bytes]
                   /\ \A x \in splitInto[j][bytes] :
                        x \in Node /\ above[j][x] /\ size[x] >= bytes
           T == {j \in Node : size[j] >= bytes /\ ~ P(j)}
<1>1. PICK m \in Nat : Node = 0 .. 2 * m
  BY NodeSet
<1>2. ASSUME NEW j \in T, \A k \in T : k <= j PROVE FALSE
  <2>1. j \in Node /\ size[j] >= bytes /\ ~ P(j)
    OBVIOUS
  <2>2. CASE CanSplit(j, bytes)
    <3>1. Left(j) \in Node
      BY <2>1, <2>2, CanSplitInTree
    <3>2. size[Left(j)] >= bytes
      <4>1. size[Left(j)] = size[j] \div 2
        BY <2>1, <3>1, Split
      <4> QED
        BY <2>2, <4>1 DEF CanSplit
    <3>3. Left(j) \notin T
      <4>1. Left(j) > j /\ j \in Nat /\ Left(j) \in Nat
        BY <2>1, <3>1, Family
      <4> QED
        BY <1>2, <4>1
    <3>4. P(Left(j))
      BY <3>1, <3>2, <3>3
    <3>5. above[j][j] /\ above[j][Left(j)]
      <4>1. Parent(Left(j)) = j /\ Left(j) # 0
        BY <2>1, Family
      <4>2. above[j][j]
        BY <2>1, AboveFacts
      <4>3. Left(j) # 0 /\ above[j][Parent(Left(j))] => above[j][Left(j)]
        BY <2>1, <3>1, AboveFacts
      <4> QED
        BY <4>1, <4>2, <4>3
    <3>6. splitInto[j][bytes] = {j} \cup splitInto[Left(j)][bytes]
      BY <2>1, <2>2, SplitIntoDef
    <3>7. \A x \in splitInto[Left(j)][bytes] : above[j][x]
      BY <2>1, <3>1, <3>4, <3>5, AboveTransitive
    <3> QED
      BY <2>1, <3>4, <3>5, <3>6, <3>7
  <2>3. CASE ~ CanSplit(j, bytes)
    <3>1. splitInto[j][bytes] = {j}
      BY <2>1, <2>3, SplitIntoDef
    <3> QED
      BY <2>1, <3>1, AboveFacts
  <2> QED
    BY <2>2, <2>3
<1>3. T = {}
  <2> HIDE DEF T
  <2>1. 2 * m \in Nat /\ T \subseteq 0 .. 2 * m
    BY <1>1 DEF T
  <2>2. T # {} => Max(T) \in T /\ \A k \in T : Max(T) >= k
    BY <2>1, MaxProperties
  <2>3. \A k \in T : k \in Nat
    BY <2>1
  <2> QED
    BY <1>2, <2>2, <2>3
<1> QED
  BY <1>3

\* The next power of two.
LEMMA RoundUpFits ==
  ASSUME NEW n \in Nat
  PROVE  RoundUp(n) \in Nat /\ RoundUp(n) >= n /\ RoundUp(n) >= 1
<1> DEFINE T == {k \in 0 .. n : 2 ^ k >= n}
           S == {2 ^ k : k \in 0 .. n}
           Good(r) == r >= n /\ \A k \in 0 .. n : 2 ^ k >= n => r <= 2 ^ k
<1>1. \A k \in 0 .. n : 2 ^ k \in Nat /\ 2 ^ k >= 1
  <2> TAKE k \in 0 .. n
  <2>1. 2 ^ k \in Nat /\ 2 ^ k > k
    BY PowersGrow
  <2> QED
    BY <2>1
<1> DEFINE U == {r \in S : r >= n}
<1>2. S \subseteq Nat
  BY <1>1
<1>3. U # {}
  <2>1. 2 ^ n \in Nat /\ 2 ^ n > n
    BY PowersGrow
  <2>2. 2 ^ n \in S
    OBVIOUS
  <2> QED
    BY <2>1, <2>2
<1> HIDE DEF S
<1>4. PICK r \in U : \A q \in U : r <= q
  BY <1>2, <1>3, MinProperties
<1>5. r \in S /\ Good(r)
  <2>1. \A k \in 0 .. n : 2 ^ k \in S
    BY DEF S
  <2> QED
    BY <1>4, <2>1
<1>6. RoundUp(n) = CHOOSE q \in S : Good(q)
  BY DEF RoundUp, S
<1> DEFINE w == CHOOSE q \in S : Good(q)
<1>7. w \in S /\ Good(w)
  <2> HIDE DEF Good
  <2> QED
    BY <1>5
<1> HIDE DEF w
<1>8. w \in Nat /\ w >= n
  BY <1>2, <1>7
<1>9. w >= 1
  BY <1>1, <1>7 DEF S
<1> QED
  BY <1>6, <1>8, <1>9 DEF w

\* Deepest is the greatest of the nodes.
LEMMA DeepestOf ==
  ASSUME NEW S \in SUBSET Node, S # {}
  PROVE  Deepest(S) \in S /\ \A j \in S : j <= Deepest(S)
<1>1. PICK m \in Nat : Node = 0 .. 2 * m
  BY NodeSet
<1>2. 2 * m \in Nat /\ S \subseteq 0 .. 2 * m
  BY <1>1
<1>3. Max(S) \in S /\ \A j \in S : Max(S) >= j
  BY <1>2, MaxProperties
<1>4. Max(S) \in S /\ \A j \in S : j <= Max(S)
  BY <1>3, Family
<1> QED
  BY <1>4 DEF Deepest

\* Leftmost is one of the nodes.
LEMMA LeftmostOf ==
  ASSUME NEW S \in SUBSET Node, S # {}
  PROVE  Leftmost(S) \in S
<1> DEFINE T == {start[i] : i \in S}
<1>1. T \subseteq Nat /\ T # {}
  BY Starts
<1> HIDE DEF T
<1>2. PICK a \in T : \A b \in T : a <= b
  BY <1>1, MinProperties
<1>3. \E i \in S : \A j \in S : start[i] <= start[j]
  BY <1>2 DEF T
<1> QED
  BY <1>3 DEF Leftmost

-----------------------------------------------------------------------------
(* check_state. *)

LEMMA ChildStates ==
  ASSUME NEW t, NEW i \in Node, IsInner(t, i)
  PROVE  Left(i) \in Node /\ Right(i) \in Node /\ t[i] # "NONE" /\ t[Left(i)] # "NONE"
BY Family DEF IsInner, Exists

LEMMA StatesOfChecked ==
  ASSUME NEW a, NEW b
  PROVE  /\ Checked(a, b) \in NodeState \ {"NONE"}
         /\ Checked(a, b) = "FREE" <=> a = "FREE" /\ b = "FREE"
         /\ Checked(a, b) = "ALLOCATED" <=> a = "ALLOCATED" /\ b = "ALLOCATED"
BY DEF Checked, NodeState

\* CheckStates has the values its definition says.
LEMMA CheckStatesDef ==
  ASSUME NEW t \in Tree, NEW path
  PROVE  LET c == CheckStates(t, path)
         IN  /\ c \in Tree
             /\ \A i \in Node :
                  c[i] = IF i \in path /\ IsInner(t, i)
                         THEN Checked(c[Left(i)], c[Right(i)])
                         ELSE t[i]
<1> DEFINE V == [Node -> NodeState]
           Value(i, f) == IF i \in path /\ IsInner(t, i)
                          THEN Checked(f[Left(i)], f[Right(i)])
                          ELSE t[i]
           G == [i \in Node |-> [f \in V |-> Value(i, f)]]
           c == CheckStates(t, path)
<1>1. PICK m \in Nat : Node = 0 .. 2 * m
  BY NodeSet
<1> DEFINE rank == [i \in Node |-> 2 * m - i]
<1>2. rank \in [Node -> Nat] /\ \A i \in Node : rank[i] < 2 * m + 1
  BY <1>1
<1>3. ASSUME NEW i \in Node, IsInner(t, i)
      PROVE  /\ Left(i) \in Node /\ Right(i) \in Node
             /\ rank[Left(i)] < rank[i] /\ rank[Right(i)] < rank[i]
  <2>1. Left(i) \in Node /\ Right(i) \in Node
    BY <1>3, ChildStates
  <2>2. Left(i) > i /\ Right(i) > i /\ i \in Nat /\ Left(i) \in Nat /\ Right(i) \in Nat
    BY <2>1, Family
  <2> QED
    BY <2>1, <2>2
<1>4. \A i \in Node, f \in V : Value(i, f) \in NodeState
  BY StatesOfChecked DEF Tree
<1>5. G \in [Node -> [V -> NodeState]]
  BY <1>4
<1>6. \A i \in Node : \A f, g \in V :
        (\A y \in Node : rank[y] < rank[i] => f[y] = g[y]) => G[i][f] = G[i][g]
  <2> TAKE i \in Node
  <2> TAKE f, g \in V
  <2> HAVE \A y \in Node : rank[y] < rank[i] => f[y] = g[y]
  <2> HIDE DEF rank
  <2>1. CASE IsInner(t, i)
    <3>1. f[Left(i)] = g[Left(i)] /\ f[Right(i)] = g[Right(i)]
      BY <1>3, <2>1
    <3> QED
      BY <3>1
  <2>2. CASE ~ IsInner(t, i)
    BY <2>2
  <2> QED
    BY <2>1, <2>2
<1> HIDE DEF rank
<1>7. PICK f \in V : \A i \in Node : f[i] = Value(i, f)
  <2>1. 2 * m + 1 \in Nat /\ NodeState # {}
    BY DEF NodeState
  <2>2. \A h \in V, i \in Node : G[i][h] = Value(i, h)
    <3> HIDE DEF Value, V
    <3> QED
      BY Zenon
  <2> HIDE DEF G
  <2>3. IsRecursion(Node, NodeState, rank, 2 * m + 1, G)
    BY <1>2, <1>5, <1>6, <2>1, Zenon DEF IsRecursion
  <2>4. \E h \in V : \A i \in Node : h[i] = G[i][h]
    BY <2>3, RecursionExists
  <2> HIDE DEF Value, V
  <2> QED
    BY <2>2, <2>4
<1>8. f = [i \in Node |-> IF i \in path /\ IsInner(t, i)
                          THEN Checked(f[Left(i)], f[Right(i)])
                          ELSE t[i]]
  BY <1>7
<1>9. c = [i \in Node |-> IF i \in path /\ IsInner(t, i)
                          THEN Checked(c[Left(i)], c[Right(i)])
                          ELSE t[i]]
  BY <1>8, Zenon DEF CheckStates
<1> HIDE DEF c
<1>10. \A i \in Node : c[i] = Value(i, c)
  BY <1>9
<1>11. \A i \in Node : c[i] \in NodeState
  BY <1>10, StatesOfChecked DEF Tree
<1>12. c \in Tree
  BY <1>9, <1>11 DEF Tree
<1> QED
  BY <1>10, <1>12 DEF c

-----------------------------------------------------------------------------
(* The shape of the tree and the states of its nodes. *)

\* Nodes come in pairs below a node, and none is empty.
Shape(t) ==
  /\ t[0] # "NONE"
  /\ \A i \in Node \ {0} : t[i] # "NONE" => t[Parent(i)] # "NONE"
  /\ \A i \in Node : Left(i) \in Node => (t[Left(i)] # "NONE" <=> t[Right(i)] # "NONE")
  /\ \A i \in Node : t[i] # "NONE" => size[i] >= 1

Consistent(t) ==
  \A i \in Node : IsInner(t, i) => t[i] = Checked(t[Left(i)], t[Right(i)])

TreeOK(t) ==
  /\ t \in Tree
  /\ Shape(t)
  /\ Consistent(t)
  /\ \A i \in Node : IsInner(t, i) => t[i] # "FREE"
  /\ \A i \in Node : IsLeaf(t, i) => t[i] \in {"FREE", "ALLOCATED"}

Leaves(t) == {i \in Node : IsLeaf(t, i) /\ t[i] = "ALLOCATED"}

\* The nodes above a node of the tree are in the tree, and have children.
LEMMA ExistsAbove ==
  ASSUME NEW t, Shape(t), NEW j \in Node, NEW i \in Node, above[j][i], t[i] # "NONE"
  PROVE  t[j] # "NONE" /\ (i # j => IsInner(t, j))
<1>1. \A k \in Node : above[k][i] => t[k] # "NONE"
  <2> SUFFICES ASSUME NEW k \in Node, above[k][i], t[k] = "NONE" PROVE FALSE
    OBVIOUS
  <2> DEFINE S == {x \in Node : t[x] = "NONE"}
  <2>1. k \in S
    OBVIOUS
  <2>2. \A x \in Node \ {0} : above[k][Parent(x)] /\ Parent(x) \in S => x \in S
    BY DEF Shape
  <2> HIDE DEF S
  <2>3. i \in S
    BY <2>1, <2>2, Inherited
  <2> QED
    BY <2>3 DEF S
<1>2. ASSUME i # j PROVE IsInner(t, j)
  <2>1. /\ Left(j) \in Node /\ Right(j) \in Node
        /\ above[Left(j)][i] \/ above[Right(j)][i]
    BY <1>2, ThroughChild
  <2>2. t[Left(j)] # "NONE" \/ t[Right(j)] # "NONE"
    BY <1>1, <2>1
  <2>3. t[Left(j)] # "NONE"
    BY <2>1, <2>2 DEF Shape
  <2> QED
    BY <1>1, <2>1, <2>3 DEF IsInner, Exists
<1> QED
  BY <1>1, <1>2

\* A node that is free, or allocated, has nothing else below it.
LEMMA AllBelow ==
  ASSUME NEW t, Shape(t), Consistent(t),
         NEW s \in {"FREE", "ALLOCATED"}, NEW j \in Node, t[j] = s,
         NEW i \in Node, above[j][i], t[i] # "NONE"
  PROVE  t[i] = s
<1> DEFINE S == {x \in Node : t[x] \in {"NONE", s}}
<1>1. j \in S
  OBVIOUS
<1>2. ASSUME NEW x \in Node \ {0}, Parent(x) \in S, t[x] # "NONE" PROVE t[x] = s
  <2> DEFINE p == Parent(x)
  <2>1. p \in Node /\ t[p] = s
    BY <1>2 DEF Shape
  <2>2. x = Left(p) \/ x = Right(p)
    BY Family
  <2> HIDE DEF p
  <2>3. Left(p) \in Node /\ Right(p) \in Node
    BY <2>1, <2>2, Family
  <2>4. t[Left(p)] # "NONE"
    BY <1>2, <2>1, <2>2, <2>3 DEF Shape
  <2>5. IsInner(t, p)
    BY <2>1, <2>3, <2>4 DEF IsInner, Exists
  <2>6. Checked(t[Left(p)], t[Right(p)]) = s
    BY <2>1, <2>5 DEF Consistent
  <2>7. t[Left(p)] = s /\ t[Right(p)] = s
    BY <2>6, StatesOfChecked
  <2> QED
    BY <2>2, <2>7
<1>3. \A x \in Node \ {0} : above[j][Parent(x)] /\ Parent(x) \in S => x \in S
  BY <1>2
<1> HIDE DEF S
<1>4. i \in S
  BY <1>1, <1>3, Inherited
<1> QED
  BY <1>4 DEF S

\* The tree mm starts with.
LEMMA RootOK == TreeOK(Root) /\ Leaves(Root) = {}
<1>1. Root \in Tree
  BY DEF Root, Tree, NodeState
<1>2. \A i \in Node : Root[i] = IF i = 0 THEN "FREE" ELSE "NONE"
  BY DEF Root
<1>3. \A i \in Node : ~ Exists(Root, Left(i))
  <2> TAKE i \in Node
  <2>1. Left(i) # 0
    BY Family
  <2> QED
    BY <1>2, <2>1 DEF Exists
<1>4. Shape(Root)
  <2>1. Root[0] # "NONE"
    BY <1>2, Family
  <2>2. \A i \in Node \ {0} : Root[i] = "NONE"
    BY <1>2
  <2>3. \A i \in Node : Left(i) \in Node => Root[Left(i)] = "NONE" /\ Root[Right(i)] = "NONE"
    <3> TAKE i \in Node
    <3> HAVE Left(i) \in Node
    <3>1. Right(i) \in Node /\ Left(i) # 0 /\ Right(i) # 0
      BY Family
    <3> QED
      BY <2>2, <3>1
  <2>4. size[0] >= 1
    BY Sizes, Family, RootSizeAssumption
  <2> QED
    BY <2>1, <2>2, <2>3, <2>4 DEF Shape
<1>5. \A i \in Node : ~ IsInner(Root, i)
  BY <1>3 DEF IsInner
<1>6. \A i \in Node : IsLeaf(Root, i) => i = 0 /\ Root[i] = "FREE"
  BY <1>2 DEF IsLeaf, Exists
<1> QED
  BY <1>1, <1>4, <1>5, <1>6 DEF TreeOK, Consistent, Leaves

\* In every tree each node is a leaf or an inner node, and so on the chain above a leaf.
LEMMA LeafFacts ==
  ASSUME NEW t, Shape(t), NEW i \in Node, IsLeaf(t, i)
  PROVE  /\ t[i] # "NONE"
         /\ ~ IsInner(t, i)
         /\ \A j \in Node : above[i][j] /\ t[j] # "NONE" => j = i
         /\ \A j \in Node : above[j][i] => t[j] # "NONE" /\ (j # i => IsInner(t, j))
<1>1. t[i] # "NONE" /\ ~ IsInner(t, i)
  BY DEF IsLeaf, IsInner, Exists
<1>2. \A j \in Node : above[i][j] /\ t[j] # "NONE" => j = i
  BY <1>1, ExistsAbove
<1>3. \A j \in Node : above[j][i] => t[j] # "NONE" /\ (j # i => IsInner(t, j))
  BY <1>1, ExistsAbove
<1> QED
  BY <1>1, <1>2, <1>3

\* Two leaves lie side by side.
LEMMA LeavesApart ==
  ASSUME NEW t, Shape(t), NEW i \in Node, NEW j \in Node, IsLeaf(t, i), IsLeaf(t, j), i # j
  PROVE  Beside(i, j) /\ start[i] # start[j]
<1>1. ~ above[i][j] /\ ~ above[j][i]
  BY LeafFacts
<1>2. Beside(i, j)
  BY <1>1, SideBySide
<1>3. size[i] >= 1 /\ size[j] >= 1
  BY LeafFacts DEF Shape
<1>4. start[i] \in Nat /\ start[j] \in Nat /\ size[i] \in Nat /\ size[j] \in Nat
  BY Sizes, Starts
<1>5. start[i] # start[j]
  BY <1>2, <1>3, <1>4 DEF Beside
<1> QED
  BY <1>2, <1>5

-----------------------------------------------------------------------------
(* mallocBuddy. *)

\* The free leaf l of t is split down to k, which is taken.
SplitTo(t, l, k) ==
  [i \in Node |->
     IF i = k THEN "ALLOCATED"
     ELSE IF t[i] # "NONE" THEN t[i]
     ELSE IF i > 0 /\ above[l][i] /\ Parent(i) \in AboveOrAt(k) \ {k} THEN "FREE"
     ELSE "NONE"]

\* Once it is split, all that has changed is between the leaf and the node taken.
LEMMA SplitToShape ==
  ASSUME NEW t, TreeOK(t), NEW l \in Node, IsLeaf(t, l), t[l] = "FREE",
         NEW k \in Node, above[l][k], size[k] >= 1
  PROVE  LET s == SplitTo(t, l, k)
         IN  /\ s \in Tree
             /\ Shape(s)
             /\ s[k] = "ALLOCATED" /\ IsLeaf(s, k) /\ k \notin Leaves(t)
             /\ \A i \in Node : IsLeaf(s, i) /\ i # k =>
                  s[i] = "FREE" \/ (IsLeaf(t, i) /\ s[i] = t[i])
             /\ \A i \in Leaves(t) : IsLeaf(s, i) /\ s[i] = "ALLOCATED"
             /\ \A i \in Node : IsInner(s, i) /\ ~ above[i][k] =>
                  /\ IsInner(t, i)
                  /\ s[i] = t[i] /\ s[Left(i)] = t[Left(i)] /\ s[Right(i)] = t[Right(i)]
<1> DEFINE s == SplitTo(t, l, k)
           Made(i) == i # 0 /\ above[l][i] /\ above[Parent(i)][k] /\ Parent(i) # k
<1>1. t \in Tree /\ Shape(t)
  BY DEF TreeOK
<1>2. \A i \in Node : above[l][i] /\ t[i] # "NONE" => i = l
  BY <1>1, LeafFacts
<1>3. \A i \in Node :
        s[i] = IF i = k THEN "ALLOCATED"
               ELSE IF t[i] # "NONE" THEN t[i]
               ELSE IF Made(i) THEN "FREE"
               ELSE "NONE"
  <2>1. \A i \in Node : i > 0 <=> i # 0
    BY Family
  <2>2. \A i \in Node \ {0} : Parent(i) \in AboveOrAt(k) \ {k} <=>
                                above[Parent(i)][k] /\ Parent(i) # k
    BY Family DEF AboveOrAt
  <2> QED
    BY <2>1, <2>2 DEF SplitTo
<1>4. s \in Tree
  <2>1. \A i \in Node : s[i] \in NodeState
    BY <1>1, <1>3 DEF Tree, NodeState
  <2>2. DOMAIN s = Node
    BY DEF SplitTo
  <2>3. s = [i \in Node |-> s[i]]
    BY DEF SplitTo
  <2> QED
    BY <2>1, <2>2, <2>3 DEF Tree
<1> HIDE DEF s
<1>5. k # l => Made(k)
  <2> SUFFICES ASSUME k # l PROVE Made(k)
    OBVIOUS
  <2>1. k # 0 /\ Parent(k) \in Node /\ Parent(k) # k
    BY AboveFacts, Family
  <2>2. above[Parent(k)][k]
    BY <2>1, AboveFacts
  <2> QED
    BY <2>1, <2>2
<1>6. \A i \in Node : s[i] # "NONE" <=> t[i] # "NONE" \/ Made(i)
  <2>1. t[l] # "NONE"
    OBVIOUS
  <2> QED
    BY <1>3, <1>5, <2>1
<1>7. ASSUME NEW i \in Node, Left(i) \in Node
      PROVE  s[Left(i)] # "NONE" <=> s[Right(i)] # "NONE"
  <2>1. Right(i) \in Node /\ Parent(Left(i)) = i /\ Parent(Right(i)) = i
        /\ Left(i) # 0 /\ Right(i) # 0
    BY <1>7, Family
  <2>2. t[Left(i)] # "NONE" <=> t[Right(i)] # "NONE"
    BY <1>1, <1>7 DEF Shape
  <2>3. ASSUME NEW c \in {Left(i), Right(i)}, Made(c), c # l
        PROVE  Made(Left(i)) /\ Made(Right(i))
    <3>1. above[l][i]
      BY <1>7, <2>1, <2>3, AboveFacts
    <3>2. above[l][Left(i)] /\ above[l][Right(i)]
      BY <1>7, <2>1, <3>1, AboveFacts
    <3> QED
      BY <2>1, <2>3, <3>2
  <2>4. l \in {Left(i), Right(i)} => t[Left(i)] # "NONE" /\ t[Right(i)] # "NONE"
    BY <2>2
  <2> QED
    BY <1>6, <1>7, <2>1, <2>2, <2>3, <2>4
<1>8. Shape(s)
  <2>1. s[0] # "NONE"
    BY <1>1, <1>6, Family DEF Shape
  <2>2. ASSUME NEW i \in Node \ {0}, s[i] # "NONE" PROVE s[Parent(i)] # "NONE"
    <3> DEFINE p == Parent(i)
    <3>1. p \in Node
      BY Family
    <3>2. CASE t[i] # "NONE"
      BY <1>1, <1>6, <3>1, <3>2 DEF Shape
    <3>3. CASE Made(i) /\ i # l
      <4>1. above[l][p]
        BY <3>3, AboveFacts
      <4>2. CASE p = l
        BY <1>6, <3>1, <4>2
      <4>3. CASE p # l
        <5>1. p # 0 /\ Parent(p) \in Node
          BY <3>1, <4>1, <4>3, AboveFacts, Family
        <5>2. above[Parent(p)][p]
          BY <3>1, <5>1, AboveFacts
        <5>3. above[Parent(p)][k]
          BY <3>1, <3>3, <5>1, <5>2, AboveTransitive
        <5>4. Parent(p) # k
          <6>1. above[p][k] => p <= k
            BY <3>1, AboveFacts
          <6>2. p <= k
            BY <3>3, <6>1
          <6>3. Parent(p) < p /\ p \in Nat /\ Parent(p) \in Nat /\ k \in Nat
            BY <3>1, <5>1, Family
          <6> QED
            BY <6>2, <6>3
        <5> QED
          BY <1>6, <3>1, <4>1, <5>1, <5>3, <5>4
      <4> QED
        BY <4>2, <4>3
    <3> QED
      BY <1>6, <2>2, <3>2, <3>3
  <2>3. ASSUME NEW i \in Node, s[i] # "NONE" PROVE size[i] >= 1
    <3>1. CASE t[i] # "NONE"
      BY <1>1, <3>1 DEF Shape
    <3>2. CASE Made(i)
      <4> DEFINE p == Parent(i)
      <4>1. p \in Node /\ (i = Left(p) \/ i = Right(p))
        BY <3>2, Family
      <4> HIDE DEF p
      <4>2. /\ Left(p) \in Node /\ Right(p) \in Node
            /\ above[Left(p)][k] \/ above[Right(p)][k]
        BY <3>2, <4>1, ThroughChild DEF p
      <4>3. size[Left(p)] >= size[k] \/ size[Right(p)] >= size[k]
        BY <4>1, <4>2, Within
      <4>4. size[Left(p)] = size[p] \div 2 /\ size[Right(p)] = size[p] \div 2
        BY <4>1, <4>2, Split
      <4>5. size[p] \div 2 \in Nat /\ size[k] \in Nat
        BY <4>1, Sizes, Halves
      <4> QED
        BY <4>1, <4>3, <4>4, <4>5
    <3> QED
      BY <1>6, <2>3, <3>1, <3>2
  <2> QED
    BY <1>7, <2>1, <2>2, <2>3 DEF Shape
<1>9. s[k] = "ALLOCATED"
  BY <1>3
<1>10. \A i \in Node : Exists(s, Left(i)) <=> Exists(t, Left(i)) \/ (Left(i) \in Node /\ Made(Left(i)))
  BY <1>6 DEF Exists
<1>11. IsLeaf(s, k)
  <2> SUFFICES ASSUME Left(k) \in Node PROVE s[Left(k)] = "NONE"
    BY <1>9 DEF IsLeaf, Exists
  <2>1. Parent(Left(k)) = k /\ Left(k) # l /\ Left(k) # 0
    <3>1. l <= k /\ Left(k) > k /\ Parent(Left(k)) = k
      BY AboveFacts, Family
    <3> QED
      BY <3>1, Family
  <2>2. above[l][Left(k)]
    BY <2>1, AboveFacts
  <2> QED
    BY <1>2, <1>6, <2>1, <2>2
<1>12. k \notin Leaves(t)
  BY <1>2 DEF Leaves, IsLeaf, Exists
<1>13. ASSUME NEW i \in Node, IsLeaf(s, i), i # k
       PROVE  s[i] = "FREE" \/ (IsLeaf(t, i) /\ s[i] = t[i])
  BY <1>3, <1>10, <1>13 DEF IsLeaf, Exists
<1>14. ASSUME NEW i \in Leaves(t) PROVE IsLeaf(s, i) /\ s[i] = "ALLOCATED"
  <2>1. i \in Node /\ IsLeaf(t, i) /\ t[i] = "ALLOCATED" /\ i # k /\ i # l
    BY <1>12 DEF Leaves
  <2>2. s[i] = "ALLOCATED"
    BY <1>3, <2>1
  <2>3. ASSUME Left(i) \in Node, Made(Left(i)) PROVE FALSE
    <3>1. Parent(Left(i)) = i
      BY <2>1, Family
    <3>2. t[Left(i)] = "NONE"
      BY <2>1, <2>3 DEF IsLeaf, Exists
    <3>3. Left(i) # l
      BY <3>2
    <3>4. above[l][i]
      BY <2>3, <3>1, <3>3, AboveFacts
    <3>5. t[i] # "NONE"
      BY <2>1
    <3> QED
      BY <1>2, <2>1, <3>4, <3>5
  <2> QED
    BY <1>10, <2>1, <2>2, <2>3 DEF IsLeaf, Exists
<1>15. ASSUME NEW i \in Node, IsInner(s, i), ~ above[i][k]
       PROVE  /\ IsInner(t, i)
              /\ s[i] = t[i] /\ s[Left(i)] = t[Left(i)] /\ s[Right(i)] = t[Right(i)]
  <2>1. /\ Left(i) \in Node /\ Right(i) \in Node /\ s[Left(i)] # "NONE" /\ s[Right(i)] # "NONE"
        /\ Parent(Left(i)) = i /\ Parent(Right(i)) = i /\ Left(i) # 0 /\ Right(i) # 0
    <3>1. Left(i) \in Node /\ Right(i) \in Node /\ s[Left(i)] # "NONE"
      BY <1>15, ChildStates
    <3> QED
      BY <1>7, <3>1, Family
  <2>2. ~ Made(Left(i)) /\ ~ Made(Right(i))
    BY <1>15, <2>1
  <2>3. t[Left(i)] # "NONE" /\ t[Right(i)] # "NONE"
    BY <1>6, <2>1, <2>2
  <2>4. t[i] # "NONE"
    BY <1>1, <2>1, <2>3 DEF Shape
  <2>5. i # k /\ Left(i) # k /\ Right(i) # k
    <3>1. above[i][i] /\ above[i][Left(i)] /\ above[i][Right(i)]
      BY <2>1, AboveFacts
    <3> QED
      BY <1>15, <3>1
  <2> QED
    BY <1>3, <2>1, <2>3, <2>4, <2>5 DEF IsInner, Exists
<1> QED
  BY <1>4, <1>8, <1>9, <1>11, <1>12, <1>13, <1>14, <1>15 DEF s

\* check_state on the way up from k, when everything else is in order.
LEMMA CheckedWay ==
  ASSUME NEW s \in Tree, Shape(s), NEW k \in Node,
         \A i \in Node : IsInner(s, i) /\ ~ above[i][k] => s[i] = Checked(s[Left(i)], s[Right(i)])
  PROVE  LET c == CheckStates(s, AboveOrAt(k))
         IN  /\ c \in Tree
             /\ Shape(c)
             /\ Consistent(c)
             /\ \A i \in Node : /\ IsInner(c, i) <=> IsInner(s, i)
                                /\ IsLeaf(c, i) <=> IsLeaf(s, i)
                                /\ IsLeaf(s, i) \/ ~ above[i][k] => c[i] = s[i]
<1> DEFINE c == CheckStates(s, AboveOrAt(k))
<1>1. \A i \in Node : i \in AboveOrAt(k) <=> above[i][k]
  BY DEF AboveOrAt
<1>2. /\ c \in Tree
      /\ \A i \in Node : c[i] = IF i \in AboveOrAt(k) /\ IsInner(s, i)
                                THEN Checked(c[Left(i)], c[Right(i)])
                                ELSE s[i]
  BY CheckStatesDef
<1> HIDE DEF c
<1>3. \A i \in Node : c[i] = "NONE" <=> s[i] = "NONE"
  <2> TAKE i \in Node
  <2>1. CASE IsInner(s, i)
    <3>1. s[i] # "NONE"
      BY <2>1, ChildStates
    <3>2. c[i] # "NONE"
      BY <1>2, <3>1, StatesOfChecked
    <3> QED
      BY <3>1, <3>2
  <2>2. CASE ~ IsInner(s, i)
    BY <1>2, <2>2
  <2> QED
    BY <2>1, <2>2
<1>4. \A i \in Node : IsInner(c, i) <=> IsInner(s, i)
  BY <1>3 DEF IsInner, Exists
<1>5. \A i \in Node : IsLeaf(c, i) <=> IsLeaf(s, i)
  BY <1>3 DEF IsLeaf, Exists
<1>6. \A i \in Node : IsLeaf(s, i) => c[i] = s[i]
  BY <1>2 DEF IsLeaf, IsInner
<1>7. \A i \in Node : ~ above[i][k] => c[i] = s[i]
  BY <1>1, <1>2
<1>8. Shape(c)
  <2>1. c[0] # "NONE"
    BY <1>3, Family DEF Shape
  <2>2. \A i \in Node \ {0} : c[i] # "NONE" => c[Parent(i)] # "NONE"
    BY <1>3, Family DEF Shape
  <2>3. \A i \in Node : Left(i) \in Node => (c[Left(i)] # "NONE" <=> c[Right(i)] # "NONE")
    BY <1>3, Family DEF Shape
  <2>4. \A i \in Node : c[i] # "NONE" => size[i] >= 1
    BY <1>3 DEF Shape
  <2> QED
    BY <2>1, <2>2, <2>3, <2>4 DEF Shape
<1>9. ASSUME NEW i \in Node, IsInner(c, i) PROVE c[i] = Checked(c[Left(i)], c[Right(i)])
  <2>1. CASE above[i][k]
    BY <1>1, <1>2, <1>4, <1>9, <2>1
  <2>2. CASE ~ above[i][k]
    <3>1. Left(i) \in Node /\ Right(i) \in Node
      BY <1>9, ChildStates
    <3>2. ~ above[Left(i)][k] /\ ~ above[Right(i)][k]
      <4>1. above[i][Left(i)] /\ above[i][Right(i)]
        <5>1. Parent(Left(i)) = i /\ Parent(Right(i)) = i /\ Left(i) # 0 /\ Right(i) # 0
          BY Family
        <5>2. above[i][i]
          BY AboveFacts
        <5> QED
          BY <3>1, <5>1, <5>2, AboveFacts
      <4> QED
        BY <2>2, <3>1, <4>1, AboveTransitive
    <3> QED
      BY <1>4, <1>7, <1>9, <2>2, <3>1, <3>2
  <2> QED
    BY <2>1, <2>2
<1> QED
  BY <1>2, <1>4, <1>5, <1>6, <1>7, <1>8, <1>9 DEF c, Consistent

\* A leaf is found unless malloc fails, and the node taken below it is large enough.
LEMMA TakenFacts ==
  ASSUME NEW t, TreeOK(t), NEW n \in Nat, ~ MallocFails(t, n)
  PROVE  LET l == Leftmost(Usable(t, RoundUp(n)))
             k == Taken(t, n)
         IN  /\ l \in Node /\ IsLeaf(t, l) /\ t[l] = "FREE"
             /\ k \in Node /\ above[l][k] /\ size[k] >= n /\ size[k] >= 1
             /\ MallocBuddy(t, n) = CheckStates(SplitTo(t, l, k), AboveOrAt(k))
<1> DEFINE b == RoundUp(n)
           U == Usable(t, b)
           l == Leftmost(U)
           S == splitInto[l][b]
           k == Taken(t, n)
<1>1. b \in Nat /\ b >= n /\ b >= 1
  BY RoundUpFits
<1>2. U \in SUBSET Node /\ U # {}
  BY DEF MallocFails, Usable
<1>3. l \in U
  BY <1>2, LeftmostOf
<1>4. l \in Node /\ IsLeaf(t, l) /\ size[l] >= b /\ \A j \in AboveOrAt(l) : t[j] # "ALLOCATED"
  BY <1>3 DEF Usable
<1>5. MallocBuddy(t, n) = CheckStates(SplitTo(t, l, k), AboveOrAt(k))
  BY DEF MallocBuddy, SplitTo
<1>6. k = Deepest(S)
  BY DEF Taken
<1> HIDE DEF b, l, k
<1>7. t[l] = "FREE"
  <2>1. l \in AboveOrAt(l)
    BY <1>4, AboveFacts DEF AboveOrAt
  <2> QED
    BY <1>4, <2>1 DEF TreeOK
<1>8. l \in S /\ \A x \in S : x \in Node /\ above[l][x] /\ size[x] >= b
  BY <1>1, <1>4, SplitIntoFits
<1>9. k \in S
  <2>1. S \in SUBSET Node /\ S # {}
    BY <1>8
  <2> QED
    BY <1>6, <2>1, DeepestOf
<1>10. k \in Node /\ above[l][k] /\ size[k] >= b
  BY <1>8, <1>9
<1>11. size[k] >= n /\ size[k] >= 1
  BY <1>1, <1>10, Sizes
<1> QED
  BY <1>4, <1>5, <1>7, <1>10, <1>11 DEF b, l, k

\* mallocBuddy adds one allocated leaf, which is large enough, and keeps the others.
LEMMA MallocTree ==
  ASSUME NEW t, TreeOK(t), NEW n \in Nat, ~ MallocFails(t, n)
  PROVE  LET u == MallocBuddy(t, n)
             k == Taken(t, n)
         IN  /\ TreeOK(u)
             /\ k \in Node /\ size[k] >= n
             /\ k \notin Leaves(t) /\ Leaves(u) = Leaves(t) \cup {k}
<1> DEFINE l == Leftmost(Usable(t, RoundUp(n)))
           k == Taken(t, n)
           s == SplitTo(t, l, k)
           u == MallocBuddy(t, n)
<1>1. /\ l \in Node /\ IsLeaf(t, l) /\ t[l] = "FREE"
      /\ k \in Node /\ above[l][k] /\ size[k] >= n /\ size[k] >= 1
      /\ u = CheckStates(s, AboveOrAt(k))
  BY TakenFacts
<1> HIDE DEF l, k, u
<1>2. /\ s \in Tree
      /\ Shape(s)
      /\ s[k] = "ALLOCATED" /\ IsLeaf(s, k) /\ k \notin Leaves(t)
      /\ \A i \in Node : IsLeaf(s, i) /\ i # k =>
           s[i] = "FREE" \/ (IsLeaf(t, i) /\ s[i] = t[i])
      /\ \A i \in Leaves(t) : IsLeaf(s, i) /\ s[i] = "ALLOCATED"
      /\ \A i \in Node : IsInner(s, i) /\ ~ above[i][k] =>
           /\ IsInner(t, i)
           /\ s[i] = t[i] /\ s[Left(i)] = t[Left(i)] /\ s[Right(i)] = t[Right(i)]
  BY <1>1, SplitToShape
<1> HIDE DEF s
<1>3. \A i \in Node : IsInner(t, i) => t[i] = Checked(t[Left(i)], t[Right(i)]) /\ t[i] # "FREE"
  BY DEF TreeOK, Consistent
<1>4. \A i \in Node : IsInner(s, i) /\ ~ above[i][k] => s[i] = Checked(s[Left(i)], s[Right(i)])
  BY <1>2, <1>3
<1>5. /\ u \in Tree
      /\ Shape(u)
      /\ Consistent(u)
      /\ \A i \in Node : /\ IsInner(u, i) <=> IsInner(s, i)
                         /\ IsLeaf(u, i) <=> IsLeaf(s, i)
                         /\ IsLeaf(s, i) \/ ~ above[i][k] => u[i] = s[i]
  BY <1>1, <1>2, <1>4, CheckedWay
<1>6. u[k] = "ALLOCATED" /\ IsLeaf(u, k)
  BY <1>1, <1>2, <1>5
<1>7. ASSUME NEW i \in Node, IsInner(u, i) PROVE u[i] # "FREE"
  <2>1. CASE above[i][k]
    <3>1. SUFFICES ASSUME u[i] = "FREE" PROVE FALSE
      OBVIOUS
    <3>2. u[k] = "FREE"
      BY <1>1, <1>5, <1>6, <2>1, <3>1, AllBelow
    <3> QED
      BY <1>6, <3>2
  <2>2. CASE ~ above[i][k]
    BY <1>2, <1>3, <1>5, <1>7, <2>2
  <2> QED
    BY <2>1, <2>2
<1>8. ASSUME NEW i \in Node, IsLeaf(u, i) PROVE u[i] \in {"FREE", "ALLOCATED"}
  BY <1>2, <1>5, <1>8 DEF TreeOK
<1>9. Leaves(u) = Leaves(t) \cup {k}
  <2>1. ASSUME NEW i \in Leaves(u) PROVE i \in Leaves(t) \cup {k}
    BY <1>2, <1>5 DEF Leaves
  <2>2. ASSUME NEW i \in Leaves(t) PROVE i \in Leaves(u)
    BY <1>2, <1>5 DEF Leaves
  <2>3. k \in Leaves(u)
    BY <1>1, <1>6 DEF Leaves
  <2> QED
    BY <2>1, <2>2, <2>3
<1>10. TreeOK(u)
  BY <1>5, <1>7, <1>8 DEF TreeOK
<1> QED
  BY <1>1, <1>2, <1>9, <1>10 DEF k, u

-----------------------------------------------------------------------------
(* freeBuddy. *)

\* The nodes that hold the address of an allocated leaf are those above it.
LEMMA PathToLeaf ==
  ASSUME NEW t, TreeOK(t), NEW k \in Leaves(t)
  PROVE  /\ PathTo(t, start[k]) = AboveOrAt(k)
         /\ Deepest(PathTo(t, start[k])) = k
         /\ Frees(t, start[k])
<1> DEFINE a == start[k]
<1>1. k \in Node /\ IsLeaf(t, k) /\ t[k] = "ALLOCATED" /\ Shape(t)
  BY DEF Leaves, TreeOK
<1>2. size[k] >= 1 /\ \A i \in Node : start[i] \in Nat /\ size[i] \in Nat
  BY <1>1, Sizes, Starts DEF Shape
<1>3. ASSUME NEW i \in Node, above[i][k] PROVE i \in PathTo(t, a)
  <2>1. t[i] # "NONE"
    BY <1>1, <1>3, LeafFacts
  <2>2. start[i] <= a /\ a < start[i] + size[i]
    BY <1>1, <1>2, <1>3, Within
  <2> QED
    BY <2>1, <2>2 DEF PathTo, Exists
<1>4. ASSUME NEW i \in PathTo(t, a) PROVE i \in Node /\ above[i][k]
  <2>1. i \in Node /\ t[i] # "NONE" /\ start[i] <= a /\ a < start[i] + size[i]
    BY DEF PathTo, Exists
  <2>2. ~ Beside(i, k)
    BY <1>1, <1>2, <2>1 DEF Beside
  <2>3. above[i][k] \/ above[k][i]
    BY <1>1, <2>1, <2>2, SideBySide
  <2>4. above[k][i] => i = k
    BY <1>1, <2>1, LeafFacts
  <2>5. above[k][k]
    BY <1>1, AboveFacts
  <2> QED
    BY <2>1, <2>3, <2>4, <2>5
<1>5. PathTo(t, a) = AboveOrAt(k)
  BY <1>3, <1>4 DEF AboveOrAt
<1> HIDE DEF a
<1>6. Deepest(AboveOrAt(k)) = k
  <2>1. k \in AboveOrAt(k) /\ AboveOrAt(k) \in SUBSET Node /\ \A j \in AboveOrAt(k) : j <= k
    BY <1>1, AboveFacts DEF AboveOrAt
  <2>2. Deepest(AboveOrAt(k)) \in AboveOrAt(k) /\ k <= Deepest(AboveOrAt(k))
    BY <2>1, DeepestOf
  <2> DEFINE d == Deepest(AboveOrAt(k))
  <2>3. d \in Node /\ d <= k /\ k <= d
    BY <2>1, <2>2
  <2>4. d \in Nat /\ k \in Nat
    BY <1>1, <2>3, NodeSet
  <2> HIDE DEF d
  <2>5. d = k
    BY <2>3, <2>4
  <2> QED
    BY <2>5 DEF d
<1>7. Frees(t, a)
  BY <1>1, <1>5, <1>6 DEF Frees, a
<1> QED
  BY <1>5, <1>6, <1>7 DEF a

\* What is left of the tree when the children of the free nodes above k are dropped.
Drop(c, k) ==
  [i \in Node |->
     IF \E j \in AboveOrAt(i) \ {i} : j \in AboveOrAt(k) /\ c[j] = "FREE" THEN "NONE" ELSE c[i]]

\* freeBuddy of an allocated leaf takes this leaf away and keeps the others.
LEMMA FreeTree ==
  ASSUME NEW t, TreeOK(t), NEW k \in Leaves(t)
  PROVE  LET u == FreeBuddy(t, start[k])
         IN  TreeOK(u) /\ Leaves(u) = Leaves(t) \ {k}
<1> DEFINE f == [t EXCEPT ![k] = "FREE"]
           c == CheckStates(f, AboveOrAt(k))
           u == FreeBuddy(t, start[k])
           Dropped(i) == \E j \in Node : j # i /\ above[j][i] /\ above[j][k] /\ c[j] = "FREE"
<1>1. k \in Node /\ IsLeaf(t, k) /\ t[k] = "ALLOCATED" /\ Shape(t) /\ Consistent(t) /\ t \in Tree
  BY DEF Leaves, TreeOK
<1>2. u = Drop(c, k)
  BY PathToLeaf DEF FreeBuddy, Drop
<1>3. \A i \in Node : u[i] = IF Dropped(i) THEN "NONE" ELSE c[i]
  <2> TAKE i \in Node
  <2>1. (\E j \in AboveOrAt(i) \ {i} : j \in AboveOrAt(k) /\ c[j] = "FREE") <=> Dropped(i)
    BY DEF AboveOrAt
  <2> QED
    BY <1>2, <2>1 DEF Drop
<1>4. /\ f \in Tree
      /\ \A i \in Node : f[i] = IF i = k THEN "FREE" ELSE t[i]
  BY <1>1 DEF Tree, NodeState
<1> HIDE DEF f
<1>5. \A i \in Node : f[i] = "NONE" <=> t[i] = "NONE"
  BY <1>1, <1>4
<1>6. \A i \in Node : (IsInner(f, i) <=> IsInner(t, i)) /\ (IsLeaf(f, i) <=> IsLeaf(t, i))
  BY <1>5 DEF IsInner, IsLeaf, Exists
<1>7. Shape(f)
  <2>1. f[0] # "NONE"
    BY <1>1, <1>5, Family DEF Shape
  <2>2. \A i \in Node \ {0} : f[i] # "NONE" => f[Parent(i)] # "NONE"
    BY <1>1, <1>5, Family DEF Shape
  <2>3. \A i \in Node : Left(i) \in Node => (f[Left(i)] # "NONE" <=> f[Right(i)] # "NONE")
    BY <1>1, <1>5, Family DEF Shape
  <2>4. \A i \in Node : f[i] # "NONE" => size[i] >= 1
    BY <1>1, <1>5 DEF Shape
  <2> QED
    BY <2>1, <2>2, <2>3, <2>4 DEF Shape
<1>8. ASSUME NEW i \in Node, IsInner(f, i), ~ above[i][k]
      PROVE  f[i] = Checked(f[Left(i)], f[Right(i)])
  <2>1. IsInner(t, i) /\ Left(i) \in Node /\ Right(i) \in Node
    BY <1>6, <1>8, ChildStates
  <2>2. i # k /\ Left(i) # k /\ Right(i) # k
    <3>1. Parent(Left(i)) = i /\ Parent(Right(i)) = i /\ Left(i) # 0 /\ Right(i) # 0
      BY Family
    <3>2. above[i][i] /\ above[i][Left(i)] /\ above[i][Right(i)]
      BY <2>1, <3>1, AboveFacts
    <3> QED
      BY <1>8, <3>2
  <2> QED
    BY <1>1, <1>4, <2>1, <2>2 DEF Consistent
<1>9. /\ c \in Tree
      /\ Shape(c)
      /\ Consistent(c)
      /\ \A i \in Node : /\ IsInner(c, i) <=> IsInner(f, i)
                         /\ IsLeaf(c, i) <=> IsLeaf(f, i)
                         /\ IsLeaf(f, i) \/ ~ above[i][k] => c[i] = f[i]
  BY <1>1, <1>4, <1>7, <1>8, CheckedWay
<1> HIDE DEF c, u
<1>10. \A i \in Node : Left(i) \in Node =>
         /\ Right(i) \in Node
         /\ Dropped(Left(i)) <=> Dropped(i) \/ (above[i][k] /\ c[i] = "FREE")
         /\ Dropped(Right(i)) <=> Dropped(i) \/ (above[i][k] /\ c[i] = "FREE")
  <2> TAKE i \in Node
  <2> HAVE Left(i) \in Node
  <2>1. /\ Right(i) \in Node
        /\ Parent(Left(i)) = i /\ Parent(Right(i)) = i /\ Left(i) # 0 /\ Right(i) # 0
    BY Family
  <2>2. \A j \in Node : /\ j # Left(i) /\ above[j][Left(i)] <=> above[j][i]
                        /\ j # Right(i) /\ above[j][Right(i)] <=> above[j][i]
    <3> TAKE j \in Node
    <3>1. above[j][i] => j <= i
      BY AboveFacts
    <3>2. i < Left(i) /\ i < Right(i) /\ i \in Nat /\ j \in Nat /\ Left(i) \in Nat /\ Right(i) \in Nat
      BY <2>1, Family
    <3>3. above[j][i] => j # Left(i) /\ j # Right(i)
      BY <3>1, <3>2
    <3> QED
      BY <2>1, <3>3, AboveFacts
  <2>3. above[i][i]
    BY AboveFacts
  <2> QED
    BY <2>1, <2>2, <2>3
<1>11. ~ Dropped(0)
  BY Family, AboveFacts
<1>12. u \in Tree
  <2>1. \A i \in Node : u[i] \in NodeState
    BY <1>3, <1>9 DEF Tree, NodeState
  <2>2. u = [i \in Node |-> u[i]]
    BY <1>2 DEF Drop
  <2> QED
    BY <2>1, <2>2 DEF Tree
<1>13. \A i \in Node : Left(i) \in Node => (u[Left(i)] # "NONE" <=> u[Right(i)] # "NONE")
  BY <1>3, <1>9, <1>10 DEF Shape
<1>14. ASSUME NEW i \in Node \ {0}, u[i] # "NONE" PROVE u[Parent(i)] # "NONE"
  <2> DEFINE p == Parent(i)
  <2>1. p \in Node /\ (i = Left(p) \/ i = Right(p))
    BY Family
  <2>2. c[p] # "NONE"
    BY <1>3, <1>9, <1>14 DEF Shape
  <2> HIDE DEF p
  <2>3. ~ Dropped(p)
    BY <1>3, <1>10, <1>14, <2>1, Family
  <2> QED
    BY <1>3, <2>1, <2>2, <2>3 DEF p
<1>15. Shape(u)
  <2>1. u[0] # "NONE"
    BY <1>3, <1>9, <1>11, Family DEF Shape
  <2>2. \A i \in Node : u[i] # "NONE" => size[i] >= 1
    BY <1>3, <1>9 DEF Shape
  <2> QED
    BY <1>13, <1>14, <2>1, <2>2 DEF Shape
<1>16. ASSUME NEW i \in Node, IsInner(u, i)
       PROVE  /\ IsInner(c, i) /\ c[i] # "FREE"
              /\ u[i] = c[i] /\ u[Left(i)] = c[Left(i)] /\ u[Right(i)] = c[Right(i)]
  <2>1. Left(i) \in Node /\ Right(i) \in Node /\ u[i] # "NONE" /\ u[Left(i)] # "NONE"
    BY <1>16, ChildStates
  <2>2. ~ Dropped(Left(i)) /\ ~ Dropped(i) /\ ~ Dropped(Right(i)) /\ ~ (above[i][k] /\ c[i] = "FREE")
    BY <1>3, <1>10, <2>1
  <2>3. IsInner(c, i) /\ u[i] = c[i] /\ u[Left(i)] = c[Left(i)] /\ u[Right(i)] = c[Right(i)]
    BY <1>3, <2>1, <2>2 DEF IsInner, Exists
  <2>4. ASSUME ~ above[i][k] PROVE c[i] # "FREE"
    <3>1. c[i] = t[i]
      <4>1. i # k
        BY <1>1, <2>4, AboveFacts
      <4> QED
        BY <1>4, <1>9, <2>4, <4>1
    <3> QED
      BY <1>6, <1>9, <2>3, <3>1 DEF TreeOK
  <2> QED
    BY <2>2, <2>3, <2>4
<1>17. ASSUME NEW i \in Node, IsLeaf(u, i)
       PROVE  u[i] = "FREE" \/ (IsLeaf(t, i) /\ i # k /\ u[i] = t[i])
  <2>1. u[i] = c[i] /\ c[i] # "NONE" /\ ~ Dropped(i)
    BY <1>3, <1>17 DEF IsLeaf, Exists
  <2>2. CASE IsLeaf(c, i)
    <3>1. c[i] = f[i] /\ IsLeaf(t, i)
      BY <1>6, <1>9, <2>2
    <3> QED
      BY <1>4, <2>1, <3>1
  <2>3. CASE ~ IsLeaf(c, i)
    <3>1. Left(i) \in Node /\ c[Left(i)] # "NONE"
      BY <2>1, <2>3 DEF IsLeaf, Exists
    <3>2. u[Left(i)] = "NONE"
      BY <1>17, <3>1 DEF IsLeaf, Exists
    <3>3. Dropped(Left(i))
      BY <1>3, <3>1, <3>2
    <3>4. c[i] = "FREE"
      BY <1>10, <2>1, <3>1, <3>3
    <3> QED
      BY <2>1, <3>4
  <2> QED
    BY <2>2, <2>3
<1>18. ASSUME NEW i \in Leaves(t), i # k PROVE i \in Leaves(u)
  <2>1. i \in Node /\ IsLeaf(t, i) /\ t[i] = "ALLOCATED"
    BY DEF Leaves
  <2>2. IsLeaf(c, i) /\ c[i] = "ALLOCATED"
    BY <1>4, <1>6, <1>9, <1>18, <2>1
  <2>3. ~ Dropped(i)
    <3> SUFFICES ASSUME NEW j \in Node, above[j][i], c[j] = "FREE" PROVE FALSE
      OBVIOUS
    <3>1. c[i] = "FREE"
      BY <1>9, <2>1, <2>2, AllBelow
    <3> QED
      BY <2>2, <3>1
  <2>4. u[i] = "ALLOCATED"
    BY <1>3, <2>1, <2>2, <2>3
  <2>5. ~ Exists(u, Left(i))
    BY <1>3, <2>2 DEF IsLeaf, Exists
  <2> QED
    BY <2>1, <2>4, <2>5 DEF Leaves, IsLeaf, Exists
<1>19. Leaves(u) = Leaves(t) \ {k}
  <2>1. ASSUME NEW i \in Leaves(u) PROVE i \in Leaves(t) /\ i # k
    BY <1>17 DEF Leaves
  <2> QED
    BY <1>18, <2>1
<1>20. TreeOK(u)
  <2>1. Consistent(u)
    BY <1>9, <1>16 DEF Consistent
  <2>2. \A i \in Node : IsInner(u, i) => u[i] # "FREE"
    BY <1>16
  <2>3. \A i \in Node : IsLeaf(u, i) => u[i] \in {"FREE", "ALLOCATED"}
    BY <1>17 DEF TreeOK
  <2> QED
    BY <1>12, <1>15, <2>1, <2>2, <2>3 DEF TreeOK
<1> QED
  BY <1>19, <1>20 DEF u

\* With no allocated leaf the tree is the root alone.
LEMMA NothingAllocated ==
  ASSUME NEW t, TreeOK(t), Leaves(t) = {}
  PROVE  t = Root
<1>0. t \in Tree /\ Shape(t) /\ Consistent(t)
  BY DEF TreeOK
<1>1. \A i \in Node : IsLeaf(t, i) => t[i] = "FREE"
  BY DEF TreeOK, Leaves
<1> DEFINE S == {i \in Node : IsInner(t, i)}
<1>2. S = {}
  <2> SUFFICES ASSUME S # {} PROVE FALSE
    OBVIOUS
  <2> DEFINE d == Deepest(S)
  <2>1. d \in S /\ \A j \in S : j <= d
    <3> HIDE DEF S
    <3>1. S \in SUBSET Node
      BY DEF S
    <3> QED
      BY <3>1, DeepestOf
  <2> HIDE DEF d
  <2>2. d \in Node /\ IsInner(t, d) /\ t[d] # "FREE"
    BY <2>1 DEF TreeOK
  <2>3. Left(d) \in Node /\ Right(d) \in Node /\ t[Left(d)] # "NONE" /\ t[Right(d)] # "NONE"
    BY <1>0, <2>2, ChildStates DEF Shape
  <2>4. Left(d) \notin S /\ Right(d) \notin S
    <3>1. Left(d) > d /\ Right(d) > d /\ d \in Nat /\ Left(d) \in Nat /\ Right(d) \in Nat
      BY <2>2, <2>3, Family
    <3> HIDE DEF S
    <3> QED
      BY <2>1, <3>1
  <2>5. IsLeaf(t, Left(d)) /\ IsLeaf(t, Right(d))
    BY <2>3, <2>4 DEF IsLeaf, IsInner, Exists
  <2>6. t[d] = Checked("FREE", "FREE")
    BY <1>0, <1>1, <2>2, <2>3, <2>5 DEF Consistent
  <2> QED
    BY <2>2, <2>6 DEF Checked
<1>3. t[0] = "FREE"
  <2>1. 0 \in Node /\ t[0] # "NONE"
    BY <1>0, Family DEF Shape
  <2>2. IsLeaf(t, 0)
    BY <1>2, <2>1 DEF IsLeaf, IsInner, Exists
  <2> QED
    BY <1>1, <2>1, <2>2
<1>4. ASSUME NEW i \in Node, i # 0 PROVE t[i] = "NONE"
  <2>1. 0 \in Node /\ above[0][i]
    BY Family, RootAbove
  <2>2. t[i] # "NONE" => IsInner(t, 0)
    BY <1>0, <1>4, <2>1, ExistsAbove
  <2> QED
    BY <1>2, <2>1, <2>2
<1>5. \A i \in Node : t[i] = Root[i]
  BY <1>3, <1>4 DEF Root
<1> QED
  BY <1>0, <1>5 DEF Tree, Root

\* No free leaf is under a node that is marked allocated.
LEMMA FreeLeafIsUsable ==
  ASSUME NEW t, TreeOK(t), NEW n, n <= RootSize, MallocFails(t, n), n \in Nat,
         NEW i \in Node, IsLeaf(t, i), t[i] = "FREE"
  PROVE  size[i] < RoundUp(n)
<1>1. size[i] \in Nat /\ RoundUp(n) \in Nat
  BY Sizes, RoundUpFits
<1>2. \A j \in AboveOrAt(i) : t[j] # "ALLOCATED"
  BY AllBelow DEF TreeOK, AboveOrAt
<1>3. Usable(t, RoundUp(n)) = {}
  BY RootSizeAssumption DEF MallocFails
<1>4. ~ size[i] >= RoundUp(n)
  BY <1>2, <1>3 DEF Usable
<1> QED
  BY <1>1, <1>4

-----------------------------------------------------------------------------
(* The list of blocks. *)

\* The blocks lie one behind the other, each behind its struct.
Sorted(bs) ==
  \A i, j \in 1 .. Len(bs) : i < j => End(bs[i]) + Header <= bs[j].start

Merged(bs) ==
  \A i \in 1 .. Len(bs) - 1 : ~ (bs[i].isFree /\ bs[i + 1].isFree)

Chunk(b) == [start |-> b.start, size |-> b.size]

\* What is in use of the first n blocks.
UsedOf(bs, n) == {Chunk(bs[i]) : i \in {j \in 1 .. n : ~ bs[j].isFree}}

LEMMA BlockFields ==
  ASSUME NEW b \in Block
  PROVE  b.start \in Nat /\ b.size \in Nat /\ b.isFree \in BOOLEAN /\ End(b) \in Nat /\ b.start <= End(b)
<1>1. b.start \in Nat /\ b.size \in Nat /\ b.isFree \in BOOLEAN
  BY DEF Block
<1> QED
  BY <1>1 DEF End

\* The fields of the blocks of a list.
LEMMA BlocksOf ==
  ASSUME NEW bs \in Seq(Block)
  PROVE  /\ Len(bs) \in Nat
         /\ DOMAIN bs = 1 .. Len(bs)
         /\ \A i \in 1 .. Len(bs) :
              /\ bs[i] \in Block
              /\ bs[i].start \in Nat /\ bs[i].size \in Nat /\ bs[i].isFree \in BOOLEAN
              /\ End(bs[i]) \in Nat /\ bs[i].start <= End(bs[i])
<1>1. Len(bs) \in Nat /\ DOMAIN bs = 1 .. Len(bs) /\ \A i \in 1 .. Len(bs) : bs[i] \in Block
  OBVIOUS
<1> QED
  BY <1>1, BlockFields

-----------------------------------------------------------------------------
(* coalesceFreeBlocks. *)

\* One block more is taken into the list d.
Joined(d, b) ==
  IF d # <<>> /\ Last(d).isFree /\ b.isFree
  THEN [d EXCEPT ![Len(d)] = Absorb(@, b)]
  ELSE Append(d, b)

\* d stands for the first n blocks.
StandsFor(d, bs, n) ==
  /\ d \in Seq(Block)
  /\ Len(d) = 0 <=> n = 0
  /\ n > 0 => (d[Len(d)].isFree <=> bs[n].isFree)
  /\ Sorted(d)
  /\ \A i \in 1 .. Len(d) : d[i].start > Header /\ (n > 0 => End(d[i]) <= End(bs[n]))
  /\ Merged(d)
  /\ UsedOf(d, Len(d)) = UsedOf(bs, n)

\* A block that absorbs the next one ends where that ends, or before.
LEMMA AbsorbFields ==
  ASSUME NEW b \in Block, NEW c \in Block
  PROVE  /\ Absorb(b, c) \in Block
         /\ Absorb(b, c).start = b.start
         /\ Absorb(b, c).isFree = b.isFree
         /\ End(Absorb(b, c)) = End(b) + c.size + Header
<1>1. Header \in Nat
  BY HeaderAssumption
<1>2. /\ Absorb(b, c).start = b.start
      /\ Absorb(b, c).isFree = b.isFree
      /\ Absorb(b, c).size = b.size + c.size + Header
      /\ Absorb(b, c) \in Block
  BY <1>1 DEF Absorb, Block
<1> QED
  BY <1>1, <1>2, BlockFields DEF End

\* One block more.
LEMMA MoreUsed ==
  ASSUME NEW bs, NEW n \in Nat
  PROVE  UsedOf(bs, n + 1) = IF bs[n + 1].isFree THEN UsedOf(bs, n)
                             ELSE UsedOf(bs, n) \cup {Chunk(bs[n + 1])}
<1>1. 1 .. n + 1 = (1 .. n) \cup {n + 1}
  OBVIOUS
<1> QED
  BY <1>1 DEF UsedOf

\* Blocks that are free do not matter.
LEMMA SameUsed ==
  ASSUME NEW bs, NEW cs, NEW n,
         \A i \in 1 .. n : bs[i] = cs[i] \/ (bs[i].isFree /\ cs[i].isFree)
  PROVE  UsedOf(bs, n) = UsedOf(cs, n)
BY DEF UsedOf

LEMMA AppendBlock ==
  ASSUME NEW d \in Seq(Block), NEW b \in Block
  PROVE  LET u == Append(d, b)
         IN  /\ u \in Seq(Block)
             /\ Len(u) = Len(d) + 1
             /\ u[Len(d) + 1] = b
             /\ \A i \in 1 .. Len(d) : u[i] = d[i]
OBVIOUS

\* Whatever comes behind the last block may be added to the list.
LEMMA AppendLaid ==
  ASSUME NEW d \in Seq(Block), NEW b \in Block, Sorted(d),
         \A i \in 1 .. Len(d) : End(d[i]) + Header <= b.start
  PROVE  Sorted(Append(d, b))
<1> DEFINE u == Append(d, b)
<1>1. /\ u \in Seq(Block)
      /\ Len(u) = Len(d) + 1
      /\ u[Len(d) + 1] = b
      /\ \A i \in 1 .. Len(d) : u[i] = d[i]
  BY AppendBlock
<1>2. Len(d) \in Nat
  BY BlocksOf
<1> HIDE DEF u
<1>3. ASSUME NEW i \in 1 .. Len(u), NEW j \in 1 .. Len(u), i < j
      PROVE  End(u[i]) + Header <= u[j].start
  <2>1. i \in 1 .. Len(d) /\ u[i] = d[i]
    BY <1>1, <1>2, <1>3
  <2>2. CASE j = Len(d) + 1
    BY <1>1, <2>1, <2>2
  <2>3. CASE j \in 1 .. Len(d)
    BY <1>1, <1>3, <2>1, <2>3 DEF Sorted
  <2> QED
    BY <1>1, <1>2, <2>2, <2>3
<1> QED
  BY <1>3 DEF Sorted, u

\* Taking in one block more keeps the list sorted and merged, and every block in use.
LEMMA JoinStep ==
  ASSUME NEW bs \in Seq(Block), Sorted(bs), \A i \in 1 .. Len(bs) : bs[i].start > Header,
         NEW n \in Nat, n + 1 <= Len(bs), NEW d, StandsFor(d, bs, n)
  PROVE  StandsFor(Joined(d, bs[n + 1]), bs, n + 1)
<1> DEFINE b == bs[n + 1]
           m == Len(d)
           u == Joined(d, b)
<1>0. Header \in Nat
  BY HeaderAssumption
<1>1. /\ n + 1 \in 1 .. Len(bs)
      /\ b \in Block /\ b.start \in Nat /\ b.size \in Nat /\ End(b) \in Nat /\ b.start <= End(b)
      /\ End(b) = b.start + b.size
  BY BlocksOf DEF End
<1>2. /\ d \in Seq(Block)
      /\ m = 0 <=> n = 0
      /\ Sorted(d)
      /\ Merged(d)
      /\ \A i \in 1 .. m : d[i].start > Header
      /\ UsedOf(d, m) = UsedOf(bs, n)
      /\ n > 0 => (d[m].isFree <=> bs[n].isFree)
  BY DEF StandsFor
<1>3. /\ m \in Nat
      /\ \A i \in 1 .. m : /\ d[i] \in Block
                           /\ d[i].start \in Nat /\ d[i].isFree \in BOOLEAN
                           /\ End(d[i]) \in Nat
  BY <1>2, BlocksOf
<1>4. \A i \in 1 .. m : End(d[i]) + Header <= b.start
  <2> TAKE i \in 1 .. m
  <2>1. n > 0 /\ n \in 1 .. Len(bs)
    BY <1>2, <1>3
  <2>2. End(d[i]) <= End(bs[n]) /\ End(bs[n]) + Header <= b.start
    BY <1>1, <2>1 DEF StandsFor, Sorted
  <2>3. End(d[i]) \in Nat /\ End(bs[n]) \in Nat /\ Header \in Nat
    BY <1>0, <1>3, <2>1, BlocksOf
  <2> QED
    BY <1>1, <2>2, <2>3
<1>5. \A i \in 1 .. m : End(d[i]) <= End(b)
  BY <1>0, <1>1, <1>3, <1>4
<1> DEFINE Joins == d # <<>> /\ Last(d).isFree /\ b.isFree
<1>6. CASE ~ Joins
  <2>1. u = Append(d, b)
    BY <1>6 DEF Joined
  <2>2. /\ u \in Seq(Block)
        /\ Len(u) = m + 1
        /\ u[m + 1] = b
        /\ \A i \in 1 .. m : u[i] = d[i]
    BY <1>1, <1>2, <2>1, AppendBlock
  <2>3. Sorted(u)
    BY <1>1, <1>2, <1>4, <2>1, AppendLaid
  <2> HIDE DEF u
  <2>4. \A i \in 1 .. Len(u) : u[i].start > Header /\ End(u[i]) <= End(b)
    <3> TAKE i \in 1 .. Len(u)
    <3>1. CASE i = m + 1
      BY <1>1, <2>2, <3>1
    <3>2. CASE i \in 1 .. m
      BY <1>2, <1>5, <2>2, <3>2
    <3> QED
      BY <1>3, <2>2, <3>1, <3>2
  <2>5. Merged(u)
    <3>1. ASSUME NEW i \in 1 .. Len(u) - 1 PROVE ~ (u[i].isFree /\ u[i + 1].isFree)
      <4>1. i \in 1 .. m /\ u[i] = d[i]
        BY <1>3, <2>2
      <4>2. CASE i = m
        <5>1. d # <<>> /\ Last(d) = d[m]
          BY <1>2, <4>1, <4>2 DEF Last
        <5> QED
          BY <1>6, <2>2, <4>1, <4>2, <5>1
      <4>3. CASE i # m
        <5>1. i \in 1 .. m - 1 /\ i + 1 \in 1 .. m
          BY <1>3, <4>1, <4>3
        <5> QED
          BY <1>2, <2>2, <4>1, <5>1 DEF Merged
      <4> QED
        BY <4>2, <4>3
    <3> QED
      BY <3>1 DEF Merged
  <2>6. UsedOf(u, Len(u)) = UsedOf(bs, n + 1)
    <3>1. UsedOf(u, m) = UsedOf(d, m)
      BY <2>2, SameUsed
    <3> HIDE DEF m
    <3>2. UsedOf(u, m + 1) = IF u[m + 1].isFree THEN UsedOf(u, m)
                             ELSE UsedOf(u, m) \cup {Chunk(u[m + 1])}
      BY <1>3, MoreUsed
    <3>3. UsedOf(bs, n + 1) = IF bs[n + 1].isFree THEN UsedOf(bs, n)
                              ELSE UsedOf(bs, n) \cup {Chunk(bs[n + 1])}
      BY MoreUsed
    <3> QED
      BY <1>2, <2>2, <3>1, <3>2, <3>3
  <2>7. Len(u) # 0 /\ n + 1 > 0 /\ u[Len(u)] = bs[n + 1]
    BY <1>3, <2>2
  <2> HIDE DEF b
  <2>8. \A i \in 1 .. Len(u) : u[i].start > Header /\ End(u[i]) <= End(bs[n + 1])
    BY <2>4 DEF b
  <2>9. StandsFor(u, bs, n + 1)
    BY <2>2, <2>3, <2>5, <2>6, <2>7, <2>8 DEF StandsFor
  <2> QED
    BY <2>9 DEF u, b
<1>7. CASE Joins
  <2> DEFINE a == Absorb(d[m], b)
  <2>0. m > 0 /\ m \in 1 .. m /\ d[m].isFree /\ b.isFree
    BY <1>2, <1>3, <1>7 DEF Last
  <2>1. u = [d EXCEPT ![m] = a]
    BY <1>7 DEF Joined
  <2>2. a \in Block /\ a.start = d[m].start /\ a.isFree /\ End(a) = End(d[m]) + b.size + Header
    BY <1>1, <1>3, <2>0, AbsorbFields
  <2> HIDE DEF a
  <2>3. /\ u \in Seq(Block)
        /\ Len(u) = m
        /\ u[m] = a
        /\ \A i \in 1 .. m - 1 : u[i] = d[i]
    BY <1>2, <2>0, <2>1, <2>2
  <2> HIDE DEF u
  <2>4. End(a) <= End(b) /\ a.start > Header
    BY <1>0, <1>1, <1>2, <1>3, <1>4, <2>0, <2>2
  <2>5. \A i \in 1 .. m - 1 : i \in 1 .. m
    BY <1>3
  <2>6. Sorted(u)
    <3> SUFFICES ASSUME NEW i \in 1 .. m, NEW j \in 1 .. m, i < j
                 PROVE  End(u[i]) + Header <= u[j].start
      BY <2>3 DEF Sorted
    <3>0. i \in 1 .. m - 1
      BY <1>3
    <3>1. u[i] = d[i]
      BY <2>3, <3>0
    <3>2. End(d[i]) + Header <= d[j].start
      BY <1>2 DEF Sorted
    <3>3. u[j].start = d[j].start
      BY <1>3, <2>2, <2>3
    <3> QED
      BY <3>1, <3>2, <3>3
  <2>7. \A i \in 1 .. Len(u) : u[i].start > Header /\ End(u[i]) <= End(b)
    <3> TAKE i \in 1 .. Len(u)
    <3>1. CASE i = m
      BY <2>3, <2>4, <3>1
    <3>2. CASE i \in 1 .. m - 1
      BY <1>2, <1>5, <2>3, <2>5, <3>2
    <3> QED
      BY <1>3, <2>3, <3>1, <3>2
  <2>8. Merged(u)
    <3> SUFFICES ASSUME NEW i \in 1 .. m - 1 PROVE ~ (u[i].isFree /\ u[i + 1].isFree)
      BY <2>3 DEF Merged
    <3>1. u[i] = d[i]
      BY <2>3
    <3>2. i + 1 = m \/ i + 1 \in 1 .. m - 1
      BY <1>3
    <3>3. u[m].isFree <=> d[m].isFree
      BY <2>0, <2>2, <2>3
    <3>4. u[i + 1].isFree <=> d[i + 1].isFree
      <4>1. CASE i + 1 = m
        BY <3>3, <4>1
      <4>2. CASE i + 1 \in 1 .. m - 1
        <5>1. u[i + 1] = d[i + 1]
          BY <2>3, <4>2
        <5> QED
          BY <5>1
      <4> QED
        BY <3>2, <4>1, <4>2
    <3> QED
      BY <1>2, <3>1, <3>4 DEF Merged
  <2>9. UsedOf(u, Len(u)) = UsedOf(bs, n + 1)
    <3>1. \A i \in 1 .. m : u[i] = d[i] \/ (u[i].isFree /\ d[i].isFree)
      <4> TAKE i \in 1 .. m
      <4>1. i = m \/ i \in 1 .. m - 1
        BY <1>3
      <4> QED
        BY <2>0, <2>2, <2>3, <4>1
    <3>2. UsedOf(u, m) = UsedOf(d, m)
      BY <3>1, SameUsed
    <3>3. UsedOf(bs, n + 1) = UsedOf(bs, n)
      BY <2>0, MoreUsed
    <3> QED
      BY <1>2, <2>3, <3>2, <3>3
  <2>10. Len(u) # 0 /\ n + 1 > 0 /\ (u[Len(u)].isFree <=> bs[n + 1].isFree)
    BY <1>3, <2>0, <2>2, <2>3
  <2> HIDE DEF b
  <2>11. \A i \in 1 .. Len(u) : u[i].start > Header /\ End(u[i]) <= End(bs[n + 1])
    BY <2>7 DEF b
  <2>12. StandsFor(u, bs, n + 1)
    BY <2>3, <2>6, <2>8, <2>9, <2>10, <2>11 DEF StandsFor
  <2> QED
    BY <2>12 DEF u, b
<1> QED
  BY <1>6, <1>7 DEF b, u

LEMMA JoinedBlocks ==
  ASSUME NEW d \in Seq(Block), NEW b \in Block
  PROVE  Joined(d, b) \in Seq(Block)
<1>1. CASE d # <<>> /\ Last(d).isFree /\ b.isFree
  <2>1. Len(d) \in 1 .. Len(d) /\ d[Len(d)] \in Block
    BY <1>1
  <2> DEFINE a == Absorb(d[Len(d)], b)
  <2>2. a \in Block
    BY <2>1, AbsorbFields
  <2>3. Joined(d, b) = [d EXCEPT ![Len(d)] = a]
    BY <1>1 DEF Joined
  <2> HIDE DEF a
  <2> QED
    BY <2>1, <2>2, <2>3
<1>2. CASE ~ (d # <<>> /\ Last(d).isFree /\ b.isFree)
  BY <1>2 DEF Joined
<1> QED
  BY <1>1, <1>2

\* CoalesceFreeBlocks goes through the list from the front.
LEMMA CoalesceDef ==
  ASSUME NEW bs \in Seq(Block)
  PROVE  \E d : /\ d[0] = <<>>
                /\ \A n \in Nat : n + 1 <= Len(bs) => d[n + 1] = Joined(d[n], bs[n + 1])
                /\ CoalesceFreeBlocks(bs) = d[Len(bs)]
<1> DEFINE D == 0 .. Len(bs)
           V == Seq(Block)
           Value(n, f) == IF n = 0 THEN <<>> ELSE Joined(f[n - 1], bs[n])
           G == [n \in D |-> [f \in [D -> V] |-> Value(n, f)]]
           rank == [n \in D |-> n]
           top == Len(bs) + 1
           done[n \in D] ==
             IF n = 0 THEN <<>>
             ELSE IF done[n - 1] # <<>> /\ Last(done[n - 1]).isFree /\ bs[n].isFree
             THEN [done[n - 1] EXCEPT ![Len(done[n - 1])] = Absorb(@, bs[n])]
             ELSE Append(done[n - 1], bs[n])
<1>1. CoalesceFreeBlocks(bs) = done[Len(bs)]
  BY DEF CoalesceFreeBlocks
<1>2. rank \in [D -> Nat] /\ (\A n \in D : rank[n] < top) /\ top \in Nat
  BY BlocksOf
<1>3. ASSUME NEW n \in D, n # 0
      PROVE  n - 1 \in D /\ rank[n - 1] < rank[n] /\ bs[n] \in Block
  BY <1>3, BlocksOf
<1>4. \A n \in D, f \in [D -> V] : Value(n, f) \in V
  <2> TAKE n \in D, f \in [D -> V]
  <2>1. CASE n = 0
    BY <2>1
  <2>2. CASE n # 0
    <3>1. f[n - 1] \in V /\ bs[n] \in Block
      BY <1>3, <2>2
    <3> QED
      BY <2>2, <3>1, JoinedBlocks
  <2> QED
    BY <2>1, <2>2
<1> HIDE DEF V
<1>5. G \in [D -> [[D -> V] -> V]]
  <2> HIDE DEF Value, D
  <2> QED
    BY <1>4
<1>6. \A n \in D : \A f, g \in [D -> V] :
        (\A y \in D : rank[y] < rank[n] => f[y] = g[y]) => G[n][f] = G[n][g]
  <2> TAKE n \in D
  <2> TAKE f, g \in [D -> V]
  <2> HAVE \A y \in D : rank[y] < rank[n] => f[y] = g[y]
  <2> HIDE DEF rank
  <2>1. Value(n, f) = Value(n, g)
    <3>1. n # 0 => f[n - 1] = g[n - 1]
      BY <1>3
    <3> QED
      BY <3>1
  <2> HIDE DEF Value, D
  <2> QED
    BY <2>1
<1> HIDE DEF rank, top
<1>7. PICK f \in [D -> V] : \A n \in D : f[n] = Value(n, f)
  <2>1. V # {}
    BY DEF V
  <2>2. \A h \in [D -> V], n \in D : G[n][h] = Value(n, h)
    <3> HIDE DEF Value, V, D
    <3> QED
      BY Zenon
  <2> HIDE DEF G
  <2>3. IsRecursion(D, V, rank, top, G)
    <3> HIDE DEF D
    <3> QED
      BY <1>2, <1>5, <1>6, <2>1, Zenon DEF IsRecursion
  <2>4. \E h \in [D -> V] : \A n \in D : h[n] = G[n][h]
    <3> HIDE DEF D
    <3> QED
      BY <2>3, RecursionExists
  <2> HIDE DEF Value, V, D
  <2> QED
    BY <2>2, <2>4
<1> HIDE DEF D, G
<1>8. f = [n \in D |->
             IF n = 0 THEN <<>>
             ELSE IF f[n - 1] # <<>> /\ Last(f[n - 1]).isFree /\ bs[n].isFree
             THEN [f[n - 1] EXCEPT ![Len(f[n - 1])] = Absorb(@, bs[n])]
             ELSE Append(f[n - 1], bs[n])]
  BY <1>7 DEF Joined
<1>9. done = [n \in D |->
                IF n = 0 THEN <<>>
                ELSE IF done[n - 1] # <<>> /\ Last(done[n - 1]).isFree /\ bs[n].isFree
                THEN [done[n - 1] EXCEPT ![Len(done[n - 1])] = Absorb(@, bs[n])]
                ELSE Append(done[n - 1], bs[n])]
  BY <1>8, Zenon
<1> HIDE DEF done
<1>10. \A n \in D : done[n] = Value(n, done)
  BY <1>9 DEF Joined
<1>11. done[0] = <<>>
  <2>1. 0 \in D
    BY BlocksOf DEF D
  <2> QED
    BY <1>10, <2>1
<1>12. ASSUME NEW n \in Nat, n + 1 <= Len(bs) PROVE done[n + 1] = Joined(done[n], bs[n + 1])
  <2>1. n + 1 \in D /\ n + 1 # 0 /\ (n + 1) - 1 = n
    BY <1>12, BlocksOf DEF D
  <2> QED
    BY <1>10, <2>1
<1> QED
  BY <1>1, <1>11, <1>12

\* All blocks are taken in.
LEMMA Coalesced ==
  ASSUME NEW bs \in Seq(Block), Sorted(bs), \A i \in 1 .. Len(bs) : bs[i].start > Header
  PROVE  StandsFor(CoalesceFreeBlocks(bs), bs, Len(bs))
<1>1. PICK d : /\ d[0] = <<>>
               /\ \A n \in Nat : n + 1 <= Len(bs) => d[n + 1] = Joined(d[n], bs[n + 1])
               /\ CoalesceFreeBlocks(bs) = d[Len(bs)]
  BY CoalesceDef
<1> DEFINE S == {n \in Nat : n <= Len(bs) => StandsFor(d[n], bs, n)}
<1>2. 0 \in S
  <2>1. StandsFor(<<>>, bs, 0)
    <3>1. <<>> \in Seq(Block) /\ Len(<<>>) = 0
      OBVIOUS
    <3>2. UsedOf(<<>>, 0) = UsedOf(bs, 0)
      BY DEF UsedOf
    <3> QED
      BY <3>1, <3>2 DEF StandsFor, Sorted, Merged
  <2> QED
    BY <1>1, <2>1
<1>3. ASSUME NEW n \in S PROVE n + 1 \in S
  <2>1. n \in Nat /\ n + 1 \in Nat /\ Len(bs) \in Nat
    BY <1>3, BlocksOf
  <2>2. ASSUME n + 1 <= Len(bs) PROVE StandsFor(d[n + 1], bs, n + 1)
    <3>1. StandsFor(d[n], bs, n)
      BY <1>3, <2>1, <2>2
    <3>2. StandsFor(Joined(d[n], bs[n + 1]), bs, n + 1)
      BY <2>1, <2>2, <3>1, JoinStep
    <3> QED
      BY <1>1, <2>1, <2>2, <3>2
  <2> QED
    BY <2>1, <2>2
<1> HIDE DEF S
<1>4. S = Nat
  <2>1. S \in SUBSET Nat
    BY DEF S
  <2> QED
    BY <1>2, <1>3, <2>1, AllNumbers
<1>5. Len(bs) \in S
  BY <1>4, BlocksOf
<1> QED
  BY <1>1, <1>5, BlocksOf DEF S

-----------------------------------------------------------------------------
(* allocMemory and freeMemory. *)

\* The blocks of a manager lie in the memory in use, and free neighbours are merged.
Laid(m) ==
  /\ m \in Manager
  /\ Sorted(m.blocks)
  /\ Merged(m.blocks)
  /\ \A i \in 1 .. Len(m.blocks) :
       m.blocks[i].start > Header /\ End(m.blocks[i]) <= m.spaceUsed + 1

InUse(m) == UsedOf(m.blocks, Len(m.blocks))

LEMMA LaidFields ==
  ASSUME NEW m, Laid(m)
  PROVE  /\ m.blocks \in Seq(Block) /\ m.spaceUsed \in Nat
         /\ m = [spaceUsed |-> m.spaceUsed, blocks |-> m.blocks]
         /\ Sorted(m.blocks) /\ Merged(m.blocks)
BY DEF Laid, Manager

LEMMA FirstOf ==
  ASSUME NEW n \in Nat, NEW S \in SUBSET (1 .. n), S # {}
  PROVE  First(S) \in S /\ \A j \in S : First(S) <= j
<1>1. S \subseteq Nat
  OBVIOUS
<1>2. PICK i \in S : \A j \in S : i <= j
  BY <1>1, MinProperties
<1> QED
  BY <1>2 DEF First

\* Two blocks lie side by side, whatever their sizes.
LEMMA BlocksApart ==
  ASSUME NEW m, Laid(m),
         NEW i \in 1 .. Len(m.blocks), NEW j \in 1 .. Len(m.blocks), i # j
  PROVE  Pieces!Apart(Chunk(m.blocks[i]), Chunk(m.blocks[j]))
<1> DEFINE b == m.blocks[i]
           c == m.blocks[j]
<1>1. Header \in Nat \ {0} /\ m.blocks \in Seq(Block)
  BY HeaderAssumption, LaidFields
<1>2. /\ b.start \in Nat /\ b.size \in Nat /\ End(b) = b.start + b.size
      /\ c.start \in Nat /\ c.size \in Nat /\ End(c) = c.start + c.size
  BY <1>1, BlocksOf DEF End
<1>3. End(b) + Header <= c.start \/ End(c) + Header <= b.start
  <2>1. Len(m.blocks) \in Nat
    BY <1>1, BlocksOf
  <2>2. i < j \/ j < i
    BY <2>1
  <2> QED
    BY <2>2 DEF Laid, Sorted
<1> HIDE DEF b, c
<1>4. /\ b.start # c.start
      /\ b.start + b.size <= c.start \/ c.start + c.size <= b.start
  BY <1>1, <1>2, <1>3
<1> QED
  BY <1>4 DEF Pieces!Apart, Chunk, b, c

\* One flag is changed.
Marked(bs, f, free) == [bs EXCEPT ![f].isFree = free]

LEMMA MarkedBlocks ==
  ASSUME NEW bs \in Seq(Block), NEW f \in 1 .. Len(bs), NEW free \in BOOLEAN
  PROVE  LET u == Marked(bs, f, free)
         IN  /\ u \in Seq(Block)
             /\ Len(u) = Len(bs)
             /\ u[f] \in Block /\ (u[f].isFree <=> free)
             /\ u[f].start = bs[f].start /\ u[f].size = bs[f].size
             /\ \A i \in 1 .. Len(bs) : i # f => u[i] = bs[i]
             /\ \A i \in 1 .. Len(bs) : /\ Chunk(u[i]) = Chunk(bs[i])
                                        /\ u[i].start = bs[i].start
                                        /\ End(u[i]) = End(bs[i])
             /\ Sorted(bs) => Sorted(u)
<1> DEFINE b == [bs[f] EXCEPT !.isFree = free]
           u == Marked(bs, f, free)
<1>1. b \in Block /\ b.start = bs[f].start /\ b.size = bs[f].size /\ b.isFree = free
  <2>1. bs[f] \in Block
    OBVIOUS
  <2> QED
    BY <2>1 DEF Block
<1>2. u = [bs EXCEPT ![f] = b]
  BY DEF Marked
<1> HIDE DEF b
<1>3. /\ u \in Seq(Block)
      /\ Len(u) = Len(bs)
      /\ u[f] = b
      /\ \A i \in 1 .. Len(bs) : i # f => u[i] = bs[i]
  BY <1>1, <1>2
<1> HIDE DEF u
<1>4. \A i \in 1 .. Len(bs) : u[i].start = bs[i].start /\ u[i].size = bs[i].size
  BY <1>1, <1>3
<1>5. \A i \in 1 .. Len(bs) : Chunk(u[i]) = Chunk(bs[i]) /\ End(u[i]) = End(bs[i])
  BY <1>4 DEF Chunk, End
<1>6. Sorted(bs) => Sorted(u)
  BY <1>3, <1>4, <1>5 DEF Sorted
<1> QED
  BY <1>1, <1>3, <1>4, <1>5, <1>6 DEF u

\* A free block is used again.
LEMMA Reused ==
  ASSUME NEW m, Laid(m), NEW n \in Nat, Fitting(m, n) # {}
  PROVE  LET f == First(Fitting(m, n))
         IN  /\ f \in 1 .. Len(m.blocks)
             /\ m.blocks[f].isFree /\ n <= m.blocks[f].size
             /\ Laid(AllocBlock(m, n))
             /\ InUse(AllocBlock(m, n)) = InUse(m) \cup {Chunk(m.blocks[f])}
<1> DEFINE bs == m.blocks
           f == First(Fitting(m, n))
           u == Marked(bs, f, FALSE)
           w == AllocBlock(m, n)
           used == m.spaceUsed + n + Header
<1>1. /\ bs \in Seq(Block) /\ m.spaceUsed \in Nat
      /\ Sorted(bs) /\ Merged(bs) /\ Header \in Nat
      /\ Len(bs) \in Nat /\ DOMAIN bs = 1 .. Len(bs)
      /\ \A i \in 1 .. Len(bs) : /\ bs[i].start > Header /\ End(bs[i]) <= m.spaceUsed + 1
                                 /\ End(bs[i]) \in Nat /\ bs[i].size \in Nat
  BY HeaderAssumption, LaidFields, BlocksOf DEF Laid
<1>2. f \in 1 .. Len(bs) /\ bs[f].isFree /\ bs[f].size >= n
  <2>1. Fitting(m, n) \in SUBSET (1 .. Len(bs))
    BY <1>1 DEF Fitting
  <2>2. f \in Fitting(m, n)
    BY <1>1, <2>1, FirstOf
  <2> QED
    BY <2>2, <1>1 DEF Fitting
<1>3. n <= bs[f].size
  BY <1>1, <1>2
<1>4. w = [spaceUsed |-> used, blocks |-> u]
  BY DEF AllocBlock, Marked
<1> HIDE DEF f
<1>5. /\ u \in Seq(Block)
      /\ Len(u) = Len(bs)
      /\ ~ u[f].isFree
      /\ \A i \in 1 .. Len(bs) : i # f => u[i] = bs[i]
      /\ \A i \in 1 .. Len(bs) : /\ Chunk(u[i]) = Chunk(bs[i])
                                 /\ u[i].start = bs[i].start
                                 /\ End(u[i]) = End(bs[i])
      /\ Sorted(u)
  <2>1. FALSE \in BOOLEAN
    OBVIOUS
  <2> QED
    BY <1>1, <1>2, <2>1, MarkedBlocks
<1> HIDE DEF u, w
<1>6. Merged(u)
  <2> SUFFICES ASSUME NEW i \in 1 .. Len(bs) - 1 PROVE ~ (u[i].isFree /\ u[i + 1].isFree)
    BY <1>5 DEF Merged
  <2>1. i \in 1 .. Len(bs) /\ i + 1 \in 1 .. Len(bs)
    BY <1>1
  <2>2. ~ (bs[i].isFree /\ bs[i + 1].isFree)
    BY <1>1 DEF Merged
  <2> QED
    BY <1>5, <2>1, <2>2
<1>7. used \in Nat /\ m.spaceUsed + 1 <= used + 1
  BY <1>1
<1> HIDE DEF used
<1>8. \A i \in 1 .. Len(u) : u[i].start > Header /\ End(u[i]) <= used + 1
  <2> TAKE i \in 1 .. Len(u)
  <2>1. bs[i].start > Header /\ End(bs[i]) <= m.spaceUsed + 1 /\ End(bs[i]) \in Nat
    BY <1>1, <1>5
  <2>2. u[i].start = bs[i].start /\ End(u[i]) = End(bs[i])
    BY <1>5
  <2>3. End(bs[i]) <= used + 1
    BY <1>1, <1>7, <2>1
  <2> QED
    BY <2>1, <2>2, <2>3
<1>9. w \in Manager /\ w.blocks = u /\ w.spaceUsed = used
  BY <1>4, <1>5, <1>7 DEF Manager
<1>10. Laid(w)
  BY <1>5, <1>6, <1>8, <1>9 DEF Laid
<1>11. InUse(w) = InUse(m) \cup {Chunk(bs[f])}
  <2> DEFINE J == {j \in 1 .. Len(bs) : ~ bs[j].isFree}
             K == {j \in 1 .. Len(bs) : ~ u[j].isFree}
  <2>1. K = J \cup {f}
    BY <1>2, <1>5
  <2>2. InUse(w) = {Chunk(u[i]) : i \in K}
    BY <1>5, <1>9 DEF InUse, UsedOf
  <2>3. InUse(m) = {Chunk(bs[i]) : i \in J}
    BY DEF InUse, UsedOf
  <2>4. \A i \in K : Chunk(u[i]) = Chunk(bs[i])
    BY <1>5
  <2> HIDE DEF J, K
  <2> QED
    BY <2>1, <2>2, <2>3, <2>4
<1> QED
  BY <1>2, <1>3, <1>10, <1>11 DEF f, w

\* A block is added behind the others.
LEMMA Added ==
  ASSUME NEW m, Laid(m), NEW n \in Nat, Fitting(m, n) = {}
  PROVE  LET b == NewBlock(m, n)
             w == AllocBlock(m, n)
         IN  /\ b \in Block /\ b.size = n
             /\ Laid(w)
             /\ w.blocks = Append(m.blocks, b)
             /\ InUse(w) = InUse(m) \cup {Chunk(b)}
<1> DEFINE bs == m.blocks
           b == NewBlock(m, n)
           u == Append(bs, b)
           w == AllocBlock(m, n)
           used == m.spaceUsed + n + Header
           k == Len(bs)
<1>1. /\ bs \in Seq(Block) /\ m.spaceUsed \in Nat
      /\ Sorted(bs) /\ Merged(bs) /\ Header \in Nat
      /\ k \in Nat
      /\ \A i \in 1 .. k : /\ bs[i].start > Header /\ End(bs[i]) <= m.spaceUsed + 1
                           /\ End(bs[i]) \in Nat
  BY HeaderAssumption, LaidFields, BlocksOf DEF Laid
<1>2. /\ b \in Block
      /\ b.start = m.spaceUsed + 1 + Header /\ b.size = n /\ ~ b.isFree
      /\ End(b) = used + 1
  BY <1>1 DEF NewBlock, Block, End
<1>3. w = [spaceUsed |-> used, blocks |-> u]
  BY DEF AllocBlock
<1> HIDE DEF b
<1>4. /\ u \in Seq(Block)
      /\ Len(u) = k + 1
      /\ u[k + 1] = b
      /\ \A i \in 1 .. k : u[i] = bs[i]
  BY <1>1, <1>2, AppendBlock
<1>5. used \in Nat /\ m.spaceUsed + 1 <= used + 1 /\ b.start > Header
  BY <1>1, <1>2
<1>6. Sorted(u)
  <2>1. \A i \in 1 .. k : End(bs[i]) + Header <= b.start
    BY <1>1, <1>2
  <2> QED
    BY <1>1, <1>2, <2>1, AppendLaid
<1> HIDE DEF u, w
<1>7. Merged(u)
  <2> SUFFICES ASSUME NEW i \in 1 .. k PROVE ~ (u[i].isFree /\ u[i + 1].isFree)
    BY <1>1, <1>4 DEF Merged
  <2>1. CASE i = k
    BY <1>2, <1>4, <2>1
  <2>2. CASE i # k
    <3>1. i \in 1 .. k - 1 /\ i + 1 \in 1 .. k
      BY <1>1, <2>2
    <3> QED
      BY <1>1, <1>4, <3>1 DEF Merged
  <2> QED
    BY <2>1, <2>2
<1> HIDE DEF used
<1>8. \A i \in 1 .. Len(u) : u[i].start > Header /\ End(u[i]) <= used + 1
  <2> TAKE i \in 1 .. Len(u)
  <2>0. End(b) <= used + 1
    BY <1>2, <1>5
  <2>1. CASE i = k + 1
    BY <1>4, <1>5, <2>0, <2>1
  <2>2. CASE i \in 1 .. k
    <3>1. u[i] = bs[i]
      BY <1>4, <2>2
    <3>2. bs[i].start > Header /\ End(bs[i]) <= m.spaceUsed + 1 /\ End(bs[i]) \in Nat
      BY <1>1, <2>2
    <3>3. End(bs[i]) <= used + 1
      BY <1>1, <1>5, <3>2
    <3> QED
      BY <3>1, <3>2, <3>3
  <2> QED
    BY <1>1, <1>4, <2>1, <2>2
<1>9. w \in Manager /\ w.blocks = u /\ w.spaceUsed = used
  BY <1>3, <1>4, <1>5 DEF Manager
<1>10. Laid(w)
  BY <1>6, <1>7, <1>8, <1>9, <1>4 DEF Laid
<1>11. InUse(w) = InUse(m) \cup {Chunk(b)}
  <2>1. UsedOf(u, k) = UsedOf(bs, k)
    BY <1>4, SameUsed
  <2>2. UsedOf(u, k + 1) = IF u[k + 1].isFree THEN UsedOf(u, k)
                           ELSE UsedOf(u, k) \cup {Chunk(u[k + 1])}
    <3> HIDE DEF k
    <3> QED
      BY <1>1, MoreUsed
  <2> QED
    BY <1>2, <1>4, <1>9, <2>1, <2>2 DEF InUse
<1> QED
  BY <1>2, <1>9, <1>10, <1>11 DEF b, u, w

Chunks == [start : Nat, size : Nat]

LEMMA ChunkOf ==
  ASSUME NEW b \in Block
  PROVE  Chunk(b) \in Chunks /\ Chunk(b).start = b.start /\ Chunk(b).size = b.size
BY BlockFields DEF Chunk, Chunks

\* allocMemory of the block manager.
LEMMA AllocatesBlock ==
  ASSUME NEW m, Laid(m), NEW n \in Nat
  PROVE  /\ Laid(AllocBlock(m, n))
         /\ \E c \in Chunks :
              /\ InUse(AllocBlock(m, n)) = InUse(m) \cup {c}
              /\ c.start = BlockAddress(m, n) /\ n <= c.size
              /\ \A d \in InUse(m) : Pieces!Apart(c, d)
<1> DEFINE bs == m.blocks
           w == AllocBlock(m, n)
<1>1. bs \in Seq(Block) /\ Len(bs) \in Nat
  BY LaidFields, BlocksOf
<1>2. CASE Fitting(m, n) # {}
  <2> DEFINE f == First(Fitting(m, n))
             c == Chunk(bs[f])
  <2>1. /\ f \in 1 .. Len(bs)
        /\ bs[f].isFree /\ n <= bs[f].size
        /\ Laid(w)
        /\ InUse(w) = InUse(m) \cup {c}
    BY <1>2, Reused
  <2>2. BlockAddress(m, n) = bs[f].start
    BY <1>2 DEF BlockAddress
  <2> HIDE DEF f, w
  <2>3. c \in Chunks /\ c.start = bs[f].start /\ c.size = bs[f].size
    BY <1>1, <2>1, ChunkOf
  <2>4. ASSUME NEW d \in InUse(m) PROVE Pieces!Apart(c, d)
    <3>1. PICK j \in 1 .. Len(bs) : ~ bs[j].isFree /\ d = Chunk(bs[j])
      BY DEF InUse, UsedOf
    <3>2. j # f
      BY <2>1, <3>1
    <3> QED
      BY <2>1, <3>1, <3>2, BlocksApart
  <2> HIDE DEF c
  <2>5. n <= c.size
    BY <2>1, <2>3
  <2> QED
    BY <2>1, <2>2, <2>3, <2>4, <2>5 DEF w
<1>3. CASE Fitting(m, n) = {}
  <2> DEFINE b == NewBlock(m, n)
             c == Chunk(b)
             k == Len(bs)
  <2>1. /\ b \in Block /\ b.size = n
        /\ Laid(w)
        /\ w.blocks = Append(bs, b)
        /\ InUse(w) = InUse(m) \cup {c}
    BY <1>3, Added
  <2>2. BlockAddress(m, n) = b.start
    BY <1>3 DEF BlockAddress
  <2> HIDE DEF b, w
  <2>3. c \in Chunks /\ c.start = b.start /\ c.size = n
    BY <2>1, ChunkOf
  <2>4. /\ Len(w.blocks) = k + 1
        /\ w.blocks[k + 1] = b
        /\ \A i \in 1 .. k : w.blocks[i] = bs[i]
    BY <1>1, <2>1, AppendBlock
  <2>5. ASSUME NEW d \in InUse(m) PROVE Pieces!Apart(c, d)
    <3>1. PICK j \in 1 .. k : d = Chunk(bs[j])
      BY DEF InUse, UsedOf
    <3> HIDE DEF c
    <3>2. j \in 1 .. Len(w.blocks) /\ k + 1 \in 1 .. Len(w.blocks) /\ j # k + 1
      BY <1>1, <2>4
    <3>3. Pieces!Apart(Chunk(w.blocks[k + 1]), Chunk(w.blocks[j]))
      BY <2>1, <3>2, BlocksApart
    <3> QED
      BY <2>4, <3>1, <3>3 DEF c
  <2> HIDE DEF c
  <2> QED
    BY <2>1, <2>2, <2>3, <2>5 DEF w
<1> QED
  BY <1>2, <1>3

\* freeMemory of the block manager, given the address of a block in use.
LEMMA FreesBlock ==
  ASSUME NEW m, Laid(m), NEW c \in InUse(m)
  PROVE  /\ Laid(FreeBlock(m, c.start))
         /\ InUse(FreeBlock(m, c.start)) = InUse(m) \ {c}
<1> DEFINE bs == m.blocks
           w == FreeBlock(m, c.start)
<1>1. /\ bs \in Seq(Block) /\ m.spaceUsed \in Nat
      /\ m = [spaceUsed |-> m.spaceUsed, blocks |-> bs]
      /\ Sorted(bs) /\ Header \in Nat \ {0}
      /\ Len(bs) \in Nat /\ DOMAIN bs = 1 .. Len(bs)
      /\ \A i \in 1 .. Len(bs) : /\ bs[i].start > Header /\ End(bs[i]) <= m.spaceUsed + 1
                                 /\ bs[i].start \in Nat /\ End(bs[i]) \in Nat
                                 /\ bs[i].start <= End(bs[i])
  BY HeaderAssumption, LaidFields, BlocksOf DEF Laid
<1>2. PICK f \in 1 .. Len(bs) : ~ bs[f].isFree /\ c = Chunk(bs[f])
  BY DEF InUse, UsedOf
<1>3. First(Reaching(m, c.start)) = f
  <2> DEFINE R == Reaching(m, c.start)
  <2>1. c.start = bs[f].start
    BY <1>2 DEF Chunk
  <2>2. f \in R
    BY <1>1, <2>1 DEF Reaching
  <2>3. ASSUME NEW j \in R PROVE f <= j
    <3>1. j \in 1 .. Len(bs) /\ (bs[f].start = bs[j].start \/ bs[f].start < End(bs[j]))
      BY <1>1, <2>1 DEF Reaching
    <3>2. SUFFICES ASSUME j < f PROVE FALSE
      BY <1>1, <3>1
    <3>3. End(bs[j]) + Header <= bs[f].start
      BY <1>1, <3>1, <3>2 DEF Sorted
    <3>4. bs[j].start <= End(bs[j]) /\ bs[j].start \in Nat /\ End(bs[j]) \in Nat
          /\ bs[f].start \in Nat
      BY <1>1, <3>1
    <3> QED
      BY <1>1, <3>1, <3>3, <3>4
  <2>4. R \in SUBSET (1 .. Len(bs))
    BY <1>1 DEF Reaching
  <2> HIDE DEF R
  <2>5. First(R) \in R /\ First(R) <= f
    BY <1>1, <2>2, <2>4, FirstOf
  <2>6. f <= First(R)
    BY <2>3, <2>5
  <2>7. First(R) \in Nat /\ f \in Nat
    BY <1>1, <2>4, <2>5
  <2>8. First(R) = f
    BY <2>5, <2>6, <2>7
  <2> QED
    BY <2>8 DEF R
<1> DEFINE u == Marked(bs, f, TRUE)
           v == CoalesceFreeBlocks(u)
<1>4. w = [spaceUsed |-> m.spaceUsed, blocks |-> v]
  BY <1>1, <1>3 DEF FreeBlock, Marked
<1>5. /\ u \in Seq(Block)
      /\ Len(u) = Len(bs)
      /\ u[f].isFree
      /\ \A i \in 1 .. Len(bs) : i # f => u[i] = bs[i]
      /\ \A i \in 1 .. Len(bs) : /\ Chunk(u[i]) = Chunk(bs[i])
                                 /\ u[i].start = bs[i].start
                                 /\ End(u[i]) = End(bs[i])
      /\ Sorted(u)
  <2>1. TRUE \in BOOLEAN
    OBVIOUS
  <2> QED
    BY <1>1, <1>2, <2>1, MarkedBlocks
<1> HIDE DEF u
<1>6. StandsFor(v, u, Len(u))
  <2>1. \A i \in 1 .. Len(u) : u[i].start > Header
    BY <1>1, <1>5
  <2> QED
    BY <1>5, <2>1, Coalesced
<1> HIDE DEF v, w
<1>7. w \in Manager /\ w.blocks = v /\ w.spaceUsed = m.spaceUsed
  BY <1>1, <1>4, <1>6 DEF Manager, StandsFor
<1>8. \A i \in 1 .. Len(v) : v[i].start > Header /\ End(v[i]) <= m.spaceUsed + 1
  <2> TAKE i \in 1 .. Len(v)
  <2>1. Len(u) > 0 /\ Len(u) \in 1 .. Len(bs)
    BY <1>1, <1>5
  <2>2. v[i].start > Header /\ End(v[i]) <= End(u[Len(u)])
    BY <1>6, <2>1 DEF StandsFor
  <2>3. End(u[Len(u)]) = End(bs[Len(bs)]) /\ End(bs[Len(bs)]) <= m.spaceUsed + 1
        /\ End(bs[Len(bs)]) \in Nat
    BY <1>1, <1>5, <2>1
  <2>4. End(v[i]) \in Nat
    BY <1>6, BlocksOf DEF StandsFor
  <2> QED
    BY <1>1, <2>2, <2>3, <2>4
<1>9. Laid(w)
  BY <1>6, <1>7, <1>8 DEF Laid, StandsFor
<1>10. InUse(w) = InUse(m) \ {c}
  <2> DEFINE J == {j \in 1 .. Len(bs) : ~ bs[j].isFree}
             K == {j \in 1 .. Len(bs) : ~ u[j].isFree}
  <2>1. K = J \ {f}
    BY <1>2, <1>5
  <2>2. InUse(w) = {Chunk(u[i]) : i \in K}
    BY <1>5, <1>6, <1>7 DEF InUse, UsedOf, StandsFor
  <2>3. InUse(m) = {Chunk(bs[i]) : i \in J}
    BY DEF InUse, UsedOf
  <2>4. \A i \in K : Chunk(u[i]) = Chunk(bs[i])
    BY <1>5
  <2>5. \A i \in J : i # f => Chunk(bs[i]) # Chunk(bs[f])
    BY BlocksApart DEF Pieces!Apart
  <2> HIDE DEF J, K
  <2> QED
    BY <1>2, <2>1, <2>2, <2>3, <2>4, <2>5
<1> QED
  BY <1>9, <1>10 DEF w

-----------------------------------------------------------------------------
(* The memory in use and the pieces handed out. *)

TreeChunks(t) == {[start |-> start[i], size |-> size[i]] : i \in Leaves(t)}

\* What a manager holds as used, C, is what has been handed out, L.
Matched(C, L) ==
  /\ \A c, d \in C : c # d => Pieces!Apart(c, d)
  /\ \A p \in L : \E c \in C : c.start = p.start /\ p.size <= c.size
  /\ \A c \in C : \E p \in L : p.start = c.start
  /\ \A p, q \in L : p.start = q.start => p = q

MemInv ==
  /\ TypeOK
  /\ useBuddy => /\ manager = NoBlocks
                 /\ TreeOK(tree)
                 /\ Matched(TreeChunks(tree), live)
  /\ ~ useBuddy => /\ tree = Root
                   /\ Laid(manager)
                   /\ Matched(InUse(manager), live)

\* A piece is handed out of new memory.
LEMMA MatchedMore ==
  ASSUME NEW C, C \subseteq Chunks, NEW L, L \subseteq Chunks, Matched(C, L),
         NEW c \in Chunks, \A d \in C : Pieces!Apart(c, d),
         NEW p \in Chunks, p.start = c.start, p.size <= c.size
  PROVE  /\ Matched(C \cup {c}, L \cup {p})
         /\ \A q \in L : Pieces!Apart(p, q)
<1>1. \A d \in Chunks : d.start \in Nat /\ d.size \in Nat
  BY DEF Chunks
<1>2. ASSUME NEW q \in L PROVE Pieces!Apart(p, q)
  <2>1. PICK d \in C : d.start = q.start /\ q.size <= d.size
    BY DEF Matched
  <2>2. /\ c.start # d.start
        /\ c.start + c.size <= d.start \/ d.start + d.size <= c.start
    BY DEF Pieces!Apart
  <2>3. /\ c.start \in Nat /\ c.size \in Nat /\ d.start \in Nat /\ d.size \in Nat
        /\ p.size \in Nat /\ q.size \in Nat
    BY <1>1, <2>1
  <2>4. /\ p.start # q.start
        /\ p.start + p.size <= q.start \/ q.start + q.size <= p.start
    BY <2>1, <2>2, <2>3
  <2> QED
    BY <2>4 DEF Pieces!Apart
<1>3. \A q \in L : q.start # p.start
  BY <1>2 DEF Pieces!Apart
<1>4. \A d \in C : Pieces!Apart(d, c)
  BY DEF Pieces!Apart
<1>5. \A d, e \in C \cup {c} : d # e => Pieces!Apart(d, e)
  BY <1>4 DEF Matched
<1>6. \A q \in L \cup {p} : \E d \in C \cup {c} : d.start = q.start /\ q.size <= d.size
  <2> TAKE q \in L \cup {p}
  <2>1. CASE q \in L
    BY <2>1 DEF Matched
  <2>2. CASE q = p
    BY <2>2
  <2> QED
    BY <2>1, <2>2
<1>7. \A d \in C \cup {c} : \E q \in L \cup {p} : q.start = d.start
  BY DEF Matched
<1>8. \A q, r \in L \cup {p} : q.start = r.start => q = r
  BY <1>3 DEF Matched
<1> QED
  BY <1>2, <1>5, <1>6, <1>7, <1>8 DEF Matched

\* A piece is given back.
LEMMA MatchedLess ==
  ASSUME NEW C, NEW L, Matched(C, L), NEW p \in L
  PROVE  \E c \in C : c.start = p.start /\ Matched(C \ {c}, L \ {p})
<1>1. PICK c \in C : c.start = p.start
  BY DEF Matched
<1>2. \A d \in C \ {c} : d.start # p.start
  BY <1>1 DEF Matched, Pieces!Apart
<1>3. \A q \in L \ {p} : q.start # p.start
  BY DEF Matched
<1>4. \A d, e \in C \ {c} : d # e => Pieces!Apart(d, e)
  BY DEF Matched
<1>5. \A q \in L \ {p} : \E d \in C \ {c} : d.start = q.start /\ q.size <= d.size
  <2> TAKE q \in L \ {p}
  <2>1. PICK d \in C : d.start = q.start /\ q.size <= d.size
    BY DEF Matched
  <2>2. d # c
    BY <1>1, <1>3, <2>1
  <2> QED
    BY <2>1, <2>2
<1>6. \A d \in C \ {c} : \E q \in L \ {p} : q.start = d.start
  <2> TAKE d \in C \ {c}
  <2>1. PICK q \in L : q.start = d.start
    BY DEF Matched
  <2>2. q # p
    BY <1>2, <2>1
  <2> QED
    BY <2>1, <2>2
<1>7. \A q, r \in L \ {p} : q.start = r.start => q = r
  BY DEF Matched
<1>8. Matched(C \ {c}, L \ {p})
  BY <1>4, <1>5, <1>6, <1>7 DEF Matched
<1> QED
  BY <1>1, <1>8

\* Allocated leaves do not overlap.
LEMMA LeafChunks ==
  ASSUME NEW t, TreeOK(t)
  PROVE  /\ TreeChunks(t) \subseteq Chunks
         /\ \A i, j \in Leaves(t) :
              i # j => Pieces!Apart([start |-> start[i], size |-> size[i]],
                                    [start |-> start[j], size |-> size[j]])
<1>1. TreeChunks(t) \subseteq Chunks
  BY Sizes, Starts DEF TreeChunks, Chunks, Leaves
<1>2. ASSUME NEW i \in Leaves(t), NEW j \in Leaves(t), i # j
      PROVE  Pieces!Apart([start |-> start[i], size |-> size[i]],
                          [start |-> start[j], size |-> size[j]])
  <2>1. Shape(t) /\ i \in Node /\ j \in Node /\ IsLeaf(t, i) /\ IsLeaf(t, j)
    BY DEF TreeOK, Leaves
  <2>2. Beside(i, j) /\ start[i] # start[j]
    BY <1>2, <2>1, LeavesApart
  <2> QED
    BY <2>2 DEF Beside, Pieces!Apart
<1> QED
  BY <1>1, <1>2

\* mallocBuddy.
LEMMA AllocatesLeaf ==
  ASSUME NEW t, TreeOK(t), NEW n \in Nat, ~ MallocFails(t, n)
  PROVE  /\ TreeOK(MallocBuddy(t, n))
         /\ \E c \in Chunks :
              /\ TreeChunks(MallocBuddy(t, n)) = TreeChunks(t) \cup {c}
              /\ c.start = start[Taken(t, n)] /\ n <= c.size
              /\ \A d \in TreeChunks(t) : Pieces!Apart(c, d)
<1> DEFINE u == MallocBuddy(t, n)
           k == Taken(t, n)
           c == [start |-> start[k], size |-> size[k]]
<1>1. /\ TreeOK(u)
      /\ k \in Node /\ size[k] >= n
      /\ k \notin Leaves(t) /\ Leaves(u) = Leaves(t) \cup {k}
  BY MallocTree
<1> HIDE DEF u, k
<1>2. start[k] \in Nat /\ size[k] \in Nat /\ n <= size[k]
  BY <1>1, Sizes, Starts
<1>3. TreeChunks(u) = TreeChunks(t) \cup {c}
  BY <1>1 DEF TreeChunks
<1>4. ASSUME NEW d \in TreeChunks(t) PROVE Pieces!Apart(c, d)
  <2>1. PICK i \in Leaves(t) : d = [start |-> start[i], size |-> size[i]]
    BY DEF TreeChunks
  <2>2. i \in Leaves(u) /\ k \in Leaves(u) /\ i # k
    BY <1>1
  <2> QED
    BY <1>1, <2>1, <2>2, LeafChunks
<1>5. c \in Chunks /\ c.start = start[k] /\ n <= c.size
  BY <1>2 DEF Chunks
<1> HIDE DEF c
<1> QED
  BY <1>1, <1>3, <1>4, <1>5 DEF u, k

\* freeBuddy, given the address of an allocated leaf.
LEMMA FreesLeaf ==
  ASSUME NEW t, TreeOK(t), NEW c \in TreeChunks(t)
  PROVE  /\ TreeOK(FreeBuddy(t, c.start))
         /\ TreeChunks(FreeBuddy(t, c.start)) = TreeChunks(t) \ {c}
         /\ Deepest(PathTo(t, c.start)) \in Node
<1> DEFINE u == FreeBuddy(t, c.start)
           At(i) == [start |-> start[i], size |-> size[i]]
<1>1. PICK k \in Leaves(t) : c = At(k)
  BY DEF TreeChunks
<1>2. c.start = start[k]
  BY <1>1
<1>3. TreeOK(u) /\ Leaves(u) = Leaves(t) \ {k}
  BY <1>2, FreeTree
<1>4. \A i \in Leaves(t) : i # k => At(i) # c
  BY <1>1, LeafChunks DEF Pieces!Apart
<1>5. TreeChunks(u) = {At(i) : i \in Leaves(t) \ {k}} /\ TreeChunks(t) = {At(i) : i \in Leaves(t)}
  BY <1>3 DEF TreeChunks
<1> HIDE DEF u, At
<1>6. TreeChunks(u) = TreeChunks(t) \ {c}
  BY <1>1, <1>4, <1>5
<1>7. Deepest(PathTo(t, c.start)) \in Node
  BY <1>2, PathToLeaf DEF Leaves
<1> QED
  BY <1>3, <1>6, <1>7 DEF u

-----------------------------------------------------------------------------
(* The steps. *)

LEMMA PiecesAreChunks ==
  ASSUME TypeOK
  PROVE  live \subseteq Chunks
BY RequestAssumption DEF TypeOK, Chunks

\* The invariant holds at the start, and each step keeps it and is a step of the allocator.
LEMMA InitMemInv == Init => MemInv
<1> SUFFICES ASSUME Init PROVE MemInv
  OBVIOUS
<1>1. TreeOK(Root) /\ TreeChunks(Root) = {}
  BY RootOK DEF TreeChunks
<1>2. Laid(NoBlocks) /\ InUse(NoBlocks) = {}
  BY DEF NoBlocks, Laid, Manager, Sorted, Merged, InUse, UsedOf
<1>3. Matched({}, {})
  BY DEF Matched
<1>4. TypeOK
  <2>1. NoBlocks \in Manager
    BY DEF NoBlocks, Manager
  <2>2. Root \in Tree
    BY <1>1 DEF TreeOK
  <2>3. 0 \in 0 .. Word - 1
    BY WordAssumption
  <2> QED
    BY <2>1, <2>2, <2>3 DEF Init, TypeOK
<1> QED
  BY <1>1, <1>2, <1>3, <1>4 DEF Init, MemInv

LEMMA CountsInWord ==
  ASSUME NEW a \in Int
  PROVE  a % Word \in 0 .. Word - 1
BY WordAssumption

\* allocMemory.
LEMMA AllocStep ==
  ASSUME MemInv, NEW n \in Request, AllocMemory(n)
  PROVE  MemInv' /\ [Pieces!Next]_live
<1>1. n \in Nat /\ live \subseteq Chunks
  BY RequestAssumption, PiecesAreChunks DEF MemInv
<1>2. /\ useBuddy \in BOOLEAN /\ useBuddy' = useBuddy
      /\ manager \in Manager /\ tree \in Tree /\ memAllocated \in 0 .. Word - 1
      /\ live \subseteq [start : Nat, size : Request]
  BY DEF MemInv, TypeOK, AllocMemory
<1> DEFINE New(a) == [start |-> a, size |-> n]
<1>3. ASSUME NEW C, C \subseteq Chunks, Matched(C, live),
             NEW c \in Chunks, n <= c.size, \A d \in C : Pieces!Apart(c, d),
             live' = live \cup {New(c.start)}
      PROVE  /\ Matched(C \cup {c}, live')
             /\ live' \subseteq [start : Nat, size : Request]
             /\ [Pieces!Next]_live
  <2> DEFINE p == New(c.start)
  <2>1. /\ p \in Chunks /\ p.start = c.start /\ p.size <= c.size
        /\ p \in [start : Nat, size : Request]
    BY <1>1, <1>3 DEF Chunks
  <2> HIDE DEF p
  <2>2. Matched(C \cup {c}, live \cup {p}) /\ \A q \in live : Pieces!Apart(p, q)
    BY <1>1, <1>3, <2>1, MatchedMore
  <2>3. live' = live \cup {p}
    BY <1>3 DEF p
  <2>4. p \notin live
    BY <2>2 DEF Pieces!Apart
  <2>5. Pieces!Next
    BY <2>1, <2>2, <2>3, <2>4 DEF Pieces!Next, Pieces!Allocate, Pieces!Piece
  <2> QED
    BY <1>2, <2>1, <2>2, <2>3, <2>5
<1>4. CASE useBuddy
  <2> DEFINE u == MallocBuddy(tree, n)
  <2>1. /\ ~ MallocFails(tree, n)
        /\ tree' = u /\ manager' = manager
        /\ memAllocated' = CountMalloc(memAllocated, n)
        /\ live' = live \cup {New(start[Taken(tree, n)])}
    BY <1>4 DEF AllocMemory
  <2>2. TreeOK(tree) /\ Matched(TreeChunks(tree), live) /\ manager = NoBlocks
    BY <1>4 DEF MemInv
  <2> HIDE DEF u, New
  <2>3. TreeOK(u)
    BY <1>1, <2>1, <2>2, AllocatesLeaf DEF u
  <2>4. PICK c \in Chunks : /\ TreeChunks(u) = TreeChunks(tree) \cup {c}
                            /\ c.start = start[Taken(tree, n)] /\ n <= c.size
                            /\ \A d \in TreeChunks(tree) : Pieces!Apart(c, d)
    BY <1>1, <2>1, <2>2, AllocatesLeaf DEF u
  <2>5. TreeChunks(tree) \subseteq Chunks
    BY <2>2, LeafChunks
  <2>6. live' = live \cup {New(c.start)}
    BY <2>1, <2>4
  <2>7. /\ Matched(TreeChunks(tree) \cup {c}, live')
        /\ live' \subseteq [start : Nat, size : Request]
        /\ [Pieces!Next]_live
    <3> DEFINE C == TreeChunks(tree)
    <3>1. /\ C \subseteq Chunks /\ Matched(C, live)
          /\ n <= c.size /\ (\A d \in C : Pieces!Apart(c, d))
          /\ live' = live \cup {New(c.start)}
      BY <2>2, <2>4, <2>5, <2>6
    <3> HIDE DEF C
    <3>2. /\ Matched(C \cup {c}, live')
          /\ live' \subseteq [start : Nat, size : Request]
          /\ [Pieces!Next]_live
      BY <1>3, <3>1
    <3> QED
      BY <3>2 DEF C
  <2>8. memAllocated' \in 0 .. Word - 1
    <3>1. memAllocated + RoundUp(n) \in Int
      BY <1>1, <1>2, RoundUpFits
    <3> QED
      BY <2>1, <3>1, CountsInWord DEF CountMalloc
  <2>9. TypeOK'
    BY <1>2, <2>1, <2>3, <2>7, <2>8 DEF TypeOK, TreeOK
  <2>10. MemInv'
    BY <1>2, <1>4, <2>1, <2>2, <2>3, <2>4, <2>7, <2>9 DEF MemInv
  <2> QED
    BY <2>7, <2>10
<1>5. CASE ~ useBuddy
  <2> DEFINE w == AllocBlock(manager, n)
  <2>1. /\ manager' = w /\ tree' = tree /\ memAllocated' = memAllocated
        /\ live' = live \cup {New(BlockAddress(manager, n))}
    BY <1>5 DEF AllocMemory
  <2>2. Laid(manager) /\ Matched(InUse(manager), live) /\ tree = Root
    BY <1>5 DEF MemInv
  <2> HIDE DEF w, New
  <2>3. Laid(w)
    BY <1>1, <2>2, AllocatesBlock DEF w
  <2>4. PICK c \in Chunks : /\ InUse(w) = InUse(manager) \cup {c}
                            /\ c.start = BlockAddress(manager, n) /\ n <= c.size
                            /\ \A d \in InUse(manager) : Pieces!Apart(c, d)
    BY <1>1, <2>2, AllocatesBlock DEF w
  <2>5. InUse(manager) \subseteq Chunks
    BY <2>2, LaidFields, BlocksOf, ChunkOf DEF InUse, UsedOf
  <2>6. live' = live \cup {New(c.start)}
    BY <2>1, <2>4
  <2>7. /\ Matched(InUse(manager) \cup {c}, live')
        /\ live' \subseteq [start : Nat, size : Request]
        /\ [Pieces!Next]_live
    <3> DEFINE C == InUse(manager)
    <3>1. /\ C \subseteq Chunks /\ Matched(C, live)
          /\ n <= c.size /\ (\A d \in C : Pieces!Apart(c, d))
          /\ live' = live \cup {New(c.start)}
      BY <2>2, <2>4, <2>5, <2>6
    <3> HIDE DEF C
    <3>2. /\ Matched(C \cup {c}, live')
          /\ live' \subseteq [start : Nat, size : Request]
          /\ [Pieces!Next]_live
      BY <1>3, <3>1
    <3> QED
      BY <3>2 DEF C
  <2>8. TypeOK'
    BY <1>2, <2>1, <2>3, <2>7 DEF TypeOK, Laid
  <2>9. MemInv'
    BY <1>2, <1>5, <2>1, <2>2, <2>3, <2>4, <2>7, <2>8 DEF MemInv
  <2> QED
    BY <2>7, <2>9
<1> QED
  BY <1>4, <1>5

\* free.
LEMMA FreeStep ==
  ASSUME MemInv, NEW p \in live, FreeMemory(p)
  PROVE  MemInv' /\ [Pieces!Next]_live
<1>1. /\ useBuddy \in BOOLEAN /\ useBuddy' = useBuddy
      /\ manager \in Manager /\ tree \in Tree /\ memAllocated \in 0 .. Word - 1
      /\ live \subseteq [start : Nat, size : Request]
      /\ live' = live \ {p}
  BY DEF MemInv, TypeOK, FreeMemory
<1>2. Pieces!Next
  BY <1>1 DEF Pieces!Next, Pieces!Free
<1>3. CASE useBuddy
  <2> DEFINE u == FreeBuddy(tree, p.start)
  <2>1. /\ tree' = u /\ manager' = manager
        /\ memAllocated' = CountFree(memAllocated, tree, p.start)
    BY <1>3 DEF FreeMemory
  <2>2. TreeOK(tree) /\ Matched(TreeChunks(tree), live) /\ manager = NoBlocks
    BY <1>3 DEF MemInv
  <2>3. PICK c \in TreeChunks(tree) : /\ c.start = p.start
                                      /\ Matched(TreeChunks(tree) \ {c}, live \ {p})
    BY <2>2, MatchedLess
  <2>4. /\ TreeOK(u)
        /\ TreeChunks(u) = TreeChunks(tree) \ {c}
        /\ Deepest(PathTo(tree, p.start)) \in Node
    BY <2>2, <2>3, FreesLeaf
  <2> HIDE DEF u
  <2>5. memAllocated' \in 0 .. Word - 1
    <3>1. memAllocated - size[Deepest(PathTo(tree, p.start))] \in Int
      BY <1>1, <2>4, Sizes
    <3> QED
      BY <1>1, <2>1, <3>1, CountsInWord DEF CountFree
  <2>6. TypeOK'
    BY <1>1, <2>1, <2>4, <2>5 DEF TypeOK, TreeOK
  <2>7. MemInv'
    BY <1>1, <1>3, <2>1, <2>2, <2>3, <2>4, <2>6 DEF MemInv
  <2> QED
    BY <1>2, <2>7
<1>4. CASE ~ useBuddy
  <2> DEFINE w == FreeBlock(manager, p.start)
  <2>1. manager' = w /\ tree' = tree /\ memAllocated' = memAllocated
    BY <1>4 DEF FreeMemory
  <2>2. Laid(manager) /\ Matched(InUse(manager), live) /\ tree = Root
    BY <1>4 DEF MemInv
  <2>3. PICK c \in InUse(manager) : /\ c.start = p.start
                                    /\ Matched(InUse(manager) \ {c}, live \ {p})
    BY <2>2, MatchedLess
  <2>4. Laid(w) /\ InUse(w) = InUse(manager) \ {c}
    BY <2>2, <2>3, FreesBlock
  <2> HIDE DEF w
  <2>5. TypeOK'
    BY <1>1, <2>1, <2>4 DEF TypeOK, Laid
  <2>6. MemInv'
    BY <1>1, <1>4, <2>1, <2>2, <2>3, <2>4, <2>5 DEF MemInv
  <2> QED
    BY <1>2, <2>6
<1> QED
  BY <1>3, <1>4

LEMMA SameMemory ==
  ASSUME MemInv, UNCHANGED vars
  PROVE  MemInv' /\ [Pieces!Next]_live
BY DEF vars, MemInv, TypeOK

LEMMA StepMemInv == MemInv /\ [Next]_vars => MemInv' /\ [Pieces!Next]_live
<1> SUFFICES ASSUME MemInv, [Next]_vars PROVE MemInv' /\ [Pieces!Next]_live
  OBVIOUS
<1>1. ASSUME NEW n \in Request, AllocMemory(n) PROVE MemInv' /\ [Pieces!Next]_live
  BY <1>1, AllocStep
<1>2. ASSUME NEW n \in Request, RefuseMemory(n) PROVE MemInv' /\ [Pieces!Next]_live
  <2>1. UNCHANGED vars
    BY <1>2 DEF RefuseMemory
  <2> QED
    BY <2>1, SameMemory
<1>3. ASSUME NEW p \in live, FreeMemory(p) PROVE MemInv' /\ [Pieces!Next]_live
  BY <1>3, FreeStep
<1>4. CASE UNCHANGED vars
  BY <1>4, SameMemory
<1> QED
  BY <1>1, <1>2, <1>3, <1>4 DEF Next

-----------------------------------------------------------------------------
(* What follows from the invariant. *)

\* A piece lies in its block, and the structs lie outside the blocks.
LEMMA ApartFromHeaders ==
  ASSUME MemInv
  PROVE  HeadersUntouched
<1> SUFFICES ASSUME NEW p \in live, NEW i \in DOMAIN manager.blocks, ~ useBuddy
             PROVE  \/ p.start + p.size <= manager.blocks[i].start - Header
                    \/ manager.blocks[i].start <= p.start
  BY DEF HeadersUntouched
<1> DEFINE bs == manager.blocks
<1>1. Laid(manager) /\ Matched(InUse(manager), live) /\ live \subseteq Chunks
  BY PiecesAreChunks DEF MemInv
<1>2. /\ bs \in Seq(Block) /\ Sorted(bs) /\ Header \in Nat
      /\ Len(bs) \in Nat /\ DOMAIN bs = 1 .. Len(bs)
      /\ \A k \in 1 .. Len(bs) : /\ bs[k].start \in Nat /\ bs[k].size \in Nat
                                 /\ End(bs[k]) = bs[k].start + bs[k].size
  BY <1>1, HeaderAssumption, LaidFields, BlocksOf DEF End
<1>3. PICK c \in InUse(manager) : c.start = p.start /\ p.size <= c.size
  BY <1>1 DEF Matched
<1>4. PICK j \in 1 .. Len(bs) : c = Chunk(bs[j])
  BY DEF InUse, UsedOf
<1>5. p.start = bs[j].start /\ p.size <= bs[j].size /\ p.size \in Nat
  BY <1>1, <1>3, <1>4 DEF Chunk, Chunks
<1>6. i \in 1 .. Len(bs)
  BY <1>2
<1> HIDE DEF bs
<1>7. CASE i = j
  BY <1>2, <1>5, <1>7 DEF bs
<1>8. CASE i < j
  <2>1. End(bs[i]) + Header <= bs[j].start
    BY <1>2, <1>6, <1>8 DEF Sorted
  <2>2. bs[i].start <= bs[j].start
    BY <1>2, <1>6, <2>1
  <2> QED
    BY <1>5, <2>2 DEF bs
<1>9. CASE j < i
  <2>1. End(bs[j]) + Header <= bs[i].start
    BY <1>2, <1>6, <1>9 DEF Sorted
  <2>2. p.start + p.size <= bs[i].start - Header
    BY <1>2, <1>5, <1>6, <2>1
  <2> QED
    BY <2>2 DEF bs
<1> QED
  BY <1>2, <1>6, <1>7, <1>8, <1>9

\* Used memory is matched with pieces one to one.
LEMMA UsedIsLive ==
  ASSUME MemInv
  PROVE  NothingLost
<1>1. ASSUME NEW C, Matched(C, live) PROVE {c.start : c \in C} = {p.start : p \in live}
  BY <1>1 DEF Matched
<1>2. CASE useBuddy
  <2>1. Used = {start[i] : i \in Leaves(tree)}
    BY <1>2 DEF Used, Leaves
  <2>2. {start[i] : i \in Leaves(tree)} = {c.start : c \in TreeChunks(tree)}
    <3> DEFINE At(i) == [start |-> start[i], size |-> size[i]]
    <3>1. \A i \in Leaves(tree) : At(i).start = start[i]
      OBVIOUS
    <3>2. TreeChunks(tree) = {At(i) : i \in Leaves(tree)}
      BY DEF TreeChunks
    <3> HIDE DEF At
    <3>3. {c.start : c \in {At(i) : i \in Leaves(tree)}} = {At(i).start : i \in Leaves(tree)}
      OBVIOUS
    <3>4. {At(i).start : i \in Leaves(tree)} = {start[i] : i \in Leaves(tree)}
      BY <3>1
    <3> QED
      BY <3>2, <3>3, <3>4
  <2>3. {c.start : c \in TreeChunks(tree)} = {p.start : p \in live}
    BY <1>1, <1>2 DEF MemInv
  <2> QED
    BY <2>1, <2>2, <2>3 DEF NothingLost
<1>3. CASE ~ useBuddy
  <2> DEFINE bs == manager.blocks
             J == {j \in 1 .. Len(bs) : ~ bs[j].isFree}
  <2>1. bs \in Seq(Block) /\ DOMAIN bs = 1 .. Len(bs)
    BY <1>3, LaidFields, BlocksOf DEF MemInv
  <2>2. Used = {b.start : b \in {c \in {bs[j] : j \in DOMAIN bs} : ~ c.isFree}}
    BY <1>3 DEF Used, ToSet
  <2>3. {c \in {bs[j] : j \in DOMAIN bs} : ~ c.isFree} = {bs[j] : j \in J}
    BY <2>1
  <2>4. Used = {bs[j].start : j \in J}
    <3> HIDE DEF J, bs
    <3> QED
      BY <2>2, <2>3
  <2>5. {c.start : c \in InUse(manager)} = {bs[j].start : j \in J}
    <3>1. InUse(manager) = {Chunk(bs[j]) : j \in J}
      BY DEF InUse, UsedOf
    <3>2. \A j \in J : Chunk(bs[j]).start = bs[j].start
      BY DEF Chunk
    <3> HIDE DEF J, bs
    <3>3. {c.start : c \in {Chunk(bs[j]) : j \in J}} = {Chunk(bs[j]).start : j \in J}
      OBVIOUS
    <3>4. {Chunk(bs[j]).start : j \in J} = {bs[j].start : j \in J}
      BY <3>2
    <3> QED
      BY <3>1, <3>3, <3>4
  <2>6. {c.start : c \in InUse(manager)} = {p.start : p \in live}
    BY <1>1, <1>3 DEF MemInv
  <2> QED
    BY <2>4, <2>5, <2>6 DEF NothingLost
<1> QED
  BY <1>2, <1>3

\* No two free blocks are neighbours, and a tree with a free inner node is no tree.
LEMMA MergedWhenFree ==
  ASSUME MemInv
  PROVE  AllMerged
<1> SUFFICES ASSUME live = {}
             PROVE  /\ tree = Root
                    /\ \A i \in DOMAIN manager.blocks : i = 1 /\ manager.blocks[i].isFree
  BY DEF AllMerged
<1>1. CASE useBuddy
  <2>1. TreeOK(tree) /\ TreeChunks(tree) = {} /\ manager = NoBlocks
    BY <1>1 DEF MemInv, Matched
  <2>2. Leaves(tree) = {}
    BY <2>1 DEF TreeChunks
  <2>3. tree = Root
    BY <2>1, <2>2, NothingAllocated
  <2> QED
    BY <2>1, <2>3 DEF NoBlocks
<1>2. CASE ~ useBuddy
  <2> DEFINE bs == manager.blocks
  <2>1. tree = Root /\ Laid(manager) /\ InUse(manager) = {}
    BY <1>2 DEF MemInv, Matched
  <2>2. /\ bs \in Seq(Block) /\ Merged(bs)
        /\ Len(bs) \in Nat /\ DOMAIN bs = 1 .. Len(bs)
    BY <2>1, LaidFields, BlocksOf
  <2>3. \A i \in 1 .. Len(bs) : bs[i].isFree
    BY <2>1 DEF InUse, UsedOf
  <2> HIDE DEF bs
  <2>4. ASSUME NEW i \in 1 .. Len(bs) PROVE i = 1
    <3> SUFFICES ASSUME i # 1 PROVE FALSE
      OBVIOUS
    <3>1. i - 1 \in 1 .. Len(bs) - 1 /\ i - 1 \in 1 .. Len(bs) /\ (i - 1) + 1 = i
      BY <2>2
    <3> QED
      BY <2>2, <2>3, <3>1 DEF Merged
  <2> QED
    BY <2>1, <2>2, <2>3, <2>4 DEF bs
<1> QED
  BY <1>1, <1>2 DEF MemInv, TypeOK

\* A free leaf that has the size malloc_rec looks for is usable.
LEMMA RefusedMeansNone ==
  ASSUME MemInv
  PROVE  NoLeafHidden
<1>1. TreeOK(tree)
  BY RootOK DEF MemInv, TypeOK
<1>2. \A n \in Request : n \in Nat
  BY RequestAssumption
<1> QED
  BY <1>1, <1>2, FreeLeafIsUsable DEF NoLeafHidden

-----------------------------------------------------------------------------
(* The theorems. *)

LEMMA AlwaysMemInv == Spec => []MemInv
<1>1. Init => MemInv
  BY InitMemInv
<1>2. MemInv /\ [Next]_vars => MemInv'
  BY StepMemInv
<1> QED
  BY <1>1, <1>2, PTL DEF Spec

\* Blocks, nodes and mem_allocated keep their types whatever is allocated and freed: no
\* size or address of memMan.c becomes negative, and the tree stays within its levels.
THEOREM MemoryTyped == Spec => []TypeOK
<1>1. MemInv => TypeOK
  BY DEF MemInv
<1> QED
  BY <1>1, AlwaysMemInv, PTL

\* createBlock and the merging of blocks in BlockMemoryManager.c never give a program a
\* byte of the struct of a block in the list, whatever the sizes and the order of frees.
THEOREM HeadersStayUntouched == Spec => []HeadersUntouched
<1>1. MemInv => HeadersUntouched
  BY ApartFromHeaders
<1> QED
  BY <1>1, AlwaysMemInv, PTL

\* Both managers keep as used exactly the pieces in use: free_mem finds each, though its
\* neighbours have been split, merged or used again.
THEOREM MemoryIsKept == Spec => []NothingLost
<1>1. MemInv => NothingLost
  BY UsedIsLive
<1> QED
  BY <1>1, AlwaysMemInv, PTL

\* When everything is freed the tree of freeBuddy is the root alone, and the list of
\* coalesceFreeBlocks one free block.
THEOREM FreedMemoryMerges == Spec => []AllMerged
<1>1. MemInv => AllMerged
  BY MergedWhenFree
<1> QED
  BY <1>1, AlwaysMemInv, PTL

\* When mallocBuddy returns NULL for a size up to the root's, there is no free leaf of the
\* power of two that it looks for: check_state marks no node as allocated that has a free
\* leaf below it.  That the request itself would fit nowhere is not said, and not so.
THEOREM NoLeafIsHidden == Spec => []NoLeafHidden
<1>1. MemInv => NoLeafHidden
  BY RefusedMeansNone
<1> QED
  BY <1>1, AlwaysMemInv, PTL

\* As long as no call of allocMemory or free is interrupted by another one, both managers
\* implement Allocator: no two pieces in use share a byte or an address, for any sizes,
\* also 0, and any order of the calls.
THEOREM SequentialCallsAllocateApart == Spec => AllocatesApart
<1>1. Init => Pieces!Init
  BY DEF Init, Pieces!Init
<1>2. MemInv /\ [Next]_vars => [Pieces!Next]_live
  BY StepMemInv
<1> QED
  BY <1>1, <1>2, AlwaysMemInv, PTL DEF Spec, AllocatesApart, Pieces!Spec

=============================================================================
