---------------------------- MODULE QueueLemmas ----------------------------
(***************************************************************************)
(* What inserting at the tail or the head of a list, taking its head and    *)
(* taking an element out of its middle do to the elements of a list without *)
(* duplicates.  The lists of the kernel (ready queues, blocked processes,   *)
(* waiting processes of a semaphore) are such lists of pids.                *)
(***************************************************************************)
EXTENDS Integers, Sequences, SequencesExt, SequenceTheorems,
        WellFoundedInduction, TLAPS

\* A non-empty set of natural numbers has a least element, so Min returns it.
LEMMA MinProperties ==
  ASSUME NEW T, T \subseteq Nat, T # {}
  PROVE  /\ Min(T) \in T
         /\ \A y \in T : Min(T) <= y
<1> DEFINE R == OpToRel(<, Nat)
<1>1. IsWellFoundedOn(R, Nat)
  BY NatLessThanWellFounded
<1>2. PICK x \in T : \A y \in T : ~ (<<y, x>> \in R)
  BY <1>1, WFMin
<1>3. \A y \in T : ~ (y < x)
  BY <1>2 DEF OpToRel
<1>4. \A y \in T : x <= y
  BY <1>3
<1> QED
  BY <1>4 DEF Min

\* A non-empty set of natural numbers below a bound has a greatest element, so
\* Max returns it.
LEMMA MaxProperties ==
  ASSUME NEW n \in Nat, NEW T, T \subseteq 0 .. n, T # {}
  PROVE  /\ Max(T) \in T
         /\ \A y \in T : Max(T) >= y
<1> DEFINE U == {k \in 0 .. n : n - k \in T}
<1>1. U \subseteq Nat /\ U # {}
  <2>1. PICK x \in T : TRUE
    OBVIOUS
  <2>2. n - x \in 0 .. n /\ n - (n - x) = x
    OBVIOUS
  <2>3. n - x \in U
    BY <2>2
  <2>4. \A k \in U : k \in Nat
    OBVIOUS
  <2> QED
    BY <2>3, <2>4
<1>2. Min(U) \in U /\ \A y \in U : Min(U) <= y
  BY <1>1, MinProperties
<1> DEFINE m == n - Min(U)
<1>3. m \in T
  BY <1>2
<1>4. \A y \in T : m >= y
  <2> TAKE y \in T
  <2>1. n - y \in 0 .. n /\ n - (n - y) = y
    OBVIOUS
  <2>2. n - y \in U
    BY <2>1
  <2>3. Min(U) <= n - y
    BY <1>2, <2>2
  <2>4. Min(U) \in 0 .. n
    BY <1>2
  <2> QED
    BY <2>3, <2>4
<1> QED
  BY <1>3, <1>4 DEF Max

\* RemoveAt drops one position and closes the gap.
LEMMA RemoveAtProperties ==
  ASSUME NEW S, NEW s \in Seq(S), NEW i \in 1 .. Len(s)
  PROVE  /\ RemoveAt(s, i) \in Seq(S)
         /\ Len(RemoveAt(s, i)) = Len(s) - 1
         /\ \A j \in 1 .. Len(s) - 1 :
              RemoveAt(s, i)[j] = IF j < i THEN s[j] ELSE s[j + 1]
<1> DEFINE a == SubSeq(s, 1, i - 1)
           b == SubSeq(s, i + 1, Len(s))
<1>0. Len(s) \in Nat /\ \A j \in 1 .. Len(s) : s[j] \in S
  BY LenProperties, ElementOfSeq
<1>1. /\ a \in Seq(S)
      /\ Len(a) = i - 1
      /\ \A j \in 1 .. i - 1 : a[j] = s[j]
  <2>1. \A j \in 1 .. i - 1 : s[j] \in S
    BY <1>0
  <2>2. 1 \in Int /\ i - 1 \in Int
    OBVIOUS
  <2> HIDE DEF a
  <2>3. /\ SubSeq(s, 1, i - 1) \in Seq(S)
        /\ Len(SubSeq(s, 1, i - 1)) = IF 1 <= i - 1 THEN i - 1 - 1 + 1 ELSE 0
        /\ \A j \in 1 .. i - 1 - 1 + 1 : SubSeq(s, 1, i - 1)[j] = s[1 + j - 1]
    BY <2>1, <2>2, SubSeqProperties
  <2> QED
    BY <2>3 DEF a
<1>2. /\ b \in Seq(S)
      /\ Len(b) = Len(s) - i
      /\ \A j \in 1 .. Len(s) - i : b[j] = s[i + j]
  <2>1. \A j \in i + 1 .. Len(s) : s[j] \in S
    BY <1>0
  <2>2. i + 1 \in Int /\ Len(s) \in Int
    BY <1>0
  <2> HIDE DEF b
  <2>3. /\ SubSeq(s, i + 1, Len(s)) \in Seq(S)
        /\ Len(SubSeq(s, i + 1, Len(s))) =
             IF i + 1 <= Len(s) THEN Len(s) - (i + 1) + 1 ELSE 0
        /\ \A j \in 1 .. Len(s) - (i + 1) + 1 :
             SubSeq(s, i + 1, Len(s))[j] = s[i + 1 + j - 1]
    BY <2>1, <2>2, SubSeqProperties
  <2> QED
    BY <2>3, <1>0 DEF b
<1>3. RemoveAt(s, i) = a \o b
  BY DEF RemoveAt
<1> HIDE DEF a, b
<1>4. /\ a \o b \in Seq(S)
      /\ Len(a \o b) = Len(a) + Len(b)
      /\ \A j \in 1 .. Len(a) + Len(b) :
           (a \o b)[j] = IF j <= Len(a) THEN a[j] ELSE b[j - Len(a)]
  BY <1>1, <1>2, ConcatProperties
<1> QED
  BY <1>0, <1>1, <1>2, <1>3, <1>4

\* Taking the first occurrence of e out of a list without duplicates removes e
\* and nothing else; a list without e stays as it is.
LEMMA RemoveFirstProperties ==
  ASSUME NEW S, NEW s \in Seq(S), IsInjective(s), NEW e
  PROVE  /\ RemoveFirst(s, e) \in Seq(S)
         /\ IsInjective(RemoveFirst(s, e))
         /\ \A x : Contains(RemoveFirst(s, e), x) <=> Contains(s, x) /\ x # e
<1>0. Len(s) \in Nat /\ DOMAIN s = 1 .. Len(s)
  BY LenProperties
<1>1. CASE \E i \in 1 .. Len(s) : s[i] = e
  <2> DEFINE I == {i \in 1 .. Len(s) : s[i] = e}
             k == Min(I)
             r == RemoveAt(s, k)
  <2>1. I \subseteq Nat /\ I # {}
    BY <1>0, <1>1
  <2>2. k \in 1 .. Len(s) /\ s[k] = e
    BY <2>1, MinProperties
  <2>3. RemoveFirst(s, e) = r
    BY <1>1, <2>1 DEF RemoveFirst, SelectInSeq
  <2> HIDE DEF k
  <2>4. /\ r \in Seq(S)
        /\ Len(r) = Len(s) - 1
        /\ \A j \in 1 .. Len(s) - 1 : r[j] = IF j < k THEN s[j] ELSE s[j + 1]
    BY <2>2, RemoveAtProperties
  <2> HIDE DEF r
  <2>5. DOMAIN r = 1 .. Len(s) - 1
    BY <2>4, LenProperties
  <2>6. \A i, j \in 1 .. Len(s) : s[i] = s[j] => i = j
    BY <1>0 DEF IsInjective
  <2>7. IsInjective(r)
    <3> SUFFICES ASSUME NEW i \in 1 .. Len(s) - 1, NEW j \in 1 .. Len(s) - 1,
                        r[i] = r[j]
                 PROVE  i = j
      BY <2>5 DEF IsInjective
    <3> QED
      BY <1>0, <2>2, <2>4, <2>6
  <2>8. ASSUME NEW x
        PROVE  Contains(r, x) <=> Contains(s, x) /\ x # e
    <3>1. ASSUME NEW j \in 1 .. Len(s) - 1, r[j] = x
          PROVE  (\E i \in 1 .. Len(s) : s[i] = x) /\ x # e
      <4>1. CASE j < k
        BY <1>0, <2>2, <2>4, <2>6, <3>1, <4>1
      <4>2. CASE ~ (j < k)
        <5>1. j + 1 \in 1 .. Len(s) /\ s[j + 1] = x /\ j + 1 # k
          BY <1>0, <2>2, <2>4, <3>1, <4>2
        <5> QED
          BY <2>2, <2>6, <5>1
      <4> QED
        BY <4>1, <4>2
    <3>2. ASSUME NEW i \in 1 .. Len(s), s[i] = x, x # e
          PROVE  \E j \in 1 .. Len(s) - 1 : r[j] = x
      <4>1. CASE i < k
        <5>1. i \in 1 .. Len(s) - 1 /\ r[i] = x
          BY <1>0, <2>2, <2>4, <3>2, <4>1
        <5> QED
          BY <5>1
      <4>2. CASE ~ (i < k)
        <5>1. i - 1 \in 1 .. Len(s) - 1 /\ ~ (i - 1 < k) /\ (i - 1) + 1 = i
          BY <1>0, <2>2, <3>2, <4>2
        <5>2. r[i - 1] = x
          BY <2>4, <3>2, <5>1
        <5> QED
          BY <5>1, <5>2
      <4> QED
        BY <4>1, <4>2
    <3> QED
      BY <2>4, <3>1, <3>2 DEF Contains
  <2> QED
    BY <2>3, <2>4, <2>7, <2>8
<1>2. CASE ~ \E i \in 1 .. Len(s) : s[i] = e
  BY <1>2 DEF RemoveFirst, Contains
<1> QED
  BY <1>1, <1>2

\* Appending an element that is not in the list adds it and nothing else.
LEMMA AppendNewProperties ==
  ASSUME NEW S, NEW s \in Seq(S), NEW e \in S
  PROVE  /\ Append(s, e) \in Seq(S)
         /\ IsInjective(s) /\ ~ Contains(s, e) => IsInjective(Append(s, e))
         /\ \A x : Contains(Append(s, e), x) <=> Contains(s, x) \/ x = e
<1> DEFINE r == Append(s, e)
<1>1. /\ r \in Seq(S)
      /\ Len(r) = Len(s) + 1
      /\ \A i \in 1 .. Len(s) : r[i] = s[i]
      /\ r[Len(s) + 1] = e
  BY AppendProperties
<1> HIDE DEF r
<1>2. /\ Len(s) \in Nat
      /\ DOMAIN s = 1 .. Len(s)
      /\ DOMAIN r = 1 .. Len(s) + 1
  BY <1>1, LenProperties
<1>3. ASSUME IsInjective(s), ~ Contains(s, e)
      PROVE  IsInjective(r)
  <2> SUFFICES ASSUME NEW i \in 1 .. Len(s) + 1, NEW j \in 1 .. Len(s) + 1,
                      r[i] = r[j]
               PROVE  i = j
    BY <1>2 DEF IsInjective
  <2>1. \A m \in 1 .. Len(s) : s[m] # e
    BY <1>3 DEF Contains
  <2>2. \A m, n \in 1 .. Len(s) : s[m] = s[n] => m = n
    BY <1>2, <1>3 DEF IsInjective
  <2> QED
    BY <1>1, <1>2, <2>1, <2>2
<1>4. ASSUME NEW x
      PROVE  Contains(r, x) <=> Contains(s, x) \/ x = e
  BY <1>1, <1>2 DEF Contains
<1> QED
  BY <1>1, <1>3, <1>4 DEF r

\* So does putting it in front.
LEMMA ConsNewProperties ==
  ASSUME NEW S, NEW s \in Seq(S), NEW e \in S
  PROVE  /\ Cons(e, s) \in Seq(S)
         /\ IsInjective(s) /\ ~ Contains(s, e) => IsInjective(Cons(e, s))
         /\ \A x : Contains(Cons(e, s), x) <=> Contains(s, x) \/ x = e
<1> DEFINE r == <<e>> \o s
<1>0. Len(s) \in Nat
  BY LenProperties
<1>1. /\ r \in Seq(S)
      /\ Len(r) = Len(s) + 1
      /\ r[1] = e
      /\ \A i \in 1 .. Len(s) : r[i + 1] = s[i]
  <2>1. <<e>> \in Seq(S) /\ Len(<<e>>) = 1 /\ <<e>>[1] = e
    OBVIOUS
  <2>2. /\ r \in Seq(S)
        /\ Len(r) = 1 + Len(s)
        /\ \A i \in 1 .. 1 + Len(s) : r[i] = IF i <= 1 THEN <<e>>[i] ELSE s[i - 1]
    BY <2>1, ConcatProperties
  <2> HIDE DEF r
  <2>3. \A i \in 1 .. Len(s) : i + 1 \in 1 .. 1 + Len(s) /\ (i + 1) - 1 = i
    BY <1>0
  <2> QED
    BY <1>0, <2>1, <2>2, <2>3
<1>2. Cons(e, s) = r
  BY DEF Cons
<1> HIDE DEF r
<1>3. /\ DOMAIN s = 1 .. Len(s)
      /\ DOMAIN r = 1 .. Len(s) + 1
  BY <1>1, LenProperties
<1>4. \A i \in 2 .. Len(s) + 1 : i - 1 \in 1 .. Len(s) /\ r[i] = s[i - 1]
  <2> TAKE i \in 2 .. Len(s) + 1
  <2>1. i - 1 \in 1 .. Len(s) /\ (i - 1) + 1 = i
    BY <1>0
  <2> QED
    BY <1>1, <2>1
<1>5. ASSUME IsInjective(s), ~ Contains(s, e)
      PROVE  IsInjective(r)
  <2> SUFFICES ASSUME NEW i \in 1 .. Len(s) + 1, NEW j \in 1 .. Len(s) + 1,
                      r[i] = r[j]
               PROVE  i = j
    BY <1>3 DEF IsInjective
  <2>1. \A m \in 1 .. Len(s) : s[m] # e
    BY <1>5 DEF Contains
  <2>2. \A m, n \in 1 .. Len(s) : s[m] = s[n] => m = n
    BY <1>3, <1>5 DEF IsInjective
  <2>3. CASE i = 1 \/ j = 1
    BY <1>0, <1>1, <1>4, <2>1, <2>3
  <2>4. CASE i # 1 /\ j # 1
    <3>1. i - 1 \in 1 .. Len(s) /\ j - 1 \in 1 .. Len(s) /\ s[i - 1] = s[j - 1]
      BY <1>0, <1>4, <2>4
    <3> QED
      BY <2>2, <3>1
  <2> QED
    BY <2>3, <2>4
<1>6. ASSUME NEW x
      PROVE  Contains(r, x) <=> Contains(s, x) \/ x = e
  <2>1. ASSUME NEW i \in 1 .. Len(s) + 1, r[i] = x
        PROVE  (\E j \in 1 .. Len(s) : s[j] = x) \/ x = e
    <3>1. CASE i = 1
      BY <1>1, <2>1, <3>1
    <3>2. CASE i # 1
      BY <1>0, <1>4, <2>1, <3>2
    <3> QED
      BY <3>1, <3>2
  <2>2. ASSUME NEW j \in 1 .. Len(s), s[j] = x
        PROVE  \E i \in 1 .. Len(s) + 1 : r[i] = x
    <3>1. j + 1 \in 1 .. Len(s) + 1 /\ r[j + 1] = x
      BY <1>0, <1>1, <2>2
    <3> QED
      BY <3>1
  <2>3. x = e => \E i \in 1 .. Len(s) + 1 : r[i] = x
    BY <1>0, <1>1
  <2> QED
    BY <1>1, <2>1, <2>2, <2>3 DEF Contains
<1> QED
  BY <1>1, <1>2, <1>5, <1>6

\* The head of a list without duplicates is in the list and not in its tail.
LEMMA HeadTailSplit ==
  ASSUME NEW S, NEW s \in Seq(S), s # <<>>
  PROVE  /\ Head(s) \in S
         /\ Tail(s) \in Seq(S)
         /\ Contains(s, Head(s))
         /\ IsInjective(s) =>
              /\ IsInjective(Tail(s))
              /\ \A x : Contains(Tail(s), x) <=> Contains(s, x) /\ x # Head(s)
<1>0. /\ Len(s) \in Nat \ {0}
      /\ DOMAIN s = 1 .. Len(s)
  BY EmptySeq, LenProperties
<1> DEFINE r == Tail(s)
<1>1. /\ Head(s) \in S
      /\ r \in Seq(S)
      /\ Len(r) = Len(s) - 1
      /\ \A i \in 1 .. Len(r) : r[i] = s[i + 1]
  BY HeadTailProperties
<1>2. Head(s) = s[1]
  OBVIOUS
<1> HIDE DEF r
<1>3. DOMAIN r = 1 .. Len(s) - 1
  BY <1>1, LenProperties
<1>4. Contains(s, Head(s))
  BY <1>0, <1>2 DEF Contains
<1>5. ASSUME IsInjective(s)
      PROVE  IsInjective(r) /\ \A x : Contains(r, x) <=> Contains(s, x) /\ x # s[1]
  <2>1. \A i, j \in 1 .. Len(s) : s[i] = s[j] => i = j
    BY <1>0, <1>5 DEF IsInjective
  <2>2. \A i \in 1 .. Len(s) - 1 : i + 1 \in 1 .. Len(s) /\ r[i] = s[i + 1]
    BY <1>0, <1>1
  <2>3. IsInjective(r)
    <3> SUFFICES ASSUME NEW i \in 1 .. Len(s) - 1, NEW j \in 1 .. Len(s) - 1,
                        r[i] = r[j]
                 PROVE  i = j
      BY <1>3 DEF IsInjective
    <3>1. i + 1 = j + 1
      BY <2>1, <2>2
    <3> QED
      BY <3>1
  <2>4. ASSUME NEW x
        PROVE  Contains(r, x) <=> Contains(s, x) /\ x # s[1]
    <3>1. ASSUME NEW i \in 1 .. Len(s) - 1, r[i] = x
          PROVE  (\E j \in 1 .. Len(s) : s[j] = x) /\ x # s[1]
      <4>1. i + 1 \in 1 .. Len(s) /\ s[i + 1] = x /\ i + 1 # 1 /\ 1 \in 1 .. Len(s)
        BY <1>0, <2>2, <3>1
      <4> QED
        BY <2>1, <4>1
    <3>2. ASSUME NEW j \in 1 .. Len(s), s[j] = x, x # s[1]
          PROVE  \E i \in 1 .. Len(s) - 1 : r[i] = x
      <4>1. j - 1 \in 1 .. Len(s) - 1 /\ (j - 1) + 1 = j
        BY <1>0, <3>2
      <4>2. r[j - 1] = x
        BY <2>2, <3>2, <4>1
      <4> QED
        BY <4>1, <4>2
    <3> QED
      BY <1>0, <1>1, <3>1, <3>2 DEF Contains
  <2> QED
    BY <2>3, <2>4
<1> QED
  BY <1>1, <1>2, <1>4, <1>5 DEF r
=============================================================================
