----------------------------- MODULE GuiProofs -----------------------------
(***************************************************************************)
(* Proofs about GuiLists for any names and texts and any number of lists,  *)
(* entries, tracks, commands and restarts.                                 *)
(*                                                                         *)
(* The commands are composed of functions of the core's state.  Sound is   *)
(* what they keep of it; Leads(s, u) says that one has led from s to u.    *)
(* The functions that walk through a list are unfolded into a sequence of  *)
(* states, and what holds of these is proved with a least counterexample.  *)
(***************************************************************************)
EXTENDS GuiLists, SequenceTheorems, FiniteSetTheorems, WellFoundedInduction, TLAPS

-----------------------------------------------------------------------------
(* Induction over the numbers, without an operator as a parameter.         *)

\* A set of numbers that is not empty has a least one.
LEMMA NatLeast ==
  ASSUME NEW T \in SUBSET Nat, T # {}
  PROVE  \E x \in T : \A y \in T : x <= y
<1> DEFINE R == OpToRel(<, Nat)
<1>1. IsWellFoundedOn(R, Nat)
  BY NatLessThanWellFounded
<1>2. \A x, y \in Nat : y < x => <<y, x>> \in R
  BY DEF OpToRel
<1> HIDE DEF R
<1>3. PICK x \in T : \A y \in T : ~ (<<y, x>> \in R)
  BY <1>1, WFMin
<1>4. ASSUME NEW y \in T PROVE x <= y
  <2>1. x \in Nat /\ y \in Nat
    OBVIOUS
  <2>2. ~(y < x)
    BY <1>2, <1>3, <2>1
  <2> QED BY <2>1, <2>2
<1> QED BY <1>4

\* A set with 0 and with the next one of each of its numbers has all numbers.
LEMMA NatSetInduction ==
  ASSUME NEW S, 0 \in S, \A n \in Nat : n \in S => n + 1 \in S
  PROVE  Nat \subseteq S
<1> DEFINE T == Nat \ S
<1> SUFFICES ASSUME T # {} PROVE FALSE
  OBVIOUS
<1>1. PICK x \in T : \A y \in T : x <= y
  BY NatLeast
<1>2. x # 0 /\ x - 1 \in Nat
  BY <1>1
<1>3. x - 1 \in S
  BY <1>1, <1>2
<1> QED BY <1>1, <1>2, <1>3

\* The same up to m.
LEMMA UpToInduction ==
  ASSUME NEW m \in Nat, NEW S, 0 \in S, \A k \in 1..m : k - 1 \in S => k \in S
  PROVE  0..m \subseteq S
<1> DEFINE T == { n \in Nat : n <= m => n \in S }
<1>1. 0 \in T
  OBVIOUS
<1>2. ASSUME NEW n \in Nat, n \in T
      PROVE  n + 1 \in T
  <2> SUFFICES ASSUME n + 1 <= m PROVE n + 1 \in S
    OBVIOUS
  <2>1. n \in S /\ n + 1 \in 1..m /\ (n + 1) - 1 = n
    BY <1>2
  <2> QED BY <2>1
<1> HIDE DEF T
<1>3. Nat \subseteq T
  BY <1>1, <1>2, NatSetInduction
<1> QED BY <1>3 DEF T

\* g is defined by recursion: from c, one F after the other.
Unfolds(g, c, F, m) == g[0] = c /\ \A k \in 1..m : g[k] = F[<<g[k - 1], k>>]

\* A function defined by recursion exists, with its values in D.
LEMMA Recursion ==
  ASSUME NEW D, NEW c \in D, NEW F \in [D \X Nat -> D], NEW m \in Nat
  PROVE  \E g \in [0..m -> D] : Unfolds(g, c, F, m)
<1> DEFINE Is(g, n) == g \in [0..n -> D] /\ g[0] = c /\ \A k \in 1..n : g[k] = F[<<g[k - 1], k>>]
           S == { n \in Nat : \E g \in [0..n -> D] : Is(g, n) }
<1>1. 0 \in S
  <2> DEFINE g == [k \in 0..0 |-> c]
  <2>1. g \in [0..0 -> D] /\ g[0] = c /\ \A k \in 1..0 : g[k] = F[<<g[k - 1], k>>]
    OBVIOUS
  <2> QED BY <2>1
<1>2. ASSUME NEW n \in Nat, n \in S
      PROVE  n + 1 \in S
  <2>1. PICK g \in [0..n -> D] : Is(g, n)
    BY <1>2
  <2>2. PICK v \in D : v = F[<<g[n], n + 1>>]
    <3>1. g[n] \in D /\ n + 1 \in Nat
      OBVIOUS
    <3> QED BY <3>1
  <2> DEFINE h == [k \in 0..(n + 1) |-> IF k = n + 1 THEN v ELSE g[k]]
  <2>3. h \in [0..(n + 1) -> D]
    BY <2>1
  <2>4. h[0] = c /\ h[n + 1] = v /\ \A k \in 0..n : h[k] = g[k]
    BY <2>1
  <2> HIDE DEF h
  <2>5. ASSUME NEW k \in 1..(n + 1)
        PROVE  h[k] = F[<<h[k - 1], k>>]
    <3>1. CASE k = n + 1
      <4>1. k - 1 = n /\ n \in 0..n
        BY <3>1
      <4> QED BY <2>2, <2>4, <3>1, <4>1
    <3>2. CASE k # n + 1
      <4>1. k \in 1..n /\ k \in 0..n /\ k - 1 \in 0..n
        BY <3>2
      <4> QED BY <2>1, <2>4, <4>1
    <3> QED BY <3>1, <3>2
  <2>6. Is(h, n + 1)
    BY <2>3, <2>4, <2>5
  <2> HIDE DEF Is
  <2> QED BY <2>3, <2>6
<1> HIDE DEF S
<1>3. m \in S
  BY <1>1, <1>2, NatSetInduction
<1> QED BY <1>3 DEF S, Unfolds

-----------------------------------------------------------------------------
(* Keep.                                                                   *)

\* How Keep comes about: the first n elements give kept[n].
KeptOf(l, S, kept) ==
  /\ kept[0] = <<>>
  /\ \A n \in 1..Len(l) : kept[n] = IF l[n] \in S THEN Append(kept[n - 1], l[n]) ELSE kept[n - 1]

LEMMA KeepUnfolds ==
  ASSUME NEW T, NEW l \in Seq(T), NEW S
  PROVE  \E kept \in [0..Len(l) -> Seq(T)] : KeptOf(l, S, kept) /\ Keep(l, S) = kept[Len(l)]
<1> DEFINE F == [p \in Seq(T) \X Nat |->
                   IF p[2] \in 1..Len(l) /\ l[p[2]] \in S THEN Append(p[1], l[p[2]]) ELSE p[1]]
           f == CHOOSE g : g = [n \in 0..Len(l) |->
                  IF n = 0 THEN <<>> ELSE IF l[n] \in S THEN Append(g[n - 1], l[n]) ELSE g[n - 1]]
<1>0. Len(l) \in Nat /\ <<>> \in Seq(T)
  OBVIOUS
<1>1. F \in [Seq(T) \X Nat -> Seq(T)]
  OBVIOUS
<1>2. \A p \in Seq(T) \X Nat :
        F[p] = IF p[2] \in 1..Len(l) /\ l[p[2]] \in S THEN Append(p[1], l[p[2]]) ELSE p[1]
  OBVIOUS
<1> HIDE DEF F
<1>3. PICK g \in [0..Len(l) -> Seq(T)] :
        g[0] = <<>> /\ \A k \in 1..Len(l) : g[k] = F[<<g[k - 1], k>>]
  <2>1. \E g \in [0..Len(l) -> Seq(T)] : Unfolds(g, <<>>, F, Len(l))
    BY <1>0, <1>1, Recursion
  <2> QED BY <2>1 DEF Unfolds
<1>4. ASSUME NEW k \in 1..Len(l)
      PROVE  g[k] = IF l[k] \in S THEN Append(g[k - 1], l[k]) ELSE g[k - 1]
  <2>1. g[k - 1] \in Seq(T) /\ k \in Nat
    BY <1>0
  <2>2. <<g[k - 1], k>> \in Seq(T) \X Nat
    BY <2>1
  <2> QED BY <1>2, <1>3, <2>2
<1>5. g = [n \in 0..Len(l) |->
             IF n = 0 THEN <<>> ELSE IF l[n] \in S THEN Append(g[n - 1], l[n]) ELSE g[n - 1]]
  <2>1. ASSUME NEW n \in 0..Len(l)
        PROVE  g[n] = IF n = 0 THEN <<>>
                      ELSE IF l[n] \in S THEN Append(g[n - 1], l[n]) ELSE g[n - 1]
    <3>1. n = 0 \/ n \in 1..Len(l)
      BY <1>0
    <3> QED BY <1>3, <1>4, <3>1
  <2> QED BY <2>1
<1>6. f = [n \in 0..Len(l) |->
             IF n = 0 THEN <<>> ELSE IF l[n] \in S THEN Append(f[n - 1], l[n]) ELSE f[n - 1]]
  BY <1>5
<1>7. Keep(l, S) = f[Len(l)]
  BY DEF Keep
<1> HIDE DEF f
<1>8. f[0] = <<>> /\ \A k \in 1..Len(l) : f[k] = IF l[k] \in S THEN Append(f[k - 1], l[k]) ELSE f[k - 1]
  <2>1. 0 \in 0..Len(l) /\ 1..Len(l) \subseteq 0..Len(l)
    BY <1>0
  <2>2. f[0] = <<>>
    BY <1>6, <2>1
  <2>3. ASSUME NEW k \in 1..Len(l)
        PROVE  f[k] = IF l[k] \in S THEN Append(f[k - 1], l[k]) ELSE f[k - 1]
    <3>1. k \in 0..Len(l) /\ k # 0
      BY <1>0
    <3> QED BY <1>6, <3>1
  <2> QED BY <2>2, <2>3
<1>9. 0..Len(l) \subseteq { n \in 0..Len(l) : f[n] = g[n] }
  <2> DEFINE Q == { n \in 0..Len(l) : f[n] = g[n] }
  <2>1. 0 \in Q
    BY <1>0, <1>3, <1>8
  <2>2. ASSUME NEW k \in 1..Len(l), k - 1 \in Q
        PROVE  k \in Q
    BY <1>0, <1>4, <1>8, <2>2
  <2> HIDE DEF Q
  <2>3. 0..Len(l) \subseteq Q
    BY <1>0, <2>1, <2>2, UpToInduction
  <2> QED BY <2>3 DEF Q
<1>10. Keep(l, S) = g[Len(l)]
  BY <1>0, <1>7, <1>9
<1>11. KeptOf(l, S, g)
  BY <1>3, <1>4 DEF KeptOf
<1> QED BY <1>10, <1>11

\* Induction over sequences: from each one to those with one element more.
LEMMA SeqSetInduction ==
  ASSUME NEW T, NEW P, <<>> \in P,
         \A s \in Seq(T) : s \in P => \A x \in T : Append(s, x) \in P
  PROVE  Seq(T) \subseteq P
<1> DEFINE N == { n \in Nat : \A s \in Seq(T) : Len(s) = n => s \in P }
<1>1. 0 \in N
  <2>1. ASSUME NEW s \in Seq(T), Len(s) = 0
        PROVE  s = <<>>
    BY <2>1
  <2> QED BY <2>1
<1>2. ASSUME NEW n \in Nat, n \in N
      PROVE  n + 1 \in N
  <2> SUFFICES ASSUME NEW s \in Seq(T), Len(s) = n + 1
               PROVE  s \in P
    OBVIOUS
  <2> DEFINE f == SubSeq(s, 1, n)
             x == s[n + 1]
  <2>1. f \in Seq(T) /\ Len(f) = n /\ x \in T /\ \A i \in 1..n : f[i] = s[i]
    OBVIOUS
  <2>2. s = Append(f, x)
    <3> HIDE DEF f
    <3>1. Append(f, x) \in Seq(T) /\ Len(Append(f, x)) = n + 1
      BY <2>1
    <3>2. \A i \in 1..(n + 1) : Append(f, x)[i] = s[i]
      BY <2>1
    <3> QED BY <3>1, <3>2, SeqEqual
  <2> HIDE DEF f, x
  <2>3. f \in P
    BY <1>2, <2>1
  <2> QED BY <2>1, <2>2, <2>3
<1> HIDE DEF N
<1>3. Nat \subseteq N
  BY <1>1, <1>2, NatSetInduction
<1>4. ASSUME NEW s \in Seq(T)
      PROVE  s \in P
  <2>1. Len(s) \in N
    BY <1>3
  <2> QED BY <2>1 DEF N
<1> QED BY <1>4

LEMMA AppendContains ==
  ASSUME NEW T, NEW l \in Seq(T), NEW x \in T
  PROVE  \A y : Contains(Append(l, x), y) <=> Contains(l, y) \/ y = x
<1> DEFINE n == Len(l)
           m == Append(l, x)
<1>1. /\ n \in Nat /\ m \in Seq(T) /\ Len(m) = n + 1 /\ m[n + 1] = x
      /\ \A i \in 1..n : m[i] = l[i]
  OBVIOUS
<1> HIDE DEF m, n
<1>2. ASSUME NEW y, Contains(m, y)
      PROVE  Contains(l, y) \/ y = x
  <2>1. PICK i \in 1..(n + 1) : m[i] = y
    BY <1>1, <1>2 DEF Contains
  <2>2. i \in 1..n \/ i = n + 1
    BY <1>1
  <2> QED BY <1>1, <2>1, <2>2 DEF Contains, n
<1>3. ASSUME NEW y, Contains(l, y)
      PROVE  Contains(m, y)
  <2>1. PICK i \in 1..n : l[i] = y
    BY <1>3 DEF Contains, n
  <2>2. i \in 1..(n + 1)
    BY <1>1
  <2> QED BY <1>1, <2>1, <2>2 DEF Contains
<1>4. Contains(m, x)
  <2>1. n + 1 \in 1..(n + 1)
    BY <1>1
  <2> QED BY <1>1, <2>1 DEF Contains
<1> QED BY <1>2, <1>3, <1>4 DEF m

LEMMA KeepEmpty ==
  ASSUME NEW S
  PROVE  Keep(<<>>, S) = <<>>
<1>1. <<>> \in Seq({}) /\ Len(<<>>) = 0
  OBVIOUS
<1>2. PICK kept \in [0..Len(<<>>) -> Seq({})] : KeptOf(<<>>, S, kept) /\ Keep(<<>>, S) = kept[Len(<<>>)]
  BY <1>1, KeepUnfolds
<1> QED BY <1>1, <1>2 DEF KeptOf

LEMMA KeepAppend ==
  ASSUME NEW T, NEW l \in Seq(T), NEW x \in T, NEW S
  PROVE  Keep(Append(l, x), S) = IF x \in S THEN Append(Keep(l, S), x) ELSE Keep(l, S)
<1> DEFINE n == Len(l)
           m == Append(l, x)
<1>1. /\ n \in Nat /\ m \in Seq(T) /\ Len(m) = n + 1 /\ m[n + 1] = x
      /\ \A i \in 1..n : m[i] = l[i]
  OBVIOUS
<1> HIDE DEF m
<1>2. PICK f \in [0..Len(l) -> Seq(T)] : KeptOf(l, S, f) /\ Keep(l, S) = f[Len(l)]
  BY KeepUnfolds
<1>3. PICK g \in [0..Len(m) -> Seq(T)] : KeptOf(m, S, g) /\ Keep(m, S) = g[Len(m)]
  BY <1>1, KeepUnfolds
<1> DEFINE Q == { i \in 0..n : f[i] = g[i] }
<1>4. 0 \in Q
  BY <1>1, <1>2, <1>3 DEF KeptOf
<1>5. ASSUME NEW i \in 1..n, i - 1 \in Q
      PROVE  i \in Q
  <2>1. i \in 1..Len(m) /\ i \in 0..n
    BY <1>1
  <2>2. g[i] = IF m[i] \in S THEN Append(g[i - 1], m[i]) ELSE g[i - 1]
    BY <1>3, <2>1 DEF KeptOf
  <2>3. f[i] = IF l[i] \in S THEN Append(f[i - 1], l[i]) ELSE f[i - 1]
    BY <1>2 DEF KeptOf
  <2>4. f[i - 1] = g[i - 1] /\ m[i] = l[i]
    BY <1>1, <1>5
  <2>5. f[i] = g[i]
    BY <2>2, <2>3, <2>4
  <2> QED BY <2>1, <2>5
<1> HIDE DEF Q
<1>6. 0..n \subseteq Q
  BY <1>1, <1>4, <1>5, UpToInduction
<1>7. f[n] = g[n]
  BY <1>1, <1>6 DEF Q
<1>8. n + 1 \in 1..Len(m) /\ (n + 1) - 1 = n
  BY <1>1
<1>9. g[n + 1] = IF m[n + 1] \in S THEN Append(g[n], m[n + 1]) ELSE g[n]
  BY <1>3, <1>8 DEF KeptOf
<1> QED BY <1>1, <1>2, <1>3, <1>7, <1>9 DEF m

\* What is kept is in the list and in S; it stays in its order, once.
Once(l) == \A i, j \in 1..Len(l) : l[i] = l[j] => i = j

LEMMA KeepElements ==
  ASSUME NEW T, NEW l \in Seq(T), NEW S
  PROVE  /\ Keep(l, S) \in Seq(T) /\ Len(Keep(l, S)) <= Len(l)
         /\ \A x : Contains(Keep(l, S), x) <=> Contains(l, x) /\ x \in S
<1> DEFINE P == { s \in Seq(T) : /\ Keep(s, S) \in Seq(T) /\ Len(Keep(s, S)) <= Len(s)
                                 /\ \A x : Contains(Keep(s, S), x) <=> Contains(s, x) /\ x \in S }
<1>1. <<>> \in P
  <2>1. <<>> \in Seq(T) /\ Len(<<>>) = 0 /\ Keep(<<>>, S) = <<>>
    BY KeepEmpty
  <2>2. \A x : ~Contains(<<>>, x)
    BY <2>1 DEF Contains
  <2>3. Keep(<<>>, S) \in Seq(T) /\ Len(Keep(<<>>, S)) <= Len(<<>>)
    <3> DEFINE z == <<>>
               n == Len(z)
    <3>1. z \in Seq(T) /\ n <= n /\ Keep(z, S) = z
      BY <2>1
    <3> HIDE DEF z
    <3> QED BY <3>1 DEF z
  <2>4. \A x : Contains(Keep(<<>>, S), x) <=> Contains(<<>>, x) /\ x \in S
    BY <2>1, <2>2
  <2> QED BY <2>1, <2>3, <2>4
<1>2. ASSUME NEW s \in Seq(T), s \in P, NEW x \in T
      PROVE  Append(s, x) \in P
  <2>1. CASE x \in S
    <3>1. Keep(Append(s, x), S) = Append(Keep(s, S), x)
      BY <2>1, KeepAppend
    <3>2. \A y : Contains(Append(Keep(s, S), x), y) <=> Contains(Keep(s, S), y) \/ y = x
      BY <1>2, AppendContains
    <3>3. \A y : Contains(Append(s, x), y) <=> Contains(s, y) \/ y = x
      BY AppendContains
    <3>4. Len(Append(Keep(s, S), x)) <= Len(Append(s, x))
      BY <1>2
    <3>5. Append(Keep(s, S), x) \in Seq(T) /\ Append(s, x) \in Seq(T)
      BY <1>2
    <3> QED BY <1>2, <2>1, <3>1, <3>2, <3>3, <3>4, <3>5
  <2>2. CASE x \notin S
    <3>1. Keep(Append(s, x), S) = Keep(s, S)
      BY <2>2, KeepAppend
    <3>2. \A y : Contains(Append(s, x), y) <=> Contains(s, y) \/ y = x
      BY AppendContains
    <3>3. Len(Keep(s, S)) <= Len(Append(s, x))
      BY <1>2
    <3> QED BY <1>2, <2>2, <3>1, <3>2, <3>3
  <2> QED BY <2>1, <2>2
<1> HIDE DEF P
<1>3. l \in P
  BY <1>1, <1>2, SeqSetInduction
<1> QED BY <1>3 DEF P

LEMMA OnceAppend ==
  ASSUME NEW T, NEW l \in Seq(T), NEW x \in T, Once(l), ~Contains(l, x)
  PROVE  Once(Append(l, x))
<1> DEFINE n == Len(l)
           m == Append(l, x)
<1>1. /\ n \in Nat /\ m \in Seq(T) /\ Len(m) = n + 1 /\ m[n + 1] = x
      /\ \A i \in 1..n : m[i] = l[i]
  OBVIOUS
<1> HIDE DEF m
<1>2. \A i \in 1..n : m[i] # x
  BY <1>1 DEF Contains
<1>3. \A i, j \in 1..n : m[i] = m[j] => i = j
  BY <1>1 DEF Once
<1> HIDE DEF n
<1>4. ASSUME NEW i \in 1..(n + 1), NEW j \in 1..(n + 1), m[i] = m[j]
      PROVE  i = j
  <2>1. (i \in 1..n \/ i = n + 1) /\ (j \in 1..n \/ j = n + 1)
    BY <1>1
  <2> QED BY <1>1, <1>2, <1>3, <1>4, <2>1
<1> QED BY <1>1, <1>4 DEF Once, m

\* The other way round.
LEMMA AppendOnce ==
  ASSUME NEW T, NEW l \in Seq(T), NEW x \in T, Once(Append(l, x))
  PROVE  Once(l) /\ ~Contains(l, x)
<1> DEFINE n == Len(l)
           m == Append(l, x)
<1>1. /\ n \in Nat /\ m \in Seq(T) /\ Len(m) = n + 1 /\ m[n + 1] = x
      /\ \A i \in 1..n : m[i] = l[i]
  OBVIOUS
<1>0. Once(m)
  OBVIOUS
<1> HIDE DEF m, n
<1>2. ASSUME NEW i \in 1..n, NEW j \in 1..n, l[i] = l[j]
      PROVE  i = j
  <2>1. i \in 1..(n + 1) /\ j \in 1..(n + 1)
    BY <1>1
  <2> QED BY <1>0, <1>1, <1>2, <2>1 DEF Once
<1>3. ASSUME NEW i \in 1..n
      PROVE  l[i] # x
  <2>1. i \in 1..(n + 1) /\ n + 1 \in 1..(n + 1) /\ i # n + 1
    BY <1>1
  <2>2. m[i] # m[n + 1]
    BY <1>0, <1>1, <2>1 DEF Once
  <2> QED BY <1>1, <2>2
<1> QED BY <1>2, <1>3 DEF Once, Contains, n

LEMMA KeepOnce ==
  ASSUME NEW T, NEW l \in Seq(T), NEW S, Once(l)
  PROVE  Once(Keep(l, S))
<1> DEFINE P == { s \in Seq(T) : Once(s) => Once(Keep(s, S)) }
<1>1. <<>> \in P
  BY KeepEmpty DEF Once
<1>2. ASSUME NEW s \in Seq(T), s \in P, NEW x \in T
      PROVE  Append(s, x) \in P
  <2> SUFFICES ASSUME Once(Append(s, x)) PROVE Once(Keep(Append(s, x), S))
    OBVIOUS
  <2>1. Once(s) /\ ~Contains(s, x)
    BY AppendOnce
  <2>2. Once(Keep(s, S)) /\ Keep(s, S) \in Seq(T)
    BY <1>2, <2>1, KeepElements
  <2>3. ~Contains(Keep(s, S), x)
    BY <2>1, KeepElements
  <2>4. Once(Append(Keep(s, S), x))
    BY <2>2, <2>3, OnceAppend
  <2> QED BY <2>2, <2>4, KeepAppend
<1> HIDE DEF P
<1>3. l \in P
  BY <1>1, <1>2, SeqSetInduction
<1> QED BY <1>3 DEF P

\* Only what is said of the elements of the list matters.
LEMMA KeepSame ==
  ASSUME NEW T, NEW l \in Seq(T), NEW S, NEW R, \A x \in T : x \in S <=> x \in R
  PROVE  Keep(l, S) = Keep(l, R)
<1> DEFINE P == { s \in Seq(T) : Keep(s, S) = Keep(s, R) }
<1>1. <<>> \in P
  BY KeepEmpty
<1>2. ASSUME NEW s \in Seq(T), s \in P, NEW x \in T
      PROVE  Append(s, x) \in P
  <2>1. Keep(s, S) = Keep(s, R) /\ (x \in S <=> x \in R)
    BY <1>2
  <2>2. Keep(Append(s, x), S) = Keep(Append(s, x), R)
    <3>1. Keep(Append(s, x), S) = IF x \in S THEN Append(Keep(s, S), x) ELSE Keep(s, S)
      BY KeepAppend
    <3>2. Keep(Append(s, x), R) = IF x \in R THEN Append(Keep(s, R), x) ELSE Keep(s, R)
      BY KeepAppend
    <3> QED BY <2>1, <3>1, <3>2
  <2> QED BY <2>2
<1> HIDE DEF P
<1>3. l \in P
  BY <1>1, <1>2, SeqSetInduction
<1> QED BY <1>3 DEF P

\* Each list is one of its own elements.
LEMMA OwnElements ==
  ASSUME NEW T, NEW l \in Seq(T)
  PROVE  l \in Seq({ x \in T : Contains(l, x) })
<1> DEFINE U == { x \in T : Contains(l, x) }
<1>1. \A i \in 1..Len(l) : l[i] \in U
  BY DEF Contains
<1> HIDE DEF U
<1>2. l \in Seq(U)
  BY <1>1, SeqDef
<1> QED BY <1>2 DEF U

\* A list whose elements are all in S is kept as it is.
LEMMA KeepAll ==
  ASSUME NEW T, NEW l \in Seq(T), NEW S, \A x : Contains(l, x) => x \in S
  PROVE  Keep(l, S) = l
<1> DEFINE U == { x \in T : Contains(l, x) }
           P == { s \in Seq(U) : Keep(s, S) = s }
<1>0. l \in Seq(U) /\ U \subseteq S
  BY OwnElements
<1> HIDE DEF U
<1>1. <<>> \in P
  BY KeepEmpty
<1>2. ASSUME NEW s \in Seq(U), s \in P, NEW x \in U
      PROVE  Append(s, x) \in P
  <2>1. Keep(s, S) = s /\ x \in S
    BY <1>0, <1>2
  <2>2. Keep(Append(s, x), S) = Append(s, x)
    BY <2>1, KeepAppend
  <2> QED BY <2>2
<1> HIDE DEF P
<1>3. l \in P
  BY <1>0, <1>1, <1>2, SeqSetInduction
<1> QED BY <1>3 DEF P

LEMMA KeepKeep ==
  ASSUME NEW T, NEW l \in Seq(T), NEW S, NEW R
  PROVE  Keep(Keep(l, S), R) = Keep(l, S \cap R)
<1> DEFINE P == { s \in Seq(T) : Keep(Keep(s, S), R) = Keep(s, S \cap R) }
<1>1. <<>> \in P
  BY KeepEmpty
<1>2. ASSUME NEW s \in Seq(T), s \in P, NEW x \in T
      PROVE  Append(s, x) \in P
  <2>1. Keep(Keep(s, S), R) = Keep(s, S \cap R)
    BY <1>2
  <2>0. Keep(s, S) \in Seq(T)
    BY KeepElements
  <2>2. CASE x \in S
    <3>1. Keep(Append(s, x), S) = Append(Keep(s, S), x)
      BY <2>2, KeepAppend
    <3>2. Keep(Append(Keep(s, S), x), R) = IF x \in R THEN Append(Keep(Keep(s, S), R), x) ELSE Keep(Keep(s, S), R)
      BY <2>0, KeepAppend
    <3>3. Keep(Append(s, x), S \cap R) = IF x \in S \cap R THEN Append(Keep(s, S \cap R), x) ELSE Keep(s, S \cap R)
      BY KeepAppend
    <3>4. Keep(Keep(Append(s, x), S), R) = Keep(Append(s, x), S \cap R)
      BY <2>1, <2>2, <3>1, <3>2, <3>3
    <3> QED BY <3>4
  <2>3. CASE x \notin S
    <3>1. Keep(Append(s, x), S) = Keep(s, S)
      BY <2>3, KeepAppend
    <3>3. Keep(Append(s, x), S \cap R) = IF x \in S \cap R THEN Append(Keep(s, S \cap R), x) ELSE Keep(s, S \cap R)
      BY KeepAppend
    <3>4. Keep(Keep(Append(s, x), S), R) = Keep(Append(s, x), S \cap R)
      BY <2>1, <2>3, <3>1, <3>3
    <3> QED BY <3>4
  <2> QED BY <2>2, <2>3
<1> HIDE DEF P
<1>3. l \in P
  BY <1>1, <1>2, SeqSetInduction
<1> QED BY <1>3 DEF P

\* A sequence, another one put behind it.
LEMMA Joined ==
  ASSUME NEW S, NEW a \in Seq(S), NEW b \in Seq(S)
  PROVE  /\ a \o b \in Seq(S) /\ Len(a \o b) = Len(a) + Len(b)
         /\ \A i \in 1..Len(a) : (a \o b)[i] = a[i]
         /\ \A i \in (Len(a) + 1)..(Len(a) + Len(b)) : (a \o b)[i] = b[i - Len(a)]
<1>1. /\ a \o b \in Seq(S) /\ Len(a \o b) = Len(a) + Len(b)
      /\ \A i \in 1..(Len(a) + Len(b)) :
           (a \o b)[i] = IF i <= Len(a) THEN a[i] ELSE b[i - Len(a)]
  BY ConcatProperties
<1>2. Len(a) \in Nat /\ Len(b) \in Nat
  OBVIOUS
<1>3. ASSUME NEW i \in 1..Len(a)
      PROVE  (a \o b)[i] = a[i]
  BY <1>1, <1>2
<1>4. ASSUME NEW i \in (Len(a) + 1)..(Len(a) + Len(b))
      PROVE  (a \o b)[i] = b[i - Len(a)]
  BY <1>1, <1>2
<1> QED BY <1>1, <1>3, <1>4

\* A sequence without one of its elements.
LEMMA RemoveElements ==
  ASSUME NEW S, NEW ch \in Seq(S), NEW pos \in 1..Len(ch)
  PROVE  /\ RemoveAt(ch, pos) \in Seq(S) /\ Len(RemoveAt(ch, pos)) = Len(ch) - 1
         /\ \A i \in 1..(pos - 1) : RemoveAt(ch, pos)[i] = ch[i]
         /\ \A i \in pos..(Len(ch) - 1) : RemoveAt(ch, pos)[i] = ch[i + 1]
<1> DEFINE a == SubSeq(ch, 1, pos - 1)
           b == SubSeq(ch, pos + 1, Len(ch))
<1>0. Len(ch) \in Nat /\ pos \in Nat /\ pos <= Len(ch) /\ pos >= 1
  OBVIOUS
<1>1. a \in Seq(S) /\ Len(a) = pos - 1 /\ \A i \in 1..(pos - 1) : a[i] = ch[i]
  BY <1>0
<1>2. /\ b \in Seq(S) /\ Len(b) = Len(ch) - pos
      /\ \A i \in 1..(Len(ch) - pos) : b[i] = ch[pos + i]
  BY <1>0
<1>3. RemoveAt(ch, pos) = a \o b
  BY DEF RemoveAt
<1> HIDE DEF a, b
<1>4. /\ a \o b \in Seq(S) /\ Len(a \o b) = Len(ch) - 1
      /\ \A i \in 1..(pos - 1) : (a \o b)[i] = a[i]
      /\ \A i \in pos..(Len(ch) - 1) : (a \o b)[i] = b[i - (pos - 1)]
  <2>1. /\ a \o b \in Seq(S) /\ Len(a \o b) = Len(a) + Len(b)
        /\ \A i \in 1..Len(a) : (a \o b)[i] = a[i]
        /\ \A i \in (Len(a) + 1)..(Len(a) + Len(b)) : (a \o b)[i] = b[i - Len(a)]
    BY <1>1, <1>2, Joined
  <2>2. Len(a) + Len(b) = Len(ch) - 1 /\ Len(a) + 1 = pos
    BY <1>0, <1>1, <1>2
  <2> QED BY <1>1, <2>1, <2>2
<1>5. ASSUME NEW i \in pos..(Len(ch) - 1)
      PROVE  (a \o b)[i] = ch[i + 1]
  <2>1. i - (pos - 1) \in 1..(Len(ch) - pos) /\ pos + (i - (pos - 1)) = i + 1
    BY <1>0
  <2> QED BY <1>2, <1>4, <2>1
<1>6. ASSUME NEW i \in 1..(pos - 1)
      PROVE  (a \o b)[i] = ch[i]
  BY <1>1, <1>4
<1> QED BY <1>3, <1>4, <1>5, <1>6

LEMMA RemoveListed ==
  ASSUME NEW S, NEW ch \in Seq(S), NEW pos \in 1..Len(ch), Once(ch)
  PROVE  /\ RemoveAt(ch, pos) \in Seq(S) /\ Once(RemoveAt(ch, pos))
         /\ \A x : Contains(RemoveAt(ch, pos), x) <=> Contains(ch, x) /\ x # ch[pos]
<1> DEFINE d == RemoveAt(ch, pos)
<1>0. Len(ch) \in Nat /\ pos \in Nat /\ pos <= Len(ch) /\ pos >= 1
  OBVIOUS
<1>1. /\ d \in Seq(S) /\ Len(d) = Len(ch) - 1
      /\ \A i \in 1..(pos - 1) : d[i] = ch[i]
      /\ \A i \in pos..(Len(ch) - 1) : d[i] = ch[i + 1]
  BY RemoveElements
<1> HIDE DEF d
<1>2. ASSUME NEW i \in 1..(Len(ch) - 1)
      PROVE  \/ i < pos /\ i \in 1..Len(ch) /\ d[i] = ch[i]
             \/ i >= pos /\ i + 1 \in 1..Len(ch) /\ d[i] = ch[i + 1]
  <2>1. CASE i < pos
    <3>1. i \in 1..(pos - 1) /\ i \in 1..Len(ch)
      BY <1>0, <2>1
    <3> QED BY <1>1, <2>1, <3>1
  <2>2. CASE i >= pos
    <3>1. i \in pos..(Len(ch) - 1) /\ i + 1 \in 1..Len(ch)
      BY <1>0, <2>2
    <3> QED BY <1>1, <2>2, <3>1
  <2> QED BY <1>0, <2>1, <2>2
<1>3. Once(d)
  <2> SUFFICES ASSUME NEW i \in 1..(Len(ch) - 1), NEW j \in 1..(Len(ch) - 1), d[i] = d[j]
               PROVE  i = j
    BY <1>1 DEF Once
  <2>1. PICK k \in {i, i + 1} : k \in 1..Len(ch) /\ d[i] = ch[k] /\ (k = i <=> i < pos)
    BY <1>0, <1>2
  <2>2. PICK l \in {j, j + 1} : l \in 1..Len(ch) /\ d[j] = ch[l] /\ (l = j <=> j < pos)
    BY <1>0, <1>2
  <2>3. k = l
    BY <2>1, <2>2 DEF Once
  <2> QED BY <1>0, <2>1, <2>2, <2>3
<1>4. ASSUME NEW x, Contains(d, x)
      PROVE  Contains(ch, x) /\ x # ch[pos]
  <2>1. PICK i \in 1..(Len(ch) - 1) : d[i] = x
    BY <1>1, <1>4 DEF Contains
  <2>2. PICK k \in {i, i + 1} : k \in 1..Len(ch) /\ d[i] = ch[k] /\ k # pos
    BY <1>0, <1>2
  <2> QED BY <2>1, <2>2 DEF Contains, Once
<1>5. ASSUME NEW x, Contains(ch, x), x # ch[pos]
      PROVE  Contains(d, x)
  <2>1. PICK i \in 1..Len(ch) : ch[i] = x
    BY <1>5 DEF Contains
  <2>2. CASE i < pos
    <3>1. i \in 1..(pos - 1) /\ i \in 1..(Len(ch) - 1)
      BY <1>0, <2>2
    <3> QED BY <1>1, <2>1, <3>1 DEF Contains
  <2>3. CASE i > pos
    <3>1. i - 1 \in pos..(Len(ch) - 1) /\ (i - 1) + 1 = i /\ i - 1 \in 1..(Len(ch) - 1)
      BY <1>0, <2>3
    <3>2. d[i - 1] = x
      BY <1>1, <2>1, <3>1
    <3> QED BY <1>1, <3>1, <3>2 DEF Contains
  <2> QED BY <1>0, <1>5, <2>1, <2>2, <2>3
<1> QED BY <1>1, <1>3, <1>4, <1>5 DEF d
-----------------------------------------------------------------------------
(* What holds of a queue between two steps of the code.                     *)

\* The first n elements stay if they are all kept.
LEMMA KeepPrefix ==
  ASSUME NEW T, NEW l \in Seq(T), NEW S, NEW n \in 0..Len(l), \A i \in 1..n : l[i] \in S
  PROVE  n <= Len(Keep(l, S)) /\ \A i \in 1..n : Keep(l, S)[i] = l[i]
<1> DEFINE Same(s, m) == m <= Len(Keep(s, S)) /\ \A i \in 1..m : Keep(s, S)[i] = s[i]
           P == { s \in Seq(T) : \A m \in 0..Len(s) : (\A i \in 1..m : s[i] \in S) => Same(s, m) }
<1>1. <<>> \in P
  <2>1. <<>> \in Seq(T) /\ Len(<<>>) = 0 /\ Keep(<<>>, S) = <<>>
    BY KeepEmpty
  <2>2. ASSUME NEW m \in 0..Len(<<>>)
        PROVE  Same(<<>>, m)
    <3>1. m = 0 /\ 1..m = {}
      BY <2>1
    <3> QED BY <2>1, <3>1
  <2> HIDE DEF Same
  <2> QED BY <2>1, <2>2
<1>2. ASSUME NEW s \in Seq(T), s \in P, NEW x \in T
      PROVE  Append(s, x) \in P
  <2> DEFINE k == Keep(s, S)
             a == Append(s, x)
             ka == Keep(a, S)
             N == Len(s)
  <2>1. N \in Nat /\ a \in Seq(T) /\ Len(a) = N + 1 /\ a[N + 1] = x /\ \A i \in 1..N : a[i] = s[i]
    OBVIOUS
  <2>2. k \in Seq(T) /\ Len(k) \in Nat
    BY KeepElements
  <2>3. ka = IF x \in S THEN Append(k, x) ELSE k
    BY KeepAppend
  <2>4. Len(k) <= Len(ka) /\ \A i \in 1..Len(k) : ka[i] = k[i]
    <3> HIDE DEF k, ka, a
    <3>1. CASE x \in S
      BY <2>2, <2>3, <3>1
    <3>2. CASE x \notin S
      BY <2>2, <2>3, <3>2
    <3> QED BY <3>1, <3>2
  <2>5. ka \in Seq(T) /\ Len(ka) \in Nat
    <3> HIDE DEF a
    <3>1. Keep(a, S) \in Seq(T)
      BY <2>1, KeepElements
    <3> QED BY <3>1
  <2>6. \A m \in 0..N : (\A i \in 1..m : s[i] \in S) => m <= Len(k) /\ \A i \in 1..m : k[i] = s[i]
    BY <1>2
  <2> HIDE DEF k, ka, a, N
  <2>7. ASSUME NEW m \in 0..(N + 1), \A i \in 1..m : a[i] \in S
        PROVE  m <= Len(ka) /\ \A i \in 1..m : ka[i] = a[i]
    <3>1. CASE m <= N
      <4>1. m \in 0..N /\ \A i \in 1..m : i \in 1..N
        BY <2>1, <3>1
      <4>2. \A i \in 1..m : s[i] \in S
        BY <2>1, <2>7, <4>1
      <4>3. m <= Len(k) /\ \A i \in 1..m : k[i] = s[i]
        BY <2>6, <4>1, <4>2
      <4>4. \A i \in 1..m : i \in 1..Len(k)
        BY <2>1, <2>2, <4>1, <4>3
      <4>5. m <= Len(ka)
        BY <2>2, <2>4, <2>5, <4>1, <4>3
      <4> QED BY <2>1, <2>4, <4>1, <4>3, <4>4, <4>5
    <3>2. CASE m = N + 1
      <4>0. N + 1 \in 1..m /\ \A i \in 1..N : i \in 1..m
        BY <2>1, <3>2
      <4>1. x \in S /\ \A i \in 1..N : s[i] \in S
        BY <2>1, <2>7, <4>0
      <4>2. N \in 0..N
        BY <2>1
      <4>3. N <= Len(k) /\ \A i \in 1..N : k[i] = s[i]
        BY <2>6, <4>1, <4>2
      <4>4. Len(k) <= N
        BY KeepElements DEF k, N
      <4>5. Len(k) = N
        BY <2>1, <2>2, <4>3, <4>4
      <4>6. ka = Append(k, x)
        BY <2>3, <4>1
      <4>7. Len(ka) = N + 1 /\ ka[N + 1] = x
        <5>1. Len(Append(k, x)) = Len(k) + 1 /\ Append(k, x)[Len(k) + 1] = x
          BY <2>2
        <5> QED BY <4>5, <4>6, <5>1
      <4>8. ASSUME NEW i \in 1..m
            PROVE  ka[i] = a[i]
        <5>1. i \in 1..N \/ i = N + 1
          BY <2>1, <3>2
        <5> QED BY <2>1, <2>4, <4>3, <4>5, <4>7, <5>1
      <4> QED BY <2>1, <3>2, <4>7, <4>8
    <3> QED BY <2>1, <3>1, <3>2
  <2>8. \A m \in 0..Len(a) : (\A i \in 1..m : a[i] \in S) => Same(a, m)
    BY <2>1, <2>7 DEF ka
  <2> HIDE DEF Same
  <2> QED BY <2>1, <2>8 DEF a
<1> HIDE DEF P
<1>3. l \in P
  BY <1>1, <1>2, SeqSetInduction
<1> QED BY <1>3 DEF P

\* A list without the element at position i.
LEMMA KeepBut ==
  ASSUME NEW T, NEW l \in Seq(T), NEW i \in 1..Len(l), Once(l)
  PROVE  Keep(l, T \ {l[i]}) = RemoveAt(l, i)
<1> DEFINE n == Len(l)
           a == SubSeq(l, 1, i - 1)
           S == T \ {l[i]}
           r == RemoveAt(l, i)
           P == { m \in 0..n : Keep(SubSeq(l, 1, m), S) = IF m < i THEN SubSeq(l, 1, m)
                                ELSE RemoveAt(SubSeq(l, 1, m), i) }
<1>0. n \in Nat /\ i \in Nat /\ 1 <= i /\ i <= n
  OBVIOUS
<1>1. 0 \in P
  <2>1. SubSeq(l, 1, 0) = <<>>
    OBVIOUS
  <2>2. Keep(<<>>, S) = <<>>
    BY KeepEmpty
  <2>3. 0 < i /\ 0 \in 0..n
    BY <1>0
  <2> QED BY <2>1, <2>2, <2>3
<1>2. ASSUME NEW m \in 1..n, m - 1 \in P
      PROVE  m \in P
  <2> DEFINE b == SubSeq(l, 1, m - 1)
             c == SubSeq(l, 1, m)
             x == l[m]
  <2>0. m \in Nat /\ 1 <= m /\ m <= n /\ m - 1 \in Nat
    BY <1>0
  <2>1. b \in Seq(T) /\ Len(b) = m - 1 /\ \A j \in 1..(m - 1) : b[j] = l[j]
    BY <1>0, <2>0
  <2>2. c \in Seq(T) /\ Len(c) = m /\ \A j \in 1..m : c[j] = l[j]
    BY <1>0, <2>0
  <2>3. x \in T
    OBVIOUS
  <2>4. Keep(b, S) = IF m - 1 < i THEN b ELSE RemoveAt(b, i)
    BY <1>2
  <2> HIDE DEF b, c, x
  <2>5. c = Append(b, x)
    <3>1. Append(b, x) \in Seq(T) /\ Len(Append(b, x)) = m
      BY <2>0, <2>1, <2>3
    <3>2. ASSUME NEW j \in 1..m
          PROVE  c[j] = Append(b, x)[j]
      <4>1. j \in 1..(m - 1) \/ j = m
        BY <2>0
      <4>2. c[j] = l[j]
        BY <2>2
      <4> QED BY <2>0, <2>1, <2>3, <4>1, <4>2 DEF x
    <3> QED BY <2>2, <3>1, <3>2, SeqEqual
  <2>6. x \in S <=> m # i
    BY <1>0, <2>0, <2>3 DEF Once, x
  <2> HIDE DEF S
  <2>7. Keep(c, S) = IF x \in S THEN Append(Keep(b, S), x) ELSE Keep(b, S)
    BY <2>1, <2>3, <2>5, KeepAppend
  <2>8. CASE m < i
    <3>1. Keep(b, S) = b /\ x \in S
      BY <1>0, <2>0, <2>3, <2>4, <2>6, <2>8
    <3>2. Keep(c, S) = c
      BY <2>5, <2>7, <3>1
    <3> QED BY <1>0, <2>0, <2>8, <3>2 DEF c
  <2>9. CASE m = i
    <3>1. Keep(b, S) = b /\ x \notin S
      BY <1>0, <2>0, <2>3, <2>4, <2>6, <2>9
    <3>2. Keep(c, S) = b
      BY <2>7, <3>1
    <3>3. /\ RemoveAt(c, i) \in Seq(T) /\ Len(RemoveAt(c, i)) = Len(c) - 1
          /\ \A j \in 1..(i - 1) : RemoveAt(c, i)[j] = c[j]
      <4>1. i \in 1..Len(c)
        BY <1>0, <2>0, <2>2, <2>9
      <4> QED BY <2>2, <4>1, RemoveElements
    <3>4. RemoveAt(c, i) = b
      BY <1>0, <2>0, <2>1, <2>2, <2>9, <3>3, SeqEqual
    <3> QED BY <2>9, <3>2, <3>4, <1>0 DEF c
  <2>10. CASE m > i
    <3>1. Keep(b, S) = RemoveAt(b, i) /\ x \in S
      BY <1>0, <2>0, <2>3, <2>4, <2>6, <2>10
    <3>2. Keep(c, S) = Append(RemoveAt(b, i), x)
      BY <2>7, <3>1
    <3> DEFINE rc == RemoveAt(c, i)
               rb == RemoveAt(b, i)
    <3>0. i \in 1..Len(c) /\ i \in 1..Len(b)
      BY <1>0, <2>0, <2>1, <2>2, <2>10
    <3>3. /\ rc \in Seq(T) /\ Len(rc) = m - 1
          /\ \A j \in 1..(i - 1) : rc[j] = c[j]
          /\ \A j \in i..(m - 1) : rc[j] = c[j + 1]
      BY <2>2, <3>0, RemoveElements
    <3>4. /\ rb \in Seq(T) /\ Len(rb) = m - 2
          /\ \A j \in 1..(i - 1) : rb[j] = b[j]
          /\ \A j \in i..(m - 2) : rb[j] = b[j + 1]
      <4>1. Len(b) - 1 = m - 2
        BY <2>0, <2>1
      <4> QED BY <2>1, <3>0, <4>1, RemoveElements
    <3> HIDE DEF rc, rb
    <3>5. /\ Append(rb, x) \in Seq(T) /\ Len(Append(rb, x)) = m - 1
          /\ \A j \in 1..(m - 2) : Append(rb, x)[j] = rb[j]
          /\ Append(rb, x)[m - 1] = x
      BY <1>0, <2>0, <2>3, <2>10, <3>4
    <3>6. ASSUME NEW j \in 1..(m - 1)
          PROVE  Append(rb, x)[j] = rc[j]
      <4>1. CASE j < i
        <5>1. j \in 1..(i - 1) /\ j \in 1..(m - 2) /\ j \in 1..(m - 1) /\ j \in 1..m
          BY <1>0, <2>0, <2>10, <4>1
        <5>2. Append(rb, x)[j] = rb[j] /\ rb[j] = b[j] /\ rc[j] = c[j]
          BY <3>3, <3>4, <3>5, <5>1
        <5>3. b[j] = l[j] /\ c[j] = l[j]
          BY <2>1, <2>2, <5>1
        <5> QED BY <5>2, <5>3
      <4>2. CASE j >= i /\ j < m - 1
        <5>1. /\ j \in i..(m - 1) /\ j \in i..(m - 2) /\ j \in 1..(m - 2)
              /\ j + 1 \in 1..(m - 1) /\ j + 1 \in 1..m
          BY <1>0, <2>0, <2>10, <4>2
        <5>2. Append(rb, x)[j] = rb[j] /\ rb[j] = b[j + 1] /\ rc[j] = c[j + 1]
          BY <3>3, <3>4, <3>5, <5>1
        <5>3. b[j + 1] = l[j + 1] /\ c[j + 1] = l[j + 1]
          BY <2>1, <2>2, <5>1
        <5> QED BY <5>2, <5>3
      <4>3. CASE j = m - 1
        <5>1. j \in i..(m - 1) /\ j + 1 = m /\ m \in 1..m
          BY <1>0, <2>0, <2>10, <4>3
        <5> QED BY <2>2, <3>3, <3>5, <4>3, <5>1 DEF x
      <4>4. j < i \/ (j >= i /\ j < m - 1) \/ j = m - 1
        BY <1>0, <2>0
      <4> QED BY <4>1, <4>2, <4>3, <4>4
    <3>7. Append(rb, x) = rc
      BY <3>3, <3>5, <3>6, SeqEqual
    <3>8. Keep(c, S) = RemoveAt(c, i)
      BY <3>2, <3>7 DEF rb, rc
    <3> QED BY <1>0, <2>0, <2>10, <3>8 DEF c
  <2> QED BY <1>0, <2>0, <2>8, <2>9, <2>10
<1> HIDE DEF P
<1>3. 0..n \subseteq P
  BY <1>0, <1>1, <1>2, UpToInduction
<1>4. n \in P
  BY <1>0, <1>3
<1>5. SubSeq(l, 1, n) = l
  BY <1>0, SeqEqual
<1>6. Keep(SubSeq(l, 1, n), S) = RemoveAt(SubSeq(l, 1, n), i)
  BY <1>0, <1>4 DEF P
<1> QED BY <1>5, <1>6

-----------------------------------------------------------------------------
(* The invariant.                                                          *)

Statuses == {"none", "live", "freed"}
Faults == {"freed", "tab", "row", "default"}
Labels == Names \union {"none"}
QueueIds == 0..MaxQueues
EntryIds == 0..MaxEntries
TrackIds == 0..MaxTracks
TrackStates == {"none", "run", "stopping", "over"}
TextRec == [len : Nat, shows : SUBSET Names]
QmRec == [lists : Seq(Queues), selected : Nat]
QueueRec == [st : Statuses, ents : Seq(Entries), cursor : EntryIds, cidx : Int, active : Int]
EntryRec == [st : Statuses, used : Int, q : Queues, name : Labels, trk : TrackIds]
TrackRec == [st : TrackStates, e : EntryIds]
GdRec ==
  [lists : Seq(Queues), selected : Queues, convert : QueueIds, filtered : QueueIds,
   len : Nat, text : TextRec, tabconv : BOOLEAN, playing : TrackIds]

\* The core's state, whatever happened.
CoreState ==
  [qm : QmRec, q : [Queues -> QueueRec], e : [Entries -> EntryRec], t : [Tracks -> TrackRec],
   gd : GdRec, made : QueueIds, ub : Faults \union {"none"}]

Active(s, t) == s.t[t].st \in {"run", "stopping"}

\* The lists but x that show e, and the tracks that play it.
ShownBy(s, e, x) == { q \in Queues \ {x} : s.q[q].st = "live" /\ Contains(Ents(s, q), e) }
PlayedBy(s, e) == { t \in Tracks : Active(s, t) /\ s.t[t].e = e }

\* The counters.  The running function holds a reference to each entry of H
\* and does not count the list x.
Counted(s, H, x) ==
  \A e \in Entries :
    /\ s.e[e].used = Cardinality(ShownBy(s, e, x)) + Cardinality(PlayedBy(s, e))
                     + (IF e \in H THEN 1 ELSE 0)
    /\ s.e[e].st = "live" <=> s.e[e].used # 0

TracksOk(s) ==
  /\ \A t \in Tracks : Active(s, t) => s.t[t].e # 0
  /\ \A e \in Entries : s.e[e].trk # 0 => Active(s, s.e[e].trk) /\ s.t[s.e[e].trk].e = e
  /\ s.gd.playing # 0 => Active(s, s.gd.playing)

ListsOk(s) ==
  \A q \in Queues : Once(Ents(s, q)) /\ (Ents(s, q) # <<>> => s.q[q].st = "live")

NamesOk(s) == \A e \in Entries : s.e[e].st # "none" => s.e[e].name \in Names

\* Each list but those of V shows its own entries.
OwnOk(s, V) ==
  \A q \in Queues \ V : \A e \in Entries : Contains(Ents(s, q), e) => s.e[e].q = q

FilterOk(s) ==
  s.gd.filtered # 0 =>
    \A e \in Entries : Contains(Ents(s, s.gd.filtered), e) => s.e[e].name \in s.gd.text.shows

TabsOk(s) ==
  /\ Once(s.qm.lists)
  /\ \A q \in Queues : Contains(s.qm.lists, q) <=> s.q[q].st = "live"
  /\ s.gd.lists = Keep(s.qm.lists, Queues \ {s.gd.filtered})
  /\ s.gd.filtered # 0 => s.q[s.gd.filtered].st = "live"
  /\ Contains(s.gd.lists, s.gd.selected)
  /\ s.gd.convert # 0 => Contains(s.gd.lists, s.gd.convert)
  /\ \E q \in Queues : Contains(s.gd.lists, q) /\ q # s.gd.convert
  /\ s.gd.tabconv <=> s.gd.convert # 0 /\ s.gd.convert = s.gd.selected

Sound(s) ==
  /\ Counted(s, {}, 0) /\ TracksOk(s) /\ ListsOk(s) /\ NamesOk(s)
  /\ OwnOk(s, {s.gd.filtered}) /\ FilterOk(s) /\ TabsOk(s)

\* What holds if the commands are given one at a time.
Home(s) ==
  \A e \in Entries :
    s.e[e].st = "live" => s.q[s.e[e].q].st = "live" /\ s.e[e].q # s.gd.filtered
DefaultOk(s) ==
  /\ s.qm.selected < Len(s.qm.lists)
  /\ \A i \in 1..(s.qm.selected + 1) : s.qm.lists[i] # s.gd.filtered

PlainFs == {"new", "close", "clear", "sort", "unfilter", "stop", "next", "save"}
RowFs == {"remove", "del", "next_list", "convert"}
AtMostTwo == { r \in SUBSET Nat : \E a, b \in Nat : r \subseteq {a, b} }
Commands ==
  [f : PlainFs, arg : {0}, what : SUBSET Entries]
    \union [f : {"select", "play"}, arg : Nat, what : SUBSET Entries]
    \union [f : {"filter"}, arg : Texts, what : SUBSET Entries]
    \union [f : {"add"}, arg : Names, what : SUBSET Entries]
    \union [f : RowFs, arg : AtMostTwo, what : SUBSET Entries]

\* The command finds what it is about.
Fitting(s, c) ==
  /\ c.f = "select" => c.arg \in 1..Len(s.gd.lists)
  /\ c.f \in RowFs => c.arg \subseteq 1..Len(Ents(s, ListIdVisible(s)))

SesRec ==
  [phase : {"up", "quits", "down"}, posts : Nat, restarts : Nat, fresh : BOOLEAN, saved : BOOLEAN,
   goal : Seq(Seq(Names)), calm : BOOLEAN, meant : SUBSET Entries,
   trashed : SUBSET (0..MaxEntries)]

GuiTypes ==
  /\ core \in CoreState /\ cmds \in Seq(Commands) /\ ses \in SesRec
  /\ disk \in [Queues -> Seq(Names) \union {NoFile}] /\ Fits(disk)

CalmInv ==
  ses.calm =>
    /\ core.ub = "none" /\ Home(core) /\ DefaultOk(core)
    /\ Len(cmds) <= (IF ses.phase = "up" THEN 1 ELSE 2)
    /\ Len(cmds) >= 1 => Fitting(core, cmds[1])
    /\ Len(cmds) = 2 => cmds[2].f = "save"

SavedInv ==
  /\ ses.saved => FilesRead(disk) = Len(ses.goal) /\ ses.goal # <<>>
                  /\ \A i \in 1..Len(ses.goal) : disk[i] = ses.goal[i]
  /\ ses.fresh => /\ ses.phase = "up" /\ cmds = <<>> /\ Contents(core) = ses.goal
                  /\ \A t \in Tracks : ~Active(core, t)
  /\ ses.phase = "down" => cmds = <<>>

GuiInv == GuiTypes /\ (core.ub = "none" => Sound(core)) /\ CalmInv /\ SavedInv

-----------------------------------------------------------------------------
(* What the functions change.                                              *)

LEMMA Bounds ==
  /\ MaxQueues \in Nat /\ MaxEntries \in Nat /\ MaxTracks \in Nat /\ MaxQueues > 0
  /\ QueueIds = Queues \union {0} /\ 0 \notin Queues /\ 1 \in Queues
  /\ EntryIds = Entries \union {0} /\ 0 \notin Entries
  /\ TrackIds = Tracks \union {0} /\ 0 \notin Tracks
<1>1. MaxQueues \in Nat /\ MaxEntries \in Nat /\ MaxTracks \in Nat /\ MaxQueues > 0
  BY GuiAssumption
<1> QED BY <1>1 DEF Queues, Entries, Tracks, QueueIds, EntryIds, TrackIds

LEMMA States ==
  /\ "none" \in Statuses /\ "live" \in Statuses /\ "freed" \in Statuses
  /\ "none" # "live" /\ "none" # "freed" /\ "live" # "freed"
  /\ "run" \in TrackStates /\ "stopping" \in TrackStates /\ "over" \in TrackStates
  /\ "none" \notin Faults /\ Names \subseteq Labels
BY DEF Statuses, TrackStates, Faults, Labels

\* The fields of an entry, of a queue and of a track.
LEMMA EntryFields ==
  ASSUME NEW r \in EntryRec
  PROVE  /\ r.st \in Statuses /\ r.used \in Int /\ r.q \in Queues /\ r.name \in Labels
         /\ r.trk \in TrackIds
         /\ \A v \in Statuses : [r EXCEPT !.st = v] \in EntryRec
         /\ \A v \in Int : [r EXCEPT !.used = v] \in EntryRec
         /\ \A v \in TrackIds : [r EXCEPT !.trk = v] \in EntryRec
BY DEF EntryRec

LEMMA QueueFields ==
  ASSUME NEW r \in QueueRec
  PROVE  /\ r.st \in Statuses /\ r.ents \in Seq(Entries) /\ r.cursor \in EntryIds
         /\ r.cidx \in Int /\ r.active \in Int
         /\ \A v \in Statuses : [r EXCEPT !.st = v] \in QueueRec
         /\ \A v \in Seq(Entries) : [r EXCEPT !.ents = v] \in QueueRec
         /\ \A v \in EntryIds : [r EXCEPT !.cursor = v] \in QueueRec
         /\ \A v \in Int : [r EXCEPT !.cidx = v] \in QueueRec
         /\ \A v \in Int : [r EXCEPT !.active = v] \in QueueRec
BY DEF QueueRec

LEMMA TrackFields ==
  ASSUME NEW r \in TrackRec
  PROVE  /\ r.st \in TrackStates /\ r.e \in EntryIds
         /\ \A v \in TrackStates : [r EXCEPT !.st = v] \in TrackRec
BY DEF TrackRec

\* The fields of the core's state.
LEMMA CoreFields ==
  ASSUME NEW s \in CoreState
  PROVE  /\ s.qm \in QmRec /\ s.q \in [Queues -> QueueRec] /\ s.e \in [Entries -> EntryRec]
         /\ s.t \in [Tracks -> TrackRec] /\ s.gd \in GdRec /\ s.made \in QueueIds
         /\ s.ub \in Faults \union {"none"}
         /\ \A v \in QmRec : [s EXCEPT !.qm = v] \in CoreState
         /\ \A v \in [Queues -> QueueRec] : [s EXCEPT !.q = v] \in CoreState
         /\ \A v \in [Entries -> EntryRec] : [s EXCEPT !.e = v] \in CoreState
         /\ \A v \in [Tracks -> TrackRec] : [s EXCEPT !.t = v] \in CoreState
         /\ \A v \in GdRec : [s EXCEPT !.gd = v] \in CoreState
         /\ \A v \in QueueIds : [s EXCEPT !.made = v] \in CoreState
BY DEF CoreState

\* Bad only says why.
LEMMA BadFields ==
  ASSUME NEW s \in CoreState, NEW why \in Faults
  PROVE  /\ Bad(s, why) \in CoreState /\ Bad(s, why).ub # "none"
         /\ Bad(s, why).qm = s.qm /\ Bad(s, why).q = s.q /\ Bad(s, why).e = s.e
         /\ Bad(s, why).t = s.t /\ Bad(s, why).gd = s.gd /\ Bad(s, why).made = s.made
BY DEF Bad, CoreState, Faults

\* qe_unref of entries: only the counters change, and what frees an entry.
LEMMA UnrefFields ==
  ASSUME NEW s \in CoreState, NEW es \in SUBSET Entries
  PROVE  /\ Unref(s, es) \in CoreState
         /\ Unref(s, es).qm = s.qm /\ Unref(s, es).gd = s.gd /\ Unref(s, es).t = s.t
         /\ Unref(s, es).made = s.made
         /\ \A q \in Queues : Unref(s, es).q[q].st = s.q[q].st /\ Ents(Unref(s, es), q) = Ents(s, q)
         /\ \A e \in Entries : /\ Unref(s, es).e[e].q = s.e[e].q
                               /\ Unref(s, es).e[e].name = s.e[e].name
                               /\ Unref(s, es).e[e].trk = s.e[e].trk
         /\ Unref(s, es).ub = "none" =>
              /\ s.ub = "none"
              /\ \A e \in Entries : e \notin es => Unref(s, es).e[e] = s.e[e]
              /\ \A e \in es : IF s.e[e].used <= 1
                               THEN Unref(s, es).e[e].used = 0 /\ Unref(s, es).e[e].st = "freed"
                               ELSE /\ Unref(s, es).e[e].used = s.e[e].used - 1
                                    /\ Unref(s, es).e[e].st = s.e[e].st
         /\ s.ub = "none" /\ (\A e \in es : s.q[s.e[e].q].st # "freed") => Unref(s, es).ub = "none"
<1> DEFINE gone == { e \in es : s.e[e].used <= 1 }
           bad == \E e \in gone : s.q[s.e[e].q].st = "freed"
           E == [e \in Entries |->
                  IF e \in gone THEN [s.e[e] EXCEPT !.used = 0, !.st = "freed"]
                  ELSE IF e \in es THEN [s.e[e] EXCEPT !.used = @ - 1] ELSE s.e[e]]
           Q == [q \in Queues |->
                  IF s.q[q].cursor \in gone THEN [s.q[q] EXCEPT !.cursor = 0] ELSE s.q[q]]
           u == Unref(s, es)
<1>1. CASE bad
  <2> DEFINE why == "freed"
  <2>0. u = Bad(s, why)
    BY <1>1 DEF Unref
  <2>1. u = Bad(s, why) /\ why \in Faults
    BY <2>0 DEF Faults
  <2> HIDE DEF u, why
  <2>2. /\ u \in CoreState /\ u.ub # "none" /\ u.qm = s.qm /\ u.q = s.q /\ u.e = s.e
        /\ u.t = s.t /\ u.gd = s.gd /\ u.made = s.made
    BY <2>1, BadFields
  <2>3. ~(\A e \in es : s.q[s.e[e].q].st # "freed")
    BY <1>1
  <2> QED BY <2>2, <2>3 DEF Ents, u
<1>2. CASE ~bad
  <2>1. u = [s EXCEPT !.e = E, !.q = Q]
    BY <1>2 DEF Unref
  <2>2. s.e \in [Entries -> EntryRec] /\ s.q \in [Queues -> QueueRec]
    BY DEF CoreState
  <2>3. E \in [Entries -> EntryRec]
    <3>1. ASSUME NEW e \in Entries
          PROVE  /\ s.e[e] \in EntryRec
                 /\ [s.e[e] EXCEPT !.used = 0, !.st = "freed"] \in EntryRec
                 /\ [s.e[e] EXCEPT !.used = @ - 1] \in EntryRec
      <4> DEFINE r == s.e[e]
      <4>1. r \in EntryRec
        BY <2>2
      <4> HIDE DEF r
      <4>2. [r EXCEPT !.used = 0, !.st = "freed"] \in EntryRec
        <5> DEFINE a == [r EXCEPT !.used = 0]
        <5>1. a \in EntryRec
          BY <4>1, EntryFields
        <5> HIDE DEF a
        <5>2. [a EXCEPT !.st = "freed"] \in EntryRec
          BY <5>1, States, EntryFields
        <5> QED BY <5>2 DEF a
      <4>3. [r EXCEPT !.used = @ - 1] \in EntryRec
        <5>1. r.used - 1 \in Int
          BY <4>1, EntryFields
        <5> QED BY <4>1, <5>1, EntryFields
      <4> QED BY <4>1, <4>2, <4>3 DEF r
    <3> QED BY <3>1
  <2>4. Q \in [Queues -> QueueRec]
    <3>1. ASSUME NEW q \in Queues
          PROVE  s.q[q] \in QueueRec /\ [s.q[q] EXCEPT !.cursor = 0] \in QueueRec
      BY <2>2, Bounds, QueueFields
    <3> QED BY <3>1
  <2>5. \A e \in Entries : /\ E[e].q = s.e[e].q /\ E[e].name = s.e[e].name /\ E[e].trk = s.e[e].trk
    BY <2>2 DEF EntryRec
  <2>6. \A q \in Queues : Q[q].st = s.q[q].st /\ Q[q].ents = s.q[q].ents
    BY <2>2 DEF QueueRec
  <2>7. /\ \A e \in Entries : e \notin es => E[e] = s.e[e]
        /\ \A e \in es : IF s.e[e].used <= 1 THEN E[e].used = 0 /\ E[e].st = "freed"
                         ELSE E[e].used = s.e[e].used - 1 /\ E[e].st = s.e[e].st
    BY <2>2 DEF EntryRec
  <2> HIDE DEF E, Q, u
  <2>8. /\ u \in CoreState /\ u.e = E /\ u.q = Q /\ u.qm = s.qm /\ u.t = s.t /\ u.gd = s.gd
        /\ u.made = s.made /\ u.ub = s.ub
    BY <2>1, <2>3, <2>4 DEF CoreState
  <2> QED BY <2>5, <2>6, <2>7, <2>8 DEF Ents, u
<1> QED BY <1>1, <1>2

\* The rest of the fields of a changed state.
LEMMA CoreChanges ==
  ASSUME NEW s \in CoreState
  PROVE  /\ \A v : LET u == [s EXCEPT !.qm = v]
                   IN u.qm = v /\ u.q = s.q /\ u.e = s.e /\ u.t = s.t /\ u.gd = s.gd
                      /\ u.made = s.made /\ u.ub = s.ub
         /\ \A v : LET u == [s EXCEPT !.q = v]
                   IN u.q = v /\ u.qm = s.qm /\ u.e = s.e /\ u.t = s.t /\ u.gd = s.gd
                      /\ u.made = s.made /\ u.ub = s.ub
         /\ \A v : LET u == [s EXCEPT !.e = v]
                   IN u.e = v /\ u.qm = s.qm /\ u.q = s.q /\ u.t = s.t /\ u.gd = s.gd
                      /\ u.made = s.made /\ u.ub = s.ub
         /\ \A v : LET u == [s EXCEPT !.t = v]
                   IN u.t = v /\ u.qm = s.qm /\ u.q = s.q /\ u.e = s.e /\ u.gd = s.gd
                      /\ u.made = s.made /\ u.ub = s.ub
         /\ \A v : LET u == [s EXCEPT !.gd = v]
                   IN u.gd = v /\ u.qm = s.qm /\ u.q = s.q /\ u.e = s.e /\ u.t = s.t
                      /\ u.made = s.made /\ u.ub = s.ub
         /\ \A v : LET u == [s EXCEPT !.made = v]
                   IN u.made = v /\ u.qm = s.qm /\ u.q = s.q /\ u.e = s.e /\ u.t = s.t
                      /\ u.gd = s.gd /\ u.ub = s.ub
BY DEF CoreState

\* qm_add
LEMMA QmAddFields ==
  ASSUME NEW s \in CoreState, NEW q \in Queues
  PROVE  /\ QmAdd(s, q) \in CoreState
         /\ QmAdd(s, q).qm.lists = Append(s.qm.lists, q) /\ QmAdd(s, q).qm.selected = s.qm.selected
         /\ QmAdd(s, q).q[q].st = "live"
         /\ \A p \in Queues : p # q => QmAdd(s, q).q[p].st = s.q[p].st
         /\ \A p \in Queues : Ents(QmAdd(s, q), p) = Ents(s, p)
         /\ QmAdd(s, q).e = s.e /\ QmAdd(s, q).t = s.t /\ QmAdd(s, q).gd = s.gd
         /\ QmAdd(s, q).made = s.made /\ QmAdd(s, q).ub = s.ub
<1> DEFINE M == [s.qm EXCEPT !.lists = Append(@, q)]
           r == s.q[q]
           Q == [s.q EXCEPT ![q] = [r EXCEPT !.st = "live"]]
           a == [s EXCEPT !.qm = M]
           u == QmAdd(s, q)
<1>1. M \in QmRec /\ M.lists = Append(s.qm.lists, q) /\ M.selected = s.qm.selected
  <2>1. s.qm \in QmRec
    BY CoreFields
  <2>2. Append(s.qm.lists, q) \in Seq(Queues)
    BY <2>1 DEF QmRec
  <2> QED BY <2>1, <2>2 DEF QmRec
<1>2. s.q \in [Queues -> QueueRec] /\ r \in QueueRec
  BY CoreFields
<1>3. [r EXCEPT !.st = "live"] \in QueueRec
  BY <1>2, States, QueueFields
<1>4. [r EXCEPT !.st = "live"].st = "live" /\ [r EXCEPT !.st = "live"].ents = r.ents
  BY <1>2 DEF QueueRec
<1>5. /\ Q \in [Queues -> QueueRec] /\ Q[q].st = "live" /\ Q[q].ents = s.q[q].ents
      /\ \A p \in Queues : p # q => Q[p] = s.q[p]
  BY <1>2, <1>3, <1>4
<1>6. u = [a EXCEPT !.q = Q]
  BY DEF QmAdd, CoreState
<1> HIDE DEF M, Q, u
<1>7. a \in CoreState /\ a.qm = M /\ a.q = s.q /\ a.e = s.e /\ a.t = s.t /\ a.gd = s.gd
      /\ a.made = s.made /\ a.ub = s.ub
  BY <1>1, CoreFields, CoreChanges
<1> HIDE DEF a
<1>8. u \in CoreState /\ u.qm = a.qm /\ u.q = Q /\ u.e = a.e /\ u.t = a.t /\ u.gd = a.gd
      /\ u.made = a.made /\ u.ub = a.ub
  BY <1>5, <1>6, <1>7, CoreFields, CoreChanges
<1> QED BY <1>1, <1>5, <1>7, <1>8 DEF u, Ents

\* A new number is the least one that is free.
LEMMA NewIdFree ==
  ASSUME NEW n \in Nat, NEW f, DOMAIN f = 1..n, \E i \in 1..n : f[i].st = "none"
  PROVE  /\ NewId(f) \in 1..n /\ f[NewId(f)].st = "none"
         /\ \A j \in 1..n : j < NewId(f) => f[j].st # "none"
<1> DEFINE T == { i \in 1..n : f[i].st = "none" }
<1>1. T \in SUBSET Nat /\ T # {}
  OBVIOUS
<1>2. PICK i \in T : \A j \in T : i <= j
  BY <1>1, NatLeast
<1>3. \A j \in 1..n : j < i => f[j].st # "none"
  BY <1>2
<1>4. \E k \in DOMAIN f : f[k].st = "none" /\ \A j \in DOMAIN f : j < k => f[j].st # "none"
  BY <1>2, <1>3
<1> QED BY <1>4 DEF NewId

\* qm_rm
LEMMA QmRmFields ==
  ASSUME NEW s \in CoreState, NEW q
  PROVE  /\ QmRm(s, q) \in CoreState
         /\ QmRm(s, q).qm.lists = Keep(s.qm.lists, Queues \ {q})
         /\ QmRm(s, q).qm.selected = s.qm.selected
         /\ QmRm(s, q).q = s.q /\ QmRm(s, q).e = s.e /\ QmRm(s, q).t = s.t
         /\ QmRm(s, q).gd = s.gd /\ QmRm(s, q).made = s.made /\ QmRm(s, q).ub = s.ub
<1> DEFINE k == Keep(s.qm.lists, Queues \ {q})
           M == [s.qm EXCEPT !.lists = k]
<1>1. s.qm \in QmRec /\ s.qm.lists \in Seq(Queues)
  BY CoreFields DEF QmRec
<1>2. k \in Seq(Queues)
  BY <1>1, KeepElements
<1>3. QmRm(s, q) = [s EXCEPT !.qm = M]
  BY DEF QmRm
<1> HIDE DEF k
<1>4. M \in QmRec /\ M.lists = k /\ M.selected = s.qm.selected
  BY <1>1, <1>2 DEF QmRec
<1> HIDE DEF M
<1> QED BY <1>3, <1>4, CoreFields, CoreChanges DEF k

\* q_free
LEMMA QFreeFields ==
  ASSUME NEW s \in CoreState, NEW q \in Queues
  PROVE  LET w == Unref(s, ToSet(Ents(s, q)))
             u == QFree(s, q)
         IN /\ u \in CoreState /\ u.q[q].st = "freed" /\ Ents(u, q) = <<>>
            /\ \A p \in Queues : p # q => u.q[p].st = s.q[p].st /\ Ents(u, p) = Ents(s, p)
            /\ u.e = w.e /\ u.ub = w.ub
            /\ u.qm = s.qm /\ u.t = s.t /\ u.gd = s.gd /\ u.made = s.made
<1> DEFINE es == ToSet(Ents(s, q))
           w == Unref(s, es)
           u == QFree(s, q)
<1>1. s.q \in [Queues -> QueueRec] /\ s.q[q].ents \in Seq(Entries)
  BY CoreFields, QueueFields
<1>2. es \in SUBSET Entries
  BY <1>1 DEF ToSet, Ents
<1> HIDE DEF es
<1>3. /\ w \in CoreState
      /\ w.qm = s.qm /\ w.gd = s.gd /\ w.t = s.t /\ w.made = s.made
      /\ \A p \in Queues : w.q[p].st = s.q[p].st /\ w.q[p].ents = s.q[p].ents
  BY <1>2, UnrefFields DEF Ents
<1>4. u = [w EXCEPT !.q[q].st = "freed", !.q[q].ents = <<>>]
  BY DEF QFree, es
<1> HIDE DEF w, u
<1> DEFINE r == w.q[q]
           r1 == [r EXCEPT !.st = "freed"]
           r2 == [r1 EXCEPT !.ents = <<>>]
           Q == [w.q EXCEPT ![q] = r2]
<1>5. w.q \in [Queues -> QueueRec] /\ r \in QueueRec
  BY <1>3, CoreFields
<1> HIDE DEF r
<1>6. r1 \in QueueRec /\ r1.st = "freed" /\ r1.ents = r.ents
  BY <1>5, States, QueueFields DEF QueueRec
<1> HIDE DEF r1
<1>7. r2 \in QueueRec /\ r2.st = "freed" /\ r2.ents = <<>>
  <2>1. <<>> \in Seq(Entries)
    OBVIOUS
  <2>2. r2 \in QueueRec
    BY <1>6, <2>1, QueueFields
  <2> QED BY <1>6, <2>2 DEF QueueRec
<1> HIDE DEF r2
<1>8. Q \in [Queues -> QueueRec] /\ Q[q] = r2 /\ \A p \in Queues : p # q => Q[p] = w.q[p]
  BY <1>5, <1>7
<1>9. u = [w EXCEPT !.q = Q]
  BY <1>3, <1>4, <1>5 DEF r, r1, r2, CoreState
<1> HIDE DEF Q
<1>10. /\ u \in CoreState /\ u.q = Q /\ u.qm = w.qm /\ u.e = w.e /\ u.t = w.t /\ u.gd = w.gd
       /\ u.made = w.made /\ u.ub = w.ub
  BY <1>3, <1>8, <1>9, CoreFields, CoreChanges
<1>11. u.q[q].st = "freed" /\ Ents(u, q) = <<>>
  BY <1>7, <1>8, <1>10 DEF Ents
<1>12. \A p \in Queues : p # q => u.q[p].st = s.q[p].st /\ Ents(u, p) = Ents(s, p)
  BY <1>3, <1>8, <1>10 DEF Ents
<1> QED BY <1>3, <1>10, <1>11, <1>12 DEF u, w, es

\* q_add
LEMMA QAddFields ==
  ASSUME NEW s \in CoreState, NEW q \in Queues, NEW name \in Names,
         \E e \in Entries : s.e[e].st = "none"
  PROVE  LET u == QAdd(s, q, name)
             e == NewId(s.e)
         IN /\ u \in CoreState
            /\ e \in Entries /\ s.e[e].st = "none"
            /\ u.e[e].st = "live" /\ u.e[e].used = 1 /\ u.e[e].q = q /\ u.e[e].name = name
            /\ u.e[e].trk = 0
            /\ \A d \in Entries : d # e => u.e[d] = s.e[d]
            /\ Ents(u, q) = Append(Ents(s, q), e)
            /\ \A p \in Queues : p # q => Ents(u, p) = Ents(s, p)
            /\ \A p \in Queues : u.q[p].st = s.q[p].st
            /\ u.qm = s.qm /\ u.t = s.t /\ u.gd = s.gd /\ u.made = s.made /\ u.ub = s.ub
<1> DEFINE e == NewId(s.e)
           n == [st |-> "live", used |-> 1, q |-> q, name |-> name, trk |-> 0]
           E == [s.e EXCEPT ![e] = n]
           r == s.q[q]
           r1 == [r EXCEPT !.ents = Append(@, e)]
           Q == [s.q EXCEPT ![q] = r1]
           a == [s EXCEPT !.e = E]
           u == QAdd(s, q, name)
<1>1. s.e \in [Entries -> EntryRec] /\ s.q \in [Queues -> QueueRec] /\ r \in QueueRec
  BY CoreFields
<1>2. e \in Entries /\ s.e[e].st = "none"
  BY <1>1, Bounds, NewIdFree DEF Entries
<1>3. n \in EntryRec
  <2>1. 0 \in TrackIds /\ name \in Labels
    BY Bounds, States
  <2> QED BY <2>1, States DEF EntryRec
<1>4. n.st = "live" /\ n.used = 1 /\ n.q = q /\ n.name = name /\ n.trk = 0
  OBVIOUS
<1>5. u = [a EXCEPT !.q = Q]
  BY DEF QAdd, CoreState
<1> HIDE DEF n, e
<1>6. E \in [Entries -> EntryRec] /\ E[e] = n /\ \A d \in Entries : d # e => E[d] = s.e[d]
  BY <1>1, <1>2, <1>3
<1>7. r1 \in QueueRec /\ r1.st = r.st /\ r1.ents = Append(r.ents, e)
  <2>1. r.ents \in Seq(Entries)
    BY <1>1, QueueFields
  <2> DEFINE l == Append(r.ents, e)
  <2>2. l \in Seq(Entries)
    BY <1>2, <2>1
  <2> HIDE DEF l, r
  <2>3. r1 = [r EXCEPT !.ents = l]
    BY DEF l
  <2>4. r1 \in QueueRec
    BY <1>1, <2>2, <2>3, QueueFields
  <2>5. r1.st = r.st /\ r1.ents = l
    BY <1>1, <2>3 DEF QueueRec
  <2> QED BY <2>4, <2>5 DEF l
<1> HIDE DEF r1
<1>8. Q \in [Queues -> QueueRec] /\ Q[q] = r1 /\ \A p \in Queues : p # q => Q[p] = s.q[p]
  BY <1>1, <1>7
<1> HIDE DEF E, Q, u
<1>9. /\ a \in CoreState /\ a.e = E /\ a.qm = s.qm /\ a.q = s.q /\ a.t = s.t /\ a.gd = s.gd
      /\ a.made = s.made /\ a.ub = s.ub
  BY <1>6, CoreFields, CoreChanges
<1> HIDE DEF a
<1>10. /\ u \in CoreState /\ u.q = Q /\ u.qm = a.qm /\ u.e = a.e /\ u.t = a.t /\ u.gd = a.gd
       /\ u.made = a.made /\ u.ub = a.ub
  BY <1>5, <1>8, <1>9, CoreFields, CoreChanges
<1>11. Ents(u, q) = Append(Ents(s, q), e) /\ \A p \in Queues : p # q => Ents(u, p) = Ents(s, p)
  BY <1>7, <1>8, <1>10 DEF Ents
<1>12. \A p \in Queues : u.q[p].st = s.q[p].st
  BY <1>7, <1>8, <1>10
<1>13. /\ u.e[e].st = "live" /\ u.e[e].used = 1 /\ u.e[e].q = q /\ u.e[e].name = name
       /\ u.e[e].trk = 0
       /\ \A d \in Entries : d # e => u.e[d] = s.e[d]
  BY <1>4, <1>6, <1>9, <1>10
<1> QED BY <1>2, <1>9, <1>10, <1>11, <1>12, <1>13 DEF u, e

\* Another list of entries for queue q.
WithEnts(s, q, l) == [s EXCEPT !.q[q].ents = l]

LEMMA EntsFields ==
  ASSUME NEW s \in CoreState, NEW q \in Queues, NEW l \in Seq(Entries)
  PROVE  LET u == WithEnts(s, q, l)
         IN /\ u \in CoreState /\ Ents(u, q) = l
            /\ \A p \in Queues : p # q => Ents(u, p) = Ents(s, p)
            /\ \A p \in Queues : u.q[p].st = s.q[p].st
            /\ u.e = s.e /\ u.qm = s.qm /\ u.t = s.t /\ u.gd = s.gd /\ u.made = s.made
            /\ u.ub = s.ub
<1> DEFINE r == s.q[q]
           r1 == [r EXCEPT !.ents = l]
           Q == [s.q EXCEPT ![q] = r1]
           u == [s EXCEPT !.q = Q]
<1>1. s.q \in [Queues -> QueueRec] /\ r \in QueueRec
  BY CoreFields
<1>2. r1 \in QueueRec /\ r1.st = r.st /\ r1.ents = l
  <2> HIDE DEF r
  <2>1. r1 \in QueueRec
    BY <1>1, QueueFields
  <2> QED BY <1>1, <2>1 DEF QueueRec
<1>3. u = WithEnts(s, q, l)
  BY DEF CoreState, WithEnts
<1> HIDE DEF r1
<1>4. Q \in [Queues -> QueueRec] /\ Q[q] = r1 /\ \A p \in Queues : p # q => Q[p] = s.q[p]
  BY <1>1, <1>2
<1> HIDE DEF Q
<1>5. /\ u \in CoreState /\ u.q = Q /\ u.qm = s.qm /\ u.e = s.e /\ u.t = s.t /\ u.gd = s.gd
      /\ u.made = s.made /\ u.ub = s.ub
  BY <1>4, CoreFields, CoreChanges
<1> HIDE DEF u
<1>6. /\ Ents(u, q) = l /\ \A p \in Queues : p # q => Ents(u, p) = Ents(s, p)
      /\ \A p \in Queues : u.q[p].st = s.q[p].st
  BY <1>2, <1>4, <1>5 DEF Ents
<1> QED BY <1>3, <1>5, <1>6

\* ... and another position of the cursor.
LEMMA CidxFields ==
  ASSUME NEW s \in CoreState, NEW q \in Queues, NEW n \in Int
  PROVE  LET u == [s EXCEPT !.q[q].cidx = n]
         IN /\ u \in CoreState
            /\ \A p \in Queues : u.q[p].st = s.q[p].st /\ Ents(u, p) = Ents(s, p)
            /\ u.e = s.e /\ u.qm = s.qm /\ u.t = s.t /\ u.gd = s.gd /\ u.made = s.made
            /\ u.ub = s.ub
<1> DEFINE r == s.q[q]
           r1 == [r EXCEPT !.cidx = n]
           Q == [s.q EXCEPT ![q] = r1]
           u == [s EXCEPT !.q = Q]
<1>1. s.q \in [Queues -> QueueRec] /\ r \in QueueRec
  BY CoreFields
<1>2. r1 \in QueueRec /\ r1.st = r.st /\ r1.ents = r.ents
  <2> HIDE DEF r
  <2>1. r1 \in QueueRec
    BY <1>1, QueueFields
  <2> QED BY <1>1, <2>1 DEF QueueRec
<1>3. u = [s EXCEPT !.q[q].cidx = n]
  BY DEF CoreState
<1> HIDE DEF r1
<1>4. Q \in [Queues -> QueueRec] /\ Q[q] = r1 /\ \A p \in Queues : p # q => Q[p] = s.q[p]
  BY <1>1, <1>2
<1> HIDE DEF Q
<1>5. /\ u \in CoreState /\ u.q = Q /\ u.qm = s.qm /\ u.e = s.e /\ u.t = s.t /\ u.gd = s.gd
      /\ u.made = s.made /\ u.ub = s.ub
  BY <1>4, CoreFields, CoreChanges
<1> HIDE DEF u
<1>6. \A p \in Queues : u.q[p].st = s.q[p].st /\ Ents(u, p) = Ents(s, p)
  BY <1>2, <1>4, <1>5 DEF Ents
<1> QED BY <1>3, <1>5, <1>6

\* The cursor of queue q is at e, the position of the cursor is n.
WithCursor(s, q, e, n) == [s EXCEPT !.q[q].cursor = e, !.q[q].cidx = n]

LEMMA CursorFields ==
  ASSUME NEW s \in CoreState, NEW q \in Queues, NEW e \in Entries, NEW n \in Int
  PROVE  LET u == WithCursor(s, q, e, n)
         IN /\ u \in CoreState
            /\ \A p \in Queues : u.q[p].st = s.q[p].st /\ Ents(u, p) = Ents(s, p)
            /\ u.e = s.e /\ u.qm = s.qm /\ u.t = s.t /\ u.gd = s.gd /\ u.made = s.made
            /\ u.ub = s.ub
<1> DEFINE r == s.q[q]
           r1 == [r EXCEPT !.cursor = e]
           Q == [s.q EXCEPT ![q] = r1]
           w == [s EXCEPT !.q = Q]
           u == [w EXCEPT !.q[q].cidx = n]
<1>1. s.q \in [Queues -> QueueRec] /\ r \in QueueRec
  BY CoreFields
<1>2. r1 \in QueueRec /\ r1.st = r.st /\ r1.ents = r.ents
  <2> HIDE DEF r
  <2>1. e \in EntryIds
    BY Bounds
  <2>2. r1 \in QueueRec
    BY <1>1, <2>1, QueueFields
  <2> QED BY <1>1, <2>2 DEF QueueRec
<1>3. u = WithCursor(s, q, e, n)
  BY <1>1 DEF CoreState, WithCursor
<1> HIDE DEF r1
<1>4. Q \in [Queues -> QueueRec] /\ Q[q] = r1 /\ \A p \in Queues : p # q => Q[p] = s.q[p]
  BY <1>1, <1>2
<1> HIDE DEF Q
<1>5. /\ w \in CoreState /\ w.q = Q /\ w.qm = s.qm /\ w.e = s.e /\ w.t = s.t /\ w.gd = s.gd
      /\ w.made = s.made /\ w.ub = s.ub
  BY <1>4, CoreFields, CoreChanges
<1> HIDE DEF w
<1>6. \A p \in Queues : w.q[p].st = s.q[p].st /\ Ents(w, p) = Ents(s, p)
  BY <1>2, <1>4, <1>5 DEF Ents
<1>7. /\ u \in CoreState
      /\ \A p \in Queues : u.q[p].st = w.q[p].st /\ Ents(u, p) = Ents(w, p)
      /\ u.e = w.e /\ u.qm = w.qm /\ u.t = w.t /\ u.gd = w.gd /\ u.made = w.made
      /\ u.ub = w.ub
  BY <1>5, CidxFields
<1> HIDE DEF u
<1> QED BY <1>3, <1>5, <1>6, <1>7

\* qe_stop stops the track of an entry.
LEMMA QeStopFields ==
  ASSUME NEW s \in CoreState, NEW e \in EntryIds, TracksOk(s)
  PROVE  LET u == QeStop(s, e)
         IN /\ u \in CoreState
            /\ \A t \in Tracks : /\ u.t[t].e = s.t[t].e
                                 /\ Active(u, t) <=> Active(s, t)
                                 /\ u.t[t].st = "none" <=> s.t[t].st = "none"
            /\ u.e = s.e /\ u.qm = s.qm /\ u.q = s.q /\ u.gd = s.gd /\ u.made = s.made
            /\ u.ub = s.ub
<1> DEFINE u == QeStop(s, e)
           k == s.e[e].trk
<1>0. s.e \in [Entries -> EntryRec] /\ s.t \in [Tracks -> TrackRec]
  BY CoreFields
<1>1. CASE e = 0 \/ k = 0
  <2>1. u = s
    BY <1>1 DEF QeStop
  <2> HIDE DEF u
  <2> QED BY <2>1 DEF u, Active
<1>2. CASE ~(e = 0 \/ k = 0)
  <2>1. e \in Entries /\ k \in Tracks
    BY <1>0, <1>2, Bounds, EntryFields
  <2>2. Active(s, k)
    BY <1>2, <2>1 DEF TracksOk
  <2>3. u = [s EXCEPT !.t[k].st = "stopping"]
    BY <1>2 DEF QeStop
  <2> HIDE DEF k, u
  <2> DEFINE r == s.t[k]
             r1 == [r EXCEPT !.st = "stopping"]
             T == [s.t EXCEPT ![k] = r1]
  <2>4. r \in TrackRec
    BY <1>0, <2>1
  <2>5. r1 \in TrackRec /\ r1.st = "stopping" /\ r1.e = r.e
    <3> HIDE DEF r
    <3>1. r1 \in TrackRec
      BY <2>4, States, TrackFields
    <3> QED BY <2>4, <3>1 DEF TrackRec
  <2>6. u = [s EXCEPT !.t = T]
    BY <2>3 DEF CoreState
  <2> HIDE DEF r1
  <2>7. T \in [Tracks -> TrackRec] /\ T[k] = r1 /\ \A t \in Tracks : t # k => T[t] = s.t[t]
    BY <1>0, <2>1, <2>5
  <2> HIDE DEF T
  <2>8. /\ u \in CoreState /\ u.t = T /\ u.qm = s.qm /\ u.e = s.e /\ u.q = s.q /\ u.gd = s.gd
        /\ u.made = s.made /\ u.ub = s.ub
    BY <2>6, <2>7, CoreFields, CoreChanges
  <2>9. ASSUME NEW t \in Tracks
        PROVE  /\ u.t[t].e = s.t[t].e
               /\ Active(u, t) <=> Active(s, t)
               /\ u.t[t].st = "none" <=> s.t[t].st = "none"
    BY <2>2, <2>5, <2>7, <2>8 DEF Active
  <2> QED BY <2>8, <2>9 DEF u
<1> QED BY <1>1, <1>2

WithActive(s, q, n) == [s EXCEPT !.q[q].active = n]

LEMMA ActiveFields ==
  ASSUME NEW s \in CoreState, NEW q \in Queues, NEW n \in Int
  PROVE  LET u == WithActive(s, q, n)
         IN /\ u \in CoreState
            /\ \A p \in Queues : u.q[p].st = s.q[p].st /\ Ents(u, p) = Ents(s, p)
            /\ u.e = s.e /\ u.qm = s.qm /\ u.t = s.t /\ u.gd = s.gd /\ u.made = s.made
            /\ u.ub = s.ub
<1> DEFINE r == s.q[q]
           r1 == [r EXCEPT !.active = n]
           Q == [s.q EXCEPT ![q] = r1]
           u == [s EXCEPT !.q = Q]
<1>1. s.q \in [Queues -> QueueRec] /\ r \in QueueRec
  BY CoreFields
<1>2. r1 \in QueueRec /\ r1.st = r.st /\ r1.ents = r.ents
  <2> HIDE DEF r
  <2>1. r1 \in QueueRec
    BY <1>1, QueueFields
  <2> QED BY <1>1, <2>1 DEF QueueRec
<1>3. u = WithActive(s, q, n)
  BY DEF CoreState, WithActive
<1> HIDE DEF r1
<1>4. Q \in [Queues -> QueueRec] /\ Q[q] = r1 /\ \A p \in Queues : p # q => Q[p] = s.q[p]
  BY <1>1, <1>2
<1> HIDE DEF Q
<1>5. /\ u \in CoreState /\ u.q = Q /\ u.qm = s.qm /\ u.e = s.e /\ u.t = s.t /\ u.gd = s.gd
      /\ u.made = s.made /\ u.ub = s.ub
  BY <1>4, CoreFields, CoreChanges
<1> HIDE DEF u
<1>6. \A p \in Queues : u.q[p].st = s.q[p].st /\ Ents(u, p) = Ents(s, p)
  BY <1>2, <1>4, <1>5 DEF Ents
<1> QED BY <1>3, <1>5, <1>6

LEMMA UsedFields ==
  ASSUME NEW s \in CoreState, NEW e \in Entries, NEW n \in Int
  PROVE  LET u == [s EXCEPT !.e[e].used = n]
         IN /\ u \in CoreState
            /\ u.e[e].used = n /\ u.e[e].trk = s.e[e].trk /\ u.e[e].st = s.e[e].st
            /\ u.e[e].q = s.e[e].q /\ u.e[e].name = s.e[e].name
            /\ \A d \in Entries : d # e => u.e[d] = s.e[d]
            /\ u.q = s.q /\ u.qm = s.qm /\ u.t = s.t /\ u.gd = s.gd /\ u.made = s.made
            /\ u.ub = s.ub
<1> DEFINE r == s.e[e]
           r1 == [r EXCEPT !.used = n]
           E == [s.e EXCEPT ![e] = r1]
           u == [s EXCEPT !.e = E]
<1>1. s.e \in [Entries -> EntryRec] /\ r \in EntryRec
  BY CoreFields
<1>2. /\ r1 \in EntryRec /\ r1.used = n /\ r1.trk = r.trk /\ r1.st = r.st /\ r1.q = r.q
      /\ r1.name = r.name
  <2> HIDE DEF r
  <2>1. r1 \in EntryRec
    BY <1>1, EntryFields
  <2> QED BY <1>1, <2>1 DEF EntryRec
<1>3. u = [s EXCEPT !.e[e].used = n]
  BY DEF CoreState
<1> HIDE DEF r1
<1>4. E \in [Entries -> EntryRec] /\ E[e] = r1 /\ \A d \in Entries : d # e => E[d] = s.e[d]
  BY <1>1, <1>2
<1> HIDE DEF E
<1>5. /\ u \in CoreState /\ u.e = E /\ u.qm = s.qm /\ u.q = s.q /\ u.t = s.t /\ u.gd = s.gd
      /\ u.made = s.made /\ u.ub = s.ub
  BY <1>4, CoreFields, CoreChanges
<1> HIDE DEF u
<1> QED BY <1>2, <1>3, <1>4, <1>5

WithTrk(s, e, n) == [s EXCEPT !.e[e].trk = n]

LEMMA TrkFields ==
  ASSUME NEW s \in CoreState, NEW e \in Entries, NEW n \in TrackIds
  PROVE  LET u == WithTrk(s, e, n)
         IN /\ u \in CoreState
            /\ u.e[e].trk = n /\ u.e[e].used = s.e[e].used /\ u.e[e].st = s.e[e].st
            /\ u.e[e].q = s.e[e].q /\ u.e[e].name = s.e[e].name
            /\ \A d \in Entries : d # e => u.e[d] = s.e[d]
            /\ u.q = s.q /\ u.qm = s.qm /\ u.t = s.t /\ u.gd = s.gd /\ u.made = s.made
            /\ u.ub = s.ub
<1> DEFINE r == s.e[e]
           r1 == [r EXCEPT !.trk = n]
           E == [s.e EXCEPT ![e] = r1]
           u == [s EXCEPT !.e = E]
<1>1. s.e \in [Entries -> EntryRec] /\ r \in EntryRec
  BY CoreFields
<1>2. /\ r1 \in EntryRec /\ r1.trk = n /\ r1.used = r.used /\ r1.st = r.st /\ r1.q = r.q
      /\ r1.name = r.name
  <2> HIDE DEF r
  <2>1. r1 \in EntryRec
    BY <1>1, EntryFields
  <2> QED BY <1>1, <2>1 DEF EntryRec
<1>3. u = WithTrk(s, e, n)
  BY DEF CoreState, WithTrk
<1> HIDE DEF r1
<1>4. E \in [Entries -> EntryRec] /\ E[e] = r1 /\ \A d \in Entries : d # e => E[d] = s.e[d]
  BY <1>1, <1>2
<1> HIDE DEF E
<1>5. /\ u \in CoreState /\ u.e = E /\ u.qm = s.qm /\ u.q = s.q /\ u.t = s.t /\ u.gd = s.gd
      /\ u.made = s.made /\ u.ub = s.ub
  BY <1>4, CoreFields, CoreChanges
<1> HIDE DEF u
<1> QED BY <1>2, <1>3, <1>4, <1>5

LEMMA TrackSetFields ==
  ASSUME NEW s \in CoreState, NEW t \in Tracks, NEW n \in TrackRec
  PROVE  LET u == [s EXCEPT !.t[t] = n]
         IN /\ u \in CoreState /\ u.t[t] = n /\ \A k \in Tracks : k # t => u.t[k] = s.t[k]
            /\ u.q = s.q /\ u.qm = s.qm /\ u.e = s.e /\ u.gd = s.gd /\ u.made = s.made
            /\ u.ub = s.ub
<1> DEFINE T == [s.t EXCEPT ![t] = n]
           u == [s EXCEPT !.t = T]
<1>1. u = [s EXCEPT !.t[t] = n]
  BY DEF CoreState
<1>2. T \in [Tracks -> TrackRec] /\ T[t] = n /\ \A k \in Tracks : k # t => T[k] = s.t[k]
  BY CoreFields
<1> HIDE DEF T
<1>3. /\ u \in CoreState /\ u.t = T /\ u.qm = s.qm /\ u.q = s.q /\ u.e = s.e /\ u.gd = s.gd
      /\ u.made = s.made /\ u.ub = s.ub
  BY <1>2, CoreFields, CoreChanges
<1> HIDE DEF u
<1> QED BY <1>1, <1>2, <1>3

\* What the tabs look like, whatever is playing.
SameTabs(u, s) ==
  /\ u.gd.lists = s.gd.lists /\ u.gd.selected = s.gd.selected /\ u.gd.convert = s.gd.convert
  /\ u.gd.filtered = s.gd.filtered /\ u.gd.text = s.gd.text /\ u.gd.tabconv = s.gd.tabconv

LEMMA PlayingFields ==
  ASSUME NEW s \in CoreState, NEW t \in TrackIds
  PROVE  LET u == [s EXCEPT !.gd.playing = t]
         IN /\ u \in CoreState /\ u.gd.playing = t /\ SameTabs(u, s)
            /\ u.q = s.q /\ u.qm = s.qm /\ u.e = s.e /\ u.t = s.t /\ u.made = s.made
            /\ u.ub = s.ub
<1> DEFINE g == s.gd
           G == [g EXCEPT !.playing = t]
           u == [s EXCEPT !.gd = G]
<1>1. u = [s EXCEPT !.gd.playing = t]
  BY DEF CoreState
<1>2. g \in GdRec
  BY CoreFields
<1> HIDE DEF g
<1>3. /\ G \in GdRec /\ G.playing = t
      /\ G.lists = g.lists /\ G.selected = g.selected /\ G.convert = g.convert
      /\ G.filtered = g.filtered /\ G.text = g.text /\ G.tabconv = g.tabconv
  BY <1>2 DEF GdRec
<1> HIDE DEF G
<1>4. /\ u \in CoreState /\ u.gd = G /\ u.qm = s.qm /\ u.q = s.q /\ u.e = s.e /\ u.t = s.t
      /\ u.made = s.made /\ u.ub = s.ub
  BY <1>3, CoreFields, CoreChanges
<1> HIDE DEF u
<1>5. SameTabs(u, s)
  BY <1>3, <1>4 DEF SameTabs, g
<1> QED BY <1>1, <1>3, <1>4, <1>5

\* The lists and what their entries are: all that stays when something plays.
SameLists(u, s) ==
  /\ \A q \in Queues : u.q[q].st = s.q[q].st /\ Ents(u, q) = Ents(s, q)
  /\ \A e \in Entries : u.e[e].q = s.e[e].q /\ u.e[e].name = s.e[e].name
  /\ u.qm = s.qm /\ SameTabs(u, s)

LEMMA QePlayFields ==
  ASSUME NEW s \in CoreState, NEW e \in Entries, \E t \in Tracks : s.t[t].st = "none"
  PROVE  LET u == QePlay(s, e)
             t == NewId(s.t)
         IN /\ u \in CoreState /\ SameLists(u, s)
            /\ t \in Tracks /\ s.t[t].st = "none" /\ u.t[t].st = "run" /\ u.t[t].e = e
            /\ \A k \in Tracks : k # t => u.t[k] = s.t[k]
            /\ u.e[e].st = s.e[e].st /\ u.e[e].used = s.e[e].used + 1 /\ u.e[e].trk = t
            /\ \A d \in Entries : d # e => u.e[d] = s.e[d]
            /\ u.gd.playing = t /\ u.made = s.made /\ u.ub = s.ub
<1> DEFINE t == NewId(s.t)
           q == s.e[e].q
           n == [st |-> "run", e |-> e]
           u == QePlay(s, e)
<1>1. s.e \in [Entries -> EntryRec] /\ s.t \in [Tracks -> TrackRec] /\ s.q \in [Queues -> QueueRec]
  BY CoreFields
<1>2. t \in Tracks /\ s.t[t].st = "none" /\ t \in TrackIds
  BY <1>1, Bounds, NewIdFree DEF Tracks
<1>3. n \in TrackRec /\ n.st = "run" /\ n.e = e
  BY Bounds, States DEF TrackRec
<1>4. q \in Queues
  BY <1>1, EntryFields
<1> HIDE DEF t, q, n
<1> DEFINE a == [s EXCEPT !.t[t] = n]
           b == WithTrk(a, e, t)
           uc == s.e[e].used + 1
           c == [b EXCEPT !.e[e].used = uc]
           ad == s.q[q].active + 1
           d == WithActive(c, q, ad)
<1>5. u = [d EXCEPT !.gd.playing = t]
  BY Zenon DEF QePlay, t, q, n, WithTrk, WithActive
<1> HIDE DEF u
<1>6. /\ a \in CoreState /\ a.t[t] = n /\ \A k \in Tracks : k # t => a.t[k] = s.t[k]
      /\ a.q = s.q /\ a.qm = s.qm /\ a.e = s.e /\ a.gd = s.gd /\ a.made = s.made /\ a.ub = s.ub
  BY <1>2, <1>3, TrackSetFields
<1> HIDE DEF a
<1>7. /\ b \in CoreState
      /\ b.e[e].trk = t /\ b.e[e].used = a.e[e].used /\ b.e[e].st = a.e[e].st
      /\ b.e[e].q = a.e[e].q /\ b.e[e].name = a.e[e].name
      /\ \A x \in Entries : x # e => b.e[x] = a.e[x]
      /\ b.q = a.q /\ b.qm = a.qm /\ b.t = a.t /\ b.gd = a.gd /\ b.made = a.made /\ b.ub = a.ub
  BY <1>2, <1>6, TrkFields
<1> HIDE DEF b
<1>8. uc \in Int
  BY <1>1, EntryFields
<1> HIDE DEF uc
<1>9. /\ c \in CoreState
      /\ c.e[e].used = uc /\ c.e[e].trk = b.e[e].trk /\ c.e[e].st = b.e[e].st
      /\ c.e[e].q = b.e[e].q /\ c.e[e].name = b.e[e].name
      /\ \A x \in Entries : x # e => c.e[x] = b.e[x]
      /\ c.q = b.q /\ c.qm = b.qm /\ c.t = b.t /\ c.gd = b.gd /\ c.made = b.made /\ c.ub = b.ub
  BY <1>7, <1>8, UsedFields
<1> HIDE DEF c
<1>10. ad \in Int
  BY <1>1, <1>4, QueueFields
<1> HIDE DEF ad
<1>11. /\ d \in CoreState
       /\ \A p \in Queues : d.q[p].st = c.q[p].st /\ Ents(d, p) = Ents(c, p)
       /\ d.e = c.e /\ d.qm = c.qm /\ d.t = c.t /\ d.gd = c.gd /\ d.made = c.made /\ d.ub = c.ub
  BY <1>4, <1>9, <1>10, ActiveFields
<1> HIDE DEF d
<1>12. /\ u \in CoreState /\ u.gd.playing = t /\ SameTabs(u, d)
       /\ u.q = d.q /\ u.qm = d.qm /\ u.e = d.e /\ u.t = d.t /\ u.made = d.made
       /\ u.ub = d.ub
  BY <1>2, <1>5, <1>11, PlayingFields
<1>13. SameLists(u, s)
  <2>1. \A p \in Queues : u.q[p].st = s.q[p].st /\ Ents(u, p) = Ents(s, p)
    BY <1>6, <1>7, <1>9, <1>11, <1>12 DEF Ents
  <2>2. \A x \in Entries : u.e[x].q = s.e[x].q /\ u.e[x].name = s.e[x].name
    BY <1>6, <1>7, <1>9, <1>11, <1>12
  <2>3. u.qm = s.qm /\ SameTabs(u, s)
    BY <1>6, <1>7, <1>9, <1>11, <1>12 DEF SameTabs
  <2> QED BY <2>1, <2>2, <2>3 DEF SameLists
<1>14. /\ u.e[e].st = s.e[e].st /\ u.e[e].used = s.e[e].used + 1 /\ u.e[e].trk = t
       /\ \A x \in Entries : x # e => u.e[x] = s.e[x]
  BY <1>6, <1>7, <1>9, <1>11, <1>12 DEF uc
<1>15. u.t[t].st = "run" /\ u.t[t].e = e /\ \A k \in Tracks : k # t => u.t[k] = s.t[k]
  BY <1>3, <1>6, <1>7, <1>9, <1>11, <1>12
<1> QED BY <1>2, <1>6, <1>7, <1>9, <1>11, <1>12, <1>13, <1>14, <1>15 DEF u, t

\* Where an entry stands in a list.
LEMMA PosOfRange ==
  ASSUME NEW s \in CoreState, NEW q \in Queues, NEW e
  PROVE  PosOf(s, q, e) \in Nat
<1>1. Ents(s, q) \in Seq(Entries)
  BY CoreFields, QueueFields DEF Ents
<1>2. CASE Contains(Ents(s, q), e)
  <2>1. \E k \in 1..Len(Ents(s, q)) : Ents(s, q)[k] = e
    BY <1>2 DEF Contains
  <2>2. PosOf(s, q, e) \in 1..Len(Ents(s, q))
    BY <1>2, <2>1 DEF PosOf
  <2> QED BY <1>1, <2>2
<1>3. CASE ~Contains(Ents(s, q), e)
  BY <1>3 DEF PosOf
<1> QED BY <1>2, <1>3

\* q_play: a track for the entry, if there still is its queue.
Plays(u, s, e) ==
  /\ s.ub = "none" /\ SameLists(u, s) /\ u.made = s.made
  /\ \E t \in Tracks :
       /\ s.t[t].st = "none" /\ u.t[t].st = "run" /\ u.t[t].e = e
       /\ \A k \in Tracks : k # t => u.t[k].e = s.t[k].e /\ (Active(u, k) <=> Active(s, k))
       /\ u.e[e].st = s.e[e].st /\ u.e[e].used = s.e[e].used + 1 /\ u.e[e].trk = t
       /\ \A d \in Entries : d # e => u.e[d] = s.e[d]
       /\ u.gd.playing = t

LEMMA QPlayFields ==
  ASSUME NEW s \in CoreState, NEW e \in Entries, TracksOk(s), \E t \in Tracks : s.t[t].st = "none"
  PROVE  LET u == QPlay(s, e)
         IN /\ u \in CoreState
            /\ s.q[s.e[e].q].st # "freed" => u.ub = s.ub
            /\ u.ub = "none" => Plays(u, s, e)
<1> DEFINE q == s.e[e].q
           u == QPlay(s, e)
<1>0. q \in Queues
  BY CoreFields, EntryFields
<1>1. CASE s.q[q].st = "freed"
  <2>1. u = Bad(s, "freed")
    BY <1>1 DEF QPlay
  <2>2. "freed" \in Faults
    BY DEF Faults
  <2> HIDE DEF u
  <2>3. u \in CoreState /\ u.ub # "none"
    BY <2>1, <2>2, BadFields
  <2> QED BY <1>1, <2>3 DEF u
<1>2. CASE s.q[q].st # "freed"
  <2> DEFINE x == QeStop(s, s.q[q].cursor)
             n == PosOf(s, q, e) - 1
             y == WithCursor(x, q, e, n)
  <2>1. u = QePlay(y, e)
    BY <1>2 DEF QPlay, WithCursor
  <2>2. n \in Int
    BY <1>0, PosOfRange
  <2>3. s.q[q].cursor \in EntryIds
    BY <1>0, CoreFields, QueueFields
  <2> HIDE DEF n, u, q
  <2>4. /\ x \in CoreState
        /\ \A t \in Tracks : /\ x.t[t].e = s.t[t].e
                             /\ Active(x, t) <=> Active(s, t)
                             /\ x.t[t].st = "none" <=> s.t[t].st = "none"
        /\ x.e = s.e /\ x.qm = s.qm /\ x.q = s.q /\ x.gd = s.gd /\ x.made = s.made
        /\ x.ub = s.ub
    BY <2>3, QeStopFields
  <2> HIDE DEF x
  <2>5. /\ y \in CoreState
        /\ \A p \in Queues : y.q[p].st = x.q[p].st /\ Ents(y, p) = Ents(x, p)
        /\ y.e = x.e /\ y.qm = x.qm /\ y.t = x.t /\ y.gd = x.gd /\ y.made = x.made
        /\ y.ub = x.ub
    BY <1>0, <2>2, <2>4, CursorFields
  <2> HIDE DEF y
  <2>6. \E t \in Tracks : y.t[t].st = "none"
    BY <2>4, <2>5
  <2> DEFINE t == NewId(y.t)
  <2>7. /\ u \in CoreState /\ SameLists(u, y)
        /\ t \in Tracks /\ y.t[t].st = "none" /\ u.t[t].st = "run" /\ u.t[t].e = e
        /\ \A k \in Tracks : k # t => u.t[k] = y.t[k]
        /\ u.e[e].st = y.e[e].st /\ u.e[e].used = y.e[e].used + 1 /\ u.e[e].trk = t
        /\ \A d \in Entries : d # e => u.e[d] = y.e[d]
        /\ u.gd.playing = t /\ u.made = y.made /\ u.ub = y.ub
    BY <2>1, <2>5, <2>6, QePlayFields
  <2> HIDE DEF t
  <2>8. SameLists(u, s)
    <3>1. \A p \in Queues : u.q[p].st = s.q[p].st /\ Ents(u, p) = Ents(s, p)
      BY <2>4, <2>5, <2>7 DEF SameLists, Ents
    <3>2. \A d \in Entries : u.e[d].q = s.e[d].q /\ u.e[d].name = s.e[d].name
      BY <2>4, <2>5, <2>7 DEF SameLists
    <3>3. u.qm = s.qm /\ SameTabs(u, s)
      BY <2>4, <2>5, <2>7 DEF SameLists, SameTabs
    <3> QED BY <3>1, <3>2, <3>3 DEF SameLists
  <2>9. \A k \in Tracks : k # t => u.t[k].e = s.t[k].e /\ (Active(u, k) <=> Active(s, k))
    BY <2>4, <2>5, <2>7 DEF Active
  <2>10. u.ub = s.ub /\ u.made = s.made /\ s.t[t].st = "none"
    BY <2>4, <2>5, <2>7
  <2>11. /\ u.e[e].st = s.e[e].st /\ u.e[e].used = s.e[e].used + 1
         /\ \A d \in Entries : d # e => u.e[d] = s.e[d]
    BY <2>4, <2>5, <2>7
  <2>12. ASSUME u.ub = "none"
         PROVE  Plays(u, s, e)
    BY <2>7, <2>8, <2>9, <2>10, <2>11, <2>12 DEF Plays
  <2> QED BY <2>7, <2>10, <2>12 DEF u
<1> QED BY <1>1, <1>2

\* An entry at a position of a list is in it.
LEMMA EntryAtListed ==
  ASSUME NEW s \in CoreState, NEW q \in Queues, NEW i
  PROVE  /\ EntryAt(s, q, i) \in EntryIds
         /\ EntryAt(s, q, i) # 0 => EntryAt(s, q, i) \in Entries /\ Contains(Ents(s, q), EntryAt(s, q, i))
         /\ i \in 1..Len(Ents(s, q)) => EntryAt(s, q, i) = Ents(s, q)[i] /\ EntryAt(s, q, i) # 0
<1>1. Ents(s, q) \in Seq(Entries)
  BY CoreFields, QueueFields DEF Ents
<1>2. CASE i \in 1..Len(Ents(s, q))
  <2>1. EntryAt(s, q, i) = Ents(s, q)[i]
    BY <1>2 DEF EntryAt
  <2>2. Ents(s, q)[i] \in Entries /\ Contains(Ents(s, q), Ents(s, q)[i])
    BY <1>1, <1>2 DEF Contains
  <2> QED BY <2>1, <2>2, Bounds
<1>3. CASE i \notin 1..Len(Ents(s, q))
  BY <1>3, Bounds DEF EntryAt
<1> QED BY <1>2, <1>3

-----------------------------------------------------------------------------
(* The counters.                                                           *)

Refs(s, H, x) == Counted(s, H, x) /\ TracksOk(s) /\ ListsOk(s) /\ NamesOk(s)

LEMMA Finite ==
  ASSUME NEW s, NEW e, NEW x
  PROVE  /\ IsFiniteSet(ShownBy(s, e, x)) /\ Cardinality(ShownBy(s, e, x)) \in Nat
         /\ IsFiniteSet(PlayedBy(s, e)) /\ Cardinality(PlayedBy(s, e)) \in Nat
<1>1. IsFiniteSet(Queues) /\ IsFiniteSet(Tracks)
  BY Bounds, FS_Interval DEF Queues, Tracks
<1>2. IsFiniteSet(ShownBy(s, e, x))
  BY <1>1, FS_Subset DEF ShownBy
<1>3. IsFiniteSet(PlayedBy(s, e))
  BY <1>1, FS_Subset DEF PlayedBy
<1> QED BY <1>2, <1>3, FS_CardinalityType

LEMMA CardNone ==
  ASSUME NEW S, IsFiniteSet(S)
  PROVE  Cardinality(S) = 0 <=> S = {}
BY FS_EmptySet

LEMMA CardOneMore ==
  ASSUME NEW S, IsFiniteSet(S), NEW a, a \notin S
  PROVE  IsFiniteSet(S \union {a}) /\ Cardinality(S \union {a}) = Cardinality(S) + 1
BY FS_AddElement

\* An entry that a list shows or that a track plays is alive.
LEMMA ShownLive ==
  ASSUME NEW s \in CoreState, NEW H, NEW x, Refs(s, H, x), NEW e \in Entries
  PROVE  /\ ShownBy(s, e, x) # {} \/ PlayedBy(s, e) # {} \/ e \in H =>
              s.e[e].st = "live" /\ s.e[e].used >= 1
         /\ s.e[e].st # "live" =>
              ShownBy(s, e, x) = {} /\ PlayedBy(s, e) = {} /\ e \notin H /\ s.e[e].used = 0
<1> DEFINE a == Cardinality(ShownBy(s, e, x))
           b == Cardinality(PlayedBy(s, e))
           h == IF e \in H THEN 1 ELSE 0
<1>1. s.e[e].used = a + b + h /\ (s.e[e].st = "live" <=> s.e[e].used # 0)
  BY DEF Refs, Counted
<1>2. a \in Nat /\ b \in Nat /\ h \in Nat
  BY Finite
<1>3. (a = 0 <=> ShownBy(s, e, x) = {}) /\ (b = 0 <=> PlayedBy(s, e) = {}) /\ (h = 0 <=> e \notin H)
  BY Finite, CardNone
<1> HIDE DEF a, b, h
<1>4. s.e[e].used = 0 <=> a = 0 /\ b = 0 /\ h = 0
  BY <1>1, <1>2
<1>5. s.e[e].used # 0 => s.e[e].used >= 1
  BY <1>1, <1>2
<1> QED BY <1>1, <1>3, <1>4, <1>5

LEMMA ListedLive ==
  ASSUME NEW s \in CoreState, NEW H, Refs(s, H, 0), NEW q \in Queues, NEW e \in Entries,
         Contains(Ents(s, q), e)
  PROVE  s.e[e].st = "live" /\ s.e[e].used >= 1 /\ s.q[q].st = "live"
<1>1. Ents(s, q) # <<>>
  BY DEF Contains
<1>2. s.q[q].st = "live" /\ q # 0
  BY <1>1, Bounds DEF Refs, ListsOk
<1>3. q \in ShownBy(s, e, 0)
  BY <1>2 DEF ShownBy
<1> QED BY <1>2, <1>3, ShownLive

\* qe_unref gives back the references the running function held.
LEMMA UnrefRefs ==
  ASSUME NEW s \in CoreState, NEW H, NEW x, NEW es \in SUBSET Entries, es \subseteq H,
         Refs(s, H, x), Unref(s, es).ub = "none"
  PROVE  /\ Refs(Unref(s, es), H \ es, x)
         /\ \A e \in Entries : Unref(s, es).e[e].st = "live" => s.e[e].st = "live"
<1> DEFINE u == Unref(s, es)
<1>1. /\ u \in CoreState
      /\ u.qm = s.qm /\ u.gd = s.gd /\ u.t = s.t
      /\ \A q \in Queues : u.q[q].st = s.q[q].st /\ Ents(u, q) = Ents(s, q)
      /\ \A e \in Entries : u.e[e].q = s.e[e].q /\ u.e[e].name = s.e[e].name /\ u.e[e].trk = s.e[e].trk
      /\ \A e \in Entries : e \notin es => u.e[e] = s.e[e]
      /\ \A e \in es : IF s.e[e].used <= 1
                       THEN u.e[e].used = 0 /\ u.e[e].st = "freed"
                       ELSE u.e[e].used = s.e[e].used - 1 /\ u.e[e].st = s.e[e].st
  BY UnrefFields
<1> HIDE DEF u
<1>2. ASSUME NEW e \in Entries
      PROVE  ShownBy(u, e, x) = ShownBy(s, e, x) /\ PlayedBy(u, e) = PlayedBy(s, e)
  BY <1>1 DEF ShownBy, PlayedBy, Active
<1>3. ASSUME NEW e \in Entries
      PROVE  /\ u.e[e].used = Cardinality(ShownBy(u, e, x)) + Cardinality(PlayedBy(u, e))
                              + (IF e \in H \ es THEN 1 ELSE 0)
             /\ u.e[e].st = "live" <=> u.e[e].used # 0
             /\ u.e[e].st = "live" => s.e[e].st = "live"
             /\ u.e[e].st # "none" => s.e[e].st # "none"
  <2> DEFINE a == Cardinality(ShownBy(s, e, x))
             b == Cardinality(PlayedBy(s, e))
  <2>1. a \in Nat /\ b \in Nat
    BY Finite
  <2>2. s.e[e].used = a + b + (IF e \in H THEN 1 ELSE 0) /\ (s.e[e].st = "live" <=> s.e[e].used # 0)
    BY DEF Refs, Counted
  <2>3. ShownBy(u, e, x) = ShownBy(s, e, x) /\ PlayedBy(u, e) = PlayedBy(s, e)
    BY <1>2
  <2> HIDE DEF a, b
  <2>4. /\ u.e[e].used = a + b + (IF e \in H \ es THEN 1 ELSE 0)
        /\ u.e[e].st = "live" <=> u.e[e].used # 0
        /\ u.e[e].st = "live" => s.e[e].st = "live"
        /\ u.e[e].st # "none" => s.e[e].st # "none"
    <3>1. CASE e \notin es
      BY <1>1, <2>2, <3>1
    <3>2. CASE e \in es /\ s.e[e].used <= 1
      <4>1. e \in H /\ s.e[e].used = a + b + 1
        BY <2>2, <3>2
      <4>2. a = 0 /\ b = 0 /\ s.e[e].st = "live"
        BY <2>1, <2>2, <3>2, <4>1
      <4>3. u.e[e].used = 0 /\ u.e[e].st = "freed"
        BY <1>1, <3>2
      <4> QED BY <3>2, <4>2, <4>3, States
    <3>3. CASE e \in es /\ ~(s.e[e].used <= 1)
      <4>1. e \in H /\ s.e[e].used = a + b + 1
        BY <2>2, <3>3
      <4>2. u.e[e].used = a + b /\ a + b # 0 /\ s.e[e].st = "live"
        BY <1>1, <2>1, <2>2, <3>3, <4>1
      <4>3. u.e[e].st = s.e[e].st
        BY <1>1, <3>3
      <4> QED BY <2>1, <3>3, <4>2, <4>3, States
    <3> QED BY <3>1, <3>2, <3>3
  <2> QED BY <2>3, <2>4 DEF a, b
<1>4. Counted(u, H \ es, x)
  BY <1>3 DEF Counted
<1>5. TracksOk(u)
  BY <1>1 DEF Refs, TracksOk, Active
<1>6. ListsOk(u)
  BY <1>1 DEF Refs, ListsOk
<1>7. NamesOk(u)
  BY <1>1, <1>3 DEF Refs, NamesOk
<1> QED BY <1>3, <1>4, <1>5, <1>6, <1>7 DEF Refs, u

\* qe_play takes a reference for the track.
LEMMA PlaysRefs ==
  ASSUME NEW s \in CoreState, NEW u \in CoreState, NEW H, NEW x, NEW e \in Entries,
         Refs(s, H, x), s.e[e].st = "live", Plays(u, s, e)
  PROVE  Refs(u, H, x) /\ \A d \in Entries : u.e[d].st = s.e[d].st
<1>1. PICK t \in Tracks :
       /\ s.t[t].st = "none" /\ u.t[t].st = "run" /\ u.t[t].e = e
       /\ \A k \in Tracks : k # t => u.t[k].e = s.t[k].e /\ (Active(u, k) <=> Active(s, k))
       /\ u.e[e].st = s.e[e].st /\ u.e[e].used = s.e[e].used + 1 /\ u.e[e].trk = t
       /\ \A d \in Entries : d # e => u.e[d] = s.e[d]
       /\ u.gd.playing = t
  BY DEF Plays
<1>2. /\ \A q \in Queues : u.q[q].st = s.q[q].st /\ Ents(u, q) = Ents(s, q)
      /\ \A d \in Entries : u.e[d].q = s.e[d].q /\ u.e[d].name = s.e[d].name
  BY DEF Plays, SameLists
<1>3. Active(u, t) /\ ~Active(s, t)
  BY <1>1 DEF Active
<1>4. ASSUME NEW d \in Entries
      PROVE  ShownBy(u, d, x) = ShownBy(s, d, x)
  BY <1>2 DEF ShownBy
<1>5. PlayedBy(u, e) = PlayedBy(s, e) \union {t} /\ t \notin PlayedBy(s, e)
  BY <1>1, <1>3 DEF PlayedBy
<1>6. \A d \in Entries : d # e => PlayedBy(u, d) = PlayedBy(s, d)
  BY <1>1, <1>3 DEF PlayedBy
<1>7. ASSUME NEW d \in Entries
      PROVE  /\ u.e[d].used = Cardinality(ShownBy(u, d, x)) + Cardinality(PlayedBy(u, d))
                              + (IF d \in H THEN 1 ELSE 0)
             /\ u.e[d].st = "live" <=> u.e[d].used # 0
  <2>1. /\ s.e[d].used = Cardinality(ShownBy(s, d, x)) + Cardinality(PlayedBy(s, d))
                         + (IF d \in H THEN 1 ELSE 0)
        /\ s.e[d].st = "live" <=> s.e[d].used # 0
    BY DEF Refs, Counted
  <2>2. CASE d # e
    BY <1>1, <1>4, <1>6, <2>1, <2>2
  <2>3. CASE d = e
    <3>1. Cardinality(PlayedBy(u, d)) = Cardinality(PlayedBy(s, d)) + 1
      BY <1>5, <2>3, Finite, CardOneMore
    <3>2. Cardinality(ShownBy(s, d, x)) \in Nat /\ Cardinality(PlayedBy(s, d)) \in Nat
      BY Finite
    <3>3. s.e[e].used >= 1
      <4> DEFINE a == Cardinality(ShownBy(s, d, x))
                 b == Cardinality(PlayedBy(s, d))
      <4> HIDE DEF a, b
      <4>1. s.e[e].used = a + b + (IF d \in H THEN 1 ELSE 0) /\ s.e[e].used # 0
        BY <2>1, <2>3 DEF a, b
      <4>2. a \in Nat /\ b \in Nat
        BY <3>2 DEF a, b
      <4> QED BY <4>1, <4>2
    <3>4. u.e[d].used = s.e[d].used + 1 /\ u.e[d].st = "live" /\ ShownBy(u, d, x) = ShownBy(s, d, x)
      BY <1>1, <1>4, <2>3
    <3> DEFINE a == Cardinality(ShownBy(s, d, x))
               b == Cardinality(PlayedBy(s, d))
               c == Cardinality(PlayedBy(u, d))
               h == IF d \in H THEN 1 ELSE 0
    <3>5. s.e[d].used = a + b + h /\ c = b + 1 /\ a \in Nat /\ b \in Nat /\ h \in Nat
      BY <2>1, <3>1, <3>2
    <3> HIDE DEF a, b, c, h
    <3>6. u.e[d].used = a + c + h /\ u.e[d].used # 0
      BY <3>4, <3>5
    <3> QED BY <3>4, <3>6 DEF a, c, h
  <2> QED BY <2>2, <2>3
<1>8. Counted(u, H, x)
  BY <1>7 DEF Counted
<1>9. TracksOk(u)
  <2>1. ASSUME NEW k \in Tracks, Active(u, k)
        PROVE  u.t[k].e # 0
    BY <1>1, <2>1, Bounds DEF Refs, TracksOk
  <2>2. ASSUME NEW d \in Entries, u.e[d].trk # 0
        PROVE  Active(u, u.e[d].trk) /\ u.t[u.e[d].trk].e = d
    <3>1. CASE d = e
      BY <1>1, <1>3, <3>1
    <3>2. CASE d # e
      <4>1. u.e[d].trk = s.e[d].trk /\ s.e[d].trk \in Tracks
        BY <1>1, <2>2, <3>2, Bounds, CoreFields, EntryFields
      <4>2. Active(s, s.e[d].trk) /\ s.t[s.e[d].trk].e = d
        BY <2>2, <4>1 DEF Refs, TracksOk
      <4> QED BY <1>1, <1>3, <4>1, <4>2
    <3> QED BY <3>1, <3>2
  <2>3. Active(u, u.gd.playing)
    BY <1>1, <1>3
  <2> QED BY <2>1, <2>2, <2>3 DEF TracksOk
<1>10. ListsOk(u)
  BY <1>2 DEF Refs, ListsOk
<1>11. \A d \in Entries : u.e[d].st = s.e[d].st
  BY <1>1
<1>12. NamesOk(u)
  BY <1>2, <1>11 DEF Refs, NamesOk
<1> QED BY <1>8, <1>9, <1>10, <1>11, <1>12 DEF Refs

\* q_add, q_insert: the new entry is in one list.
LEMMA QAddRefs ==
  ASSUME NEW s \in CoreState, NEW H, NEW q \in Queues, NEW name \in Names,
         Refs(s, H, 0), s.q[q].st = "live", \E e \in Entries : s.e[e].st = "none"
  PROVE  Refs(QAdd(s, q, name), H, 0)
<1> DEFINE u == QAdd(s, q, name)
           e == NewId(s.e)
<1>1. /\ u \in CoreState
      /\ e \in Entries /\ s.e[e].st = "none"
      /\ u.e[e].st = "live" /\ u.e[e].used = 1 /\ u.e[e].q = q /\ u.e[e].name = name
      /\ u.e[e].trk = 0
      /\ \A d \in Entries : d # e => u.e[d] = s.e[d]
      /\ Ents(u, q) = Append(Ents(s, q), e)
      /\ \A p \in Queues : p # q => Ents(u, p) = Ents(s, p)
      /\ \A p \in Queues : u.q[p].st = s.q[p].st
      /\ u.t = s.t /\ u.gd = s.gd
  BY QAddFields
<1> HIDE DEF u, e
<1>2. Ents(s, q) \in Seq(Entries)
  BY CoreFields, QueueFields DEF Ents
<1>3. \A d : Contains(Ents(u, q), d) <=> Contains(Ents(s, q), d) \/ d = e
  BY <1>1, <1>2, AppendContains
<1>4. ShownBy(s, e, 0) = {} /\ PlayedBy(s, e) = {} /\ e \notin H
  BY <1>1, ShownLive, States
<1>5. ShownBy(u, e, 0) = {q}
  <2>1. \A p \in Queues : p # q => (Contains(Ents(u, p), e) <=> Contains(Ents(s, p), e))
    BY <1>1
  <2>2. \A p \in Queues : p \notin ShownBy(s, e, 0)
    BY <1>4
  <2>3. q \in ShownBy(u, e, 0)
    BY <1>1, <1>3, Bounds DEF ShownBy
  <2>4. ASSUME NEW p \in ShownBy(u, e, 0), p # q
        PROVE  FALSE
    <3>1. p \in Queues /\ p # 0 /\ u.q[p].st = "live" /\ Contains(Ents(u, p), e)
      BY DEF ShownBy
    <3>2. p \in ShownBy(s, e, 0)
      BY <1>1, <2>1, <2>4, <3>1 DEF ShownBy
    <3> QED BY <2>2, <3>1, <3>2
  <2> QED BY <2>3, <2>4
<1>6. \A d \in Entries : d # e => ShownBy(u, d, 0) = ShownBy(s, d, 0)
  BY <1>1, <1>3 DEF ShownBy
<1>7. \A d \in Entries : PlayedBy(u, d) = PlayedBy(s, d)
  BY <1>1 DEF PlayedBy, Active
<1>8. Counted(u, H, 0)
  <2>1. ASSUME NEW d \in Entries
        PROVE  /\ u.e[d].used = Cardinality(ShownBy(u, d, 0)) + Cardinality(PlayedBy(u, d))
                                + (IF d \in H THEN 1 ELSE 0)
               /\ u.e[d].st = "live" <=> u.e[d].used # 0
    <3>1. CASE d = e
      <4>1. Cardinality(ShownBy(u, d, 0)) = 1
        BY <1>5, <3>1, FS_Singleton
      <4>2. Cardinality(PlayedBy(u, d)) = 0
        BY <1>4, <1>7, <3>1, FS_EmptySet
      <4> QED BY <1>1, <1>4, <3>1, <4>1, <4>2
    <3>2. CASE d # e
      <4>1. u.e[d] = s.e[d] /\ ShownBy(u, d, 0) = ShownBy(s, d, 0) /\ PlayedBy(u, d) = PlayedBy(s, d)
        BY <1>1, <1>6, <1>7, <3>2
      <4> QED BY <4>1 DEF Refs, Counted
    <3> QED BY <3>1, <3>2
  <2> QED BY <2>1 DEF Counted
<1>9. TracksOk(u)
  <2>1. \A k \in Tracks : Active(u, k) <=> Active(s, k)
    BY <1>1 DEF Active
  <2>2. ASSUME NEW d \in Entries, u.e[d].trk # 0
        PROVE  Active(u, u.e[d].trk) /\ u.t[u.e[d].trk].e = d
    <3>1. d # e /\ u.e[d] = s.e[d]
      BY <1>1, <2>2
    <3> QED BY <1>1, <2>2, <3>1 DEF Refs, TracksOk, Active
  <2> QED BY <1>1, <2>1, <2>2 DEF Refs, TracksOk, Active
<1>10. ListsOk(u)
  <2>1. ~Contains(Ents(s, q), e)
    <3>1. q \notin ShownBy(s, e, 0)
      BY <1>4
    <3> QED BY <3>1, Bounds DEF ShownBy
  <2>2. Once(Ents(s, q))
    BY DEF Refs, ListsOk
  <2>3. Once(Ents(u, q))
    BY <1>1, <1>2, <2>1, <2>2, OnceAppend
  <2> QED BY <1>1, <2>3 DEF Refs, ListsOk
<1>11. NamesOk(u)
  BY <1>1 DEF Refs, NamesOk
<1> QED BY <1>8, <1>9, <1>10, <1>11 DEF Refs, u

\* A list that loses entries: they are held until qe_unref.
LEMMA EntsRefs ==
  ASSUME NEW s \in CoreState, NEW q \in Queues, NEW l \in Seq(Entries), Refs(s, {}, 0), Once(l),
         \A e : Contains(l, e) => Contains(Ents(s, q), e)
  PROVE  Refs(WithEnts(s, q, l),
              { e \in Entries : Contains(Ents(s, q), e) /\ ~Contains(l, e) }, 0)
<1> DEFINE u == WithEnts(s, q, l)
           H == { e \in Entries : Contains(Ents(s, q), e) /\ ~Contains(l, e) }
<1>1. /\ u \in CoreState /\ Ents(u, q) = l
      /\ \A p \in Queues : p # q => Ents(u, p) = Ents(s, p)
      /\ \A p \in Queues : u.q[p].st = s.q[p].st
      /\ u.e = s.e /\ u.t = s.t /\ u.gd = s.gd
  BY EntsFields
<1> HIDE DEF u
<1>2. ASSUME NEW e \in Entries
      PROVE  /\ u.e[e].used = Cardinality(ShownBy(u, e, 0)) + Cardinality(PlayedBy(u, e))
                              + (IF e \in H THEN 1 ELSE 0)
             /\ u.e[e].st = "live" <=> u.e[e].used # 0
  <2>1. PlayedBy(u, e) = PlayedBy(s, e)
    BY <1>1 DEF PlayedBy, Active
  <2>2. /\ s.e[e].used = Cardinality(ShownBy(s, e, 0)) + Cardinality(PlayedBy(s, e))
        /\ s.e[e].st = "live" <=> s.e[e].used # 0
    <3>1. Cardinality(ShownBy(s, e, 0)) \in Nat /\ Cardinality(PlayedBy(s, e)) \in Nat
      BY Finite
    <3> QED BY <3>1 DEF Refs, Counted
  <2>3. CASE e \in H
    <3>1. s.q[q].st = "live"
      BY <2>3, ListedLive
    <3>2. ShownBy(s, e, 0) = ShownBy(u, e, 0) \union {q} /\ q \notin ShownBy(u, e, 0)
      BY <1>1, <2>3, <3>1, Bounds DEF ShownBy
    <3>3. Cardinality(ShownBy(s, e, 0)) = Cardinality(ShownBy(u, e, 0)) + 1
      BY <3>2, Finite, CardOneMore
    <3>4. Cardinality(ShownBy(u, e, 0)) \in Nat /\ Cardinality(PlayedBy(s, e)) \in Nat
      BY Finite
    <3> QED BY <1>1, <2>1, <2>2, <2>3, <3>3, <3>4
  <2>4. CASE e \notin H
    <3>1. Contains(Ents(u, q), e) <=> Contains(Ents(s, q), e)
      BY <1>1, <2>4
    <3>2. ShownBy(s, e, 0) = ShownBy(u, e, 0)
      BY <1>1, <3>1 DEF ShownBy
    <3>4. Cardinality(ShownBy(u, e, 0)) \in Nat /\ Cardinality(PlayedBy(s, e)) \in Nat
      BY Finite
    <3> QED BY <1>1, <2>1, <2>2, <2>4, <3>2, <3>4
  <2> QED BY <2>3, <2>4
<1>3. Counted(u, H, 0)
  BY <1>2 DEF Counted
<1>4. TracksOk(u)
  BY <1>1 DEF Refs, TracksOk, Active
<1>5. ListsOk(u)
  <2>1. ASSUME l # <<>>
        PROVE  s.q[q].st = "live"
    <3>1. l[1] \in Entries /\ 1 \in 1..Len(l)
      BY <2>1
    <3>2. Contains(Ents(s, q), l[1])
      BY <3>1 DEF Contains
    <3> QED BY <3>1, <3>2, ListedLive
  <2> QED BY <1>1, <2>1 DEF Refs, ListsOk
<1>6. NamesOk(u)
  BY <1>1 DEF Refs, NamesOk
<1> QED BY <1>3, <1>4, <1>5, <1>6 DEF Refs, u

\* The elements of a list, as a set.
LEMMA Listed ==
  ASSUME NEW s \in CoreState, NEW q \in Queues
  PROVE  /\ Ents(s, q) \in Seq(Entries) /\ ToSet(Ents(s, q)) \in SUBSET Entries
         /\ \A e : e \in ToSet(Ents(s, q)) <=> Contains(Ents(s, q), e)
         /\ \A e : Contains(Ents(s, q), e) => e \in Entries
<1>1. Ents(s, q) \in Seq(Entries)
  BY CoreFields, QueueFields DEF Ents
<1> DEFINE l == Ents(s, q)
<1> HIDE DEF l
<1>2. l \in Seq(Entries)
  BY <1>1 DEF l
<1>3. DOMAIN l = 1..Len(l) /\ \A i \in 1..Len(l) : l[i] \in Entries
  BY <1>2
<1>4. \A e : e \in ToSet(l) <=> Contains(l, e)
  BY <1>3 DEF ToSet, Contains
<1>5. \A e : Contains(l, e) => e \in Entries
  BY <1>3 DEF Contains
<1> QED BY <1>2, <1>4, <1>5 DEF l

\* q_free gives back the references of the list.
LEMMA QFreeRefs ==
  ASSUME NEW s \in CoreState, NEW q \in Queues, Refs(s, {}, 0), s.q[q].st = "live",
         QFree(s, q).ub = "none"
  PROVE  /\ Refs(QFree(s, q), {}, 0)
         /\ \A e \in Entries : QFree(s, q).e[e].st = "live" => s.e[e].st = "live"
<1> DEFINE es == ToSet(Ents(s, q))
           w == Unref(s, es)
           u == QFree(s, q)
<1>1. es \in SUBSET Entries /\ \A e : e \in es <=> Contains(Ents(s, q), e)
  BY Listed
<1> HIDE DEF es
<1>2. /\ u \in CoreState /\ u.q[q].st = "freed" /\ Ents(u, q) = <<>>
      /\ \A p \in Queues : p # q => u.q[p].st = s.q[p].st /\ Ents(u, p) = Ents(s, p)
      /\ u.e = w.e /\ u.ub = w.ub
      /\ u.qm = s.qm /\ u.t = s.t /\ u.gd = s.gd /\ u.made = s.made
  BY QFreeFields DEF es
<1>3. /\ w \in CoreState
      /\ w.qm = s.qm /\ w.gd = s.gd /\ w.t = s.t
      /\ \A p \in Queues : w.q[p].st = s.q[p].st /\ Ents(w, p) = Ents(s, p)
  BY <1>1, UnrefFields
<1>4. w.ub = "none"
  BY <1>2
<1> HIDE DEF u
<1>5. Refs(s, es, q)
  <2>1. ASSUME NEW e \in Entries
        PROVE  /\ s.e[e].used = Cardinality(ShownBy(s, e, q)) + Cardinality(PlayedBy(s, e))
                                + (IF e \in es THEN 1 ELSE 0)
               /\ s.e[e].st = "live" <=> s.e[e].used # 0
    <3>1. /\ s.e[e].used = Cardinality(ShownBy(s, e, 0)) + Cardinality(PlayedBy(s, e)) + 0
          /\ s.e[e].st = "live" <=> s.e[e].used # 0
      BY DEF Refs, Counted
    <3>2. /\ Cardinality(ShownBy(s, e, 0)) \in Nat /\ Cardinality(PlayedBy(s, e)) \in Nat
          /\ Cardinality(ShownBy(s, e, q)) \in Nat
      BY Finite
    <3>3. CASE e \in es
      <4>1. ShownBy(s, e, 0) = ShownBy(s, e, q) \union {q} /\ q \notin ShownBy(s, e, q)
        BY <1>1, <3>3, Bounds DEF ShownBy
      <4>2. Cardinality(ShownBy(s, e, 0)) = Cardinality(ShownBy(s, e, q)) + 1
        BY <4>1, Finite, CardOneMore
      <4> QED BY <3>1, <3>2, <3>3, <4>2
    <3>4. CASE e \notin es
      <4>1. ShownBy(s, e, 0) = ShownBy(s, e, q)
        BY <1>1, <3>4, Bounds DEF ShownBy
      <4> QED BY <3>1, <3>2, <3>4, <4>1
    <3> QED BY <3>3, <3>4
  <2> QED BY <2>1 DEF Refs, Counted
<1>6. /\ Refs(w, es \ es, q)
      /\ \A e \in Entries : w.e[e].st = "live" => s.e[e].st = "live"
  BY <1>1, <1>4, <1>5, UnrefRefs
<1>7. es \ es = {}
  OBVIOUS
<1> HIDE DEF w
<1>8. Refs(w, {}, q)
  BY <1>6, <1>7
<1>9. Counted(u, {}, 0)
  <2>1. ASSUME NEW e \in Entries
        PROVE  ShownBy(u, e, 0) = ShownBy(w, e, q) /\ PlayedBy(u, e) = PlayedBy(w, e)
    <3>1. \A p \in Queues : p \in ShownBy(u, e, 0) <=> p \in ShownBy(w, e, q)
      BY <1>2, <1>3, Bounds, States DEF ShownBy
    <3>2. ShownBy(u, e, 0) \subseteq Queues /\ ShownBy(w, e, q) \subseteq Queues
      BY DEF ShownBy
    <3> QED BY <1>2, <1>3, <3>1, <3>2 DEF PlayedBy, Active
  <2> QED BY <1>2, <1>8, <2>1 DEF Refs, Counted
<1>10. TracksOk(u)
  BY <1>2, <1>3, <1>8 DEF Refs, TracksOk, Active
<1>11. ListsOk(u)
  <2>1. Once(<<>>)
    BY DEF Once
  <2> QED BY <1>2, <2>1 DEF Refs, ListsOk
<1>12. NamesOk(u)
  BY <1>2, <1>8 DEF Refs, NamesOk
<1> QED BY <1>2, <1>6, <1>9, <1>10, <1>11, <1>12 DEF Refs, u

\* qm_add of a queue that is new.
LEMMA QmAddRefs ==
  ASSUME NEW s \in CoreState, NEW H, NEW q \in Queues, Refs(s, H, 0), s.q[q].st = "none"
  PROVE  Refs(QmAdd(s, q), H, 0) /\ Ents(s, q) = <<>>
<1> DEFINE u == QmAdd(s, q)
<1>1. /\ u \in CoreState /\ u.q[q].st = "live"
      /\ \A p \in Queues : p # q => u.q[p].st = s.q[p].st
      /\ \A p \in Queues : Ents(u, p) = Ents(s, p)
      /\ u.e = s.e /\ u.t = s.t /\ u.gd = s.gd
  BY QmAddFields
<1> HIDE DEF u
<1>2. Ents(s, q) = <<>>
  BY States DEF Refs, ListsOk
<1>3. \A e : ~Contains(Ents(s, q), e)
  BY <1>2 DEF Contains
<1>4. ASSUME NEW e \in Entries
      PROVE  ShownBy(u, e, 0) = ShownBy(s, e, 0) /\ PlayedBy(u, e) = PlayedBy(s, e)
  <2>1. \A p \in Queues : p \in ShownBy(u, e, 0) <=> p \in ShownBy(s, e, 0)
    BY <1>1, <1>3 DEF ShownBy
  <2>2. ShownBy(u, e, 0) \subseteq Queues /\ ShownBy(s, e, 0) \subseteq Queues
    BY DEF ShownBy
  <2> QED BY <1>1, <2>1, <2>2 DEF PlayedBy, Active
<1>5. Counted(u, H, 0)
  BY <1>1, <1>4 DEF Refs, Counted
<1>6. TracksOk(u)
  BY <1>1 DEF Refs, TracksOk, Active
<1>7. ListsOk(u)
  BY <1>1, <1>2 DEF Refs, ListsOk
<1>8. NamesOk(u)
  BY <1>1 DEF Refs, NamesOk
<1> QED BY <1>2, <1>5, <1>6, <1>7, <1>8 DEF Refs, u

\* qe_filter, q_filter: the new queue f with the entries that match.
Hits(s, q, text) == Keep(Ents(s, q), { e \in Entries : s.e[e].name \in text.shows })

LEMMA QFilterFields ==
  ASSUME NEW s \in CoreState, NEW q \in Queues, NEW text, \E p \in Queues : s.q[p].st = "none"
  PROVE  LET u == QFilter(s, q, text)
             f == NewId(s.q)
             hits == Hits(s, q, text)
         IN /\ u \in CoreState /\ f \in Queues /\ s.q[f].st = "none" /\ u.q[f].st = "live"
            /\ \A p \in Queues : p # f => u.q[p].st = s.q[p].st /\ Ents(u, p) = Ents(s, p)
            /\ Ents(u, f) = hits /\ hits \in Seq(Entries)
            /\ \A e \in Entries : u.e[e].used = s.e[e].used + (IF Contains(hits, e) THEN 1 ELSE 0)
            /\ \A e \in Entries : /\ u.e[e].st = s.e[e].st /\ u.e[e].q = s.e[e].q
                                  /\ u.e[e].name = s.e[e].name /\ u.e[e].trk = s.e[e].trk
            /\ u.qm.lists = Append(s.qm.lists, f) /\ u.qm.selected = s.qm.selected
            /\ u.t = s.t /\ u.gd = s.gd /\ u.made = f /\ u.ub = s.ub
<1> DEFINE f == NewId(s.q)
           hits == Hits(s, q, text)
           u == QFilter(s, q, text)
           E == [e \in Entries |->
                   IF Contains(hits, e) THEN [s.e[e] EXCEPT !.used = @ + 1] ELSE s.e[e]]
           a == QmAdd(s, f)
           b == WithEnts(a, f, hits)
           c == [b EXCEPT !.made = f]
<1>1. s.e \in [Entries -> EntryRec] /\ s.q \in [Queues -> QueueRec]
  BY CoreFields
<1>2. f \in Queues /\ s.q[f].st = "none" /\ f \in QueueIds
  BY <1>1, Bounds, NewIdFree DEF Queues
<1>3. hits \in Seq(Entries)
  BY Listed, KeepElements DEF Hits
<1>4. E \in [Entries -> EntryRec]
  <2>1. ASSUME NEW e \in Entries
        PROVE  s.e[e] \in EntryRec /\ [s.e[e] EXCEPT !.used = @ + 1] \in EntryRec
    <3>1. s.e[e] \in EntryRec /\ s.e[e].used + 1 \in Int
      BY <1>1, EntryFields
    <3> QED BY <3>1, EntryFields
  <2> QED BY <2>1
<1>5. \A e \in Entries : /\ E[e].used = s.e[e].used + (IF Contains(hits, e) THEN 1 ELSE 0)
                         /\ E[e].st = s.e[e].st /\ E[e].q = s.e[e].q
                         /\ E[e].name = s.e[e].name /\ E[e].trk = s.e[e].trk
  <2> HIDE DEF hits
  <2>1. ASSUME NEW e \in Entries
        PROVE  /\ E[e].used = s.e[e].used + (IF Contains(hits, e) THEN 1 ELSE 0)
               /\ E[e].st = s.e[e].st /\ E[e].q = s.e[e].q
               /\ E[e].name = s.e[e].name /\ E[e].trk = s.e[e].trk
    <3> DEFINE r == s.e[e]
    <3>1. r \in EntryRec /\ r.used \in Int
      BY <1>1, EntryFields
    <3>2. E[e] = IF Contains(hits, e) THEN [r EXCEPT !.used = r.used + 1] ELSE r
      OBVIOUS
    <3> HIDE DEF r, E
    <3>3. CASE Contains(hits, e)
      <4>1. E[e] = [r EXCEPT !.used = r.used + 1]
        BY <3>2, <3>3
      <4>2. /\ E[e].used = r.used + 1 /\ E[e].st = r.st /\ E[e].q = r.q
            /\ E[e].name = r.name /\ E[e].trk = r.trk
        BY <3>1, <4>1 DEF EntryRec
      <4> QED BY <3>3, <4>2 DEF r
    <3>4. CASE ~Contains(hits, e)
      BY <3>1, <3>2, <3>4 DEF r
    <3> QED BY <3>3, <3>4
  <2> QED BY <2>1
<1>6. u = [c EXCEPT !.e = E]
  BY Zenon DEF QFilter, WithEnts, Hits
<1> HIDE DEF f, hits, E, u
<1>7. /\ a \in CoreState
      /\ a.qm.lists = Append(s.qm.lists, f) /\ a.qm.selected = s.qm.selected
      /\ a.q[f].st = "live"
      /\ \A p \in Queues : p # f => a.q[p].st = s.q[p].st
      /\ \A p \in Queues : Ents(a, p) = Ents(s, p)
      /\ a.e = s.e /\ a.t = s.t /\ a.gd = s.gd /\ a.made = s.made /\ a.ub = s.ub
  BY <1>2, QmAddFields
<1> HIDE DEF a
<1>8. /\ b \in CoreState /\ Ents(b, f) = hits
      /\ \A p \in Queues : p # f => Ents(b, p) = Ents(a, p)
      /\ \A p \in Queues : b.q[p].st = a.q[p].st
      /\ b.e = a.e /\ b.qm = a.qm /\ b.t = a.t /\ b.gd = a.gd /\ b.made = a.made
      /\ b.ub = a.ub
  BY <1>2, <1>3, <1>7, EntsFields
<1> HIDE DEF b
<1>9. /\ c \in CoreState /\ c.made = f /\ c.qm = b.qm /\ c.q = b.q /\ c.e = b.e /\ c.t = b.t
      /\ c.gd = b.gd /\ c.ub = b.ub
  BY <1>2, <1>8, CoreFields, CoreChanges
<1> HIDE DEF c
<1>10. /\ u \in CoreState /\ u.e = E /\ u.made = c.made /\ u.qm = c.qm /\ u.q = c.q /\ u.t = c.t
       /\ u.gd = c.gd /\ u.ub = c.ub
  BY <1>4, <1>6, <1>9, CoreFields, CoreChanges
<1>11. \A p \in Queues : Ents(u, p) = Ents(b, p) /\ u.q[p].st = a.q[p].st
  BY <1>8, <1>9, <1>10 DEF Ents
<1> QED BY <1>2, <1>3, <1>5, <1>7, <1>8, <1>9, <1>10, <1>11 DEF f, hits, u

LEMMA QFilterRefs ==
  ASSUME NEW s \in CoreState, NEW q \in Queues, NEW text, \E p \in Queues : s.q[p].st = "none",
         Refs(s, {}, 0)
  PROVE  Refs(QFilter(s, q, text), {}, 0)
<1> DEFINE f == NewId(s.q)
           hits == Hits(s, q, text)
           u == QFilter(s, q, text)
<1>1. /\ u \in CoreState /\ f \in Queues /\ s.q[f].st = "none" /\ u.q[f].st = "live"
      /\ \A p \in Queues : p # f => u.q[p].st = s.q[p].st /\ Ents(u, p) = Ents(s, p)
      /\ Ents(u, f) = hits /\ hits \in Seq(Entries)
      /\ \A e \in Entries : u.e[e].used = s.e[e].used + (IF Contains(hits, e) THEN 1 ELSE 0)
      /\ \A e \in Entries : /\ u.e[e].st = s.e[e].st /\ u.e[e].q = s.e[e].q
                            /\ u.e[e].name = s.e[e].name /\ u.e[e].trk = s.e[e].trk
      /\ u.t = s.t /\ u.gd = s.gd
  BY QFilterFields
<1>2. \A e : Contains(hits, e) => Contains(Ents(s, q), e)
  BY Listed, KeepElements DEF Hits
<1>3. Once(hits)
  BY Listed, KeepOnce DEF Hits, Refs, ListsOk
<1> HIDE DEF f, hits, u
<1>4. \A e : ~Contains(Ents(s, f), e)
  <2>1. Ents(s, f) = <<>>
    BY <1>1, States DEF Refs, ListsOk
  <2> QED BY <2>1 DEF Contains
<1>5. ASSUME NEW e \in Entries
      PROVE  /\ u.e[e].used = Cardinality(ShownBy(u, e, 0)) + Cardinality(PlayedBy(u, e))
                              + (IF e \in {} THEN 1 ELSE 0)
             /\ u.e[e].st = "live" <=> u.e[e].used # 0
  <2>1. PlayedBy(u, e) = PlayedBy(s, e)
    BY <1>1 DEF PlayedBy, Active
  <2>2. /\ s.e[e].used = Cardinality(ShownBy(s, e, 0)) + Cardinality(PlayedBy(s, e)) + 0
        /\ s.e[e].st = "live" <=> s.e[e].used # 0
    BY DEF Refs, Counted
  <2>3. /\ Cardinality(ShownBy(s, e, 0)) \in Nat /\ Cardinality(PlayedBy(s, e)) \in Nat
        /\ Cardinality(ShownBy(u, e, 0)) \in Nat
    BY Finite
  <2>4. CASE Contains(hits, e)
    <3>1. f \notin ShownBy(s, e, 0) /\ ShownBy(u, e, 0) = ShownBy(s, e, 0) \union {f}
      <4>1. \A p \in Queues : p \in ShownBy(u, e, 0) <=> p \in ShownBy(s, e, 0) \/ p = f
        BY <1>1, <1>4, <2>4, Bounds DEF ShownBy
      <4>2. ShownBy(u, e, 0) \subseteq Queues /\ ShownBy(s, e, 0) \subseteq Queues
        BY DEF ShownBy
      <4>3. f \notin ShownBy(s, e, 0)
        BY <1>4 DEF ShownBy
      <4> QED BY <1>1, <4>1, <4>2, <4>3
    <3>2. Cardinality(ShownBy(u, e, 0)) = Cardinality(ShownBy(s, e, 0)) + 1
      BY <3>1, Finite, CardOneMore
    <3>3. s.e[e].st = "live" /\ s.e[e].used >= 1
      BY <1>2, <2>4, ListedLive
    <3>4. u.e[e].used = s.e[e].used + 1 /\ u.e[e].st = s.e[e].st
      BY <1>1, <2>4
    <3>5. s.e[e].used \in Int
      BY CoreFields, EntryFields
    <3> DEFINE x == Cardinality(ShownBy(s, e, 0))
               y == Cardinality(PlayedBy(s, e))
               z == Cardinality(ShownBy(u, e, 0))
    <3>6. z = x + 1 /\ s.e[e].used = x + y + 0 /\ x \in Nat /\ y \in Nat
      BY <2>2, <2>3, <3>2
    <3> HIDE DEF x, y, z
    <3>7. u.e[e].used = z + y + 0 /\ u.e[e].used # 0
      BY <3>4, <3>6
    <3> QED BY <2>1, <3>3, <3>4, <3>7 DEF y, z
  <2>5. CASE ~Contains(hits, e)
    <3>1. ShownBy(u, e, 0) = ShownBy(s, e, 0)
      <4>1. \A p \in Queues : p \in ShownBy(u, e, 0) <=> p \in ShownBy(s, e, 0)
        BY <1>1, <1>4, <2>5 DEF ShownBy
      <4>2. ShownBy(u, e, 0) \subseteq Queues /\ ShownBy(s, e, 0) \subseteq Queues
        BY DEF ShownBy
      <4> QED BY <4>1, <4>2
    <3>2. u.e[e].used = s.e[e].used + 0 /\ u.e[e].st = s.e[e].st /\ s.e[e].used \in Int
      BY <1>1, <2>5, CoreFields, EntryFields
    <3> QED BY <2>1, <2>2, <2>3, <3>1, <3>2
  <2> QED BY <2>4, <2>5
<1>6. Counted(u, {}, 0)
  BY <1>5 DEF Counted
<1>7. TracksOk(u)
  BY <1>1 DEF Refs, TracksOk, Active
<1>8. ListsOk(u)
  BY <1>1, <1>3 DEF Refs, ListsOk
<1>9. NamesOk(u)
  BY <1>1 DEF Refs, NamesOk
<1> QED BY <1>6, <1>7, <1>8, <1>9 DEF Refs, u

\* What the counters are about.
LEMMA RefsFrame ==
  ASSUME NEW s, NEW u, NEW H, NEW x, Refs(s, H, x),
         \A q \in Queues : u.q[q].st = s.q[q].st /\ Ents(u, q) = Ents(s, q),
         u.e = s.e, u.t = s.t, u.gd.playing = s.gd.playing
  PROVE  Refs(u, H, x)
<1>1. \A e \in Entries : ShownBy(u, e, x) = ShownBy(s, e, x) /\ PlayedBy(u, e) = PlayedBy(s, e)
  BY DEF ShownBy, PlayedBy, Active
<1>2. Counted(u, H, x)
  BY <1>1 DEF Refs, Counted
<1>3. TracksOk(u)
  BY DEF Refs, TracksOk, Active
<1>4. ListsOk(u) /\ NamesOk(u)
  BY DEF Refs, ListsOk, NamesOk
<1> QED BY <1>2, <1>3, <1>4 DEF Refs

\* Queue q has the list l now, and the entries that are gone are unreferenced.
Lost(u, s, q, l) ==
  /\ u \in CoreState /\ u.qm = s.qm /\ u.gd = s.gd /\ u.t = s.t /\ u.made = s.made
  /\ \A p \in Queues : u.q[p].st = s.q[p].st
  /\ Ents(u, q) = l /\ \A p \in Queues : p # q => Ents(u, p) = Ents(s, p)
  /\ \A e \in Entries : u.e[e].q = s.e[e].q /\ u.e[e].name = s.e[e].name /\ u.e[e].trk = s.e[e].trk
  /\ u.ub = "none" => s.ub = "none"

LEMMA UnrefLost ==
  ASSUME NEW s \in CoreState, NEW x \in CoreState, NEW q \in Queues, NEW l \in Seq(Entries),
         NEW es \in SUBSET Entries,
         Ents(x, q) = l, \A p \in Queues : p # q => Ents(x, p) = Ents(s, p),
         \A p \in Queues : x.q[p].st = s.q[p].st,
         x.e = s.e, x.qm = s.qm, x.t = s.t, x.gd = s.gd, x.made = s.made, x.ub = s.ub
  PROVE  /\ Lost(Unref(x, es), s, q, l)
         /\ s.ub = "none" /\ (\A e \in es : s.q[s.e[e].q].st # "freed") => Unref(x, es).ub = "none"
         /\ /\ Refs(s, {}, 0) /\ Once(l) /\ Unref(x, es).ub = "none"
            /\ \A e : Contains(l, e) => Contains(Ents(s, q), e)
            /\ \A e : e \in es <=> Contains(Ents(s, q), e) /\ ~Contains(l, e)
            => /\ Refs(Unref(x, es), {}, 0)
               /\ \A e \in Entries : Unref(x, es).e[e].st = "live" => s.e[e].st = "live"
<1> DEFINE u == Unref(x, es)
<1>1. Lost(u, s, q, l)
  <2>1. /\ u \in CoreState /\ u.qm = x.qm /\ u.gd = x.gd /\ u.t = x.t /\ u.made = x.made
        /\ \A p \in Queues : u.q[p].st = x.q[p].st /\ Ents(u, p) = Ents(x, p)
        /\ \A e \in Entries : u.e[e].q = x.e[e].q /\ u.e[e].name = x.e[e].name /\ u.e[e].trk = x.e[e].trk
        /\ u.ub = "none" => x.ub = "none"
    BY UnrefFields
  <2> HIDE DEF u
  <2> QED BY <2>1 DEF Lost
<1>2. ASSUME s.ub = "none", \A e \in es : s.q[s.e[e].q].st # "freed"
      PROVE  u.ub = "none"
  <2>1. \A e \in es : x.q[x.e[e].q].st # "freed"
    <3>1. \A e \in Entries : s.e[e].q \in Queues
      BY CoreFields, EntryFields
    <3> QED BY <1>2, <3>1
  <2>2. x.ub = "none"
    BY <1>2
  <2> QED BY <2>1, <2>2, UnrefFields
<1>3. ASSUME Refs(s, {}, 0), Once(l), u.ub = "none",
             \A e : Contains(l, e) => Contains(Ents(s, q), e),
             \A e : e \in es <=> Contains(Ents(s, q), e) /\ ~Contains(l, e)
      PROVE  Refs(u, {}, 0) /\ \A e \in Entries : u.e[e].st = "live" => s.e[e].st = "live"
  <2> DEFINE w == WithEnts(s, q, l)
             H == { e \in Entries : Contains(Ents(s, q), e) /\ ~Contains(l, e) }
  <2>1. Refs(w, H, 0)
    BY <1>3, EntsRefs
  <2>2. /\ Ents(w, q) = l
        /\ \A p \in Queues : p # q => Ents(w, p) = Ents(s, p)
        /\ \A p \in Queues : w.q[p].st = s.q[p].st
        /\ w.e = s.e /\ w.t = s.t /\ w.gd = s.gd
    BY EntsFields
  <2>3. H = es
    BY <1>3, Listed
  <2> HIDE DEF w, H
  <2>4. \A p \in Queues : x.q[p].st = w.q[p].st /\ Ents(x, p) = Ents(w, p)
    BY <2>2
  <2>5. Refs(x, es, 0)
    BY <2>1, <2>2, <2>3, <2>4, RefsFrame
  <2>6. Refs(u, es \ es, 0) /\ \A e \in Entries : u.e[e].st = "live" => x.e[e].st = "live"
    BY <1>3, <2>5, UnrefRefs
  <2>7. es \ es = {}
    OBVIOUS
  <2> QED BY <2>6, <2>7
<1> QED BY <1>1, <1>2, <1>3

\* A list that loses entries of its queue.
Loses(u, s, q, l) ==
  /\ Lost(u, s, q, l)
  /\ Refs(s, {}, 0) /\ u.ub = "none" =>
       Refs(u, {}, 0) /\ \A e \in Entries : u.e[e].st = "live" => s.e[e].st = "live"
  /\ s.ub = "none" /\ Refs(s, {}, 0) /\ Home(s) => u.ub = "none"

LEMMA HomeKnown ==
  ASSUME NEW s \in CoreState, NEW H, Refs(s, H, 0), Home(s), NEW q \in Queues, NEW e,
         Contains(Ents(s, q), e)
  PROVE  s.q[s.e[e].q].st # "freed"
<1>1. e \in Entries
  BY Listed
<1>2. s.e[e].st = "live"
  BY <1>1, ListedLive
<1> QED BY <1>1, <1>2, States DEF Home

\* q_remove_at
LEMMA QRemoveAtLoses ==
  ASSUME NEW s \in CoreState, NEW q \in Queues, NEW i \in 1..Len(Ents(s, q))
  PROVE  Loses(QRemoveAt(s, q, i), s, q, RemoveAt(Ents(s, q), i))
<1> DEFINE l == RemoveAt(Ents(s, q), i)
           e == Ents(s, q)[i]
           c == s.q[q].cidx
           p == i - 1
           back == c > 0 /\ (p < c \/ (p = c /\ i = Len(Ents(s, q))))
           n == IF back THEN c - 1 ELSE c
           w == WithEnts(s, q, l)
           x == [w EXCEPT !.q[q].cidx = n]
           es == {e}
           u == QRemoveAt(s, q, i)
<1>1. u = Unref(x, es)
  BY DEF QRemoveAt, WithEnts, Ents, CoreState
<1>2. /\ Ents(s, q) \in Seq(Entries) /\ l \in Seq(Entries) /\ e \in Entries /\ es \in SUBSET Entries
      /\ Contains(Ents(s, q), e)
  <2>1. Ents(s, q) \in Seq(Entries)
    BY Listed
  <2>2. e \in Entries /\ Contains(Ents(s, q), e)
    BY <2>1 DEF Contains
  <2> QED BY <2>1, <2>2, RemoveElements
<1>3. n \in Int
  BY CoreFields, QueueFields
<1> HIDE DEF n, u
<1>4. Once(Ents(s, q)) => /\ Once(l)
                          /\ \A d : Contains(l, d) <=> Contains(Ents(s, q), d) /\ d # e
  BY <1>2, RemoveListed
<1> HIDE DEF l, e
<1>5. /\ w \in CoreState /\ Ents(w, q) = l
      /\ \A k \in Queues : k # q => Ents(w, k) = Ents(s, k)
      /\ \A k \in Queues : w.q[k].st = s.q[k].st
      /\ w.e = s.e /\ w.qm = s.qm /\ w.t = s.t /\ w.gd = s.gd /\ w.made = s.made
      /\ w.ub = s.ub
  BY <1>2, EntsFields
<1> HIDE DEF w
<1>6. /\ x \in CoreState
      /\ \A k \in Queues : x.q[k].st = w.q[k].st /\ Ents(x, k) = Ents(w, k)
      /\ x.e = w.e /\ x.qm = w.qm /\ x.t = w.t /\ x.gd = w.gd /\ x.made = w.made
      /\ x.ub = w.ub
  BY <1>3, <1>5, CidxFields
<1> HIDE DEF x, es
<1>7. /\ x \in CoreState /\ Ents(x, q) = l
      /\ \A k \in Queues : k # q => Ents(x, k) = Ents(s, k)
      /\ \A k \in Queues : x.q[k].st = s.q[k].st
      /\ x.e = s.e /\ x.qm = s.qm /\ x.t = s.t /\ x.gd = s.gd /\ x.made = s.made
      /\ x.ub = s.ub
  BY <1>5, <1>6
<1>8. Lost(u, s, q, l)
  BY <1>1, <1>2, <1>7, UnrefLost
<1>9. ASSUME Refs(s, {}, 0), u.ub = "none"
      PROVE  Refs(u, {}, 0) /\ \A d \in Entries : u.e[d].st = "live" => s.e[d].st = "live"
  <2>1. /\ Once(l) /\ \A d : Contains(l, d) => Contains(Ents(s, q), d)
        /\ \A d : d \in es <=> Contains(Ents(s, q), d) /\ ~Contains(l, d)
    BY <1>2, <1>4, <1>9 DEF Refs, ListsOk, es
  <2> QED BY <1>1, <1>2, <1>7, <1>9, <2>1, UnrefLost
<1>10. ASSUME s.ub = "none", Refs(s, {}, 0), Home(s)
       PROVE  u.ub = "none"
  <2>1. \A d \in es : s.q[s.e[d].q].st # "freed"
    BY <1>2, <1>10, HomeKnown DEF es
  <2> QED BY <1>1, <1>2, <1>7, <1>10, <2>1, UnrefLost
<1> QED BY <1>8, <1>9, <1>10 DEF Loses, u, l

\* q_clear
LEMMA QClearLoses ==
  ASSUME NEW s \in CoreState, NEW q \in Queues
  PROVE  Loses(QClear(s, q), s, q, <<>>)
<1> DEFINE l == <<>>
           es == ToSet(Ents(s, q))
           x == WithEnts(s, q, l)
           u == QClear(s, q)
<1>1. u = Unref(x, es)
  BY Zenon DEF QClear, WithEnts
<1>2. /\ l \in Seq(Entries) /\ Once(l) /\ \A e : ~Contains(l, e)
  BY DEF Once, Contains
<1>3. es \in SUBSET Entries /\ \A e : e \in es <=> Contains(Ents(s, q), e)
  BY Listed
<1> HIDE DEF l, es, u
<1>4. /\ x \in CoreState /\ Ents(x, q) = l
      /\ \A k \in Queues : k # q => Ents(x, k) = Ents(s, k)
      /\ \A k \in Queues : x.q[k].st = s.q[k].st
      /\ x.e = s.e /\ x.qm = s.qm /\ x.t = s.t /\ x.gd = s.gd /\ x.made = s.made
      /\ x.ub = s.ub
  BY <1>2, EntsFields
<1> HIDE DEF x
<1>5. Lost(u, s, q, l)
  BY <1>1, <1>2, <1>3, <1>4, UnrefLost
<1>6. ASSUME Refs(s, {}, 0), u.ub = "none"
      PROVE  Refs(u, {}, 0) /\ \A d \in Entries : u.e[d].st = "live" => s.e[d].st = "live"
  <2>1. /\ \A d : Contains(l, d) => Contains(Ents(s, q), d)
        /\ \A d : d \in es <=> Contains(Ents(s, q), d) /\ ~Contains(l, d)
    BY <1>2, <1>3
  <2> QED BY <1>1, <1>2, <1>3, <1>4, <1>6, <2>1, UnrefLost
<1>7. ASSUME s.ub = "none", Refs(s, {}, 0), Home(s)
      PROVE  u.ub = "none"
  <2>1. \A d \in es : s.q[s.e[d].q].st # "freed"
    BY <1>3, <1>7, HomeKnown
  <2> QED BY <1>1, <1>2, <1>3, <1>4, <1>7, <2>1, UnrefLost
<1> QED BY <1>5, <1>6, <1>7 DEF Loses, u, l

-----------------------------------------------------------------------------
(* What a command leads to.                                                *)

Calm(s) == s.ub = "none" /\ Home(s) /\ DefaultOk(s)

Leads(s, u) ==
  /\ u \in CoreState
  /\ u.ub = "none" => Sound(u)
  /\ Calm(s) => Calm(u)

Shape(s) == OwnOk(s, {s.gd.filtered}) /\ FilterOk(s) /\ TabsOk(s)

LEMMA SoundParts ==
  ASSUME NEW s
  PROVE  Sound(s) <=> Refs(s, {}, 0) /\ Shape(s)
BY DEF Sound, Refs, Shape

\* Lists that stay or lose entries, behind the same tabs.
Fewer(u, s) ==
  /\ u.qm = s.qm /\ SameTabs(u, s)
  /\ \A q \in Queues : u.q[q].st = s.q[q].st
  /\ \A q \in Queues : \A e \in Entries : Contains(Ents(u, q), e) => Contains(Ents(s, q), e)
  /\ \A e \in Entries : u.e[e].q = s.e[e].q /\ u.e[e].name = s.e[e].name

LEMMA TabsFrame ==
  ASSUME NEW s, NEW u, TabsOk(s), u.qm = s.qm, SameTabs(u, s),
         s \in CoreState, \A q \in Queues : u.q[q].st = s.q[q].st
  PROVE  TabsOk(u)
<1>1. s.gd.filtered # 0 => s.gd.filtered \in Queues
  BY Bounds, CoreFields DEF GdRec
<1> QED BY <1>1 DEF TabsOk, SameTabs

LEMMA ShapeFrame ==
  ASSUME NEW s \in CoreState, NEW u \in CoreState, Shape(s), Fewer(u, s)
  PROVE  Shape(u)
<1>1. TabsOk(u)
  BY TabsFrame DEF Shape, Fewer
<1>2. OwnOk(u, {u.gd.filtered})
  BY DEF Shape, OwnOk, Fewer, SameTabs
<1>3. FilterOk(u)
  <2>1. s.gd.filtered # 0 => s.gd.filtered \in Queues
    BY Bounds, CoreFields DEF GdRec
  <2> QED BY <2>1 DEF Shape, FilterOk, Fewer, SameTabs
<1> QED BY <1>1, <1>2, <1>3 DEF Shape

LEMMA FewerLeads ==
  ASSUME NEW s \in CoreState, NEW u \in CoreState, Sound(s), Fewer(u, s),
         u.ub = "none" =>
           Refs(u, {}, 0) /\ \A e \in Entries : u.e[e].st = "live" => s.e[e].st = "live",
         s.ub = "none" /\ Home(s) => u.ub = "none"
  PROVE  Leads(s, u)
<1>1. Shape(u)
  BY SoundParts, ShapeFrame
<1>2. u.ub = "none" => Sound(u)
  BY <1>1, SoundParts
<1>3. ASSUME Calm(s)
      PROVE  Calm(u)
  <2>1. u.ub = "none"
    BY <1>3 DEF Calm
  <2>2. Home(u)
    <3>1. \A e \in Entries : s.e[e].q \in Queues
      BY CoreFields, EntryFields
    <3> QED BY <1>3, <2>1, <3>1 DEF Calm, Home, Fewer, SameTabs
  <2>3. DefaultOk(u)
    BY <1>3 DEF Calm, DefaultOk, Fewer, SameTabs
  <2> QED BY <2>1, <2>2, <2>3 DEF Calm
<1> QED BY <1>2, <1>3 DEF Leads

LEMMA SameFewer ==
  ASSUME NEW s, NEW u, SameLists(u, s)
  PROVE  Fewer(u, s)
BY DEF SameLists, Fewer

LEMMA LostLeads ==
  ASSUME NEW s \in CoreState, NEW u, NEW q \in Queues, NEW l, Sound(s), Loses(u, s, q, l),
         \A e : Contains(l, e) => Contains(Ents(s, q), e)
  PROVE  Leads(s, u)
<1>1. Fewer(u, s)
  BY DEF Loses, Lost, Fewer, SameTabs
<1>2. Refs(s, {}, 0)
  BY SoundParts
<1>3. u \in CoreState
  BY DEF Loses, Lost
<1>4. u.ub = "none" =>
        Refs(u, {}, 0) /\ \A e \in Entries : u.e[e].st = "live" => s.e[e].st = "live"
  BY <1>2 DEF Loses
<1>5. s.ub = "none" /\ Home(s) => u.ub = "none"
  BY <1>2 DEF Loses
<1> QED BY <1>1, <1>3, <1>4, <1>5, FewerLeads

\* q_play and q_play_next, while the running function holds the entries H.
PlaysOn(u, s, H) ==
  /\ u \in CoreState
  /\ u.ub = "none" =>
       /\ s.ub = "none" /\ Refs(u, H, 0) /\ SameLists(u, s)
       /\ \A e \in Entries : u.e[e].st = s.e[e].st
  /\ s.ub = "none" /\ Home(s) => u.ub = "none"

LEMMA SameHolds ==
  ASSUME NEW s \in CoreState, NEW H, Refs(s, H, 0)
  PROVE  PlaysOn(s, s, H)
BY DEF PlaysOn, SameLists, SameTabs

LEMMA QPlayOn ==
  ASSUME NEW s \in CoreState, NEW H, Refs(s, H, 0), NEW e \in Entries, s.e[e].st = "live",
         \E t \in Tracks : s.t[t].st = "none"
  PROVE  PlaysOn(QPlay(s, e), s, H)
<1> DEFINE u == QPlay(s, e)
<1>1. /\ u \in CoreState
      /\ s.q[s.e[e].q].st # "freed" => u.ub = s.ub
      /\ u.ub = "none" => Plays(u, s, e)
  BY QPlayFields DEF Refs
<1> HIDE DEF u
<1>2. ASSUME u.ub = "none"
      PROVE  /\ s.ub = "none" /\ Refs(u, H, 0) /\ SameLists(u, s)
             /\ \A d \in Entries : u.e[d].st = s.e[d].st
  <2>1. Plays(u, s, e)
    BY <1>1, <1>2
  <2>2. Refs(u, H, 0) /\ \A d \in Entries : u.e[d].st = s.e[d].st
    BY <1>1, <2>1, PlaysRefs
  <2> QED BY <2>1, <2>2 DEF Plays
<1>3. s.ub = "none" /\ Home(s) => u.ub = "none"
  BY <1>1, States DEF Home
<1> QED BY <1>1, <1>2, <1>3 DEF PlaysOn, u

LEMMA EntryPlaysOn ==
  ASSUME NEW s \in CoreState, NEW H, Refs(s, H, 0), NEW q \in Queues, NEW i,
         EntryAt(s, q, i) # 0, \E t \in Tracks : s.t[t].st = "none"
  PROVE  PlaysOn(QPlay(s, EntryAt(s, q, i)), s, H)
<1> DEFINE e == EntryAt(s, q, i)
<1>1. e \in Entries /\ Contains(Ents(s, q), e)
  BY EntryAtListed
<1> HIDE DEF e
<1>2. s.e[e].st = "live"
  BY <1>1, ListedLive
<1> QED BY <1>1, <1>2, QPlayOn DEF e

LEMMA QPlayNextOn ==
  ASSUME NEW s \in CoreState, NEW H, Refs(s, H, 0), NEW q \in Queues,
         \E t \in Tracks : s.t[t].st = "none"
  PROVE  PlaysOn(QPlayNext(s, q), s, H)
<1> DEFINE k == PosOf(s, q, s.q[q].cursor)
           i == IF k # 0 THEN k + 1 ELSE s.q[q].cidx + 1
           e == EntryAt(s, q, i)
           u == QPlayNext(s, q)
<1>1. u = IF e = 0 THEN s ELSE QPlay(s, e)
  BY DEF QPlayNext
<1> HIDE DEF i, u
<1>2. CASE e = 0
  BY <1>1, <1>2, SameHolds DEF u
<1>3. CASE e # 0
  <2>1. PlaysOn(QPlay(s, e), s, H)
    BY <1>3, EntryPlaysOn
  <2> QED BY <1>1, <1>3, <2>1 DEF u
<1> QED BY <1>2, <1>3

LEMMA PlaysOnLeads ==
  ASSUME NEW s \in CoreState, NEW u, Sound(s), PlaysOn(u, s, {})
  PROVE  Leads(s, u)
<1>1. CASE u.ub = "none"
  BY <1>1, FewerLeads, SameFewer DEF PlaysOn
<1>2. CASE u.ub # "none"
  BY <1>2 DEF PlaysOn, Leads, Calm
<1> QED BY <1>1, <1>2

LEMMA TrackStFields ==
  ASSUME NEW s \in CoreState, NEW t \in Tracks, NEW v \in TrackStates
  PROVE  LET u == [s EXCEPT !.t[t].st = v]
         IN /\ u \in CoreState /\ u.t[t].st = v /\ u.t[t].e = s.t[t].e
            /\ \A k \in Tracks : k # t => u.t[k] = s.t[k]
            /\ u.q = s.q /\ u.qm = s.qm /\ u.e = s.e /\ u.gd = s.gd /\ u.made = s.made
            /\ u.ub = s.ub
<1> DEFINE r == s.t[t]
           n == [r EXCEPT !.st = v]
           u == [s EXCEPT !.t[t] = n]
<1>1. u = [s EXCEPT !.t[t].st = v]
  BY DEF CoreState
<1>2. r \in TrackRec
  BY CoreFields
<1>3. n \in TrackRec /\ n.st = v /\ n.e = r.e
  <2> HIDE DEF r
  <2> QED BY <1>2 DEF TrackRec
<1> HIDE DEF n, r
<1>4. /\ u \in CoreState /\ u.t[t] = n /\ \A k \in Tracks : k # t => u.t[k] = s.t[k]
      /\ u.q = s.q /\ u.qm = s.qm /\ u.e = s.e /\ u.gd = s.gd /\ u.made = s.made
      /\ u.ub = s.ub
  BY <1>3, TrackSetFields
<1> HIDE DEF u
<1> QED BY <1>1, <1>3, <1>4 DEF r

\* The track t is over; its entry is still referenced.
Over(s, t) ==
  LET e == s.t[t].e
      q == s.e[e].q
  IN [s EXCEPT !.t[t].st = "over", !.gd.playing = IF @ = t THEN 0 ELSE @,
               !.e[e].trk = IF @ = t THEN 0 ELSE @, !.q[q].active = @ - 1]

LEMMA OverFields ==
  ASSUME NEW s \in CoreState, NEW t \in Tracks, NEW e \in Entries, e = s.t[t].e
  PROVE  LET x == Over(s, t)
         IN /\ x \in CoreState /\ SameLists(x, s)
            /\ x.t[t].st = "over" /\ x.t[t].e = e /\ \A k \in Tracks : k # t => x.t[k] = s.t[k]
            /\ x.e[e].st = s.e[e].st /\ x.e[e].used = s.e[e].used
            /\ x.e[e].trk = IF s.e[e].trk = t THEN 0 ELSE s.e[e].trk
            /\ \A d \in Entries : d # e => x.e[d] = s.e[d]
            /\ x.gd.playing = (IF s.gd.playing = t THEN 0 ELSE s.gd.playing)
            /\ x.made = s.made /\ x.ub = s.ub
<1> DEFINE q == s.e[e].q
           v == "over"
           pl == IF s.gd.playing = t THEN 0 ELSE s.gd.playing
           tr == IF s.e[e].trk = t THEN 0 ELSE s.e[e].trk
           ac == s.q[q].active - 1
           a == [s EXCEPT !.t[t].st = v]
           b == [a EXCEPT !.gd.playing = pl]
           c == WithTrk(b, e, tr)
           x == Over(s, t)
<1>1. x = WithActive(c, q, ac)
  BY Zenon DEF Over, WithTrk, WithActive
<1>2. q \in Queues /\ ac \in Int /\ tr \in TrackIds /\ v \in TrackStates
  <2>1. q \in Queues
    BY CoreFields, EntryFields
  <2> HIDE DEF q
  <2>2. ac \in Int
    BY <2>1, CoreFields, QueueFields
  <2>3. tr \in TrackIds
    BY Bounds, CoreFields, EntryFields
  <2> QED BY <2>1, <2>2, <2>3, States
<1>3. pl \in TrackIds
  BY Bounds, CoreFields DEF GdRec
<1> HIDE DEF x, q, ac, tr, pl
<1>4. /\ a \in CoreState /\ a.t[t].st = v /\ a.t[t].e = s.t[t].e
      /\ \A k \in Tracks : k # t => a.t[k] = s.t[k]
      /\ a.q = s.q /\ a.qm = s.qm /\ a.e = s.e /\ a.gd = s.gd /\ a.made = s.made
      /\ a.ub = s.ub
  BY <1>2, TrackStFields
<1> HIDE DEF a, v
<1>5. /\ b \in CoreState /\ b.gd.playing = pl /\ SameTabs(b, a)
      /\ b.q = a.q /\ b.qm = a.qm /\ b.e = a.e /\ b.t = a.t /\ b.made = a.made
      /\ b.ub = a.ub
  BY <1>3, <1>4, PlayingFields
<1> HIDE DEF b
<1>6. /\ c \in CoreState
      /\ c.e[e].trk = tr /\ c.e[e].used = b.e[e].used /\ c.e[e].st = b.e[e].st
      /\ c.e[e].q = b.e[e].q /\ c.e[e].name = b.e[e].name
      /\ \A d \in Entries : d # e => c.e[d] = b.e[d]
      /\ c.q = b.q /\ c.qm = b.qm /\ c.t = b.t /\ c.gd = b.gd /\ c.made = b.made /\ c.ub = b.ub
  <2>1. b \in CoreState /\ tr \in TrackIds
    BY <1>2, <1>5
  <2> DEFINE f == e
  <2>2. f \in Entries
    OBVIOUS
  <2> HIDE DEF f
  <2>3. \A w \in CoreState, m \in TrackIds :
          LET z == WithTrk(w, f, m)
          IN /\ z \in CoreState
             /\ z.e[f].trk = m /\ z.e[f].used = w.e[f].used /\ z.e[f].st = w.e[f].st
             /\ z.e[f].q = w.e[f].q /\ z.e[f].name = w.e[f].name
             /\ \A d \in Entries : d # f => z.e[d] = w.e[d]
             /\ z.q = w.q /\ z.qm = w.qm /\ z.t = w.t /\ z.gd = w.gd /\ z.made = w.made
             /\ z.ub = w.ub
    BY <2>2, TrkFields
  <2> QED BY <2>1, <2>3 DEF f
<1> HIDE DEF c
<1>7. /\ x \in CoreState
      /\ \A p \in Queues : x.q[p].st = c.q[p].st /\ Ents(x, p) = Ents(c, p)
      /\ x.e = c.e /\ x.qm = c.qm /\ x.t = c.t /\ x.gd = c.gd /\ x.made = c.made /\ x.ub = c.ub
  <2> DEFINE y == WithActive(c, q, ac)
  <2>1. c \in CoreState /\ q \in Queues /\ ac \in Int
    BY <1>2, <1>6
  <2>2. /\ y \in CoreState
        /\ \A p \in Queues : y.q[p].st = c.q[p].st /\ Ents(y, p) = Ents(c, p)
        /\ y.e = c.e /\ y.qm = c.qm /\ y.t = c.t /\ y.gd = c.gd /\ y.made = c.made /\ y.ub = c.ub
    BY <2>1, ActiveFields
  <2> HIDE DEF y
  <2>3. x = y
    BY <1>1 DEF y
  <2> QED BY <2>2, <2>3
<1>8. SameLists(x, s)
  <2>1. \A p \in Queues : x.q[p].st = s.q[p].st /\ Ents(x, p) = Ents(s, p)
    <3>1. c.q = s.q
      BY <1>4, <1>5, <1>6
    <3>2. \A p \in Queues : x.q[p].st = c.q[p].st /\ Ents(x, p) = Ents(c, p)
      BY <1>7
    <3> QED BY <3>1, <3>2 DEF Ents
  <2>2. \A d \in Entries : x.e[d].q = s.e[d].q /\ x.e[d].name = s.e[d].name
    <3>1. x.e = c.e /\ b.e = s.e
      BY <1>4, <1>5, <1>7
    <3>2. /\ c.e[e].q = b.e[e].q /\ c.e[e].name = b.e[e].name
          /\ \A d \in Entries : d # e => c.e[d] = b.e[d]
      BY <1>6
    <3> QED BY <3>1, <3>2
  <2>3. x.qm = s.qm /\ SameTabs(x, s)
    BY <1>4, <1>5, <1>6, <1>7 DEF SameTabs
  <2> QED BY <2>1, <2>2, <2>3 DEF SameLists
<1>9. /\ x.e[e].st = s.e[e].st /\ x.e[e].used = s.e[e].used /\ x.e[e].trk = tr
      /\ \A d \in Entries : d # e => x.e[d] = s.e[d]
      /\ x.gd.playing = pl /\ x.made = s.made /\ x.ub = s.ub
  <2>1. x.e = c.e /\ b.e = s.e /\ x.gd.playing = pl
    BY <1>4, <1>5, <1>6, <1>7
  <2>2. x.made = s.made /\ x.ub = s.ub
    BY <1>4, <1>5, <1>6, <1>7
  <2>3. /\ c.e[e].trk = tr /\ c.e[e].used = b.e[e].used /\ c.e[e].st = b.e[e].st
        /\ \A d \in Entries : d # e => c.e[d] = b.e[d]
    BY <1>6
  <2> QED BY <2>1, <2>2, <2>3
<1>10. x.t[t].st = "over" /\ x.t[t].e = e /\ \A k \in Tracks : k # t => x.t[k] = s.t[k]
  BY <1>4, <1>5, <1>6, <1>7 DEF v
<1> QED BY <1>7, <1>8, <1>9, <1>10 DEF x, tr, pl

\* gtrk_close: the reference of the track is left to the running function.
LEMMA OverRefs ==
  ASSUME NEW s \in CoreState, NEW t \in Tracks, NEW e \in Entries, e = s.t[t].e, Active(s, t),
         Refs(s, {}, 0)
  PROVE  Refs(Over(s, t), {e}, 0)
<1> DEFINE x == Over(s, t)
<1>1. /\ x \in CoreState /\ SameLists(x, s)
      /\ x.t[t].st = "over" /\ x.t[t].e = e /\ \A k \in Tracks : k # t => x.t[k] = s.t[k]
      /\ x.e[e].st = s.e[e].st /\ x.e[e].used = s.e[e].used
      /\ x.e[e].trk = IF s.e[e].trk = t THEN 0 ELSE s.e[e].trk
      /\ \A d \in Entries : d # e => x.e[d] = s.e[d]
      /\ x.gd.playing = (IF s.gd.playing = t THEN 0 ELSE s.gd.playing)
  BY OverFields
<1> HIDE DEF x
<1>2. ~Active(x, t) /\ \A k \in Tracks : k # t => (Active(x, k) <=> Active(s, k))
  BY <1>1 DEF Active
<1>3. \A q \in Queues : x.q[q].st = s.q[q].st /\ Ents(x, q) = Ents(s, q)
  BY <1>1 DEF SameLists
<1>4. \A d \in Entries : ShownBy(x, d, 0) = ShownBy(s, d, 0)
  BY <1>3 DEF ShownBy
<1>5. PlayedBy(s, e) = PlayedBy(x, e) \union {t} /\ t \notin PlayedBy(x, e)
  BY <1>1, <1>2 DEF PlayedBy
<1>6. \A d \in Entries : d # e => PlayedBy(x, d) = PlayedBy(s, d)
  BY <1>1, <1>2 DEF PlayedBy
<1>7. ASSUME NEW d \in Entries
      PROVE  /\ x.e[d].used = Cardinality(ShownBy(x, d, 0)) + Cardinality(PlayedBy(x, d))
                              + (IF d \in {e} THEN 1 ELSE 0)
             /\ x.e[d].st = "live" <=> x.e[d].used # 0
  <2>1. /\ s.e[d].used = Cardinality(ShownBy(s, d, 0)) + Cardinality(PlayedBy(s, d)) + 0
        /\ s.e[d].st = "live" <=> s.e[d].used # 0
    BY DEF Refs, Counted
  <2>2. CASE d # e
    BY <1>1, <1>4, <1>6, <2>1, <2>2
  <2>3. CASE d = e
    <3>1. Cardinality(PlayedBy(s, d)) = Cardinality(PlayedBy(x, d)) + 1
      BY <1>5, <2>3, Finite, CardOneMore
    <3>2. Cardinality(ShownBy(s, d, 0)) \in Nat /\ Cardinality(PlayedBy(x, d)) \in Nat
      BY Finite
    <3>3. x.e[d].used = s.e[d].used /\ x.e[d].st = s.e[d].st /\ ShownBy(x, d, 0) = ShownBy(s, d, 0)
      BY <1>1, <1>4, <2>3
    <3> QED BY <2>1, <2>3, <3>1, <3>2, <3>3
  <2> QED BY <2>2, <2>3
<1>8. Counted(x, {e}, 0)
  BY <1>7 DEF Counted
<1>9. TracksOk(x)
  <2>1. ASSUME NEW k \in Tracks, Active(x, k)
        PROVE  x.t[k].e # 0
    BY <1>1, <1>2, <2>1 DEF Refs, TracksOk
  <2>2. ASSUME NEW d \in Entries, x.e[d].trk # 0
        PROVE  Active(x, x.e[d].trk) /\ x.t[x.e[d].trk].e = d
    <3>1. x.e[d].trk = s.e[d].trk /\ s.e[d].trk \in Tracks
      BY <1>1, <2>2, Bounds, CoreFields, EntryFields
    <3>2. Active(s, s.e[d].trk) /\ s.t[s.e[d].trk].e = d
      BY <2>2, <3>1 DEF Refs, TracksOk
    <3>3. s.e[d].trk # t
      BY <1>1, <2>2, <3>1, <3>2
    <3> QED BY <1>1, <1>2, <3>1, <3>2, <3>3
  <2>3. ASSUME x.gd.playing # 0
        PROVE  Active(x, x.gd.playing)
    <3>1. x.gd.playing = s.gd.playing /\ x.gd.playing # t /\ s.gd.playing \in Tracks
      BY <1>1, <2>3, Bounds, CoreFields DEF GdRec
    <3>2. Active(s, s.gd.playing)
      BY <2>3, <3>1 DEF Refs, TracksOk
    <3> QED BY <1>2, <3>1, <3>2
  <2> QED BY <2>1, <2>2, <2>3 DEF TracksOk
<1>10. ListsOk(x)
  BY <1>3 DEF Refs, ListsOk
<1>11. NamesOk(x)
  BY <1>1 DEF Refs, NamesOk, SameLists
<1> QED BY <1>8, <1>9, <1>10, <1>11 DEF Refs, x

LEMMA SameTwice ==
  ASSUME NEW s, NEW u, NEW w, SameLists(u, s), SameLists(w, u)
  PROVE  SameLists(w, s)
BY DEF SameLists, SameTabs

\* qe_close: the end of a track, by itself or because it was stopped.
LEMMA QeCloseLeads ==
  ASSUME NEW s \in CoreState, NEW t \in Tracks, Sound(s), Active(s, t),
         s.t[t].st = "run" => \E k \in Tracks : s.t[k].st = "none"
  PROVE  Leads(s, QeClose(s, t)) /\ (QeClose(s, t).ub = "none" => SameLists(QeClose(s, t), s))
<1> DEFINE e == s.t[t].e
           q == s.e[e].q
           x == Over(s, t)
           y == IF s.t[t].st = "run" THEN QPlayNext(x, q) ELSE x
           es == {e}
           u == QeClose(s, t)
<1>1. Refs(s, {}, 0)
  BY SoundParts
<1>2. e \in Entries
  BY <1>1, Bounds, CoreFields, TrackFields DEF Refs, TracksOk
<1>3. q \in Queues
  BY <1>2, CoreFields, EntryFields
<1>4. s.e[e].st = "live"
  <2>1. t \in PlayedBy(s, e)
    BY DEF PlayedBy
  <2> QED BY <1>1, <1>2, <2>1, ShownLive
<1>5. CASE s.q[q].st = "freed"
  <2>1. u = Bad(s, "freed") /\ "freed" \in Faults
    BY <1>5 DEF QeClose, Faults
  <2>2. ~Home(s)
    BY <1>2, <1>4, <1>5, States DEF Home
  <2> HIDE DEF u
  <2>3. u \in CoreState /\ u.ub # "none"
    BY <2>1, BadFields
  <2> QED BY <2>2, <2>3 DEF Leads, Calm, u
<1>6. CASE s.q[q].st # "freed"
  <2>1. u = Unref(y, es)
    BY Zenon, <1>6 DEF QeClose, Over
  <2>2. es \in SUBSET Entries /\ es \subseteq es
    BY <1>2
  <2>3. Refs(x, es, 0)
    BY <1>1, <1>2, OverRefs
  <2>4. /\ x \in CoreState /\ SameLists(x, s)
        /\ x.t[t].st = "over" /\ \A k \in Tracks : k # t => x.t[k] = s.t[k]
        /\ x.e[e].st = s.e[e].st
        /\ \A d \in Entries : d # e => x.e[d] = s.e[d]
        /\ x.ub = s.ub
    BY <1>2, OverFields
  <2> HIDE DEF x, e, q, u, es
  <2>5. PlaysOn(y, x, es)
    <3>1. CASE s.t[t].st = "run"
      <4>1. PICK k \in Tracks : s.t[k].st = "none"
        BY <3>1
      <4>2. k # t
        BY <3>1, <4>1
      <4>3. x.t[k].st = "none"
        BY <2>4, <4>1, <4>2
      <4>4. PlaysOn(QPlayNext(x, q), x, es)
        BY <1>3, <2>3, <2>4, <4>3, QPlayNextOn
      <4> QED BY <3>1, <4>4
    <3>2. CASE s.t[t].st # "run"
      BY <2>3, <2>4, <3>2, SameHolds
    <3> QED BY <3>1, <3>2
  <2> HIDE DEF y
  <2>6. /\ u \in CoreState /\ u.qm = y.qm /\ u.gd = y.gd
        /\ \A p \in Queues : u.q[p].st = y.q[p].st /\ Ents(u, p) = Ents(y, p)
        /\ \A d \in Entries : u.e[d].q = y.e[d].q /\ u.e[d].name = y.e[d].name
        /\ u.ub = "none" => y.ub = "none"
    BY <2>1, <2>2, <2>5, UnrefFields DEF PlaysOn
  <2>7. SameLists(u, y)
    BY <2>6 DEF SameLists, SameTabs
  <2>8. ASSUME u.ub = "none"
        PROVE  /\ SameLists(u, s) /\ Refs(u, {}, 0)
               /\ \A d \in Entries : u.e[d].st = "live" => s.e[d].st = "live"
    <3>1. /\ y.ub = "none" /\ Refs(y, es, 0) /\ SameLists(y, x) /\ y \in CoreState
          /\ \A d \in Entries : y.e[d].st = x.e[d].st
      BY <2>5, <2>6, <2>8 DEF PlaysOn
    <3>2. /\ Refs(u, es \ es, 0)
          /\ \A d \in Entries : u.e[d].st = "live" => y.e[d].st = "live"
      BY <2>1, <2>2, <2>8, <3>1, UnrefRefs
    <3>3. es \ es = {}
      OBVIOUS
    <3>4. SameLists(u, s)
      BY <2>4, <2>7, <3>1, SameTwice
    <3>5. Refs(u, {}, 0)
      BY <3>2, <3>3
    <3>6. \A d \in Entries : x.e[d].st = s.e[d].st
      BY <1>2, <2>4
    <3> QED BY <3>1, <3>2, <3>4, <3>5, <3>6
  <2>9. ASSUME s.ub = "none", Home(s)
        PROVE  u.ub = "none"
    <3>1. x.ub = "none" /\ Home(x)
      <4>1. \A d \in Entries : x.e[d].st = s.e[d].st /\ x.e[d].q = s.e[d].q /\ s.e[d].q \in Queues
        BY <1>2, <2>4, CoreFields, EntryFields DEF SameLists
      <4>2. \A p \in Queues : x.q[p].st = s.q[p].st
        BY <2>4 DEF SameLists
      <4>3. x.gd.filtered = s.gd.filtered
        BY <2>4 DEF SameLists, SameTabs
      <4> QED BY <2>4, <2>9, <4>1, <4>2, <4>3 DEF Home
    <3>2. y.ub = "none"
      BY <2>5, <3>1 DEF PlaysOn
    <3>3. y.e[e].q = q /\ y.q[q].st = s.q[q].st
      BY <1>2, <1>3, <2>4, <2>5, <3>2 DEF PlaysOn, SameLists, q
    <3>4. \A d \in es : y.q[y.e[d].q].st # "freed"
      BY <1>6, <3>3 DEF es
    <3> QED BY <2>1, <2>2, <2>5, <3>2, <3>4, UnrefFields DEF PlaysOn
  <2>10. u.ub = "none" => Fewer(u, s)
    BY <2>8, SameFewer
  <2>11. Leads(s, u)
    <3>1. CASE u.ub = "none"
      BY <2>6, <2>8, <2>10, <3>1, FewerLeads
    <3>2. CASE u.ub # "none"
      BY <2>6, <2>9, <3>2 DEF Leads, Calm
    <3> QED BY <3>1, <3>2
  <2> QED BY <2>8, <2>11 DEF u
<1> QED BY <1>5, <1>6

\* The records of the tabs.
LEMMA GdFields ==
  ASSUME NEW s \in CoreState
  PROVE  /\ s.gd.lists \in Seq(Queues) /\ s.gd.selected \in Queues /\ s.gd.convert \in QueueIds
         /\ s.gd.filtered \in QueueIds /\ s.gd.len \in Nat /\ s.gd.text \in TextRec
         /\ s.gd.tabconv \in BOOLEAN /\ s.gd.playing \in TrackIds
         /\ s.qm.lists \in Seq(Queues) /\ s.qm.selected \in Nat
         /\ s.gd.filtered # 0 => s.gd.filtered \in Queues
         /\ s.gd.convert # 0 => s.gd.convert \in Queues
<1>1. s.gd \in GdRec /\ s.qm \in QmRec
  BY CoreFields
<1> DEFINE g == s.gd
<1> HIDE DEF g
<1>2. g \in GdRec
  BY <1>1 DEF g
<1>3. /\ g.lists \in Seq(Queues) /\ g.selected \in Queues /\ g.convert \in QueueIds
      /\ g.filtered \in QueueIds /\ g.len \in Nat /\ g.text \in TextRec
      /\ g.tabconv \in BOOLEAN /\ g.playing \in TrackIds
  BY <1>2 DEF GdRec
<1>4. s.qm.lists \in Seq(Queues) /\ s.qm.selected \in Nat
  BY <1>1 DEF QmRec
<1> QED BY <1>3, <1>4, Bounds DEF g

\* Another record of the tabs.
LEMMA GdChange ==
  ASSUME NEW s \in CoreState, NEW g \in GdRec
  PROVE  LET u == [s EXCEPT !.gd = g]
         IN /\ u \in CoreState /\ u.gd = g /\ u.qm = s.qm /\ u.q = s.q /\ u.e = s.e /\ u.t = s.t
            /\ u.made = s.made /\ u.ub = s.ub
BY CoreFields, CoreChanges

\* The tabs of u are those of s, without the filtered list.
Unfiltered(u, s) ==
  /\ u \in CoreState /\ u.t = s.t /\ u.made = s.made /\ u.qm.selected = s.qm.selected
  /\ u.gd.lists = s.gd.lists /\ u.gd.selected = s.gd.selected /\ u.gd.convert = s.gd.convert
  /\ u.gd.text = s.gd.text /\ u.gd.tabconv = s.gd.tabconv /\ u.gd.playing = s.gd.playing
  /\ u.gd.filtered = 0
  /\ u.qm.lists = Keep(s.qm.lists, Queues \ {s.gd.filtered})
  /\ \A q \in Queues : IF q = s.gd.filtered THEN u.q[q].st = "freed" /\ Ents(u, q) = <<>>
                       ELSE u.q[q].st = s.q[q].st /\ Ents(u, q) = Ents(s, q)
  /\ \A e \in Entries : u.e[e].q = s.e[e].q /\ u.e[e].name = s.e[e].name /\ u.e[e].trk = s.e[e].trk
  /\ u.ub = "none" => s.ub = "none"

\* list_filter_close
LEMMA ListFilterCloseFields ==
  ASSUME NEW s \in CoreState, s.gd.filtered # 0 => s.q[s.gd.filtered].st = "live"
  PROVE  LET u == ListFilterClose(s)
         IN /\ Unfiltered(u, s)
            /\ Refs(s, {}, 0) /\ u.ub = "none" =>
                 Refs(u, {}, 0) /\ \A e \in Entries : u.e[e].st = "live" => s.e[e].st = "live"
            /\ s.ub = "none" /\ Refs(s, {}, 0) /\ Home(s) => u.ub = "none"
<1> DEFINE u == ListFilterClose(s)
           f == s.gd.filtered
<1>1. CASE f = 0
  <2>1. u = s
    BY <1>1 DEF ListFilterClose
  <2> HIDE DEF u
  <2>2. \A x : Contains(s.qm.lists, x) => x \in Queues \ {f}
    BY <1>1, GdFields, Bounds DEF Contains
  <2>3. Keep(s.qm.lists, Queues \ {f}) = s.qm.lists
    BY <2>2, GdFields, KeepAll
  <2>4. \A q \in Queues : q # f
    BY <1>1, Bounds
  <2> QED BY <1>1, <2>1, <2>3, <2>4 DEF Unfiltered, u
<1>2. CASE f # 0
  <2> DEFINE a == QmRm(s, f)
             b == QFree(a, f)
             w == Unref(a, ToSet(Ents(a, f)))
  <2>1. u = [b EXCEPT !.gd.filtered = 0]
    BY <1>2 DEF ListFilterClose
  <2>2. f \in Queues /\ s.q[f].st = "live"
    BY <1>2, GdFields
  <2> HIDE DEF f, u
  <2>3. /\ a \in CoreState
        /\ a.qm.lists = Keep(s.qm.lists, Queues \ {f})
        /\ a.qm.selected = s.qm.selected
        /\ a.q = s.q /\ a.e = s.e /\ a.t = s.t
        /\ a.gd = s.gd /\ a.made = s.made /\ a.ub = s.ub
    BY QmRmFields
  <2> HIDE DEF a
  <2>4. /\ b \in CoreState /\ b.q[f].st = "freed" /\ Ents(b, f) = <<>>
        /\ \A p \in Queues : p # f => b.q[p].st = a.q[p].st /\ Ents(b, p) = Ents(a, p)
        /\ b.e = w.e /\ b.ub = w.ub
        /\ b.qm = a.qm /\ b.t = a.t /\ b.gd = a.gd /\ b.made = a.made
    BY <2>2, <2>3, QFreeFields
  <2>5. /\ \A e \in Entries : w.e[e].q = a.e[e].q /\ w.e[e].name = a.e[e].name /\ w.e[e].trk = a.e[e].trk
        /\ w.ub = "none" => a.ub = "none"
        /\ a.ub = "none" /\ (\A e \in ToSet(Ents(a, f)) : a.q[a.e[e].q].st # "freed") => w.ub = "none"
    BY <2>2, <2>3, UnrefFields, Listed
  <2>6. \A p \in Queues : Ents(a, p) = Ents(s, p)
    BY <2>3 DEF Ents
  <2>7. Refs(s, {}, 0) => Refs(a, {}, 0)
    BY <2>3, <2>6, RefsFrame
  <2>8. ASSUME Refs(s, {}, 0), b.ub = "none"
        PROVE  Refs(b, {}, 0) /\ \A e \in Entries : b.e[e].st = "live" => s.e[e].st = "live"
    BY <2>2, <2>3, <2>7, <2>8, QFreeRefs
  <2>9. ASSUME s.ub = "none", Refs(s, {}, 0), Home(s)
        PROVE  b.ub = "none"
    <3>1. \A e \in ToSet(Ents(s, f)) : s.q[s.e[e].q].st # "freed"
      BY <2>2, <2>9, Listed, HomeKnown
    <3>2. \A e \in ToSet(Ents(a, f)) : a.q[a.e[e].q].st # "freed"
      BY <2>2, <2>3, <2>6, <3>1
    <3> QED BY <2>3, <2>4, <2>5, <2>9, <3>2
  <2> HIDE DEF w, b
  <2> DEFINE g == b.gd
             G == [g EXCEPT !.filtered = 0]
             v == [b EXCEPT !.gd = G]
  <2>10. g \in GdRec /\ 0 \in QueueIds
    BY <2>4, CoreFields, Bounds
  <2>11. u = v
    BY <2>1, <2>4 DEF CoreState
  <2> HIDE DEF g
  <2>12. /\ G \in GdRec /\ G.filtered = 0 /\ G.lists = g.lists /\ G.selected = g.selected
         /\ G.convert = g.convert /\ G.text = g.text /\ G.tabconv = g.tabconv
         /\ G.playing = g.playing
    BY <2>10 DEF GdRec
  <2> HIDE DEF G
  <2>13. /\ v \in CoreState /\ v.gd = G /\ v.qm = b.qm /\ v.q = b.q /\ v.e = b.e /\ v.t = b.t
         /\ v.made = b.made /\ v.ub = b.ub
    BY <2>4, <2>12, GdChange
  <2> HIDE DEF v
  <2>14. Unfiltered(u, s)
    <3>1. /\ u \in CoreState /\ u.t = s.t /\ u.made = s.made /\ u.qm.selected = s.qm.selected
          /\ u.qm.lists = Keep(s.qm.lists, Queues \ {f})
      BY <2>3, <2>4, <2>11, <2>13
    <3>2. /\ u.gd.lists = s.gd.lists /\ u.gd.selected = s.gd.selected /\ u.gd.convert = s.gd.convert
          /\ u.gd.text = s.gd.text /\ u.gd.tabconv = s.gd.tabconv /\ u.gd.playing = s.gd.playing
          /\ u.gd.filtered = 0
      BY <2>3, <2>4, <2>11, <2>12, <2>13 DEF g
    <3>3. \A q \in Queues : IF q = f THEN u.q[q].st = "freed" /\ Ents(u, q) = <<>>
                            ELSE u.q[q].st = s.q[q].st /\ Ents(u, q) = Ents(s, q)
      <4>1. \A q \in Queues : u.q[q].st = b.q[q].st /\ Ents(u, q) = Ents(b, q)
        BY <2>11, <2>13 DEF Ents
      <4> QED BY <2>3, <2>4, <2>6, <4>1
    <3>4. \A e \in Entries : u.e[e].q = s.e[e].q /\ u.e[e].name = s.e[e].name /\ u.e[e].trk = s.e[e].trk
      BY <2>3, <2>4, <2>5, <2>11, <2>13
    <3>5. u.ub = "none" => s.ub = "none"
      BY <2>3, <2>4, <2>5, <2>11, <2>13
    <3> QED BY <3>1, <3>2, <3>3, <3>4, <3>5 DEF Unfiltered, f
  <2>15. ASSUME Refs(s, {}, 0), u.ub = "none"
         PROVE  Refs(u, {}, 0) /\ \A e \in Entries : u.e[e].st = "live" => s.e[e].st = "live"
    <3>1. \A q \in Queues : u.q[q].st = b.q[q].st /\ Ents(u, q) = Ents(b, q)
      BY <2>11, <2>13 DEF Ents
    <3>2. u.e = b.e /\ u.t = b.t /\ u.gd.playing = b.gd.playing /\ b.ub = "none"
      BY <2>11, <2>12, <2>13, <2>15 DEF g
    <3>3. Refs(b, {}, 0) /\ \A e \in Entries : b.e[e].st = "live" => s.e[e].st = "live"
      BY <2>8, <2>15, <3>2
    <3> QED BY <3>1, <3>2, <3>3, RefsFrame
  <2>16. s.ub = "none" /\ Refs(s, {}, 0) /\ Home(s) => u.ub = "none"
    BY <2>9, <2>11, <2>13
  <2> QED BY <2>14, <2>15, <2>16 DEF u
<1> QED BY <1>1, <1>2

\* The tabs stay what they are.
LEMMA UnfilteredTabs ==
  ASSUME NEW s \in CoreState, NEW u, TabsOk(s), Unfiltered(u, s)
  PROVE  TabsOk(u) /\ u.gd.lists = u.qm.lists
<1> DEFINE f == s.gd.filtered
<1>1. s.qm.lists \in Seq(Queues) /\ u \in CoreState /\ u.qm.lists \in Seq(Queues)
  BY GdFields DEF Unfiltered
<1>2. u.qm.lists = Keep(s.qm.lists, Queues \ {f}) /\ s.gd.lists = u.qm.lists /\ u.gd.filtered = 0
  BY DEF Unfiltered, TabsOk
<1>3. u.gd.lists = u.qm.lists
  BY <1>2 DEF Unfiltered
<1>4. Once(u.qm.lists)
  BY <1>1, <1>2, KeepOnce DEF TabsOk
<1>5. \A q \in Queues : Contains(u.qm.lists, q) <=> u.q[q].st = "live"
  <2>1. \A q \in Queues : Contains(u.qm.lists, q) <=> Contains(s.qm.lists, q) /\ q # f
    BY <1>1, <1>2, KeepElements
  <2>2. \A q \in Queues : Contains(s.qm.lists, q) <=> s.q[q].st = "live"
    BY DEF TabsOk
  <2>3. \A q \in Queues : IF q = f THEN u.q[q].st = "freed" ELSE u.q[q].st = s.q[q].st
    BY DEF Unfiltered
  <2> QED BY <2>1, <2>2, <2>3, States
<1>6. u.gd.lists = Keep(u.qm.lists, Queues \ {0})
  <2>1. \A x : Contains(u.qm.lists, x) => x \in Queues \ {0}
    BY <1>1, Bounds DEF Contains
  <2> QED BY <1>1, <1>3, <2>1, KeepAll
<1> QED BY <1>2, <1>3, <1>4, <1>5, <1>6 DEF TabsOk, Unfiltered

\* The entries stand in the lists of their queues only.
LEMMA UnfilteredOwn ==
  ASSUME NEW s \in CoreState, NEW u, OwnOk(s, {s.gd.filtered}), Unfiltered(u, s)
  PROVE  OwnOk(u, {u.gd.filtered}) /\ FilterOk(u)
<1>1. ASSUME NEW q \in Queues, NEW e \in Entries, Contains(Ents(u, q), e)
      PROVE  u.e[e].q = q
  <2>1. q # s.gd.filtered
    BY <1>1 DEF Unfiltered, Contains
  <2>2. Ents(u, q) = Ents(s, q) /\ u.e[e].q = s.e[e].q
    BY <2>1 DEF Unfiltered
  <2> QED BY <1>1, <2>1, <2>2 DEF OwnOk
<1>2. FilterOk(u)
  BY DEF FilterOk, Unfiltered
<1> QED BY <1>1, <1>2 DEF OwnOk

LEMMA UnfilteredDefault ==
  ASSUME NEW s \in CoreState, NEW u, DefaultOk(s), Unfiltered(u, s)
  PROVE  /\ DefaultOk(u)
         /\ \A i \in 1..(s.qm.selected + 1) : u.qm.lists[i] = s.qm.lists[i]
<1> DEFINE n == s.qm.selected + 1
<1>1. n \in 0..Len(s.qm.lists) /\ s.qm.lists \in Seq(Queues)
  BY GdFields DEF DefaultOk
<1>2. \A i \in 1..n : s.qm.lists[i] \in Queues \ {s.gd.filtered}
  BY <1>1 DEF DefaultOk
<1> HIDE DEF n
<1>3. /\ n <= Len(Keep(s.qm.lists, Queues \ {s.gd.filtered}))
      /\ \A i \in 1..n : Keep(s.qm.lists, Queues \ {s.gd.filtered})[i] = s.qm.lists[i]
  BY <1>1, <1>2, KeepPrefix
<1>4. n <= Len(u.qm.lists) /\ \A i \in 1..n : u.qm.lists[i] = s.qm.lists[i]
  BY <1>3 DEF Unfiltered
<1>5. u.qm.selected = s.qm.selected /\ s.qm.selected \in Nat /\ u.qm.lists \in Seq(Queues)
  BY GdFields DEF Unfiltered
<1>6. \A i \in 1..n : u.qm.lists[i] # 0
  BY <1>1, <1>2, <1>4, Bounds
<1>7. u.gd.filtered = 0
  BY DEF Unfiltered
<1>8. u.qm.selected < Len(u.qm.lists)
  BY <1>4, <1>5 DEF n
<1> QED BY <1>4, <1>5, <1>6, <1>7, <1>8 DEF DefaultOk, n

LEMMA ListFilterCloseLeads ==
  ASSUME NEW s \in CoreState, Sound(s)
  PROVE  LET x == ListFilterClose(s)
         IN /\ Leads(s, x) /\ Unfiltered(x, s) /\ TabsOk(x) /\ x.gd.lists = x.qm.lists
            /\ x.ub = "none" => \A e \in Entries : x.e[e].st = "live" => s.e[e].st = "live"
<1> DEFINE x == ListFilterClose(s)
<1>1. Refs(s, {}, 0) /\ Shape(s)
  BY SoundParts
<1>2. s.gd.filtered # 0 => s.q[s.gd.filtered].st = "live"
  BY <1>1 DEF Shape, TabsOk
<1>3. /\ Unfiltered(x, s)
      /\ x.ub = "none" =>
           Refs(x, {}, 0) /\ \A e \in Entries : x.e[e].st = "live" => s.e[e].st = "live"
      /\ s.ub = "none" /\ Home(s) => x.ub = "none"
  BY <1>1, <1>2, ListFilterCloseFields
<1> HIDE DEF x
<1>4. TabsOk(x) /\ x.gd.lists = x.qm.lists
  BY <1>1, <1>3, UnfilteredTabs DEF Shape
<1>5. OwnOk(x, {x.gd.filtered}) /\ FilterOk(x)
  BY <1>1, <1>3, UnfilteredOwn DEF Shape
<1>6. x.ub = "none" => Sound(x)
  BY <1>3, <1>4, <1>5, SoundParts DEF Shape
<1>7. ASSUME Calm(s)
      PROVE  Calm(x)
  <2>1. x.ub = "none" /\ DefaultOk(x)
    BY <1>3, <1>7, UnfilteredDefault DEF Calm
  <2>2. ASSUME NEW e \in Entries, x.e[e].st = "live"
        PROVE  x.q[x.e[e].q].st = "live" /\ x.e[e].q # x.gd.filtered
    <3>1. s.e[e].st = "live" /\ x.e[e].q = s.e[e].q /\ s.e[e].q \in Queues /\ x.e[e].used # 0
      BY <1>3, <2>1, <2>2, CoreFields, EntryFields DEF Unfiltered, Refs, Counted
    <3>2. s.q[s.e[e].q].st = "live" /\ s.e[e].q # s.gd.filtered
      BY <1>7, <3>1 DEF Calm, Home
    <3>3. x.gd.filtered = 0 /\ s.e[e].q # 0
      BY <1>3, <3>1, Bounds DEF Unfiltered
    <3> QED BY <1>3, <3>1, <3>2, <3>3 DEF Unfiltered
  <2> QED BY <2>1, <2>2 DEF Calm, Home
<1> QED BY <1>3, <1>4, <1>6, <1>7 DEF Leads, x, Unfiltered

\* The tabs, whichever one is shown.
TabsBut(s) ==
  /\ Once(s.qm.lists)
  /\ \A q \in Queues : Contains(s.qm.lists, q) <=> s.q[q].st = "live"
  /\ s.gd.lists = Keep(s.qm.lists, Queues \ {s.gd.filtered})
  /\ s.gd.filtered # 0 => s.q[s.gd.filtered].st = "live"
  /\ s.gd.convert # 0 => Contains(s.gd.lists, s.gd.convert)
  /\ \E q \in Queues : Contains(s.gd.lists, q) /\ q # s.gd.convert

LEMMA TabsParts ==
  ASSUME NEW s
  PROVE  TabsOk(s) <=> /\ TabsBut(s) /\ Contains(s.gd.lists, s.gd.selected)
                       /\ s.gd.tabconv <=> s.gd.convert # 0 /\ s.gd.convert = s.gd.selected
BY DEF TabsOk, TabsBut

\* Only the record of the tabs changes; nothing is filtered.
LEMMA OnlyTabs ==
  ASSUME NEW s, NEW u, u.q = s.q, u.e = s.e, u.t = s.t, u.gd.playing = s.gd.playing,
         s.gd.filtered = 0, u.gd.filtered = 0
  PROVE  /\ Refs(s, {}, 0) => Refs(u, {}, 0)
         /\ OwnOk(s, {s.gd.filtered}) => OwnOk(u, {u.gd.filtered})
         /\ FilterOk(u)
         /\ Home(s) => Home(u)
<1>1. \A q \in Queues : Ents(u, q) = Ents(s, q)
  BY DEF Ents
<1>2. Refs(s, {}, 0) => Refs(u, {}, 0)
  BY <1>1, RefsFrame
<1> QED BY <1>1, <1>2 DEF OwnOk, FilterOk, Home

Select(s, i) == [s EXCEPT !.gd.selected = s.gd.lists[i],
                          !.gd.tabconv = s.gd.convert # 0 /\ s.gd.convert = s.gd.lists[i]]

LEMMA SelectFields ==
  ASSUME NEW s \in CoreState, NEW i \in 1..Len(s.gd.lists)
  PROVE  LET u == Select(s, i)
         IN /\ u \in CoreState /\ u.gd.selected = s.gd.lists[i]
            /\ u.gd.tabconv <=> s.gd.convert # 0 /\ s.gd.convert = s.gd.lists[i]
            /\ u.gd.lists = s.gd.lists /\ u.gd.convert = s.gd.convert
            /\ u.gd.filtered = s.gd.filtered /\ u.gd.playing = s.gd.playing
            /\ u.q = s.q /\ u.qm = s.qm /\ u.e = s.e /\ u.t = s.t /\ u.made = s.made
            /\ u.ub = s.ub
<1> DEFINE q == s.gd.lists[i]
           c == s.gd.convert # 0 /\ s.gd.convert = s.gd.lists[i]
           g == s.gd
           G1 == [g EXCEPT !.selected = q]
           G == [G1 EXCEPT !.tabconv = c]
           u == [s EXCEPT !.gd = G]
<1>1. u = Select(s, i)
  BY DEF Select, CoreState
<1>2. g \in GdRec
  BY CoreFields
<1>3. q \in Queues
  BY GdFields
<1>4. c \in BOOLEAN
  OBVIOUS
<1> HIDE DEF g, q, c
<1>5. /\ G1 \in GdRec /\ G1.selected = q /\ G1.lists = g.lists /\ G1.convert = g.convert
      /\ G1.filtered = g.filtered /\ G1.playing = g.playing
  BY <1>2, <1>3 DEF GdRec
<1> HIDE DEF G1
<1>6. /\ G \in GdRec /\ G.selected = q /\ G.lists = g.lists /\ G.convert = g.convert
      /\ G.filtered = g.filtered /\ G.playing = g.playing /\ G.tabconv = c
  BY <1>4, <1>5 DEF GdRec
<1> HIDE DEF G
<1>7. /\ u \in CoreState /\ u.gd = G /\ u.qm = s.qm /\ u.q = s.q /\ u.e = s.e /\ u.t = s.t
      /\ u.made = s.made /\ u.ub = s.ub
  BY <1>6, GdChange
<1> HIDE DEF u
<1> QED BY <1>1, <1>6, <1>7 DEF g, q, c

LEMMA SelectTabs ==
  ASSUME NEW s \in CoreState, NEW i \in 1..Len(s.gd.lists), TabsBut(s)
  PROVE  TabsOk(Select(s, i))
<1> DEFINE u == Select(s, i)
<1>1. /\ u.gd.selected = s.gd.lists[i]
      /\ u.gd.tabconv <=> s.gd.convert # 0 /\ s.gd.convert = s.gd.lists[i]
      /\ u.gd.lists = s.gd.lists /\ u.gd.convert = s.gd.convert
      /\ u.gd.filtered = s.gd.filtered
      /\ u.q = s.q /\ u.qm = s.qm
  BY SelectFields
<1> HIDE DEF u
<1>2. Contains(u.gd.lists, u.gd.selected)
  BY <1>1 DEF Contains
<1> QED BY <1>1, <1>2 DEF TabsBut, TabsOk, u

\* list_select
LEMMA ListSelectLeads ==
  ASSUME NEW s \in CoreState, Sound(s), NEW i
  PROVE  LET u == ListSelect(s, i)
         IN /\ u \in CoreState /\ (u.ub = "none" => Sound(u))
            /\ Calm(s) /\ i \in 1..Len(s.gd.lists) => Calm(u)
<1> DEFINE x == ListFilterClose(s)
           u == ListSelect(s, i)
<1>1. /\ Leads(s, x) /\ Unfiltered(x, s) /\ TabsOk(x)
  BY ListFilterCloseLeads
<1>2. u = IF i \notin 1..Len(x.gd.lists) THEN Bad(x, "tab") ELSE Select(x, i)
  BY Zenon DEF ListSelect, Select
<1>3. x \in CoreState
  BY <1>1 DEF Leads
<1> HIDE DEF x, u
<1>4. CASE i \notin 1..Len(x.gd.lists)
  <2>1. u \in CoreState /\ u.ub # "none"
    BY <1>2, <1>3, <1>4, BadFields DEF Faults
  <2>2. x.gd.lists = s.gd.lists
    BY <1>1 DEF Unfiltered
  <2> QED BY <1>4, <2>1, <2>2 DEF u
<1>5. CASE i \in 1..Len(x.gd.lists)
  <2>1. u = Select(x, i)
    BY <1>2, <1>5
  <2>2. /\ u \in CoreState
        /\ u.gd.filtered = x.gd.filtered /\ u.gd.playing = x.gd.playing
        /\ u.q = x.q /\ u.qm = x.qm /\ u.e = x.e /\ u.t = x.t /\ u.ub = x.ub
    BY <1>3, <1>5, <2>1, SelectFields
  <2>3. x.gd.filtered = 0
    BY <1>1 DEF Unfiltered
  <2>4. TabsOk(u)
    BY <1>1, <1>3, <1>5, <2>1, SelectTabs, TabsParts
  <2>5. /\ Refs(x, {}, 0) => Refs(u, {}, 0)
        /\ OwnOk(x, {x.gd.filtered}) => OwnOk(u, {u.gd.filtered})
        /\ FilterOk(u)
        /\ Home(x) => Home(u)
    BY <2>2, <2>3, OnlyTabs
  <2>6. u.ub = "none" => Sound(u)
    BY <1>1, <2>2, <2>4, <2>5, SoundParts DEF Leads, Shape
  <2>7. Calm(s) => Calm(u)
    BY <1>1, <2>2, <2>5 DEF Leads, Calm, DefaultOk
  <2> QED BY <2>2, <2>6, <2>7 DEF u
<1> QED BY <1>4, <1>5

\* list_created: a queue with a tab.
Created(u, s, q) ==
  /\ u \in CoreState /\ q \in Queues /\ s.q[q].st = "none" /\ u.q[q].st = "live"
  /\ \A p \in Queues : p # q => u.q[p].st = s.q[p].st
  /\ \A p \in Queues : Ents(u, p) = Ents(s, p)
  /\ u.qm.lists = Append(s.qm.lists, q) /\ u.qm.selected = s.qm.selected
  /\ u.gd.lists = Append(s.gd.lists, q) /\ u.gd.selected = q /\ u.gd.convert = s.gd.convert
  /\ u.gd.filtered = s.gd.filtered /\ u.gd.text = s.gd.text /\ u.gd.tabconv = s.gd.tabconv
  /\ u.gd.playing = s.gd.playing
  /\ u.made = q /\ u.e = s.e /\ u.t = s.t /\ u.ub = s.ub

LEMMA QCreateFields ==
  ASSUME NEW s \in CoreState, \E q \in Queues : s.q[q].st = "none"
  PROVE  Created(QCreate(s), s, NewId(s.q))
<1> DEFINE q == NewId(s.q)
           u == QCreate(s)
           a == QmAdd(s, q)
           g == a.gd
           l == Append(g.lists, q)
           G1 == [g EXCEPT !.lists = l]
           G == [G1 EXCEPT !.selected = q]
           b == [a EXCEPT !.gd = G]
           c == [b EXCEPT !.made = q]
<1>1. q \in Queues /\ s.q[q].st = "none" /\ q \in QueueIds
  BY CoreFields, Bounds, NewIdFree DEF Queues
<1>2. u = [a EXCEPT !.gd.lists = Append(@, q), !.gd.selected = q, !.made = q]
  BY Zenon DEF QCreate
<1> HIDE DEF q, u
<1>3. /\ a \in CoreState
      /\ a.qm.lists = Append(s.qm.lists, q) /\ a.qm.selected = s.qm.selected
      /\ a.q[q].st = "live"
      /\ \A p \in Queues : p # q => a.q[p].st = s.q[p].st
      /\ \A p \in Queues : Ents(a, p) = Ents(s, p)
      /\ a.e = s.e /\ a.t = s.t /\ a.gd = s.gd /\ a.made = s.made /\ a.ub = s.ub
  BY <1>1, QmAddFields
<1> HIDE DEF a
<1>4. u = c
  BY <1>2, <1>3 DEF CoreState
<1>5. g \in GdRec /\ g.lists \in Seq(Queues)
  BY <1>3, CoreFields, GdFields
<1>6. l \in Seq(Queues)
  BY <1>1, <1>5
<1> HIDE DEF g, l
<1>7. /\ G1 \in GdRec /\ G1.lists = l /\ G1.convert = g.convert
      /\ G1.filtered = g.filtered /\ G1.playing = g.playing /\ G1.text = g.text
      /\ G1.tabconv = g.tabconv
  BY <1>5, <1>6 DEF GdRec
<1> HIDE DEF G1
<1>8. /\ G \in GdRec /\ G.lists = l /\ G.selected = q /\ G.convert = g.convert
      /\ G.filtered = g.filtered /\ G.playing = g.playing /\ G.text = g.text
      /\ G.tabconv = g.tabconv
  BY <1>1, <1>7 DEF GdRec
<1> HIDE DEF G
<1>9. /\ b \in CoreState /\ b.gd = G /\ b.qm = a.qm /\ b.q = a.q /\ b.e = a.e /\ b.t = a.t
      /\ b.made = a.made /\ b.ub = a.ub
  BY <1>3, <1>8, GdChange
<1> HIDE DEF b
<1>10. /\ c \in CoreState /\ c.made = q /\ c.qm = b.qm /\ c.q = b.q /\ c.e = b.e /\ c.t = b.t
       /\ c.gd = b.gd /\ c.ub = b.ub
  BY <1>1, <1>9, CoreFields, CoreChanges
<1> HIDE DEF c
<1>11. \A p \in Queues : Ents(u, p) = Ents(s, p)
  BY <1>3, <1>4, <1>9, <1>10 DEF Ents
<1>12. /\ u.gd.lists = Append(s.gd.lists, q) /\ u.gd.selected = q /\ u.gd.convert = s.gd.convert
       /\ u.gd.filtered = s.gd.filtered /\ u.gd.text = s.gd.text /\ u.gd.tabconv = s.gd.tabconv
       /\ u.gd.playing = s.gd.playing
  BY <1>3, <1>4, <1>8, <1>9, <1>10 DEF g, l
<1>13. /\ u \in CoreState /\ u.q[q].st = "live" /\ \A p \in Queues : p # q => u.q[p].st = s.q[p].st
       /\ u.qm.lists = Append(s.qm.lists, q) /\ u.qm.selected = s.qm.selected
       /\ u.made = q /\ u.e = s.e /\ u.t = s.t /\ u.ub = s.ub
  BY <1>3, <1>4, <1>9, <1>10
<1> QED BY <1>1, <1>11, <1>12, <1>13 DEF Created, q, u

LEMMA CreatedSound ==
  ASSUME NEW s \in CoreState, NEW u, NEW q, Created(u, s, q), Refs(s, {}, 0),
         OwnOk(s, {s.gd.filtered}), FilterOk(s), TabsBut(s)
  PROVE  /\ Refs(u, {}, 0) /\ OwnOk(u, {u.gd.filtered}) /\ FilterOk(u)
         /\ TabsBut(u) /\ Contains(u.gd.lists, q) /\ ~Contains(s.gd.lists, q)
         /\ Home(s) => Home(u)
         /\ DefaultOk(s) => DefaultOk(u)
<1> DEFINE f == s.gd.filtered
<1>0. q \in Queues /\ s.q[q].st = "none" /\ u.q[q].st = "live" /\ u \in CoreState
  BY DEF Created
<1>1. \A p \in Queues : u.q[p].st = (IF p = q THEN "live" ELSE s.q[p].st) /\ Ents(u, p) = Ents(s, p)
  BY DEF Created
<1>2. Refs(u, {}, 0)
  <2> DEFINE a == QmAdd(s, q)
  <2>1. Refs(a, {}, 0)
    BY <1>0, QmAddRefs
  <2>2. /\ a.q[q].st = "live"
        /\ \A p \in Queues : p # q => a.q[p].st = s.q[p].st
        /\ \A p \in Queues : Ents(a, p) = Ents(s, p)
        /\ a.e = s.e /\ a.t = s.t /\ a.gd = s.gd
    BY <1>0, QmAddFields
  <2> HIDE DEF a
  <2>3. \A p \in Queues : u.q[p].st = a.q[p].st /\ Ents(u, p) = Ents(a, p)
    BY <1>0, <1>1, <2>2
  <2>4. u.e = a.e /\ u.t = a.t /\ u.gd.playing = a.gd.playing
    BY <2>2 DEF Created
  <2> QED BY <2>1, <2>3, <2>4, RefsFrame
<1>3. u.gd.filtered = f /\ u.e = s.e /\ u.gd.text = s.gd.text /\ (f # 0 => f \in Queues)
  BY GdFields DEF Created
<1>4. OwnOk(u, {u.gd.filtered}) /\ FilterOk(u)
  BY <1>1, <1>3 DEF OwnOk, FilterOk
<1>5. /\ s.qm.lists \in Seq(Queues) /\ s.gd.lists \in Seq(Queues)
      /\ u.qm.lists = Append(s.qm.lists, q) /\ u.gd.lists = Append(s.gd.lists, q)
  BY GdFields DEF Created
<1>6. q # f
  BY <1>0, Bounds, States DEF TabsBut
<1>7. ~Contains(s.qm.lists, q)
  BY <1>0, States DEF TabsBut
<1>8. \A x : Contains(u.qm.lists, x) <=> Contains(s.qm.lists, x) \/ x = q
  BY <1>0, <1>5, AppendContains
<1>9. \A x : Contains(u.gd.lists, x) <=> Contains(s.gd.lists, x) \/ x = q
  BY <1>0, <1>5, AppendContains
<1>10. \A x : Contains(s.gd.lists, x) => Contains(s.qm.lists, x)
  BY <1>5, KeepElements DEF TabsBut
<1>11. TabsBut(u)
  <2>1. Once(u.qm.lists)
    BY <1>0, <1>5, <1>7, OnceAppend DEF TabsBut
  <2>2. \A p \in Queues : Contains(u.qm.lists, p) <=> u.q[p].st = "live"
    BY <1>1, <1>8 DEF TabsBut
  <2>3. u.gd.lists = Keep(u.qm.lists, Queues \ {f})
    <3>1. q \in Queues \ {f}
      BY <1>0, <1>6
    <3>2. Keep(Append(s.qm.lists, q), Queues \ {f}) = Append(Keep(s.qm.lists, Queues \ {f}), q)
      <4> DEFINE S == Queues \ {f}
                 l == s.qm.lists
      <4>1. q \in S /\ q \in Queues /\ l \in Seq(Queues)
        BY <1>0, <1>5, <3>1
      <4> HIDE DEF S, l
      <4>2. Keep(Append(l, q), S) = Append(Keep(l, S), q)
        BY <4>1, KeepAppend
      <4> QED BY <4>2 DEF S, l
    <3>3. s.gd.lists = Keep(s.qm.lists, Queues \ {f})
      BY DEF TabsBut
    <3> QED BY <1>5, <3>2, <3>3
  <2>4. f # 0 => u.q[f].st = "live"
    BY <1>1, <1>3 DEF TabsBut
  <2>5. u.gd.convert = s.gd.convert
    BY DEF Created
  <2>6. u.gd.convert # 0 => Contains(u.gd.lists, u.gd.convert)
    BY <1>9, <2>5 DEF TabsBut
  <2>7. \E p \in Queues : Contains(u.gd.lists, p) /\ p # u.gd.convert
    BY <1>9, <2>5 DEF TabsBut
  <2> QED BY <1>3, <2>1, <2>2, <2>3, <2>4, <2>6, <2>7 DEF TabsBut
<1>12. Home(s) => Home(u)
  <2>1. \A e \in Entries : s.e[e].q \in Queues
    BY CoreFields, EntryFields
  <2> QED BY <1>1, <1>3, <2>1 DEF Home
<1>13. ASSUME DefaultOk(s)
       PROVE  DefaultOk(u)
  <2>1. u.qm.selected = s.qm.selected /\ s.qm.selected \in Nat /\ s.qm.selected < Len(s.qm.lists)
    BY <1>13, GdFields DEF Created, DefaultOk
  <2>2. Len(u.qm.lists) = Len(s.qm.lists) + 1
        /\ \A i \in 1..Len(s.qm.lists) : u.qm.lists[i] = s.qm.lists[i]
    BY <1>0, <1>5
  <2>3. 1..(s.qm.selected + 1) \subseteq 1..Len(s.qm.lists)
    BY <1>5, <2>1
  <2>4. u.qm.selected < Len(u.qm.lists)
    BY <1>5, <2>1, <2>2
  <2> QED BY <1>3, <1>13, <2>1, <2>2, <2>3, <2>4 DEF DefaultOk
<1> QED BY <1>2, <1>4, <1>7, <1>9, <1>10, <1>11, <1>12, <1>13

\* The tab of the conversion list is shown or not.
LEMMA TabconvFields ==
  ASSUME NEW s \in CoreState, NEW b \in BOOLEAN
  PROVE  LET u == [s EXCEPT !.gd.tabconv = b]
         IN /\ u \in CoreState /\ u.gd.tabconv = b
            /\ u.gd.lists = s.gd.lists /\ u.gd.selected = s.gd.selected
            /\ u.gd.convert = s.gd.convert /\ u.gd.filtered = s.gd.filtered
            /\ u.gd.text = s.gd.text /\ u.gd.playing = s.gd.playing
            /\ u.q = s.q /\ u.qm = s.qm /\ u.e = s.e /\ u.t = s.t /\ u.made = s.made
            /\ u.ub = s.ub
<1> DEFINE g == s.gd
           G == [g EXCEPT !.tabconv = b]
           u == [s EXCEPT !.gd = G]
<1>1. u = [s EXCEPT !.gd.tabconv = b]
  BY DEF CoreState
<1>2. g \in GdRec
  BY CoreFields
<1> HIDE DEF g
<1>3. /\ G \in GdRec /\ G.tabconv = b /\ G.lists = g.lists /\ G.selected = g.selected
      /\ G.convert = g.convert /\ G.filtered = g.filtered /\ G.text = g.text
      /\ G.playing = g.playing
  BY <1>2 DEF GdRec
<1> HIDE DEF G
<1>4. /\ u \in CoreState /\ u.gd = G /\ u.qm = s.qm /\ u.q = s.q /\ u.e = s.e /\ u.t = s.t
      /\ u.made = s.made /\ u.ub = s.ub
  BY <1>3, GdChange
<1> HIDE DEF u
<1> QED BY <1>1, <1>3, <1>4 DEF g

LEMMA ConvertFields ==
  ASSUME NEW s \in CoreState, NEW b \in QueueIds
  PROVE  LET u == [s EXCEPT !.gd.convert = b]
         IN /\ u \in CoreState /\ u.gd.convert = b
            /\ u.gd.lists = s.gd.lists /\ u.gd.selected = s.gd.selected
            /\ u.gd.tabconv = s.gd.tabconv /\ u.gd.filtered = s.gd.filtered
            /\ u.gd.text = s.gd.text /\ u.gd.playing = s.gd.playing
            /\ u.q = s.q /\ u.qm = s.qm /\ u.e = s.e /\ u.t = s.t /\ u.made = s.made
            /\ u.ub = s.ub
<1> DEFINE g == s.gd
           G == [g EXCEPT !.convert = b]
           u == [s EXCEPT !.gd = G]
<1>1. u = [s EXCEPT !.gd.convert = b]
  BY DEF CoreState
<1>2. g \in GdRec
  BY CoreFields
<1> HIDE DEF g
<1>3. /\ G \in GdRec /\ G.tabconv = g.tabconv /\ G.lists = g.lists /\ G.selected = g.selected
      /\ G.convert = b /\ G.filtered = g.filtered /\ G.text = g.text
      /\ G.playing = g.playing
  BY <1>2 DEF GdRec
<1> HIDE DEF G
<1>4. /\ u \in CoreState /\ u.gd = G /\ u.qm = s.qm /\ u.q = s.q /\ u.e = s.e /\ u.t = s.t
      /\ u.made = s.made /\ u.ub = s.ub
  BY <1>3, GdChange
<1> HIDE DEF u
<1> QED BY <1>1, <1>3, <1>4 DEF g

\* list_new
LEMMA ListNewLeads ==
  ASSUME NEW s \in CoreState, Sound(s), \E q \in Queues : s.q[q].st = "none"
  PROVE  Leads(s, ListNew(s))
<1> DEFINE x == ListFilterClose(s)
           y == [x EXCEPT !.gd.tabconv = FALSE]
           q == NewId(y.q)
           u == ListNew(s)
<1>1. /\ Leads(s, x) /\ Unfiltered(x, s) /\ TabsOk(x)
  BY ListFilterCloseLeads
<1>2. x \in CoreState /\ x.gd.filtered = 0
  BY <1>1 DEF Unfiltered
<1>3. u = QCreate(y)
  BY Zenon DEF ListNew
<1> HIDE DEF x, u
<1>4. /\ y \in CoreState /\ y.gd.tabconv = FALSE
      /\ y.gd.lists = x.gd.lists /\ y.gd.convert = x.gd.convert
      /\ y.gd.filtered = x.gd.filtered /\ y.gd.playing = x.gd.playing
      /\ y.q = x.q /\ y.qm = x.qm /\ y.e = x.e /\ y.t = x.t /\ y.ub = x.ub
  BY <1>2, TabconvFields
<1> HIDE DEF y
<1>5. \E p \in Queues : y.q[p].st = "none"
  <2>1. PICK p \in Queues : s.q[p].st = "none"
    OBVIOUS
  <2>2. p # s.gd.filtered
    <3>1. TabsOk(s)
      BY DEF Sound
    <3> QED BY <2>1, <3>1, Bounds, States DEF TabsOk
  <2> QED BY <1>1, <1>4, <2>1, <2>2 DEF Unfiltered
<1>6. Created(u, y, q)
  BY <1>3, <1>4, <1>5, QCreateFields
<1> HIDE DEF q
<1>7. u \in CoreState /\ u.ub = x.ub
  BY <1>4, <1>6 DEF Created
<1>8. /\ Refs(x, {}, 0) => Refs(y, {}, 0)
      /\ OwnOk(x, {x.gd.filtered}) => OwnOk(y, {y.gd.filtered})
      /\ FilterOk(y)
      /\ Home(x) => Home(y)
  BY <1>2, <1>4, OnlyTabs
<1>9. TabsBut(y)
  BY <1>1, <1>4 DEF TabsOk, TabsBut
<1>10. ASSUME u.ub = "none"
       PROVE  /\ Sound(u) /\ (Home(x) => Home(u)) /\ (DefaultOk(x) => DefaultOk(u))
  <2>1. Refs(x, {}, 0) /\ OwnOk(x, {x.gd.filtered})
    BY <1>1, <1>7, <1>10, SoundParts DEF Leads, Shape
  <2>2. /\ Refs(u, {}, 0) /\ OwnOk(u, {u.gd.filtered}) /\ FilterOk(u)
        /\ TabsBut(u) /\ Contains(u.gd.lists, q) /\ ~Contains(y.gd.lists, q)
        /\ Home(y) => Home(u)
        /\ DefaultOk(y) => DefaultOk(u)
    BY <1>4, <1>6, <1>8, <1>9, <2>1, CreatedSound
  <2>3. u.gd.selected = q /\ u.gd.tabconv = FALSE /\ u.gd.convert = y.gd.convert
    BY <1>4, <1>6 DEF Created
  <2>4. u.gd.convert # 0 => u.gd.convert # q
    BY <1>9, <2>2, <2>3 DEF TabsBut
  <2>5. TabsOk(u)
    BY <2>2, <2>3, <2>4, TabsParts
  <2>6. DefaultOk(x) => DefaultOk(y)
    BY <1>4 DEF DefaultOk
  <2> QED BY <1>8, <2>2, <2>5, <2>6, SoundParts DEF Shape
<1>11. Calm(s) => Calm(u)
  BY <1>1, <1>7, <1>10 DEF Leads, Calm
<1> QED BY <1>7, <1>10, <1>11 DEF Leads, u

\* The tab of queue q is closed, and the queue freed.
Destroyed(u, s, q) ==
  /\ u \in CoreState /\ u.t = s.t /\ u.qm.selected = s.qm.selected
  /\ u.qm.lists = Keep(s.qm.lists, Queues \ {q}) /\ u.gd.lists = u.qm.lists
  /\ Contains(u.gd.lists, u.gd.selected)
  /\ u.gd.tabconv <=> s.gd.convert # 0 /\ s.gd.convert = u.gd.selected
  /\ u.gd.convert = s.gd.convert /\ u.gd.filtered = 0 /\ u.gd.playing = s.gd.playing
  /\ u.q[q].st = "freed" /\ Ents(u, q) = <<>>
  /\ \A p \in Queues : p # q => u.q[p].st = s.q[p].st /\ Ents(u, p) = Ents(s, p)
  /\ \A e \in Entries : u.e[e].q = s.e[e].q
  /\ u.ub = "none" => s.ub = "none"

\* q_destroy, list_deleted
LEMMA QDestroyFields ==
  ASSUME NEW s \in CoreState, NEW q \in Queues, TabsOk(s), s.gd.filtered = 0,
         s.gd.lists = s.qm.lists, Contains(s.gd.lists, q),
         \E p \in Queues : Contains(s.gd.lists, p) /\ p # q
  PROVE  LET u == QDestroy(s, q)
         IN /\ Destroyed(u, s, q)
            /\ Refs(s, {}, 0) /\ u.ub = "none" =>
                 Refs(u, {}, 0) /\ \A e \in Entries : u.e[e].st = "live" => s.e[e].st = "live"
            /\ s.ub = "none" /\ Refs(s, {}, 0) /\ Home(s) => u.ub = "none"
<1> DEFINE i == CHOOSE k \in 1..Len(s.gd.lists) : s.gd.lists[k] = q
           l == RemoveAt(s.gd.lists, i)
           j == IF i = 1 THEN 1 ELSE i - 1
           a == QmRm(s, q)
           y == [a EXCEPT !.gd.lists = RemoveAt(@, i)]
           z == Select(y, j)
           u == QDestroy(s, q)
<1>1. u = QFree(ListSelect(y, j), q)
  BY Zenon DEF QDestroy
<1>2. i \in 1..Len(s.gd.lists) /\ s.gd.lists[i] = q
  BY DEF Contains
<1>3. s.gd.lists \in Seq(Queues) /\ Once(s.gd.lists)
  BY GdFields DEF TabsOk
<1> HIDE DEF i
<1>4. /\ l \in Seq(Queues) /\ Len(l) = Len(s.gd.lists) - 1
      /\ l = Keep(s.qm.lists, Queues \ {q})
      /\ \A x : Contains(l, x) <=> Contains(s.gd.lists, x) /\ x # q
  <2>1. l \in Seq(Queues) /\ Len(l) = Len(s.gd.lists) - 1
    <3> DEFINE g == s.gd.lists
    <3>1. g \in Seq(Queues) /\ i \in 1..Len(g)
      BY <1>2, <1>3
    <3> HIDE DEF g
    <3>2. RemoveAt(g, i) \in Seq(Queues) /\ Len(RemoveAt(g, i)) = Len(g) - 1
      BY <3>1, RemoveElements
    <3> QED BY <3>2 DEF g
  <2>2. \A x : Contains(l, x) <=> Contains(s.gd.lists, x) /\ x # q
    <3> DEFINE g == s.gd.lists
    <3>1. g \in Seq(Queues) /\ Once(g) /\ i \in 1..Len(g) /\ g[i] = q
      BY <1>2, <1>3
    <3> HIDE DEF g
    <3>2. \A x : Contains(RemoveAt(g, i), x) <=> Contains(g, x) /\ x # g[i]
      BY <3>1, RemoveListed
    <3> QED BY <3>1, <3>2 DEF g
  <2>3. l = Keep(s.gd.lists, Queues \ {s.gd.lists[i]})
    <3> DEFINE g == s.gd.lists
    <3>1. g \in Seq(Queues) /\ Once(g) /\ i \in 1..Len(g)
      BY <1>2, <1>3
    <3> HIDE DEF g
    <3>2. RemoveAt(g, i) = Keep(g, Queues \ {g[i]})
      BY <3>1, KeepBut
    <3> QED BY <3>2 DEF g
  <2> QED BY <1>2, <2>1, <2>2, <2>3
<1>5. j \in 1..Len(l)
  <2>1. PICK p \in Queues : Contains(l, p)
    BY <1>4
  <2>2. Len(l) >= 1
    BY <1>4, <2>1 DEF Contains
  <2>3. Len(l) \in Nat /\ i \in Nat /\ i >= 1 /\ i <= Len(l) + 1
    BY <1>2, <1>3, <1>4
  <2> QED BY <2>2, <2>3
<1>6. /\ a \in CoreState /\ a.qm.lists = Keep(s.qm.lists, Queues \ {q})
      /\ a.qm.selected = s.qm.selected
      /\ a.q = s.q /\ a.e = s.e /\ a.t = s.t /\ a.gd = s.gd /\ a.made = s.made /\ a.ub = s.ub
  BY QmRmFields
<1> HIDE DEF l, j, a, u
<1>7. /\ y \in CoreState /\ y.qm = a.qm /\ y.q = s.q /\ y.e = s.e /\ y.t = s.t /\ y.ub = s.ub
      /\ y.gd.lists = l /\ y.gd.convert = s.gd.convert /\ y.gd.filtered = 0
      /\ y.gd.playing = s.gd.playing
  <2> DEFINE g == a.gd
             G == [g EXCEPT !.lists = l]
             v == [a EXCEPT !.gd = G]
  <2>1. y = v
    BY <1>6 DEF CoreState, l
  <2>2. g \in GdRec
    BY <1>6, CoreFields
  <2> HIDE DEF g
  <2>3. /\ G \in GdRec /\ G.lists = l /\ G.convert = g.convert /\ G.filtered = g.filtered
        /\ G.playing = g.playing
    BY <1>4, <2>2 DEF GdRec
  <2> HIDE DEF G
  <2>4. /\ v \in CoreState /\ v.gd = G /\ v.qm = a.qm /\ v.q = a.q /\ v.e = a.e /\ v.t = a.t
        /\ v.ub = a.ub
    BY <1>6, <2>3, GdChange
  <2> HIDE DEF v, y
  <2> QED BY <1>6, <2>1, <2>3, <2>4 DEF g
<1> HIDE DEF y
<1>8. ListSelect(y, j) = z
  <2>1. ListFilterClose(y) = y
    BY <1>7 DEF ListFilterClose
  <2> QED BY <1>5, <1>7, <2>1 DEF ListSelect, Select
<1>9. /\ z \in CoreState /\ z.gd.selected = l[j]
      /\ z.gd.tabconv <=> s.gd.convert # 0 /\ s.gd.convert = l[j]
      /\ z.gd.lists = l /\ z.gd.convert = s.gd.convert
      /\ z.gd.filtered = 0 /\ z.gd.playing = s.gd.playing
      /\ z.q = s.q /\ z.qm = a.qm /\ z.e = s.e /\ z.t = s.t /\ z.ub = s.ub
  BY <1>5, <1>7, SelectFields
<1> HIDE DEF z
<1>10. \A p \in Queues : z.q[p].st = s.q[p].st /\ Ents(z, p) = Ents(s, p)
  BY <1>9 DEF Ents
<1>11. Refs(s, {}, 0) => Refs(z, {}, 0)
  BY <1>9, <1>10, RefsFrame
<1> DEFINE es == ToSet(Ents(z, q))
           w == Unref(z, es)
<1>12. u = QFree(z, q)
  BY <1>1, <1>8
<1>13. /\ u \in CoreState /\ u.q[q].st = "freed" /\ Ents(u, q) = <<>>
       /\ \A p \in Queues : p # q => u.q[p].st = z.q[p].st /\ Ents(u, p) = Ents(z, p)
       /\ u.e = w.e /\ u.ub = w.ub
       /\ u.qm = z.qm /\ u.t = z.t /\ u.gd = z.gd
  <2> DEFINE b == QFree(z, q)
  <2>1. /\ b \in CoreState /\ b.q[q].st = "freed" /\ Ents(b, q) = <<>>
        /\ \A p \in Queues : p # q => b.q[p].st = z.q[p].st /\ Ents(b, p) = Ents(z, p)
        /\ b.e = w.e /\ b.ub = w.ub
        /\ b.qm = z.qm /\ b.t = z.t /\ b.gd = z.gd
    BY <1>9, QFreeFields
  <2>2. u = b
    BY <1>12
  <2> HIDE DEF b, w, es
  <2> QED BY <2>1, <2>2
<1>14. es \in SUBSET Entries /\ \A e : e \in es <=> Contains(Ents(s, q), e)
  BY <1>9, <1>10, Listed
<1> HIDE DEF es
<1>15. /\ \A e \in Entries : w.e[e].q = s.e[e].q
       /\ w.ub = "none" => s.ub = "none"
       /\ s.ub = "none" /\ (\A e \in es : s.q[s.e[e].q].st # "freed") => w.ub = "none"
  BY <1>9, <1>14, UnrefFields
<1> HIDE DEF w
<1>16. Destroyed(u, s, q)
  <2>1. Contains(u.gd.lists, u.gd.selected)
    BY <1>5, <1>9, <1>13 DEF Contains
  <2>2. /\ u.qm.lists = Keep(s.qm.lists, Queues \ {q}) /\ u.gd.lists = u.qm.lists
        /\ u.qm.selected = s.qm.selected /\ u.t = s.t
    BY <1>4, <1>6, <1>9, <1>13
  <2>3. /\ u.gd.tabconv <=> s.gd.convert # 0 /\ s.gd.convert = u.gd.selected
        /\ u.gd.convert = s.gd.convert /\ u.gd.filtered = 0 /\ u.gd.playing = s.gd.playing
    BY <1>9, <1>13
  <2>4. \A p \in Queues : p # q => u.q[p].st = s.q[p].st /\ Ents(u, p) = Ents(s, p)
    BY <1>10, <1>13
  <2>5. (\A e \in Entries : u.e[e].q = s.e[e].q) /\ (u.ub = "none" => s.ub = "none")
    BY <1>13, <1>15
  <2> QED BY <1>13, <2>1, <2>2, <2>3, <2>4, <2>5 DEF Destroyed
<1>17. ASSUME Refs(s, {}, 0), u.ub = "none"
       PROVE  Refs(u, {}, 0) /\ \A e \in Entries : u.e[e].st = "live" => s.e[e].st = "live"
  <2>1. z.q[q].st = "live"
    BY <1>10 DEF TabsOk
  <2> QED BY <1>9, <1>11, <1>12, <1>17, <2>1, QFreeRefs
<1>18. ASSUME s.ub = "none", Refs(s, {}, 0), Home(s)
       PROVE  u.ub = "none"
  <2>1. \A e \in es : s.q[s.e[e].q].st # "freed"
    BY <1>14, <1>18, HomeKnown
  <2> QED BY <1>13, <1>15, <1>18, <2>1
<1> QED BY <1>16, <1>17, <1>18 DEF u

LEMMA DestroyedTabs ==
  ASSUME NEW s \in CoreState, NEW q \in Queues, NEW u, TabsOk(s), s.gd.filtered = 0,
         s.gd.lists = s.qm.lists, Destroyed(u, s, q)
  PROVE  /\ Once(u.qm.lists)
         /\ \A p \in Queues : Contains(u.qm.lists, p) <=> u.q[p].st = "live"
         /\ u.gd.lists = Keep(u.qm.lists, Queues \ {0})
         /\ \A p : Contains(u.gd.lists, p) <=> Contains(s.gd.lists, p) /\ p # q
<1>1. s.qm.lists \in Seq(Queues) /\ u.qm.lists \in Seq(Queues)
  BY GdFields DEF Destroyed
<1>2. \A p : Contains(u.gd.lists, p) <=> Contains(s.gd.lists, p) /\ p # q
  <2>1. \A p : Contains(u.gd.lists, p) <=> Contains(s.qm.lists, p) /\ p \in Queues \ {q}
    BY <1>1, KeepElements DEF Destroyed
  <2>2. \A p : Contains(s.qm.lists, p) => p \in Queues
    BY <1>1 DEF Contains
  <2> QED BY <2>1, <2>2
<1>3. Once(u.qm.lists)
  BY <1>1, KeepOnce DEF Destroyed, TabsOk
<1>4. \A p \in Queues : Contains(u.qm.lists, p) <=> u.q[p].st = "live"
  <2>1. u.gd.lists = u.qm.lists /\ u.q[q].st = "freed"
        /\ \A p \in Queues : p # q => u.q[p].st = s.q[p].st
    BY DEF Destroyed
  <2>2. \A p \in Queues : Contains(s.gd.lists, p) <=> s.q[p].st = "live"
    BY DEF TabsOk
  <2> QED BY <1>2, <2>1, <2>2, States
<1>5. u.gd.lists = Keep(u.qm.lists, Queues \ {0})
  <2>1. \A x : Contains(u.qm.lists, x) => x \in Queues \ {0}
    BY <1>1, Bounds DEF Contains
  <2>2. Keep(u.qm.lists, Queues \ {0}) = u.qm.lists
    BY <1>1, <2>1, KeepAll
  <2> QED BY <2>2 DEF Destroyed
<1> QED BY <1>2, <1>3, <1>4, <1>5

LEMMA DestroyedOwn ==
  ASSUME NEW s \in CoreState, NEW q \in Queues, NEW u, s.gd.filtered = 0, Destroyed(u, s, q),
         OwnOk(s, {s.gd.filtered})
  PROVE  OwnOk(u, {u.gd.filtered}) /\ FilterOk(u)
<1>1. ASSUME NEW p \in Queues, NEW e \in Entries, Contains(Ents(u, p), e)
      PROVE  u.e[e].q = p
  <2>1. p # q
    BY <1>1 DEF Destroyed, Contains
  <2>2. Ents(u, p) = Ents(s, p) /\ u.e[e].q = s.e[e].q
    BY <2>1 DEF Destroyed
  <2> QED BY <1>1, <2>2, Bounds DEF OwnOk
<1> QED BY <1>1 DEF OwnOk, FilterOk, Destroyed

\* If none of the entries of the queue is played, none of them is left.
LEMMA DestroyedHome ==
  ASSUME NEW s \in CoreState, NEW q \in Queues, NEW u, Destroyed(u, s, q), Home(s),
         OwnOk(u, {0}), Refs(u, {}, 0),
         \A e \in Entries : u.e[e].st = "live" => s.e[e].st = "live",
         \A t \in Tracks : Active(s, t) => s.e[s.t[t].e].q # q
  PROVE  Home(u)
<1> SUFFICES ASSUME NEW e \in Entries, u.e[e].st = "live"
             PROVE  u.q[u.e[e].q].st = "live" /\ u.e[e].q # u.gd.filtered
  BY DEF Home
<1>1. u \in CoreState
  BY DEF Destroyed
<1>2. s.e[e].st = "live" /\ u.e[e].q = s.e[e].q /\ s.e[e].q \in Queues
  BY CoreFields, EntryFields DEF Destroyed
<1>3. s.q[s.e[e].q].st = "live"
  BY <1>2 DEF Home
<1>4. ShownBy(u, e, 0) # {} \/ PlayedBy(u, e) # {}
  <2>1. /\ u.e[e].used = Cardinality(ShownBy(u, e, 0)) + Cardinality(PlayedBy(u, e)) + 0
        /\ u.e[e].used # 0
    BY DEF Refs, Counted
  <2>2. ShownBy(u, e, 0) = {} => Cardinality(ShownBy(u, e, 0)) = 0
    BY Finite, CardNone
  <2>3. PlayedBy(u, e) = {} => Cardinality(PlayedBy(u, e)) = 0
    BY Finite, CardNone
  <2> QED BY <2>1, <2>2, <2>3
<1>5. u.e[e].q # q
  <2>1. ASSUME NEW p \in ShownBy(u, e, 0)
        PROVE  u.e[e].q # q
    <3>1. p \in Queues /\ p # 0 /\ Contains(Ents(u, p), e)
      BY DEF ShownBy
    <3>2. p # q
      BY <3>1 DEF Destroyed, Contains
    <3> QED BY <3>1, <3>2 DEF OwnOk
  <2>2. ASSUME NEW t \in PlayedBy(u, e)
        PROVE  u.e[e].q # q
    <3>1. t \in Tracks /\ Active(u, t) /\ u.t[t].e = e
      BY DEF PlayedBy
    <3>2. Active(s, t) /\ s.t[t].e = e
      BY <3>1 DEF Active, Destroyed
    <3> QED BY <1>2, <3>1, <3>2
  <2> QED BY <1>4, <2>1, <2>2
<1>6. u.q[u.e[e].q].st = "live"
  BY <1>2, <1>3, <1>5 DEF Destroyed
<1>7. u.gd.filtered = 0
  BY DEF Destroyed
<1> QED BY <1>2, <1>6, <1>7, Bounds

LEMMA DestroyedDefault ==
  ASSUME NEW s \in CoreState, NEW q \in Queues, NEW u, DefaultOk(s), s.gd.filtered = 0,
         Destroyed(u, s, q), \A i \in 1..(s.qm.selected + 1) : s.qm.lists[i] # q
  PROVE  DefaultOk(u)
<1> DEFINE n == s.qm.selected + 1
<1>1. n \in 0..Len(s.qm.lists) /\ s.qm.lists \in Seq(Queues)
  BY GdFields DEF DefaultOk
<1>2. \A i \in 1..n : s.qm.lists[i] \in Queues \ {q}
  BY <1>1
<1> HIDE DEF n
<1>3. /\ n <= Len(Keep(s.qm.lists, Queues \ {q}))
      /\ \A i \in 1..n : Keep(s.qm.lists, Queues \ {q})[i] = s.qm.lists[i]
  BY <1>1, <1>2, KeepPrefix
<1>4. n <= Len(u.qm.lists) /\ \A i \in 1..n : u.qm.lists[i] = s.qm.lists[i]
  BY <1>3 DEF Destroyed
<1>5. u.qm.selected = s.qm.selected /\ s.qm.selected \in Nat /\ u.qm.lists \in Seq(Queues)
  BY GdFields DEF Destroyed
<1>6. \A i \in 1..n : u.qm.lists[i] # 0
  BY <1>1, <1>2, <1>4, Bounds
<1>7. u.gd.filtered = 0
  BY DEF Destroyed
<1>8. u.qm.selected < Len(u.qm.lists)
  BY <1>4, <1>5 DEF n
<1> QED BY <1>5, <1>6, <1>7, <1>8 DEF DefaultOk, n

\* Another list that is no conversion list is left.
LEMMA OtherTab ==
  ASSUME NEW s \in CoreState, TabsOk(s), NEW q \in Queues, q # s.gd.convert,
         Contains(s.gd.lists, q),
         Len(s.gd.lists) - (IF s.gd.convert # 0 THEN 1 ELSE 0) > 1, Once(s.gd.lists)
  PROVE  \E p \in Queues : Contains(s.gd.lists, p) /\ p # q /\ p # s.gd.convert
<1> DEFINE l == s.gd.lists
           c == s.gd.convert
<1>1. l \in Seq(Queues) /\ Len(l) \in Nat
  BY GdFields
<1>2. PICK i \in 1..Len(l) : l[i] = q
  BY DEF Contains
<1>3. Once(l) /\ (c # 0 => Contains(l, c)) /\ (c = 0 \/ c \in Queues)
  BY GdFields DEF TabsOk
<1>4. Len(l) - (IF c # 0 THEN 1 ELSE 0) > 1
  OBVIOUS
<1> HIDE DEF l, c
<1>5. CASE c = 0
  <2>1. Len(l) >= 2
    BY <1>1, <1>4, <1>5
  <2>2. PICK k \in 1..Len(l) : k # i
    <3>1. 1 \in 1..Len(l) /\ 2 \in 1..Len(l)
      BY <1>1, <2>1
    <3> QED BY <3>1
  <2>3. l[k] \in Queues /\ Contains(l, l[k]) /\ l[k] # q
    BY <1>1, <1>2, <1>3, <2>2 DEF Contains, Once
  <2> QED BY <1>5, <2>3, Bounds DEF l, c
<1>6. CASE c # 0
  <2>1. Len(l) >= 3
    BY <1>1, <1>4, <1>6
  <2>2. PICK m \in 1..Len(l) : l[m] = c
    BY <1>3, <1>6 DEF Contains
  <2>3. PICK k \in 1..Len(l) : k # i /\ k # m
    <3>1. 1 \in 1..Len(l) /\ 2 \in 1..Len(l) /\ 3 \in 1..Len(l)
      BY <1>1, <2>1
    <3> QED BY <3>1
  <2>4. l[k] \in Queues /\ Contains(l, l[k]) /\ l[k] # q /\ l[k] # c
    BY <1>1, <1>2, <1>3, <2>2, <2>3 DEF Contains, Once
  <2> QED BY <2>4 DEF l, c
<1> QED BY <1>5, <1>6

\* list_close
LEMMA ListCloseLeads ==
  ASSUME NEW s \in CoreState, Sound(s)
  PROVE  LET u == ListClose(s)
         IN /\ u \in CoreState /\ (u.ub = "none" => Sound(u))
            /\ Calm(s) /\ ClosesSafely(s) => Calm(u)
<1> DEFINE x == ListFilterClose(s)
           q == x.gd.selected
           n == Len(x.gd.lists) - (IF x.gd.convert # 0 THEN 1 ELSE 0)
           v == QDestroy(x, q)
           z == [v EXCEPT !.gd.convert = 0]
           u == ListClose(s)
<1>1. /\ Leads(s, x) /\ Unfiltered(x, s) /\ TabsOk(x) /\ x.gd.lists = x.qm.lists
      /\ x.ub = "none" => \A e \in Entries : x.e[e].st = "live" => s.e[e].st = "live"
  BY ListFilterCloseLeads
<1>2. u = IF q = x.gd.convert THEN z ELSE IF n > 1 THEN v ELSE QClear(x, q)
  BY Zenon DEF ListClose
<1>3. x \in CoreState /\ x.gd.filtered = 0
  BY <1>1 DEF Unfiltered
<1> HIDE DEF x, u
<1>4. q \in Queues /\ Contains(x.gd.lists, q)
  BY <1>1, <1>3, GdFields DEF TabsOk
<1>5. ASSUME q = x.gd.convert \/ n > 1
      PROVE  \E p \in Queues : Contains(x.gd.lists, p) /\ p # q /\ p # x.gd.convert
  <2>1. CASE q = x.gd.convert
    BY <1>1, <2>1 DEF TabsOk
  <2>2. CASE q # x.gd.convert /\ n > 1
    <3>1. Once(x.gd.lists)
      BY <1>1 DEF TabsOk
    <3> QED BY <1>1, <1>3, <1>4, <2>2, <3>1, OtherTab
  <2> QED BY <1>5, <2>1, <2>2
<1>6. ASSUME q = x.gd.convert \/ n > 1
      PROVE  /\ Destroyed(v, x, q)
             /\ Refs(x, {}, 0) /\ v.ub = "none" =>
                 Refs(v, {}, 0) /\ \A e \in Entries : v.e[e].st = "live" => x.e[e].st = "live"
             /\ x.ub = "none" /\ Refs(x, {}, 0) /\ Home(x) => v.ub = "none"
  <2>1. \E p \in Queues : Contains(x.gd.lists, p) /\ p # q
    BY <1>5, <1>6
  <2> HIDE DEF q, n
  <2> QED BY <1>1, <1>3, <1>4, <2>1, QDestroyFields
<1> HIDE DEF v, n
<1>7. ASSUME Destroyed(v, x, q)
      PROVE  /\ Once(v.qm.lists)
             /\ \A p \in Queues : Contains(v.qm.lists, p) <=> v.q[p].st = "live"
             /\ v.gd.lists = Keep(v.qm.lists, Queues \ {0})
             /\ \A p : Contains(v.gd.lists, p) <=> Contains(x.gd.lists, p) /\ p # q
  <2> DEFINE r == q
  <2>1. /\ r \in Queues /\ x \in CoreState /\ TabsOk(x) /\ x.gd.filtered = 0
        /\ x.gd.lists = x.qm.lists /\ Destroyed(v, x, r)
    BY <1>1, <1>3, <1>4, <1>7
  <2> HIDE DEF r, q
  <2>2. /\ Once(v.qm.lists)
        /\ \A p \in Queues : Contains(v.qm.lists, p) <=> v.q[p].st = "live"
        /\ v.gd.lists = Keep(v.qm.lists, Queues \ {0})
        /\ \A p : Contains(v.gd.lists, p) <=> Contains(x.gd.lists, p) /\ p # r
    BY <2>1, DestroyedTabs
  <2> QED BY <2>2 DEF r
\* What closing a list leads to.
<1>8. ASSUME q = x.gd.convert \/ n > 1, v.ub = "none"
      PROVE  /\ v \in CoreState /\ x.ub = "none" /\ Refs(v, {}, 0)
             /\ OwnOk(v, {v.gd.filtered}) /\ FilterOk(v) /\ v.gd.filtered = 0
             /\ Calm(s) /\ ClosesSafely(s) => Home(v) /\ DefaultOk(v)
  <2>1. Destroyed(v, x, q) /\ v \in CoreState /\ x.ub = "none" /\ v.gd.filtered = 0
    BY <1>6, <1>8 DEF Destroyed
  <2>2. Refs(x, {}, 0) /\ OwnOk(x, {x.gd.filtered})
    BY <1>1, <2>1, SoundParts DEF Leads, Shape
  <2>3. OwnOk(v, {v.gd.filtered}) /\ FilterOk(v)
    BY <1>3, <1>4, <2>1, <2>2, DestroyedOwn
  <2>4. Refs(v, {}, 0) /\ \A e \in Entries : v.e[e].st = "live" => x.e[e].st = "live"
    BY <1>6, <1>8, <2>2
  <2>5. ASSUME Calm(s), ClosesSafely(s)
        PROVE  Home(v) /\ DefaultOk(v)
    <3>1. Home(x) /\ DefaultOk(x) /\ DefaultOk(s)
      BY <1>1, <2>5 DEF Leads, Calm
    <3>2. q = s.gd.selected
      BY <1>1 DEF Unfiltered
    <3>3. \A t \in Tracks : Active(x, t) => x.e[x.t[t].e].q # q
      <4>1. ASSUME NEW t \in Tracks, Active(x, t)
            PROVE  x.e[x.t[t].e].q # q
        <5>1. x.t = s.t
          BY <1>1 DEF Unfiltered
        <5>2. s.t[t].st \in {"run", "stopping"} /\ Active(s, t)
          BY <4>1, <5>1 DEF Active
        <5>3. s.e[s.t[t].e].q # s.gd.selected
          BY <2>5, <5>2 DEF ClosesSafely
        <5>4. s.t[t].e \in Entries
          BY <5>2, Bounds, CoreFields, TrackFields DEF Sound, TracksOk
        <5>5. x.e[s.t[t].e].q = s.e[s.t[t].e].q
          BY <1>1, <5>4 DEF Unfiltered
        <5> QED BY <3>2, <5>1, <5>3, <5>5
      <4> QED BY <4>1
    <3>4. Home(v)
      <4>1. OwnOk(v, {0})
        BY <2>1, <2>3
      <4> HIDE DEF q
      <4> QED BY <1>3, <1>4, <2>1, <2>4, <3>1, <3>3, <4>1, DestroyedHome
    <3>5. \A i \in 1..(x.qm.selected + 1) : x.qm.lists[i] # q
      <4>1. /\ x.qm.selected = s.qm.selected
            /\ \A i \in 1..(s.qm.selected + 1) : x.qm.lists[i] = s.qm.lists[i]
        <5> HIDE DEF q, v, n
        <5>1. Unfiltered(x, s) /\ TabsOk(x) /\ DefaultOk(s)
          BY <1>1, <3>1
        <5> QED BY <5>1, UnfilteredDefault DEF Unfiltered
      <4>2. ASSUME NEW i \in 1..(s.qm.selected + 1)
            PROVE  s.qm.lists[i] # q
        <5> HIDE DEF q, v, n
        <5>1. s.qm.selected \in Nat /\ s.qm.selected < Len(s.qm.lists) /\ s.qm.lists \in Seq(Queues)
          BY <3>1, GdFields DEF DefaultOk
        <5>2. i \in 1..Len(s.qm.lists) /\ ~(i - 1 > s.qm.selected)
          BY <5>1
        <5> QED BY <2>5, <3>2, <5>2 DEF ClosesSafely
      <4> QED BY <4>1, <4>2
    <3>6. DefaultOk(v)
      <4> HIDE DEF q
      <4> QED BY <1>3, <1>4, <2>1, <3>1, <3>5, DestroyedDefault
    <3> QED BY <3>4, <3>6
  <2> QED BY <2>1, <2>3, <2>4, <2>5
<1>9. ASSUME q = x.gd.convert \/ n > 1, Calm(s)
      PROVE  v.ub = "none"
  <2>1. x.ub = "none" /\ Home(x) /\ Refs(x, {}, 0)
    BY <1>1, <1>9, SoundParts DEF Leads, Calm
  <2> QED BY <1>6, <1>9, <2>1
<1>10. CASE q = x.gd.convert
  <2>1. u = z
    BY <1>2, <1>10
  <2>2. Destroyed(v, x, q) /\ v \in CoreState
    BY <1>6, <1>10 DEF Destroyed
  <2>3. /\ z \in CoreState /\ z.gd.convert = 0
        /\ z.gd.lists = v.gd.lists /\ z.gd.selected = v.gd.selected
        /\ z.gd.tabconv = v.gd.tabconv /\ z.gd.filtered = v.gd.filtered
        /\ z.gd.playing = v.gd.playing
        /\ z.q = v.q /\ z.qm = v.qm /\ z.e = v.e /\ z.t = v.t /\ z.ub = v.ub
    BY <2>2, Bounds, ConvertFields
  <2> HIDE DEF z
  <2>4. TabsOk(z)
    <3>1. \E p \in Queues : Contains(z.gd.lists, p) /\ p # z.gd.convert
      BY <1>5, <1>7, <1>10, <2>2, <2>3, Bounds
    <3>2. z.gd.filtered = 0 /\ Contains(z.gd.lists, z.gd.selected)
      BY <2>2, <2>3 DEF Destroyed
    <3>3. z.gd.tabconv <=> z.gd.convert # 0 /\ z.gd.convert = z.gd.selected
      <4>1. v.gd.selected # q
        BY <1>7, <2>2 DEF Destroyed
      <4>2. v.gd.tabconv = FALSE
        BY <1>10, <2>2, <4>1 DEF Destroyed
      <4> QED BY <2>3, <4>2
    <3> QED BY <1>7, <2>2, <2>3, <3>1, <3>2, <3>3 DEF TabsOk
  <2>5. z.ub = "none" => Sound(z)
    BY <1>8, <1>10, <2>3, <2>4, OnlyTabs, SoundParts DEF Shape
  <2>6. ASSUME Calm(s), ClosesSafely(s)
        PROVE  Calm(z)
    <3>1. v.ub = "none"
      BY <1>9, <1>10, <2>6
    <3>2. Home(v) /\ DefaultOk(v) /\ v.gd.filtered = 0
      BY <1>8, <1>10, <2>6, <3>1
    <3>3. Home(z)
      BY <2>3, <3>2, OnlyTabs
    <3>4. DefaultOk(z)
      BY <2>3, <3>2 DEF DefaultOk
    <3> QED BY <2>3, <3>1, <3>3, <3>4 DEF Calm
  <2> QED BY <2>1, <2>3, <2>5, <2>6 DEF u
<1>11. CASE q # x.gd.convert /\ n > 1
  <2>1. u = v
    BY <1>2, <1>11
  <2>2. Destroyed(v, x, q) /\ v \in CoreState
    BY <1>6, <1>11 DEF Destroyed
  <2>3. TabsOk(v)
    <3>1. v.gd.convert = x.gd.convert /\ v.gd.filtered = 0 /\ Contains(v.gd.lists, v.gd.selected)
          /\ (v.gd.tabconv <=> x.gd.convert # 0 /\ x.gd.convert = v.gd.selected)
      BY <2>2 DEF Destroyed
    <3>2. v.gd.convert # 0 => Contains(v.gd.lists, v.gd.convert)
      BY <1>1, <1>7, <1>11, <2>2, <3>1 DEF TabsOk
    <3>3. \E p \in Queues : Contains(v.gd.lists, p) /\ p # v.gd.convert
      BY <1>5, <1>7, <1>11, <2>2, <3>1
    <3> QED BY <1>7, <2>2, <3>1, <3>2, <3>3 DEF TabsOk
  <2>4. v.ub = "none" => Sound(v)
    BY <1>8, <1>11, <2>3, SoundParts DEF Shape
  <2>5. Calm(s) /\ ClosesSafely(s) => Calm(v)
    BY <1>8, <1>9, <1>11 DEF Calm
  <2> QED BY <2>1, <2>2, <2>4, <2>5 DEF u
<1>12. CASE q # x.gd.convert /\ ~(n > 1)
  <2> DEFINE l == <<>>
             c == QClear(x, q)
  <2>1. u = c
    BY <1>2, <1>12
  <2>2. Loses(c, x, q, l) /\ \A e : ~Contains(l, e)
    BY <1>3, <1>4, QClearLoses DEF Contains
  <2> HIDE DEF l, c
  <2>3. c \in CoreState /\ (c.ub = "none" => x.ub = "none")
    BY <2>2 DEF Loses, Lost
  <2>4. x.ub = "none" => Leads(x, c)
    <3>1. ASSUME x.ub = "none"
          PROVE  Leads(x, c)
      <4>1. Sound(x)
        BY <1>1, <3>1 DEF Leads
      <4> QED BY <1>3, <1>4, <2>2, <4>1, LostLeads
    <3> QED BY <3>1
  <2>5. c.ub = "none" => Sound(c)
    BY <2>3, <2>4 DEF Leads
  <2>6. Calm(s) => Calm(c)
    <3>1. Calm(x) => x.ub = "none"
      BY DEF Calm
    <3> QED BY <1>1, <2>4, <3>1 DEF Leads
  <2> QED BY <2>1, <2>3, <2>5, <2>6 DEF u
<1> QED BY <1>10, <1>11, <1>12

\* The text of the filter.
WithText(s, f, n, text) == [s EXCEPT !.gd.filtered = f, !.gd.len = n, !.gd.text = text]

LEMMA TextFields ==
  ASSUME NEW s \in CoreState, NEW f \in QueueIds, NEW n \in Nat, NEW text \in TextRec
  PROVE  LET u == WithText(s, f, n, text)
         IN /\ u \in CoreState /\ u.gd.filtered = f /\ u.gd.text = text
            /\ u.gd.lists = s.gd.lists /\ u.gd.selected = s.gd.selected
            /\ u.gd.convert = s.gd.convert /\ u.gd.tabconv = s.gd.tabconv
            /\ u.gd.playing = s.gd.playing
            /\ u.q = s.q /\ u.qm = s.qm /\ u.e = s.e /\ u.t = s.t /\ u.made = s.made
            /\ u.ub = s.ub
<1> DEFINE g == s.gd
           G1 == [g EXCEPT !.filtered = f]
           G2 == [G1 EXCEPT !.len = n]
           G == [G2 EXCEPT !.text = text]
           u == [s EXCEPT !.gd = G]
<1>1. u = WithText(s, f, n, text)
  BY DEF WithText, CoreState
<1>2. g \in GdRec
  BY CoreFields
<1> HIDE DEF g
<1>3. /\ G1 \in GdRec /\ G1.filtered = f /\ G1.lists = g.lists /\ G1.selected = g.selected
      /\ G1.convert = g.convert /\ G1.tabconv = g.tabconv /\ G1.playing = g.playing
  BY <1>2 DEF GdRec
<1> HIDE DEF G1
<1>4. /\ G2 \in GdRec /\ G2.filtered = f /\ G2.lists = g.lists /\ G2.selected = g.selected
      /\ G2.convert = g.convert /\ G2.tabconv = g.tabconv /\ G2.playing = g.playing
  BY <1>3 DEF GdRec
<1> HIDE DEF G2
<1>5. /\ G \in GdRec /\ G.filtered = f /\ G.lists = g.lists /\ G.selected = g.selected
      /\ G.convert = g.convert /\ G.tabconv = g.tabconv /\ G.playing = g.playing
      /\ G.text = text
  BY <1>4 DEF GdRec
<1> HIDE DEF G
<1>6. /\ u \in CoreState /\ u.gd = G /\ u.qm = s.qm /\ u.q = s.q /\ u.e = s.e /\ u.t = s.t
      /\ u.made = s.made /\ u.ub = s.ub
  BY <1>5, GdChange
<1> HIDE DEF u
<1> QED BY <1>1, <1>5, <1>6 DEF g

LEMMA LenFields ==
  ASSUME NEW s \in CoreState, NEW n \in Nat
  PROVE  LET u == [s EXCEPT !.gd.len = n]
         IN /\ u \in CoreState /\ SameTabs(u, s) /\ u.gd.playing = s.gd.playing
            /\ u.q = s.q /\ u.qm = s.qm /\ u.e = s.e /\ u.t = s.t /\ u.made = s.made
            /\ u.ub = s.ub
<1> DEFINE g == s.gd
           G == [g EXCEPT !.len = n]
           u == [s EXCEPT !.gd = G]
<1>1. u = [s EXCEPT !.gd.len = n]
  BY DEF CoreState
<1>2. g \in GdRec
  BY CoreFields
<1> HIDE DEF g
<1>3. /\ G \in GdRec /\ G.filtered = g.filtered /\ G.lists = g.lists /\ G.selected = g.selected
      /\ G.convert = g.convert /\ G.tabconv = g.tabconv /\ G.playing = g.playing
      /\ G.text = g.text
  BY <1>2 DEF GdRec
<1> HIDE DEF G
<1>4. /\ u \in CoreState /\ u.gd = G /\ u.qm = s.qm /\ u.q = s.q /\ u.e = s.e /\ u.t = s.t
      /\ u.made = s.made /\ u.ub = s.ub
  BY <1>3, GdChange
<1> HIDE DEF u
<1> QED BY <1>1, <1>3, <1>4 DEF g, SameTabs

\* list_filter without a text
LEMMA ListFilterOffLeads ==
  ASSUME NEW s \in CoreState, Sound(s)
  PROVE  Leads(s, ListFilterOff(s))
<1> DEFINE x == ListFilterClose(s)
           v == [x EXCEPT !.gd.len = 0]
           u == ListFilterOff(s)
<1>1. u = IF s.gd.tabconv THEN s ELSE v
  BY Zenon DEF ListFilterOff
<1>2. Leads(s, x) /\ x \in CoreState
  BY ListFilterCloseLeads DEF Leads
<1> HIDE DEF x, u
<1>3. CASE s.gd.tabconv
  <2>1. u = s
    BY <1>1, <1>3
  <2> QED BY <2>1 DEF Leads, u
<1>4. CASE ~s.gd.tabconv
  <2>1. u = v
    BY <1>1, <1>4
  <2>2. /\ v \in CoreState /\ SameTabs(v, x) /\ v.gd.playing = x.gd.playing
        /\ v.q = x.q /\ v.qm = x.qm /\ v.e = x.e /\ v.t = x.t /\ v.ub = x.ub
    BY <1>2, LenFields
  <2> HIDE DEF v
  <2>3. \A q \in Queues : v.q[q].st = x.q[q].st /\ Ents(v, q) = Ents(x, q)
    BY <2>2 DEF Ents
  <2>4. SameLists(v, x)
    BY <2>2, <2>3 DEF SameLists
  <2>5. Fewer(v, x)
    BY <2>4, SameFewer
  <2>6. ASSUME v.ub = "none"
        PROVE  Sound(x) /\ Leads(x, v)
    <3>1. Sound(x) /\ Refs(x, {}, 0)
      BY <1>2, <2>2, <2>6, SoundParts DEF Leads
    <3>2. Refs(v, {}, 0)
      BY <2>2, <2>3, <3>1, RefsFrame
    <3> QED BY <1>2, <2>2, <2>5, <3>1, <3>2, FewerLeads
  <2>7. Calm(x) => v.ub = "none"
    BY <2>2 DEF Calm
  <2> QED BY <1>2, <2>1, <2>2, <2>6, <2>7 DEF Leads, u
<1> QED BY <1>3, <1>4

\* list_filter: the lists that match replace the ones that matched before.
LEMMA ListFilterLeads ==
  ASSUME NEW s \in CoreState, Sound(s), NEW text \in Texts, \E q \in Queues : s.q[q].st = "none"
  PROVE  Leads(s, ListFilter(s, text))
<1> DEFINE from == IF s.gd.filtered # 0 /\ text.len > s.gd.len THEN s.gd.filtered ELSE s.gd.selected
           old == s.gd.filtered
           f == QFilter(s, from, text)
           new == f.made
           hits == Hits(s, from, text)
           x == ListFilterClose(f)
           n == text.len
           v == WithText(x, new, n, text)
           u == ListFilter(s, text)
<1>1. u = IF s.gd.tabconv THEN s ELSE v
  BY Zenon DEF ListFilter, WithText
<1>2. from \in Queues
  BY GdFields
<1>3. text \in TextRec /\ n \in Nat
  BY GuiAssumption DEF TextRec
<1>4. Refs(s, {}, 0) /\ OwnOk(s, {old}) /\ TabsOk(s)
  BY SoundParts DEF Shape
<1>5. Refs(f, {}, 0)
  BY <1>2, <1>4, QFilterRefs
<1> HIDE DEF u, from
<1>6. /\ f \in CoreState /\ new \in Queues /\ s.q[new].st = "none" /\ f.q[new].st = "live"
      /\ \A p \in Queues : p # new => f.q[p].st = s.q[p].st /\ Ents(f, p) = Ents(s, p)
      /\ Ents(f, new) = hits /\ hits \in Seq(Entries)
      /\ \A e \in Entries : f.e[e].st = s.e[e].st /\ f.e[e].q = s.e[e].q /\ f.e[e].name = s.e[e].name
      /\ f.qm.lists = Append(s.qm.lists, new) /\ f.qm.selected = s.qm.selected
      /\ f.t = s.t /\ f.gd = s.gd /\ f.ub = s.ub
  <2>1. new = NewId(s.q)
    BY <1>2, QFilterFields
  <2> QED BY <1>2, <2>1, QFilterFields
<1>7. \A e : Contains(hits, e) => s.e[e].name \in text.shows
  BY <1>2, Listed, KeepElements DEF Hits
<1> HIDE DEF f, new, hits, n
<1>8. old # new /\ (old # 0 => f.q[old].st = "live" /\ old \in Queues) /\ old = f.gd.filtered
  <2>1. old # 0 => s.q[old].st = "live" /\ old \in Queues
    BY <1>4, GdFields DEF TabsOk
  <2>2. old # new
    BY <1>6, <2>1, Bounds, States
  <2> QED BY <1>6, <2>1, <2>2
<1>9. /\ Unfiltered(x, f)
      /\ x.ub = "none" =>
           Refs(x, {}, 0) /\ \A e \in Entries : x.e[e].st = "live" => f.e[e].st = "live"
      /\ f.ub = "none" /\ Home(f) => x.ub = "none"
  BY <1>5, <1>6, <1>8, ListFilterCloseFields
<1> HIDE DEF x, old
<1>10. x \in CoreState
  BY <1>9 DEF Unfiltered
<1>11. /\ v \in CoreState /\ v.gd.filtered = new /\ v.gd.text = text
       /\ v.gd.lists = x.gd.lists /\ v.gd.selected = x.gd.selected
       /\ v.gd.convert = x.gd.convert /\ v.gd.tabconv = x.gd.tabconv
       /\ v.gd.playing = x.gd.playing
       /\ v.q = x.q /\ v.qm = x.qm /\ v.e = x.e /\ v.t = x.t /\ v.ub = x.ub
  <2>1. new \in QueueIds
    BY <1>6, Bounds
  <2> QED BY <1>3, <1>10, <2>1, TextFields
<1> HIDE DEF v
<1>12. /\ v.q[new].st = "live" /\ Ents(v, new) = hits
       /\ \A p \in Queues : p # new /\ p # old =>
            v.q[p].st = s.q[p].st /\ Ents(v, p) = Ents(s, p)
       /\ old # 0 => v.q[old].st = "freed" /\ Ents(v, old) = <<>>
       /\ \A e \in Entries : v.e[e].q = s.e[e].q /\ v.e[e].name = s.e[e].name
  <2>1. \A p \in Queues : v.q[p].st = x.q[p].st /\ Ents(v, p) = Ents(x, p)
    BY <1>11 DEF Ents
  <2>2. \A p \in Queues : IF p = old THEN x.q[p].st = "freed" /\ Ents(x, p) = <<>>
                          ELSE x.q[p].st = f.q[p].st /\ Ents(x, p) = Ents(f, p)
    BY <1>8, <1>9 DEF Unfiltered
  <2>3. \A e \in Entries : x.e[e].q = f.e[e].q /\ x.e[e].name = f.e[e].name
    BY <1>9 DEF Unfiltered
  <2>4. v.q[new].st = "live" /\ Ents(v, new) = hits
    BY <1>6, <1>8, <2>1, <2>2
  <2>5. old # 0 => v.q[old].st = "freed" /\ Ents(v, old) = <<>>
    BY <1>8, <2>1, <2>2
  <2>6. ASSUME NEW p \in Queues, p # new, p # old
        PROVE  v.q[p].st = s.q[p].st /\ Ents(v, p) = Ents(s, p)
    BY <1>6, <2>1, <2>2, <2>6
  <2> QED BY <1>6, <1>11, <2>3, <2>4, <2>5, <2>6
<1>13. TabsOk(v)
  <2> DEFINE L == s.gd.lists
             S == Queues \ {old}
             R == Queues \ {new}
  <2>1. s.qm.lists \in Seq(Queues) /\ L \in Seq(Queues) /\ new \in Queues /\ L = Keep(s.qm.lists, S)
    BY <1>4, <1>6, GdFields DEF TabsOk, old
  <2>2. v.qm.lists = Keep(Append(s.qm.lists, new), S) /\ new \in S
    BY <1>6, <1>8, <1>9, <1>11 DEF Unfiltered
  <2>3. /\ v.gd.lists = L /\ v.gd.selected = s.gd.selected /\ v.gd.convert = s.gd.convert
        /\ v.gd.tabconv = s.gd.tabconv /\ v.gd.filtered = new
    BY <1>6, <1>9, <1>11 DEF Unfiltered
  <2>4. /\ \A q : Contains(L, q) <=> Contains(s.qm.lists, q) /\ q \in S
        /\ Once(L)
    BY <1>4, <2>1, KeepElements, KeepOnce DEF TabsOk
  <2> HIDE DEF L, S
  <2>5. v.qm.lists = Append(L, new)
    BY <2>1, <2>2, KeepAppend
  <2>6. ~Contains(L, new)
    BY <1>4, <1>6, <2>4, States DEF TabsOk
  <2>7. /\ Once(v.qm.lists)
        /\ \A q : Contains(v.qm.lists, q) <=> Contains(L, q) \/ q = new
    BY <2>1, <2>4, <2>5, <2>6, OnceAppend, AppendContains
  <2>8. \A q \in Queues : Contains(v.qm.lists, q) <=> v.q[q].st = "live"
    <3>1. \A q \in Queues : Contains(s.qm.lists, q) <=> s.q[q].st = "live"
      BY <1>4 DEF TabsOk
    <3>2. ASSUME NEW q \in Queues
          PROVE  Contains(v.qm.lists, q) <=> v.q[q].st = "live"
      <4>1. CASE q = new
        BY <1>12, <2>7, <4>1
      <4>2. CASE q = old
        BY <1>8, <1>12, <2>4, <2>7, <4>2, Bounds, States DEF S
      <4>3. CASE q # new /\ q # old
        BY <1>12, <2>4, <2>7, <3>1, <4>3 DEF S
      <4> QED BY <4>1, <4>2, <4>3
    <3> QED BY <3>2
  <2>9. v.gd.lists = Keep(v.qm.lists, Queues \ {v.gd.filtered})
    <3>1. Keep(Append(L, new), R) = Keep(L, R)
      <4>1. new \notin R
        OBVIOUS
      <4> HIDE DEF R
      <4> QED BY <2>1, <4>1, KeepAppend
    <3>2. \A q : Contains(L, q) => q \in R
      BY <2>1, <2>6 DEF Contains
    <3> HIDE DEF R
    <3>3. Keep(L, R) = L
      BY <2>1, <3>2, KeepAll
    <3> QED BY <2>3, <2>5, <3>1, <3>3 DEF R
  <2> QED BY <1>4, <1>12, <2>3, <2>7, <2>8, <2>9 DEF TabsOk, L
<1>14. OwnOk(v, {v.gd.filtered})
  <2>1. ASSUME NEW p \in Queues, p # new, NEW e \in Entries, Contains(Ents(v, p), e)
        PROVE  v.e[e].q = p
    <3>1. p # old
      BY <1>12, <2>1, Bounds DEF Contains
    <3> QED BY <1>4, <1>12, <2>1, <3>1 DEF OwnOk
  <2> QED BY <1>11, <2>1 DEF OwnOk
<1>15. FilterOk(v)
  BY <1>7, <1>11, <1>12 DEF FilterOk
<1>16. ASSUME v.ub = "none"
       PROVE  Sound(v) /\ \A e \in Entries : v.e[e].st = "live" => s.e[e].st = "live"
  <2>1. Refs(x, {}, 0) /\ \A e \in Entries : x.e[e].st = "live" => f.e[e].st = "live"
    BY <1>9, <1>11, <1>16
  <2>2. \A p \in Queues : v.q[p].st = x.q[p].st /\ Ents(v, p) = Ents(x, p)
    BY <1>11 DEF Ents
  <2>3. Refs(v, {}, 0)
    BY <1>11, <2>1, <2>2, RefsFrame
  <2> QED BY <1>6, <1>11, <1>13, <1>14, <1>15, <2>1, <2>3, SoundParts DEF Shape
<1>17. ASSUME Calm(s)
       PROVE  Calm(v)
  <2>1. s.ub = "none" /\ Home(s) /\ DefaultOk(s)
    BY <1>17 DEF Calm
  <2>2. \A e \in Entries : s.e[e].q \in Queues
    BY CoreFields, EntryFields
  <2>3. Home(f)
    BY <1>6, <1>8, <2>1, <2>2, States DEF Home
  <2>4. v.ub = "none"
    BY <1>6, <1>9, <1>11, <2>1, <2>3
  <2>5. Home(v)
    <3>1. ASSUME NEW e \in Entries, v.e[e].st = "live"
          PROVE  v.q[v.e[e].q].st = "live" /\ v.e[e].q # new
      <4>1. s.e[e].st = "live" /\ v.e[e].q = s.e[e].q
        BY <1>12, <1>16, <2>4, <3>1
      <4>2. s.q[s.e[e].q].st = "live" /\ s.e[e].q # old
        BY <2>1, <4>1 DEF Home, old
      <4>3. s.e[e].q # new
        BY <1>6, <4>2, States
      <4> QED BY <1>12, <2>2, <4>1, <4>2, <4>3
    <3> QED BY <1>11, <3>1 DEF Home
  <2>6. DefaultOk(v)
    <3>1. s.qm.selected \in Nat /\ s.qm.selected < Len(s.qm.lists) /\ s.qm.lists \in Seq(Queues)
      BY <2>1, GdFields DEF DefaultOk
    <3>2. /\ Len(f.qm.lists) = Len(s.qm.lists) + 1
          /\ \A i \in 1..Len(s.qm.lists) : f.qm.lists[i] = s.qm.lists[i]
      BY <1>6, <3>1
    <3>3. 1..(s.qm.selected + 1) \subseteq 1..Len(s.qm.lists)
      BY <3>1
    <3>4. \A i \in 1..(s.qm.selected + 1) : s.qm.lists[i] # old
      BY <2>1 DEF DefaultOk, old
    <3>5. DefaultOk(f)
      <4>1. f.qm.selected = s.qm.selected /\ f.qm.selected < Len(f.qm.lists)
        BY <1>6, <3>1, <3>2
      <4> QED BY <1>8, <3>2, <3>3, <3>4, <4>1 DEF DefaultOk
    <3>6. /\ DefaultOk(x)
          /\ \A i \in 1..(f.qm.selected + 1) : x.qm.lists[i] = f.qm.lists[i]
      BY <1>6, <1>9, <3>5, UnfilteredDefault
    <3>7. \A i \in 1..(s.qm.selected + 1) : s.qm.lists[i] # new
      <4>1. ~Contains(s.qm.lists, new)
        BY <1>4, <1>6, States DEF TabsOk
      <4> QED BY <3>3, <4>1 DEF Contains
    <3>8. v.qm.selected = s.qm.selected /\ v.qm.lists = x.qm.lists /\ f.qm.selected = s.qm.selected
      BY <1>6, <1>9, <1>11 DEF Unfiltered
    <3>9. \A i \in 1..(s.qm.selected + 1) : v.qm.lists[i] # new
      BY <3>2, <3>3, <3>6, <3>7, <3>8
    <3>10. v.qm.selected < Len(v.qm.lists)
      BY <1>11, <3>6 DEF DefaultOk
    <3> QED BY <1>11, <3>8, <3>9, <3>10 DEF DefaultOk
  <2> QED BY <2>4, <2>5, <2>6 DEF Calm
<1>18. Leads(s, v)
  BY <1>11, <1>16, <1>17 DEF Leads
<1>19. CASE s.gd.tabconv
  BY <1>1, <1>19 DEF Leads, u
<1>20. CASE ~s.gd.tabconv
  BY <1>1, <1>18, <1>20 DEF u
<1> QED BY <1>19, <1>20

\* q_add to a list that is no filtered one.
LEMMA QAddSound ==
  ASSUME NEW s \in CoreState, Sound(s), NEW q \in Queues, s.q[q].st = "live", q # s.gd.filtered,
         NEW name \in Names, \E e \in Entries : s.e[e].st = "none"
  PROVE  LET u == QAdd(s, q, name)
         IN /\ u \in CoreState /\ Sound(u) /\ u.ub = s.ub /\ u.gd = s.gd /\ u.qm = s.qm /\ u.t = s.t
            /\ Home(s) => Home(u)
            /\ DefaultOk(s) => DefaultOk(u)
            /\ \A p \in Queues : u.q[p].st = s.q[p].st
<1> DEFINE u == QAdd(s, q, name)
           n == NewId(s.e)
           f == s.gd.filtered
<1>1. /\ u \in CoreState
      /\ n \in Entries /\ s.e[n].st = "none"
      /\ u.e[n].st = "live" /\ u.e[n].q = q
      /\ \A d \in Entries : d # n => u.e[d] = s.e[d]
      /\ Ents(u, q) = Append(Ents(s, q), n)
      /\ \A p \in Queues : p # q => Ents(u, p) = Ents(s, p)
      /\ \A p \in Queues : u.q[p].st = s.q[p].st
      /\ u.qm = s.qm /\ u.t = s.t /\ u.gd = s.gd /\ u.ub = s.ub
  BY QAddFields
<1>2. Refs(s, {}, 0) /\ OwnOk(s, {f}) /\ FilterOk(s) /\ TabsOk(s)
  BY SoundParts DEF Shape
<1>3. Refs(u, {}, 0)
  BY <1>2, QAddRefs
<1> HIDE DEF u, n
<1>4. Ents(s, q) \in Seq(Entries)
  BY Listed
<1>5. \A e : Contains(Ents(u, q), e) <=> Contains(Ents(s, q), e) \/ e = n
  BY <1>1, <1>4, AppendContains
<1>6. \A p \in Queues : ~Contains(Ents(s, p), n)
  BY <1>1, <1>2, ListedLive, States
<1>7. OwnOk(u, {f})
  <2>1. ASSUME NEW p \in Queues \ {f}, NEW e \in Entries, Contains(Ents(u, p), e)
        PROVE  u.e[e].q = p
    <3>1. CASE e = n
      BY <1>1, <1>6, <2>1, <3>1
    <3>2. CASE e # n
      <4>1. Contains(Ents(s, p), e)
        BY <1>1, <1>5, <2>1, <3>2
      <4> QED BY <1>1, <1>2, <3>2, <4>1 DEF OwnOk
    <3> QED BY <3>1, <3>2
  <2> QED BY <2>1 DEF OwnOk
<1>8. FilterOk(u)
  <2>1. ASSUME f # 0, NEW e \in Entries, Contains(Ents(u, f), e)
        PROVE  u.e[e].name \in u.gd.text.shows
    <3>1. f \in Queues /\ Ents(u, f) = Ents(s, f)
      BY <1>1, <2>1, GdFields
    <3>2. e # n
      BY <1>6, <2>1, <3>1
    <3>3. s.e[e].name \in s.gd.text.shows
      BY <1>2, <2>1, <3>1 DEF FilterOk
    <3> QED BY <1>1, <3>2, <3>3
  <2> QED BY <1>1, <2>1 DEF FilterOk
<1>9. TabsOk(u)
  <2>1. SameTabs(u, s)
    BY <1>1 DEF SameTabs
  <2> QED BY <1>1, <1>2, <2>1, TabsFrame
<1>10. Home(s) => Home(u)
  <2>1. \A e \in Entries : s.e[e].q \in Queues
    BY CoreFields, EntryFields
  <2> QED BY <1>1, <2>1 DEF Home
<1>11. DefaultOk(s) => DefaultOk(u)
  BY <1>1 DEF DefaultOk
<1>12. Sound(u)
  BY <1>1, <1>3, <1>7, <1>8, <1>9, SoundParts DEF Shape
<1> QED BY <1>1, <1>10, <1>11, <1>12 DEF u

\* The shown list has a tab and is no filtered one.
LEMMA TabLive ==
  ASSUME NEW s \in CoreState, TabsOk(s), NEW q, Contains(s.gd.lists, q)
  PROVE  q \in Queues /\ s.q[q].st = "live" /\ q # s.gd.filtered
<1>1. q \in Queues
  BY GdFields DEF Contains
<1>2. Contains(s.qm.lists, q) /\ q \in Queues \ {s.gd.filtered}
  BY GdFields, KeepElements DEF TabsOk
<1> QED BY <1>1, <1>2 DEF TabsOk

\* list_add
LEMMA ListAddLeads ==
  ASSUME NEW s \in CoreState, Sound(s), NEW name \in Names, \E e \in Entries : s.e[e].st = "none"
  PROVE  Leads(s, ListAdd(s, name)) \/ s.ub # "none"
<1> DEFINE u == ListAdd(s, name)
           q == s.gd.selected
<1>1. u = IF s.gd.filtered # 0 THEN s ELSE QAdd(s, q, name)
  BY DEF ListAdd
<1>2. q \in Queues /\ s.q[q].st = "live" /\ q # s.gd.filtered
  <2>1. TabsOk(s) /\ Contains(s.gd.lists, q)
    BY DEF Sound, TabsOk
  <2> QED BY <2>1, TabLive
<1> HIDE DEF u, q
<1>3. CASE s.gd.filtered # 0
  BY <1>1, <1>3 DEF Leads, u
<1>4. CASE s.gd.filtered = 0
  <2> DEFINE v == QAdd(s, q, name)
  <2>1. /\ v \in CoreState /\ Sound(v) /\ v.ub = s.ub
        /\ (Home(s) => Home(v)) /\ (DefaultOk(s) => DefaultOk(v))
    BY <1>2, QAddSound
  <2>2. u = v
    BY <1>1, <1>4
  <2> HIDE DEF v
  <2> QED BY <2>1, <2>2 DEF Leads, Calm, u
<1> QED BY <1>3, <1>4

\* A list in the opposite order.
LEMMA Reversed ==
  ASSUME NEW T, NEW l \in Seq(T)
  PROVE  /\ Reverse(l) \in Seq(T)
         /\ Once(l) => Once(Reverse(l))
         /\ \A x : Contains(Reverse(l), x) <=> Contains(l, x)
<1> DEFINE n == Len(l)
           r == Reverse(l)
<1>1. n \in Nat /\ r = [i \in 1..n |-> l[(n - i) + 1]]
  BY DEF Reverse
<1>2. \A i \in 1..n : (n - i) + 1 \in 1..n /\ (n - ((n - i) + 1)) + 1 = i
  BY <1>1
<1>3. r \in Seq(T) /\ Len(r) = n /\ \A i \in 1..n : r[i] = l[(n - i) + 1]
  BY <1>1, <1>2
<1> HIDE DEF r
<1>4. ASSUME Once(l)
      PROVE  Once(r)
  <2>1. ASSUME NEW i \in 1..n, NEW j \in 1..n, r[i] = r[j]
        PROVE  i = j
    <3>1. (n - i) + 1 = (n - j) + 1
      BY <1>2, <1>3, <1>4, <2>1 DEF Once
    <3> QED BY <1>1, <3>1
  <2> QED BY <1>3, <2>1 DEF Once
<1>5. ASSUME NEW x
      PROVE  Contains(r, x) <=> Contains(l, x)
  <2>1. ASSUME Contains(r, x) PROVE Contains(l, x)
    <3>1. PICK i \in 1..n : r[i] = x
      BY <1>3, <2>1 DEF Contains
    <3>2. l[(n - i) + 1] = x /\ (n - i) + 1 \in 1..n
      BY <1>2, <1>3, <3>1
    <3> QED BY <3>2 DEF Contains
  <2>2. ASSUME Contains(l, x) PROVE Contains(r, x)
    <3>1. PICK i \in 1..n : l[i] = x
      BY <2>2 DEF Contains
    <3>2. r[(n - i) + 1] = x /\ (n - i) + 1 \in 1..n
      BY <1>2, <1>3, <3>1
    <3> QED BY <1>3, <3>2 DEF Contains
  <2> QED BY <2>1, <2>2
<1> QED BY <1>3, <1>4, <1>5 DEF r

\* A_LIST_SORT, A_LIST_CLEAR
LEMMA ListSortLeads ==
  ASSUME NEW s \in CoreState, Sound(s), s.ub = "none"
  PROVE  Leads(s, ListSort(s)) /\ Leads(s, ListClear(s))
<1> DEFINE q == s.gd.selected
           l == Reverse(Ents(s, q))
           w == WithEnts(s, q, l)
           c == QClear(s, q)
<1>1. ListSort(s) = (IF s.gd.filtered # 0 THEN s ELSE w)
  BY DEF ListSort, WithEnts, Ents, CoreState
<1>2. ListClear(s) = (IF s.gd.filtered # 0 THEN s ELSE c)
  BY DEF ListClear
<1>3. q \in Queues
  BY GdFields
<1> HIDE DEF q
<1>4. /\ Refs(s, {}, 0) /\ Ents(s, q) \in Seq(Entries) /\ Once(Ents(s, q))
  BY <1>3, Listed, SoundParts DEF Refs, ListsOk
<1>5. l \in Seq(Entries) /\ Once(l) /\ \A e : Contains(l, e) <=> Contains(Ents(s, q), e)
  <2> DEFINE m == Ents(s, q)
  <2> HIDE DEF m
  <2>1. m \in Seq(Entries) /\ Once(m)
    BY <1>4 DEF m
  <2>2. /\ Reverse(m) \in Seq(Entries)
        /\ Once(m) => Once(Reverse(m))
        /\ \A x : Contains(Reverse(m), x) <=> Contains(m, x)
    BY <2>1, Reversed
  <2> QED BY <2>1, <2>2 DEF m
<1> HIDE DEF l
<1>6. Refs(w, {}, 0)
  <2> DEFINE H == { e \in Entries : Contains(Ents(s, q), e) /\ ~Contains(l, e) }
  <2>1. Refs(w, H, 0)
    BY <1>3, <1>4, <1>5, EntsRefs
  <2>2. H = {}
    BY <1>5
  <2> HIDE DEF H, w
  <2> QED BY <2>1, <2>2
<1>7. /\ w \in CoreState /\ Ents(w, q) = l
      /\ \A p \in Queues : p # q => Ents(w, p) = Ents(s, p)
      /\ \A p \in Queues : w.q[p].st = s.q[p].st
      /\ w.e = s.e /\ w.qm = s.qm /\ w.t = s.t /\ w.gd = s.gd /\ w.ub = s.ub
  BY <1>3, <1>5, EntsFields
<1> HIDE DEF w
<1>8. Fewer(w, s)
  BY <1>3, <1>5, <1>7 DEF Fewer, SameTabs
<1>9. Leads(s, w)
  BY <1>6, <1>7, <1>8, FewerLeads
<1>10. Leads(s, c)
  <2> DEFINE z == <<>>
  <2>1. Loses(c, s, q, z) /\ \A e : ~Contains(z, e)
    BY <1>3, QClearLoses DEF Contains
  <2> HIDE DEF z, c
  <2> QED BY <1>3, <2>1, LostLeads
<1>11. Leads(s, s)
  BY DEF Leads
<1> QED BY <1>1, <1>2, <1>9, <1>10, <1>11

-----------------------------------------------------------------------------
(* The player's commands.                                                  *)

\* A_STOP
LEMMA CtlStopLeads ==
  ASSUME NEW s \in CoreState, Sound(s), s.ub = "none"
  PROVE  Leads(s, CtlStop(s))
<1> DEFINE t == s.gd.playing
           v == "stopping"
           w == [s EXCEPT !.t[t].st = v]
<1>1. Leads(s, s)
  BY DEF Leads
<1>2. CtlStop(s) = IF t = 0 THEN s ELSE w
  BY DEF CtlStop
<1>3. CASE t # 0
  <2>1. t \in Tracks /\ Active(s, t)
    BY <1>3, Bounds, GdFields DEF Sound, TracksOk
  <2>2. v \in TrackStates
    BY States
  <2> HIDE DEF t, v
  <2>3. /\ w \in CoreState /\ w.t[t].st = v /\ w.t[t].e = s.t[t].e
        /\ \A k \in Tracks : k # t => w.t[k] = s.t[k]
        /\ w.q = s.q /\ w.qm = s.qm /\ w.e = s.e /\ w.gd = s.gd /\ w.ub = s.ub
    BY <2>1, <2>2, TrackStFields
  <2> HIDE DEF w
  <2>4. \A k \in Tracks : w.t[k].e = s.t[k].e /\ (Active(w, k) <=> Active(s, k))
    BY <2>1, <2>3 DEF Active, v
  <2>5. Refs(s, {}, 0)
    BY SoundParts
  <2>6. Refs(w, {}, 0)
    <3>1. \A e \in Entries : PlayedBy(w, e) = PlayedBy(s, e) /\ ShownBy(w, e, 0) = ShownBy(s, e, 0)
      BY <2>3, <2>4 DEF PlayedBy, ShownBy, Ents
    <3>2. Counted(w, {}, 0)
      BY <2>3, <2>5, <3>1 DEF Refs, Counted
    <3>3. TracksOk(w)
      <4>1. \A e \in Entries : s.e[e].trk \in TrackIds
        BY CoreFields, EntryFields
      <4> QED BY <2>3, <2>4, <2>5, <4>1, Bounds, GdFields DEF Refs, TracksOk
    <3>4. ListsOk(w) /\ NamesOk(w)
      BY <2>3, <2>5 DEF Refs, ListsOk, NamesOk, Ents
    <3> QED BY <3>2, <3>3, <3>4 DEF Refs
  <2>7. Fewer(w, s)
    BY <2>3 DEF Fewer, SameTabs, Ents
  <2>8. Leads(s, w)
    BY <2>3, <2>6, <2>7, FewerLeads
  <2> QED BY <1>2, <1>3, <2>8 DEF t
<1> QED BY <1>1, <1>2, <1>3

\* qm_qselect changes the default queue only.
LEMMA QmQselectFields ==
  ASSUME NEW s \in CoreState, NEW q \in Queues
  PROVE  LET u == QmQselect(s, q)
         IN /\ u \in CoreState /\ u.qm.lists = s.qm.lists
            /\ u.q = s.q /\ u.e = s.e /\ u.t = s.t /\ u.gd = s.gd /\ u.made = s.made /\ u.ub = s.ub
            /\ u.qm.selected # s.qm.selected => u.qm.selected < Len(s.qm.lists)
<1> DEFINE i == (CHOOSE i \in 1..Len(s.qm.lists) : s.qm.lists[i] = q)
           u == QmQselect(s, q)
           r == [s.qm EXCEPT !.selected = i - 1]
           w == [s EXCEPT !.qm = r]
<1>1. s.qm \in QmRec /\ s.qm.lists \in Seq(Queues)
  BY CoreFields, GdFields
<1>2. CASE Contains(s.qm.lists, q)
  <2>1. i \in 1..Len(s.qm.lists)
    BY <1>2 DEF Contains
  <2>2. i - 1 \in Nat /\ i - 1 < Len(s.qm.lists)
    BY <1>1, <2>1
  <2>3. u = w
    BY <1>2 DEF QmQselect
  <2> HIDE DEF i
  <2>4. r \in QmRec /\ r.lists = s.qm.lists /\ r.selected = i - 1
    BY <1>1, <2>2 DEF QmRec
  <2> HIDE DEF r
  <2>5. /\ w \in CoreState /\ w.qm = r /\ w.q = s.q /\ w.e = s.e /\ w.t = s.t /\ w.gd = s.gd
        /\ w.made = s.made /\ w.ub = s.ub
    BY <2>4, CoreFields, CoreChanges
  <2> HIDE DEF w
  <2> QED BY <2>2, <2>3, <2>4, <2>5
<1>3. CASE ~Contains(s.qm.lists, q)
  BY <1>3 DEF QmQselect
<1> QED BY <1>2, <1>3

\* A default queue of the array.
LEMMA DefaultListed ==
  ASSUME NEW s \in CoreState
  PROVE  /\ Default(s) \in QueueIds
         /\ s.qm.selected < Len(s.qm.lists) => Default(s) # 0
<1>1. s.qm.lists \in Seq(Queues) /\ s.qm.selected \in Nat
  BY GdFields
<1> DEFINE l == s.qm.lists
           n == s.qm.selected
<1> HIDE DEF l, n
<1>2. l \in Seq(Queues) /\ n \in Nat
  BY <1>1 DEF l, n
<1>3. n < Len(l) => l[n + 1] \in Queues
  BY <1>2
<1>4. Default(s) = IF n < Len(l) THEN l[n + 1] ELSE 0
  BY DEF Default, l, n
<1> QED BY <1>3, <1>4, Bounds DEF l, n

\* ctl_play's choice of the default queue.
LEMMA SelectedDefault ==
  ASSUME NEW s \in CoreState, Sound(s)
  PROVE  LET x == IF s.gd.filtered = 0 /\ ~s.gd.tabconv THEN QmQselect(s, s.gd.selected) ELSE s
         IN x \in CoreState /\ Sound(x) /\ x.t = s.t /\ x.ub = s.ub /\ (Calm(s) => Calm(x))
<1> DEFINE q == s.gd.selected
           u == QmQselect(s, q)
<1>1. q \in Queues
  BY GdFields
<1> HIDE DEF q
<1>2. /\ u \in CoreState /\ u.qm.lists = s.qm.lists
      /\ u.q = s.q /\ u.e = s.e /\ u.t = s.t /\ u.gd = s.gd /\ u.ub = s.ub
      /\ u.qm.selected # s.qm.selected => u.qm.selected < Len(s.qm.lists)
  BY <1>1, QmQselectFields
<1> HIDE DEF u
<1>3. Sound(u)
  <2>1. Refs(s, {}, 0) /\ Shape(s)
    BY SoundParts
  <2>2. Refs(u, {}, 0)
    BY <1>2, <2>1, RefsFrame DEF Ents
  <2>3. Shape(u)
    <3>1. OwnOk(u, {u.gd.filtered})
      BY <1>2, <2>1 DEF Shape, OwnOk, Ents
    <3>2. FilterOk(u)
      BY <1>2, <2>1 DEF Shape, FilterOk, Ents
    <3>3. TabsOk(u)
      BY <1>2, <2>1 DEF Shape, TabsOk
    <3> QED BY <3>1, <3>2, <3>3 DEF Shape
  <2> QED BY <2>2, <2>3, SoundParts
<1>4. ASSUME Calm(s), s.gd.filtered = 0
      PROVE  Calm(u)
  <2>1. Home(u)
    BY <1>2, <1>4 DEF Calm, Home
  <2>2. u.qm.selected < Len(u.qm.lists) /\ u.qm.selected \in Nat /\ u.qm.lists \in Seq(Queues)
    BY <1>2, <1>4, GdFields DEF Calm, DefaultOk
  <2>3. \A i \in 1..(u.qm.selected + 1) : u.qm.lists[i] \in Queues
    <3> DEFINE l == u.qm.lists
               n == u.qm.selected
    <3>1. n < Len(l) /\ n \in Nat /\ l \in Seq(Queues)
      BY <2>2
    <3> HIDE DEF l, n
    <3>2. \A i \in 1..(n + 1) : l[i] \in Queues
      BY <3>1
    <3> QED BY <3>2 DEF l, n
  <2>4. DefaultOk(u)
    BY <1>2, <1>4, <2>2, <2>3, Bounds DEF DefaultOk
  <2> QED BY <1>2, <1>4, <2>1, <2>4 DEF Calm
<1> QED BY <1>2, <1>3, <1>4 DEF q, u

\* A_LIST_PLAY
LEMMA CtlPlayLeads ==
  ASSUME NEW s \in CoreState, Sound(s), s.ub = "none", NEW i, \E t \in Tracks : s.t[t].st = "none"
  PROVE  Leads(s, CtlPlay(s, i))
<1> DEFINE x == IF s.gd.filtered = 0 /\ ~s.gd.tabconv THEN QmQselect(s, s.gd.selected) ELSE s
           q == IF x.gd.filtered # 0 THEN x.gd.filtered ELSE Default(x)
           n == x.q[Default(x)].cidx + 1
           e == IF q = 0 THEN 0 ELSE EntryAt(x, q, i)
           c == IF Default(x) = 0 THEN 0 ELSE EntryAt(x, Default(x), n)
           u == CtlPlay(s, i)
<1>1. x \in CoreState /\ Sound(x) /\ x.t = s.t /\ x.ub = s.ub /\ (Calm(s) => Calm(x))
  BY SelectedDefault
<1>2. u = IF q = 0 \/ (e = 0 /\ Default(x) = 0) THEN Bad(x, "default")
          ELSE IF e # 0 THEN QPlay(x, e) ELSE IF c # 0 THEN QPlay(x, c) ELSE x
  BY Zenon DEF CtlPlay
<1> HIDE DEF x, u
<1>3. Refs(x, {}, 0) /\ \E t \in Tracks : x.t[t].st = "none"
  BY <1>1, SoundParts
<1>4. Default(x) \in QueueIds /\ (Calm(x) => Default(x) # 0)
  BY <1>1, DefaultListed DEF Calm, DefaultOk
<1>5. q # 0 => q \in Queues
  BY <1>1, <1>4, Bounds, GdFields
<1>6. ASSUME Leads(x, u)
      PROVE  Leads(s, u)
  BY <1>1, <1>6 DEF Leads
<1>7. CASE q = 0 \/ (e = 0 /\ Default(x) = 0)
  <2>1. u = Bad(x, "default") /\ "default" \in Faults
    BY <1>2, <1>7 DEF Faults
  <2>2. u \in CoreState /\ u.ub # "none"
    BY <1>1, <2>1, BadFields
  <2>3. ~Calm(x)
    BY <1>4, <1>7
  <2> QED BY <1>1, <2>2, <2>3 DEF Leads, u
<1>8. CASE q # 0 /\ e # 0
  <2>1. u = QPlay(x, EntryAt(x, q, i)) /\ EntryAt(x, q, i) # 0
    BY <1>2, <1>8
  <2> HIDE DEF q
  <2>2. PlaysOn(u, x, {})
    BY <1>1, <1>3, <1>5, <1>8, <2>1, EntryPlaysOn
  <2> QED BY <1>1, <1>6, <2>2, PlaysOnLeads DEF u
<1>9. CASE q # 0 /\ e = 0 /\ Default(x) # 0 /\ c # 0
  <2> DEFINE d == Default(x)
  <2>1. u = QPlay(x, EntryAt(x, d, n)) /\ EntryAt(x, d, n) # 0 /\ d \in Queues
    BY <1>2, <1>4, <1>9, Bounds
  <2> HIDE DEF d, n
  <2>2. PlaysOn(u, x, {})
    BY <1>1, <1>3, <2>1, EntryPlaysOn
  <2> QED BY <1>1, <1>6, <2>2, PlaysOnLeads DEF u
<1>10. CASE q # 0 /\ e = 0 /\ Default(x) # 0 /\ c = 0
  <2>1. u = x
    BY <1>2, <1>10
  <2> QED BY <1>1, <2>1 DEF Leads, u
<1> QED BY <1>7, <1>8, <1>9, <1>10

\* A_NEXT
LEMMA CtlNextLeads ==
  ASSUME NEW s \in CoreState, Sound(s), s.ub = "none", \E t \in Tracks : s.t[t].st = "none"
  PROVE  Leads(s, CtlNext(s))
<1> DEFINE d == Default(s)
           u == CtlNext(s)
<1>1. u = IF d = 0 THEN Bad(s, "default") ELSE QPlayNext(s, d)
  BY DEF CtlNext
<1>2. d \in QueueIds /\ (Calm(s) => d # 0)
  BY DefaultListed DEF Calm, DefaultOk
<1> HIDE DEF u, d
<1>3. CASE d = 0
  <2>1. u = Bad(s, "default") /\ "default" \in Faults
    BY <1>1, <1>3 DEF Faults
  <2>2. u \in CoreState /\ u.ub # "none"
    BY <2>1, BadFields
  <2> QED BY <1>2, <1>3, <2>2 DEF Leads, u
<1>4. CASE d # 0
  <2>1. d \in Queues /\ u = QPlayNext(s, d) /\ Refs(s, {}, 0)
    BY <1>1, <1>2, <1>4, Bounds, SoundParts
  <2>2. PlaysOn(u, s, {})
    BY <2>1, QPlayNextOn
  <2> QED BY <2>2, PlaysOnLeads DEF u
<1> QED BY <1>3, <1>4

-----------------------------------------------------------------------------
(* Rows: one after the other.                                              *)

\* AddRows, one row after the other.
LEMMA RowsUnfold ==
  ASSUME NEW s, NEW from, NEW to, NEW rows
  PROVE  \E f : /\ f[0] = s /\ \A k \in 1..MaxEntries : f[k] = AddRow(f[k - 1], from, to, rows, k)
                /\ AddRows(s, from, to, rows) = f[MaxEntries]
<1> DEFINE m == MaxEntries
           f == CHOOSE g : g = [k \in 0..m |-> IF k = 0 THEN s ELSE AddRow(g[k - 1], from, to, rows, k)]
           Is(g, n) == g = [k \in 0..n |-> IF k = 0 THEN s ELSE AddRow(g[k - 1], from, to, rows, k)]
           S == { n \in Nat : \E g : Is(g, n) }
<1>0. m \in Nat
  BY Bounds
<1>1. 0 \in S
  <2> DEFINE g == [k \in 0..0 |-> s]
  <2>1. g = [k \in 0..0 |-> IF k = 0 THEN s ELSE AddRow(g[k - 1], from, to, rows, k)]
    OBVIOUS
  <2> HIDE DEF g
  <2> QED BY <2>1
<1>2. ASSUME NEW n \in Nat, n \in S
      PROVE  n + 1 \in S
  <2>1. PICK g : Is(g, n)
    BY <1>2
  <2>2. g[0] = s /\ \A k \in 1..n : g[k] = AddRow(g[k - 1], from, to, rows, k)
    BY <2>1
  <2> DEFINE v == AddRow(g[n], from, to, rows, n + 1)
             h == [k \in 0..(n + 1) |-> IF k = n + 1 THEN v ELSE g[k]]
  <2> HIDE DEF v
  <2>3. h[0] = s /\ h[n + 1] = v /\ \A k \in 0..n : h[k] = g[k]
    BY <2>2
  <2>4. ASSUME NEW k \in 0..(n + 1)
        PROVE  h[k] = IF k = 0 THEN s ELSE AddRow(h[k - 1], from, to, rows, k)
    <3> HIDE DEF h
    <3>1. CASE k = 0
      BY <2>3, <3>1
    <3>2. CASE k = n + 1
      <4>1. k - 1 = n /\ n \in 0..n /\ k # 0
        BY <3>2
      <4> QED BY <2>3, <3>2, <4>1 DEF v
    <3>3. CASE k # 0 /\ k # n + 1
      <4>1. k \in 1..n /\ k \in 0..n /\ k - 1 \in 0..n
        BY <3>3
      <4> QED BY <2>2, <2>3, <4>1
    <3> QED BY <3>1, <3>2, <3>3
  <2>5. h = [k \in 0..(n + 1) |-> h[k]]
    OBVIOUS
  <2> HIDE DEF h
  <2>6. Is(h, n + 1)
    BY <2>4, <2>5
  <2> HIDE DEF Is
  <2> QED BY <2>6
<1> HIDE DEF S, Is
<1>3. m \in S
  BY <1>0, <1>1, <1>2, NatSetInduction
<1>4. f = [k \in 0..m |-> IF k = 0 THEN s ELSE AddRow(f[k - 1], from, to, rows, k)]
  <2>1. \E g : g = [k \in 0..m |-> IF k = 0 THEN s ELSE AddRow(g[k - 1], from, to, rows, k)]
    BY <1>3 DEF S, Is
  <2> QED BY <2>1
<1>5. AddRows(s, from, to, rows) = f[m]
  BY DEF AddRows
<1> HIDE DEF f
<1>6. f[0] = s
  BY <1>0, <1>4
<1>7. ASSUME NEW k \in 1..m
      PROVE  f[k] = AddRow(f[k - 1], from, to, rows, k)
  <2>1. k \in 0..m /\ k # 0
    BY <1>0
  <2> QED BY <1>4, <2>1
<1> QED BY <1>5, <1>6, <1>7

\* ListRemove, one row after the other.
LEMMA RemoveUnfolds ==
  ASSUME NEW s, NEW rows, s.gd.filtered = 0
  PROVE  \E f : /\ f[0] = s /\ \A k \in 1..MaxEntries : f[k] = RemoveRow(f[k - 1], s.gd.selected, rows, k)
                /\ ListRemove(s, rows) = f[MaxEntries]
<1> DEFINE m == MaxEntries
           f == CHOOSE g : g = [k \in 0..m |-> IF k = 0 THEN s ELSE RemoveRow(g[k - 1], s.gd.selected, rows, k)]
           Is(g, n) == g = [k \in 0..n |-> IF k = 0 THEN s ELSE RemoveRow(g[k - 1], s.gd.selected, rows, k)]
           S == { n \in Nat : \E g : Is(g, n) }
<1>0. m \in Nat
  BY Bounds
<1>1. 0 \in S
  <2> DEFINE g == [k \in 0..0 |-> s]
  <2>1. g = [k \in 0..0 |-> IF k = 0 THEN s ELSE RemoveRow(g[k - 1], s.gd.selected, rows, k)]
    OBVIOUS
  <2> HIDE DEF g
  <2> QED BY <2>1
<1>2. ASSUME NEW n \in Nat, n \in S
      PROVE  n + 1 \in S
  <2>1. PICK g : Is(g, n)
    BY <1>2
  <2>2. g[0] = s /\ \A k \in 1..n : g[k] = RemoveRow(g[k - 1], s.gd.selected, rows, k)
    BY <2>1
  <2> DEFINE v == RemoveRow(g[n], s.gd.selected, rows, n + 1)
             h == [k \in 0..(n + 1) |-> IF k = n + 1 THEN v ELSE g[k]]
  <2> HIDE DEF v
  <2>3. h[0] = s /\ h[n + 1] = v /\ \A k \in 0..n : h[k] = g[k]
    BY <2>2
  <2>4. ASSUME NEW k \in 0..(n + 1)
        PROVE  h[k] = IF k = 0 THEN s ELSE RemoveRow(h[k - 1], s.gd.selected, rows, k)
    <3> HIDE DEF h
    <3>1. CASE k = 0
      BY <2>3, <3>1
    <3>2. CASE k = n + 1
      <4>1. k - 1 = n /\ n \in 0..n /\ k # 0
        BY <3>2
      <4> QED BY <2>3, <3>2, <4>1 DEF v
    <3>3. CASE k # 0 /\ k # n + 1
      <4>1. k \in 1..n /\ k \in 0..n /\ k - 1 \in 0..n
        BY <3>3
      <4> QED BY <2>2, <2>3, <4>1
    <3> QED BY <3>1, <3>2, <3>3
  <2>5. h = [k \in 0..(n + 1) |-> h[k]]
    OBVIOUS
  <2> HIDE DEF h
  <2>6. Is(h, n + 1)
    BY <2>4, <2>5
  <2> HIDE DEF Is
  <2> QED BY <2>6
<1> HIDE DEF S, Is
<1>3. m \in S
  BY <1>0, <1>1, <1>2, NatSetInduction
<1>4. f = [k \in 0..m |-> IF k = 0 THEN s ELSE RemoveRow(f[k - 1], s.gd.selected, rows, k)]
  <2>1. \E g : g = [k \in 0..m |-> IF k = 0 THEN s ELSE RemoveRow(g[k - 1], s.gd.selected, rows, k)]
    BY <1>3 DEF S, Is
  <2> QED BY <2>1
<1>5. ListRemove(s, rows) = f[m]
  BY DEF ListRemove
<1> HIDE DEF f
<1>6. f[0] = s
  BY <1>0, <1>4
<1>7. ASSUME NEW k \in 1..m
      PROVE  f[k] = RemoveRow(f[k - 1], s.gd.selected, rows, k)
  <2>1. k \in 0..m /\ k # 0
    BY <1>0
  <2> QED BY <1>4, <2>1
<1> QED BY <1>5, <1>6, <1>7

\* A row that is removed.
LEMMA RemoveRowLeads ==
  ASSUME NEW s \in CoreState, NEW q \in Queues, NEW rows, NEW k \in 1..MaxEntries
  PROVE  LET u == RemoveRow(s, q, rows, k)
             r == MaxEntries + 1 - k
         IN /\ u \in CoreState /\ u.gd = s.gd /\ (u.ub = "none" => s.ub = "none")
            /\ Sound(s) /\ s.ub = "none" =>
                 /\ u.ub = "none" => Sound(u)
                 /\ Calm(s) /\ (r \in rows => r \in 1..Len(Ents(s, q))) =>
                      /\ Calm(u)
                      /\ Len(Ents(u, q)) >= (IF r \in rows THEN Len(Ents(s, q)) - 1 ELSE Len(Ents(s, q)))
<1> DEFINE r == MaxEntries + 1 - k
           u == RemoveRow(s, q, rows, k)
           l == Ents(s, q)
           w == QRemoveAt(s, q, r)
<1>1. r \in Nat /\ r >= 1 /\ l \in Seq(Entries)
  BY Bounds, Listed
<1>2. u = IF r \notin rows THEN s ELSE IF EntryAt(s, q, r) = 0 THEN Bad(s, "row") ELSE w
  BY DEF RemoveRow
<1>3. EntryAt(s, q, r) # 0 <=> r \in 1..Len(l)
  BY EntryAtListed DEF EntryAt
<1> HIDE DEF u, r, l
<1>4. CASE r \notin rows
  <2>1. u = s
    BY <1>2, <1>4
  <2>2. Len(Ents(s, q)) \in Nat
    BY <1>1 DEF l
  <2> QED BY <1>4, <2>1, <2>2 DEF u, r
<1>5. CASE r \in rows /\ EntryAt(s, q, r) = 0
  <2>1. u = Bad(s, "row") /\ "row" \in Faults
    BY <1>2, <1>5 DEF Faults
  <2>2. u \in CoreState /\ u.ub # "none" /\ u.gd = s.gd
    BY <2>1, BadFields
  <2> QED BY <1>3, <1>5, <2>2 DEF u, r, l
<1>6. CASE r \in rows /\ EntryAt(s, q, r) # 0
  <2>1. u = w /\ r \in 1..Len(Ents(s, q))
    BY <1>2, <1>3, <1>6 DEF l
  <2> DEFINE m == RemoveAt(l, r)
  <2>2. Loses(u, s, q, m)
    BY <2>1, QRemoveAtLoses DEF l
  <2>3. Len(m) = Len(l) - 1
    BY <1>1, <1>3, <1>6, RemoveElements
  <2>4. Sound(s) => \A e : Contains(m, e) => Contains(l, e)
    <3>1. ASSUME Sound(s)
          PROVE  \A e : Contains(m, e) => Contains(l, e)
      <4>1. Once(l)
        BY <3>1 DEF Sound, ListsOk, l
      <4> QED BY <1>1, <1>3, <1>6, <4>1, RemoveListed
    <3> QED BY <3>1
  <2> HIDE DEF m, w
  <2>5. Sound(s) => Leads(s, u)
    <3>1. ASSUME Sound(s)
          PROVE  Leads(s, u)
      <4>1. \A e : Contains(m, e) => Contains(Ents(s, q), e)
        BY <2>4, <3>1 DEF l
      <4> QED BY <2>2, <3>1, <4>1, LostLeads
    <3> QED BY <3>1
  <2>6. u \in CoreState /\ u.gd = s.gd /\ (u.ub = "none" => s.ub = "none") /\ Ents(u, q) = m
    BY <2>2 DEF Loses, Lost
  <2>7. Len(l) - 1 \in Int /\ Len(Ents(u, q)) = Len(l) - 1
    BY <1>1, <2>3, <2>6
  <2>8. Len(Ents(u, q)) >= Len(l) - 1
    BY <2>7
  <2> QED BY <1>6, <2>5, <2>6, <2>8 DEF Leads, u, r, l
<1> QED BY <1>4, <1>5, <1>6

\* A_LIST_REMOVE, A_FILE_DEL
LEMMA ListRemoveLeads ==
  ASSUME NEW s \in CoreState, Sound(s), s.ub = "none", NEW rows \in SUBSET Nat
  PROVE  LET u == ListRemove(s, rows)
         IN /\ u \in CoreState /\ (u.ub = "none" => Sound(u))
            /\ Calm(s) /\ rows \subseteq 1..Len(Ents(s, ListIdVisible(s))) => Calm(u)
<1> DEFINE q == s.gd.selected
           fits == rows \subseteq 1..Len(Ents(s, ListIdVisible(s)))
           u == ListRemove(s, rows)
<1>1. CASE s.gd.filtered # 0
  BY <1>1 DEF ListRemove
<1>2. CASE s.gd.filtered = 0
  <2>1. q \in Queues /\ ListIdVisible(s) = q
    BY <1>2, GdFields DEF ListIdVisible
  <2>2. PICK f : /\ f[0] = s
                 /\ \A k \in 1..MaxEntries : f[k] = RemoveRow(f[k - 1], s.gd.selected, rows, k)
                 /\ u = f[MaxEntries]
    BY <1>2, RemoveUnfolds
  <2> DEFINE Good(x, k) ==
               /\ x \in CoreState /\ (x.ub = "none" => Sound(x))
               /\ Calm(s) /\ fits =>
                    Calm(x) /\ \A r \in rows : r <= MaxEntries - k => r \in 1..Len(Ents(x, q))
             S == { k \in 0..MaxEntries : Good(f[k], k) }
  <2>3. MaxEntries \in Nat
    BY Bounds
  <2>4. 0 \in S
    BY <2>1, <2>2, <2>3
  <2> HIDE DEF q, fits, u
  <2>5. ASSUME NEW k \in 1..MaxEntries, k - 1 \in S
        PROVE  k \in S
    <3> DEFINE x == f[k - 1]
               y == f[k]
               t == MaxEntries + 1 - k
    <3>1. Good(x, k - 1)
      BY <2>5
    <3>2. y = RemoveRow(x, q, rows, k)
      BY <2>2 DEF q
    <3> HIDE DEF x, y, Good
    <3>3. x \in CoreState /\ (x.ub = "none" => Sound(x))
      BY <3>1 DEF Good
    <3>4. /\ y \in CoreState /\ (y.ub = "none" => x.ub = "none")
          /\ Sound(x) /\ x.ub = "none" =>
               /\ y.ub = "none" => Sound(y)
               /\ Calm(x) /\ (t \in rows => t \in 1..Len(Ents(x, q))) =>
                    /\ Calm(y)
                    /\ Len(Ents(y, q)) >= (IF t \in rows THEN Len(Ents(x, q)) - 1 ELSE Len(Ents(x, q)))
      BY <2>1, <3>2, <3>3, RemoveRowLeads
    <3>5. ASSUME Calm(s), fits
          PROVE  Calm(y) /\ \A r \in rows : r <= MaxEntries - k => r \in 1..Len(Ents(y, q))
      <4>1. Calm(x) /\ \A r \in rows : r <= MaxEntries - (k - 1) => r \in 1..Len(Ents(x, q))
        BY <3>1, <3>5 DEF Good
      <4>2. t \in Nat /\ t <= MaxEntries - (k - 1)
        BY <2>3
      <4>3. /\ Calm(y)
            /\ Len(Ents(y, q)) >= (IF t \in rows THEN Len(Ents(x, q)) - 1 ELSE Len(Ents(x, q)))
        BY <3>3, <3>4, <4>1, <4>2 DEF Calm
      <4>4. ASSUME NEW r \in rows, r <= MaxEntries - k
            PROVE  r \in 1..Len(Ents(y, q))
        <5> DEFINE m == Len(Ents(x, q))
                   n == Len(Ents(y, q))
        <5>1. m \in Nat /\ n \in Nat
          BY <2>1, <3>3, <3>4, Listed
        <5>2. r \in Nat /\ r < t
          BY <2>3, <4>4
        <5>3. r <= MaxEntries - (k - 1)
          BY <2>3, <4>4, <5>2
        <5>4. r \in 1..m /\ (t \in rows => t \in 1..m)
          BY <4>1, <4>2, <5>3
        <5>5. n >= (IF t \in rows THEN m - 1 ELSE m)
          BY <4>3
        <5> HIDE DEF m, n, t
        <5>6. r <= n
          <6>1. t \in Nat
            BY <4>2 DEF t
          <6>2. CASE t \in rows
            BY <5>1, <5>2, <5>4, <5>5, <6>1, <6>2
          <6>3. CASE t \notin rows
            BY <5>1, <5>2, <5>4, <5>5, <6>3
          <6> QED BY <6>2, <6>3
        <5> QED BY <5>1, <5>2, <5>4, <5>6 DEF n
      <4> QED BY <4>3, <4>4
    <3>6. Good(y, k)
      BY <3>3, <3>4, <3>5 DEF Good
    <3>7. k \in 0..MaxEntries
      BY <2>3
    <3> QED BY <3>6, <3>7 DEF y
  <2> HIDE DEF S
  <2>6. 0..MaxEntries \subseteq S
    BY <2>3, <2>4, <2>5, UpToInduction
  <2>7. Good(u, MaxEntries)
    BY <2>2, <2>3, <2>6 DEF S
  <2> QED BY <2>7 DEF u, fits
<1> QED BY <1>1, <1>2

Free(s) == { e \in Entries : s.e[e].st = "none" }

LEMMA FreeFinite ==
  ASSUME NEW s
  PROVE  /\ IsFiniteSet(Free(s)) /\ Cardinality(Free(s)) \in Nat
         /\ Cardinality(Free(s)) > 0 => \E e \in Entries : s.e[e].st = "none"
<1>1. IsFiniteSet(Entries)
  BY Bounds, FS_Interval DEF Entries
<1>2. Free(s) \subseteq Entries
  BY DEF Free
<1>3. IsFiniteSet(Free(s)) /\ Cardinality(Free(s)) \in Nat
  BY <1>1, <1>2, FS_Subset, FS_CardinalityType
<1>4. Cardinality(Free(s)) = 0 <=> Free(s) = {}
  BY <1>3, CardNone
<1> QED BY <1>3, <1>4 DEF Free

LEMMA QAddFree ==
  ASSUME NEW s \in CoreState, NEW q \in Queues, NEW name \in Names,
         \E e \in Entries : s.e[e].st = "none"
  PROVE  Cardinality(Free(QAdd(s, q, name))) = Cardinality(Free(s)) - 1
<1> DEFINE u == QAdd(s, q, name)
           a == NewId(s.e)
<1>1. /\ a \in Entries /\ s.e[a].st = "none" /\ u.e[a].st = "live"
      /\ \A d \in Entries : d # a => u.e[d] = s.e[d]
  BY QAddFields
<1> HIDE DEF u, a
<1>2. Free(s) = Free(u) \union {a} /\ a \notin Free(u)
  BY <1>1, States DEF Free
<1>3. IsFiniteSet(Free(u)) /\ Cardinality(Free(u)) \in Nat
  BY FreeFinite
<1>4. Cardinality(Free(s)) = Cardinality(Free(u)) + 1
  BY <1>2, <1>3, CardOneMore
<1> QED BY <1>3, <1>4 DEF u

\* Only ub changes.
LEMMA BadSound ==
  ASSUME NEW s \in CoreState, Sound(s), NEW why \in Faults
  PROVE  Sound(Bad(s, why))
<1> DEFINE u == Bad(s, why)
<1>1. u \in CoreState /\ u.qm = s.qm /\ u.q = s.q /\ u.e = s.e /\ u.t = s.t /\ u.gd = s.gd
  BY BadFields
<1> HIDE DEF u
<1>2. Refs(s, {}, 0) /\ Shape(s)
  BY SoundParts
<1>3. Refs(u, {}, 0)
  BY <1>1, <1>2, RefsFrame DEF Ents
<1>4. Fewer(u, s)
  BY <1>1 DEF Fewer, SameTabs, Ents
<1>5. Shape(u)
  BY <1>1, <1>2, <1>4, ShapeFrame
<1> QED BY <1>3, <1>5, SoundParts DEF u

\* A row that is added to another list.
LEMMA AddRowLeads ==
  ASSUME NEW s \in CoreState, Sound(s), NEW from \in Queues, NEW to \in Queues,
         s.q[to].st = "live", to # s.gd.filtered, NEW rows, NEW k \in Nat,
         k \in rows => Cardinality(Free(s)) > 0
  PROVE  LET u == AddRow(s, from, to, rows, k)
         IN /\ u \in CoreState /\ Sound(u) /\ u.gd = s.gd /\ u.q[to].st = "live"
            /\ Len(Ents(u, from)) >= Len(Ents(s, from))
            /\ Cardinality(Free(u)) >= Cardinality(Free(s)) - (IF k \in rows THEN 1 ELSE 0)
            /\ Calm(s) /\ (k \in rows => k \in 1..Len(Ents(s, from))) => Calm(u)
<1> DEFINE e == EntryAt(s, from, k)
           name == s.e[e].name
           w == QAdd(s, to, name)
           u == AddRow(s, from, to, rows, k)
<1>1. u = IF k \notin rows THEN s ELSE IF e = 0 THEN Bad(s, "row") ELSE w
  BY DEF AddRow
<1>2. /\ e # 0 => e \in Entries /\ Contains(Ents(s, from), e)
      /\ k \in 1..Len(Ents(s, from)) => e # 0
  BY EntryAtListed
<1>3. Len(Ents(s, from)) \in Nat /\ Cardinality(Free(s)) \in Nat
  BY Listed, FreeFinite
<1> HIDE DEF e, u
<1>4. CASE k \notin rows
  BY <1>1, <1>3, <1>4 DEF u
<1>5. CASE k \in rows /\ e = 0
  <2>1. u = Bad(s, "row") /\ "row" \in Faults
    BY <1>1, <1>5 DEF Faults
  <2>2. /\ u \in CoreState /\ u.q = s.q /\ u.e = s.e /\ u.gd = s.gd /\ Sound(u)
    BY <2>1, BadFields, BadSound
  <2>3. Ents(u, from) = Ents(s, from) /\ Free(u) = Free(s)
    BY <2>2 DEF Ents, Free
  <2> QED BY <1>2, <1>3, <1>5, <2>2, <2>3 DEF u
<1>6. CASE k \in rows /\ e # 0
  <2>1. u = w
    BY <1>1, <1>6
  <2>2. name \in Names
    <3>1. Refs(s, {}, 0)
      BY SoundParts
    <3>2. s.e[e].st = "live"
      BY <1>2, <1>6, <3>1, ListedLive
    <3> QED BY <1>2, <1>6, <3>1, <3>2, States DEF Refs, NamesOk
  <2>3. \E d \in Entries : s.e[d].st = "none"
    BY <1>6, FreeFinite
  <2> HIDE DEF name
  <2>4. /\ u \in CoreState /\ Sound(u) /\ u.ub = s.ub /\ u.gd = s.gd
        /\ Home(s) => Home(u)
        /\ DefaultOk(s) => DefaultOk(u)
        /\ \A p \in Queues : u.q[p].st = s.q[p].st
    BY <2>1, <2>2, <2>3, QAddSound
  <2>5. Cardinality(Free(u)) = Cardinality(Free(s)) - 1
    BY <2>1, <2>2, <2>3, QAddFree
  <2>6. Len(Ents(u, from)) >= Len(Ents(s, from))
    <3>1. /\ from = to => Ents(u, from) = Append(Ents(s, from), NewId(s.e))
          /\ from # to => Ents(u, from) = Ents(s, from)
          /\ NewId(s.e) \in Entries
      BY <2>1, <2>2, <2>3, QAddFields
    <3> DEFINE l == Ents(s, from)
               m == Append(l, NewId(s.e))
    <3>2. l \in Seq(Entries)
      BY Listed
    <3> HIDE DEF l
    <3>3. Len(m) = Len(l) + 1 /\ Len(l) \in Nat
      BY <3>1, <3>2
    <3>4. Ents(u, from) = m \/ Ents(u, from) = l
      BY <3>1 DEF l
    <3> HIDE DEF m
    <3>5. Len(Ents(u, from)) = Len(l) + 1 \/ Len(Ents(u, from)) = Len(l)
      BY <3>3, <3>4
    <3> QED BY <3>3, <3>5 DEF l
  <2>7. Calm(s) => Calm(u)
    BY <2>4 DEF Calm
  <2> HIDE DEF w
  <2> QED BY <1>3, <1>6, <2>4, <2>5, <2>6, <2>7 DEF u
<1> QED BY <1>4, <1>5, <1>6

\* How many of at most two rows are among the first k.
LEMMA RowsCounted ==
  ASSUME NEW rows \in AtMostTwo
  PROVE  /\ \A k \in Nat : Cardinality(rows \cap (1..k)) \in 0..2
         /\ Cardinality(rows \cap (1..0)) = 0
         /\ \A k \in Nat \ {0} : Cardinality(rows \cap (1..k)) =
              Cardinality(rows \cap (1..(k - 1))) + (IF k \in rows THEN 1 ELSE 0)
<1>1. PICK a \in Nat, b \in Nat : rows \subseteq {a, b}
  BY DEF AtMostTwo
<1>2. IsFiniteSet({a}) /\ Cardinality({a}) = 1
  BY FS_Singleton
<1>3. IsFiniteSet({a, b}) /\ Cardinality({a, b}) <= 2
  <2>1. {a, b} = {a} \union {b}
    OBVIOUS
  <2>2. CASE a = b
    BY <1>2, <2>1, <2>2
  <2>3. CASE a # b
    BY <1>2, <2>1, <2>3, CardOneMore
  <2> QED BY <2>2, <2>3
<1>4. ASSUME NEW k \in Nat
      PROVE  IsFiniteSet(rows \cap (1..k)) /\ Cardinality(rows \cap (1..k)) \in 0..2
  <2>1. rows \cap (1..k) \subseteq {a, b}
    BY <1>1
  <2>2. /\ IsFiniteSet(rows \cap (1..k))
        /\ Cardinality(rows \cap (1..k)) <= Cardinality({a, b})
    BY <1>3, <2>1, FS_Subset
  <2>3. Cardinality(rows \cap (1..k)) \in Nat /\ Cardinality({a, b}) \in Nat
    BY <1>3, <2>2, FS_CardinalityType
  <2> QED BY <1>3, <2>2, <2>3
<1>5. Cardinality(rows \cap (1..0)) = 0
  <2>1. rows \cap (1..0) = {}
    OBVIOUS
  <2> QED BY <2>1, FS_EmptySet
<1>6. ASSUME NEW k \in Nat \ {0}
      PROVE  Cardinality(rows \cap (1..k)) =
               Cardinality(rows \cap (1..(k - 1))) + (IF k \in rows THEN 1 ELSE 0)
  <2> DEFINE A == rows \cap (1..(k - 1))
  <2>1. IsFiniteSet(A) /\ k \notin A /\ k - 1 \in Nat
    BY <1>4
  <2>2. Cardinality(A) \in Nat
    BY <2>1, FS_CardinalityType
  <2>3. CASE k \in rows
    <3>1. rows \cap (1..k) = A \union {k}
      BY <2>3
    <3> HIDE DEF A
    <3>2. Cardinality(A \union {k}) = Cardinality(A) + 1
      BY <2>1, CardOneMore
    <3> QED BY <2>3, <3>1, <3>2 DEF A
  <2>4. CASE k \notin rows
    <3>1. rows \cap (1..k) = A
      BY <2>4
    <3> DEFINE c == Cardinality(A)
    <3> HIDE DEF c
    <3>2. c = c + (IF k \in rows THEN 1 ELSE 0)
      <4>1. c \in Nat
        BY <2>2 DEF c
      <4> QED BY <2>4, <4>1
    <3> QED BY Zenon, <3>1, <3>2 DEF c
  <2> QED BY <2>3, <2>4
<1> QED BY <1>4, <1>5, <1>6

LEMMA AddRowsLeads ==
  ASSUME NEW s \in CoreState, Sound(s), NEW from \in Queues, NEW to \in Queues,
         s.q[to].st = "live", to # s.gd.filtered, NEW rows \in AtMostTwo,
         Cardinality(Free(s)) >= 2
  PROVE  LET u == AddRows(s, from, to, rows)
         IN /\ u \in CoreState /\ Sound(u)
            /\ Calm(s) /\ rows \subseteq 1..Len(Ents(s, from)) => Calm(u)
<1> DEFINE u == AddRows(s, from, to, rows)
           N(k) == Cardinality(rows \cap (1..k))
           fits == rows \subseteq 1..Len(Ents(s, from))
<1>1. PICK f : /\ f[0] = s
               /\ \A k \in 1..MaxEntries : f[k] = AddRow(f[k - 1], from, to, rows, k)
               /\ u = f[MaxEntries]
  BY RowsUnfold
<1>2. /\ \A k \in Nat : N(k) \in 0..2
      /\ N(0) = 0
      /\ \A k \in Nat \ {0} : N(k) = N(k - 1) + (IF k \in rows THEN 1 ELSE 0)
  BY RowsCounted
<1> HIDE DEF N, u
<1> DEFINE Good(x, k) ==
             /\ x \in CoreState /\ Sound(x) /\ x.gd = s.gd /\ x.q[to].st = "live"
             /\ Len(Ents(x, from)) >= Len(Ents(s, from))
             /\ Cardinality(Free(x)) + N(k) >= 2
             /\ Calm(s) /\ fits => Calm(x)
           S == { k \in 0..MaxEntries : Good(f[k], k) }
<1>3. MaxEntries \in Nat
  BY Bounds
<1>4. 0 \in S
  <2>1. Len(Ents(s, from)) \in Nat /\ Cardinality(Free(s)) \in Nat
    BY Listed, FreeFinite
  <2>2. Good(s, 0)
    BY <1>2, <2>1
  <2> HIDE DEF Good
  <2> QED BY <1>1, <1>3, <2>2
<1>5. ASSUME NEW k \in 1..MaxEntries, k - 1 \in S
      PROVE  k \in S
  <2> DEFINE x == f[k - 1]
             y == f[k]
  <2>1. Good(x, k - 1)
    BY <1>5
  <2>2. y = AddRow(x, from, to, rows, k) /\ k \in Nat /\ k # 0 /\ k \in 0..MaxEntries /\ k - 1 \in Nat
    BY <1>1, <1>3
  <2> HIDE DEF x, y
  <2>3. x \in CoreState /\ Sound(x) /\ x.q[to].st = "live" /\ to # x.gd.filtered
    BY <2>1
  <2> DEFINE c == Cardinality(Free(x))
             d == Cardinality(Free(y))
  <2>4. c \in Nat /\ d \in Nat
    BY FreeFinite
  <2>5. N(k) = N(k - 1) + (IF k \in rows THEN 1 ELSE 0) /\ N(k) \in 0..2 /\ N(k - 1) \in 0..2
    BY <1>2, <2>2
  <2>6. c + N(k - 1) >= 2
    BY <2>1
  <2> HIDE DEF c, d
  <2>7. k \in rows => c > 0
    BY <2>4, <2>5, <2>6
  <2>8. /\ y \in CoreState /\ Sound(y) /\ y.gd = x.gd /\ y.q[to].st = "live"
        /\ Len(Ents(y, from)) >= Len(Ents(x, from))
        /\ d >= c - (IF k \in rows THEN 1 ELSE 0)
        /\ Calm(x) /\ (k \in rows => k \in 1..Len(Ents(x, from))) => Calm(y)
    BY <2>2, <2>3, <2>7, AddRowLeads DEF c, d
  <2>9. d + N(k) >= 2
    BY <2>4, <2>5, <2>6, <2>8
  <2>10. /\ Len(Ents(x, from)) \in Nat /\ Len(Ents(y, from)) \in Nat /\ Len(Ents(s, from)) \in Nat
         /\ Len(Ents(x, from)) >= Len(Ents(s, from))
    BY <2>1, <2>8, Listed
  <2>11. Len(Ents(y, from)) >= Len(Ents(s, from))
    BY <2>8, <2>10
  <2>12. Calm(s) /\ fits => Calm(y)
    <3>1. fits => (k \in rows => k \in 1..Len(Ents(x, from)))
      BY <2>10
    <3> QED BY <2>1, <2>8, <3>1
  <2>13. Good(y, k)
    BY <2>1, <2>8, <2>9, <2>11, <2>12 DEF d
  <2> HIDE DEF Good
  <2> QED BY <2>2, <2>13 DEF y
<1> HIDE DEF S
<1>6. 0..MaxEntries \subseteq S
  BY <1>3, <1>4, <1>5, UpToInduction
<1>7. Good(u, MaxEntries)
  BY <1>1, <1>3, <1>6 DEF S
<1> QED BY <1>7 DEF u

\* list_id_visible is a list.
LEMMA VisibleListed ==
  ASSUME NEW s \in CoreState
  PROVE  ListIdVisible(s) \in Queues
BY GdFields DEF ListIdVisible

\* The next list has a tab.
LEMMA NextListed ==
  ASSUME NEW s \in CoreState, TabsOk(s), ListNextPlayback(s) # 0
  PROVE  Contains(s.gd.lists, ListNextPlayback(s))
<1> DEFINE l == s.gd.lists
           i == CHOOSE k \in 1..Len(l) : l[k] = s.gd.selected
           m == SubSeq(l, i + 1, Len(l))
           S == Queues \ {s.gd.convert}
           after == Keep(m, S)
<1>1. l \in Seq(Queues)
  BY GdFields
<1>2. ListNextPlayback(s) = IF after = <<>> THEN 0 ELSE after[1]
  BY DEF ListNextPlayback
<1>3. i \in 1..Len(l)
  BY DEF TabsOk, Contains
<1> HIDE DEF i, l, S
<1>4. /\ m \in Seq(Queues) /\ Len(m) = Len(l) - i
      /\ \A k \in 1..Len(m) : m[k] = l[i + k] /\ i + k \in 1..Len(l)
  <2>1. Len(l) \in Nat /\ i \in Nat /\ i <= Len(l)
    BY <1>1, <1>3
  <2>2. m \in Seq(Queues) /\ Len(m) = Len(l) - i
    BY <1>1, <1>3, <2>1
  <2>3. \A k \in 1..Len(m) : m[k] = l[i + k] /\ i + k \in 1..Len(l)
    BY <1>1, <1>3, <2>1, <2>2
  <2> QED BY <2>2, <2>3
<1> HIDE DEF m
<1>5. after \in Seq(Queues) /\ \A x : Contains(after, x) <=> Contains(m, x) /\ x \in S
  BY <1>4, KeepElements
<1> HIDE DEF after
<1>6. after # <<>> /\ ListNextPlayback(s) = after[1]
  BY <1>2
<1>7. Contains(after, after[1])
  <2>1. 1 \in 1..Len(after)
    BY <1>5, <1>6
  <2> QED BY <2>1 DEF Contains
<1>8. Contains(m, after[1])
  BY <1>5, <1>7
<1>9. PICK k \in 1..Len(m) : m[k] = after[1]
  BY <1>8 DEF Contains
<1> QED BY <1>4, <1>6, <1>9 DEF Contains, l

\* list_add_to_next
LEMMA ListAddToNextLeads ==
  ASSUME NEW s \in CoreState, Sound(s), s.ub = "none", NEW rows \in AtMostTwo,
         Cardinality(Free(s)) >= 2
  PROVE  LET u == ListAddToNext(s, rows)
         IN /\ u \in CoreState /\ (u.ub = "none" => Sound(u))
            /\ Calm(s) /\ rows \subseteq 1..Len(Ents(s, ListIdVisible(s))) => Calm(u)
<1> DEFINE to == ListNextPlayback(s)
           from == ListIdVisible(s)
           u == ListAddToNext(s, rows)
<1>1. u = IF to = 0 THEN s ELSE AddRows(s, from, to, rows)
  BY DEF ListAddToNext
<1>2. from \in Queues
  BY VisibleListed
<1>3. TabsOk(s)
  BY DEF Sound
<1>4. to # 0 => to \in Queues /\ s.q[to].st = "live" /\ to # s.gd.filtered
  BY <1>3, NextListed, TabLive
<1> HIDE DEF to, from, u
<1>5. CASE to = 0
  BY <1>1, <1>5 DEF u
<1>6. CASE to # 0
  BY <1>1, <1>2, <1>4, <1>6, AddRowsLeads DEF u, from
<1> QED BY <1>5, <1>6

\* The conversion list and its tab.
LEMMA ConversionList ==
  ASSUME NEW s \in CoreState, Sound(s), s.gd.convert = 0, \E q \in Queues : s.q[q].st = "none"
  PROVE  LET n == QCreate([s EXCEPT !.gd.tabconv = TRUE])
             x == [n EXCEPT !.gd.convert = n.made]
         IN /\ x \in CoreState /\ Sound(x) /\ x.gd.convert # 0 /\ (Calm(s) => Calm(x))
            /\ x.e = s.e /\ x.ub = s.ub /\ \A q \in Queues : Ents(x, q) = Ents(s, q)
<1> DEFINE y == [s EXCEPT !.gd.tabconv = TRUE]
           q == NewId(y.q)
           n == QCreate(y)
           m == n.made
           x == [n EXCEPT !.gd.convert = m]
<1>1. /\ y \in CoreState /\ y.gd.tabconv = TRUE
      /\ y.gd.lists = s.gd.lists /\ y.gd.convert = s.gd.convert
      /\ y.gd.filtered = s.gd.filtered /\ y.gd.playing = s.gd.playing /\ y.gd.text = s.gd.text
      /\ y.q = s.q /\ y.qm = s.qm /\ y.e = s.e /\ y.t = s.t /\ y.ub = s.ub
  BY TabconvFields
<1> HIDE DEF y
<1>2. Created(n, y, q)
  BY <1>1, QCreateFields
<1> HIDE DEF n, q
<1>3. n \in CoreState /\ m = q /\ q \in QueueIds /\ q \in Queues /\ q # 0
  BY <1>2, Bounds DEF Created
<1> HIDE DEF m
<1>4. /\ x \in CoreState /\ x.gd.convert = m
      /\ x.gd.lists = n.gd.lists /\ x.gd.selected = n.gd.selected
      /\ x.gd.tabconv = n.gd.tabconv /\ x.gd.filtered = n.gd.filtered
      /\ x.gd.text = n.gd.text /\ x.gd.playing = n.gd.playing
      /\ x.q = n.q /\ x.qm = n.qm /\ x.e = n.e /\ x.t = n.t /\ x.ub = n.ub
  BY <1>3, ConvertFields
<1> HIDE DEF x
<1>5. Refs(s, {}, 0) /\ OwnOk(s, {s.gd.filtered}) /\ FilterOk(s) /\ TabsOk(s)
  BY SoundParts DEF Shape
<1>6. Refs(y, {}, 0) /\ OwnOk(y, {y.gd.filtered}) /\ FilterOk(y) /\ TabsBut(y)
  <2>1. Refs(y, {}, 0)
    BY <1>1, <1>5, RefsFrame DEF Ents
  <2>2. OwnOk(y, {y.gd.filtered})
    BY <1>1, <1>5 DEF OwnOk, Ents
  <2>3. FilterOk(y)
    BY <1>1, <1>5 DEF FilterOk, Ents
  <2>4. TabsBut(y)
    BY <1>1, <1>5 DEF TabsOk, TabsBut
  <2> QED BY <2>1, <2>2, <2>3, <2>4
<1>7. /\ Refs(n, {}, 0) /\ OwnOk(n, {n.gd.filtered}) /\ FilterOk(n)
      /\ TabsBut(n) /\ Contains(n.gd.lists, q) /\ ~Contains(y.gd.lists, q)
      /\ Home(y) => Home(n)
      /\ DefaultOk(y) => DefaultOk(n)
  BY <1>1, <1>2, <1>6, CreatedSound
<1>8. Refs(x, {}, 0)
  BY <1>4, <1>7, RefsFrame DEF Ents
<1>9. OwnOk(x, {x.gd.filtered})
  BY <1>4, <1>7 DEF OwnOk, Ents
<1>10. FilterOk(x)
  BY <1>4, <1>7 DEF FilterOk, Ents
<1>11. TabsOk(x)
  <2>1. \E p \in Queues : Contains(x.gd.lists, p) /\ p # x.gd.convert
    <3>1. PICK p \in Queues : Contains(y.gd.lists, p) /\ p # y.gd.convert
      BY <1>6 DEF TabsBut
    <3>2. y.gd.lists \in Seq(Queues) /\ x.gd.lists = Append(y.gd.lists, q)
      BY <1>1, <1>2, <1>4, GdFields DEF Created
    <3>3. Contains(x.gd.lists, p)
      BY <1>3, <3>1, <3>2, AppendContains
    <3> QED BY <1>3, <1>4, <1>7, <3>1, <3>3
  <2>2. TabsBut(x)
    BY <1>3, <1>4, <1>7, <2>1 DEF TabsBut
  <2>3. x.gd.selected = q /\ x.gd.tabconv = TRUE
    BY <1>1, <1>2, <1>4 DEF Created
  <2> QED BY <1>3, <1>4, <1>7, <2>2, <2>3, TabsParts
<1>12. ASSUME Calm(s)
       PROVE  Calm(x)
  <2>1. Home(n) /\ DefaultOk(n)
    BY <1>1, <1>7, <1>12 DEF Calm, Home, DefaultOk
  <2>2. Home(x) /\ DefaultOk(x)
    BY <1>4, <2>1 DEF Home, DefaultOk
  <2>3. x.ub = "none"
    BY <1>1, <1>2, <1>4, <1>12 DEF Calm, Created
  <2> QED BY <2>2, <2>3 DEF Calm
<1>13. x.e = s.e /\ x.ub = s.ub /\ \A p \in Queues : Ents(x, p) = Ents(s, p)
  <2>1. \A p \in Queues : Ents(n, p) = Ents(y, p)
    BY <1>2 DEF Created
  <2> QED BY <1>1, <1>2, <1>4, <2>1 DEF Created, Ents
<1> QED BY <1>3, <1>4, <1>8, <1>9, <1>10, <1>11, <1>12, <1>13, SoundParts DEF Shape, x, n, m, y

\* convert_add
LEMMA ConvertAddLeads ==
  ASSUME NEW s \in CoreState, Sound(s), s.ub = "none", NEW rows \in AtMostTwo,
         Cardinality(Free(s)) >= 2, \E q \in Queues : s.q[q].st = "none"
  PROVE  LET u == ConvertAdd(s, rows)
         IN /\ u \in CoreState /\ (u.ub = "none" => Sound(u))
            /\ Calm(s) /\ rows \subseteq 1..Len(Ents(s, ListIdVisible(s))) => Calm(u)
<1> DEFINE n == QCreate([s EXCEPT !.gd.tabconv = TRUE])
           x == IF s.gd.convert = 0 THEN [n EXCEPT !.gd.convert = n.made] ELSE s
           from == ListIdVisible(s)
           to == x.gd.convert
           u == ConvertAdd(s, rows)
<1>1. /\ x \in CoreState /\ Sound(x) /\ x.gd.convert # 0 /\ (Calm(s) => Calm(x))
      /\ x.e = s.e /\ x.ub = s.ub /\ \A q \in Queues : Ents(x, q) = Ents(s, q)
  <2>1. CASE s.gd.convert = 0
    <3>1. x = [n EXCEPT !.gd.convert = n.made]
      BY <2>1
    <3> QED BY Zenon, <2>1, <3>1, ConversionList
  <2>2. CASE s.gd.convert # 0
    BY <2>2
  <2> QED BY <2>1, <2>2
<1>2. u = AddRows(x, from, to, rows)
  BY Zenon DEF ConvertAdd
<1> HIDE DEF x, u
<1>3. from \in Queues
  BY VisibleListed
<1>4. to \in Queues /\ x.q[to].st = "live" /\ to # x.gd.filtered
  <2>1. TabsOk(x)
    BY <1>1 DEF Sound
  <2>2. Contains(x.gd.lists, x.gd.convert)
    BY <1>1, <2>1 DEF TabsOk
  <2> QED BY <1>1, <2>1, <2>2, TabLive
<1>5. Cardinality(Free(x)) >= 2 /\ Ents(x, from) = Ents(s, from)
  BY <1>1, <1>3 DEF Free
<1> HIDE DEF from, to
<1>6. /\ u \in CoreState /\ Sound(u)
      /\ Calm(x) /\ rows \subseteq 1..Len(Ents(x, from)) => Calm(u)
  BY <1>1, <1>2, <1>3, <1>4, <1>5, AddRowsLeads
<1> QED BY <1>1, <1>5, <1>6 DEF u, from

-----------------------------------------------------------------------------
(* The commands.                                                           *)

CommandNames ==
  PlainFs \union RowFs \union {"select", "play", "filter", "add"}

LEMMA CommandFields ==
  ASSUME NEW c \in Commands
  PROVE  /\ c.f \in CommandNames
         /\ c.f = "filter" => c.arg \in Texts
         /\ c.f = "add" => c.arg \in Names
         /\ c.f \in RowFs => c.arg \in AtMostTwo /\ c.arg \in SUBSET Nat
<1>1. AtMostTwo \subseteq SUBSET Nat
  BY DEF AtMostTwo
<1> DEFINE T == AtMostTwo
<1> HIDE DEF T
<1>2. T \subseteq SUBSET Nat
  BY <1>1 DEF T
<1>3. c \in [f : PlainFs, arg : {0}, what : SUBSET Entries]
        \union [f : {"select", "play"}, arg : Nat, what : SUBSET Entries]
        \union [f : {"filter"}, arg : Texts, what : SUBSET Entries]
        \union [f : {"add"}, arg : Names, what : SUBSET Entries]
        \union [f : RowFs, arg : T, what : SUBSET Entries]
  BY DEF Commands, T
<1> QED BY <1>2, <1>3 DEF CommandNames, PlainFs, RowFs, T

\* corecmd_handler: each command keeps the lists sound, and calm if what it is
\* about is there.
LEMMA HandledLeads ==
  ASSUME NEW s \in CoreState, Sound(s), s.ub = "none", NEW c \in Commands, HasRoom(s, c)
  PROVE  LET u == Handled(s, c)
         IN /\ u \in CoreState /\ (u.ub = "none" => Sound(u))
            /\ Calm(s) /\ Fitting(s, c) /\ (c.f = "close" => ClosesSafely(s)) => Calm(u)
<1> DEFINE u == Handled(s, c)
           Goal == /\ u \in CoreState /\ (u.ub = "none" => Sound(u))
                   /\ Calm(s) /\ Fitting(s, c) /\ (c.f = "close" => ClosesSafely(s)) => Calm(u)
<1>1. /\ c.f \in CommandNames
      /\ c.f = "filter" => c.arg \in Texts
      /\ c.f = "add" => c.arg \in Names
      /\ c.f \in RowFs => c.arg \in AtMostTwo /\ c.arg \in SUBSET Nat
  BY CommandFields
<1>2. ASSUME Leads(s, u)
      PROVE  Goal
  BY <1>2 DEF Leads
<1>3. c.f \in {"add", "next_list", "convert"} =>
        /\ Cardinality(Free(s)) >= 2 /\ \E e \in Entries : s.e[e].st = "none"
  <2>1. ASSUME c.f \in {"add", "next_list", "convert"}
        PROVE  Cardinality(Free(s)) >= 2
    BY <2>1 DEF HasRoom, Free
  <2>2. Cardinality(Free(s)) \in Nat /\ (Cardinality(Free(s)) > 0 => \E e \in Entries : s.e[e].st = "none")
    BY FreeFinite
  <2> QED BY <2>1, <2>2
<1>4. c.f \in {"new", "filter", "convert"} => \E q \in Queues : s.q[q].st = "none"
  BY DEF HasRoom
<1>5. c.f \in {"play", "next"} => \E t \in Tracks : s.t[t].st = "none"
  BY DEF HasRoom
<1>6. Leads(s, s)
  BY DEF Leads
<1> HIDE DEF u, Goal
<1>7. CASE c.f = "new"
  <2>1. u = ListNew(s)
    BY <1>7 DEF Handled, u
  <2> QED BY <1>2, <1>4, <1>7, <2>1, ListNewLeads DEF Goal, u
<1>8. CASE c.f = "close"
  <2>1. u = ListClose(s)
    BY <1>8 DEF Handled, u
  <2> QED BY <1>8, <2>1, ListCloseLeads DEF Goal, u
<1>9. CASE c.f = "clear"
  <2>1. u = ListClear(s)
    BY <1>9 DEF Handled, u
  <2> QED BY <1>2, <2>1, ListSortLeads DEF Goal, u
<1>10. CASE c.f = "sort"
  <2>1. u = ListSort(s)
    BY <1>10 DEF Handled, u
  <2> QED BY <1>2, <2>1, ListSortLeads DEF Goal, u
<1>11. CASE c.f = "unfilter"
  <2>1. u = ListFilterOff(s)
    BY <1>11 DEF Handled, u
  <2> QED BY <1>2, <2>1, ListFilterOffLeads DEF Goal, u
<1>12. CASE c.f = "stop"
  <2>1. u = CtlStop(s)
    BY <1>12 DEF Handled, u
  <2> QED BY <1>2, <2>1, CtlStopLeads DEF Goal, u
<1>13. CASE c.f = "next"
  <2>1. u = CtlNext(s)
    BY <1>13 DEF Handled, u
  <2> QED BY <1>2, <1>5, <1>13, <2>1, CtlNextLeads DEF Goal, u
<1>14. CASE c.f = "select"
  <2>1. u = ListSelect(s, c.arg)
    BY <1>14 DEF Handled, u
  <2> QED BY <1>14, <2>1, ListSelectLeads DEF Goal, u, Fitting
<1>15. CASE c.f = "filter"
  <2>1. u = ListFilter(s, c.arg)
    BY <1>15 DEF Handled, u
  <2> QED BY <1>1, <1>2, <1>4, <1>15, <2>1, ListFilterLeads DEF Goal, u
<1>16. CASE c.f = "add"
  <2>1. u = ListAdd(s, c.arg)
    BY <1>16 DEF Handled, u
  <2> QED BY <1>1, <1>2, <1>3, <1>16, <2>1, ListAddLeads DEF Goal, u
<1>17. CASE c.f = "play"
  <2>1. u = CtlPlay(s, c.arg)
    BY <1>17 DEF Handled, u
  <2> QED BY <1>2, <1>5, <1>17, <2>1, CtlPlayLeads DEF Goal, u
<1>18. CASE c.f \in {"remove", "del"}
  <2>1. u = ListRemove(s, c.arg) /\ c.f \in RowFs
    BY <1>18 DEF Handled, u, RowFs
  <2> QED BY <1>1, <1>18, <2>1, ListRemoveLeads DEF Goal, u, Fitting
<1>19. CASE c.f = "next_list"
  <2>1. u = ListAddToNext(s, c.arg) /\ c.f \in RowFs
    BY <1>19 DEF Handled, u, RowFs
  <2> QED BY <1>1, <1>3, <1>19, <2>1, ListAddToNextLeads DEF Goal, u, Fitting
<1>20. CASE c.f = "convert"
  <2>1. u = ConvertAdd(s, c.arg) /\ c.f \in RowFs
    BY <1>20 DEF Handled, u, RowFs
  <2> QED BY <1>1, <1>3, <1>4, <1>20, <2>1, ConvertAddLeads DEF Goal, u, Fitting
<1>21. CASE c.f = "save"
  <2>1. u = s
    BY <1>21 DEF Handled, u
  <2> QED BY <1>2, <1>6, <2>1 DEF Goal, u
<1>22. \/ c.f = "new" \/ c.f = "close" \/ c.f = "clear" \/ c.f = "sort" \/ c.f = "unfilter"
       \/ c.f = "stop" \/ c.f = "next" \/ c.f = "select" \/ c.f = "filter" \/ c.f = "add"
       \/ c.f = "play" \/ c.f \in {"remove", "del"} \/ c.f = "next_list" \/ c.f = "convert"
       \/ c.f = "save"
  BY <1>1 DEF CommandNames, PlainFs, RowFs
<1> QED BY <1>7, <1>8, <1>9, <1>10, <1>11, <1>12, <1>13, <1>14, <1>15, <1>16, <1>17, <1>18,
          <1>19, <1>20, <1>21, <1>22

-----------------------------------------------------------------------------
(* The files.                                                              *)

Disks == [Queues -> Seq(Names) \union {NoFile}]

LEMMA NotAFile ==
  NoFile \notin Seq(Names)
<1> DEFINE x == "nofile"
<1>1. x \notin Names
  BY GuiAssumption
<1> HIDE DEF x
<1>2. ASSUME <<x>> \in Seq(Names)
      PROVE  FALSE
  <2> DEFINE l == <<x>>
  <2>1. Len(l) = 1 /\ l[1] = x
    OBVIOUS
  <2>2. l \in Seq(Names)
    BY <1>2
  <2> HIDE DEF l
  <2>3. \A i \in 1..Len(l) : l[i] \in Names
    BY <2>2
  <2> QED BY <1>1, <2>1, <2>3
<1> QED BY <1>2 DEF NoFile, x

ReadFrom(d, k) ==
  k \in 0..MaxQueues /\ (\A i \in 1..k : d[i] # NoFile) /\ (k = MaxQueues \/ d[k + 1] = NoFile)

LEMMA FilesReadIs ==
  ASSUME NEW d
  PROVE  ReadFrom(d, FilesRead(d)) /\ \A k : ReadFrom(d, k) => k = FilesRead(d)
<1> DEFINE M == MaxQueues
           T == { k \in 0..M : k = M \/ d[k + 1] = NoFile }
<1>1. M \in Nat
  BY Bounds
<1> HIDE DEF M
<1>2. PICK k \in T : \A y \in T : k <= y
  <2>1. T \in SUBSET Nat /\ M \in T
    BY <1>1
  <2> HIDE DEF T
  <2> QED BY <2>1, NatLeast
<1>3. ReadFrom(d, k)
  <2>1. ASSUME NEW i \in 1..k, d[i] = NoFile
        PROVE  FALSE
    <3>1. i - 1 \in T
      BY <1>1, <1>2, <2>1
    <3> QED BY <1>1, <1>2, <2>1, <3>1
  <2> QED BY <1>2, <2>1 DEF ReadFrom, M
<1>4. \E n \in 0..MaxQueues : (\A i \in 1..n : d[i] # NoFile) /\ (n = MaxQueues \/ d[n + 1] = NoFile)
  BY <1>3 DEF ReadFrom
<1>5. ReadFrom(d, FilesRead(d))
  <2> DEFINE P(n) == (\A i \in 1..n : d[i] # NoFile) /\ (n = MaxQueues \/ d[n + 1] = NoFile)
             n == CHOOSE n \in 0..MaxQueues : P(n)
  <2>1. n \in 0..MaxQueues /\ P(n)
    <3> HIDE DEF P
    <3>1. \E m \in 0..MaxQueues : P(m)
      BY <1>4 DEF P
    <3> QED BY <3>1
  <2>2. FilesRead(d) = n
    BY DEF FilesRead
  <2> HIDE DEF n
  <2> QED BY <2>1, <2>2 DEF ReadFrom
<1>6. ASSUME NEW a, NEW b, ReadFrom(d, a), ReadFrom(d, b), a < b
      PROVE  FALSE
  <2>1. a \in Nat /\ b \in Nat /\ a < MaxQueues /\ MaxQueues \in Nat
    BY <1>1, <1>6 DEF ReadFrom, M
  <2>2. a + 1 \in 1..b /\ d[a + 1] = NoFile
    BY <1>6, <2>1 DEF ReadFrom
  <2> QED BY <1>6, <2>2 DEF ReadFrom
<1>7. ASSUME NEW n, ReadFrom(d, n)
      PROVE  n = FilesRead(d)
  <2> DEFINE f == FilesRead(d)
  <2> HIDE DEF f
  <2>1. ReadFrom(d, f)
    BY <1>5 DEF f
  <2>2. n \in Nat /\ f \in Nat
    BY <1>1, <1>7, <2>1 DEF ReadFrom, M
  <2>3. ~(n < f) /\ ~(f < n)
    BY <1>6, <1>7, <2>1
  <2> QED BY <2>2, <2>3 DEF f
<1> QED BY <1>5, <1>7

LEMMA FilesReadIn ==
  ASSUME NEW d \in Disks
  PROVE  /\ FilesRead(d) \in 0..MaxQueues
         /\ \A i \in 1..FilesRead(d) : i \in Queues /\ d[i] \in Seq(Names)
<1>1. ReadFrom(d, FilesRead(d))
  BY FilesReadIs
<1>2. MaxQueues \in Nat
  BY Bounds
<1> QED BY <1>1, <1>2 DEF ReadFrom, Queues, Disks

\* The names of the files before list k, and j of its own.
Cells(d, k, j) ==
  { p \in Queues \X Entries : (p[1] < k /\ p[2] <= Len(d[p[1]])) \/ (p[1] = k /\ p[2] <= j) }
AllCells(d) == { p \in Queues \X Entries : p[1] <= FilesRead(d) /\ p[2] <= Len(d[p[1]]) }

LEMMA CellsFinite ==
  ASSUME NEW C, C \subseteq Queues \X Entries
  PROVE  IsFiniteSet(C) /\ Cardinality(C) \in Nat
<1>1. IsFiniteSet(Queues) /\ IsFiniteSet(Entries)
  BY Bounds, FS_Interval DEF Queues, Entries
<1>2. IsFiniteSet(Queues \X Entries)
  BY <1>1, FS_Product
<1> QED BY <1>2, FS_Subset, FS_CardinalityType

\* There is an entry for each of the names.
LEMMA CellsCount ==
  ASSUME NEW d \in Disks, Fits(d), NEW k \in 1..FilesRead(d), NEW j \in 1..Len(d[k])
  PROVE  /\ Cardinality(Cells(d, k, j)) = Cardinality(Cells(d, k, j - 1)) + 1
         /\ Cardinality(Cells(d, k, j)) <= MaxEntries
<1> DEFINE A == Cells(d, k, j)
           B == Cells(d, k, j - 1)
           n == FilesRead(d)
           p == <<k, j>>
<1>1. /\ n \in 0..MaxQueues /\ MaxQueues \in Nat
      /\ \A i \in 1..n : i \in Queues /\ Len(d[i]) \in Nat /\ Len(d[i]) <= MaxEntries
      /\ MaxEntries \in Nat
  BY FilesReadIn, Bounds DEF Fits
<1>2. k \in Queues /\ j \in Entries /\ k \in Nat /\ j \in Nat /\ p \in Queues \X Entries
  <2>1. k \in Queues /\ Len(d[k]) \in Nat /\ Len(d[k]) <= MaxEntries
    BY <1>1
  <2> QED BY <1>1, <2>1 DEF Entries, Queues
<1>3. A = B \union {p} /\ p \notin B
  <2>1. ASSUME NEW x \in Queues \X Entries
        PROVE  x \in A <=> x \in B \/ x = p
    <3>1. x[1] \in Nat /\ x[2] \in Nat /\ x = <<x[1], x[2]>>
      BY DEF Queues, Entries
    <3> QED BY <1>2, <3>1 DEF Cells
  <2>2. p \notin B
    BY <1>2 DEF Cells
  <2>3. A \subseteq Queues \X Entries /\ B \subseteq Queues \X Entries
    BY DEF Cells
  <2> QED BY <1>2, <2>1, <2>2, <2>3
<1>4. A \subseteq AllCells(d)
  <2>1. ASSUME NEW x \in A
        PROVE  x \in AllCells(d)
    <3>1. x \in Queues \X Entries /\ x[1] \in Nat /\ x[2] \in Nat
      BY <2>1 DEF Cells, Queues, Entries
    <3>2. (x[1] < k /\ x[2] <= Len(d[x[1]])) \/ (x[1] = k /\ x[2] <= j)
      BY <2>1 DEF Cells
    <3>3. x[1] <= n
      BY <1>1, <1>2, <3>1, <3>2
    <3>4. x[2] <= Len(d[x[1]])
      <4>1. Len(d[k]) \in Nat /\ j <= Len(d[k])
        BY <1>1
      <4> QED BY <1>2, <3>1, <3>2, <4>1
    <3> QED BY <3>1, <3>3, <3>4 DEF AllCells
  <2> QED BY <2>1
<1>5. B \subseteq Queues \X Entries /\ AllCells(d) \subseteq Queues \X Entries
  BY DEF Cells, AllCells
<1> HIDE DEF A, B, p
<1>6. IsFiniteSet(B) /\ IsFiniteSet(AllCells(d)) /\ Cardinality(AllCells(d)) \in Nat
  BY <1>5, CellsFinite
<1>7. Cardinality(A) = Cardinality(B) + 1
  BY <1>3, <1>6, CardOneMore
<1>8. Cardinality(A) <= Cardinality(AllCells(d)) /\ IsFiniteSet(A)
  BY <1>4, <1>6, FS_Subset
<1>9. Cardinality(AllCells(d)) <= MaxEntries
  BY DEF Fits, AllCells
<1>10. Cardinality(A) <= MaxEntries
  <2>1. Cardinality(A) \in Nat
    BY <1>8, FS_CardinalityType
  <2> QED BY <1>1, <1>6, <1>8, <1>9, <2>1
<1> QED BY <1>7, <1>10 DEF A, B

LEMMA CellsEnds ==
  ASSUME NEW d \in Disks, Fits(d)
  PROVE  /\ Cardinality(Cells(d, 1, 0)) = 0
         /\ \A k \in 1..FilesRead(d) : Cells(d, k + 1, 0) = Cells(d, k, Len(d[k]))
<1>1. Cells(d, 1, 0) = {}
  BY DEF Cells, Queues, Entries
<1>2. ASSUME NEW k \in 1..FilesRead(d)
      PROVE  Cells(d, k + 1, 0) = Cells(d, k, Len(d[k]))
  <2>1. k \in Nat /\ Len(d[k]) \in Nat
    BY FilesReadIn, Bounds
  <2>2. ASSUME NEW x \in Queues \X Entries
        PROVE  (x[1] < k + 1 /\ x[2] <= Len(d[x[1]])) \/ (x[1] = k + 1 /\ x[2] <= 0)
               <=> (x[1] < k /\ x[2] <= Len(d[x[1]])) \/ (x[1] = k /\ x[2] <= Len(d[k]))
    <3>1. x[1] \in Nat /\ x[2] \in Nat /\ x[2] > 0
      BY DEF Queues, Entries
    <3> QED BY <2>1, <3>1
  <2> QED BY <2>2 DEF Cells
<1> QED BY <1>1, <1>2, FS_EmptySet

\* The state while lists are loaded.
Loading(x) ==
  /\ x \in CoreState /\ x.ub = "none" /\ Sound(x) /\ Home(x) /\ DefaultOk(x)
  /\ x.gd.filtered = 0 /\ x.gd.convert = 0 /\ x.qm.selected = 0
  /\ \A t \in Tracks : x.t[t].st = "none"

\* The lists before k are those of the files d; list k has the first j of its
\* names.
Loaded(x, d, k, j) ==
  /\ Loading(x)
  /\ \A q \in Queues : x.q[q].st = (IF q <= k THEN "live" ELSE "none")
  /\ Len(x.gd.lists) = k /\ \A i \in 1..k : x.gd.lists[i] = i
  /\ \A q \in Queues : Len(Ents(x, q)) = (IF q < k THEN Len(d[q]) ELSE IF q = k THEN j ELSE 0)
  /\ \A q \in Queues : \A i \in 1..Len(Ents(x, q)) : x.e[Ents(x, q)[i]].name = d[q][i]
  /\ Cardinality(Free(x)) + Cardinality(Cells(d, k, j)) = MaxEntries

LEMMA QAddLoads ==
  ASSUME NEW d \in Disks, Fits(d), NEW k \in 1..FilesRead(d), NEW j \in 1..Len(d[k]),
         NEW x, Loaded(x, d, k, j - 1)
  PROVE  /\ Loaded(QAdd(x, k, d[k][j]), d, k, j)
         /\ QAdd(x, k, d[k][j]).made = x.made
<1> DEFINE name == d[k][j]
           u == QAdd(x, k, name)
           a == NewId(x.e)
           l == Ents(x, k)
<1>1. x \in CoreState /\ Sound(x) /\ k \in Queues /\ name \in Names /\ x.q[k].st = "live"
      /\ x.gd.filtered = 0 /\ k # 0 /\ k \in Nat /\ j \in Nat /\ j # 0
  <2>1. k \in Queues /\ d[k] \in Seq(Names)
    BY FilesReadIn
  <2> DEFINE m == d[k]
  <2>2. m \in Seq(Names) /\ j \in 1..Len(m)
    BY <2>1
  <2> HIDE DEF m
  <2>3. m[j] \in Names /\ j \in Nat /\ j # 0
    BY <2>2
  <2>4. k # 0 /\ k \in Nat /\ k <= k
    BY <2>1, Bounds DEF Queues
  <2> QED BY <2>1, <2>3, <2>4 DEF Loaded, Loading, m
<1>2. /\ Cardinality(Cells(d, k, j)) = Cardinality(Cells(d, k, j - 1)) + 1
      /\ Cardinality(Cells(d, k, j)) <= MaxEntries
  BY CellsCount
<1>3. /\ Cardinality(Free(x)) \in Nat /\ Cardinality(Cells(d, k, j - 1)) \in Nat
      /\ Cardinality(Cells(d, k, j)) \in Nat /\ MaxEntries \in Nat
      /\ Cardinality(Free(x)) + Cardinality(Cells(d, k, j - 1)) = MaxEntries
  <2>1. Cells(d, k, j - 1) \subseteq Queues \X Entries /\ Cells(d, k, j) \subseteq Queues \X Entries
    BY DEF Cells
  <2> QED BY <2>1, CellsFinite, FreeFinite, Bounds DEF Loaded
<1>4. Cardinality(Free(x)) > 0
  BY <1>2, <1>3
<1>5. \E e \in Entries : x.e[e].st = "none"
  BY <1>4, FreeFinite
<1> HIDE DEF name, u
<1>6. /\ u \in CoreState
      /\ a \in Entries /\ x.e[a].st = "none"
      /\ u.e[a].name = name
      /\ \A c \in Entries : c # a => u.e[c] = x.e[c]
      /\ Ents(u, k) = Append(l, a)
      /\ \A p \in Queues : p # k => Ents(u, p) = Ents(x, p)
      /\ \A p \in Queues : u.q[p].st = x.q[p].st
      /\ u.qm = x.qm /\ u.t = x.t /\ u.gd = x.gd /\ u.made = x.made /\ u.ub = x.ub
  BY <1>1, <1>5, QAddFields DEF u
<1>7. Sound(u) /\ (Home(x) => Home(u)) /\ (DefaultOk(x) => DefaultOk(u))
  BY <1>1, <1>5, QAddSound DEF u
<1>8. Cardinality(Free(u)) = Cardinality(Free(x)) - 1
  BY <1>1, <1>5, QAddFree DEF u
<1> HIDE DEF a, l
<1>9. Loading(u)
  BY <1>6, <1>7 DEF Loaded, Loading
<1>10. l \in Seq(Entries) /\ Len(l) = j - 1
  <2>1. ~(k < k)
    BY <1>1
  <2>2. Len(Ents(x, k)) = j - 1
    BY <1>1, <2>1 DEF Loaded
  <2> QED BY <1>1, <2>2, Listed DEF l
<1>11. /\ Ents(u, k) \in Seq(Entries) /\ Len(Ents(u, k)) = j /\ Ents(u, k)[j] = a
       /\ \A i \in 1..(j - 1) : Ents(u, k)[i] = l[i]
  <2> DEFINE m == Append(l, a)
  <2>1. m \in Seq(Entries) /\ Len(m) = j /\ m[j] = a /\ \A i \in 1..(j - 1) : m[i] = l[i]
    BY <1>1, <1>6, <1>10
  <2> HIDE DEF m
  <2> QED BY <1>6, <2>1 DEF m
\* The new entry was in no list.
<1>12. ASSUME NEW q \in Queues, NEW i \in 1..Len(Ents(x, q))
       PROVE  Ents(x, q)[i] \in Entries /\ Ents(x, q)[i] # a
  <2>1. Contains(Ents(x, q), Ents(x, q)[i])
    BY DEF Contains
  <2>2. Ents(x, q)[i] \in Entries
    BY <1>1, <2>1, Listed
  <2>3. Refs(x, {}, 0)
    BY <1>1, SoundParts
  <2>4. x.e[Ents(x, q)[i]].st = "live"
    BY <1>1, <2>1, <2>2, <2>3, ListedLive
  <2> QED BY <1>6, <2>2, <2>4, States
<1>13. ASSUME NEW q \in Queues
       PROVE  /\ Len(Ents(u, q)) = (IF q < k THEN Len(d[q]) ELSE IF q = k THEN j ELSE 0)
              /\ \A i \in 1..Len(Ents(u, q)) : u.e[Ents(u, q)[i]].name = d[q][i]
  <2>1. CASE q = k
    <3>1. Len(Ents(u, k)) = j /\ ~(k < k)
      BY <1>1, <1>11
    <3>2. ASSUME NEW i \in 1..j
          PROVE  u.e[Ents(u, k)[i]].name = d[k][i]
      <4>1. CASE i = j
        BY <1>6, <1>11, <4>1 DEF name
      <4>2. CASE i # j
        <5>1. i \in 1..(j - 1) /\ i \in 1..Len(Ents(x, k))
          BY <1>1, <1>10, <4>2 DEF l
        <5>2. Ents(u, k)[i] = Ents(x, k)[i]
          BY <1>11, <5>1 DEF l
        <5>3. x.e[Ents(x, k)[i]].name = d[k][i]
          BY <1>1, <5>1 DEF Loaded
        <5> QED BY <1>1, <1>6, <1>12, <5>1, <5>2, <5>3
      <4> QED BY <4>1, <4>2
    <3> QED BY <2>1, <3>1, <3>2
  <2>2. CASE q # k
    <3>1. Ents(u, q) = Ents(x, q)
      BY <1>6, <2>2
    <3>2. /\ Len(Ents(x, q)) = (IF q < k THEN Len(d[q]) ELSE 0)
          /\ \A i \in 1..Len(Ents(x, q)) : x.e[Ents(x, q)[i]].name = d[q][i]
      BY <2>2 DEF Loaded
    <3>3. \A i \in 1..Len(Ents(x, q)) : u.e[Ents(x, q)[i]].name = d[q][i]
      BY <1>6, <1>12, <3>2
    <3> QED BY <2>2, <3>1, <3>2, <3>3
  <2> QED BY <2>1, <2>2
<1>14. Cardinality(Free(u)) + Cardinality(Cells(d, k, j)) = MaxEntries
  BY <1>2, <1>3, <1>8
<1>15. /\ \A q \in Queues : u.q[q].st = (IF q <= k THEN "live" ELSE "none")
       /\ Len(u.gd.lists) = k /\ \A i \in 1..k : u.gd.lists[i] = i
  BY <1>6 DEF Loaded
<1> QED BY <1>6, <1>9, <1>13, <1>14, <1>15 DEF Loaded, u, name

\* QAddNames, one name after the other.
LEMMA NamesUnfold ==
  ASSUME NEW s, NEW q, NEW names \in Seq(Names)
  PROVE  \E f : /\ f[0] = s /\ \A k \in 1..Len(names) : f[k] = QAdd(f[k - 1], q, names[k])
                /\ QAddNames(s, q, names) = f[Len(names)]
<1> DEFINE m == Len(names)
           f == CHOOSE g : g = [k \in 0..m |-> IF k = 0 THEN s ELSE QAdd(g[k - 1], q, names[k])]
           Is(g, n) == g = [k \in 0..n |-> IF k = 0 THEN s ELSE QAdd(g[k - 1], q, names[k])]
           S == { n \in Nat : \E g : Is(g, n) }
<1>0. m \in Nat
  OBVIOUS
<1>1. 0 \in S
  <2> DEFINE g == [k \in 0..0 |-> s]
  <2>1. g = [k \in 0..0 |-> IF k = 0 THEN s ELSE QAdd(g[k - 1], q, names[k])]
    OBVIOUS
  <2> HIDE DEF g
  <2> QED BY <2>1
<1>2. ASSUME NEW n \in Nat, n \in S
      PROVE  n + 1 \in S
  <2>1. PICK g : Is(g, n)
    BY <1>2
  <2>2. g[0] = s /\ \A k \in 1..n : g[k] = QAdd(g[k - 1], q, names[k])
    BY <2>1
  <2> DEFINE v == QAdd(g[n], q, names[n + 1])
             h == [k \in 0..(n + 1) |-> IF k = n + 1 THEN v ELSE g[k]]
  <2> HIDE DEF v
  <2>3. h[0] = s /\ h[n + 1] = v /\ \A k \in 0..n : h[k] = g[k]
    BY <2>2
  <2>4. ASSUME NEW k \in 0..(n + 1)
        PROVE  h[k] = IF k = 0 THEN s ELSE QAdd(h[k - 1], q, names[k])
    <3> HIDE DEF h
    <3>1. CASE k = 0
      BY <2>3, <3>1
    <3>2. CASE k = n + 1
      <4>1. k - 1 = n /\ n \in 0..n /\ k # 0
        BY <3>2
      <4> QED BY <2>3, <3>2, <4>1 DEF v
    <3>3. CASE k # 0 /\ k # n + 1
      <4>1. k \in 1..n /\ k \in 0..n /\ k - 1 \in 0..n
        BY <3>3
      <4> QED BY <2>2, <2>3, <4>1
    <3> QED BY <3>1, <3>2, <3>3
  <2>5. h = [k \in 0..(n + 1) |-> h[k]]
    OBVIOUS
  <2> HIDE DEF h
  <2>6. Is(h, n + 1)
    BY <2>4, <2>5
  <2> HIDE DEF Is
  <2> QED BY <2>6
<1> HIDE DEF S, Is
<1>3. m \in S
  BY <1>0, <1>1, <1>2, NatSetInduction
<1>4. f = [k \in 0..m |-> IF k = 0 THEN s ELSE QAdd(f[k - 1], q, names[k])]
  <2>1. \E g : g = [k \in 0..m |-> IF k = 0 THEN s ELSE QAdd(g[k - 1], q, names[k])]
    BY <1>3 DEF S, Is
  <2> QED BY <2>1
<1>5. QAddNames(s, q, names) = f[m]
  BY DEF QAddNames
<1> HIDE DEF f
<1>6. f[0] = s
  BY <1>0, <1>4
<1>7. ASSUME NEW k \in 1..m
      PROVE  f[k] = QAdd(f[k - 1], q, names[k])
  <2>1. k \in 0..m /\ k # 0
    BY <1>0
  <2> QED BY <1>4, <2>1
<1> QED BY <1>5, <1>6, <1>7

\* ListsLoad, one file after the other.
LEMMA ListsUnfold ==
  ASSUME NEW s, disk \in Disks
  PROVE  \E f : /\ f[0] = s /\ \A k \in 1..FilesRead(disk) : f[k] = LoadList(f[k - 1], k)
                /\ ListsLoad(s) = f[FilesRead(disk)]
<1> DEFINE m == FilesRead(disk)
           f == CHOOSE g : g = [k \in 0..m |-> IF k = 0 THEN s ELSE LoadList(g[k - 1], k)]
           Is(g, n) == g = [k \in 0..n |-> IF k = 0 THEN s ELSE LoadList(g[k - 1], k)]
           S == { n \in Nat : \E g : Is(g, n) }
<1>0. m \in Nat
  BY FilesReadIn, Bounds
<1>1. 0 \in S
  <2> DEFINE g == [k \in 0..0 |-> s]
  <2>1. g = [k \in 0..0 |-> IF k = 0 THEN s ELSE LoadList(g[k - 1], k)]
    OBVIOUS
  <2> HIDE DEF g
  <2> QED BY <2>1
<1>2. ASSUME NEW n \in Nat, n \in S
      PROVE  n + 1 \in S
  <2>1. PICK g : Is(g, n)
    BY <1>2
  <2>2. g[0] = s /\ \A k \in 1..n : g[k] = LoadList(g[k - 1], k)
    BY <2>1
  <2> DEFINE v == LoadList(g[n], n + 1)
             h == [k \in 0..(n + 1) |-> IF k = n + 1 THEN v ELSE g[k]]
  <2> HIDE DEF v
  <2>3. h[0] = s /\ h[n + 1] = v /\ \A k \in 0..n : h[k] = g[k]
    BY <2>2
  <2>4. ASSUME NEW k \in 0..(n + 1)
        PROVE  h[k] = IF k = 0 THEN s ELSE LoadList(h[k - 1], k)
    <3> HIDE DEF h
    <3>1. CASE k = 0
      BY <2>3, <3>1
    <3>2. CASE k = n + 1
      <4>1. k - 1 = n /\ n \in 0..n /\ k # 0
        BY <3>2
      <4> QED BY <2>3, <3>2, <4>1 DEF v
    <3>3. CASE k # 0 /\ k # n + 1
      <4>1. k \in 1..n /\ k \in 0..n /\ k - 1 \in 0..n
        BY <3>3
      <4> QED BY <2>2, <2>3, <4>1
    <3> QED BY <3>1, <3>2, <3>3
  <2>5. h = [k \in 0..(n + 1) |-> h[k]]
    OBVIOUS
  <2> HIDE DEF h
  <2>6. Is(h, n + 1)
    BY <2>4, <2>5
  <2> HIDE DEF Is
  <2> QED BY <2>6
<1> HIDE DEF S, Is
<1>3. m \in S
  BY <1>0, <1>1, <1>2, NatSetInduction
<1>4. f = [k \in 0..m |-> IF k = 0 THEN s ELSE LoadList(f[k - 1], k)]
  <2>1. \E g : g = [k \in 0..m |-> IF k = 0 THEN s ELSE LoadList(g[k - 1], k)]
    BY <1>3 DEF S, Is
  <2> QED BY <2>1
<1>5. ListsLoad(s) = f[m]
  BY DEF ListsLoad
<1> HIDE DEF f
<1>6. f[0] = s
  BY <1>0, <1>4
<1>7. ASSUME NEW k \in 1..m
      PROVE  f[k] = LoadList(f[k - 1], k)
  <2>1. k \in 0..m /\ k # 0
    BY <1>0
  <2> QED BY <1>4, <2>1
<1> QED BY <1>5, <1>6, <1>7

LEMMA NamesLoad ==
  ASSUME NEW d \in Disks, Fits(d), NEW k \in 1..FilesRead(d), NEW x, Loaded(x, d, k, 0)
  PROVE  Loaded(QAddNames(x, k, d[k]), d, k, Len(d[k]))
<1> DEFINE n == Len(d[k])
           u == QAddNames(x, k, d[k])
<1>1. d[k] \in Seq(Names) /\ n \in Nat
  BY FilesReadIn
<1>2. PICK f : /\ f[0] = x /\ \A j \in 1..Len(d[k]) : f[j] = QAdd(f[j - 1], k, d[k][j])
               /\ u = f[Len(d[k])]
  BY <1>1, NamesUnfold
<1> HIDE DEF u
<1> DEFINE S == { j \in 0..n : Loaded(f[j], d, k, j) }
<1>3. 0 \in S
  BY <1>1, <1>2
<1>4. ASSUME NEW j \in 1..n, j - 1 \in S
      PROVE  j \in S
  <2>1. Loaded(f[j - 1], d, k, j - 1) /\ f[j] = QAdd(f[j - 1], k, d[k][j]) /\ j \in 0..n
    BY <1>1, <1>2, <1>4
  <2>2. Loaded(f[j], d, k, j)
    BY <2>1, QAddLoads
  <2> QED BY <2>1, <2>2
<1> HIDE DEF S
<1>5. 0..n \subseteq S
  BY <1>1, <1>3, <1>4, UpToInduction
<1> QED BY <1>1, <1>2, <1>5 DEF S, u

LEMMA ListNewLoads ==
  ASSUME NEW d \in Disks, Fits(d), NEW k \in 1..FilesRead(d), k + 1 \in 1..FilesRead(d),
         NEW x, Loaded(x, d, k, Len(d[k]))
  PROVE  Loaded(ListNew(x), d, k + 1, 0) /\ ListNew(x).made = k + 1
<1> DEFINE y == [x EXCEPT !.gd.tabconv = FALSE]
           q == NewId(y.q)
           u == ListNew(x)
<1>1. /\ x \in CoreState /\ x.ub = "none" /\ Sound(x) /\ Home(x) /\ DefaultOk(x)
      /\ x.gd.filtered = 0 /\ x.gd.convert = 0 /\ x.qm.selected = 0
      /\ \A t \in Tracks : x.t[t].st = "none"
  BY DEF Loaded, Loading
<1>2. k \in Nat /\ k \in Queues /\ k + 1 \in Queues
  BY FilesReadIn DEF Queues
<1>3. ListFilterClose(x) = x
  BY <1>1 DEF ListFilterClose
<1>4. u = QCreate(y)
  BY Zenon, <1>3 DEF ListNew
<1> HIDE DEF u
<1>5. /\ y \in CoreState /\ y.gd.tabconv = FALSE
      /\ y.gd.lists = x.gd.lists /\ y.gd.convert = x.gd.convert /\ y.gd.filtered = x.gd.filtered
      /\ y.q = x.q /\ y.qm = x.qm /\ y.e = x.e /\ y.t = x.t /\ y.ub = x.ub
  BY <1>1, TabconvFields
<1> HIDE DEF y
<1>6. \A p \in Queues : y.q[p].st = (IF p <= k THEN "live" ELSE "none")
  BY <1>5 DEF Loaded
<1>7. y.q[k + 1].st = "none"
  BY <1>2, <1>6
<1>8. Created(u, y, q)
  BY <1>2, <1>4, <1>5, <1>7, QCreateFields
<1>9. q = k + 1
  <2>1. DOMAIN y.q = 1..MaxQueues /\ MaxQueues \in Nat
    BY <1>5, CoreFields, Bounds DEF Queues
  <2>2. /\ q \in 1..MaxQueues /\ y.q[q].st = "none"
        /\ \A j \in 1..MaxQueues : j < q => y.q[j].st # "none"
    BY <1>2, <1>7, <2>1, NewIdFree DEF Queues
  <2>3. ~(q <= k)
    BY <1>6, <2>2 DEF Queues
  <2>4. ~(k + 1 < q)
    BY <1>2, <1>7, <2>2 DEF Queues
  <2> HIDE DEF q
  <2> QED BY <1>2, <2>2, <2>3, <2>4
<1> HIDE DEF q
<1>10. Leads(x, u)
  BY <1>1, <1>2, <1>5, <1>7, ListNewLeads DEF u
<1>11. Loading(u)
  <2>1. /\ u.ub = x.ub /\ u.gd.filtered = 0 /\ u.gd.convert = 0 /\ u.qm.selected = 0 /\ u.t = x.t
    BY <1>1, <1>5, <1>8 DEF Created
  <2> QED BY <1>1, <1>10, <2>1 DEF Loading, Leads, Calm
<1>12. \A p \in Queues : u.q[p].st = (IF p <= k + 1 THEN "live" ELSE "none")
  <2>1. ASSUME NEW p \in Queues
        PROVE  u.q[p].st = (IF p <= k + 1 THEN "live" ELSE "none")
    <3>1. p \in Nat
      BY DEF Queues
    <3>2. CASE p = k + 1
      BY <1>2, <1>8, <1>9, <3>2 DEF Created
    <3>3. CASE p # k + 1
      <4>1. u.q[p].st = y.q[p].st
        BY <1>8, <1>9, <3>3 DEF Created
      <4> QED BY <1>2, <1>6, <3>1, <3>3, <4>1
    <3> QED BY <3>2, <3>3
  <2> QED BY <2>1
<1>13. Len(u.gd.lists) = k + 1 /\ \A i \in 1..(k + 1) : u.gd.lists[i] = i
  <2> DEFINE l == x.gd.lists
             m == Append(l, q)
  <2>1. u.gd.lists = m
    BY <1>5, <1>8 DEF Created
  <2>2. l \in Seq(Queues) /\ Len(l) = k /\ \A i \in 1..k : l[i] = i
    BY <1>1, GdFields DEF Loaded
  <2> HIDE DEF l
  <2>3. Len(m) = k + 1 /\ m[k + 1] = q /\ \A i \in 1..k : m[i] = l[i]
    BY <1>2, <1>9, <2>2
  <2> HIDE DEF m
  <2>4. ASSUME NEW i \in 1..(k + 1)
        PROVE  m[i] = i
    <3>1. i \in 1..k \/ i = k + 1
      BY <1>2
    <3> QED BY <1>9, <2>2, <2>3, <3>1
  <2> QED BY <2>1, <2>3, <2>4
<1>14. ASSUME NEW p \in Queues
       PROVE  /\ Len(Ents(u, p)) = (IF p < k + 1 THEN Len(d[p]) ELSE IF p = k + 1 THEN 0 ELSE 0)
              /\ \A i \in 1..Len(Ents(u, p)) : u.e[Ents(u, p)[i]].name = d[p][i]
  <2>1. Ents(u, p) = Ents(y, p) /\ u.e = y.e
    BY <1>8 DEF Created
  <2>2. Ents(u, p) = Ents(x, p) /\ u.e = x.e
    BY <1>5, <2>1 DEF Ents
  <2>3. Len(Ents(x, p)) = (IF p < k THEN Len(d[p]) ELSE IF p = k THEN Len(d[k]) ELSE 0)
    BY DEF Loaded
  <2>4. p \in Nat
    BY DEF Queues
  <2>5. Len(Ents(x, p)) = (IF p < k + 1 THEN Len(d[p]) ELSE 0)
    BY <1>2, <2>3, <2>4
  <2>6. \A i \in 1..Len(Ents(x, p)) : x.e[Ents(x, p)[i]].name = d[p][i]
    BY DEF Loaded
  <2> QED BY <2>2, <2>5, <2>6
<1>15. Cardinality(Free(u)) + Cardinality(Cells(d, k + 1, 0)) = MaxEntries
  <2>1. u.e = x.e
    BY <1>5, <1>8 DEF Created
  <2>2. Cells(d, k + 1, 0) = Cells(d, k, Len(d[k]))
    BY CellsEnds
  <2> QED BY <2>1, <2>2 DEF Loaded, Free
<1>16. u.made = k + 1
  BY <1>8, <1>9 DEF Created
<1> QED BY <1>11, <1>12, <1>13, <1>14, <1>15, <1>16 DEF Loaded, u

LEMMA StartedFields ==
  /\ Started \in CoreState /\ Started.ub = "none"
  /\ Started.qm.lists = <<1>> /\ Started.qm.selected = 0
  /\ Started.gd.lists = <<1>> /\ Started.gd.selected = 1 /\ Started.gd.convert = 0
  /\ Started.gd.filtered = 0 /\ Started.gd.tabconv = FALSE /\ Started.gd.playing = 0
  /\ \A q \in Queues : Started.q[q].st = (IF q = 1 THEN "live" ELSE "none") /\ Ents(Started, q) = <<>>
  /\ \A e \in Entries : Started.e[e].st = "none" /\ Started.e[e].used = 0 /\ Started.e[e].trk = 0
  /\ \A t \in Tracks : Started.t[t].st = "none"
<1> DEFINE QM == [lists |-> <<1>>, selected |-> 0]
           QS == [i \in Queues |-> [st |-> IF i = 1 THEN "live" ELSE "none", ents |-> <<>>,
                                    cursor |-> 0, cidx |-> 0, active |-> 0]]
           ES == [i \in Entries |-> [st |-> "none", used |-> 0, q |-> 1, name |-> "none", trk |-> 0]]
           TS == [i \in Tracks |-> [st |-> "none", e |-> 0]]
           GD == [lists |-> <<1>>, selected |-> 1, convert |-> 0, filtered |-> 0, len |-> 0,
                  text |-> [len |-> 0, shows |-> Names], tabconv |-> FALSE, playing |-> 0]
           u == [qm |-> QM, q |-> QS, e |-> ES, t |-> TS, gd |-> GD, made |-> 0, ub |-> "none"]
<1>1. 1 \in Queues /\ 0 \in QueueIds /\ 0 \in EntryIds /\ 0 \in TrackIds /\ <<1>> \in Seq(Queues)
  BY Bounds
<1>2. "none" \in Statuses /\ "live" \in Statuses /\ "none" \in Labels /\ "none" \in TrackStates
      /\ <<>> \in Seq(Entries)
  BY DEF Statuses, Labels, TrackStates
<1>3. QM \in QmRec /\ QM.lists = <<1>> /\ QM.selected = 0
  BY <1>1 DEF QmRec
<1>4. QS \in [Queues -> QueueRec]
      /\ \A q \in Queues : QS[q].st = (IF q = 1 THEN "live" ELSE "none") /\ QS[q].ents = <<>>
  BY <1>1, <1>2 DEF QueueRec
<1>5. ES \in [Entries -> EntryRec]
      /\ \A e \in Entries : ES[e].st = "none" /\ ES[e].used = 0 /\ ES[e].trk = 0
  BY <1>1, <1>2 DEF EntryRec
<1>6. TS \in [Tracks -> TrackRec] /\ \A t \in Tracks : TS[t].st = "none"
  BY <1>1, <1>2 DEF TrackRec
<1>7. GD \in GdRec /\ GD.lists = <<1>> /\ GD.selected = 1 /\ GD.convert = 0
      /\ GD.filtered = 0 /\ GD.tabconv = FALSE /\ GD.playing = 0
  <2>1. [len |-> 0, shows |-> Names] \in TextRec
    BY DEF TextRec
  <2> QED BY <1>1, <2>1 DEF GdRec
<1>8. Started = u
  BY Zenon DEF Started
<1> HIDE DEF QM, QS, ES, TS, GD
<1>9. u \in CoreState
  BY <1>1, <1>3, <1>4, <1>5, <1>6, <1>7 DEF CoreState
<1> QED BY <1>3, <1>4, <1>5, <1>6, <1>7, <1>8, <1>9 DEF Ents

LEMMA StartedLoads ==
  ASSUME NEW d \in Disks, Fits(d)
  PROVE  Loaded(Started, d, 1, 0)
<1> DEFINE s == Started
<1>1. /\ s \in CoreState /\ s.ub = "none"
      /\ s.qm.lists = <<1>> /\ s.qm.selected = 0
      /\ s.gd.lists = <<1>> /\ s.gd.selected = 1 /\ s.gd.convert = 0
      /\ s.gd.filtered = 0 /\ s.gd.tabconv = FALSE /\ s.gd.playing = 0
      /\ \A q \in Queues : s.q[q].st = (IF q = 1 THEN "live" ELSE "none") /\ Ents(s, q) = <<>>
      /\ \A e \in Entries : s.e[e].st = "none" /\ s.e[e].used = 0 /\ s.e[e].trk = 0
      /\ \A t \in Tracks : s.t[t].st = "none"
  BY StartedFields
<1> HIDE DEF s
<1>2. ~Contains(<<>>, 0) /\ \A e : ~Contains(<<>>, e)
  BY DEF Contains
<1>3. Counted(s, {}, 0)
  <2>1. ASSUME NEW e \in Entries
        PROVE  ShownBy(s, e, 0) = {} /\ PlayedBy(s, e) = {}
    BY <1>1, <1>2, <2>1 DEF ShownBy, PlayedBy, Active
  <2>2. Cardinality({}) = 0
    BY FS_EmptySet
  <2>3. ASSUME NEW e \in Entries
        PROVE  /\ s.e[e].used = Cardinality(ShownBy(s, e, 0)) + Cardinality(PlayedBy(s, e))
                                + (IF e \in {} THEN 1 ELSE 0)
               /\ s.e[e].st = "live" <=> s.e[e].used # 0
    <3> DEFINE a == Cardinality(ShownBy(s, e, 0))
               b == Cardinality(PlayedBy(s, e))
    <3>1. a = 0 /\ b = 0
      BY <2>1, <2>2
    <3> HIDE DEF a, b
    <3>2. s.e[e].st = "none" /\ s.e[e].used = 0
      BY <1>1
    <3>3. s.e[e].used = a + b + (IF e \in {} THEN 1 ELSE 0)
      BY <3>1, <3>2
    <3>4. s.e[e].st = "live" <=> s.e[e].used # 0
      BY <3>2
    <3> QED BY <3>3, <3>4 DEF a, b
  <2> QED BY <2>3 DEF Counted
<1>4. TracksOk(s)
  BY <1>1 DEF TracksOk, Active
<1>5. ListsOk(s)
  BY <1>1 DEF ListsOk, Once
<1>6. NamesOk(s)
  BY <1>1 DEF NamesOk
<1>7. OwnOk(s, {s.gd.filtered})
  BY <1>1, <1>2 DEF OwnOk
<1>8. FilterOk(s)
  BY <1>1 DEF FilterOk
<1> DEFINE l == <<1>>
<1>9. 1 \in Queues /\ 0 \notin Queues /\ l \in Seq(Queues) /\ Len(l) = 1 /\ l[1] = 1
  BY Bounds
<1> HIDE DEF l
<1>10. \A x : Contains(l, x) <=> x = 1
  BY <1>9 DEF Contains
<1>11. TabsOk(s)
  <2>1. Once(l)
    BY <1>9 DEF Once
  <2>2. Keep(l, Queues \ {0}) = l
    <3> DEFINE S == Queues \ {0}
    <3>1. \A x : Contains(l, x) => x \in S
      BY <1>9, <1>10
    <3> HIDE DEF S
    <3> QED BY <1>9, <3>1, KeepAll DEF S
  <2>3. s.qm.lists = l /\ s.gd.lists = l
    BY <1>1 DEF l
  <2>4. \A q \in Queues : Contains(l, q) <=> s.q[q].st = "live"
    BY <1>1, <1>10
  <2> QED BY <1>1, <1>9, <1>10, <2>1, <2>2, <2>3, <2>4 DEF TabsOk
<1>12. Home(s)
  BY <1>1 DEF Home
<1>13. DefaultOk(s)
  <2>1. s.qm.lists = l
    BY <1>1 DEF l
  <2> QED BY <1>1, <1>9, <2>1 DEF DefaultOk
<1>14. Loading(s)
  BY <1>1, <1>3, <1>4, <1>5, <1>6, <1>7, <1>8, <1>11, <1>12, <1>13 DEF Loading, Sound
<1>15. Cardinality(Free(s)) + Cardinality(Cells(d, 1, 0)) = MaxEntries
  <2>1. Free(s) = 1..MaxEntries
    BY <1>1 DEF Free, Entries
  <2>2. Cardinality(1..MaxEntries) = MaxEntries
    <3>1. MaxEntries \in Nat /\ 1 - 1 = 0
      BY Bounds
    <3> QED BY <3>1, FS_Interval
  <2>3. Cardinality(Cells(d, 1, 0)) = 0
    BY CellsEnds
  <2> QED BY <2>1, <2>2, <2>3, Bounds
<1>16. Len(s.gd.lists) = 1 /\ \A i \in 1..1 : s.gd.lists[i] = i
  <2>1. s.gd.lists = l
    BY <1>1 DEF l
  <2> QED BY <1>9, <2>1
<1>17. \A q \in Queues : /\ s.q[q].st = (IF q <= 1 THEN "live" ELSE "none")
                         /\ Len(Ents(s, q)) = (IF q < 1 THEN Len(d[q]) ELSE IF q = 1 THEN 0 ELSE 0)
  <2>1. ASSUME NEW q \in Queues
        PROVE  (q <= 1 <=> q = 1) /\ ~(q < 1)
    BY DEF Queues
  <2> QED BY <1>1, <2>1
<1>18. \A q \in Queues : \A i \in 1..Len(Ents(s, q)) : s.e[Ents(s, q)[i]].name = d[q][i]
  <2>1. \A q \in Queues : Len(Ents(s, q)) = 0
    BY <1>1
  <2> QED BY <2>1
<1> QED BY <1>14, <1>15, <1>16, <1>17, <1>18 DEF Loaded, s

LEMMA MadeLoads ==
  ASSUME NEW d, NEW k, NEW j, NEW x, Loaded(x, d, k, j), NEW v \in QueueIds
  PROVE  Loaded([x EXCEPT !.made = v], d, k, j) /\ [x EXCEPT !.made = v].made = v
<1> DEFINE u == [x EXCEPT !.made = v]
<1>1. x \in CoreState /\ Sound(x)
  BY DEF Loaded, Loading
<1>2. /\ u \in CoreState /\ u.made = v /\ u.qm = x.qm /\ u.q = x.q /\ u.e = x.e /\ u.t = x.t
      /\ u.gd = x.gd /\ u.ub = x.ub
  BY <1>1, CoreFields, CoreChanges
<1> HIDE DEF u
<1>3. Sound(u)
  <2>1. Refs(x, {}, 0) /\ Shape(x)
    BY <1>1, SoundParts
  <2>2. Refs(u, {}, 0)
    BY <1>2, <2>1, RefsFrame DEF Ents
  <2>3. Fewer(u, x)
    BY <1>2 DEF Fewer, SameTabs, Ents
  <2>4. Shape(u)
    BY <1>1, <1>2, <2>1, <2>3, ShapeFrame
  <2> QED BY <2>2, <2>4, SoundParts
<1>4. Loading(u)
  <2>1. Home(u) /\ DefaultOk(u)
    BY <1>2 DEF Loaded, Loading, Home, DefaultOk
  <2> QED BY <1>2, <1>3, <2>1 DEF Loaded, Loading
<1>5. \A q : Ents(u, q) = Ents(x, q)
  BY <1>2 DEF Ents
<1>6. Free(u) = Free(x)
  BY <1>2 DEF Free
<1> QED BY <1>2, <1>4, <1>5, <1>6 DEF Loaded, u

\* lists_load, after each of the files.
LEMMA ListsLoadLoads ==
  ASSUME disk \in Disks, Fits(disk)
  PROVE  LET u == ListsLoad(Started)
             n == FilesRead(disk)
         IN /\ Loading(u)
            /\ n > 0 => Loaded(u, disk, n, Len(disk[n]))
<1> DEFINE u == ListsLoad(Started)
           n == FilesRead(disk)
<1>1. n \in Nat /\ n \in 0..MaxQueues /\ \A i \in 1..n : disk[i] \in Seq(Names) /\ i \in Queues
  BY FilesReadIn, Bounds
<1>2. PICK f : /\ f[0] = Started
               /\ \A k \in 1..FilesRead(disk) : f[k] = LoadList(f[k - 1], k)
               /\ u = f[FilesRead(disk)]
  BY ListsUnfold
<1> HIDE DEF u
<1>3. Loaded(Started, disk, 1, 0)
  BY StartedLoads
<1> DEFINE S == { k \in 0..n : k > 0 => Loaded(f[k], disk, k, Len(disk[k])) }
<1>4. 0 \in S
  BY <1>1
<1>5. ASSUME NEW k \in 1..n, k - 1 \in S
      PROVE  k \in S
  <2> DEFINE z == f[k - 1]
             x == IF k = 1 THEN [z EXCEPT !.made = Default(z)] ELSE ListNew(z)
  <2>1. f[k] = QAddNames(x, x.made, disk[k])
    BY <1>2 DEF LoadList
  <2>2. Loaded(x, disk, k, 0) /\ x.made = k
    <3>1. CASE k = 1
      <4> DEFINE m == Default(Started)
      <4>1. z = Started
        BY <1>2, <3>1
      <4>2. x = [Started EXCEPT !.made = m]
        BY <3>1, <4>1
      <4>3. m = 1 /\ 1 \in QueueIds
        <5> DEFINE l == Started.qm.lists
                   i == Started.qm.selected
        <5>1. m = IF i < Len(l) THEN l[i + 1] ELSE 0
          BY DEF Default
        <5>2. l = <<1>> /\ i = 0
          BY StartedFields
        <5> HIDE DEF m, l, i
        <5> QED BY <5>1, <5>2, Bounds
      <4> HIDE DEF m, x
      <4> QED BY <1>3, <3>1, <4>2, <4>3, MadeLoads
    <3>2. CASE k # 1
      <4>1. x = ListNew(z)
        BY <3>2
      <4> DEFINE h == k - 1
      <4>2. h \in 1..n /\ h + 1 = k /\ h > 0
        BY <1>1, <3>2
      <4>3. Loaded(z, disk, h, Len(disk[h]))
        BY <1>5, <4>2
      <4> HIDE DEF x, z, h
      <4>4. Loaded(ListNew(z), disk, h + 1, 0) /\ ListNew(z).made = h + 1
        BY <4>2, <4>3, ListNewLoads
      <4> QED BY <4>1, <4>2, <4>4
    <3> QED BY <3>1, <3>2
  <2> HIDE DEF x, z
  <2>3. Loaded(f[k], disk, k, Len(disk[k]))
    BY <2>1, <2>2, NamesLoad
  <2>4. k \in 0..n
    BY <1>1
  <2> QED BY <2>3, <2>4
<1> HIDE DEF S
<1>6. 0..n \subseteq S
  BY <1>1, <1>4, <1>5, UpToInduction
<1>7. n > 0 => Loaded(u, disk, n, Len(disk[n]))
  BY <1>1, <1>2, <1>6 DEF S
<1>8. Loading(u)
  <2>1. CASE n = 0
    BY <1>2, <1>3, <2>1 DEF Loaded
  <2>2. CASE n > 0
    BY <1>7, <2>2 DEF Loaded
  <2> QED BY <1>1, <2>1, <2>2
<1> QED BY <1>7, <1>8 DEF u

\* What is loaded is what is in the files.
LEMMA ContentsLoaded ==
  ASSUME disk \in Disks, Fits(disk), FilesRead(disk) > 0
  PROVE  LET u == ListsLoad(Started)
         IN /\ Len(Contents(u)) = FilesRead(disk)
            /\ DOMAIN Contents(u) = 1..FilesRead(disk)
            /\ \A i \in 1..FilesRead(disk) : Contents(u)[i] = disk[i]
<1> DEFINE u == ListsLoad(Started)
           n == FilesRead(disk)
<1>1. n \in Nat /\ n \in 0..MaxQueues /\ \A i \in 1..n : disk[i] \in Seq(Names) /\ i \in Queues
  BY FilesReadIn, Bounds
<1>2. Loaded(u, disk, n, Len(disk[n])) /\ Loading(u)
  BY ListsLoadLoads
<1> HIDE DEF u, n
<1>3. PlaybackLists(u) = u.gd.lists
  <2> DEFINE l == u.gd.lists
             S == Queues \ {u.gd.convert}
  <2>1. u.gd.convert = 0 /\ l \in Seq(Queues)
    BY <1>2, GdFields DEF Loading
  <2>2. \A x : Contains(l, x) => x \in S
    BY <2>1, Bounds DEF Contains
  <2> HIDE DEF l, S
  <2>3. Keep(l, S) = l
    BY <2>1, <2>2, KeepAll
  <2> QED BY <2>3 DEF PlaybackLists, l, S
<1>4. Len(u.gd.lists) = n /\ \A i \in 1..n : u.gd.lists[i] = i
  BY <1>2 DEF Loaded
<1> DEFINE NamesAt(i) == [j \in 1..Len(Ents(u, PlaybackLists(u)[i])) |-> u.e[Ents(u, PlaybackLists(u)[i])[j]].name]
           c == [i \in 1..Len(PlaybackLists(u)) |-> NamesAt(i)]
<1>5. Contents(u) = c
  BY DEF Contents
<1>6. ASSUME NEW i \in 1..n
      PROVE  NamesAt(i) = disk[i]
  <2>1. PlaybackLists(u)[i] = i /\ i \in Queues /\ i \in Nat /\ i <= n
    BY <1>1, <1>3, <1>4
  <2>2. Len(Ents(u, i)) = Len(disk[i])
    BY <1>1, <1>2, <2>1 DEF Loaded
  <2>3. \A j \in 1..Len(Ents(u, i)) : u.e[Ents(u, i)[j]].name = disk[i][j]
    BY <1>2, <2>1 DEF Loaded
  <2> DEFINE a == disk[i]
             m == Len(a)
             b == [j \in 1..m |-> u.e[Ents(u, i)[j]].name]
  <2>4. NamesAt(i) = b
    BY <2>1, <2>2
  <2>5. a \in Seq(Names) /\ m \in Nat /\ \A j \in 1..m : b[j] = a[j]
    BY <1>1, <2>2, <2>3
  <2>6. DOMAIN b = 1..m /\ b = [j \in 1..m |-> b[j]]
    OBVIOUS
  <2> HIDE DEF b, a
  <2>7. a = [j \in 1..m |-> a[j]]
    BY <2>5
  <2>8. a = b
    BY <2>5, <2>6, <2>7
  <2> QED BY <2>4, <2>8 DEF a
<1> HIDE DEF NamesAt
<1>7. DOMAIN c = 1..n /\ Len(c) = n /\ \A i \in 1..n : c[i] = NamesAt(i)
  BY <1>1, <1>3, <1>4
<1> HIDE DEF c
<1> QED BY <1>5, <1>6, <1>7 DEF u, n

\* A list without a duplicate is no longer than the set of its elements.
LEMMA OnceLength ==
  ASSUME NEW n \in Nat, NEW l \in Seq(1..n), Once(l)
  PROVE  Len(l) <= n
<1> DEFINE m == Len(l)
           S == 1..m
           T == 1..n
<1>1. m \in Nat /\ l \in [S -> T]
  OBVIOUS
<1>2. IsFiniteSet(T) /\ Cardinality(T) = n /\ IsFiniteSet(S) /\ Cardinality(S) = m
  <2>1. n \in Int /\ m \in Int /\ 1 \in Int
    BY <1>1
  <2>2. IsFiniteSet(1..n) /\ Cardinality(1..n) = IF 1 > n THEN 0 ELSE n - 1 + 1
    BY <2>1, FS_Interval
  <2>3. IsFiniteSet(1..m) /\ Cardinality(1..m) = IF 1 > m THEN 0 ELSE m - 1 + 1
    BY <1>1, <2>1, FS_Interval
  <2> QED BY <1>1, <2>2, <2>3
<1>3. \A i, j \in S : l[i] = l[j] => i = j
  BY DEF Once
<1> HIDE DEF S, T, m
<1>4. l \in Injection(S, T)
  BY <1>1, <1>3 DEF Injection, IsInjective
<1>5. Cardinality(S) <= Cardinality(T)
  BY <1>2, <1>4, FS_Injection
<1> QED BY <1>2, <1>5 DEF m

\* The lists that are saved.
LEMMA PlaybackOnce ==
  ASSUME NEW s \in CoreState, Sound(s)
  PROVE  /\ PlaybackLists(s) \in Seq(Queues) /\ Once(PlaybackLists(s))
         /\ PlaybackLists(s) # <<>> /\ Len(PlaybackLists(s)) <= MaxQueues
         /\ \A q : Contains(PlaybackLists(s), q) =>
              q \in Queues /\ q # s.gd.filtered /\ s.q[q].st = "live"
<1> DEFINE g == s.gd.lists
           S == Queues \ {s.gd.convert}
           l == Keep(g, S)
<1>1. g \in Seq(Queues) /\ s.qm.lists \in Seq(Queues)
  BY GdFields
<1>2. TabsOk(s)
  BY DEF Sound
<1>3. Once(g)
  <2> DEFINE F == Queues \ {s.gd.filtered}
             r == s.qm.lists
  <2>1. g = Keep(r, F) /\ Once(r) /\ r \in Seq(Queues)
    BY <1>1, <1>2 DEF TabsOk
  <2> HIDE DEF g, F, r
  <2> QED BY <2>1, KeepOnce
<1>4. PlaybackLists(s) = l
  BY DEF PlaybackLists
<1>5. \E q \in Queues : Contains(g, q) /\ q # s.gd.convert
  BY <1>2 DEF TabsOk
<1>6. \E q : Contains(g, q) /\ q \in S
  BY <1>5
<1>7. \A q : Contains(g, q) => q \in Queues /\ s.q[q].st = "live" /\ q # s.gd.filtered
  BY <1>2, TabLive
<1> HIDE DEF g, S
<1>8. l \in Seq(Queues) /\ \A x : Contains(l, x) <=> Contains(g, x) /\ x \in S
  BY <1>1, KeepElements DEF g
<1>9. Once(l)
  BY <1>1, <1>3, KeepOnce DEF g
<1> HIDE DEF l
<1>10. l # <<>>
  <2>1. \A x : ~Contains(<<>>, x)
    BY DEF Contains
  <2> QED BY <1>6, <1>8, <2>1
<1>11. Len(l) <= MaxQueues
  BY <1>8, <1>9, OnceLength, Bounds DEF Queues
<1> QED BY <1>4, <1>7, <1>8, <1>9, <1>10, <1>11

\* The names in the lists.
NamesIn(s, q) == [j \in 1..Len(Ents(s, q)) |-> s.e[Ents(s, q)[j]].name]

LEMMA ContentsFields ==
  ASSUME NEW s \in CoreState, Sound(s)
  PROVE  /\ Contents(s) \in Seq(Seq(Names)) /\ Len(Contents(s)) = Len(PlaybackLists(s))
         /\ \A i \in 1..Len(PlaybackLists(s)) : Contents(s)[i] = NamesIn(s, PlaybackLists(s)[i])
         /\ \A q \in Queues : NamesIn(s, q) \in Seq(Names) /\ Len(NamesIn(s, q)) = Len(Ents(s, q))
                              /\ Len(Ents(s, q)) <= MaxEntries
<1> DEFINE l == PlaybackLists(s)
           c == [i \in 1..Len(l) |-> NamesIn(s, l[i])]
<1>1. l \in Seq(Queues)
  BY PlaybackOnce
<1>2. Contents(s) = c
  BY DEF Contents, NamesIn
<1>3. ASSUME NEW q \in Queues
      PROVE  NamesIn(s, q) \in Seq(Names) /\ Len(NamesIn(s, q)) = Len(Ents(s, q))
             /\ Len(Ents(s, q)) <= MaxEntries
  <2> DEFINE m == Ents(s, q)
             b == [j \in 1..Len(m) |-> s.e[m[j]].name]
  <2>1. m \in Seq(Entries) /\ Once(m) /\ Refs(s, {}, 0)
    BY Listed, SoundParts DEF Refs, ListsOk
  <2>2. ASSUME NEW j \in 1..Len(m)
        PROVE  s.e[m[j]].name \in Names
    <3>1. Contains(m, m[j]) /\ m[j] \in Entries
      BY <2>1 DEF Contains
    <3>2. s.e[m[j]].st = "live"
      BY <2>1, <3>1, ListedLive
    <3> QED BY <2>1, <3>1, <3>2, States DEF Refs, NamesOk
  <2>3. NamesIn(s, q) = b
    BY DEF NamesIn
  <2>4. Len(m) <= MaxEntries
    <3> HIDE DEF m
    <3> QED BY <2>1, OnceLength, Bounds DEF Entries
  <2>5. b \in Seq(Names) /\ Len(b) = Len(m)
    <3> HIDE DEF m
    <3>1. Len(m) \in Nat
      BY <2>1
    <3> QED BY <2>2, <3>1
  <2> QED BY <2>3, <2>4, <2>5
<1>4. \A i \in 1..Len(l) : NamesIn(s, l[i]) \in Seq(Names)
  BY <1>1, <1>3
<1> HIDE DEF l
<1>5. c \in Seq(Seq(Names)) /\ Len(c) = Len(l) /\ \A i \in 1..Len(l) : c[i] = NamesIn(s, l[i])
  <2>1. Len(l) \in Nat
    BY <1>1
  <2> QED BY <1>4, <2>1
<1> HIDE DEF c
<1> QED BY <1>2, <1>3, <1>5 DEF l

\* There is an entry for each name in the saved lists.
LEMMA SavedCells ==
  ASSUME NEW s \in CoreState, Sound(s),
         NEW C, C = { p \in Queues \X Entries : /\ p[1] <= Len(PlaybackLists(s))
                                                /\ p[2] <= Len(Ents(s, PlaybackLists(s)[p[1]])) }
  PROVE  Cardinality(C) <= MaxEntries
<1> DEFINE l == PlaybackLists(s)
           f == [p \in C |-> Ents(s, l[p[1]])[p[2]]]
<1>1. /\ l \in Seq(Queues) /\ Once(l)
      /\ \A q : Contains(l, q) => q \in Queues /\ q # s.gd.filtered /\ s.q[q].st = "live"
  BY PlaybackOnce
<1> HIDE DEF l
<1>2. ASSUME NEW p \in C
      PROVE  /\ p[1] \in 1..Len(l) /\ l[p[1]] \in Queues
             /\ p[2] \in 1..Len(Ents(s, l[p[1]]))
             /\ f[p] \in Entries /\ s.e[f[p]].q = l[p[1]]
             /\ p \in Queues \X Entries
  <2>1. p \in Queues \X Entries /\ p[1] <= Len(l) /\ p[2] <= Len(Ents(s, l[p[1]]))
    BY DEF l
  <2>2. p[1] \in 1..Len(l) /\ p[2] \in Nat /\ p[2] >= 1
    <3>1. p[1] \in 1..MaxQueues /\ p[2] \in 1..MaxEntries
      BY <2>1 DEF Queues, Entries
    <3>2. Len(l) \in Nat /\ MaxQueues \in Nat /\ MaxEntries \in Nat
      BY <1>1, Bounds
    <3> QED BY <2>1, <3>1, <3>2
  <2>3. l[p[1]] \in Queues /\ Contains(l, l[p[1]])
    BY <1>1, <2>2 DEF Contains
  <2> DEFINE q == l[p[1]]
             m == Ents(s, q)
  <2>4. m \in Seq(Entries) /\ q # s.gd.filtered
    BY <1>1, <2>3, Listed
  <2>5. p[2] \in 1..Len(m)
    BY <2>1, <2>2, <2>4
  <2>6. f[p] = m[p[2]]
    OBVIOUS
  <2>7. m[p[2]] \in Entries /\ Contains(m, m[p[2]])
    <3> HIDE DEF m
    <3> QED BY <2>4, <2>5 DEF Contains
  <2>8. OwnOk(s, {s.gd.filtered})
    BY DEF Sound
  <2>9. s.e[m[p[2]]].q = q
    BY <2>3, <2>4, <2>7, <2>8 DEF OwnOk
  <2> QED BY <2>1, <2>2, <2>3, <2>5, <2>6, <2>7, <2>9
<1>3. f \in [C -> Entries]
  BY <1>2
<1>4. ASSUME NEW a \in C, NEW b \in C, f[a] = f[b]
      PROVE  a = b
  <2>1. l[a[1]] = l[b[1]]
    BY <1>2, <1>4
  <2>2. a[1] = b[1]
    BY <1>1, <1>2, <2>1 DEF Once
  <2> DEFINE m == Ents(s, l[a[1]])
  <2>3. Once(m)
    BY <1>2 DEF Sound, ListsOk
  <2>4. f[a] = m[a[2]] /\ f[b] = m[b[2]]
    BY <2>2
  <2>5. a[2] \in 1..Len(m) /\ b[2] \in 1..Len(m)
    BY <1>2, <2>2
  <2> HIDE DEF f, m
  <2>6. a[2] = b[2]
    BY <1>4, <2>3, <2>4, <2>5 DEF Once
  <2>7. a = <<a[1], a[2]>> /\ b = <<b[1], b[2]>>
    BY <1>2
  <2> QED BY <2>2, <2>6, <2>7
<1> HIDE DEF f
<1>5. f \in Injection(C, Entries)
  BY <1>3, <1>4 DEF Injection, IsInjective
<1>6. IsFiniteSet(Entries) /\ Cardinality(Entries) = MaxEntries
  <2>1. MaxEntries \in Nat /\ MaxEntries \in Int /\ 1 \in Int
    BY Bounds
  <2>2. IsFiniteSet(1..MaxEntries) /\ Cardinality(1..MaxEntries) = IF 1 > MaxEntries THEN 0 ELSE MaxEntries - 1 + 1
    BY <2>1, FS_Interval
  <2> QED BY <2>1, <2>2 DEF Entries
<1> QED BY <1>5, <1>6, FS_Injection

\* lists_save leaves files that give the saved lists again.
LEMMA ListsSaved ==
  ASSUME NEW s \in CoreState, Sound(s), disk \in Disks
  PROVE  LET d == ListsSave(s)
             c == Contents(s)
         IN /\ d \in Disks /\ Fits(d) /\ c \in Seq(Seq(Names)) /\ c # <<>>
            /\ FilesRead(d) = Len(c) /\ \A i \in 1..Len(c) : d[i] = c[i]
<1> DEFINE c == Contents(s)
           l == PlaybackLists(s)
           n == Len(c)
           d == [i \in DOMAIN disk |->
                   IF i <= n THEN c[i] ELSE IF i = n + 1 THEN NoFile ELSE disk[i]]
<1>1. /\ c \in Seq(Seq(Names)) /\ n = Len(l) /\ \A i \in 1..n : c[i] = NamesIn(s, l[i])
      /\ \A q \in Queues : Len(NamesIn(s, q)) = Len(Ents(s, q)) /\ Len(Ents(s, q)) <= MaxEntries
  BY ContentsFields
<1>2. l \in Seq(Queues) /\ l # <<>> /\ Len(l) <= MaxQueues
  BY PlaybackOnce
<1>3. ListsSave(s) = d
  BY DEF ListsSave
<1> HIDE DEF c, l
<1>4. n \in Nat /\ n <= MaxQueues /\ n > 0 /\ MaxQueues \in Nat
  BY <1>1, <1>2, Bounds
<1>5. DOMAIN disk = Queues /\ Queues = 1..MaxQueues
  BY DEF Disks, Queues
<1>6. d \in Disks /\ \A i \in 1..n : d[i] = c[i] /\ d[i] \in Seq(Names) /\ i \in Queues
  <2> DEFINE D == Seq(Names) \union {NoFile}
  <2>1. ASSUME NEW i \in Queues
        PROVE  (IF i <= n THEN c[i] ELSE IF i = n + 1 THEN NoFile ELSE disk[i]) \in D
    <3>1. i \in Nat /\ i >= 1
      BY <1>5
    <3>2. i <= n => c[i] \in Seq(Names)
      BY <1>1, <1>4, <3>1
    <3>3. disk[i] \in D
      BY DEF Disks
    <3> QED BY <3>2, <3>3
  <2>2. d \in [Queues -> D]
    BY <1>5, <2>1
  <2>3. \A i \in 1..n : d[i] = c[i] /\ d[i] \in Seq(Names) /\ i \in Queues
    BY <1>1, <1>4, <1>5
  <2> HIDE DEF d
  <2> QED BY <2>2, <2>3 DEF Disks
<1>7. n < MaxQueues => d[n + 1] = NoFile
  BY <1>4, <1>5
<1> HIDE DEF d
<1>8. ReadFrom(d, n)
  BY <1>4, <1>6, <1>7, NotAFile DEF ReadFrom
<1>9. FilesRead(d) = n
  BY <1>8, FilesReadIs
<1>10. \A i \in 1..n : l[i] \in Queues /\ Len(d[i]) = Len(Ents(s, l[i]))
  BY <1>1, <1>2, <1>6
<1>11. \A i \in 1..n : Len(d[i]) <= MaxEntries
  BY <1>1, <1>10
<1>12. Cardinality({ p \in Queues \X Entries : p[1] <= n /\ p[2] <= Len(d[p[1]]) }) <= MaxEntries
  <2> DEFINE A == { p \in Queues \X Entries : p[1] <= n /\ p[2] <= Len(d[p[1]]) }
             C == { p \in Queues \X Entries : /\ p[1] <= Len(PlaybackLists(s))
                                              /\ p[2] <= Len(Ents(s, PlaybackLists(s)[p[1]])) }
  <2>1. ASSUME NEW p \in Queues \X Entries
        PROVE  (p[1] <= n /\ p[2] <= Len(d[p[1]])) <=> (p[1] <= Len(l) /\ p[2] <= Len(Ents(s, l[p[1]])))
    <3>1. p[1] \in 1..MaxQueues
      BY <1>5
    <3>2. p[1] <= n => Len(d[p[1]]) = Len(Ents(s, l[p[1]]))
      BY <1>4, <1>10, <3>1
    <3> QED BY <1>1, <3>2
  <2>2. A = C
    BY <2>1 DEF l
  <2>3. Cardinality(C) <= MaxEntries
    <3> HIDE DEF C
    <3>1. C = { p \in Queues \X Entries : /\ p[1] <= Len(PlaybackLists(s))
                                          /\ p[2] <= Len(Ents(s, PlaybackLists(s)[p[1]])) }
      BY DEF C
    <3> QED BY <3>1, SavedCells
  <2> QED BY <2>2, <2>3
<1>13. Fits(d)
  BY <1>9, <1>11, <1>12 DEF Fits
<1>14. c # <<>>
  BY <1>4
<1> QED BY <1>1, <1>3, <1>6, <1>9, <1>13, <1>14 DEF c

-----------------------------------------------------------------------------
(* The invariant.                                                          *)

LEMMA InitInv ==
  GuiInit => GuiInv
<1> SUFFICES ASSUME GuiInit PROVE GuiInv
  OBVIOUS
<1>1. disk \in Disks /\ Fits(disk)
  <2>1. PICK l \in Saved : disk = Files(l)
    BY DEF GuiInit
  <2> DEFINE D == Seq(Names) \union {NoFile}
  <2>2. l \in Seq(D) /\ Fits(Files(l))
    BY GuiAssumption
  <2>3. \A i \in Queues : i <= Len(l) => l[i] \in D
    <3> HIDE DEF D
    <3>1. Len(l) \in Nat /\ \A i \in 1..Len(l) : l[i] \in D
      BY <2>2
    <3> QED BY <3>1 DEF Queues
  <2>4. Files(l) \in [Queues -> D]
    BY <2>3 DEF Files
  <2> QED BY <2>1, <2>2, <2>4 DEF Disks
<1>2. core = ListsLoad(Started)
  BY DEF GuiInit
<1>3. Loading(core)
  BY <1>1, <1>2, ListsLoadLoads
<1>4. cmds = <<>> /\ cmds \in Seq(Commands)
  BY DEF GuiInit
<1>5. ses \in SesRec /\ ~ses.saved /\ ~ses.fresh /\ ses.phase = "up"
  <2>1. <<>> \in Seq(Seq(Names)) /\ {} \in SUBSET Entries /\ {} \in SUBSET (0..MaxEntries)
    OBVIOUS
  <2> QED BY <2>1 DEF GuiInit, SesRec
<1>6. GuiTypes
  BY <1>1, <1>3, <1>4, <1>5 DEF GuiTypes, Loading, Disks
<1>7. CalmInv
  <2>1. Len(cmds) = 0
    BY <1>4
  <2> QED BY <1>3, <1>5, <2>1 DEF CalmInv, Loading
<1>8. SavedInv
  BY <1>5 DEF SavedInv
<1> QED BY <1>3, <1>6, <1>7, <1>8 DEF GuiInv, Loading

\* A session's record.
LEMMA SessionFields ==
  ASSUME NEW r \in SesRec
  PROVE  /\ r.phase \in {"up", "quits", "down"} /\ r.posts \in Nat /\ r.restarts \in Nat
         /\ r.fresh \in BOOLEAN /\ r.saved \in BOOLEAN /\ r.goal \in Seq(Seq(Names))
         /\ r.calm \in BOOLEAN
         /\ \A n \in Nat, a, b \in BOOLEAN :
              [r EXCEPT !.posts = n, !.fresh = a, !.calm = b] \in SesRec
         /\ \A n \in Nat : [r EXCEPT !.phase = "quits", !.posts = n, !.fresh = FALSE] \in SesRec
         /\ [r EXCEPT !.phase = "down"] \in SesRec
         /\ \A n \in Nat, a \in BOOLEAN :
              [r EXCEPT !.phase = "up", !.restarts = n, !.fresh = a, !.saved = FALSE] \in SesRec
         /\ \A g \in Seq(Seq(Names)), a, b \in BOOLEAN, m \in SUBSET Entries, t \in SUBSET (0..MaxEntries) :
              [r EXCEPT !.goal = g, !.saved = a, !.calm = b, !.meant = m, !.trashed = t] \in SesRec
<1> DEFINE G == Seq(Seq(Names))
           M == SUBSET Entries
           T == SUBSET (0..MaxEntries)
<1> HIDE DEF G, M, T
<1> USE DEF SesRec
<1>1. r \in [phase : {"up", "quits", "down"}, posts : Nat, restarts : Nat, fresh : BOOLEAN,
             saved : BOOLEAN, goal : G, calm : BOOLEAN, meant : M, trashed : T]
  BY DEF G, M, T
<1>2. /\ r.phase \in {"up", "quits", "down"} /\ r.posts \in Nat /\ r.restarts \in Nat
      /\ r.fresh \in BOOLEAN /\ r.saved \in BOOLEAN /\ r.goal \in G /\ r.calm \in BOOLEAN
  BY <1>1
<1>3. \A n \in Nat, a, b \in BOOLEAN :
        [r EXCEPT !.posts = n, !.fresh = a, !.calm = b] \in SesRec
  BY <1>1 DEF G, M, T
<1>4. \A n \in Nat : [r EXCEPT !.phase = "quits", !.posts = n, !.fresh = FALSE] \in SesRec
  BY <1>1 DEF G, M, T
<1>5. [r EXCEPT !.phase = "down"] \in SesRec
  BY <1>1 DEF G, M, T
<1>6. \A n \in Nat, a \in BOOLEAN :
        [r EXCEPT !.phase = "up", !.restarts = n, !.fresh = a, !.saved = FALSE] \in SesRec
  BY <1>1 DEF G, M, T
<1>7. \A g \in G, a, b \in BOOLEAN, m \in M, t \in T :
        [r EXCEPT !.goal = g, !.saved = a, !.calm = b, !.meant = m, !.trashed = t] \in SesRec
  BY <1>1 DEF G, M, T
<1> QED BY <1>2, <1>3, <1>4, <1>5, <1>6, <1>7 DEF G, M, T

\* A command that was true of the rows when it was given.
LEMMA PostKeeps ==
  ASSUME GuiInv, NEW f, NEW arg, NEW what, Post(f, arg, what),
         [f |-> f, arg |-> arg, what |-> what] \in Commands,
         Fitting(core, [f |-> f, arg |-> arg, what |-> what])
  PROVE  GuiInv'
<1> DEFINE c == [f |-> f, arg |-> arg, what |-> what]
<1>1. c \in Commands /\ Fitting(core, c)
  OBVIOUS
<1>2. /\ ses.phase = "up" /\ cmds' = Append(cmds, c)
      /\ ses' = [ses EXCEPT !.posts = ses.posts + 1, !.fresh = FALSE, !.calm = ses.calm /\ cmds = <<>>]
      /\ core' = core /\ disk' = disk
  BY DEF Post
<1> HIDE DEF c
<1>3. core \in CoreState /\ cmds \in Seq(Commands) /\ ses \in SesRec
      /\ disk \in [Queues -> Seq(Names) \union {NoFile}] /\ Fits(disk)
  BY DEF GuiInv, GuiTypes
<1>4. ses' \in SesRec
  <2> DEFINE n == ses.posts + 1
             b == ses.calm /\ cmds = <<>>
  <2>1. n \in Nat /\ b \in BOOLEAN /\ FALSE \in BOOLEAN
    <3>1. n \in Nat
      BY <1>3 DEF SesRec
    <3>2. b \in BOOLEAN /\ FALSE \in BOOLEAN
      BY Zenon
    <3> QED BY <3>1, <3>2
  <2>2. ses' = [ses EXCEPT !.posts = n, !.fresh = FALSE, !.calm = b]
    BY <1>2
  <2> HIDE DEF n, b
  <2> QED BY <1>3, <2>1, <2>2, SessionFields
<1>5. /\ ses'.phase = ses.phase /\ ses'.saved = ses.saved /\ ses'.goal = ses.goal
      /\ ses'.fresh = FALSE /\ (ses'.calm <=> ses.calm /\ cmds = <<>>)
  BY <1>2, <1>3 DEF SesRec
<1>6. cmds' \in Seq(Commands)
  BY <1>1, <1>2, <1>3
<1>7. GuiTypes'
  BY <1>2, <1>3, <1>4, <1>6 DEF GuiTypes
<1>8. CalmInv'
  <2> SUFFICES ASSUME ses'.calm
               PROVE  /\ core'.ub = "none" /\ Home(core') /\ DefaultOk(core')
                      /\ Len(cmds') <= (IF ses'.phase = "up" THEN 1 ELSE 2)
                      /\ Len(cmds') >= 1 => Fitting(core', cmds'[1])
                      /\ Len(cmds') = 2 => cmds'[2].f = "save"
    BY DEF CalmInv
  <2>1. Len(cmds') = 1 /\ cmds'[1] = c
    BY <1>2, <1>5
  <2> QED BY <1>1, <1>2, <1>5, <2>1 DEF GuiInv, CalmInv
<1>9. SavedInv'
  BY <1>2, <1>5 DEF GuiInv, SavedInv
<1>10. core'.ub = "none" => Sound(core')
  BY <1>2 DEF GuiInv
<1> QED BY <1>7, <1>8, <1>9, <1>10 DEF GuiInv

\* At most two elements.
LEMMA TwoAtMost ==
  ASSUME NEW r \in SUBSET Nat, IsFiniteSet(r), Cardinality(r) <= 2
  PROVE  r \in AtMostTwo
<1>1. ASSUME NEW A, IsFiniteSet(A), NEW a \in A
      PROVE  IsFiniteSet(A \ {a}) /\ Cardinality(A \ {a}) = Cardinality(A) - 1
             /\ Cardinality(A) \in Nat
  <2>1. IsFiniteSet(A \ {a})
    BY <1>1, FS_RemoveElement
  <2>2. Cardinality(A \ {a}) = Cardinality(A) - 1
    BY <1>1, FS_RemoveElement
  <2>3. Cardinality(A) \in Nat
    BY <1>1, FS_CardinalityType
  <2> QED BY <2>1, <2>2, <2>3
<1>2. CASE r = {}
  BY <1>2 DEF AtMostTwo
<1>3. CASE r # {}
  <2>1. PICK a \in r : TRUE
    BY <1>3
  <2> DEFINE A == r \ {a}
  <2>2. IsFiniteSet(A) /\ Cardinality(A) = Cardinality(r) - 1 /\ Cardinality(r) \in Nat
    BY <1>1, <2>1
  <2>3. CASE A = {}
    <3>1. r \subseteq {a, a}
      BY <2>3
    <3> QED BY <2>1, <3>1 DEF AtMostTwo
  <2>4. CASE A # {}
    <3>1. PICK b \in A : TRUE
      BY <2>4
    <3> DEFINE B == A \ {b}
    <3> HIDE DEF A
    <3>2. IsFiniteSet(B) /\ Cardinality(B) = Cardinality(A) - 1 /\ Cardinality(A) \in Nat
      BY <1>1, <2>2, <3>1
    <3> HIDE DEF B
    <3>3. Cardinality(B) \in Nat
      BY <3>2, FS_CardinalityType
    <3>4. Cardinality(B) = 0
      BY <2>2, <3>2, <3>3
    <3>5. B = {}
      BY <3>2, <3>4, CardNone
    <3>6. r \subseteq {a, b} /\ b \in Nat
      BY <3>1, <3>5 DEF A, B
    <3> QED BY <2>1, <3>6 DEF AtMostTwo
  <2> QED BY <2>3, <2>4
<1> QED BY <1>2, <1>3

\* The commands of the users.
LEMMA PlainCommand ==
  ASSUME NEW f \in PlainFs
  PROVE  [f |-> f, arg |-> 0, what |-> {}] \in Commands
BY DEF Commands

LEMMA NumberCommand ==
  ASSUME NEW f \in {"select", "play"}, NEW i \in Nat, NEW w \in SUBSET Entries
  PROVE  [f |-> f, arg |-> i, what |-> w] \in Commands
BY DEF Commands

LEMMA TextCommand ==
  ASSUME NEW t \in Texts
  PROVE  [f |-> "filter", arg |-> t, what |-> {}] \in Commands
BY DEF Commands

LEMMA NameCommand ==
  ASSUME NEW n \in Names
  PROVE  [f |-> "add", arg |-> n, what |-> {}] \in Commands
BY DEF Commands

LEMMA RowsCommand ==
  ASSUME NEW f \in RowFs, NEW r \in AtMostTwo, NEW w \in SUBSET Entries
  PROVE  [f |-> f, arg |-> r, what |-> w] \in Commands
BY DEF Commands

\* The rows that are shown.
LEMMA RowsShown ==
  ASSUME core \in CoreState
  PROVE  /\ \A i \in 1..Len(Visible) : {Visible[i]} \in SUBSET Entries /\ i \in Nat
         /\ \A r \in Rows : /\ r \in AtMostTwo /\ r \subseteq 1..Len(Ents(core, ListIdVisible(core)))
                            /\ { Visible[i] : i \in r } \in SUBSET Entries
<1> DEFINE l == Visible
<1>1. l \in Seq(Entries) /\ l = Ents(core, ListIdVisible(core))
  BY VisibleListed, Listed DEF Visible
<1> HIDE DEF l
<1>2. Len(l) \in Nat /\ \A i \in 1..Len(l) : l[i] \in Entries
  BY <1>1
<1>3. ASSUME NEW r \in Rows
      PROVE  /\ r \in AtMostTwo /\ r \subseteq 1..Len(l) /\ { l[i] : i \in r } \in SUBSET Entries
  <2>1. r \subseteq 1..Len(l) /\ Cardinality(r) <= 2
    BY DEF Rows, l
  <2>2. IsFiniteSet(1..Len(l))
    BY <1>2, FS_Interval
  <2>3. IsFiniteSet(r)
    BY <2>1, <2>2, FS_Subset
  <2>4. r \in SUBSET Nat
    BY <1>2, <2>1
  <2>5. r \in AtMostTwo
    BY <2>1, <2>3, <2>4, TwoAtMost
  <2> QED BY <1>2, <2>1, <2>5
<1> QED BY <1>1, <1>2, <1>3 DEF l

LEMMA PostsKeep ==
  ASSUME GuiInv, PostPlain \/ PostTab \/ PostText \/ PostName \/ PostPlay \/ PostRows
  PROVE  GuiInv'
<1>1. core \in CoreState
  BY DEF GuiInv, GuiTypes
<1>2. CASE PostPlain
  <2>1. PICK f \in {"new", "close", "clear", "sort", "unfilter", "stop", "next"} : Post(f, 0, {})
    BY <1>2 DEF PostPlain
  <2>2. f \in PlainFs /\ f # "select" /\ f \notin RowFs
    BY DEF PlainFs, RowFs
  <2> DEFINE c == [f |-> f, arg |-> 0, what |-> {}]
  <2>3. c.f = f
    OBVIOUS
  <2>4. c \in Commands
    BY <2>2, PlainCommand
  <2>5. Fitting(core, c)
    <3> HIDE DEF c
    <3> QED BY <2>2, <2>3 DEF Fitting
  <2> QED BY <2>1, <2>4, <2>5, PostKeeps
<1>3. CASE PostTab
  <2>1. PICK i \in 1..Len(core.gd.lists) : Post("select", i, {})
    BY <1>3 DEF PostTab
  <2> DEFINE c == [f |-> "select", arg |-> i, what |-> {}]
  <2>2. i \in Nat /\ {} \in SUBSET Entries
    BY <1>1, GdFields
  <2>3. c \in Commands
    BY <2>2, NumberCommand
  <2>4. Fitting(core, c)
    <3>1. c.f = "select" /\ c.arg = i /\ "select" \notin RowFs
      BY DEF RowFs
    <3> HIDE DEF c
    <3> QED BY <3>1 DEF Fitting
  <2> QED BY <2>1, <2>3, <2>4, PostKeeps
<1>4. CASE PostText
  <2>1. PICK t \in Texts : Post("filter", t, {})
    BY <1>4 DEF PostText
  <2> DEFINE c == [f |-> "filter", arg |-> t, what |-> {}]
  <2>2. c \in Commands
    BY TextCommand
  <2>3. Fitting(core, c)
    <3>1. c.f = "filter" /\ "filter" \notin RowFs
      BY DEF RowFs
    <3> HIDE DEF c
    <3> QED BY <3>1 DEF Fitting
  <2> QED BY <2>1, <2>2, <2>3, PostKeeps
<1>5. CASE PostName
  <2>1. PICK n \in Names : Post("add", n, {})
    BY <1>5 DEF PostName
  <2> DEFINE c == [f |-> "add", arg |-> n, what |-> {}]
  <2>2. c \in Commands
    BY NameCommand
  <2>3. Fitting(core, c)
    <3>1. c.f = "add" /\ "add" \notin RowFs
      BY DEF RowFs
    <3> HIDE DEF c
    <3> QED BY <3>1 DEF Fitting
  <2> QED BY <2>1, <2>2, <2>3, PostKeeps
<1>6. CASE PostPlay
  <2>1. PICK i \in 1..Len(Visible) : Post("play", i, {Visible[i]})
    BY <1>6 DEF PostPlay
  <2> DEFINE w == {Visible[i]}
             c == [f |-> "play", arg |-> i, what |-> w]
  <2>2. i \in Nat /\ w \in SUBSET Entries
    BY <1>1, RowsShown
  <2>3. Post("play", i, w)
    BY <2>1
  <2> HIDE DEF w
  <2>4. c \in Commands
    BY <2>2, NumberCommand
  <2>5. Fitting(core, c)
    <3>1. c.f = "play" /\ "play" \notin RowFs
      BY DEF RowFs
    <3> HIDE DEF c
    <3> QED BY <3>1 DEF Fitting
  <2> QED BY <2>3, <2>4, <2>5, PostKeeps
<1>7. CASE PostRows
  <2>1. PICK r \in Rows, f \in {"remove", "del", "next_list", "convert"} :
          Post(f, r, { Visible[i] : i \in r })
    BY <1>7 DEF PostRows
  <2> DEFINE w == { Visible[i] : i \in r }
             c == [f |-> f, arg |-> r, what |-> w]
  <2>2. /\ r \in AtMostTwo /\ r \subseteq 1..Len(Ents(core, ListIdVisible(core)))
        /\ w \in SUBSET Entries
    BY <1>1, RowsShown
  <2>3. Post(f, r, w) /\ f \in RowFs /\ f # "select"
    BY <2>1 DEF RowFs
  <2> HIDE DEF w
  <2>4. c \in Commands
    BY <2>2, <2>3, RowsCommand
  <2>5. Fitting(core, c)
    <3>1. c.f = f /\ c.arg = r
      OBVIOUS
    <3> HIDE DEF c
    <3> QED BY <2>2, <2>3, <3>1 DEF Fitting
  <2> QED BY <2>3, <2>4, <2>5, PostKeeps
<1> QED BY <1>2, <1>3, <1>4, <1>5, <1>6, <1>7

\* What a command is about.
LEMMA CommandWhat ==
  ASSUME NEW c \in Commands
  PROVE  c.what \in SUBSET Entries
<1> DEFINE T == AtMostTwo
           W == SUBSET Entries
<1> HIDE DEF T, W
<1>1. c \in [f : PlainFs, arg : {0}, what : W]
        \union [f : {"select", "play"}, arg : Nat, what : W]
        \union [f : {"filter"}, arg : Texts, what : W]
        \union [f : {"add"}, arg : Names, what : W]
        \union [f : RowFs, arg : T, what : W]
  BY DEF Commands, T, W
<1>2. c.what \in W
  BY <1>1
<1> QED BY <1>2 DEF W

\* The lists are saved by a command that is there in any case.
LEMMA SaveFits ==
  ASSUME NEW s, NEW c, c.f = "save"
  PROVE  Fitting(s, c)
<1>1. "save" # "select" /\ "save" \notin RowFs
  BY DEF RowFs
<1> QED BY <1>1 DEF Fitting

\* The files and the session, after a command.
LEMMA RunKeepsSaved ==
  ASSUME GuiInv, RunCommand
  PROVE  /\ core' \in CoreState /\ (core'.ub = "none" => Sound(core')) /\ ses' \in SesRec
         /\ disk' \in [Queues -> Seq(Names) \union {NoFile}] /\ Fits(disk')
         /\ SavedInv'
<1> DEFINE c == Head(cmds)
           s == Handled(core, c)
           d == ListsSave(s)
           k == Contents(s)
           T == IF c.f = "del" /\ core.gd.filtered = 0 /\ s.ub = "none"
                THEN { EntryAt(core, core.gd.selected, i) : i \in c.arg } ELSE {}
           g == IF c.f = "save" THEN k ELSE ses.goal
           a == c.f = "save"
           b == ses.calm /\ (c.f = "close" => ClosesSafely(core))
<1>1. /\ ses.phase \in {"up", "quits"} /\ core.ub = "none" /\ cmds # <<>> /\ HasRoom(core, c)
      /\ core' = s /\ cmds' = Tail(cmds) /\ disk' = (IF c.f = "save" THEN d ELSE disk)
      /\ ses' = [ses EXCEPT !.goal = g, !.saved = a, !.calm = b, !.meant = c.what, !.trashed = T]
  BY DEF RunCommand
<1>2. /\ core \in CoreState /\ Sound(core) /\ cmds \in Seq(Commands) /\ ses \in SesRec
      /\ disk \in Disks /\ Fits(disk)
  BY <1>1 DEF GuiInv, GuiTypes, Disks
<1>3. c \in Commands
  BY <1>1, <1>2
<1>4. c.what \in SUBSET Entries
  BY <1>3, CommandWhat
<1>5. T \in SUBSET (0..MaxEntries)
  <2>1. \A i : EntryAt(core, core.gd.selected, i) \in EntryIds
    BY <1>2, GdFields, EntryAtListed
  <2> HIDE DEF c, s
  <2> QED BY <2>1 DEF EntryIds
<1> HIDE DEF c
<1>6. s \in CoreState /\ (s.ub = "none" => Sound(s))
  BY <1>1, <1>2, <1>3, HandledLeads
<1>7. c.f = "save" => s = core
  BY DEF Handled
<1> HIDE DEF s
<1>8. c.f = "save" => /\ d \in Disks /\ Fits(d) /\ k \in Seq(Seq(Names)) /\ k # <<>>
                      /\ FilesRead(d) = Len(k) /\ \A i \in 1..Len(k) : d[i] = k[i]
  BY <1>2, <1>7, ListsSaved
<1> HIDE DEF d, k, T
<1>9. g \in Seq(Seq(Names)) /\ a \in BOOLEAN /\ b \in BOOLEAN
  <2>1. g \in Seq(Seq(Names))
    BY <1>2, <1>8, SessionFields
  <2>2. a \in BOOLEAN /\ b \in BOOLEAN
    BY Zenon
  <2> QED BY <2>1, <2>2
<1> HIDE DEF g, a, b
<1>10. ses' \in SesRec
  BY <1>1, <1>2, <1>4, <1>5, <1>9, SessionFields
<1>11. ses'.saved = a /\ ses'.goal = g /\ ses'.fresh = ses.fresh /\ ses'.phase = ses.phase
  BY <1>1, <1>2 DEF SesRec
<1>12. ~ses.fresh /\ ses.phase # "down"
  BY <1>1 DEF GuiInv, SavedInv
<1>13. disk' \in Disks /\ Fits(disk')
  BY <1>1, <1>2, <1>8
<1>14. a => FilesRead(disk') = Len(g) /\ g # <<>> /\ \A i \in 1..Len(g) : disk'[i] = g[i]
  <2> SUFFICES ASSUME c.f = "save"
               PROVE  FilesRead(disk') = Len(g) /\ g # <<>> /\ \A i \in 1..Len(g) : disk'[i] = g[i]
    BY DEF a
  <2>1. disk' = d /\ g = k
    BY <1>1 DEF g
  <2> QED BY <1>8, <2>1
<1>15. SavedInv'
  BY <1>11, <1>12, <1>14 DEF SavedInv
<1> QED BY <1>1, <1>6, <1>10, <1>13, <1>15 DEF Disks

LEMMA RunKeeps ==
  ASSUME GuiInv, RunCommand
  PROVE  GuiInv'
<1> DEFINE c == Head(cmds)
           s == Handled(core, c)
<1>1. /\ core' \in CoreState /\ (core'.ub = "none" => Sound(core')) /\ ses' \in SesRec
      /\ disk' \in [Queues -> Seq(Names) \union {NoFile}] /\ Fits(disk')
      /\ SavedInv'
  BY RunKeepsSaved
<1>2. /\ core.ub = "none" /\ cmds # <<>> /\ HasRoom(core, c)
      /\ core' = s /\ cmds' = Tail(cmds)
      /\ ses'.phase = ses.phase
      /\ ses'.calm = (ses.calm /\ (c.f = "close" => ClosesSafely(core)))
  BY DEF RunCommand, GuiInv, GuiTypes, SesRec
<1>3. core \in CoreState /\ Sound(core) /\ cmds \in Seq(Commands)
  BY <1>2 DEF GuiInv, GuiTypes
<1>4. c \in Commands /\ c = cmds[1] /\ cmds' \in Seq(Commands) /\ Len(cmds) \in Nat /\ Len(cmds) >= 1
      /\ Len(cmds') = Len(cmds) - 1 /\ (Len(cmds) = 2 => cmds'[1] = cmds[2])
  BY <1>2, <1>3
<1> HIDE DEF c
<1>5. Calm(core) /\ Fitting(core, c) /\ (c.f = "close" => ClosesSafely(core)) => Calm(s)
  BY <1>2, <1>3, <1>4, HandledLeads
<1> HIDE DEF s
<1>6. CalmInv'
  <2> SUFFICES ASSUME ses'.calm
               PROVE  /\ core'.ub = "none" /\ Home(core') /\ DefaultOk(core')
                      /\ Len(cmds') <= (IF ses'.phase = "up" THEN 1 ELSE 2)
                      /\ Len(cmds') >= 1 => Fitting(core', cmds'[1])
                      /\ Len(cmds') = 2 => cmds'[2].f = "save"
    BY DEF CalmInv
  <2>1. ses.calm /\ (c.f = "close" => ClosesSafely(core))
    BY <1>2
  <2>2. /\ core.ub = "none" /\ Home(core) /\ DefaultOk(core)
        /\ Len(cmds) <= (IF ses.phase = "up" THEN 1 ELSE 2)
        /\ Len(cmds) >= 1 => Fitting(core, cmds[1])
        /\ Len(cmds) = 2 => cmds[2].f = "save"
    BY <2>1 DEF GuiInv, CalmInv
  <2>3. Calm(core')
    BY <1>2, <1>4, <1>5, <2>1, <2>2 DEF Calm
  <2>4. Len(cmds') <= (IF ses'.phase = "up" THEN 0 ELSE 1)
    BY <1>2, <1>4, <2>2
  <2>5. Len(cmds') \in Nat
    BY <1>4
  <2>6. ASSUME Len(cmds') >= 1
        PROVE  Fitting(core', cmds'[1])
    <3>1. Len(cmds) = 2 /\ cmds'[1].f = "save"
      BY <1>4, <2>2, <2>4, <2>5, <2>6
    <3> QED BY <3>1, SaveFits
  <2> QED BY <2>3, <2>4, <2>5, <2>6 DEF Calm
<1>7. GuiTypes'
  BY <1>1, <1>4 DEF GuiTypes
<1> QED BY <1>1, <1>6, <1>7 DEF GuiInv

LEMMA TrackEndsKeeps ==
  ASSUME GuiInv, NEW t \in Tracks, TrackEnds(t)
  PROVE  GuiInv'
<1> DEFINE u == QeClose(core, t)
<1>1. /\ core.ub = "none" /\ Active(core, t) /\ core' = u /\ cmds' = cmds /\ disk' = disk /\ ses' = ses
      /\ core.t[t].st = "run" => \E k \in Tracks : core.t[k].st = "none"
  BY DEF TrackEnds, Active
<1>2. core \in CoreState /\ Sound(core)
  BY <1>1 DEF GuiInv, GuiTypes
<1>3. Leads(core, u) /\ (u.ub = "none" => SameLists(u, core))
  BY <1>1, <1>2, QeCloseLeads
<1> HIDE DEF u
<1>4. GuiTypes'
  BY <1>1, <1>3 DEF GuiInv, GuiTypes, Leads
<1>5. core'.ub = "none" => Sound(core')
  BY <1>1, <1>3 DEF Leads
<1>6. SavedInv'
  BY <1>1 DEF GuiInv, SavedInv
<1>7. CalmInv'
  <2> SUFFICES ASSUME ses.calm
               PROVE  CalmInv'
    BY <1>1 DEF CalmInv
  <2>1. /\ core.ub = "none" /\ Home(core) /\ DefaultOk(core)
        /\ Len(cmds) <= (IF ses.phase = "up" THEN 1 ELSE 2)
        /\ Len(cmds) >= 1 => Fitting(core, cmds[1])
        /\ Len(cmds) = 2 => cmds[2].f = "save"
    BY DEF GuiInv, CalmInv
  <2>2. Calm(u)
    BY <1>3, <2>1 DEF Leads, Calm
  <2>3. SameLists(u, core)
    BY <1>3, <2>2 DEF Calm
  <2>4. /\ u.gd.lists = core.gd.lists /\ ListIdVisible(u) = ListIdVisible(core)
        /\ Ents(u, ListIdVisible(u)) = Ents(core, ListIdVisible(core))
    <3>1. /\ u.gd.lists = core.gd.lists /\ u.gd.filtered = core.gd.filtered
          /\ u.gd.selected = core.gd.selected
      BY <2>3 DEF SameLists, SameTabs
    <3>2. ListIdVisible(u) = ListIdVisible(core)
      BY <3>1 DEF ListIdVisible
    <3>3. ListIdVisible(core) \in Queues
      BY <1>2, VisibleListed
    <3> QED BY <2>3, <3>1, <3>2, <3>3 DEF SameLists
  <2>5. \A c : Fitting(core, c) => Fitting(u, c)
    BY <2>4 DEF Fitting
  <2> QED BY <1>1, <2>1, <2>2, <2>5 DEF CalmInv, Calm
<1> QED BY <1>4, <1>5, <1>6, <1>7 DEF GuiInv

LEMMA QuitKeeps ==
  ASSUME GuiInv, Quit
  PROVE  GuiInv'
<1> DEFINE c == [f |-> "save", arg |-> 0, what |-> {}]
           n == ses.posts + 1
<1>1. /\ ses.phase = "up" /\ core.ub = "none" /\ cmds' = Append(cmds, c)
      /\ ses' = [ses EXCEPT !.phase = "quits", !.posts = n, !.fresh = FALSE]
      /\ core' = core /\ disk' = disk
  BY DEF Quit
<1>2. /\ core \in CoreState /\ cmds \in Seq(Commands) /\ ses \in SesRec
      /\ disk \in [Queues -> Seq(Names) \union {NoFile}] /\ Fits(disk)
  BY DEF GuiInv, GuiTypes
<1>3. c \in Commands /\ c.f = "save"
  BY PlainCommand DEF PlainFs
<1>4. n \in Nat
  BY <1>2 DEF SesRec
<1> HIDE DEF c, n
<1>5. ses' \in SesRec
  BY <1>1, <1>2, <1>4, SessionFields
<1>6. /\ ses'.phase = "quits" /\ ses'.saved = ses.saved /\ ses'.goal = ses.goal
      /\ ses'.fresh = FALSE /\ ses'.calm = ses.calm
  BY <1>1, <1>2 DEF SesRec
<1>7. /\ cmds' \in Seq(Commands) /\ Len(cmds) \in Nat /\ Len(cmds') = Len(cmds) + 1
      /\ cmds'[Len(cmds) + 1] = c /\ \A i \in 1..Len(cmds) : cmds'[i] = cmds[i]
  BY <1>1, <1>2, <1>3
<1>8. GuiTypes'
  BY <1>1, <1>2, <1>5, <1>7 DEF GuiTypes
<1>9. SavedInv'
  BY <1>1, <1>6 DEF GuiInv, SavedInv
<1>10. CalmInv'
  <2> SUFFICES ASSUME ses.calm
               PROVE  CalmInv'
    BY <1>6 DEF CalmInv
  <2>1. /\ core.ub = "none" /\ Home(core) /\ DefaultOk(core)
        /\ Len(cmds) <= 1 /\ (Len(cmds) >= 1 => Fitting(core, cmds[1]))
    BY <1>1 DEF GuiInv, CalmInv
  <2>2. Len(cmds') <= 2
    BY <1>7, <2>1
  <2>3. Len(cmds') = 2 => cmds'[2].f = "save"
    BY <1>3, <1>7
  <2>4. Fitting(core, c)
    BY <1>3, SaveFits
  <2>5. Fitting(core', cmds'[1])
    <3>1. Len(cmds) = 0 \/ Len(cmds) >= 1
      BY <1>7
    <3> QED BY <1>1, <1>7, <2>1, <2>4, <3>1
  <2> QED BY <1>1, <1>6, <2>1, <2>2, <2>3, <2>5 DEF CalmInv
<1> QED BY <1>1, <1>8, <1>9, <1>10 DEF GuiInv

LEMMA StopsKeeps ==
  ASSUME GuiInv, Stops
  PROVE  GuiInv'
<1>1. /\ ses.phase = "quits" /\ core.ub = "none" /\ cmds' = <<>>
      /\ ses' = [ses EXCEPT !.phase = "down"] /\ core' = core /\ disk' = disk
  BY DEF Stops
<1>2. /\ core \in CoreState /\ ses \in SesRec
      /\ disk \in [Queues -> Seq(Names) \union {NoFile}] /\ Fits(disk)
  BY DEF GuiInv, GuiTypes
<1>3. ses' \in SesRec
  BY <1>1, <1>2, SessionFields
<1>4. /\ ses'.phase = "down" /\ ses'.saved = ses.saved /\ ses'.goal = ses.goal
      /\ ses'.fresh = ses.fresh /\ ses'.calm = ses.calm
  BY <1>1, <1>2 DEF SesRec
<1>5. ~ses.fresh
  BY <1>1 DEF GuiInv, SavedInv
<1>6. cmds' \in Seq(Commands) /\ Len(cmds') = 0
  BY <1>1
<1>7. GuiTypes'
  BY <1>1, <1>2, <1>3, <1>6 DEF GuiTypes
<1>8. SavedInv'
  BY <1>1, <1>4, <1>5 DEF GuiInv, SavedInv
<1>9. CalmInv'
  BY <1>1, <1>4, <1>6 DEF GuiInv, CalmInv
<1> QED BY <1>1, <1>7, <1>8, <1>9 DEF GuiInv

\* The same lists, read from the files they were saved in.
LEMMA RestoredLists ==
  ASSUME NEW s, NEW g \in Seq(Seq(Names)), g # <<>>, s = ListsLoad(Started),
         disk \in Disks, Fits(disk), FilesRead(disk) = Len(g),
         \A i \in 1..Len(g) : disk[i] = g[i]
  PROVE  Contents(s) = g
<1> DEFINE T == Seq(Names)
           c == Contents(s)
<1> HIDE DEF T
<1>1. g \in Seq(T)
  BY DEF T
<1>2. Len(g) \in Nat /\ Len(g) > 0 /\ DOMAIN g = 1..Len(g) /\ g = [i \in 1..Len(g) |-> g[i]]
  BY <1>1
<1>3. DOMAIN c = 1..Len(g) /\ \A i \in 1..Len(g) : c[i] = g[i]
  BY <1>2, ContentsLoaded
<1>4. c = [i \in DOMAIN c |-> c[i]]
  BY DEF Contents
<1> HIDE DEF c
<1>5. c = [i \in 1..Len(g) |-> g[i]]
  BY <1>3, <1>4
<1> QED BY <1>2, <1>5 DEF c

LEMMA RestartKeeps ==
  ASSUME GuiInv, Restart
  PROVE  GuiInv'
<1> DEFINE s == ListsLoad(Started)
           n == ses.restarts + 1
<1>1. /\ ses.phase = "down" /\ core' = s /\ cmds' = cmds /\ disk' = disk
      /\ ses' = [ses EXCEPT !.phase = "up", !.restarts = n, !.fresh = ses.saved, !.saved = FALSE]
  BY DEF Restart
<1>2. cmds \in Seq(Commands) /\ ses \in SesRec /\ disk \in Disks /\ Fits(disk)
  BY DEF GuiInv, GuiTypes, Disks
<1>3. n \in Nat
  BY <1>2 DEF SesRec
<1>4. Loading(s)
  BY <1>2, ListsLoadLoads
<1>5. ses.saved => Contents(s) = ses.goal
  <2> SUFFICES ASSUME ses.saved
               PROVE  Contents(s) = ses.goal
    OBVIOUS
  <2>1. /\ FilesRead(disk) = Len(ses.goal) /\ ses.goal # <<>>
        /\ \A i \in 1..Len(ses.goal) : disk[i] = ses.goal[i]
    BY DEF GuiInv, SavedInv
  <2>2. ses.goal \in Seq(Seq(Names))
    BY <1>2, SessionFields
  <2> DEFINE g == ses.goal
  <2> HIDE DEF g
  <2>3. g \in Seq(Seq(Names)) /\ g # <<>> /\ FilesRead(disk) = Len(g)
        /\ \A i \in 1..Len(g) : disk[i] = g[i]
    BY <2>1, <2>2 DEF g
  <2>4. Contents(s) = g
    BY <1>2, <2>3, RestoredLists
  <2> QED BY <2>4 DEF g
<1> HIDE DEF s, n
<1>6. ses.saved \in BOOLEAN
  BY <1>2, SessionFields
<1>7. ses' \in SesRec
  BY <1>1, <1>2, <1>3, <1>6, SessionFields
<1>8. /\ ses'.phase = "up" /\ ~ses'.saved /\ ses'.fresh = ses.saved /\ ses'.goal = ses.goal
      /\ ses'.calm = ses.calm
  BY <1>1, <1>2 DEF SesRec
<1>9. cmds = <<>> /\ Len(cmds) = 0
  BY <1>1 DEF GuiInv, SavedInv
<1>10. GuiTypes'
  BY <1>1, <1>2, <1>4, <1>7 DEF GuiTypes, Loading, Disks
<1>11. CalmInv'
  BY <1>1, <1>4, <1>9 DEF CalmInv, Loading
<1>12. SavedInv'
  <2>1. \A t \in Tracks : ~Active(s, t)
    BY <1>4, States DEF Loading, Active
  <2> QED BY <1>1, <1>5, <1>8, <1>9, <2>1 DEF SavedInv
<1> QED BY <1>1, <1>4, <1>10, <1>11, <1>12 DEF GuiInv, Loading

\* Every step of the program keeps the invariant.
LEMMA NextKeeps ==
  ASSUME GuiInv, [GuiNext]_guiVars
  PROVE  GuiInv'
<1>1. ASSUME UNCHANGED guiVars
      PROVE  GuiInv'
  <2>1. core' = core /\ cmds' = cmds /\ disk' = disk /\ ses' = ses
    BY <1>1 DEF guiVars
  <2>2. GuiTypes' /\ CalmInv' /\ SavedInv'
    BY <2>1 DEF GuiInv, GuiTypes, CalmInv, SavedInv
  <2> QED BY <2>1, <2>2 DEF GuiInv
<1>2. CASE PostPlain \/ PostTab \/ PostText \/ PostName \/ PostPlay \/ PostRows
  BY <1>2, PostsKeep
<1>3. CASE RunCommand
  BY <1>3, RunKeeps
<1>4. CASE \E t \in Tracks : TrackEnds(t)
  BY <1>4, TrackEndsKeeps
<1>5. CASE Quit
  BY <1>5, QuitKeeps
<1>6. CASE Stops
  BY <1>6, StopsKeeps
<1>7. CASE Restart
  BY <1>7, RestartKeeps
<1>8. CASE GuiOver
  BY <1>1, <1>8 DEF GuiOver
<1>9. CASE UNCHANGED guiVars
  BY <1>1, <1>9
<1> QED BY <1>2, <1>3, <1>4, <1>5, <1>6, <1>7, <1>8, <1>9 DEF GuiNext

-----------------------------------------------------------------------------
(* The theorems.                                                           *)

LEMMA RefsFollow ==
  ASSUME GuiInv
  PROVE  ListRefsExact
<1> SUFFICES ASSUME core.ub = "none", NEW e \in Entries, core.e[e].st # "none"
             PROVE  /\ core.e[e].used =
                         Cardinality({ q \in Queues : Live(q) /\ Contains(core.q[q].ents, e) })
                         + Cardinality({ t \in Tracks : core.t[t].st \in {"run", "stopping"}
                                                        /\ core.t[t].e = e })
                    /\ core.e[e].st = "freed" <=> core.e[e].used = 0
  BY DEF ListRefsExact
<1>1. core \in CoreState /\ Sound(core)
  BY DEF GuiInv, GuiTypes
<1>2. { q \in Queues : Live(q) /\ Contains(core.q[q].ents, e) } = ShownBy(core, e, 0)
  BY Bounds DEF ShownBy, Live, Ents
<1>3. { t \in Tracks : core.t[t].st \in {"run", "stopping"} /\ core.t[t].e = e } = PlayedBy(core, e)
  BY DEF PlayedBy, Active
<1> DEFINE a == Cardinality(ShownBy(core, e, 0))
           b == Cardinality(PlayedBy(core, e))
<1>4. a \in Nat /\ b \in Nat
  BY Finite
<1>5. core.e[e].used = a + b + (IF e \in {} THEN 1 ELSE 0)
      /\ (core.e[e].st = "live" <=> core.e[e].used # 0)
  BY <1>1 DEF Sound, Counted
<1>6. core.e[e].st \in Statuses
  BY <1>1, CoreFields, EntryFields
<1> HIDE DEF a, b
<1>7. core.e[e].used = a + b
  BY <1>4, <1>5
<1>8. core.e[e].st = "freed" <=> core.e[e].used = 0
  BY <1>5, <1>6, States DEF Statuses
<1> QED BY <1>2, <1>3, <1>7, <1>8 DEF a, b

LEMMA TabsFollow ==
  ASSUME GuiInv
  PROVE  TabsAreLists
<1> SUFFICES ASSUME core.ub = "none"
             PROVE  TabsAreLists
  BY DEF TabsAreLists
<1>1. core \in CoreState /\ Sound(core)
  BY DEF GuiInv, GuiTypes
<1>2. TabsOk(core)
  BY <1>1 DEF Sound
<1>3. \A i \in 1..Len(core.qm.lists) : Live(core.qm.lists[i])
  <2> DEFINE l == core.qm.lists
  <2>1. l \in Seq(Queues)
    BY <1>1, GdFields
  <2>2. \A q \in Queues : Contains(l, q) <=> core.q[q].st = "live"
    BY <1>2 DEF TabsOk
  <2> HIDE DEF l
  <2>3. \A i \in 1..Len(l) : l[i] \in Queues /\ Contains(l, l[i])
    BY <2>1 DEF Contains
  <2>4. \A i \in 1..Len(l) : Live(l[i])
    BY <2>2, <2>3 DEF Live
  <2> QED BY <2>4 DEF l
<1>4. PlaybackLists(core) # <<>>
  BY <1>1, PlaybackOnce
<1> QED BY <1>2, <1>3, <1>4 DEF TabsOk, TabsAreLists

LEMMA FilterFollows ==
  ASSUME GuiInv
  PROVE  FilterRows
<1> SUFFICES ASSUME core.ub = "none", core.gd.filtered # 0
             PROVE  /\ Live(core.gd.filtered)
                    /\ \A e \in ToSet(Ents(core, core.gd.filtered)) :
                         core.e[e].st = "live" /\ core.e[e].name \in core.gd.text.shows
  BY DEF FilterRows
<1> DEFINE q == core.gd.filtered
<1>1. core \in CoreState /\ Sound(core) /\ q \in Queues
  BY GdFields DEF GuiInv, GuiTypes
<1>2. Refs(core, {}, 0)
  BY <1>1, SoundParts
<1>3. Live(q)
  BY <1>1 DEF Sound, TabsOk, Live
<1>4. ASSUME NEW e \in ToSet(Ents(core, q))
      PROVE  core.e[e].st = "live" /\ core.e[e].name \in core.gd.text.shows
  <2>1. e \in Entries /\ Contains(Ents(core, q), e)
    BY <1>1, <1>4, Listed
  <2>2. core.e[e].st = "live"
    BY <1>1, <1>2, <2>1, ListedLive
  <2>3. core.e[e].name \in core.gd.text.shows
    BY <1>1, <2>1 DEF Sound, FilterOk
  <2> QED BY <2>2, <2>3
<1> QED BY <1>3, <1>4

LEMMA InvFollows ==
  GuiInv => ListsExact /\ CalmIsSafe /\ ListsRestored
<1>1. ASSUME GuiInv PROVE ListsExact
  BY <1>1, RefsFollow, TabsFollow, FilterFollows DEF ListsExact
<1>2. GuiInv => CalmIsSafe
  BY DEF GuiInv, CalmInv, CalmIsSafe
<1>3. GuiInv => ListsRestored
  BY DEF GuiInv, SavedInv, ListsRestored
<1> QED BY <1>1, <1>2, <1>3

\* Whatever the user does, however the tracks end and however often the
\* program is restarted: the types are right, and as long as no command met
\* something that is gone the counters, the lists and the tabs fit together.
THEOREM GuiInvariant == GuiSpec => []GuiInv
<1>1. GuiInit => GuiInv
  BY InitInv
<1>2. GuiInv /\ [GuiNext]_guiVars => GuiInv'
  BY NextKeeps
<1> QED BY <1>1, <1>2, PTL DEF GuiSpec

\* qe_ref, qe_unref, list_filter, list_close: every entry has exactly the
\* references of the lists that show it and of the tracks that play it, the
\* tabs are the queue manager's lists, and the rows of a filtered list match.
THEOREM GuiListsExact == GuiSpec => []ListsExact
<1>1. GuiInv => ListsExact
  BY InvFollows
<1> QED BY <1>1, GuiInvariant, PTL

\* corecmd_handler: commands that are given one at a time, and no closing of a
\* list that plays, is the default one or stands before it, never meet a row,
\* a tab or a queue that is not there.
THEOREM GuiCalmIsSafe == GuiSpec => []CalmIsSafe
<1>1. GuiInv => CalmIsSafe
  BY InvFollows
<1> QED BY <1>1, GuiInvariant, PTL

\* lists_save, lists_load: after a restart the lists are those that were saved.
THEOREM GuiListsRestored == GuiSpec => []ListsRestored
<1>1. GuiInv => ListsRestored
  BY InvFollows
<1> QED BY <1>1, GuiInvariant, PTL

=============================================================================
