---------------------------- MODULE DataLemmas ----------------------------
(***************************************************************************)
(* Facts about numbers, finite sets and sequences that the proofs about    *)
(* the components need: induction over the naturals in a form the provers  *)
(* can use, sums over finite sets, the loop of Concat, greatest and least  *)
(* elements.                                                               *)
(***************************************************************************)
EXTENDS Lists, Functions, SequenceTheorems, FiniteSetTheorems, WellFoundedInduction, TLAPS

\* A set of numbers that holds 0 and with n also n + 1 holds them all.
LEMMA Induction ==
  ASSUME NEW S, 0 \in S, \A n \in Nat : n \in S => n + 1 \in S
  PROVE  Nat \subseteq S
<1> DEFINE T == Nat \ S
           R == OpToRel(<, Nat)
<1> SUFFICES ASSUME T # {} PROVE FALSE
  OBVIOUS
<1>1. R = {ss \in Nat \X Nat : ss[1] < ss[2]}
  BY DEF OpToRel
<1>2. IsWellFoundedOn(R, Nat)
  BY NatLessThanWellFounded, Zenon
<1> HIDE DEF R
<1>3. T \subseteq Nat
  OBVIOUS
<1>4. PICK x \in T : \A y \in T : ~(<<y, x>> \in R)
  BY <1>2, <1>3, WFMin, Zenon
<1>5. x # 0 /\ x - 1 \in T
  BY <1>4
<1>6. <<x - 1, x>> \in R
  BY <1>1, <1>5
<1> QED BY <1>4, <1>5, <1>6

\* Multiples of m.
LEMMA Times ==
  ASSUME NEW r \in Nat, NEW m \in Nat, NEW k \in Nat, r <= k
  PROVE  /\ r * m \in Nat /\ r * m <= k * m
         /\ (r + 1) * m = r * m + m
OBVIOUS

-----------------------------------------------------------------------------
(* Sums over finite sets *)

Pick(s) == CHOOSE x \in s : TRUE

\* g is the iteration of a sum of f over the subsets of S, those in D only.
Iterates(g, f, D) ==
  g = [s \in D |-> IF s = {} THEN 0 ELSE f[Pick(s)] + g[s \ {Pick(s)}]]

\* The subsets of S with at most n elements.
Small(S, n) == {s \in SUBSET S : Cardinality(s) <= n}

\* The recursion of the sum over the subsets of a finite set has a solution.
LEMMA SumExists ==
  ASSUME NEW f, NEW S, IsFiniteSet(S)
  PROVE  \E g : Iterates(g, f, SUBSET S)
<1> DEFINE D(n) == Small(S, n)
           I == {n \in Nat : \E g : Iterates(g, f, Small(S, n))}
<1>0. \A s \in SUBSET S : IsFiniteSet(s) /\ Cardinality(s) \in Nat
  BY FS_Subset, FS_CardinalityType
<1>1. 0 \in I
  <2> DEFINE g == [s \in D(0) |-> 0]
  <2>1. \A s \in D(0) : s = {}
    BY <1>0, FS_EmptySet DEF Small
  <2>2. Iterates(g, f, D(0))
    BY <2>1 DEF Iterates
  <2> QED BY <2>2
<1>2. ASSUME NEW n \in Nat, n \in I PROVE n + 1 \in I
  <2>1. PICK g : Iterates(g, f, D(n))
    BY <1>2
  <2> DEFINE h == [s \in D(n + 1) |->
                     IF s = {} THEN 0 ELSE f[Pick(s)] + g[s \ {Pick(s)}]]
  <2>2. ASSUME NEW s \in D(n + 1), s # {}
        PROVE  s \ {Pick(s)} \in D(n) /\ s \ {Pick(s)} \in D(n + 1)
    <3>1. Pick(s) \in s
      BY <2>2 DEF Pick
    <3>2. Cardinality(s \ {Pick(s)}) = Cardinality(s) - 1
      BY <3>1, <1>0, FS_RemoveElement DEF Small
    <3> QED BY <3>2, <1>0 DEF Small
  <2>3. ASSUME NEW s \in D(n) PROVE s \in D(n + 1) /\ h[s] = g[s]
    <3>1. s \in D(n + 1)
      BY <1>0 DEF Small
    <3>2. g[s] = IF s = {} THEN 0 ELSE f[Pick(s)] + g[s \ {Pick(s)}]
      BY <2>1 DEF Iterates
    <3> QED BY <3>1, <3>2
  <2>4. ASSUME NEW s \in D(n + 1)
        PROVE  h[s] = IF s = {} THEN 0 ELSE f[Pick(s)] + h[s \ {Pick(s)}]
    <3>1. CASE s = {}
      BY <3>1
    <3>2. CASE s # {}
      BY <3>2, <2>2, <2>3
    <3> QED BY <3>1, <3>2
  <2>5. Iterates(h, f, D(n + 1))
    <3>1. h = [s \in D(n + 1) |-> h[s]]
      OBVIOUS
    <3> DEFINE Dn == D(n + 1)
    <3>2. /\ h = [s \in Dn |-> h[s]]
          /\ \A s \in Dn : h[s] = IF s = {} THEN 0 ELSE f[Pick(s)] + h[s \ {Pick(s)}]
      BY <3>1, <2>4
    <3> HIDE DEF h, Dn
    <3>3. h = [s \in Dn |-> IF s = {} THEN 0 ELSE f[Pick(s)] + h[s \ {Pick(s)}]]
      BY <3>2
    <3> QED BY <3>3 DEF Iterates, Dn
  <2> HIDE DEF h
  <2>6. \E k : Iterates(k, f, D(n + 1))
    BY <2>5
  <2> QED BY <2>6
<1>3. Nat \subseteq I
  <2> HIDE DEF I
  <2> QED BY <1>1, <1>2, Induction
<1>4. D(Cardinality(S)) = SUBSET S
  BY <1>0, FS_Subset DEF Small
<1>5. Cardinality(S) \in I
  BY <1>0, <1>3
<1> QED BY <1>4, <1>5

\* SumFunctionOnSet is such a solution.
LEMMA SumIteration ==
  ASSUME NEW f, NEW S, IsFiniteSet(S)
  PROVE  \E g : Iterates(g, f, SUBSET S) /\ SumFunctionOnSet(f, S) = g[S]
<1> DEFINE G == CHOOSE g : Iterates(g, f, SUBSET S)
<1>1. SumFunctionOnSet(f, S) = G[S]
  BY DEF SumFunctionOnSet, FoldFunctionOnSet, MapThenFoldSet, Iterates, Pick
<1>2. Iterates(G, f, SUBSET S)
  BY SumExists, Zenon
<1> QED BY <1>1, <1>2

\* Two iterations agree where both are defined.
LEMMA IterationsAgree ==
  ASSUME NEW f, NEW S, IsFiniteSet(S), NEW T \in SUBSET S, NEW g, NEW h,
         Iterates(g, f, SUBSET S), Iterates(h, f, SUBSET T)
  PROVE  g[T] = h[T]
<1> DEFINE I == {n \in Nat : \A s \in Small(T, n) : g[s] = h[s]}
<1>0. \A s \in SUBSET T : IsFiniteSet(s) /\ Cardinality(s) \in Nat
  BY FS_Subset, FS_CardinalityType
<1>1. \A s \in SUBSET T :
        /\ g[s] = IF s = {} THEN 0 ELSE f[Pick(s)] + g[s \ {Pick(s)}]
        /\ h[s] = IF s = {} THEN 0 ELSE f[Pick(s)] + h[s \ {Pick(s)}]
  BY DEF Iterates
<1>2. 0 \in I
  <2>1. \A s \in Small(T, 0) : s = {} /\ s \in SUBSET T
    BY <1>0, FS_EmptySet DEF Small
  <2> QED BY <2>1, <1>1
<1>3. ASSUME NEW n \in Nat, n \in I PROVE n + 1 \in I
  <2> SUFFICES ASSUME NEW s \in Small(T, n + 1) PROVE g[s] = h[s]
    OBVIOUS
  <2>1. s \in SUBSET T /\ Cardinality(s) <= n + 1
    BY DEF Small
  <2>2. CASE s = {}
    BY <2>1, <2>2, <1>1
  <2>3. CASE s # {}
    <3>1. Pick(s) \in s
      BY <2>3 DEF Pick
    <3>2. Cardinality(s \ {Pick(s)}) = Cardinality(s) - 1
      BY <2>1, <3>1, <1>0, FS_RemoveElement
    <3>3. s \ {Pick(s)} \in Small(T, n)
      BY <2>1, <3>2, <1>0 DEF Small
    <3>4. g[s \ {Pick(s)}] = h[s \ {Pick(s)}]
      BY <3>3, <1>3
    <3> QED BY <2>1, <2>3, <3>4, <1>1
  <2> QED BY <2>2, <2>3
<1>4. Nat \subseteq I
  <2> HIDE DEF I
  <2> QED BY <1>2, <1>3, Induction
<1>5. Cardinality(T) \in I /\ T \in Small(T, Cardinality(T))
  BY <1>0, <1>4 DEF Small
<1> QED BY <1>5

\* The sum's own recursion.
LEMMA SumRecursion ==
  ASSUME NEW f, NEW S, IsFiniteSet(S)
  PROVE  SumFunctionOnSet(f, S) =
           IF S = {} THEN 0 ELSE f[Pick(S)] + SumFunctionOnSet(f, S \ {Pick(S)})
<1>1. PICK g : Iterates(g, f, SUBSET S) /\ SumFunctionOnSet(f, S) = g[S]
  BY SumIteration
<1> DEFINE T == S \ {Pick(S)}
<1>2. T \in SUBSET S /\ IsFiniteSet(T)
  BY FS_Subset
<1> HIDE DEF T
<1>3. PICK h : Iterates(h, f, SUBSET T) /\ SumFunctionOnSet(f, T) = h[T]
  BY <1>2, SumIteration
<1>4. g[T] = h[T]
  BY <1>1, <1>2, <1>3, IterationsAgree
<1>5. g[S] = IF S = {} THEN 0 ELSE f[Pick(S)] + g[T]
  BY <1>1 DEF Iterates, T
<1> QED BY <1>1, <1>3, <1>4, <1>5 DEF T

\* The order of the summands does not matter: any one may be taken out.
LEMMA SumRemove ==
  ASSUME NEW f, NEW S, IsFiniteSet(S), \A x \in S : f[x] \in Int
  PROVE  /\ SumFunctionOnSet(f, S) \in Int
         /\ \A x \in S : SumFunctionOnSet(f, S) = SumFunctionOnSet(f, S \ {x}) + f[x]
<1> DEFINE Good(s) == /\ SumFunctionOnSet(f, s) \in Int
                      /\ \A x \in s : SumFunctionOnSet(f, s) = SumFunctionOnSet(f, s \ {x}) + f[x]
           I == {n \in Nat : \A s \in Small(S, n) : Good(s)}
<1>0. \A s \in SUBSET S : IsFiniteSet(s) /\ Cardinality(s) \in Nat
  BY FS_Subset, FS_CardinalityType
<1>1. \A s \in SUBSET S : SumFunctionOnSet(f, s) =
        IF s = {} THEN 0 ELSE f[Pick(s)] + SumFunctionOnSet(f, s \ {Pick(s)})
  BY <1>0, SumRecursion
<1>2. Good({})
  <2>1. SumFunctionOnSet(f, {}) = 0
    BY <1>1
  <2> QED BY <2>1
<1> HIDE DEF Good
<1>3. 0 \in I
  <2>1. \A s \in Small(S, 0) : s = {}
    BY <1>0, FS_EmptySet DEF Small
  <2> QED BY <2>1, <1>2
<1>4. ASSUME NEW n \in Nat, n \in I PROVE n + 1 \in I
  <2> SUFFICES ASSUME NEW s \in Small(S, n + 1) PROVE Good(s)
    OBVIOUS
  <2>1. s \in SUBSET S /\ Cardinality(s) <= n + 1
    BY DEF Small
  <2>2. ASSUME NEW x \in s PROVE s \ {x} \in Small(S, n) /\ Good(s \ {x})
    <3>1. Cardinality(s \ {x}) = Cardinality(s) - 1
      BY <2>1, <1>0, FS_RemoveElement
    <3>2. s \ {x} \in Small(S, n)
      BY <2>1, <3>1, <1>0 DEF Small
    <3> QED BY <3>2, <1>4
  <2>3. CASE s = {}
    BY <2>3, <1>2
  <2>4. CASE s # {}
    <3> DEFINE c == Pick(s)
    <3>1. c \in s
      BY <2>4 DEF Pick
    <3> HIDE DEF c
    <3>2. SumFunctionOnSet(f, s) = f[c] + SumFunctionOnSet(f, s \ {c})
      BY <2>1, <2>4, <1>1 DEF c
    <3>3. SumFunctionOnSet(f, s \ {c}) \in Int /\ f[c] \in Int
      BY <3>1, <2>1, <2>2 DEF Good
    <3>4. ASSUME NEW x \in s
          PROVE  SumFunctionOnSet(f, s) = SumFunctionOnSet(f, s \ {x}) + f[x]
      <4>1. CASE x = c
        BY <4>1, <3>2, <3>3
      <4>2. CASE x # c
        <5>1. /\ x \in s \ {c} /\ c \in s \ {x}
              /\ (s \ {c}) \ {x} = (s \ {x}) \ {c}
          BY <4>2, <3>1
        <5> DEFINE r == (s \ {c}) \ {x}
        <5>2. SumFunctionOnSet(f, s \ {c}) = SumFunctionOnSet(f, r) + f[x]
          BY <5>1, <3>1, <2>2 DEF Good
        <5>3. SumFunctionOnSet(f, s \ {x}) = SumFunctionOnSet(f, r) + f[c]
          BY <5>1, <2>2 DEF Good
        <5>4. SumFunctionOnSet(f, r) \in Int
          <6>1. r \in Small(S, n)
            <7>1. s \ {c} \in Small(S, n)
              BY <3>1, <2>2
            <7>2. Cardinality(r) <= Cardinality(s \ {c}) /\ r \subseteq s \ {c}
              BY <7>1, <1>0, FS_Subset DEF Small
            <7> QED BY <7>1, <7>2, <1>0 DEF Small
          <6> QED BY <6>1, <1>4 DEF Good
        <5> HIDE DEF r
        <5>5. f[x] \in Int
          BY <2>1
        <5> QED BY <5>2, <5>3, <5>4, <5>5, <3>2, <3>3
      <4> QED BY <4>1, <4>2
    <3> QED BY <3>2, <3>3, <3>4 DEF Good
  <2> QED BY <2>3, <2>4
<1>5. Nat \subseteq I
  <2> HIDE DEF I
  <2> QED BY <1>3, <1>4, Induction
<1>6. Cardinality(S) \in I /\ S \in Small(S, Cardinality(S))
  BY <1>0, <1>5 DEF Small
<1> QED BY <1>6 DEF Good

\* A sum depends only on the summands.
LEMMA SumSame ==
  ASSUME NEW f, NEW g, NEW S, IsFiniteSet(S), \A x \in S : f[x] = g[x]
  PROVE  SumFunctionOnSet(f, S) = SumFunctionOnSet(g, S)
<1> DEFINE I == {n \in Nat : \A s \in Small(S, n) : SumFunctionOnSet(f, s) = SumFunctionOnSet(g, s)}
<1>0. \A s \in SUBSET S : IsFiniteSet(s) /\ Cardinality(s) \in Nat
  BY FS_Subset, FS_CardinalityType
<1>1. \A s \in SUBSET S :
        /\ SumFunctionOnSet(f, s) =
             IF s = {} THEN 0 ELSE f[Pick(s)] + SumFunctionOnSet(f, s \ {Pick(s)})
        /\ SumFunctionOnSet(g, s) =
             IF s = {} THEN 0 ELSE g[Pick(s)] + SumFunctionOnSet(g, s \ {Pick(s)})
  BY <1>0, SumRecursion
<1>2. 0 \in I
  <2>1. \A s \in Small(S, 0) : s = {} /\ s \in SUBSET S
    BY <1>0, FS_EmptySet DEF Small
  <2> QED BY <2>1, <1>1
<1>3. ASSUME NEW n \in Nat, n \in I PROVE n + 1 \in I
  <2> SUFFICES ASSUME NEW s \in Small(S, n + 1)
               PROVE  SumFunctionOnSet(f, s) = SumFunctionOnSet(g, s)
    OBVIOUS
  <2>1. s \in SUBSET S /\ Cardinality(s) <= n + 1
    BY DEF Small
  <2>2. CASE s = {}
    BY <2>1, <2>2, <1>1
  <2>3. CASE s # {}
    <3>1. Pick(s) \in s
      BY <2>3 DEF Pick
    <3>2. Cardinality(s \ {Pick(s)}) = Cardinality(s) - 1
      BY <2>1, <3>1, <1>0, FS_RemoveElement
    <3>3. s \ {Pick(s)} \in Small(S, n)
      BY <2>1, <3>2, <1>0 DEF Small
    <3>4. SumFunctionOnSet(f, s \ {Pick(s)}) = SumFunctionOnSet(g, s \ {Pick(s)})
      BY <3>3, <1>3
    <3>5. f[Pick(s)] = g[Pick(s)]
      BY <2>1, <3>1
    <3> QED BY <2>1, <2>3, <3>4, <3>5, <1>1
  <2> QED BY <2>2, <2>3
<1>4. Nat \subseteq I
  <2> HIDE DEF I
  <2> QED BY <1>2, <1>3, Induction
<1>5. Cardinality(S) \in I /\ S \in Small(S, Cardinality(S))
  BY <1>0, <1>4 DEF Small
<1> QED BY <1>5

\* What the sums of this project need: nothing sums up to 0, naturals to a
\* natural, a new summand is added, and a changed one changes the sum by the
\* difference.
LEMMA SumEmpty == ASSUME NEW f PROVE SumFunctionOnSet(f, {}) = 0
BY SumRecursion, FS_EmptySet

\* A sum of natural numbers is one.
LEMMA SumNat ==
  ASSUME NEW f, NEW S, IsFiniteSet(S), \A x \in S : f[x] \in Nat
  PROVE  SumFunctionOnSet(f, S) \in Nat
<1> DEFINE I == {n \in Nat : \A s \in Small(S, n) : SumFunctionOnSet(f, s) \in Nat}
<1>0. \A s \in SUBSET S : IsFiniteSet(s) /\ Cardinality(s) \in Nat
  BY FS_Subset, FS_CardinalityType
<1>1. 0 \in I
  <2>1. \A s \in Small(S, 0) : s = {}
    BY <1>0, FS_EmptySet DEF Small
  <2> QED BY <2>1, SumEmpty
<1>2. ASSUME NEW n \in Nat, n \in I PROVE n + 1 \in I
  <2> SUFFICES ASSUME NEW s \in Small(S, n + 1) PROVE SumFunctionOnSet(f, s) \in Nat
    OBVIOUS
  <2>1. s \in SUBSET S /\ Cardinality(s) <= n + 1
    BY DEF Small
  <2>2. CASE s = {}
    BY <2>2, SumEmpty
  <2>3. CASE s # {}
    <3>1. PICK x \in s : TRUE
      BY <2>3
    <3>2. Cardinality(s \ {x}) = Cardinality(s) - 1
      BY <2>1, <1>0, FS_RemoveElement
    <3>3. s \ {x} \in Small(S, n)
      BY <2>1, <3>2, <1>0 DEF Small
    <3>4. SumFunctionOnSet(f, s \ {x}) \in Nat /\ f[x] \in Nat
      BY <1>2, <2>1, <3>3
    <3>5. SumFunctionOnSet(f, s) = SumFunctionOnSet(f, s \ {x}) + f[x]
      <4>1. IsFiniteSet(s) /\ \A y \in s : f[y] \in Int
        BY <1>0, <2>1
      <4> QED BY <4>1, SumRemove
    <3> QED BY <3>4, <3>5
  <2> QED BY <2>2, <2>3
<1>3. Nat \subseteq I
  <2> HIDE DEF I
  <2> QED BY <1>1, <1>2, Induction
<1>4. Cardinality(S) \in I /\ S \in Small(S, Cardinality(S))
  BY <1>0, <1>3 DEF Small
<1> QED BY <1>4

\* One more summand.
LEMMA SumAdd ==
  ASSUME NEW f, NEW S, IsFiniteSet(S), NEW x, x \notin S,
         f[x] \in Int, \A y \in S : f[y] \in Int
  PROVE  SumFunctionOnSet(f, S \cup {x}) = SumFunctionOnSet(f, S) + f[x]
<1> DEFINE T == S \cup {x}
<1>1. IsFiniteSet(T)
  BY FS_AddElement
<1>2. x \in T /\ T \ {x} = S /\ \A y \in T : f[y] \in Int
  OBVIOUS
<1> HIDE DEF T
<1>3. SumFunctionOnSet(f, T) = SumFunctionOnSet(f, T \ {x}) + f[x]
  BY <1>1, <1>2, SumRemove
<1> QED BY <1>2, <1>3 DEF T

\* One summand changes.
LEMMA SumChange ==
  ASSUME NEW f, NEW g, NEW S, IsFiniteSet(S), NEW x \in S,
         \A y \in S : f[y] \in Int, g[x] \in Int, \A y \in S \ {x} : g[y] = f[y]
  PROVE  /\ SumFunctionOnSet(f, S) \in Int
         /\ SumFunctionOnSet(g, S) = SumFunctionOnSet(f, S) + (g[x] - f[x])
<1> DEFINE T == S \ {x}
<1>1. IsFiniteSet(T) /\ \A y \in T : f[y] \in Int
  BY FS_Subset
<1>2. \A y \in T : g[y] = f[y]
  OBVIOUS
<1>3. \A y \in S : g[y] \in Int
  OBVIOUS
<1>4. /\ SumFunctionOnSet(f, S) = SumFunctionOnSet(f, T) + f[x]
      /\ SumFunctionOnSet(g, S) = SumFunctionOnSet(g, T) + g[x]
  BY <1>3, SumRemove
<1> HIDE DEF T
<1>5. SumFunctionOnSet(g, T) = SumFunctionOnSet(f, T) /\ SumFunctionOnSet(f, T) \in Int
  BY <1>1, <1>2, SumSame, SumRemove
<1>6. f[x] \in Int
  OBVIOUS
<1> QED BY <1>4, <1>5, <1>6
-----------------------------------------------------------------------------
(* Sequences *)

\* A sequence of whatever its elements are.
Elements(q) == {q[i] : i \in 1..Len(q)}

IsSeq(q) == q \in Seq(Elements(q))

\* Every sequence is one of its own elements.
LEMMA Sequence ==
  ASSUME NEW S, NEW q \in Seq(S)
  PROVE  IsSeq(q)
BY DEF IsSeq, Elements

\* A function of the first n positions is a sequence.
LEMMA SequenceOf ==
  ASSUME NEW n \in Nat, NEW f, f = [i \in 1..n |-> f[i]]
  PROVE  IsSeq(f) /\ Len(f) = n
<1> DEFINE S == {f[i] : i \in 1..n}
<1>1. \A i \in 1..n : f[i] \in S
  OBVIOUS
<1> HIDE DEF S
<1>2. f \in Seq(S) /\ Len(f) = n
  BY <1>1
<1> QED BY <1>2, Sequence

\* Appending to a sequence and taking its tail.
LEMMA Appended ==
  ASSUME NEW q, IsSeq(q), NEW x
  PROVE  /\ IsSeq(Append(q, x))
         /\ Len(q) \in Nat /\ DOMAIN q = 1..Len(q)
         /\ Len(Append(q, x)) = Len(q) + 1
         /\ DOMAIN Append(q, x) = 1..(Len(q) + 1)
         /\ \A i \in 1..Len(q) : Append(q, x)[i] = q[i]
         /\ Append(q, x)[Len(q) + 1] = x
<1> DEFINE S == Elements(q) \cup {x}
<1>1. q \in Seq(S) /\ x \in S
  BY DEF IsSeq
<1> HIDE DEF S
<1>2. /\ Append(q, x) \in Seq(S)
      /\ Len(q) \in Nat /\ DOMAIN q = 1..Len(q)
      /\ Len(Append(q, x)) = Len(q) + 1
      /\ \A i \in 1..Len(q) : Append(q, x)[i] = q[i]
      /\ Append(q, x)[Len(q) + 1] = x
  BY <1>1, AppendProperties, LenProperties
<1>3. IsSeq(Append(q, x)) /\ DOMAIN Append(q, x) = 1..(Len(q) + 1)
  BY <1>2, Sequence, LenProperties
<1> QED
  BY <1>2, <1>3

\* What is left without the first element.
LEMMA Tailed ==
  ASSUME NEW q, IsSeq(q), q # <<>>
  PROVE  /\ IsSeq(Tail(q))
         /\ Len(q) \in Nat /\ Len(q) > 0 /\ Len(Tail(q)) = Len(q) - 1
         /\ Head(q) = q[1]
         /\ \A i \in 1..Len(Tail(q)) : i + 1 \in 1..Len(q) /\ Tail(q)[i] = q[i + 1]
<1> DEFINE S == Elements(q)
<1>1. q \in Seq(S)
  BY DEF IsSeq
<1> HIDE DEF S
<1>2. Tail(q) \in Seq(S) /\ Len(Tail(q)) = Len(q) - 1
      /\ \A i \in 1..Len(Tail(q)) : Tail(q)[i] = q[i + 1]
  BY <1>1, HeadTailProperties
<1>3. Len(q) \in Nat /\ Len(q) > 0 /\ Head(q) = q[1]
  BY <1>1
<1>4. IsSeq(Tail(q))
  BY <1>2, Sequence
<1>5. \A i \in 1..(Len(q) - 1) : i + 1 \in 1..Len(q)
  BY <1>3
<1> QED
  BY <1>2, <1>3, <1>4, <1>5

-----------------------------------------------------------------------------
(* Sequences of sequences *)

\* g is the recursion of Concat over the first n of the sequences.
JoinAt(g, ss, i) == IF i = 0 THEN <<>> ELSE g[i - 1] \o ss[i]
Joins(g, ss, n) == g = [i \in 0..n |-> JoinAt(g, ss, i)]

\* The recursion of Concat has a solution.
LEMMA JoinExists ==
  ASSUME NEW ss, NEW n \in Nat
  PROVE  \E g : Joins(g, ss, n)
<1> DEFINE I == {k \in Nat : \E g : Joins(g, ss, k)}
<1>1. 0 \in I
  <2> DEFINE g == [i \in 0..0 |-> <<>>]
  <2>1. \A i \in 0..0 : i = 0
    OBVIOUS
  <2>2. Joins(g, ss, 0)
    BY <2>1 DEF Joins, JoinAt
  <2> QED BY <2>2
<1>2. ASSUME NEW k \in Nat, k \in I PROVE k + 1 \in I
  <2>1. PICK g : Joins(g, ss, k)
    BY <1>2
  <2> DEFINE h == [i \in 0..(k + 1) |-> JoinAt(g, ss, i)]
  <2>2. \A i \in 0..k : h[i] = g[i]
    BY <2>1 DEF Joins
  <2>3. \A i \in 0..(k + 1) : h[i] = JoinAt(h, ss, i)
    <3> SUFFICES ASSUME NEW i \in 0..(k + 1) PROVE JoinAt(g, ss, i) = JoinAt(h, ss, i)
      OBVIOUS
    <3>1. CASE i = 0
      BY <3>1 DEF JoinAt
    <3>2. CASE i # 0
      <4>1. h[i - 1] = g[i - 1]
        BY <3>2, <2>2
      <4> HIDE DEF h
      <4> QED BY <3>2, <4>1 DEF JoinAt
    <3> QED BY <3>1, <3>2
  <2>4. h = [i \in 0..(k + 1) |-> h[i]]
    OBVIOUS
  <2> HIDE DEF h
  <2>5. Joins(h, ss, k + 1)
    BY <2>3, <2>4 DEF Joins
  <2> QED BY <2>5
<1>3. Nat \subseteq I
  <2> HIDE DEF I
  <2> QED BY <1>1, <1>2, Induction
<1> QED BY <1>3

\* Concat is the last value of a loop that appends one sequence after the other.
LEMMA ConcatLoop ==
  ASSUME NEW ss, Len(ss) \in Nat
  PROVE  \E g : /\ g[0] = <<>>
                /\ \A i \in 1..Len(ss) : g[i] = g[i - 1] \o ss[i]
                /\ Concat(ss) = g[Len(ss)]
<1> DEFINE n == Len(ss)
           H == CHOOSE g : Joins(g, ss, n)
<1>1. Concat(ss) = H[n]
  BY DEF Concat, Joins, JoinAt
<1>2. n \in Nat
  OBVIOUS
<1> HIDE DEF n
<1>3. \E g : Joins(g, ss, n)
  BY <1>2, JoinExists, Zenon
<1>4. Joins(H, ss, n)
  BY <1>3, Zenon
<1> HIDE DEF H
<1>5. \A i \in 0..n : H[i] = JoinAt(H, ss, i)
  BY <1>4, Zenon DEF Joins
<1>6. H[0] = <<>>
  BY <1>2, <1>5 DEF JoinAt
<1>7. ASSUME NEW i \in 1..n PROVE H[i] = H[i - 1] \o ss[i]
  <2>1. i \in 0..n /\ i # 0
    OBVIOUS
  <2> QED BY <1>5, <2>1, Zenon DEF JoinAt
<1> QED BY <1>1, <1>6, <1>7, Zenon DEF n

\* Sequences over R are put together to a sequence over R; a sequence and an
\* empty one to the first.
LEMMA ConcatType ==
  ASSUME NEW R, NEW ss \in Seq(Seq(R))
  PROVE  /\ Concat(ss) \in Seq(R)
         /\ Len(ss) = 2 /\ ss[2] = <<>> => Concat(ss) = ss[1]
<1> DEFINE n == Len(ss)
<1>1. n \in Nat /\ \A i \in 1..n : ss[i] \in Seq(R)
  BY ElementOfSeq
<1>2. PICK g : /\ g[0] = <<>>
               /\ \A i \in 1..n : g[i] = g[i - 1] \o ss[i]
               /\ Concat(ss) = g[n]
  BY <1>1, ConcatLoop, Zenon
<1>3. n = Len(ss)
  OBVIOUS
<1> HIDE DEF n
<1> DEFINE I == {k \in Nat : k <= n => g[k] \in Seq(R)}
<1>4. 0 \in I
  <2>1. <<>> \in Seq(R) /\ 0 \in Nat
    OBVIOUS
  <2> QED BY <1>2, <2>1, Zenon
<1>5. ASSUME NEW k \in Nat, k \in I PROVE k + 1 \in I
  <2> SUFFICES ASSUME k + 1 <= n PROVE g[k + 1] \in Seq(R)
    OBVIOUS
  <2>1. k + 1 \in 1..n /\ (k + 1) - 1 = k /\ g[k] \in Seq(R)
    BY <1>1, <1>5
  <2>2. g[k + 1] = g[k] \o ss[k + 1] /\ ss[k + 1] \in Seq(R)
    BY <1>1, <1>2, <2>1, Zenon
  <2> QED BY <2>1, <2>2, ConcatProperties
<1>6. Nat \subseteq I
  <2> HIDE DEF I
  <2> QED BY <1>4, <1>5, Induction
<1>7. Concat(ss) \in Seq(R)
  BY <1>1, <1>2, <1>6
<1>8. ASSUME n = 2, ss[2] = <<>> PROVE Concat(ss) = ss[1]
  <2>1. 1 \in 1..n /\ 2 \in 1..n /\ 1 - 1 = 0 /\ 2 - 1 = 1
    BY <1>8
  <2>2. g[1] = <<>> \o ss[1] /\ g[2] = g[1] \o <<>> /\ ss[1] \in Seq(R)
    BY <1>1, <1>2, <1>8, <2>1, Zenon
  <2>3. g[1] = ss[1]
    BY <2>2
  <2>4. g[2] = ss[1]
    BY <2>2, <2>3
  <2> QED BY <1>2, <1>8, <2>4
<1> QED BY <1>3, <1>7, <1>8

-----------------------------------------------------------------------------
(* Sets of numbers *)

\* A bounded set of numbers has a greatest one.
LEMMA Greatest ==
  ASSUME NEW n \in Nat, NEW S \in SUBSET (0..n), S # {}
  PROVE  \E x \in S : \A y \in S : x >= y
<1> DEFINE I == {m \in Nat : \A T \in SUBSET (0..m) : T # {} => \E x \in T : \A y \in T : x >= y}
<1>1. 0 \in I
  <2> SUFFICES ASSUME NEW T \in SUBSET (0..0), T # {}
               PROVE  \E x \in T : \A y \in T : x >= y
    OBVIOUS
  <2>1. PICK x \in T : TRUE
    OBVIOUS
  <2>2. \A y \in T : y \in 0..0
    OBVIOUS
  <2>3. x = 0 /\ \A y \in T : x >= y
    BY <2>1, <2>2
  <2> QED BY <2>3
<1>2. ASSUME NEW m \in Nat, m \in I PROVE m + 1 \in I
  <2> SUFFICES ASSUME NEW T \in SUBSET (0..(m + 1)), T # {}
               PROVE  \E x \in T : \A y \in T : x >= y
    OBVIOUS
  <2>1. CASE m + 1 \in T
    BY <2>1
  <2>2. CASE m + 1 \notin T
    <3>1. T \in SUBSET (0..m)
      BY <2>2
    <3> QED BY <1>2, <3>1
  <2> QED BY <2>1, <2>2
<1>3. Nat \subseteq I
  <2> HIDE DEF I
  <2> QED BY <1>1, <1>2, Induction
<1> QED BY <1>3

\* Moving a finite set of numbers by one does not change how many they are.
LEMMA Shift ==
  ASSUME NEW S \in SUBSET Nat, IsFiniteSet(S), NEW T, T = {i + 1 : i \in S}
  PROVE  IsFiniteSet(T) /\ Cardinality(T) = Cardinality(S)
<1> DEFINE f == [i \in S |-> i + 1]
<1>1. f \in [S -> T] /\ (\A i, j \in S : f[i] = f[j] => i = j) /\ \A t \in T : \E i \in S : f[i] = t
  OBVIOUS
<1> HIDE DEF f
<1>2. f \in Bijection(S, T)
  BY <1>1 DEF Bijection, Injection, Surjection, IsInjective
<1>3. ExistsBijection(S, T)
  BY <1>2 DEF ExistsBijection
<1> QED BY <1>3, FS_Bijection

\* A set of positions has a first one.
LEMMA Least ==
  ASSUME NEW n \in Nat, NEW S \in SUBSET (1..n), S # {}
  PROVE  \E x \in S : \A y \in S : x <= y
<1> DEFINE T == {n - x : x \in S}
<1>0. \A x \in S : n - x \in 0..n
  OBVIOUS
<1>1. T \in SUBSET (0..n) /\ T # {}
  BY <1>0, Zenon
<1>2. \E z \in T : \A y \in T : z >= y
  <2> HIDE DEF T
  <2> QED BY <1>1, Greatest
<1>3. PICK x \in S : \A y \in S : n - x >= n - y
  BY <1>2
<1>4. \A y \in S : x <= y
  BY <1>3
<1> QED BY <1>4
=============================================================================
