---------------------------- MODULE SumTheorems ----------------------------
(***************************************************************************)
(* What SumFunctionOnSet adds up to, for every finite set and every        *)
(* function of natural numbers.  The sum is a fold, and the fold a         *)
(* recursive function: the CHOOSE of a solution of its equation.  Counting *)
(* f[x] coins for every x solves the equation, and no other function does, *)
(* because two solutions would differ on a smallest set.  So a sum is a    *)
(* number of coins, and what it obeys follows from the library's facts     *)
(* about the cardinality of finite sets.                                   *)
(***************************************************************************)
EXTENDS Integers, FiniteSets, FiniteSetTheorems, WellFoundedInduction, TLAPS

Pick(s) == CHOOSE x \in s : TRUE
FoldEquation(f, g, S) ==
  g = [s \in SUBSET S |-> IF s = {} THEN 0 ELSE f[Pick(s)] + g[s \ {Pick(s)}]]

(* f[x] coins for each x of S.                                             *)
Coins(f, S) == {c \in S \X Nat : c[2] < f[c[1]]}

-----------------------------------------------------------------------------
(* The sum is the CHOOSE its recursive function stands for.                *)
LEMMA Unfold ==
  ASSUME NEW f, NEW S
  PROVE  SumFunctionOnSet(f, S) = (CHOOSE g : FoldEquation(f, g, S))[S]
  BY DEF SumFunctionOnSet, FoldFunctionOnSet, MapThenFoldSet, FoldEquation, Pick

(* The n coins of one element.                                             *)
LEMMA CoinsOne ==
  ASSUME NEW x, NEW n \in Nat
  PROVE  /\ IsFiniteSet({x} \X (0..(n-1)))
         /\ Cardinality({x} \X (0..(n-1))) = n
<1> DEFINE b == [k \in 1..n |-> <<x, k - 1>>]
           T == {x} \X (0..(n-1))
<1>1. b \in [1..n -> T]
  OBVIOUS
<1>2. \A j, k \in 1..n : b[j] = b[k] => j = k
  OBVIOUS
<1>3. \A c \in T : \E k \in 1..n : b[k] = c
  <2> TAKE c \in T
  <2>1. c[2] + 1 \in 1..n /\ c = <<x, c[2]>>
    OBVIOUS
  <2>2. b[c[2] + 1] = <<x, c[2]>>
    BY <2>1
  <2> QED BY <2>1, <2>2
<1>4. b \in Bijection(1..n, T)
  BY <1>1, <1>2, <1>3 DEF Bijection, Injection, Surjection, IsInjective
<1>5. IsFiniteSet(1..n) /\ Cardinality(1..n) = n
  BY FS_Interval
<1>6. ExistsBijection(1..n, T)
  BY <1>4 DEF ExistsBijection
<1> QED BY <1>5, <1>6, FS_Bijection

(* No element, no coins.                                                   *)
LEMMA CoinsEmpty ==
  ASSUME NEW f
  PROVE  IsFiniteSet(Coins(f, {})) /\ Cardinality(Coins(f, {})) = 0
<1>1. Coins(f, {}) = {}
  BY DEF Coins
<1> QED BY <1>1, FS_EmptySet

(* One more element adds its coins.                                        *)
LEMMA CoinsAdd ==
  ASSUME NEW f, NEW S, NEW x \in S, f[x] \in Nat, IsFiniteSet(Coins(f, S \ {x}))
  PROVE  /\ IsFiniteSet(Coins(f, S))
         /\ Cardinality(Coins(f, S)) = f[x] + Cardinality(Coins(f, S \ {x}))
<1> DEFINE A == Coins(f, S \ {x})
           B == {x} \X (0..(f[x]-1))
<1>1. Coins(f, S) = A \cup B
  BY DEF Coins
<1>2. A \cap B = {}
  BY DEF Coins
<1>3. IsFiniteSet(B) /\ Cardinality(B) = f[x]
  BY CoinsOne
<1>4. Cardinality(A \cap B) = 0
  BY <1>2, FS_EmptySet
<1>5. Cardinality(A) \in Nat
  BY FS_CardinalityType
<1>6. IsFiniteSet(A \cup B) /\ Cardinality(A \cup B) = Cardinality(A) + f[x] - 0
  <2> HIDE DEF A, B
  <2>1. IsFiniteSet(A)
    BY DEF A
  <2> QED BY <2>1, <1>3, <1>4, FS_Union
<1> HIDE DEF A, B
<1> QED BY <1>1, <1>5, <1>6 DEF A

(* A collection of finite sets that is not empty has a smallest one: what  *)
(* induction over finite sets says of a set of counterexamples.            *)
LEMMA Smallest ==
  ASSUME NEW S, IsFiniteSet(S), NEW W, W \subseteq SUBSET S, W # {}
  PROVE  \E T \in W : \A x \in T : T \ {x} \notin W
<1>1. IsWellFoundedOn(StrictSubsetOrdering(S), SUBSET S)
  BY FS_StrictSubsetOrderingWellFounded, FS_FiniteSubsetsOfFinite
<1>2. PICK T \in W : \A U \in W : ~(<<U, T>> \in StrictSubsetOrdering(S))
  BY <1>1, WFMin
<1>3. ASSUME NEW x \in T, T \ {x} \in W
      PROVE  FALSE
  BY <1>2, <1>3 DEF StrictSubsetOrdering
<1> QED BY <1>2, <1>3

(* So a collection that has the empty set, and with a set less an element  *)
(* the set itself, has every finite set: induction on a set's size.        *)
LEMMA Grows ==
  ASSUME NEW S, IsFiniteSet(S), NEW G, {} \in G,
         \A T \in SUBSET S : \A x \in T : T \ {x} \in G => T \in G
  PROVE  S \in G
<1> DEFINE W == (SUBSET S) \ G
<1>1. SUFFICES ASSUME W # {} PROVE FALSE
  OBVIOUS
<1>2. PICK T \in W : \A x \in T : T \ {x} \notin W
  BY <1>1, Smallest
<1>3. T # {}
  BY <1>2
<1>4. PICK x \in T : TRUE
  BY <1>3
<1>5. T \ {x} \in G
  BY <1>2, <1>4
<1> QED BY <1>2, <1>4, <1>5

(* Finitely many elements have finitely many coins.                        *)
LEMMA CoinsFinite ==
  ASSUME NEW f, NEW S, IsFiniteSet(S), \A x \in S : f[x] \in Nat
  PROVE  \A T \in SUBSET S : IsFiniteSet(Coins(f, T))
<1> DEFINE W == {T \in SUBSET S : ~IsFiniteSet(Coins(f, T))}
<1>1. SUFFICES ASSUME W # {} PROVE FALSE
  OBVIOUS
<1>2. PICK T \in W : \A x \in T : T \ {x} \notin W
  BY <1>1, Smallest
<1>3. T # {}
  BY <1>2, CoinsEmpty
<1>4. PICK x \in T : TRUE
  BY <1>3
<1>5. IsFiniteSet(Coins(f, T \ {x}))
  BY <1>2, <1>4
<1> QED BY <1>2, <1>4, <1>5, CoinsAdd

(* The element the fold takes next is one of those left.                   *)
LEMMA PickIn ==
  ASSUME NEW s, s # {}
  PROVE  Pick(s) \in s
  BY DEF Pick

(* The numbers of coins solve the fold's equation ...                      *)
LEMMA CountSolves ==
  ASSUME NEW f, NEW S, IsFiniteSet(S), \A x \in S : f[x] \in Nat
  PROVE  FoldEquation(f, [s \in SUBSET S |-> Cardinality(Coins(f, s))], S)
<1> DEFINE C == [s \in SUBSET S |-> Cardinality(Coins(f, s))]
<1>1. ASSUME NEW s \in SUBSET S
      PROVE  C[s] = IF s = {} THEN 0 ELSE f[Pick(s)] + C[s \ {Pick(s)}]
  <2>1. CASE s = {}
    BY <2>1, CoinsEmpty
  <2>2. CASE s # {}
    <3>1. Pick(s) \in s
      BY <2>2, PickIn
    <3>2. IsFiniteSet(Coins(f, s \ {Pick(s)}))
      BY CoinsFinite
    <3>3. Cardinality(Coins(f, s)) = f[Pick(s)] + Cardinality(Coins(f, s \ {Pick(s)}))
      BY <3>1, <3>2, CoinsAdd
    <3>4. s \ {Pick(s)} \in SUBSET S
      OBVIOUS
    <3> QED BY <2>2, <3>3, <3>4
  <2> QED BY <2>1, <2>2
<1>2. C = [s \in SUBSET S |-> IF s = {} THEN 0 ELSE f[Pick(s)] + C[s \ {Pick(s)}]]
  <2> HIDE DEF C
  <2>1. C = [s \in SUBSET S |-> C[s]]
    BY DEF C
  <2> QED BY <1>1, <2>1
<1> QED BY <1>2 DEF FoldEquation

(* ... and nothing else does.                                              *)
LEMMA OneSolution ==
  ASSUME NEW f, NEW S, IsFiniteSet(S), NEW g, NEW h, FoldEquation(f, g, S), FoldEquation(f, h, S)
  PROVE  \A s \in SUBSET S : g[s] = h[s]
<1> DEFINE W == {s \in SUBSET S : g[s] # h[s]}
<1>1. SUFFICES ASSUME W # {} PROVE FALSE
  OBVIOUS
<1>2. PICK T \in W : \A x \in T : T \ {x} \notin W
  BY <1>1, Smallest
<1>3. g[T] = (IF T = {} THEN 0 ELSE f[Pick(T)] + g[T \ {Pick(T)}])
  BY DEF FoldEquation
<1>4. h[T] = (IF T = {} THEN 0 ELSE f[Pick(T)] + h[T \ {Pick(T)}])
  BY DEF FoldEquation
<1>5. T # {}
  BY <1>2, <1>3, <1>4
<1>6. Pick(T) \in T
  BY <1>5, PickIn
<1>7. T \ {Pick(T)} \notin W /\ T \ {Pick(T)} \in SUBSET S
  BY <1>2, <1>6
<1> QED BY <1>2, <1>3, <1>4, <1>7

(* A sum of natural numbers over a finite set is a number of coins.        *)
THEOREM SumIsCount ==
  ASSUME NEW f, NEW S, IsFiniteSet(S), \A x \in S : f[x] \in Nat
  PROVE  SumFunctionOnSet(f, S) = Cardinality(Coins(f, S))
<1> DEFINE C == [s \in SUBSET S |-> Cardinality(Coins(f, s))]
           g == CHOOSE h : FoldEquation(f, h, S)
<1>1. FoldEquation(f, C, S)
  BY CountSolves
<1> HIDE DEF C
<1>2. FoldEquation(f, g, S)
  BY <1>1
<1> HIDE DEF g
<1>3. g[S] = C[S]
  BY <1>1, <1>2, OneSolution
<1>4. SumFunctionOnSet(f, S) = g[S]
  BY Unfold DEF g
<1> QED BY <1>3, <1>4 DEF C

-----------------------------------------------------------------------------
(* A sum of natural numbers is one.                                        *)
LEMMA SumNat ==
  ASSUME NEW f, NEW S, IsFiniteSet(S), \A x \in S : f[x] \in Nat
  PROVE  SumFunctionOnSet(f, S) \in Nat
  BY SumIsCount, CoinsFinite, FS_CardinalityType

(* The sum over no elements.                                               *)
LEMMA SumEmpty ==
  ASSUME NEW f
  PROVE  SumFunctionOnSet(f, {}) = 0
  BY SumIsCount, CoinsEmpty, FS_EmptySet

(* An element's part can be taken out.                                     *)
LEMMA SumAdd ==
  ASSUME NEW f, NEW S, IsFiniteSet(S), \A y \in S : f[y] \in Nat, NEW x \in S
  PROVE  SumFunctionOnSet(f, S) = f[x] + SumFunctionOnSet(f, S \ {x})
<1>1. IsFiniteSet(S \ {x})
  BY FS_RemoveElement
<1>2. IsFiniteSet(Coins(f, S \ {x}))
  BY CoinsFinite
<1>3. Cardinality(Coins(f, S)) = f[x] + Cardinality(Coins(f, S \ {x}))
  BY <1>2, CoinsAdd
<1> QED BY <1>1, <1>3, SumIsCount

(* Only the values on the set count.                                       *)
LEMMA SumSame ==
  ASSUME NEW f, NEW g, NEW S, IsFiniteSet(S), \A x \in S : f[x] \in Nat,
         \A x \in S : f[x] = g[x]
  PROVE  SumFunctionOnSet(f, S) = SumFunctionOnSet(g, S)
<1>1. Coins(f, S) = Coins(g, S)
  BY DEF Coins
<1>2. \A x \in S : g[x] \in Nat
  OBVIOUS
<1> QED BY <1>1, <1>2, SumIsCount

(* A sum over a set is that over a part and that over the rest.            *)
LEMMA SumSplit ==
  ASSUME NEW f, NEW S, IsFiniteSet(S), \A x \in S : f[x] \in Nat, NEW T \in SUBSET S
  PROVE  SumFunctionOnSet(f, S) = SumFunctionOnSet(f, T) + SumFunctionOnSet(f, S \ T)
<1> DEFINE A == Coins(f, T)
           B == Coins(f, S \ T)
<1>1. Coins(f, S) = A \cup B /\ A \cap B = {}
  BY DEF Coins
<1>2. IsFiniteSet(A) /\ IsFiniteSet(B)
  BY CoinsFinite
<1>3. IsFiniteSet(T) /\ IsFiniteSet(S \ T)
  BY FS_Subset
<1>4. SumFunctionOnSet(f, S) = Cardinality(A \cup B) /\ SumFunctionOnSet(f, T) = Cardinality(A)
      /\ SumFunctionOnSet(f, S \ T) = Cardinality(B)
  BY <1>1, <1>3, SumIsCount
<1> HIDE DEF A, B
<1>5. Cardinality(A) \in Nat /\ Cardinality(B) \in Nat
  BY <1>2, FS_CardinalityType
<1>6. Cardinality(A \cup B) = Cardinality(A) + Cardinality(B)
  BY <1>1, <1>2, <1>5, FS_Union, FS_EmptySet
<1> QED BY <1>4, <1>6

(* Two sums that agree but for one element differ by that element's parts: *)
(* what one row's change does to a sum over a table.                       *)
LEMMA SumChange ==
  ASSUME NEW f, NEW A, IsFiniteSet(A), \A y \in A : f[y] \in Nat,
         NEW g, NEW B, IsFiniteSet(B), \A y \in B : g[y] \in Nat,
         NEW x, A \ {x} = B \ {x}, \A y \in A \ {x} : f[y] = g[y]
  PROVE  SumFunctionOnSet(f, A) + (IF x \in B THEN g[x] ELSE 0)
         = SumFunctionOnSet(g, B) + (IF x \in A THEN f[x] ELSE 0)
<1> DEFINE R == SumFunctionOnSet(f, A \ {x})
<1>0. IsFiniteSet(A \ {x})
  BY FS_RemoveElement
<1>1. R = SumFunctionOnSet(g, B \ {x}) /\ R \in Nat
  BY <1>0, SumSame, SumNat
<1>2. SumFunctionOnSet(f, A) = R + (IF x \in A THEN f[x] ELSE 0)
  <2>1. CASE x \in A
    BY <2>1, <1>1, SumAdd
  <2>2. CASE x \notin A
    <3>1. A \ {x} = A
      BY <2>2
    <3>2. SumFunctionOnSet(f, A) = R
      BY <3>1
    <3> HIDE DEF R
    <3> QED BY <2>2, <3>2, <1>1
  <2> QED BY <2>1, <2>2
<1>3. SumFunctionOnSet(g, B) = R + (IF x \in B THEN g[x] ELSE 0)
  <2>1. CASE x \in B
    BY <2>1, <1>1, SumAdd
  <2>2. CASE x \notin B
    <3>1. B \ {x} = B
      BY <2>2
    <3>2. SumFunctionOnSet(g, B) = R
      BY <3>1, <1>1
    <3> HIDE DEF R
    <3> QED BY <2>2, <3>2, <1>1
  <2> QED BY <2>1, <2>2
<1> HIDE DEF R
<1>4. (IF x \in A THEN f[x] ELSE 0) \in Nat /\ (IF x \in B THEN g[x] ELSE 0) \in Nat
  OBVIOUS
<1> QED BY <1>1, <1>2, <1>3, <1>4

(* A sum over a function's own domain, written as one over a set.          *)
LEMMA SumIs ==
  ASSUME NEW f, NEW S, IsFiniteSet(S), S = DOMAIN f, \A x \in S : f[x] \in Nat,
         NEW g, \A x \in S : f[x] = g[x]
  PROVE  SumFunction(f) = SumFunctionOnSet(g, S) /\ SumFunction(f) \in Nat
<1>1. SumFunction(f) = SumFunctionOnSet(f, S)
  BY DEF SumFunction
<1> QED BY <1>1, SumSame, SumNat
=============================================================================
