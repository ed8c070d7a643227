---------------------------- MODULE SumTheorems ----------------------------
(* Facts about SumFunctionOnSet and SumFunction of the Functions module: what *)
(* the sum of a function over a finite set is, and how it changes with the    *)
(* set and with the function.                                                 *)
EXTENDS FiniteSetTheorems, TLAPS

-----------------------------------------------------------------------------
\* Induction over the subsets of a finite set. The property is given as the
\* set G of the sets that have it.

LEMMA SubsetInduction ==
    ASSUME NEW S, IsFiniteSet(S), NEW G,
           \A A \in SUBSET S : (\A B \in SUBSET A : B # A => B \in G) => A \in G
    PROVE  \A A \in SUBSET S : A \in G
<1> DEFINE Bad == {A \in SUBSET S : A \notin G}
<1>1. SUFFICES ASSUME Bad # {} PROVE FALSE
    OBVIOUS
<1>2. IsWellFoundedOn(StrictSubsetOrdering(S), SUBSET S)
    BY FS_StrictSubsetOrderingWellFounded, FS_FiniteSubsetsOfFinite
<1>3. PICK A \in Bad : \A B \in Bad : <<B, A>> \notin StrictSubsetOrdering(S)
    <2> Bad \subseteq SUBSET S
        OBVIOUS
    <2> HIDE DEF Bad
    <2> QED  BY <1>1, <1>2, WFMin
<1>4. ASSUME NEW B \in SUBSET A, B # A PROVE B \in G
    BY <1>3, <1>4 DEF StrictSubsetOrdering
<1> QED  BY <1>3, <1>4

-----------------------------------------------------------------------------
\* The recursive equation. SumFunctionOnSet(f, A) is the value at A of a
\* function g on the subsets of A that satisfies IsSum(f, g, A).

Pick(s) == CHOOSE x \in s : TRUE

IsSum(f, g, A) ==
    g = [s \in SUBSET A |-> IF s = {} THEN 0 ELSE f[Pick(s)] + g[s \ {Pick(s)}]]

LEMMA SumIsChosen ==
    ASSUME NEW f, NEW A
    PROVE  SumFunctionOnSet(f, A) = (CHOOSE g : IsSum(f, g, A))[A]
BY DEF SumFunctionOnSet, FoldFunctionOnSet, MapThenFoldSet, IsSum, Pick

LEMMA PickInSet == ASSUME NEW s, s # {} PROVE Pick(s) \in s
BY DEF Pick

\* Two such functions agree where both are defined.
LEMMA SumUnique ==
    ASSUME NEW f, NEW A, IsFiniteSet(A), NEW B, NEW g, NEW h,
           IsSum(f, g, A), IsSum(f, h, B)
    PROVE  \A s \in SUBSET A : s \in SUBSET B => g[s] = h[s]
<1> DEFINE Same == {s \in SUBSET A : s \in SUBSET B => g[s] = h[s]}
<1>1. ASSUME NEW s \in SUBSET A, \A t \in SUBSET s : t # s => t \in Same
      PROVE  s \in Same
    <2>1. CASE s = {}
        BY <2>1 DEF IsSum
    <2>2. CASE s # {} /\ s \in SUBSET B
        <3> DEFINE t == s \ {Pick(s)}
        <3>1. t \in SUBSET s /\ t # s
            BY <2>2, PickInSet
        <3>2. g[t] = h[t]
            BY <1>1, <2>2, <3>1
        <3>3. g[s] = f[Pick(s)] + g[t]
            BY <2>2 DEF IsSum
        <3>4. h[s] = f[Pick(s)] + h[t]
            BY <2>2 DEF IsSum
        <3> QED  BY <3>2, <3>3, <3>4
    <2>3. CASE s \notin SUBSET B
        BY <2>3
    <2> QED  BY <2>1, <2>2, <2>3
<1> HIDE DEF Same
<1>2. \A s \in SUBSET A : s \in Same
    BY <1>1, SubsetInduction
<1> QED  BY <1>2 DEF Same

\* There is one for every finite set.
LEMMA SumExists ==
    ASSUME NEW f, NEW S, IsFiniteSet(S)
    PROVE  \E g : IsSum(f, g, S)
<1> DEFINE G == {A \in SUBSET S : \E g : IsSum(f, g, A)}
<1>1. ASSUME NEW A \in SUBSET S, \A B \in SUBSET A : B # A => B \in G
      PROVE  A \in G
    <2> DEFINE I(B) == CHOOSE g : IsSum(f, g, B)
    <2> DEFINE top == IF A = {} THEN 0 ELSE f[Pick(A)] + I(A \ {Pick(A)})[A \ {Pick(A)}]
    <2> DEFINE g == [s \in SUBSET A |-> IF s = A THEN top ELSE I(s)[s]]
    <2>1. \A B \in SUBSET A : B # A => IsSum(f, I(B), B)
        BY <1>1
    <2> HIDE DEF I
    <2>2. IsSum(f, g, A)
        <3>1. ASSUME NEW s \in SUBSET A, s # {}
              PROVE  g[s] = f[Pick(s)] + g[s \ {Pick(s)}]
            <4> DEFINE t == s \ {Pick(s)}
            <4>1. t \in SUBSET A /\ t # A /\ t # s /\ t \in SUBSET s
                BY <3>1, PickInSet
            <4>2. g[t] = I(t)[t]
                BY <4>1
            <4>3. CASE s = A
                BY <3>1, <4>2, <4>3
            <4>4. CASE s # A
                <5>1. I(s)[s] = f[Pick(s)] + I(s)[t]
                    BY <2>1, <3>1, <4>4 DEF IsSum
                <5>2. I(s)[t] = I(t)[t]
                    <6>1. IsFiniteSet(s)
                        BY FS_Subset
                    <6>2. IsSum(f, I(s), s) /\ IsSum(f, I(t), t)
                        BY <2>1, <4>1, <4>4
                    <6> HIDE DEF t
                    <6> QED  BY <4>1, <6>1, <6>2, SumUnique
                <5>3. g[s] = I(s)[s]
                    BY <4>4
                <5> QED  BY <4>2, <5>1, <5>2, <5>3
            <4> QED  BY <4>3, <4>4
        <3>2. ASSUME NEW s \in SUBSET A, s = {} PROVE g[s] = 0
            <4>1. CASE A = {}
                BY <3>2, <4>1
            <4>2. CASE A # {}
                BY <2>1, <3>2, <4>2 DEF IsSum
            <4> QED  BY <4>1, <4>2
        <3>3. g = [s \in SUBSET A |-> g[s]]
            OBVIOUS
        <3> HIDE DEF g
        <3> QED  BY <3>1, <3>2, <3>3 DEF IsSum
    <2> QED  BY <2>2
<1> HIDE DEF G
<1>2. S \in G
    BY <1>1, SubsetInduction
<1> QED  BY <1>2 DEF G

\* The sum over the empty set, and over a set an element of which is picked.
LEMMA SumEmpty ==
    ASSUME NEW f
    PROVE  SumFunctionOnSet(f, {}) = 0
<1> DEFINE g == CHOOSE h : IsSum(f, h, {})
<1>1. IsSum(f, g, {})
    BY SumExists, FS_EmptySet
<1>2. g[{}] = 0
    <2> HIDE DEF g
    <2> QED  BY <1>1 DEF IsSum
<1> QED  BY <1>2, SumIsChosen

LEMMA SumPicked ==
    ASSUME NEW f, NEW S, IsFiniteSet(S), S # {}
    PROVE  SumFunctionOnSet(f, S) = f[Pick(S)] + SumFunctionOnSet(f, S \ {Pick(S)})
<1> DEFINE T == S \ {Pick(S)}
<1> DEFINE g == CHOOSE h : IsSum(f, h, S)
<1> DEFINE h == CHOOSE k : IsSum(f, k, T)
<1>1. IsFiniteSet(T) /\ T \in SUBSET S /\ T \in SUBSET T
    BY FS_Subset
<1> HIDE DEF T
<1>2. IsSum(f, g, S) /\ IsSum(f, h, T)
    BY <1>1, SumExists
<1>3. SumFunctionOnSet(f, S) = g[S] /\ SumFunctionOnSet(f, T) = h[T]
    BY SumIsChosen
<1> HIDE DEF g, h
<1>4. \A s \in SUBSET S : s \in SUBSET T => g[s] = h[s]
    BY <1>2, SumUnique
<1>5. g[S] = f[Pick(S)] + g[S \ {Pick(S)}]
    BY <1>2 DEF IsSum
<1> QED  BY <1>1, <1>3, <1>4, <1>5 DEF T

-----------------------------------------------------------------------------
\* The sum of integers is an integer, and the order does not matter: any
\* element can be taken out.

LEMMA SumInt ==
    ASSUME NEW S, IsFiniteSet(S), NEW f, \A x \in S : f[x] \in Int
    PROVE  SumFunctionOnSet(f, S) \in Int
<1> DEFINE G == {A \in SUBSET S : SumFunctionOnSet(f, A) \in Int}
<1>1. ASSUME NEW A \in SUBSET S, \A B \in SUBSET A : B # A => B \in G
      PROVE  A \in G
    <2>1. CASE A = {}
        BY <2>1, SumEmpty
    <2>2. CASE A # {}
        <3>1. IsFiniteSet(A)
            BY FS_Subset
        <3>2. Pick(A) \in A
            BY <2>2, PickInSet
        <3>3. SumFunctionOnSet(f, A \ {Pick(A)}) \in Int
            BY <1>1, <3>2
        <3>4. f[Pick(A)] \in Int
            BY <3>2
        <3>5. SumFunctionOnSet(f, A) = f[Pick(A)] + SumFunctionOnSet(f, A \ {Pick(A)})
            BY <2>2, <3>1, SumPicked
        <3> QED  BY <3>3, <3>4, <3>5
    <2> QED  BY <2>1, <2>2
<1> HIDE DEF G
<1>2. S \in G
    BY <1>1, SubsetInduction
<1> QED  BY <1>2 DEF G

LEMMA SumRemove ==
    ASSUME NEW S, IsFiniteSet(S), NEW f, \A x \in S : f[x] \in Int, NEW x \in S
    PROVE  SumFunctionOnSet(f, S) = f[x] + SumFunctionOnSet(f, S \ {x})
<1> DEFINE G == {A \in SUBSET S :
                    \A y \in A : SumFunctionOnSet(f, A) = f[y] + SumFunctionOnSet(f, A \ {y})}
<1>0. \A A \in SUBSET S : SumFunctionOnSet(f, A) \in Int
    BY FS_Subset, SumInt
<1>1. ASSUME NEW A \in SUBSET S, \A B \in SUBSET A : B # A => B \in G
      PROVE  A \in G
    <2>1. SUFFICES ASSUME NEW y \in A
                   PROVE  SumFunctionOnSet(f, A) = f[y] + SumFunctionOnSet(f, A \ {y})
        OBVIOUS
    <2> DEFINE p == Pick(A)
    <2> DEFINE C == A \ {p}
    <2> DEFINE D == A \ {y}
    <2>2. p \in A
        BY PickInSet
    <2>3. SumFunctionOnSet(f, A) = f[p] + SumFunctionOnSet(f, C)
        BY FS_Subset, SumPicked
    <2>4. CASE y = p
        BY <2>3, <2>4
    <2>5. CASE y # p
        <3>1. C \in G /\ D \in G /\ y \in C /\ p \in D
            BY <1>1, <2>2, <2>5
        <3>2. SumFunctionOnSet(f, C) = f[y] + SumFunctionOnSet(f, C \ {y})
            BY <3>1
        <3>3. SumFunctionOnSet(f, D) = f[p] + SumFunctionOnSet(f, D \ {p})
            BY <3>1
        <3>4. SumFunctionOnSet(f, D \ {p}) = SumFunctionOnSet(f, C \ {y})
            <4>1. D \ {p} = C \ {y}
                OBVIOUS
            <4> HIDE DEF C, D, p
            <4> QED  BY <4>1
        <3>5. f[y] \in Int /\ f[p] \in Int /\ SumFunctionOnSet(f, C \ {y}) \in Int
            BY <1>0, <2>2
        <3> HIDE DEF C, D, p
        <3>6. SumFunctionOnSet(f, A) = f[y] + SumFunctionOnSet(f, D)
            BY <2>3, <3>2, <3>3, <3>4, <3>5
        <3> QED  BY <3>6 DEF D
    <2> QED  BY <2>4, <2>5
<1> HIDE DEF G
<1>2. S \in G
    BY <1>1, SubsetInduction
<1> QED  BY <1>2 DEF G

\* The same for an element put in.
LEMMA SumAdd ==
    ASSUME NEW S, IsFiniteSet(S), NEW x, x \notin S,
           NEW f, \A y \in S \cup {x} : f[y] \in Int
    PROVE  SumFunctionOnSet(f, S \cup {x}) = f[x] + SumFunctionOnSet(f, S)
<1>1. IsFiniteSet(S \cup {x}) /\ (S \cup {x}) \ {x} = S
    BY FS_AddElement
<1> QED  BY <1>1, SumRemove

\* A sum of natural numbers is one.
LEMMA SumNat ==
    ASSUME NEW S, IsFiniteSet(S), NEW f, \A x \in S : f[x] \in Nat
    PROVE  SumFunctionOnSet(f, S) \in Nat
<1> DEFINE G == {A \in SUBSET S : SumFunctionOnSet(f, A) \in Nat}
<1>1. ASSUME NEW A \in SUBSET S, \A B \in SUBSET A : B # A => B \in G
      PROVE  A \in G
    <2>1. CASE A = {}
        BY <2>1, SumEmpty
    <2>2. CASE A # {}
        <3>1. PICK x \in A : TRUE
            BY <2>2
        <3>2. SumFunctionOnSet(f, A) = f[x] + SumFunctionOnSet(f, A \ {x})
            <4>1. IsFiniteSet(A) /\ \A y \in A : f[y] \in Int
                BY FS_Subset
            <4> QED  BY <4>1, SumRemove
        <3>3. SumFunctionOnSet(f, A \ {x}) \in Nat /\ f[x] \in Nat
            BY <1>1
        <3> QED  BY <3>2, <3>3
    <2> QED  BY <2>1, <2>2
<1> HIDE DEF G
<1>2. S \in G
    BY <1>1, SubsetInduction
<1> QED  BY <1>2 DEF G

-----------------------------------------------------------------------------
\* How the sum depends on the function.

LEMMA SumMonotone ==
    ASSUME NEW S, IsFiniteSet(S), NEW f, NEW g,
           \A x \in S : f[x] \in Int /\ g[x] \in Int /\ f[x] <= g[x]
    PROVE  SumFunctionOnSet(f, S) <= SumFunctionOnSet(g, S)
<1> DEFINE G == {A \in SUBSET S : SumFunctionOnSet(f, A) <= SumFunctionOnSet(g, A)}
<1>0. \A A \in SUBSET S : SumFunctionOnSet(f, A) \in Int /\ SumFunctionOnSet(g, A) \in Int
    BY FS_Subset, SumInt
<1>1. ASSUME NEW A \in SUBSET S, \A B \in SUBSET A : B # A => B \in G
      PROVE  A \in G
    <2>1. CASE A = {}
        BY <2>1, SumEmpty
    <2>2. CASE A # {}
        <3>1. PICK x \in A : TRUE
            BY <2>2
        <3> DEFINE B == A \ {x}
        <3>2. /\ SumFunctionOnSet(f, A) = f[x] + SumFunctionOnSet(f, B)
              /\ SumFunctionOnSet(g, A) = g[x] + SumFunctionOnSet(g, B)
            BY FS_Subset, SumRemove
        <3>3. SumFunctionOnSet(f, B) <= SumFunctionOnSet(g, B)
            BY <1>1
        <3>4. /\ f[x] \in Int /\ g[x] \in Int /\ f[x] <= g[x]
              /\ SumFunctionOnSet(f, B) \in Int /\ SumFunctionOnSet(g, B) \in Int
            BY <1>0
        <3> HIDE DEF B
        <3>5. SumFunctionOnSet(f, A) <= SumFunctionOnSet(g, A)
            BY <3>2, <3>3, <3>4
        <3> QED  BY <3>5
    <2> QED  BY <2>1, <2>2
<1> HIDE DEF G
<1>2. S \in G
    BY <1>1, SubsetInduction
<1> QED  BY <1>2 DEF G

LEMMA SumSame ==
    ASSUME NEW S, IsFiniteSet(S), NEW f, NEW g,
           \A x \in S : f[x] \in Int /\ g[x] = f[x]
    PROVE  SumFunctionOnSet(g, S) = SumFunctionOnSet(f, S)
<1>1. /\ SumFunctionOnSet(f, S) <= SumFunctionOnSet(g, S)
      /\ SumFunctionOnSet(g, S) <= SumFunctionOnSet(f, S)
    BY SumMonotone
<1>2. SumFunctionOnSet(f, S) \in Int /\ SumFunctionOnSet(g, S) \in Int
    BY SumInt
<1> QED  BY <1>1, <1>2
=============================================================================
