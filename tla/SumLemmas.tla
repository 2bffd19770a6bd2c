------------------------------- MODULE SumLemmas -------------------------------
(***************************************************************************)
(* What a sum over a finite set does when an element is added or a summand *)
(* outside the set is changed.  SumFunctionOnSet is a fold, a function     *)
(* defined by recursion over the subsets of the set; the induction is by a *)
(* smallest counterexample, which exists because the subsets of a finite   *)
(* set are well-founded.                                                   *)
(***************************************************************************)
EXTENDS Functions, FiniteSetTheorems, TLAPS

-----------------------------------------------------------------------------
\* The element that the fold takes first.
First(s) == CHOOSE x \in s : TRUE

\* g is the function that the fold defines on the subsets of S.
Iterates(f, S, g) ==
    g = [s \in SUBSET S |-> IF s = {} THEN 0 ELSE f[First(s)] + g[s \ {First(s)}]]

Iteration(f, S) == CHOOSE g : Iterates(f, S, g)

\* The sum, with the fold written out.
LEMMA SumIsIteration ==
    ASSUME NEW f, NEW S
    PROVE  SumFunctionOnSet(f, S) = Iteration(f, S)[S]
BY DEF SumFunctionOnSet, FoldFunctionOnSet, MapThenFoldSet, Iteration, Iterates, First

\* A set of subsets of a finite set has a smallest member.
LEMMA SmallestSubset ==
    ASSUME NEW S, IsFiniteSet(S), NEW B \in SUBSET SUBSET S, B # {}
    PROVE  \E T \in B : \A U \in B : U \subseteq T => U = T
<1>1. B \subseteq FiniteSubsetsOf(S)
    BY FS_Subset DEF FiniteSubsetsOf
<1>2. PICK T \in B : \A U \in B : ~(<<U, T>> \in StrictSubsetOrdering(S))
    BY <1>1, WFMin, FS_StrictSubsetOrderingWellFounded, Zenon
<1> QED
    BY <1>2 DEF StrictSubsetOrdering

LEMMA FirstIsElement ==
    ASSUME NEW s, s # {}
    PROVE  First(s) \in s
BY DEF First

\* Two such functions agree wherever both are defined.
LEMMA IterationUnique ==
    ASSUME NEW f, NEW S, NEW T, NEW g, NEW h, IsFiniteSet(S),
           Iterates(f, S, g), Iterates(f, T, h)
    PROVE  \A s \in SUBSET S : s \in SUBSET T => g[s] = h[s]
<1> SUFFICES ASSUME NEW s0 \in SUBSET S, s0 \in SUBSET T, g[s0] # h[s0] PROVE FALSE
    OBVIOUS
<1> DEFINE B == {s \in SUBSET S : s \in SUBSET T /\ g[s] # h[s]}
<1>0. B \in SUBSET SUBSET S /\ B # {}
    OBVIOUS
<1>1. PICK s \in B : \A u \in B : u \subseteq s => u = s
    <2> HIDE DEF B
    <2> QED
        BY <1>0, SmallestSubset
<1>2. /\ g[s] = IF s = {} THEN 0 ELSE f[First(s)] + g[s \ {First(s)}]
      /\ h[s] = IF s = {} THEN 0 ELSE f[First(s)] + h[s \ {First(s)}]
    BY DEF Iterates
<1>3. s # {}
    BY <1>2
<1>4. g[s \ {First(s)}] = h[s \ {First(s)}]
    BY <1>1, <1>3, FirstIsElement
<1> QED
    BY <1>2, <1>3, <1>4

\* The recursion defines a function.
LEMMA IterationExists ==
    ASSUME NEW f, NEW S, IsFiniteSet(S)
    PROVE  Iterates(f, S, Iteration(f, S))
<1> DEFINE B == {T \in SUBSET S : ~Iterates(f, T, Iteration(f, T))}
<1> SUFFICES ASSUME S \in B PROVE FALSE
    BY S \in SUBSET S
<1>0. B \in SUBSET SUBSET S /\ B # {}
    OBVIOUS
<1>1. PICK T \in B : \A U \in B : U \subseteq T => U = T
    <2> HIDE DEF B
    <2> QED
        BY <1>0, SmallestSubset
<1>2. \A U \in SUBSET T : U # T => Iterates(f, U, Iteration(f, U))
    BY <1>1
<1> DEFINE It(U) == Iteration(f, U)[U]
           G == [s \in SUBSET T |-> IF s = {} THEN 0
                                    ELSE f[First(s)] + It(s \ {First(s)})]
<1>3. ASSUME NEW U \in SUBSET T, U # T
      PROVE  G[U] = It(U)
    <2>1. It(U) = IF U = {} THEN 0
                  ELSE f[First(U)] + Iteration(f, U)[U \ {First(U)}]
        BY <1>2, <1>3 DEF Iterates
    <2>2. CASE U = {}
        BY <2>1, <2>2
    <2>3. CASE U # {}
        <3> DEFINE V == U \ {First(U)}
        <3>1. V \in SUBSET U /\ V \in SUBSET T /\ V # T
            BY <2>3, FirstIsElement
        <3>2. Iterates(f, U, Iteration(f, U)) /\ Iterates(f, V, Iteration(f, V))
            BY <1>2, <1>3, <3>1
        <3>3. IsFiniteSet(U)
            BY FS_Subset
        <3> HIDE DEF V
        <3>4. Iteration(f, U)[V] = Iteration(f, V)[V]
            BY <3>1, <3>2, <3>3, IterationUnique
        <3> QED
            BY <2>1, <2>3, <3>4 DEF V
    <2> QED
        BY <2>2, <2>3
<1>4. Iterates(f, T, G)
    <2>1. ASSUME NEW s \in SUBSET T, s # {}
          PROVE  s \ {First(s)} \in SUBSET T /\ s \ {First(s)} # T
        BY <2>1, FirstIsElement
    <2>2. \A s \in SUBSET T : s # {} => It(s \ {First(s)}) = G[s \ {First(s)}]
        <3> HIDE DEF G, It
        <3> QED
            BY <1>3, <2>1
    <2> HIDE DEF It
    <2>3. G = [s \in SUBSET T |-> IF s = {} THEN 0
                                  ELSE f[First(s)] + G[s \ {First(s)}]]
        BY <2>2
    <2> QED
        BY <2>3 DEF Iterates
<1> QED
    BY <1>1, <1>4 DEF Iteration

-----------------------------------------------------------------------------
\* The empty sum.
LEMMA SumOfNone ==
    ASSUME NEW f
    PROVE  SumFunctionOnSet(f, {}) = 0
<1>1. Iterates(f, {}, Iteration(f, {}))
    BY IterationExists, FS_EmptySet
<1>2. {} \in SUBSET {}
    OBVIOUS
<1>3. Iteration(f, {})[{}] = 0
    BY <1>1, <1>2 DEF Iterates
<1> QED
    BY <1>3, SumIsIteration

\* A sum is its first summand and the rest.
LEMMA SumTakesFirst ==
    ASSUME NEW f, NEW S, IsFiniteSet(S), S # {}
    PROVE  SumFunctionOnSet(f, S)
               = f[First(S)] + SumFunctionOnSet(f, S \ {First(S)})
<1> DEFINE R == S \ {First(S)}
<1>1. IsFiniteSet(R) /\ R \in SUBSET S
    BY FS_Subset
<1>2. Iterates(f, S, Iteration(f, S)) /\ Iterates(f, R, Iteration(f, R))
    BY <1>1, IterationExists
<1> HIDE DEF R
<1>3. Iteration(f, S)[R] = Iteration(f, R)[R]
    BY <1>1, <1>2, IterationUnique
<1>4. Iteration(f, S)[S] = f[First(S)] + Iteration(f, S)[R]
    BY <1>2, S \in SUBSET S DEF Iterates, R
<1> QED
    BY <1>3, <1>4, SumIsIteration DEF R

\* A sum of natural numbers is one.
LEMMA SumType ==
    ASSUME NEW f, NEW S, IsFiniteSet(S), \A x \in S : f[x] \in Nat
    PROVE  SumFunctionOnSet(f, S) \in Nat
<1> DEFINE B == {T \in SUBSET S : SumFunctionOnSet(f, T) \notin Nat}
<1> SUFFICES ASSUME S \in B PROVE FALSE
    BY S \in SUBSET S
<1>0. B \in SUBSET SUBSET S /\ B # {}
    OBVIOUS
<1>1. PICK T \in B : \A U \in B : U \subseteq T => U = T
    <2> HIDE DEF B
    <2> QED
        BY <1>0, SmallestSubset
<1>2. T # {}
    BY SumOfNone
<1>3. First(T) \in T /\ IsFiniteSet(T)
    BY <1>2, FirstIsElement, FS_Subset
<1>4. SumFunctionOnSet(f, T \ {First(T)}) \in Nat
    BY <1>1, <1>3
<1> QED
    BY <1>2, <1>3, <1>4, SumTakesFirst

\* The order of the summands does not matter: any of them can be taken first.
LEMMA SumTakesAny ==
    ASSUME NEW f, NEW S, IsFiniteSet(S), \A x \in S : f[x] \in Nat, NEW a \in S
    PROVE  SumFunctionOnSet(f, S) = f[a] + SumFunctionOnSet(f, S \ {a})
<1> DEFINE Takes(T, b) == SumFunctionOnSet(f, T) = f[b] + SumFunctionOnSet(f, T \ {b})
           B == {T \in SUBSET S : \E b \in T : ~Takes(T, b)}
<1> SUFFICES ASSUME S \in B PROVE FALSE
    BY S \in SUBSET S
<1>0. B \in SUBSET SUBSET S /\ B # {}
    OBVIOUS
<1>1. PICK T \in B : \A U \in B : U \subseteq T => U = T
    <2> HIDE DEF B
    <2> QED
        BY <1>0, SmallestSubset
<1>2. PICK b \in T : ~Takes(T, b)
    OBVIOUS
<1> DEFINE c == First(T)
           R == (T \ {b}) \ {c}
<1>3. c \in T /\ IsFiniteSet(T)
    BY FirstIsElement, FS_Subset
<1>4. Takes(T, c)
    BY <1>3, SumTakesFirst
<1> HIDE DEF c
<1>5. c # b
    BY <1>2, <1>4
<1>6. \A U \in SUBSET T : U # T => \A d \in U : Takes(U, d)
    <2> HIDE DEF Takes
    <2> QED
        BY <1>1
<1>7. (T \ {b}) \ {c} = R /\ (T \ {c}) \ {b} = R
    OBVIOUS
<1>8. IsFiniteSet(R) /\ R \in SUBSET S
    BY <1>3, FS_Subset
<1> HIDE DEF R
<1>9. SumFunctionOnSet(f, T \ {c}) = f[b] + SumFunctionOnSet(f, R)
    <2>1. Takes(T \ {c}, b)
        <3> HIDE DEF Takes
        <3> QED
            BY <1>3, <1>5, <1>6
    <2> QED
        BY <2>1, <1>7
<1>10. SumFunctionOnSet(f, T \ {b}) = f[c] + SumFunctionOnSet(f, R)
    <2>1. Takes(T \ {b}, c)
        <3> HIDE DEF Takes
        <3> QED
            BY <1>3, <1>5, <1>6
    <2> QED
        BY <2>1, <1>7
<1>11. /\ f[b] \in Nat /\ f[c] \in Nat
       /\ SumFunctionOnSet(f, R) \in Nat
    BY <1>3, <1>8, SumType
<1> QED
    BY <1>2, <1>4, <1>9, <1>10, <1>11

\* An element that is added adds its summand.
LEMMA SumAddsElement ==
    ASSUME NEW f, NEW S, IsFiniteSet(S), NEW a, a \notin S,
           \A x \in S \cup {a} : f[x] \in Nat
    PROVE  SumFunctionOnSet(f, S \cup {a}) = f[a] + SumFunctionOnSet(f, S)
<1>1. IsFiniteSet(S \cup {a})
    BY FS_AddElement
<1>2. (S \cup {a}) \ {a} = S
    OBVIOUS
<1> QED
    BY <1>1, <1>2, SumTakesAny

\* Only the summands in the set count.
LEMMA SumSameSummands ==
    ASSUME NEW f, NEW g, NEW S, IsFiniteSet(S), \A x \in S : f[x] = g[x]
    PROVE  SumFunctionOnSet(f, S) = SumFunctionOnSet(g, S)
<1> DEFINE B == {T \in SUBSET S : SumFunctionOnSet(f, T) # SumFunctionOnSet(g, T)}
<1> SUFFICES ASSUME S \in B PROVE FALSE
    BY S \in SUBSET S
<1>0. B \in SUBSET SUBSET S /\ B # {}
    OBVIOUS
<1>1. PICK T \in B : \A U \in B : U \subseteq T => U = T
    <2> HIDE DEF B
    <2> QED
        BY <1>0, SmallestSubset
<1>2. T # {}
    BY SumOfNone
<1> DEFINE c == First(T)
<1>3. c \in T /\ IsFiniteSet(T)
    BY <1>2, FirstIsElement, FS_Subset
<1>4. /\ SumFunctionOnSet(f, T) = f[c] + SumFunctionOnSet(f, T \ {c})
      /\ SumFunctionOnSet(g, T) = g[c] + SumFunctionOnSet(g, T \ {c})
    BY <1>2, <1>3, SumTakesFirst
<1> HIDE DEF c
<1>5. SumFunctionOnSet(f, T \ {c}) = SumFunctionOnSet(g, T \ {c})
    BY <1>1, <1>3
<1> QED
    BY <1>3, <1>4, <1>5

=============================================================================
