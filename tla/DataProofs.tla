------------------------------ MODULE DataProofs -------------------------------
(***************************************************************************)
(* What SumFunctionOnSet adds up to, and what is left of a list.  The      *)
(* library defines a sum by recursion over the set of indices, in an order *)
(* it leaves open; these lemmas show that the sum has a value, and that    *)
(* the order is of no consequence.                                         *)
(***************************************************************************)
EXTENDS Lists, SequencesExt, FiniteSetTheorems, SequenceTheorems, TLAPS

\* Induction over the subsets of a finite set, stated of a set of subsets: one
\* that contains a subset as soon as it contains it without any one element
\* contains them all.
LEMMA SubsetsReached ==
    ASSUME NEW S, IsFiniteSet(S), NEW Reached,
           \A T \in SUBSET S : (\A x \in T : T \ {x} \in Reached) => T \in Reached
    PROVE  \A T \in SUBSET S : T \in Reached
<1> DEFINE Missed == {T \in SUBSET S : T \notin Reached}
<1>1. SUFFICES ASSUME Missed # {} PROVE FALSE
  OBVIOUS
<1>2. FiniteSubsetsOf(S) = SUBSET S
  BY FS_FiniteSubsetsOfFinite
<1>3. PICK T \in Missed : \A U \in Missed : ~(<<U, T>> \in StrictSubsetOrdering(S))
  <2>1. Missed \subseteq FiniteSubsetsOf(S)
    BY <1>2
  <2>2. IsWellFoundedOn(StrictSubsetOrdering(S), FiniteSubsetsOf(S))
    BY FS_StrictSubsetOrderingWellFounded
  <2> HIDE DEF Missed
  <2>3. QED
    BY <1>1, <2>1, <2>2, WFMin
<1>4. ASSUME NEW x \in T
      PROVE  T \ {x} \in Reached
  <2>1. <<T \ {x}, T>> \in StrictSubsetOrdering(S)
    BY <1>3 DEF StrictSubsetOrdering
  <2>2. QED
    BY <1>3, <2>1
<1>5. QED
  BY <1>3, <1>4

\* Induction over the natural numbers, stated of a set of numbers.
LEMMA NumbersReached ==
    ASSUME NEW Reached, 0 \in Reached,
           \A n \in Nat : n \in Reached => n + 1 \in Reached
    PROVE  \A n \in Nat : n \in Reached
<1> DEFINE Missed == {n \in Nat : n \notin Reached}
           Below == OpToRel(<, Nat)
<1>1. SUFFICES ASSUME Missed # {} PROVE FALSE
  OBVIOUS
<1>2. IsWellFoundedOn(Below, Nat)
  BY NatLessThanWellFounded
<1>3. PICK n \in Missed : \A m \in Missed : ~(<<m, n>> \in Below)
  <2>1. Missed \subseteq Nat
    OBVIOUS
  <2> HIDE DEF Missed, Below
  <2>2. QED
    BY <1>1, <1>2, <2>1, WFMin
<1>4. \A m \in Missed : ~(m < n)
  BY <1>3 DEF OpToRel
<1>5. n # 0 /\ n \in Nat /\ n - 1 \in Nat
  OBVIOUS
<1>6. n - 1 \in Reached
  BY <1>4, <1>5
<1>7. QED
  BY <1>5, <1>6

--------------------------------------------------------------------------------

Chosen(T) == CHOOSE x \in T : TRUE

\* The equation of the library's recursion, up to sets of n elements
SumsUpTo(f, S, n, g) ==
    \A T \in SUBSET S : Cardinality(T) <= n =>
        g[T] = IF T = {} THEN 0 ELSE f[Chosen(T)] + g[T \ {Chosen(T)}]

IsSum(f, S, g) ==
    g = [T \in SUBSET S |-> IF T = {} THEN 0 ELSE f[Chosen(T)] + g[T \ {Chosen(T)}]]

\* The recursion defines something.
LEMMA SumExists ==
    ASSUME NEW S, IsFiniteSet(S), NEW f
    PROVE  \E g : IsSum(f, S, g)
<1> DEFINE Reached == {n \in Nat : \E g : SumsUpTo(f, S, n, g)}
<1>1. 0 \in Reached
  <2> DEFINE g == [T \in SUBSET S |-> 0]
  <2>1. \A T \in SUBSET S : Cardinality(T) <= 0 => T = {}
    BY FS_Subset, FS_EmptySet, FS_CardinalityType
  <2>2. SumsUpTo(f, S, 0, g)
    BY <2>1 DEF SumsUpTo
  <2>3. QED
    BY <2>2
<1>2. ASSUME NEW n \in Nat, n \in Reached
      PROVE  n + 1 \in Reached
  <2>1. PICK g : SumsUpTo(f, S, n, g)
    BY <1>2
  <2> DEFINE h == [T \in SUBSET S |->
                     IF T = {} THEN 0 ELSE f[Chosen(T)] + g[T \ {Chosen(T)}]]
  <2>2. \A T \in SUBSET S : Cardinality(T) <= n => h[T] = g[T]
    BY <2>1 DEF SumsUpTo
  <2>3. ASSUME NEW T \in SUBSET S, Cardinality(T) <= n + 1, T # {}
        PROVE  h[T \ {Chosen(T)}] = g[T \ {Chosen(T)}]
    <3>1. Chosen(T) \in T
      BY <2>3 DEF Chosen
    <3>2. IsFiniteSet(T) /\ Cardinality(T) \in Nat
      BY FS_Subset, FS_CardinalityType
    <3>3. Cardinality(T \ {Chosen(T)}) = Cardinality(T) - 1
      BY <3>1, <3>2, FS_RemoveElement
    <3>4. Cardinality(T \ {Chosen(T)}) <= n
      BY <2>3, <3>2, <3>3
    <3>5. QED
      BY <2>2, <3>4
  <2>4. SumsUpTo(f, S, n + 1, h)
    <3>1. SUFFICES ASSUME NEW T \in SUBSET S, Cardinality(T) <= n + 1
                   PROVE  h[T] = IF T = {} THEN 0 ELSE f[Chosen(T)] + h[T \ {Chosen(T)}]
      BY DEF SumsUpTo
    <3>2. h[T] = IF T = {} THEN 0 ELSE f[Chosen(T)] + g[T \ {Chosen(T)}]
      OBVIOUS
    <3> HIDE DEF h
    <3>3. QED
      BY <2>3, <3>1, <3>2
  <2> HIDE DEF h
  <2>5. QED
    BY <2>4
<1>3. Cardinality(S) \in Reached
  <2>1. Cardinality(S) \in Nat
    BY FS_CardinalityType
  <2> HIDE DEF Reached
  <2>2. QED
    BY <1>1, <1>2, <2>1, NumbersReached
<1>4. PICK g : SumsUpTo(f, S, Cardinality(S), g)
  BY <1>3
<1> DEFINE h == [T \in SUBSET S |-> g[T]]
<1>5. \A T \in SUBSET S :
         g[T] = IF T = {} THEN 0 ELSE f[Chosen(T)] + g[T \ {Chosen(T)}]
  BY <1>4, FS_Subset DEF SumsUpTo
<1>6. \A T \in SUBSET S : T \ {Chosen(T)} \in SUBSET S
  OBVIOUS
<1>7. IsSum(f, S, h)
  BY <1>5, <1>6 DEF IsSum
<1>8. QED
  BY <1>7

\* The sum over S is the value of that recursion at S.
LEMMA SumRule ==
    ASSUME NEW S, IsFiniteSet(S), NEW f
    PROVE  \E g : IsSum(f, S, g) /\ SumFunctionOnSet(f, S) = g[S]
<1> DEFINE g == CHOOSE g : IsSum(f, S, g)
<1>1. IsSum(f, S, g)
  BY SumExists
<1>2. SumFunctionOnSet(f, S) = g[S]
  BY DEF SumFunctionOnSet, FoldFunctionOnSet, MapThenFoldSet, IsSum, Chosen
<1>3. QED
  BY <1>1, <1>2

\* Sums over the subsets of S are parts of the sum over S.
LEMMA SumUnique ==
    ASSUME NEW S, IsFiniteSet(S), NEW U \in SUBSET S, NEW f,
           NEW g, IsSum(f, S, g), NEW h, IsSum(f, U, h)
    PROVE  \A T \in SUBSET U : g[T] = h[T]
<1> DEFINE Same == {T \in SUBSET U : g[T] = h[T]}
<1>1. ASSUME NEW T \in SUBSET U, \A x \in T : T \ {x} \in Same
      PROVE  T \in Same
  <2>1. CASE T = {}
    BY <2>1 DEF IsSum
  <2>2. CASE T # {}
    <3>1. Chosen(T) \in T
      BY <2>2 DEF Chosen
    <3>2. g[T \ {Chosen(T)}] = h[T \ {Chosen(T)}]
      BY <1>1, <3>1
    <3>3. g[T] = f[Chosen(T)] + g[T \ {Chosen(T)}]
      BY <2>2 DEF IsSum
    <3>4. h[T] = f[Chosen(T)] + h[T \ {Chosen(T)}]
      BY <2>2 DEF IsSum
    <3>5. QED
      BY <3>2, <3>3, <3>4
  <2>3. QED
    BY <2>1, <2>2
<1>2. IsFiniteSet(U)
  BY FS_Subset
<1> HIDE DEF Same
<1>3. \A T \in SUBSET U : T \in Same
  BY <1>1, <1>2, SubsetsReached
<1>4. QED
  BY <1>3 DEF Same

LEMMA SumEmpty ==
    ASSUME NEW f
    PROVE  SumFunctionOnSet(f, {}) = 0
<1>1. PICK g : IsSum(f, {}, g) /\ SumFunctionOnSet(f, {}) = g[{}]
  BY SumRule, FS_EmptySet
<1>2. QED
  BY <1>1 DEF IsSum

\* The sum over a set is its chosen element's value and the sum over the rest.
LEMMA SumStep ==
    ASSUME NEW S, IsFiniteSet(S), S # {}, NEW f
    PROVE  SumFunctionOnSet(f, S) = f[Chosen(S)] + SumFunctionOnSet(f, S \ {Chosen(S)})
<1> DEFINE R == S \ {Chosen(S)}
<1>1. PICK g : IsSum(f, S, g) /\ SumFunctionOnSet(f, S) = g[S]
  BY SumRule
<1>2. IsFiniteSet(R) /\ R \in SUBSET S
  BY FS_Subset
<1>3. PICK h : IsSum(f, R, h) /\ SumFunctionOnSet(f, R) = h[R]
  BY <1>2, SumRule
<1>4. g[R] = h[R]
  BY <1>1, <1>2, <1>3, SumUnique
<1>5. g[S] = f[Chosen(S)] + g[R]
  BY <1>1 DEF IsSum
<1>6. QED
  BY <1>1, <1>3, <1>4, <1>5

Numbers(f, S) == \A x \in S : f[x] \in Int

LEMMA SumIsNumber ==
    ASSUME NEW S, IsFiniteSet(S), NEW f, Numbers(f, S)
    PROVE  SumFunctionOnSet(f, S) \in Int
<1> DEFINE Typed == {T \in SUBSET S : SumFunctionOnSet(f, T) \in Int}
<1>1. ASSUME NEW T \in SUBSET S, \A x \in T : T \ {x} \in Typed
      PROVE  T \in Typed
  <2>1. CASE T = {}
    BY <2>1, SumEmpty
  <2>2. CASE T # {}
    <3>1. Chosen(T) \in T
      BY <2>2 DEF Chosen
    <3>2. IsFiniteSet(T)
      BY FS_Subset
    <3>3. SumFunctionOnSet(f, T) = f[Chosen(T)] + SumFunctionOnSet(f, T \ {Chosen(T)})
      BY <2>2, <3>2, SumStep
    <3>4. QED
      BY <1>1, <3>1, <3>3 DEF Numbers
  <2>3. QED
    BY <2>1, <2>2
<1> HIDE DEF Typed
<1>2. \A T \in SUBSET S : T \in Typed
  BY <1>1, SubsetsReached
<1>3. QED
  BY <1>2 DEF Typed

\* The order does not matter: any element may be taken out first.
LEMMA SumElement ==
    ASSUME NEW S, IsFiniteSet(S), NEW f, Numbers(f, S), NEW x \in S
    PROVE  SumFunctionOnSet(f, S) = f[x] + SumFunctionOnSet(f, S \ {x})
<1> DEFINE Free == {T \in SUBSET S :
                      \A y \in T : SumFunctionOnSet(f, T) = f[y] + SumFunctionOnSet(f, T \ {y})}
<1>1. ASSUME NEW T \in SUBSET S, \A y \in T : T \ {y} \in Free
      PROVE  T \in Free
  <2>1. SUFFICES ASSUME NEW y \in T
                 PROVE  SumFunctionOnSet(f, T) = f[y] + SumFunctionOnSet(f, T \ {y})
    OBVIOUS
  <2> DEFINE z == Chosen(T)
  <2>2. z \in T /\ IsFiniteSet(T)
    BY FS_Subset DEF Chosen
  <2>3. SumFunctionOnSet(f, T) = f[z] + SumFunctionOnSet(f, T \ {z})
    BY <2>2, SumStep
  <2>4. CASE y = z
    BY <2>3, <2>4
  <2>5. CASE y # z
    <3>1. SumFunctionOnSet(f, T \ {z}) = f[y] + SumFunctionOnSet(f, (T \ {z}) \ {y})
      BY <1>1, <2>2, <2>5
    <3>2. SumFunctionOnSet(f, T \ {y}) = f[z] + SumFunctionOnSet(f, (T \ {y}) \ {z})
      BY <1>1, <2>2, <2>5
    <3>3. (T \ {z}) \ {y} = (T \ {y}) \ {z}
      OBVIOUS
    <3> DEFINE Rest == SumFunctionOnSet(f, (T \ {y}) \ {z})
    <3>4. f[y] \in Int /\ f[z] \in Int /\ Rest \in Int
      <4>1. IsFiniteSet((T \ {y}) \ {z}) /\ Numbers(f, (T \ {y}) \ {z})
        BY FS_Subset DEF Numbers
      <4>2. QED
        BY <2>2, <4>1, SumIsNumber DEF Numbers
    <3>5. /\ SumFunctionOnSet(f, T \ {z}) = f[y] + Rest
          /\ SumFunctionOnSet(f, T \ {y}) = f[z] + Rest
      BY <3>1, <3>2, <3>3
    <3> HIDE DEF Rest, z
    <3>6. QED
      BY <2>3, <3>4, <3>5
  <2>6. QED
    BY <2>4, <2>5
<1> HIDE DEF Free
<1>2. \A T \in SUBSET S : T \in Free
  BY <1>1, SubsetsReached
<1>3. QED
  BY <1>2 DEF Free

--------------------------------------------------------------------------------
(* Adding up *)

\* A set falls into a part and the rest.
LEMMA SumSplit ==
    ASSUME NEW S, IsFiniteSet(S), NEW f, Numbers(f, S), NEW U \in SUBSET S
    PROVE  SumFunctionOnSet(f, S) = SumFunctionOnSet(f, U) + SumFunctionOnSet(f, S \ U)
<1> DEFINE Splits == {T \in SUBSET S :
                        SumFunctionOnSet(f, T) =
                            SumFunctionOnSet(f, T \cap U) + SumFunctionOnSet(f, T \ U)}
<1>1. ASSUME NEW T \in SUBSET S, \A x \in T : T \ {x} \in Splits
      PROVE  T \in Splits
  <2>1. CASE T = {}
    <3>1. T \cap U = {} /\ T \ U = {}
      BY <2>1
    <3>2. QED
      BY <2>1, <3>1, SumEmpty
  <2>2. CASE T # {}
    <3>1. PICK x \in T : TRUE
      BY <2>2
    <3>2. /\ IsFiniteSet(T) /\ IsFiniteSet(T \cap U) /\ IsFiniteSet(T \ U)
          /\ Numbers(f, T) /\ Numbers(f, T \cap U) /\ Numbers(f, T \ U)
      BY FS_Subset DEF Numbers
    <3> DEFINE all == SumFunctionOnSet(f, T \ {x})
               in == SumFunctionOnSet(f, T \cap U)
               out == SumFunctionOnSet(f, T \ U)
               inRest == SumFunctionOnSet(f, (T \ {x}) \cap U)
               outRest == SumFunctionOnSet(f, (T \ {x}) \ U)
    <3>3. SumFunctionOnSet(f, T) = f[x] + all
      BY <3>2, SumElement
    <3>4. all = inRest + outRest
      BY <1>1, <3>1
    <3>5. CASE x \in U
      <4>1. x \in T \cap U /\ (T \ {x}) \cap U = (T \cap U) \ {x} /\ (T \ {x}) \ U = T \ U
        BY <3>5
      <4>2. in = f[x] + inRest /\ outRest = out
        <5>1. in = f[x] + SumFunctionOnSet(f, (T \cap U) \ {x})
          BY <3>2, <4>1, SumElement
        <5>2. QED
          BY <4>1, <5>1
      <4>3. f[x] \in Int /\ inRest \in Int /\ out \in Int
        <5>1. IsFiniteSet((T \cap U) \ {x}) /\ Numbers(f, (T \cap U) \ {x})
          BY <3>2, FS_Subset DEF Numbers
        <5>2. QED
          BY <3>2, <4>1, <5>1, SumIsNumber DEF Numbers
      <4> HIDE DEF all, in, out, inRest, outRest
      <4>4. SumFunctionOnSet(f, T) = in + out
        BY <3>3, <3>4, <4>2, <4>3
      <4>5. QED
        BY <4>4 DEF in, out
    <3>6. CASE x \notin U
      <4>1. x \in T \ U /\ (T \ {x}) \cap U = T \cap U /\ (T \ {x}) \ U = (T \ U) \ {x}
        BY <3>6
      <4>2. out = f[x] + outRest /\ inRest = in
        BY <3>2, <4>1, SumElement
      <4>3. f[x] \in Int /\ outRest \in Int /\ in \in Int
        <5>1. IsFiniteSet((T \ U) \ {x}) /\ Numbers(f, (T \ U) \ {x})
          BY <3>2, FS_Subset DEF Numbers
        <5>2. QED
          BY <3>2, <4>1, <5>1, SumIsNumber DEF Numbers
      <4> HIDE DEF all, in, out, inRest, outRest
      <4>4. SumFunctionOnSet(f, T) = in + out
        BY <3>3, <3>4, <4>2, <4>3
      <4>5. QED
        BY <4>4 DEF in, out
    <3>7. QED
      BY <3>5, <3>6
  <2>3. QED
    BY <2>1, <2>2
<1>2. S \cap U = U
  OBVIOUS
<1> HIDE DEF Splits
<1>3. \A T \in SUBSET S : T \in Splits
  BY <1>1, SubsetsReached
<1>4. QED
  BY <1>2, <1>3 DEF Splits

\* Two sums, term by term
LEMMA SumPlus ==
    ASSUME NEW S, IsFiniteSet(S), NEW f, Numbers(f, S), NEW g, Numbers(g, S),
           NEW h, \A x \in S : h[x] = f[x] + g[x]
    PROVE  SumFunctionOnSet(h, S) = SumFunctionOnSet(f, S) + SumFunctionOnSet(g, S)
<1> DEFINE Adds == {T \in SUBSET S :
               SumFunctionOnSet(h, T) = SumFunctionOnSet(f, T) + SumFunctionOnSet(g, T)}
<1>1. ASSUME NEW T \in SUBSET S, \A x \in T : T \ {x} \in Adds
      PROVE  T \in Adds
  <2>1. CASE T = {}
    BY <2>1, SumEmpty
  <2>2. CASE T # {}
    <3>1. PICK x \in T : TRUE
      BY <2>2
    <3>2. /\ IsFiniteSet(T) /\ Numbers(f, T) /\ Numbers(g, T) /\ Numbers(h, T)
          /\ IsFiniteSet(T \ {x}) /\ Numbers(f, T \ {x}) /\ Numbers(g, T \ {x})
      BY FS_Subset DEF Numbers
    <3> DEFINE fRest == SumFunctionOnSet(f, T \ {x})
               gRest == SumFunctionOnSet(g, T \ {x})
               hRest == SumFunctionOnSet(h, T \ {x})
    <3>3. /\ SumFunctionOnSet(f, T) = f[x] + fRest
          /\ SumFunctionOnSet(g, T) = g[x] + gRest
          /\ SumFunctionOnSet(h, T) = h[x] + hRest
      BY <3>2, SumElement
    <3>4. fRest \in Int /\ gRest \in Int /\ f[x] \in Int /\ g[x] \in Int
      BY <3>2, SumIsNumber DEF Numbers
    <3>5. hRest = fRest + gRest /\ h[x] = f[x] + g[x]
      BY <1>1, <3>1
    <3> HIDE DEF fRest, gRest, hRest
    <3>6. QED
      BY <3>3, <3>4, <3>5
  <2>3. QED
    BY <2>1, <2>2
<1> HIDE DEF Adds
<1>2. \A T \in SUBSET S : T \in Adds
  BY <1>1, SubsetsReached
<1>3. QED
  BY <1>2 DEF Adds

\* A sum looks at the values on its set only.
LEMMA SumSame ==
    ASSUME NEW S, IsFiniteSet(S), NEW f, Numbers(f, S),
           NEW g, \A x \in S : g[x] = f[x]
    PROVE  SumFunctionOnSet(g, S) = SumFunctionOnSet(f, S)
<1> DEFINE Same == {T \in SUBSET S : SumFunctionOnSet(g, T) = SumFunctionOnSet(f, T)}
<1>1. ASSUME NEW T \in SUBSET S, \A x \in T : T \ {x} \in Same
      PROVE  T \in Same
  <2>1. CASE T = {}
    BY <2>1, SumEmpty
  <2>2. CASE T # {}
    <3>1. PICK x \in T : TRUE
      BY <2>2
    <3>2. IsFiniteSet(T) /\ Numbers(f, T) /\ Numbers(g, T)
      BY FS_Subset DEF Numbers
    <3>3. /\ SumFunctionOnSet(f, T) = f[x] + SumFunctionOnSet(f, T \ {x})
          /\ SumFunctionOnSet(g, T) = g[x] + SumFunctionOnSet(g, T \ {x})
      BY <3>2, SumElement
    <3>4. QED
      BY <1>1, <3>1, <3>3
  <2>3. QED
    BY <2>1, <2>2
<1> HIDE DEF Same
<1>2. \A T \in SUBSET S : T \in Same
  BY <1>1, SubsetsReached
<1>3. QED
  BY <1>2 DEF Same

LEMMA SumZero ==
    ASSUME NEW S, IsFiniteSet(S), NEW f, \A x \in S : f[x] = 0
    PROVE  SumFunctionOnSet(f, S) = 0
<1> DEFINE Zero == {T \in SUBSET S : SumFunctionOnSet(f, T) = 0}
<1>1. ASSUME NEW T \in SUBSET S, \A x \in T : T \ {x} \in Zero
      PROVE  T \in Zero
  <2>1. CASE T = {}
    BY <2>1, SumEmpty
  <2>2. CASE T # {}
    <3>1. PICK x \in T : TRUE
      BY <2>2
    <3>2. IsFiniteSet(T) /\ Numbers(f, T)
      BY FS_Subset DEF Numbers
    <3>3. SumFunctionOnSet(f, T) = f[x] + SumFunctionOnSet(f, T \ {x})
      BY <3>2, SumElement
    <3>4. QED
      BY <1>1, <3>1, <3>3
  <2>3. QED
    BY <2>1, <2>2
<1> HIDE DEF Zero
<1>2. \A T \in SUBSET S : T \in Zero
  BY <1>1, SubsetsReached
<1>3. QED
  BY <1>2 DEF Zero

\* A sum of which only some terms count
LEMMA SumWhere ==
    ASSUME NEW S, IsFiniteSet(S), NEW f, Numbers(f, S), NEW C,
           NEW g, \A x \in S : g[x] = IF x \in C THEN f[x] ELSE 0
    PROVE  SumFunctionOnSet(g, S) = SumFunctionOnSet(f, S \cap C)
<1>1. /\ IsFiniteSet(S \cap C) /\ IsFiniteSet(S \ C)
      /\ Numbers(g, S) /\ Numbers(f, S \cap C)
  BY FS_Subset DEF Numbers
<1>2. SumFunctionOnSet(g, S) = SumFunctionOnSet(g, S \cap C) + SumFunctionOnSet(g, S \ (S \cap C))
  BY <1>1, SumSplit
<1>3. SumFunctionOnSet(g, S \cap C) = SumFunctionOnSet(f, S \cap C)
  BY <1>1, SumSame
<1>4. S \ (S \cap C) = S \ C /\ \A x \in S \ C : g[x] = 0
  OBVIOUS
<1>5. SumFunctionOnSet(g, S \ C) = 0
  BY <1>1, <1>4, SumZero
<1>6. SumFunctionOnSet(f, S \cap C) \in Int
  BY <1>1, SumIsNumber
<1>7. SumFunctionOnSet(g, S \ (S \cap C)) = 0
  BY <1>4, <1>5
<1>8. QED
  BY <1>2, <1>3, <1>6, <1>7

\* No term above b, and no sum above as many times b.
LEMMA SumAtMost ==
    ASSUME NEW S, IsFiniteSet(S), NEW f, Numbers(f, S), NEW b \in Int, \A x \in S : f[x] <= b
    PROVE  SumFunctionOnSet(f, S) <= Cardinality(S) * b
<1> DEFINE Bounded == {T \in SUBSET S : SumFunctionOnSet(f, T) <= Cardinality(T) * b}
<1>1. ASSUME NEW T \in SUBSET S, \A x \in T : T \ {x} \in Bounded
      PROVE  T \in Bounded
  <2>1. CASE T = {}
    BY <2>1, SumEmpty, FS_EmptySet
  <2>2. CASE T # {}
    <3>1. PICK x \in T : TRUE
      BY <2>2
    <3>2. /\ IsFiniteSet(T) /\ Numbers(f, T)
          /\ IsFiniteSet(T \ {x}) /\ Numbers(f, T \ {x})
      BY FS_Subset DEF Numbers
    <3> DEFINE rest == SumFunctionOnSet(f, T \ {x})
               k == Cardinality(T)
    <3>3. SumFunctionOnSet(f, T) = f[x] + rest
      BY <3>2, SumElement
    <3>4. rest \in Int /\ f[x] \in Int /\ k \in Nat
      BY <3>2, SumIsNumber, FS_CardinalityType DEF Numbers
    <3>5. Cardinality(T \ {x}) = k - 1
      BY <3>1, <3>2, FS_RemoveElement
    <3>6. rest <= (k - 1) * b /\ f[x] <= b
      BY <1>1, <3>1, <3>5
    <3> HIDE DEF rest, k
    <3>7. f[x] + rest <= k * b
      BY <3>4, <3>6
    <3>8. QED
      BY <3>3, <3>7 DEF k
  <2>3. QED
    BY <2>1, <2>2
<1> HIDE DEF Bounded
<1>2. \A T \in SUBSET S : T \in Bounded
  BY <1>1, SubsetsReached
<1>3. QED
  BY <1>2 DEF Bounded

LEMMA SumNotNegative ==
    ASSUME NEW S, IsFiniteSet(S), NEW f, Numbers(f, S), \A x \in S : f[x] >= 0
    PROVE  SumFunctionOnSet(f, S) >= 0
<1> DEFINE g == [x \in S |-> -f[x]]
           none == [x \in S |-> 0]
<1>1. Numbers(g, S) /\ \A x \in S : g[x] <= 0
  BY DEF Numbers
<1>2. SumFunctionOnSet(g, S) <= Cardinality(S) * 0
  <2> HIDE DEF g
  <2>1. QED
    BY <1>1, SumAtMost
<1>3. SumFunctionOnSet(none, S) = SumFunctionOnSet(f, S) + SumFunctionOnSet(g, S)
  <2>1. \A x \in S : none[x] = f[x] + g[x]
    BY DEF Numbers
  <2> HIDE DEF g, none
  <2>2. QED
    BY <1>1, <2>1, SumPlus
<1>4. SumFunctionOnSet(none, S) = 0
  BY SumZero
<1>5. /\ SumFunctionOnSet(f, S) \in Int /\ SumFunctionOnSet(g, S) \in Int
      /\ Cardinality(S) \in Nat
  <2> HIDE DEF g
  <2>1. QED
    BY <1>1, SumIsNumber, FS_CardinalityType
<1> HIDE DEF g, none
<1>6. QED
  BY <1>2, <1>3, <1>4, <1>5

\* SumFunction adds up all the values of a function.
LEMMA SumAll ==
    ASSUME NEW f
    PROVE  SumFunction(f) = SumFunctionOnSet(f, DOMAIN f)
BY DEF SumFunction, FoldFunction, SumFunctionOnSet

\* One value changes: the sums over the sets that hold it move with it.
LEMMA SumChanged ==
    ASSUME NEW S, IsFiniteSet(S), NEW f, Numbers(f, S), NEW x, NEW d \in Int,
           NEW g, \A y \in S : y # x => g[y] = f[y],
           g[x] = f[x] + d
    PROVE  /\ x \in S => SumFunctionOnSet(g, S) = SumFunctionOnSet(f, S) + d
           /\ x \notin S => SumFunctionOnSet(g, S) = SumFunctionOnSet(f, S)
<1>1. ASSUME x \in S
      PROVE  SumFunctionOnSet(g, S) = SumFunctionOnSet(f, S) + d
  <2> DEFINE fRest == SumFunctionOnSet(f, S \ {x})
             gRest == SumFunctionOnSet(g, S \ {x})
  <2>1. f[x] \in Int /\ Numbers(g, S)
    BY <1>1 DEF Numbers
  <2>2. IsFiniteSet(S \ {x}) /\ Numbers(f, S \ {x})
    BY FS_Subset DEF Numbers
  <2>3. fRest \in Int /\ gRest = fRest
    BY <2>2, SumIsNumber, SumSame
  <2>4. SumFunctionOnSet(f, S) = f[x] + fRest
    BY <1>1, SumElement
  <2>5. SumFunctionOnSet(g, S) = g[x] + gRest
    BY <1>1, <2>1, SumElement
  <2> HIDE DEF fRest, gRest
  <2>6. QED
    BY <2>1, <2>3, <2>4, <2>5
<1>2. ASSUME x \notin S
      PROVE  SumFunctionOnSet(g, S) = SumFunctionOnSet(f, S)
  <2>1. \A y \in S : g[y] = f[y]
    BY <1>2
  <2>2. QED
    BY <2>1, SumSame
<1>3. QED
  BY <1>1, <1>2

--------------------------------------------------------------------------------
(* Lists *)

\* The recursion of Among
IsAmong(list, S, g) ==
    g = [i \in 0..Len(list) |->
            IF i = 0 THEN <<>>
            ELSE IF list[i] \in S THEN Append(g[i - 1], list[i]) ELSE g[i - 1]]

\* The same, up to a position in the list
AmongUpTo(list, S, n, g) ==
    \A i \in 0..n :
        g[i] = IF i = 0 THEN <<>>
               ELSE IF list[i] \in S THEN Append(g[i - 1], list[i]) ELSE g[i - 1]

\* It defines something.
LEMMA AmongExists ==
    ASSUME NEW list, Len(list) \in Nat, NEW S
    PROVE  \E g : IsAmong(list, S, g)
<1> DEFINE Reached == {n \in Nat : \E g : AmongUpTo(list, S, n, g)}
<1>1. 0 \in Reached
  <2> DEFINE g == [i \in 0..0 |-> <<>>]
  <2>1. AmongUpTo(list, S, 0, g)
    BY DEF AmongUpTo
  <2> HIDE DEF g
  <2>2. QED
    BY <2>1
<1>2. ASSUME NEW n \in Nat, n \in Reached
      PROVE  n + 1 \in Reached
  <2>1. PICK g : AmongUpTo(list, S, n, g)
    BY <1>2
  <2> DEFINE last == IF list[n + 1] \in S THEN Append(g[n], list[n + 1]) ELSE g[n]
             h == [i \in 0..(n + 1) |-> IF i = n + 1 THEN last ELSE g[i]]
  <2>2. h[n + 1] = last /\ \A i \in 0..n : h[i] = g[i]
    BY <1>2
  <2>3. ASSUME NEW i \in 0..(n + 1), i # 0
        PROVE  h[i] = IF list[i] \in S THEN Append(h[i - 1], list[i]) ELSE h[i - 1]
    <3>1. i - 1 \in 0..n /\ h[i - 1] = g[i - 1]
      BY <2>2, <2>3
    <3>2. CASE i = n + 1
      <4>1. i - 1 = n
        BY <3>2
      <4>2. h[i] = last
        BY <2>2, <3>2
      <4> HIDE DEF h
      <4>3. QED
        BY <3>1, <3>2, <4>1, <4>2 DEF last
    <3>3. CASE i # n + 1
      <4>1. i \in 0..n
        BY <2>3, <3>3
      <4>2. h[i] = g[i]
        BY <2>2, <4>1
      <4> HIDE DEF h
      <4>3. QED
        BY <2>1, <2>3, <3>1, <4>1, <4>2 DEF AmongUpTo
    <3>4. QED
      BY <3>2, <3>3
  <2>4. h[0] = <<>>
    BY <2>1, <2>2 DEF AmongUpTo
  <2> HIDE DEF h
  <2>5. AmongUpTo(list, S, n + 1, h)
    BY <2>3, <2>4 DEF AmongUpTo
  <2>6. QED
    BY <2>5
<1> HIDE DEF Reached
<1>3. Len(list) \in Reached
  BY <1>1, <1>2, NumbersReached
<1>4. PICK g : AmongUpTo(list, S, Len(list), g)
  BY <1>3 DEF Reached
<1> DEFINE h == [i \in 0..Len(list) |-> g[i]]
<1>5. \A i \in 0..Len(list) : i # 0 => h[i - 1] = g[i - 1]
  OBVIOUS
<1>6. IsAmong(list, S, h)
  BY <1>4, <1>5 DEF IsAmong, AmongUpTo
<1>7. QED
  BY <1>6

\* A list without the members outside S: it holds members of the list, and a
\* list without repetitions stays without them.
LEMMA AmongIsList ==
    ASSUME NEW T, NEW list \in Seq(T), NEW S
    PROVE  /\ Among(list, S) \in Seq(T)
           /\ \A x \in ToSet(Among(list, S)) : x \in S /\ x \in ToSet(list)
           /\ IsInjective(list) => IsInjective(Among(list, S))
<1> DEFINE g == CHOOSE g : IsAmong(list, S, g)
           n == Len(list)
<1>0. n \in Nat /\ DOMAIN list = 1..n /\ \A i \in 1..n : list[i] \in T
  OBVIOUS
<1>1. IsAmong(list, S, g)
  BY <1>0, AmongExists
<1>2. Among(list, S) = g[n]
  BY DEF Among, IsAmong
<1> HIDE DEF g
<1>3. /\ g[0] = <<>>
      /\ \A i \in 1..n : g[i] = IF list[i] \in S THEN Append(g[i - 1], list[i]) ELSE g[i - 1]
  <2>1. g = [i \in 0..n |-> IF i = 0 THEN <<>>
               ELSE IF list[i] \in S THEN Append(g[i - 1], list[i]) ELSE g[i - 1]]
    BY <1>1 DEF IsAmong
  <2>2. 0 \in 0..n /\ \A i \in 1..n : i \in 0..n /\ i # 0
    BY <1>0
  <2> HIDE DEF n
  <2>3. \A i \in 0..n :
           g[i] = IF i = 0 THEN <<>>
               ELSE IF list[i] \in S THEN Append(g[i - 1], list[i]) ELSE g[i - 1]
    BY <2>1
  <2>4. QED
    BY <2>2, <2>3
<1> DEFINE From(out, i) ==
             /\ out \in Seq(T)
             /\ \A k \in DOMAIN out : out[k] \in S /\ \E p \in 1..i : list[p] = out[k]
             /\ IsInjective(list) => IsInjective(out)
           Reached == {i \in Nat : i <= n => From(g[i], i)}
<1>4. 0 \in Reached
  <2>1. From(<<>>, 0)
    BY DEF IsInjective
  <2>2. QED
    BY <1>3, <2>1
<1>5. ASSUME NEW i \in Nat, i \in Reached
      PROVE  i + 1 \in Reached
  <2>1. SUFFICES ASSUME i + 1 <= n PROVE From(g[i + 1], i + 1)
    OBVIOUS
  <2> DEFINE old == g[i]
             x == list[i + 1]
             new == Append(old, x)
  <2>2. From(old, i) /\ x \in T /\ i + 1 \in DOMAIN list
    BY <1>0, <1>5, <2>1
  <2>3. g[i + 1] = IF x \in S THEN new ELSE old
    <3>1. i + 1 \in 1..n /\ (i + 1) - 1 = i
      BY <2>1
    <3>2. QED
      BY <1>3, <3>1
  <2>4. CASE x \notin S
    <3>1. \A p \in 1..i : p \in 1..(i + 1)
      OBVIOUS
    <3>2. g[i + 1] = old
      BY <2>3, <2>4
    <3> HIDE DEF old, x, new
    <3>3. QED
      BY <2>2, <3>1, <3>2
  <2>5. CASE x \in S
    <3> DEFINE m == Len(old)
    <3>1. old \in Seq(T) /\ m \in Nat /\ DOMAIN old = 1..m
      BY <2>2
    <3>2. /\ new \in Seq(T) /\ DOMAIN new = 1..(m + 1)
          /\ \A k \in 1..m : new[k] = old[k]
          /\ new[m + 1] = x
      <4> HIDE DEF old, x
      <4>1. QED
        BY <2>2, <3>1
    <3>3. \A p \in 1..i : p \in 1..(i + 1) /\ p # i + 1 /\ p \in DOMAIN list
      BY <1>0, <2>1
    <3>4. \A k \in 1..(m + 1) : k \in 1..m \/ k = m + 1
      BY <3>1
    <3>5. i + 1 \in 1..(i + 1) /\ list[i + 1] = x
      OBVIOUS
    <3>6. ASSUME IsInjective(list) PROVE IsInjective(new)
      <4>1. IsInjective(old) /\ \A k \in 1..m : old[k] # x
        BY <2>2, <3>1, <3>3, <3>6 DEF IsInjective
      <4> HIDE DEF old, x, new
      <4>2. QED
        BY <3>1, <3>2, <3>4, <4>1 DEF IsInjective
    <3>7. \A k \in 1..(m + 1) : new[k] \in S /\ \E p \in 1..(i + 1) : list[p] = new[k]
      <4>1. \A k \in 1..m : old[k] \in S /\ \E p \in 1..(i + 1) : list[p] = old[k]
        BY <2>2, <3>1, <3>3
      <4> HIDE DEF old, new
      <4>2. QED
        BY <2>5, <3>2, <3>4, <3>5, <4>1
    <3>8. g[i + 1] = new
      BY <2>3, <2>5
    <3> HIDE DEF old, x, new
    <3>9. QED
      BY <3>2, <3>6, <3>7, <3>8
  <2>6. QED
    BY <2>4, <2>5
<1> HIDE DEF Reached
<1>6. n \in Reached
  BY <1>0, <1>4, <1>5, NumbersReached
<1>7. From(g[n], n)
  BY <1>0, <1>6 DEF Reached
<1>8. QED
  BY <1>0, <1>2, <1>7 DEF ToSet

================================================================================
