--------------------------- MODULE PaymentProofs ---------------------------
(***************************************************************************)
(* What is paid in and what is paid out: proofs about EntryFees and about  *)
(* Weights, for all values of their constants.  Both rest on sums over     *)
(* finite sets (SumFunction), which come first: a fact about a sum is      *)
(* proved by looking at a smallest part of the set that refutes it         *)
(* (MinimalPart).                                                          *)
(*                                                                         *)
(* EntryFees: the types, the books, one paid entry per coldkey, and, where *)
(* one request is served at a time, no refund that was not paid in.        *)
(* Weights: the emissions add up, and a champion's positions are kept.     *)
(***************************************************************************)
EXTENDS EntryFees, Weights, FiniteSetTheorems, TLAPS

-----------------------------------------------------------------------------
(* Sums over finite sets.                                                  *)

\* Among finite parts there is a smallest one, whichever are chosen.
LEMMA MinimalSubset ==
  ASSUME NEW S, NEW C, C \subseteq FiniteSubsetsOf(S), C # {}
  PROVE  \E X \in C : \A Y \in C : Y \subseteq X => Y = X
<1>1. \E X \in C : \A Y \in C : ~ (<<Y, X>> \in StrictSubsetOrdering(S))
  BY FS_StrictSubsetOrderingWellFounded, WFMin
<1> QED
  BY <1>1 DEF StrictSubsetOrdering, FiniteSubsetsOf

\* Among the subsets of a finite set that have a property one is minimal.
LEMMA MinimalPart ==
  ASSUME NEW S, IsFiniteSet(S), NEW C \in SUBSET (SUBSET S), C # {}
  PROVE  \E X \in C : \A Y \in C : Y \subseteq X => Y = X
<1>1. \A X \in C : IsFiniteSet(X) /\ X \subseteq S
  BY FS_Subset
<1>2. C \subseteq FiniteSubsetsOf(S)
  BY <1>1 DEF FiniteSubsetsOf
<1> QED
  BY <1>2, MinimalSubset

\* The function SumFunction computes with, from the sums of all smaller sets.
One(T) == CHOOSE x \in T : TRUE
IsSum(f, S, sum) ==
    sum = [T \in SUBSET S |-> IF T = {} THEN 0 ELSE f[One(T)] + sum[T \ {One(T)}]]

\* The member that a fold takes first is a member, and what remains is smaller.
LEMMA OneIsIn ==
  ASSUME NEW T, T # {}
  PROVE  One(T) \in T /\ T \ {One(T)} \subseteq T /\ T \ {One(T)} # T
<1>1. One(T) \in T
  BY DEF One
<1> QED
  BY <1>1

\* SumFunction is the recursive function IsSum speaks of, at the whole set.
LEMMA SumIs ==
  ASSUME NEW f, NEW S, S = DOMAIN f
  PROVE  SumFunction(f) = (CHOOSE sum : IsSum(f, S, sum))[S]
BY DEF SumFunction, SumFunctionOnSet, FoldFunctionOnSet, MapThenFoldSet, IsSum, One

\* Such a function adds one member to the sum of the rest.
LEMMA SumStep ==
  ASSUME NEW f, NEW S, NEW sum, IsSum(f, S, sum)
  PROVE  \A T \in SUBSET S :
           (T = {} => sum[T] = 0) /\ (T # {} => sum[T] = f[One(T)] + sum[T \ {One(T)}])
<1>1. sum = [U \in SUBSET S |-> IF U = {} THEN 0 ELSE f[One(U)] + sum[U \ {One(U)}]]
  BY DEF IsSum
<1> QED
  BY <1>1

\* Sums depend on what is summed only.
LEMMA SumsAgree ==
  ASSUME NEW A, IsFiniteSet(A), NEW f, NEW g, NEW F, NEW G, NEW B, A \subseteq B,
         IsSum(f, A, F), IsSum(g, B, G), \A x \in A : f[x] = g[x]
  PROVE  \A T \in SUBSET A : F[T] = G[T]
<1>01. \A T \in SUBSET A : 
         (T = {} => F[T] = 0) /\ (T # {} => F[T] = f[One(T)] + F[T \ {One(T)}])
  BY DEF IsSum
<1>02. \A T \in SUBSET B : 
         (T = {} => G[T] = 0) /\ (T # {} => G[T] = g[One(T)] + G[T \ {One(T)}])
  BY DEF IsSum
<1> DEFINE C == {T \in SUBSET A : F[T] # G[T]}
<1> SUFFICES ASSUME C # {} PROVE FALSE
  OBVIOUS
<1>1. PICK T \in C : \A U \in C : U \subseteq T => U = T
  <2>1. C \in SUBSET (SUBSET A)
    OBVIOUS
  <2> HIDE DEF C
  <2> QED
    BY <2>1, MinimalPart
<1>2. T \in SUBSET A /\ T \in SUBSET B /\ F[T] # G[T]
  OBVIOUS
<1>3. T # {}
  BY <1>01, <1>02, <1>2
<1>4. /\ One(T) \in A /\ T \ {One(T)} \in SUBSET A /\ T \ {One(T)} \subseteq T /\ T \ {One(T)} # T
  BY <1>2, <1>3, OneIsIn
<1>5. F[T \ {One(T)}] = G[T \ {One(T)}]
  BY <1>1, <1>4
<1>6. F[T] = f[One(T)] + F[T \ {One(T)}] /\ G[T] = g[One(T)] + G[T \ {One(T)}]
  BY <1>01, <1>02, <1>2, <1>3
<1> QED
  BY <1>2, <1>4, <1>5, <1>6

\* There is such a function.
LEMMA SumExists ==
  ASSUME NEW S, IsFiniteSet(S), NEW f
  PROVE  \E sum : IsSum(f, S, sum)
<1> DEFINE C == {U \in SUBSET S : ~ \E sum : IsSum(f, U, sum)}
<1> SUFFICES ASSUME C # {} PROVE FALSE
  OBVIOUS
<1>1. PICK U \in C : \A W \in C : W \subseteq U => W = U
  <2>1. C \in SUBSET (SUBSET S)
    OBVIOUS
  <2> HIDE DEF C
  <2> QED
    BY <2>1, MinimalPart
<1> DEFINE V(W) == (CHOOSE sum : IsSum(f, W, sum))[W]
           g == [T \in SUBSET U |-> IF T = {} THEN 0 ELSE f[One(T)] + V(T \ {One(T)})]
<1>2. ASSUME NEW W \in SUBSET U, W # U
      PROVE  IsSum(f, W, CHOOSE sum : IsSum(f, W, sum))
  <2>1. \E sum : IsSum(f, W, sum)
    BY <1>1, <1>2
  <2> QED
    BY <2>1
<1>3. ASSUME NEW W \in SUBSET U, W # U
      PROVE  g[W] = V(W)
  <2> DEFINE h == CHOOSE sum : IsSum(f, W, sum)
  <2>1. IsSum(f, W, h)
    BY <1>2, <1>3
  <2>2. CASE W = {}
    BY <2>1, <2>2, SumStep
  <2>3. CASE W # {}
    <3> DEFINE R == W \ {One(W)}
    <3>1. /\ R \in SUBSET W /\ R \in SUBSET U /\ R # W /\ R # U
      BY <1>3, <2>3, OneIsIn
    <3>2. IsSum(f, R, CHOOSE sum : IsSum(f, R, sum))
      BY <1>2, <3>1
    <3>3. IsFiniteSet(R)
      <4>1. R \subseteq S
        BY <3>1
      <4> HIDE DEF R
      <4> QED
        BY <4>1, FS_Subset
    <3>4. V(R) = h[R]
      <4> DEFINE k == CHOOSE sum : IsSum(f, R, sum)
      <4>1. IsSum(f, R, k)
        BY <3>2
      <4> HIDE DEF h, R, k
      <4>2. \A T \in SUBSET R : k[T] = h[T]
        BY <2>1, <3>1, <3>3, <4>1, SumsAgree
      <4>3. k[R] = h[R]
        BY <4>2
      <4> QED
        BY <4>3 DEF k
    <3>5. h[W] = f[One(W)] + h[R]
      <4> HIDE DEF h
      <4> QED
        BY <2>1, <2>3, SumStep
    <3>6. g[W] = f[One(W)] + V(R)
      <4> HIDE DEF V
      <4> QED
        BY <1>3, <2>3
    <3>7. V(W) = h[W]
      OBVIOUS
    <3> HIDE DEF V, g, h, R
    <3> QED
      BY <3>4, <3>5, <3>6, <3>7
  <2> QED
    BY <2>2, <2>3
<1>4. IsSum(f, U, g)
  <2>1. ASSUME NEW T \in SUBSET U, T # {}
        PROVE  g[T \ {One(T)}] = V(T \ {One(T)})
    <3>1. T \ {One(T)} \in SUBSET U /\ T \ {One(T)} # U
      BY <2>1, OneIsIn
    <3> HIDE DEF g, V
    <3> QED
      BY <1>3, <3>1
  <2>2. g = [T \in SUBSET U |-> IF T = {} THEN 0 ELSE f[One(T)] + g[T \ {One(T)}]]
    <3> HIDE DEF V
    <3>1. \A T \in SUBSET U : g[T] = IF T = {} THEN 0 ELSE f[One(T)] + V(T \ {One(T)})
      OBVIOUS
    <3>2. g = [T \in SUBSET U |-> g[T]]
      OBVIOUS
    <3> HIDE DEF g
    <3>3. \A T \in SUBSET U : g[T] = IF T = {} THEN 0 ELSE f[One(T)] + g[T \ {One(T)}]
      BY <2>1, <3>1
    <3> QED
      BY <3>2, <3>3
  <2> HIDE DEF g
  <2> QED
    BY <2>2 DEF IsSum
<1> QED
  <2> HIDE DEF g
  <2> QED
    BY <1>1, <1>4

\* Every sum over a finite set has such a function.
LEMMA SumOf ==
  ASSUME NEW S, IsFiniteSet(S), NEW f, S = DOMAIN f
  PROVE  \E sum : IsSum(f, S, sum) /\ SumFunction(f) = sum[S]
<1>1. IsSum(f, S, CHOOSE sum : IsSum(f, S, sum))
  BY SumExists
<1> QED
  BY <1>1, SumIs

\* A set of numbers with zero and closed under addition has the sums of its
\* members.
LEMMA SumStays ==
  ASSUME NEW S, IsFiniteSet(S), NEW V, 0 \in V, \A a, b \in V : a + b \in V,
         NEW f \in [S -> V], NEW sum, IsSum(f, S, sum)
  PROVE  \A T \in SUBSET S : sum[T] \in V
<1>01. \A T \in SUBSET S : 
         (T = {} => sum[T] = 0) /\ (T # {} => sum[T] = f[One(T)] + sum[T \ {One(T)}])
  BY DEF IsSum
<1> DEFINE C == {T \in SUBSET S : sum[T] \notin V}
<1> SUFFICES ASSUME C # {} PROVE FALSE
  OBVIOUS
<1>1. PICK T \in C : \A U \in C : U \subseteq T => U = T
  <2>1. C \in SUBSET (SUBSET S)
    OBVIOUS
  <2> HIDE DEF C
  <2> QED
    BY <2>1, MinimalPart
<1>2. T \in SUBSET S /\ sum[T] \notin V
  OBVIOUS
<1>3. T # {}
  BY <1>01, <1>2
<1>4. One(T) \in S /\ T \ {One(T)} \in SUBSET S /\ T \ {One(T)} \subseteq T /\ T \ {One(T)} # T
  BY <1>2, <1>3, OneIsIn
<1>5. sum[T \ {One(T)}] \in V /\ f[One(T)] \in V
  BY <1>1, <1>4
<1>6. sum[T] = f[One(T)] + sum[T \ {One(T)}]
  BY <1>01, <1>2, <1>3
<1> QED
  BY <1>2, <1>5, <1>6

\* The same for the sum of a function.
LEMMA SumIn ==
  ASSUME NEW S, IsFiniteSet(S), NEW V, 0 \in V, \A a, b \in V : a + b \in V, NEW f \in [S -> V]
  PROVE  SumFunction(f) \in V
<1>1. PICK sum : IsSum(f, S, sum) /\ SumFunction(f) = sum[S]
  BY SumOf
<1>2. \A T \in SUBSET S : sum[T] \in V
  BY <1>1, SumStays
<1> QED
  BY <1>1, <1>2

\* Any member may be taken out of a sum.
LEMMA SumTakeOut ==
  ASSUME NEW S, IsFiniteSet(S), NEW f \in [S -> Int], NEW sum, IsSum(f, S, sum)
  PROVE  \A T \in SUBSET S : \A y \in T : sum[T] = f[y] + sum[T \ {y}]
<1>01. \A T \in SUBSET S : 
         (T = {} => sum[T] = 0) /\ (T # {} => sum[T] = f[One(T)] + sum[T \ {One(T)}])
  BY DEF IsSum
<1> DEFINE C == {T \in SUBSET S : \E y \in T : sum[T] # f[y] + sum[T \ {y}]}
<1> SUFFICES ASSUME C # {} PROVE FALSE
  OBVIOUS
<1>1. PICK T \in C : \A U \in C : U \subseteq T => U = T
  <2>1. C \in SUBSET (SUBSET S)
    OBVIOUS
  <2> HIDE DEF C
  <2> QED
    BY <2>1, MinimalPart
<1>2. PICK y \in T : sum[T] # f[y] + sum[T \ {y}]
  OBVIOUS
<1>3. PICK x : x = One(T)
  OBVIOUS
<1>4. T \in SUBSET S /\ x \in T /\ sum[T] = f[x] + sum[T \ {x}]
  <2>1. T \in SUBSET S /\ T # {}
    BY <1>2
  <2> HIDE DEF C
  <2> QED
    BY <1>01, <1>3, <2>1, OneIsIn
<1>5. x # y
  BY <1>2, <1>4
<1>6. /\ T \ {x} \in SUBSET S /\ T \ {x} \notin C /\ y \in T \ {x}
      /\ T \ {y} \in SUBSET S /\ T \ {y} \notin C /\ x \in T \ {y}
      /\ (T \ {x}) \ {y} = (T \ {y}) \ {x} /\ (T \ {x}) \ {y} \in SUBSET S
  <2> HIDE DEF C
  <2> QED
    BY <1>1, <1>4, <1>5
<1>7. /\ sum[T \ {x}] = f[y] + sum[(T \ {x}) \ {y}]
      /\ sum[T \ {y}] = f[x] + sum[(T \ {x}) \ {y}]
  BY <1>6
<1>8. \A U \in SUBSET S : sum[U] \in Int
  BY SumStays
<1>9. /\ f[x] \in Int /\ f[y] \in Int /\ sum[(T \ {x}) \ {y}] \in Int
      /\ sum[T \ {x}] \in Int /\ sum[T \ {y}] \in Int
  BY <1>4, <1>6, <1>8
<1> QED
  BY <1>2, <1>4, <1>7, <1>9

\* One more member.
LEMMA SumMore ==
  ASSUME NEW S, IsFiniteSet(S), NEW x, x \notin S, NEW f \in [S -> Int], NEW g \in [S \cup {x} -> Int],
         \A s \in S : g[s] = f[s]
  PROVE  SumFunction(g) = SumFunction(f) + g[x]
<1> DEFINE R == S \cup {x}
<1>1. IsFiniteSet(R)
  BY FS_AddElement
<1>2. PICK F : IsSum(f, S, F) /\ SumFunction(f) = F[S]
  BY SumOf
<1>3. PICK G : IsSum(g, R, G) /\ SumFunction(g) = G[R]
  BY <1>1, SumOf
<1>4. \A T \in SUBSET S : F[T] = G[T]
  BY <1>2, <1>3, SumsAgree
<1>5. G[R] = g[x] + G[R \ {x}]
  BY <1>1, <1>3, SumTakeOut
<1>6. R \ {x} = S
  OBVIOUS
<1>7. F[S] \in Int /\ g[x] \in Int /\ G[S] = F[S]
  <2>1. \A T \in SUBSET S : F[T] \in Int
    BY <1>2, SumStays
  <2> QED
    BY <1>4, <2>1
<1>8. G[R] = g[x] + F[S]
  BY <1>5, <1>6, <1>7, Zenon
<1>9. g[x] + F[S] = F[S] + g[x]
  BY <1>7
<1> QED
  BY <1>2, <1>3, <1>8, <1>9, Zenon

\* One member changes.
LEMMA SumChange ==
  ASSUME NEW S, IsFiniteSet(S), NEW x \in S, NEW f \in [S -> Int], NEW g \in [S -> Int],
         \A s \in S \ {x} : g[s] = f[s]
  PROVE  SumFunction(g) = SumFunction(f) - f[x] + g[x]
<1> DEFINE R == S \ {x}
           h == [s \in R |-> f[s]]
<1>1. IsFiniteSet(R) /\ R \cup {x} = S /\ x \notin R /\ h \in [R -> Int]
  BY FS_Subset
<1>2. SumFunction(f) = SumFunction(h) + f[x] /\ SumFunction(g) = SumFunction(h) + g[x]
  <2>1. \A s \in R : f[s] = h[s] /\ g[s] = h[s]
    OBVIOUS
  <2> HIDE DEF h, R
  <2> QED
    BY <1>1, <2>1, SumMore
<1>3. SumFunction(h) \in Int
  <2> HIDE DEF h, R
  <2> QED
    BY <1>1, SumIn
<1> QED
  BY <1>2, <1>3

\* Numbers that a sum may stay in.
LEMMA NumbersAdd == /\ 0 \in Int /\ \A a, b \in Int : a + b \in Int
                    /\ 0 \in Nat /\ \A a, b \in Nat : a + b \in Nat
                    /\ 0 \in {0} /\ \A a, b \in {0} : a + b \in {0}
OBVIOUS

\* Part of a sum is the sum over that part.
LEMMA SumPart ==
  ASSUME NEW S, IsFiniteSet(S), NEW f, NEW sum, IsSum(f, S, sum), NEW A \in SUBSET S
  PROVE  SumFunction([x \in A |-> f[x]]) = sum[A]
<1> DEFINE g == [x \in A |-> f[x]]
<1>1. IsFiniteSet(A)
  BY FS_Subset
<1>2. \A x \in A : g[x] = f[x]
  OBVIOUS
<1>3. A = DOMAIN g
  OBVIOUS
<1> HIDE DEF g
<1>4. PICK G : IsSum(g, A, G) /\ SumFunction(g) = G[A]
  BY <1>1, <1>3, SumOf
<1>5. \A T \in SUBSET A : G[T] = sum[T]
  BY <1>1, <1>2, <1>4, SumsAgree
<1> QED
  BY <1>4, <1>5 DEF g

\* Two parts that share nothing add up.
LEMMA SumUnion ==
  ASSUME NEW S, IsFiniteSet(S), NEW f \in [S -> Int], NEW sum, IsSum(f, S, sum),
         NEW A \in SUBSET S, NEW B \in SUBSET S, A \cap B = {}
  PROVE  sum[A \cup B] = sum[A] + sum[B]
<1> DEFINE C == {T \in SUBSET A : sum[T \cup B] # sum[T] + sum[B]}
<1>0. IsFiniteSet(A)
  BY FS_Subset
<1>02. \A U \in SUBSET S : \A y \in U : sum[U] = f[y] + sum[U \ {y}]
  <2> SUFFICES ASSUME NEW U \in SUBSET S, NEW y \in U
               PROVE  sum[U] = f[y] + sum[U \ {y}]
    OBVIOUS
  <2> HIDE DEF C
  <2> QED
    BY SumTakeOut
<1> SUFFICES ASSUME C # {} PROVE FALSE
  BY DEF C
<1>1. PICK T \in C : \A U \in C : U \subseteq T => U = T
  <2>1. C \in SUBSET (SUBSET A)
    OBVIOUS
  <2> HIDE DEF C
  <2> QED
    BY <1>0, <2>1, MinimalPart
<1>2. T \in SUBSET A /\ sum[T \cup B] # sum[T] + sum[B]
  OBVIOUS
<1>3. \A U \in SUBSET S : sum[U] \in Int
  BY NumbersAdd, SumStays
<1>4. sum[{}] = 0
  <2>1. \A U \in SUBSET S : U = {} => sum[U] = 0
    BY DEF IsSum
  <2> QED
    BY <2>1
<1>5. PICK x \in T : TRUE
  <2>1. CASE T = {}
    <3>1. T \cup B = B
      BY <2>1
    <3>2. sum[B] \in Int /\ sum[T] = 0 /\ sum[T \cup B] = sum[B]
      BY <1>3, <1>4, <2>1, <3>1
    <3>3. sum[T \cup B] = sum[T] + sum[B]
      BY <3>2
    <3> QED
      BY <1>2, <3>3
  <2> QED
    BY <2>1
<1>6. /\ T \ {x} \in SUBSET A /\ T \ {x} \subseteq T /\ T \ {x} # T /\ T \in SUBSET S /\ T \cup B \in SUBSET S
      /\ x \in T \cup B /\ (T \cup B) \ {x} = (T \ {x}) \cup B
  BY <1>2, <1>5
<1>7. sum[(T \ {x}) \cup B] = sum[T \ {x}] + sum[B]
  BY <1>1, <1>6
<1>8. sum[T \cup B] = f[x] + sum[(T \ {x}) \cup B] /\ sum[T] = f[x] + sum[T \ {x}]
  <2>1. \A U \in SUBSET S : \A y \in U : sum[U] = f[y] + sum[U \ {y}]
    BY <1>02
  <2>2. sum[T \cup B] = f[x] + sum[(T \cup B) \ {x}]
    BY <1>6, <2>1
  <2> QED
    BY <1>5, <1>6, <2>1, <2>2
<1>9. f[x] \in Int /\ sum[T \ {x}] \in Int /\ sum[B] \in Int
  BY <1>3, <1>6, <1>2, <1>5
<1> QED
  BY <1>2, <1>7, <1>8, <1>9

\* A factor that every member has is a factor of the sum.
LEMMA SumScaled ==
  ASSUME NEW S, IsFiniteSet(S), NEW f \in [S -> Int], NEW h \in [S -> Int],
         NEW a \in Int, \A x \in S : h[x] = a * f[x]
  PROVE  SumFunction(h) = a * SumFunction(f)
<1> DEFINE Sums(k, K) == \A T \in SUBSET S :
             (T = {} => K[T] = 0) /\ (T # {} => K[T] = k[One(T)] + K[T \ {One(T)}])
<1>1. PICK F : IsSum(f, S, F) /\ SumFunction(f) = F[S]
  BY SumOf
<1>3. PICK H : IsSum(h, S, H) /\ SumFunction(h) = H[S]
  BY SumOf
<1>01. Sums(f, F)
  BY <1>1 DEF IsSum
<1>03. Sums(h, H)
  BY <1>3 DEF IsSum
<1> DEFINE C == {T \in SUBSET S : H[T] # a * F[T]}
<1>4. C = {}
  <2> SUFFICES ASSUME C # {} PROVE FALSE
    OBVIOUS
  <2>1. PICK T \in C : \A U \in C : U \subseteq T => U = T
    <3>1. C \in SUBSET (SUBSET S)
      OBVIOUS
    <3> HIDE DEF C
    <3> QED
      BY <3>1, MinimalPart
  <2>2. T \in SUBSET S /\ H[T] # a * F[T]
    OBVIOUS
  <2>3. T # {}
    <3>1. F[{}] = 0 /\ H[{}] = 0
      BY <1>01, <1>03
    <3>2. a * 0 = 0
      OBVIOUS
    <3> QED
      BY <2>2, <3>1, <3>2
  <2>4. PICK x : x = One(T)
    OBVIOUS
  <2>5. x \in S /\ T \ {x} \in SUBSET S /\ T \ {x} \subseteq T /\ T \ {x} # T
    BY <2>2, <2>3, <2>4, OneIsIn
  <2>6. H[T \ {x}] = a * F[T \ {x}]
    BY <2>1, <2>5
  <2>7. F[T] = f[x] + F[T \ {x}] /\ H[T] = h[x] + H[T \ {x}]
    BY <1>01, <1>03, <2>2, <2>3, <2>4
  <2>8. PICK F1 \in Int : F1 = F[T \ {x}]
    BY <1>1, <2>5, NumbersAdd, SumStays
  <2>9. PICK f1 \in Int : f1 = f[x] /\ h[x] = a * f1
    BY <2>5
  <2>10. H[T] = a * f1 + a * F1 /\ F[T] = f1 + F1
    BY <2>6, <2>7, <2>8, <2>9, Zenon
  <2>11. a * f1 + a * F1 = a * (f1 + F1)
    <3> HIDE DEF C, Sums
    <3> QED
      OBVIOUS
  <2> QED
    BY <2>2, <2>10, <2>11, Zenon
<1>5. S \in SUBSET S /\ S \notin C
  BY <1>4
<1> HIDE DEF C
<1>6. H[S] = a * F[S]
  BY <1>5 DEF C
<1> QED
  BY <1>1, <1>3, <1>6, Zenon

\* Two sums over one set are added member by member.
LEMMA SumAdded ==
  ASSUME NEW S, IsFiniteSet(S), NEW f \in [S -> Int], NEW g \in [S -> Int], NEW h \in [S -> Int],
         \A x \in S : h[x] = f[x] + g[x]
  PROVE  SumFunction(h) = SumFunction(f) + SumFunction(g)
<1> DEFINE Sums(k, K) == \A T \in SUBSET S :
             (T = {} => K[T] = 0) /\ (T # {} => K[T] = k[One(T)] + K[T \ {One(T)}])
<1>1. PICK F : IsSum(f, S, F) /\ SumFunction(f) = F[S]
  BY SumOf
<1>2. PICK G : IsSum(g, S, G) /\ SumFunction(g) = G[S]
  BY SumOf
<1>3. PICK H : IsSum(h, S, H) /\ SumFunction(h) = H[S]
  BY SumOf
<1>01. Sums(f, F)
  BY <1>1 DEF IsSum
<1>02. Sums(g, G)
  BY <1>2 DEF IsSum
<1>03. Sums(h, H)
  BY <1>3 DEF IsSum
<1> DEFINE C == {T \in SUBSET S : H[T] # F[T] + G[T]}
<1>4. C = {}
  <2> SUFFICES ASSUME C # {} PROVE FALSE
    OBVIOUS
  <2>1. PICK T \in C : \A U \in C : U \subseteq T => U = T
    <3>1. C \in SUBSET (SUBSET S)
      OBVIOUS
    <3> HIDE DEF C
    <3> QED
      BY <3>1, MinimalPart
  <2>2. T \in SUBSET S /\ H[T] # F[T] + G[T]
    OBVIOUS
  <2>3. T # {}
    <3>1. F[{}] = 0 /\ G[{}] = 0 /\ H[{}] = 0
      BY <1>01, <1>02, <1>03
    <3>2. 0 + 0 = 0
      OBVIOUS
    <3>3. H[{}] = F[{}] + G[{}]
      BY <3>1, <3>2, Zenon
    <3> QED
      BY <2>2, <3>3, Zenon
  <2>4. PICK x : x = One(T)
    OBVIOUS
  <2>5. x \in S /\ T \ {x} \in SUBSET S /\ T \ {x} \subseteq T /\ T \ {x} # T
    BY <2>2, <2>3, <2>4, OneIsIn
  <2>6. H[T \ {x}] = F[T \ {x}] + G[T \ {x}]
    BY <2>1, <2>5
  <2>7. F[T] = f[x] + F[T \ {x}] /\ G[T] = g[x] + G[T \ {x}] /\ H[T] = h[x] + H[T \ {x}]
    BY <1>01, <1>02, <1>03, <2>2, <2>3, <2>4
  <2>8. F[T \ {x}] \in Int /\ G[T \ {x}] \in Int
    BY <1>1, <1>2, <2>5, NumbersAdd, SumStays
  <2>9. f[x] \in Int /\ g[x] \in Int /\ h[x] = f[x] + g[x]
    BY <2>5
  <2> QED
    BY <2>2, <2>6, <2>7, <2>8, <2>9
<1>5. S \in SUBSET S /\ S \notin C
  BY <1>4
<1> HIDE DEF C
<1>6. H[S] = F[S] + G[S]
  BY <1>5 DEF C
<1> QED
  BY <1>1, <1>2, <1>3, <1>6, Zenon

\* As many as there are, each with the same share.
LEMMA SumEqual ==
  ASSUME NEW S, IsFiniteSet(S), NEW a \in Int, NEW f \in [S -> Int], \A x \in S : f[x] = a
  PROVE  SumFunction(f) = a * Cardinality(S)
<1>1. PICK F : IsSum(f, S, F) /\ SumFunction(f) = F[S]
  BY SumOf
<1>01. \A T \in SUBSET S :
         (T = {} => F[T] = 0) /\ (T # {} => F[T] = f[One(T)] + F[T \ {One(T)}])
  BY <1>1 DEF IsSum
<1> DEFINE C == {T \in SUBSET S : F[T] # a * Cardinality(T)}
<1>4. C = {}
  <2> SUFFICES ASSUME C # {} PROVE FALSE
    OBVIOUS
  <2>1. PICK T \in C : \A U \in C : U \subseteq T => U = T
    <3>1. C \in SUBSET (SUBSET S)
      OBVIOUS
    <3> HIDE DEF C
    <3> QED
      BY <3>1, MinimalPart
  <2>2. T \in SUBSET S /\ F[T] # a * Cardinality(T)
    OBVIOUS
  <2>3. T # {}
    <3>1. F[{}] = 0
      BY <1>01
    <3>2. Cardinality({}) = 0 /\ a * 0 = 0
      BY FS_EmptySet
    <3> QED
      BY <2>2, <3>1, <3>2
  <2>4. PICK x : x = One(T)
    OBVIOUS
  <2>5. x \in T /\ x \in S /\ T \ {x} \in SUBSET S /\ T \ {x} \subseteq T /\ T \ {x} # T
    BY <2>2, <2>3, <2>4, OneIsIn
  <2>6. F[T \ {x}] = a * Cardinality(T \ {x})
    BY <2>1, <2>5
  <2>7. F[T] = f[x] + F[T \ {x}] /\ f[x] = a
    BY <1>01, <2>2, <2>3, <2>4, <2>5
  <2>8. Cardinality(T \ {x}) = Cardinality(T) - 1 /\ Cardinality(T) \in Nat
    <3>1. IsFiniteSet(T)
      BY <2>2, FS_Subset
    <3> QED
      BY <2>5, <3>1, FS_RemoveElement, FS_CardinalityType
  <2>9. PICK n \in Nat : n = Cardinality(T)
    BY <2>8
  <2>10. F[T] = a + a * (n - 1)
    BY <2>6, <2>7, <2>8, <2>9, Zenon
  <2>11. a + a * (n - 1) = a * n
    BY <2>9
  <2> QED
    BY <2>2, <2>9, <2>10, <2>11, Zenon
<1>5. S \in SUBSET S /\ S \notin C
  BY <1>4
<1> HIDE DEF C
<1>6. F[S] = a * Cardinality(S)
  BY <1>5 DEF C
<1> QED
  BY <1>1, <1>6, Zenon

\* Nothing adds up to zero.
LEMMA SumOfNone ==
  ASSUME NEW S, NEW f, NEW sum, IsSum(f, S, sum)
  PROVE  sum[{}] = 0
<1>1. \A T \in SUBSET S : T = {} => sum[T] = 0
  BY SumStep
<1> QED
  BY <1>1

\* Of a sum of natural numbers no part is more.
LEMMA SumBounds ==
  ASSUME NEW S, IsFiniteSet(S), NEW f \in [S -> Nat], NEW sum, IsSum(f, S, sum), NEW A \in SUBSET S
  PROVE  sum[A] \in Nat /\ sum[A] <= sum[S]
<1>1. \A T \in SUBSET S : sum[T] \in Nat
  BY NumbersAdd, SumStays
<1>2. f \in [S -> Int]
  OBVIOUS
<1>3. A \cup (S \ A) = S /\ A \cap (S \ A) = {} /\ S \ A \in SUBSET S
  OBVIOUS
<1>4. sum[A \cup (S \ A)] = sum[A] + sum[S \ A]
  BY <1>2, <1>3, SumUnion
<1>5. sum[A] \in Nat /\ sum[S \ A] \in Nat
  BY <1>1, <1>3
<1>6. sum[S] = sum[A] + sum[S \ A]
  BY <1>3, <1>4, Zenon
<1> QED
  BY <1>5, <1>6

Named(S, name, h) == {k \in S : name[k] = h}

\* Grouping what is summed by a name changes no sum.
LEMMA SumByName ==
  ASSUME NEW S, IsFiniteSet(S), NEW f \in [S -> Nat], NEW name, NEW E, IsFiniteSet(E), NEW e \in [E -> Nat],
         \A h \in E : e[h] = SumFunction(Restrict(f, Named(S, name, h)))
  PROVE  SumFunction(e) <= SumFunction(f)
<1>0. f \in [S -> Int] /\ e \in [E -> Int]
  OBVIOUS
<1>1. PICK F : IsSum(f, S, F) /\ SumFunction(f) = F[S]
  BY SumOf
<1>2. PICK G : IsSum(e, E, G) /\ SumFunction(e) = G[E]
  BY SumOf
<1>01. \A T \in SUBSET E :
         (T = {} => G[T] = 0) /\ (T # {} => G[T] = e[One(T)] + G[T \ {One(T)}])
  BY <1>2 DEF IsSum
<1> DEFINE Of(T) == {k \in S : name[k] \in T}
           C == {T \in SUBSET E : G[T] # F[Of(T)]}
<1>3. C = {}
  <2> SUFFICES ASSUME C # {} PROVE FALSE
    OBVIOUS
  <2>1. PICK T \in C : \A U \in C : U \subseteq T => U = T
    <3>1. C \in SUBSET (SUBSET E)
      OBVIOUS
    <3> HIDE DEF C
    <3> QED
      BY <3>1, MinimalPart
  <2>2. T \in SUBSET E /\ G[T] # F[Of(T)]
    OBVIOUS
  <2>3. T # {}
    <3>1. F[{}] = 0
      BY <1>1, SumOfNone
    <3>2. Of({}) = {}
      OBVIOUS
    <3>3. G[{}] = 0
      BY <1>01
    <3> QED
      BY <2>2, <3>1, <3>2, <3>3
  <2>4. PICK x : x = One(T)
    OBVIOUS
  <2>5. x \in T /\ x \in E /\ T \ {x} \in SUBSET E /\ T \ {x} \subseteq T /\ T \ {x} # T
    BY <2>2, <2>3, <2>4, OneIsIn
  <2>6. G[T \ {x}] = F[Of(T \ {x})]
    BY <2>1, <2>5
  <2>7. G[T] = e[x] + G[T \ {x}]
    BY <1>01, <2>2, <2>3, <2>4
  <2>8. e[x] = F[{k \in S : name[k] = x}]
    <3>1. {k \in S : name[k] = x} \in SUBSET S
      OBVIOUS
    <3>2. SumFunction([k \in {k \in S : name[k] = x} |-> f[k]]) = F[{k \in S : name[k] = x}]
      BY <1>1, <3>1, SumPart
    <3> QED
      BY <2>5, <3>2 DEF Restrict, Named
  <2>9. F[Of(T)] = F[{k \in S : name[k] = x}] + F[Of(T \ {x})]
    <3>1. PICK A : A = {k \in S : name[k] = x}
      OBVIOUS
    <3>2. PICK B : B = Of(T \ {x})
      OBVIOUS
    <3>3. A \in SUBSET S /\ B \in SUBSET S /\ A \cap B = {} /\ A \cup B = Of(T)
      BY <2>5, <3>1, <3>2
    <3> HIDE DEF C, Of
    <3>4. F[A \cup B] = F[A] + F[B]
      BY <1>0, <1>1, <3>3, SumUnion
    <3> QED
      BY <3>1, <3>2, <3>3, <3>4
  <2> QED
    BY <2>2, <2>6, <2>7, <2>8, <2>9, Zenon
<1>4. E \in SUBSET E /\ E \notin C
  BY <1>3
<1>5. G[E] = F[Of(E)]
  BY <1>4
<1>6. Of(E) \in SUBSET S
  OBVIOUS
<1> HIDE DEF C, Of
<1>7. F[Of(E)] <= F[S]
  BY <1>1, <1>6, SumBounds
<1> QED
  BY <1>1, <1>2, <1>5, <1>7

-----------------------------------------------------------------------------
(* Fees: the inductive invariant.                                          *)

\* The transfer whose credit is due has its row; otherwise none is due.
MonitorFits ==
  /\ monitor.at # "credit" => monitor.now = None
  /\ monitor.at = "credit" => monitor.now \in stored

\* A refund comes after the fee it gives back, and only fees are owed.
RefundsFollowFees ==
  /\ \A i \in DOMAIN events : ~IsFee(events[i]) =>
       \E j \in Fees(events[i].tournament) : j < i /\ events[j].coldkey = events[i].coldkey
  /\ \A r \in Requests, c \in Coldkeys :
       request[r].at # "idle" /\ request[r].owed[c] > 0 => HasPaid(request[r].t, c)

\* What the only request still means to refund has not been refunded.
OwedIsLeft ==
  Cardinality(Requests) = 1 =>
    \A r \in Requests, c \in Coldkeys :
      request[r].at # "idle" /\ request[r].owed[c] > 0 /\ ~(request[r].at = "pay" /\ request[r].now = c)
        => Net(EventsOf(request[r].t), c) + request[r].owed[c] <= 0

IInv == /\ TypeOK /\ MonitorFits /\ EntriesArePaidOnce /\ BooksBalance
        /\ RefundsFollowFees /\ OwedIsLeft /\ NothingRefundedTwice

-----------------------------------------------------------------------------
(* What the tables come to.                                                *)

Due(c) == SumFunction([x \in StoredBy(c) |-> Amount[x]]) + Net(DOMAIN events, c)
Lent(r, c) == IF request[r].at = "pay" /\ request[r].now = c THEN request[r].owed[c] ELSE 0
Failed == faults["credit"] + faults["refund"]

\* The log is a finite sequence of events with integer amounts.
LEMMA EventsAre ==
  ASSUME NEW es \in Seq(Event)
  PROVE  /\ DOMAIN es = 1..Len(es) /\ Len(es) \in Nat /\ IsFiniteSet(DOMAIN es)
         /\ \A i \in DOMAIN es : es[i] \in Event /\ es[i].amount \in Int
<1>1. DOMAIN es = 1..Len(es) /\ Len(es) \in Nat
  OBVIOUS
<1>2. \A i \in DOMAIN es : es[i] \in Event
  OBVIOUS
<1>3. IsFiniteSet(1..Len(es))
  BY <1>1, FS_Interval
<1> QED
  BY <1>1, <1>2, <1>3 DEF Event

\* What a part of the log comes to for a coldkey is a number.
LEMMA NetIsInt ==
  ASSUME TypeOK, NEW I \in SUBSET DOMAIN events, NEW c
  PROVE  Net(I, c) \in Int
<1> DEFINE J == {j \in I : events[j].coldkey = c}
           f == [i \in J |-> events[i].amount]
<1>1. events \in Seq(Event)
  BY DEF TypeOK
<1>2. IsFiniteSet(DOMAIN events) /\ \A i \in DOMAIN events : events[i].amount \in Int
  BY <1>1, EventsAre
<1>3. IsFiniteSet(J)
  <2>1. J \subseteq DOMAIN events
    OBVIOUS
  <2> HIDE DEF J
  <2> QED
    BY <1>2, <2>1, FS_Subset
<1>4. f \in [J -> Int]
  BY <1>2
<1>5. SumFunction(f) \in Int
  <2> HIDE DEF f, J
  <2> QED
    BY <1>3, <1>4, SumIn, NumbersAdd
<1> QED
  BY <1>5 DEF Net

\* One event more.
Written(e) == events' = Append(events, e)

\* A new event adds its amount to its coldkey's sums and changes no other.
LEMMA NetAppends ==
  ASSUME TypeOK, NEW e \in Event, Written(e), NEW c \in Coldkeys
  PROVE  /\ Net(DOMAIN events, c)'
              = Net(DOMAIN events, c) + (IF e.coldkey = c THEN e.amount ELSE 0)
         /\ \A t \in Tournaments :
              Net(EventsOf(t), c)'
                = Net(EventsOf(t), c) + (IF e.tournament = t /\ e.coldkey = c THEN e.amount ELSE 0)
<1>0. PICK n : n \in Nat /\ n = Len(events) + 1
  BY DEF TypeOK
<1>1. /\ events \in Seq(Event) /\ DOMAIN events' = DOMAIN events \cup {n} /\ n \notin DOMAIN events
      /\ \A i \in DOMAIN events : events'[i] = events[i]
      /\ events'[n] = e /\ e.amount \in Int
  BY <1>0 DEF TypeOK, Event, Written
<1>2. ASSUME NEW I \in SUBSET DOMAIN events
      PROVE  /\ SumFunction([i \in {j \in I : events'[j].coldkey = c} |-> events'[i].amount]) = Net(I, c)
             /\ SumFunction([i \in {j \in I \cup {n} : events'[j].coldkey = c} |-> events'[i].amount])
                  = Net(I, c) + (IF e.coldkey = c THEN e.amount ELSE 0)
  <2> DEFINE J == {j \in I : events[j].coldkey = c}
             K == {j \in I : events'[j].coldkey = c}
             L == {j \in I \cup {n} : events'[j].coldkey = c}
  <2>1. J \in SUBSET DOMAIN events /\ K = J /\ L = J \cup (IF e.coldkey = c THEN {n} ELSE {})
    BY <1>1
  <2>2. Net(I, c) = SumFunction([i \in J |-> events[i].amount])
    BY DEF Net
  <2> HIDE DEF J, K, L
  <2>3. /\ SumFunction([i \in J |-> events[i].amount]) \in Int
        /\ [i \in J |-> events'[i].amount] = [i \in J |-> events[i].amount]
        /\ SumFunction([i \in J \cup {n} |-> events'[i].amount])
             = SumFunction([i \in J |-> events[i].amount]) + e.amount
    <3>1. n \notin J /\ e.amount \in Int /\ events'[n] = e
      BY <1>1, <2>1
    <3>2. \A i \in J : events[i].amount \in Int /\ events'[i] = events[i]
      BY <1>1, <2>1, EventsAre
    <3>3. IsFiniteSet(J)
      BY <1>1, <2>1, EventsAre, FS_Subset
    <3> DEFINE f == [i \in J |-> events[i].amount]
               g == [i \in J \cup {n} |-> events'[i].amount]
    <3>4. f \in [J -> Int] /\ g \in [J \cup {n} -> Int] /\ g[n] = e.amount /\ \A i \in J : g[i] = f[i]
      BY <3>1, <3>2
    <3>5. [i \in J |-> events'[i].amount] = f
      BY <3>2
    <3>6. SumFunction(f) \in Int
      <4> HIDE DEF f
      <4> QED
        BY <3>3, <3>4, SumIn, NumbersAdd
    <3>7. SumFunction(g) = SumFunction(f) + g[n]
      <4> HIDE DEF f, g
      <4>1. n \notin J /\ IsFiniteSet(J)
        BY <3>1, <3>3
      <4>2. f \in [J -> Int] /\ g \in [J \cup {n} -> Int] /\ \A i \in J : g[i] = f[i]
        BY <3>4
      <4> QED
        BY <4>1, <4>2, SumMore
    <3> HIDE DEF f, g
    <3> QED
      BY <3>4, <3>5, <3>6, <3>7 DEF f, g
  <2>4. SumFunction([i \in K |-> events'[i].amount]) = Net(I, c)
    BY <2>1, <2>2, <2>3
  <2>5. CASE e.coldkey = c
    <3>1. L = J \cup {n}
      BY <2>1, <2>5
    <3>2. SumFunction([i \in L |-> events'[i].amount]) = Net(I, c) + e.amount
      BY <2>2, <2>3, <3>1
    <3> QED
      BY <2>4, <2>5, <3>2 DEF K, L
  <2>6. CASE e.coldkey # c
    <3>1. L = J /\ Net(I, c) \in Int
      BY <2>1, <2>2, <2>3, <2>6
    <3>2. SumFunction([i \in L |-> events'[i].amount]) = Net(I, c)
      BY <2>2, <2>3, <3>1
    <3>3. Net(I, c) = Net(I, c) + (IF e.coldkey = c THEN e.amount ELSE 0)
      BY <2>6, <3>1
    <3> QED
      BY <2>4, <3>2, <3>3, Zenon DEF K, L
  <2> QED
    BY <2>5, <2>6
<1>3. Net(DOMAIN events, c)'
        = Net(DOMAIN events, c) + (IF e.coldkey = c THEN e.amount ELSE 0)
  <2>1. Net(DOMAIN events, c)'
          = SumFunction([i \in {j \in DOMAIN events \cup {n} : events'[j].coldkey = c} |-> events'[i].amount])
    BY <1>1 DEF Net
  <2> QED
    BY <1>2, <2>1
<1>4. ASSUME NEW t \in Tournaments
      PROVE  Net(EventsOf(t), c)'
               = Net(EventsOf(t), c) + (IF e.tournament = t /\ e.coldkey = c THEN e.amount ELSE 0)
  <2>1. Net(EventsOf(t), c)'
          = SumFunction([i \in {j \in EventsOf(t)' : events'[j].coldkey = c} |-> events'[i].amount])
    BY DEF Net
  <2>2. EventsOf(t) \in SUBSET DOMAIN events
    BY DEF EventsOf
  <2>3. EventsOf(t)' = EventsOf(t) \cup (IF e.tournament = t THEN {n} ELSE {})
    BY <1>1 DEF EventsOf
  <2>4. CASE e.tournament = t
    <3>1. EventsOf(t)' = EventsOf(t) \cup {n}
      BY <2>3, <2>4
    <3> QED
      BY <1>2, <2>1, <2>2, <2>4, <3>1
  <2>5. CASE e.tournament # t
    <3>1. EventsOf(t)' = EventsOf(t) /\ Net(EventsOf(t), c) \in Int
      BY <2>2, <2>3, <2>5, NetIsInt
    <3>2. Net(EventsOf(t), c)' = Net(EventsOf(t), c)
      BY <1>2, <2>1, <2>2, <3>1
    <3> QED
      BY <2>5, <3>1, <3>2
  <2> QED
    BY <2>4, <2>5
<1> QED
  BY <1>3, <1>4

-----------------------------------------------------------------------------
(* The types.                                                              *)

\* A fault is counted once, and failures of credits and refunds only grow.
LEMMA FaultCounts ==
  ASSUME faults \in [Kinds -> Nat], NEW k \in Kinds, Fault(k)
  PROVE  /\ faults' \in [Kinds -> Nat] /\ Failed \in Nat /\ Failed' \in Nat /\ Failed <= Failed'
         /\ k \in {"credit", "refund"} => Failed' > 0
<1>1. faults' = [faults EXCEPT ![k] = faults[k] + 1] /\ faults[k] \in Nat
  BY DEF Fault
<1>2. /\ faults' \in [Kinds -> Nat]
      /\ \A j \in Kinds : faults[j] \in Nat /\ faults'[j] = IF j = k THEN faults[j] + 1 ELSE faults[j]
  BY <1>1
<1>3. "credit" \in Kinds /\ "refund" \in Kinds /\ "credit" # "refund"
  BY DEF Kinds
<1> QED
  BY <1>2, <1>3 DEF Failed

PassTyped == monitor \in Pass /\ (monitor.at = "credit" => monitor.now \in Transfers)
TurnTyped == pop \in Turn /\ (pop.at # "idle" => pop.t \in Tournaments)
RequestTyped(q) ==
  /\ q \in Request
  /\ q.at # "idle" => q.t \in Tournaments
  /\ q.at = "pay" => q.now \in Coldkeys
AccountsTyped ==
  /\ owner \in [Hotkeys -> Coldkeys] /\ moves \in Nat
  /\ status \in [Tournaments -> {"pending", "active", "cancelled"}]
  /\ entered \in [Tournaments -> SUBSET Hotkeys]
  /\ events \in Seq(Event)
  /\ balance \in [Coldkeys -> Int]
  /\ chain \subseteq Transfers /\ stored \subseteq Transfers /\ cursor \in Nat
  /\ faults \in [Kinds -> Nat]

\* The type invariant, by the actor whose state it describes.
LEMMA TypeParts ==
  TypeOK <=> /\ AccountsTyped /\ PassTyped /\ TurnTyped
             /\ request \in [Requests -> Request] /\ \A r \in Requests : RequestTyped(request[r])
BY DEF TypeOK, AccountsTyped, PassTyped, TurnTyped, RequestTyped

\* The turns the loop over pending tournaments may begin are well-typed.
LEMMA TurnsFit ==
  ASSUME NEW queue \in SUBSET Tournaments
  PROVE  \A q \in Turns(queue) : q \in Turn /\ (q.at # "idle" => q.t \in Tournaments)
<1>1. << >> \in UNION {[P -> Coldkeys] : P \in SUBSET Hotkeys}
  <2>1. << >> \in [{} -> Coldkeys]
    OBVIOUS
  <2> QED
    BY <2>1
<1>2. NoTurn \in Turn
  BY <1>1 DEF NoTurn, Turn
<1>3. \A t \in queue : [at |-> "count", t |-> t, queue |-> queue \ {t}, picked |-> << >>] \in Turn
  BY <1>1 DEF Turn
<1> QED
  BY <1>2, <1>3 DEF Turns, NoTurn

\* So are the passes of the monitor.
LEMMA PassesFit ==
  ASSUME TypeOK
  PROVE  /\ NoPass \in Pass
         /\ \A x \in Transfers : Passed(x) \in Pass /\ Passed(x).at = monitor.at /\ Passed(x).now = monitor.now
<1>1. NoPass \in Pass
  BY DEF NoPass, Pass
<1>2. ASSUME NEW x \in Transfers
      PROVE  Passed(x) \in Pass /\ Passed(x).at = monitor.at /\ Passed(x).now = monitor.now
  <2>1. monitor \in Pass /\ Sent[x] \in Nat
    BY AccountsAssumption DEF TypeOK
  <2> QED
    BY <2>1 DEF Passed, Pass
<1> QED
  BY <1>1, <1>2

\* The monitor's own steps.
LEMMA MonitorTypeKept ==
  ASSUME TypeOK,
         \/ BeginPass \/ Credit \/ MoveCursor \/ CreditFails \/ MoveFails
         \/ \E x \in Transfers : Pay(x) \/ StoreTransfer(x) \/ StoreFails(x)
  PROVE  TypeOK'
<1> USE DEF TypeOK
<1>1. CASE BeginPass
  <2>1. monitor' \in Pass /\ monitor'.at = "store"
    BY <1>1 DEF BeginPass, Pass, Since
  <2> QED
    BY <1>1, <2>1 DEF BeginPass, entries, accounts
<1>2. CASE Credit
  <2>1. monitor' \in Pass /\ monitor'.at = "store"
    BY <1>2 DEF Credit, Pass
  <2>2. Sender[monitor.now] \in Coldkeys /\ Amount[monitor.now] \in Int
    BY <1>2, AccountsAssumption DEF Credit
  <2>3. balance' \in [Coldkeys -> Int]
    BY <1>2, <2>2 DEF Credit
  <2> QED
    BY <1>2, <2>1, <2>3 DEF Credit, entries
<1>3. CASE MoveCursor
  <2>1. monitor.high \in Nat
    BY DEF Pass
  <2> QED
    BY <1>3, <2>1, PassesFit DEF MoveCursor, NoPass, entries, accounts
<1>4. CASE CreditFails
  <2>1. monitor' \in Pass /\ monitor'.at = "store"
    BY <1>4 DEF CreditFails, Pass
  <2>2. faults' \in [Kinds -> Nat]
    BY <1>4, FaultCounts DEF CreditFails, Kinds
  <2> QED
    BY <1>4, <2>1, <2>2 DEF CreditFails, entries, accounts
<1>5. CASE MoveFails
  <2>2. faults' \in [Kinds -> Nat]
    BY <1>5, FaultCounts DEF MoveFails, Kinds
  <2> QED
    BY <1>5, <2>2, PassesFit DEF MoveFails, NoPass, entries, accounts
<1>6. ASSUME NEW x \in Transfers, Pay(x)
      PROVE  TypeOK'
  BY <1>6 DEF Pay, entries, accounts
<1>7. ASSUME NEW x \in Transfers, StoreTransfer(x)
      PROVE  TypeOK'
  <2>1. monitor' \in Pass /\ (monitor'.at = "credit" => monitor'.now \in Transfers)
    <3>1. CASE x \in stored
      BY <1>7, <3>1, PassesFit DEF StoreTransfer
    <3>2. CASE x \notin stored
      <4>1. monitor' = [[Passed(x) EXCEPT !.at = "credit"] EXCEPT !.now = x] /\ Passed(x) \in Pass
        BY <1>7, <3>2, PassesFit DEF StoreTransfer
      <4> QED
        BY <4>1 DEF Pass
    <3> QED
      BY <3>1, <3>2
  <2> QED
    BY <1>7, <2>1 DEF StoreTransfer, entries, accounts
<1>8. ASSUME NEW x \in Transfers, StoreFails(x)
      PROVE  TypeOK'
  <2>2. faults' \in [Kinds -> Nat]
    BY <1>8, FaultCounts DEF StoreFails, Kinds
  <2> QED
    BY <1>8, <2>2, PassesFit DEF StoreFails, entries, accounts
<1> QED
  BY <1>1, <1>2, <1>3, <1>4, <1>5, <1>6, <1>7, <1>8

\* Taking a miner off the list leaves a turn of the same tournament.
LEMMA OthersFit ==
  ASSUME TypeOK, NEW h, [pop EXCEPT !.picked = Others(h)] = pop'
  PROVE  pop' \in Turn /\ pop'.at = pop.at /\ pop'.t = pop.t
<1>1. pop \in Turn
  BY DEF TypeOK
<1>2. PICK P \in SUBSET Hotkeys : pop.picked \in [P -> Coldkeys]
  BY <1>1 DEF Turn
<1>3. Others(h) \in [P \ {h} -> Coldkeys]
  BY <1>2 DEF Others
<1>4. Others(h) \in UNION {[Q -> Coldkeys] : Q \in SUBSET Hotkeys}
  BY <1>3
<1> QED
  BY <1>1, <1>4 DEF Turn

\* The listed miners are hotkeys with a coldkey.
LEMMA PickedAre ==
  ASSUME TypeOK, NEW h \in DOMAIN pop.picked
  PROVE  h \in Hotkeys /\ pop.picked[h] \in Coldkeys
<1>2. PICK P \in SUBSET Hotkeys : pop.picked \in [P -> Coldkeys]
  BY DEF TypeOK, Turn
<1> QED
  BY <1>2

\* The loop over pending tournaments and the operators keep the types.
LEMMA PendingTypeKept ==
  ASSUME TypeOK,
         \/ ReadPending \/ CountMiners \/ EndEnrolments \/ Activate
         \/ \E h \in Hotkeys : Enrol(h) \/ EnrolFails(h)
         \/ \E h \in Hotkeys, c \in Coldkeys : Rekey(h, c)
         \/ \E t \in Tournaments : CallOff(t)
  PROVE  TypeOK'
<1> USE DEF TypeOK
<1>1. CASE ReadPending
  <2>1. {t \in Tournaments : status[t] = "pending"} \in SUBSET Tournaments
    OBVIOUS
  <2>2. TurnTyped'
    BY <1>1, <2>1, TurnsFit DEF ReadPending, TurnTyped
  <2> QED
    BY <1>1, <2>2 DEF ReadPending, accounts, feed, TurnTyped
<1>2. CASE CountMiners
  <2>1. pop \in Turn /\ pop.queue \in SUBSET Tournaments /\ pop.t \in Tournaments
    BY <1>2 DEF CountMiners, Turn
  <2>2. TurnTyped'
    <3>1. CASE pop' = [pop EXCEPT !.at = "activate"]
      BY <2>1, <3>1 DEF Turn, TurnTyped
    <3>2. CASE pop' \in Turns(pop.queue)
      BY <2>1, <3>2, TurnsFit DEF TurnTyped
    <3>3. ASSUME NEW P \in SUBSET Eligible(pop.t),
                 pop' = [pop EXCEPT !.at = "enrol", !.picked = [h \in P |-> owner[h]]]
          PROVE  TurnTyped'
      <4>1. P \in SUBSET Hotkeys /\ [h \in P |-> owner[h]] \in [P -> Coldkeys]
        BY <3>3 DEF Eligible
      <4>2. [h \in P |-> owner[h]] \in UNION {[Q -> Coldkeys] : Q \in SUBSET Hotkeys}
        BY <4>1
      <4>3. pop' = [[pop EXCEPT !.at = "enrol"] EXCEPT !.picked = [h \in P |-> owner[h]]]
        BY <2>1, <3>3 DEF Turn
      <4> QED
        BY <2>1, <4>2, <4>3 DEF Turn, TurnTyped
    <3> QED
      BY <1>2, <3>1, <3>2, <3>3 DEF CountMiners
  <2> QED
    BY <1>2, <2>2 DEF CountMiners, accounts, feed, TurnTyped
<1>3. CASE EndEnrolments
  <2>2. TurnTyped'
    BY <1>3 DEF EndEnrolments, TurnTyped, Turn
  <2> QED
    BY <1>3, <2>2 DEF EndEnrolments, accounts, feed, TurnTyped
<1>4. CASE Activate
  <2>1. pop \in Turn /\ pop.queue \in SUBSET Tournaments /\ pop.t \in Tournaments
    BY <1>4 DEF Activate, Turn
  <2>2. TurnTyped'
    BY <1>4, <2>1, TurnsFit DEF Activate, TurnTyped
  <2>3. status' \in [Tournaments -> {"pending", "active", "cancelled"}]
    BY <1>4, <2>1 DEF Activate
  <2> QED
    BY <1>4, <2>2, <2>3 DEF Activate, accounts, feed, TurnTyped
<1>5. ASSUME NEW h \in Hotkeys, Enrol(h)
      PROVE  TypeOK'
  <2>1. TurnTyped'
    BY <1>5, OthersFit DEF Enrol, TurnTyped
  <2>2. pop.t \in Tournaments /\ pop.picked[h] \in Coldkeys
    BY <1>5, PickedAre DEF Enrol
  <2>3. Fee[pop.t] \in Int /\ -Fee[pop.t] \in Int
    BY <2>2, AccountsAssumption
  <2>4. /\ entered' \in [Tournaments -> SUBSET Hotkeys] /\ events' \in Seq(Event)
        /\ balance' \in [Coldkeys -> Int]
    <3>1. CASE Charges(pop.t, h, pop.picked[h])
      <4>1. entered' \in [Tournaments -> SUBSET Hotkeys]
        <5>1. entered' = [entered EXCEPT ![pop.t] = entered[pop.t] \cup {h}]
          BY <1>5, <3>1 DEF Enrol
        <5>2. entered[pop.t] \cup {h} \in SUBSET Hotkeys /\ entered \in [Tournaments -> SUBSET Hotkeys]
          BY <2>2
        <5> QED
          BY <5>1, <5>2, Zenon
      <4>5. balance' \in [Coldkeys -> Int]
        <5>1. balance' = [balance EXCEPT ![pop.picked[h]] = balance[pop.picked[h]] - Fee[pop.t]]
          BY <1>5, <3>1 DEF Enrol
        <5>2. balance[pop.picked[h]] - Fee[pop.t] \in Int
          BY <2>2, <2>3
        <5> QED
          BY <5>1, <5>2
      <4>2. [tournament |-> pop.t, coldkey |-> pop.picked[h], amount |-> -Fee[pop.t]] \in Event
        BY <2>2, <2>3 DEF Event
      <4>3. events' = Append(events, [tournament |-> pop.t, coldkey |-> pop.picked[h], amount |-> -Fee[pop.t]])
        BY <1>5, <3>1 DEF Enrol
      <4> HIDE DEF Event
      <4>4. events' \in Seq(Event)
        BY <4>2, <4>3
      <4> QED
        BY <4>1, <4>4, <4>5
    <3>2. CASE ~ Charges(pop.t, h, pop.picked[h])
      BY <1>5, <3>2 DEF Enrol
    <3> QED
      BY <3>1, <3>2
  <2> QED
    BY <1>5, <2>1, <2>4 DEF Enrol, feed, TurnTyped
<1>6. ASSUME NEW h \in Hotkeys, EnrolFails(h)
      PROVE  TypeOK'
  <2>1. TurnTyped'
    BY <1>6, OthersFit DEF EnrolFails, TurnTyped
  <2>2. faults' \in [Kinds -> Nat]
    BY <1>6, FaultCounts DEF EnrolFails, Kinds
  <2> QED
    BY <1>6, <2>1, <2>2 DEF EnrolFails, accounts, feed, TurnTyped
<1>7. ASSUME NEW h \in Hotkeys, NEW c \in Coldkeys, Rekey(h, c)
      PROVE  TypeOK'
  BY <1>7 DEF Rekey, accounts, feed
<1>8. ASSUME NEW t \in Tournaments, CallOff(t)
      PROVE  TypeOK'
  BY <1>8 DEF CallOff, accounts, feed
<1> QED
  BY <1>1, <1>2, <1>3, <1>4, <1>5, <1>6, <1>7, <1>8

\* What a tournament owes is a number per coldkey.
LEMMA DebtsAre ==
  ASSUME TypeOK
  PROVE  /\ NoRequest \in Request /\ NoDebt \in [Coldkeys -> Nat]
         /\ \A t \in Tournaments : Owed(t) \in [Coldkeys -> Nat]
<1>1. NoDebt \in [Coldkeys -> Nat]
  BY DEF NoDebt
<1>2. NoRequest \in Request
  BY <1>1 DEF NoRequest, Request
<1>3. ASSUME NEW t \in Tournaments
      PROVE  Owed(t) \in [Coldkeys -> Nat]
  <2>1. Recent(t) \in SUBSET DOMAIN events
    BY DEF Recent, EventsOf
  <2>2. \A c \in Coldkeys : Net(Recent(t), c) \in Int
    BY <2>1, NetIsInt
  <2>3. \A c \in Coldkeys : Net(Recent(t), c) < 0 => -Net(Recent(t), c) \in Nat
    BY <2>2
  <2> QED
    BY <2>3 DEF Owed
<1> QED
  BY <1>1, <1>2, <1>3

\* One request is at its next step.
LEMMA RequestsKept ==
  ASSUME TypeOK, NEW r \in Requests, NEW q, RequestTyped(q), Set(r, q)
  PROVE  request' \in [Requests -> Request] /\ \A s \in Requests : RequestTyped(request'[s])
<1>1. request \in [Requests -> Request] /\ \A s \in Requests : RequestTyped(request[s])
  BY TypeParts
<1>2. q \in Request
  BY DEF RequestTyped
<1>3. request' \in [Requests -> Request]
  <2> HIDE DEF Request
  <2> QED
    BY <1>1, <1>2 DEF Set
<1>4. \A s \in Requests : request'[s] = IF s = r THEN q ELSE request[s]
  BY <1>1 DEF Set
<1> QED
  BY <1>1, <1>3, <1>4

\* A request owes natural numbers.
LEMMA RequestIs ==
  ASSUME TypeOK, NEW r \in Requests
  PROVE  /\ RequestTyped(request[r]) /\ request[r] \in Request /\ request[r].owed \in [Coldkeys -> Nat]
         /\ \A c \in Coldkeys : request[r].owed[c] \in Nat
<1>1. RequestTyped(request[r])
  BY TypeParts
<1>2. request[r] \in Request
  BY <1>1 DEF RequestTyped
<1> QED
  BY <1>1, <1>2 DEF Request

\* Paying one coldkey leaves the other debts of the request.
LEMMA SettledFits ==
  ASSUME TypeOK, NEW r \in Requests, request[r].at = "pay"
  PROVE  /\ RequestTyped(Settled(r)) /\ Settled(r).at = "refund" /\ Settled(r).t = request[r].t
         /\ \A c \in Coldkeys :
              Settled(r).owed[c] = IF c = request[r].now THEN 0 ELSE request[r].owed[c]
<1>1. request[r] \in Request /\ request[r].t \in Tournaments /\ request[r].now \in Coldkeys
  BY RequestIs DEF RequestTyped
<1>2. Settled(r) = [[[request[r] EXCEPT !.at = "refund"] EXCEPT
                        !.owed = [request[r].owed EXCEPT ![request[r].now] = 0]] EXCEPT !.now = None]
  BY <1>1 DEF Settled, Request
<1>3. [request[r].owed EXCEPT ![request[r].now] = 0] \in [Coldkeys -> Nat]
  BY <1>1 DEF Request
<1> QED
  BY <1>1, <1>2, <1>3 DEF Request, RequestTyped

\* Refund requests and restarts keep the types.
LEMMA RefundTypeKept ==
  ASSUME TypeOK,
         \/ RestartRunner \/ RestartApi
         \/ \E r \in Requests : PayRefund(r) \/ EndRefund(r) \/ PayFails(r)
         \/ \E r \in Requests, c \in Coldkeys : RecordRefund(r, c) \/ RecordFails(r, c)
         \/ \E r \in Requests, t \in Tournaments : BeginRefund(r, t)
  PROVE  TypeOK'
<1>0. AccountsTyped /\ PassTyped /\ TurnTyped
  BY TypeParts
<1>01. (PassTyped /\ UNCHANGED feed => PassTyped') /\ (TurnTyped /\ UNCHANGED entries => TurnTyped')
  BY DEF PassTyped, TurnTyped, feed, entries
<1>02. TypeOK' <=> /\ AccountsTyped' /\ PassTyped' /\ TurnTyped'
                   /\ request' \in [Requests -> Request] /\ \A r \in Requests : RequestTyped(request'[r])
  BY DEF TypeOK, AccountsTyped, PassTyped, TurnTyped, RequestTyped
<1>1. CASE RestartRunner
  <2>1. \E k \in Kinds : Fault(k)
    <3>1. CASE monitor.at = "credit"
      BY <1>1, <3>1 DEF RestartRunner, Kinds
    <3>2. CASE monitor.at # "credit"
      BY <1>1, <3>2 DEF RestartRunner, Kinds
    <3> QED
      BY <3>1, <3>2
  <2>2. faults' \in [Kinds -> Nat]
    BY <1>0, <2>1, FaultCounts DEF AccountsTyped
  <2>3. AccountsTyped'
    BY <1>0, <1>1, <2>2 DEF AccountsTyped, RestartRunner, accounts
  <2>4. {} \in SUBSET Tournaments /\ NoTurn \in Turns({})
    BY DEF Turns
  <2>5. TurnTyped'
    BY <1>1, <2>4, TurnsFit DEF RestartRunner, TurnTyped
  <2>6. PassTyped'
    BY <1>1, PassesFit DEF RestartRunner, PassTyped, NoPass
  <2> QED
    BY <1>02, <1>1, <2>3, <2>5, <2>6, TypeParts DEF RestartRunner
<1>2. CASE RestartApi
  <2>1. \E k \in Kinds : Fault(k)
    <3>1. CASE \E r \in Requests : request[r].at = "pay"
      BY <1>2, <3>1 DEF RestartApi, Kinds
    <3>2. CASE ~ \E r \in Requests : request[r].at = "pay"
      BY <1>2, <3>2 DEF RestartApi, Kinds
    <3> QED
      BY <3>1, <3>2
  <2>2. faults' \in [Kinds -> Nat]
    BY <1>0, <2>1, FaultCounts DEF AccountsTyped
  <2>3. AccountsTyped'
    BY <1>0, <1>2, <2>2 DEF AccountsTyped, RestartApi, accounts, entries, feed
  <2>4. request' \in [Requests -> Request] /\ \A r \in Requests : RequestTyped(request'[r])
    BY <1>2, DebtsAre DEF RestartApi, RequestTyped, NoRequest
  <2> QED
    BY <1>0, <1>01, <1>02, <1>2, <2>3, <2>4 DEF RestartApi
<1>3. ASSUME NEW r \in Requests, PayRefund(r)
      PROVE  TypeOK'
  <2>1. RequestTyped(Settled(r)) /\ request[r].now \in Coldkeys
    BY <1>3, SettledFits, RequestIs DEF PayRefund, RequestTyped
  <2>2. request' \in [Requests -> Request] /\ \A s \in Requests : RequestTyped(request'[s])
    BY <1>3, <2>1, RequestsKept DEF PayRefund
  <2>3. balance' \in [Coldkeys -> Int]
    <3>1. request[r].owed[request[r].now] \in Int /\ balance \in [Coldkeys -> Int]
      BY <1>0, <2>1, RequestIs DEF AccountsTyped
    <3> QED
      BY <1>3, <2>1, <3>1 DEF PayRefund
  <2>4. AccountsTyped'
    BY <1>0, <1>3, <2>3 DEF AccountsTyped, PayRefund, entries, feed
  <2> QED
    BY <1>0, <1>01, <1>02, <1>3, <2>2, <2>4 DEF PayRefund
<1>4. ASSUME NEW r \in Requests, EndRefund(r)
      PROVE  TypeOK'
  <2>1. RequestTyped(NoRequest)
    BY DebtsAre DEF RequestTyped, NoRequest
  <2>2. request' \in [Requests -> Request] /\ \A s \in Requests : RequestTyped(request'[s])
    BY <1>4, <2>1, RequestsKept DEF EndRefund
  <2>4. AccountsTyped'
    BY <1>0, <1>4 DEF AccountsTyped, EndRefund, entries, feed, accounts
  <2> QED
    BY <1>0, <1>01, <1>02, <1>4, <2>2, <2>4 DEF EndRefund
<1>5. ASSUME NEW r \in Requests, PayFails(r)
      PROVE  TypeOK'
  <2>1. RequestTyped(Settled(r))
    BY <1>5, SettledFits DEF PayFails
  <2>2. request' \in [Requests -> Request] /\ \A s \in Requests : RequestTyped(request'[s])
    BY <1>5, <2>1, RequestsKept DEF PayFails
  <2>3. faults' \in [Kinds -> Nat]
    BY <1>0, <1>5, FaultCounts DEF AccountsTyped, PayFails, Kinds
  <2>4. AccountsTyped'
    BY <1>0, <1>5, <2>3 DEF AccountsTyped, PayFails, entries, feed, accounts
  <2> QED
    BY <1>0, <1>01, <1>02, <1>5, <2>2, <2>4 DEF PayFails
<1>6. ASSUME NEW r \in Requests, NEW c \in Coldkeys, RecordRefund(r, c)
      PROVE  TypeOK'
  <2>0. request[r] \in Request /\ request[r].t \in Tournaments /\ request[r].owed[c] \in Nat
    BY <1>6, RequestIs DEF RequestTyped, RecordRefund
  <2>1. RequestTyped([request[r] EXCEPT !.at = "pay", !.now = c])
    <3>1. [request[r] EXCEPT !.at = "pay", !.now = c] = [[request[r] EXCEPT !.at = "pay"] EXCEPT !.now = c]
      BY <2>0 DEF Request
    <3> QED
      BY <2>0, <3>1 DEF Request, RequestTyped
  <2>2. request' \in [Requests -> Request] /\ \A s \in Requests : RequestTyped(request'[s])
    BY <1>6, <2>1, RequestsKept DEF RecordRefund
  <2>3. events' \in Seq(Event)
    <3>0. [tournament |-> request[r].t, coldkey |-> c, amount |-> request[r].owed[c]] \in Event
      BY <2>0 DEF Event
    <3>1. PICK e \in Event : e = [tournament |-> request[r].t, coldkey |-> c, amount |-> request[r].owed[c]]
      BY <3>0
    <3>2. events \in Seq(Event)
      BY <1>0 DEF AccountsTyped
    <3>3. events' = Append(events, e)
      BY <1>6, <3>1 DEF RecordRefund
    <3> HIDE DEF Event
    <3> QED
      BY <3>2, <3>3
  <2>4. AccountsTyped'
    BY <1>0, <1>6, <2>3 DEF AccountsTyped, RecordRefund, entries, feed
  <2> QED
    BY <1>0, <1>01, <1>02, <1>6, <2>2, <2>4 DEF RecordRefund
<1>7. ASSUME NEW r \in Requests, NEW c \in Coldkeys, RecordFails(r, c)
      PROVE  TypeOK'
  <2>0. request[r] \in Request /\ request[r].t \in Tournaments
    BY <1>7, RequestIs DEF RequestTyped, RecordFails
  <2>1. RequestTyped([request[r] EXCEPT !.owed[c] = 0])
    <3>1. [request[r].owed EXCEPT ![c] = 0] \in [Coldkeys -> Nat]
      BY <2>0 DEF Request
    <3>2. request[r].at = "refund"
      BY <1>7 DEF RecordFails
    <3> QED
      BY <2>0, <3>1, <3>2 DEF Request, RequestTyped
  <2>2. request' \in [Requests -> Request] /\ \A s \in Requests : RequestTyped(request'[s])
    BY <1>7, <2>1, RequestsKept DEF RecordFails
  <2>3. faults' \in [Kinds -> Nat]
    BY <1>0, <1>7, FaultCounts DEF AccountsTyped, RecordFails, Kinds
  <2>4. AccountsTyped'
    BY <1>0, <1>7, <2>3 DEF AccountsTyped, RecordFails, entries, feed, accounts
  <2> QED
    BY <1>0, <1>01, <1>02, <1>7, <2>2, <2>4 DEF RecordFails
<1>8. ASSUME NEW r \in Requests, NEW t \in Tournaments, BeginRefund(r, t)
      PROVE  TypeOK'
  <2>1. RequestTyped([at |-> "refund", t |-> t, owed |-> Owed(t), now |-> None])
    BY DebtsAre DEF Request, RequestTyped
  <2>2. request' \in [Requests -> Request] /\ \A s \in Requests : RequestTyped(request'[s])
    BY <1>8, <2>1, RequestsKept DEF BeginRefund
  <2>4. AccountsTyped'
    BY <1>0, <1>8 DEF AccountsTyped, BeginRefund, entries, feed, accounts
  <2> QED
    BY <1>0, <1>01, <1>02, <1>8, <2>2, <2>4 DEF BeginRefund
<1> QED
  BY <1>1, <1>2, <1>3, <1>4, <1>5, <1>6, <1>7, <1>8

\* Every step keeps the types.
LEMMA TypeKept ==
  ASSUME TypeOK, [Next]_vars
  PROVE  TypeOK'
<1>1. CASE Next
  BY <1>1, MonitorTypeKept, PendingTypeKept, RefundTypeKept
     DEF Next, MonitorStep, PendingStep, Failure, RefundStep
<1>2. CASE UNCHANGED vars
  BY <1>2 DEF vars, entries, accounts, feed, TypeOK
<1> QED
  BY <1>1, <1>2
-----------------------------------------------------------------------------
(* The books.                                                              *)

\* The stored transfers of a coldkey come to a natural number.
LEMMA AmountsAre ==
  ASSUME TypeOK, NEW c \in Coldkeys
  PROVE  SumFunction([x \in StoredBy(c) |-> Amount[x]]) \in Nat
<1> DEFINE f == [x \in StoredBy(c) |-> Amount[x]]
<1>1. StoredBy(c) \subseteq Transfers
  BY DEF StoredBy, TypeOK
<1>2. IsFiniteSet(StoredBy(c))
  BY <1>1, AccountsAssumption, FS_Subset
<1>3. f \in [StoredBy(c) -> Nat]
  BY <1>1, AccountsAssumption
<1> HIDE DEF f
<1>4. SumFunction(f) \in Nat
  BY <1>2, <1>3, SumIn, NumbersAdd
<1> QED
  BY <1>4 DEF f

\* The sums of the books are numbers.
LEMMA SumsAre ==
  ASSUME TypeOK, NEW c \in Coldkeys
  PROVE  /\ Due(c) \in Int /\ InFlight(c) \in Nat
         /\ \A r \in Requests : Lent(r, c) \in Nat
<1>1. SumFunction([x \in StoredBy(c) |-> Amount[x]]) \in Nat
  BY AmountsAre
<1>2. Net(DOMAIN events, c) \in Int
  BY NetIsInt
<1>3. \A r \in Requests : Lent(r, c) \in Nat
  BY RequestIs DEF Lent
<1>4. InFlight(c) \in Nat
  <2> DEFINE f == [r \in Requests |-> Lent(r, c)]
  <2>1. f \in [Requests -> Nat]
    BY <1>3
  <2>2. InFlight(c) = SumFunction(f)
    BY DEF InFlight, Lent
  <2> HIDE DEF f
  <2>3. SumFunction(f) \in Nat
    BY <2>1, AccountsAssumption, SumIn, NumbersAdd
  <2> QED
    BY <2>2, <2>3
<1>5. Due(c) \in Int
  BY <1>1, <1>2 DEF Due
<1> QED
  BY <1>3, <1>4, <1>5

SumsFit == \A c \in Coldkeys : /\ Due(c) \in Int /\ InFlight(c) \in Nat
                               /\ \A r \in Requests : Lent(r, c) \in Nat

\* The same in the next state.
LEMMA SumsNext == (TypeOK => SumsFit) /\ (TypeOK' => SumsFit')
<1>1. TypeOK => SumsFit
  BY SumsAre DEF SumsFit
<1> QED
  BY <1>1, PTL

\* The same sums where what they are made of is the same.
LEMMA SumsStay ==
  ASSUME NEW c \in Coldkeys
  PROVE  /\ UNCHANGED request => InFlight(c)' = InFlight(c)
         /\ UNCHANGED events => Net(DOMAIN events, c)' = Net(DOMAIN events, c)
         /\ UNCHANGED events /\ StoredBy(c)' = StoredBy(c) => Due(c)' = Due(c)
BY DEF InFlight, Net, Due

\* One request is at its next step.
LEMMA FlightChanges ==
  ASSUME TypeOK, TypeOK', NEW r \in Requests, \A s \in Requests \ {r} : request'[s] = request[s],
         NEW c \in Coldkeys
  PROVE  InFlight(c)' = InFlight(c) - Lent(r, c) + Lent(r, c)'
<1> DEFINE f == [s \in Requests |-> Lent(s, c)]
           g == [s \in Requests |-> Lent(s, c)']
<1>1. \A s \in Requests : Lent(s, c) \in Nat
  BY SumsAre
<1>2. \A s \in Requests : Lent(s, c)' \in Nat
  BY SumsNext DEF SumsFit
<1>3. f \in [Requests -> Int] /\ g \in [Requests -> Int] /\ f[r] = Lent(r, c) /\ g[r] = Lent(r, c)'
  BY <1>1, <1>2
<1>4. \A s \in Requests \ {r} : g[s] = f[s]
  BY DEF Lent
<1>5. InFlight(c) = SumFunction(f) /\ InFlight(c)' = SumFunction(g)
  BY DEF InFlight, Lent
<1> HIDE DEF f, g
<1>6. SumFunction(g) = SumFunction(f) - f[r] + g[r]
  BY <1>3, <1>4, AccountsAssumption, SumChange
<1> QED
  BY <1>3, <1>5, <1>6

\* The books hold where the difference stays, and where a credit or a refund
\* fails they may show more than the balance.
Gap(c) == Due(c) - balance[c] - InFlight(c)

\* Balances stay covered when each gap stays, or grows by a failure.
LEMMA BooksKept ==
  ASSUME TypeOK, TypeOK', BooksBalance, Failed \in Nat, Failed' \in Nat, Failed <= Failed',
         \A c \in Coldkeys : /\ 0 <= balance'[c]
                             /\ Gap(c)' = Gap(c) \/ (Gap(c)' >= Gap(c) /\ Failed' > 0)
  PROVE  BooksBalance'
<1>1. ASSUME NEW c \in Coldkeys
      PROVE  /\ 0 <= balance'[c] /\ balance'[c] + InFlight(c)' <= Due(c)'
             /\ Failed' = 0 => balance'[c] + InFlight(c)' = Due(c)'
  <2>1. Due(c) \in Int /\ InFlight(c) \in Int /\ Due(c)' \in Int /\ InFlight(c)' \in Int
    BY SumsNext DEF SumsFit
  <2>2. balance[c] \in Int /\ balance'[c] \in Int
    BY DEF TypeOK
  <2>3. 0 <= balance[c] /\ balance[c] + InFlight(c) <= Due(c) /\ (Failed = 0 => balance[c] + InFlight(c) = Due(c))
    BY DEF BooksBalance, Due, Failed
  <2> QED
    BY <2>1, <2>2, <2>3 DEF Gap
<1> QED
  BY <1>1 DEF BooksBalance, Due, Failed

\* The gap between a coldkey's books and its balance is no debt.
LEMMA GapIs ==
  ASSUME TypeOK, BooksBalance, NEW c \in Coldkeys
  PROVE  /\ Gap(c) \in Int /\ 0 <= balance[c] /\ balance[c] \in Int /\ 0 <= Gap(c)
         /\ Due(c) \in Int /\ InFlight(c) \in Nat
BY SumsAre DEF Gap, TypeOK, BooksBalance, Due

\* A step that touches neither the log nor a balance leaves the gap.
LEMMA GapStays ==
  ASSUME NEW c \in Coldkeys, UNCHANGED <<events, balance, request>>, StoredBy(c)' = StoredBy(c)
  PROVE  Gap(c)' = Gap(c)
BY SumsStay DEF Gap

\* The credit of the transfer at hand is due, or was lost.
LEMMA DueGains ==
  ASSUME TypeOK, MonitorFits, NEW c \in Coldkeys, monitor.at = "credit",
         UNCHANGED <<events, stored>>, monitor'.now = None
  PROVE  Due(c)' = Due(c) + (IF Sender[monitor.now] = c THEN Amount[monitor.now] ELSE 0)
<1> DEFINE f == [x \in StoredBy(c) |-> Amount[x]]
           g == [x \in StoredBy(c)' |-> Amount[x]]
<1>1. PICK x : x = monitor.now
  OBVIOUS
<1>2. x \in stored /\ x \in Transfers /\ Amount[x] \in Nat /\ stored \subseteq Transfers /\ None \notin Transfers
  BY <1>1, AccountsAssumption DEF MonitorFits, TypeOK
<1>3. StoredBy(c)' = StoredBy(c) \cup (IF Sender[x] = c THEN {x} ELSE {}) /\ x \notin StoredBy(c)
  BY <1>1, <1>2 DEF StoredBy
<1>4. Due(c) = SumFunction(f) + Net(DOMAIN events, c) /\ Due(c)' = SumFunction(g) + Net(DOMAIN events, c)
  BY SumsStay DEF Due
<1>5. IsFiniteSet(StoredBy(c)) /\ StoredBy(c) \subseteq Transfers
  <2>1. StoredBy(c) \subseteq Transfers
    BY <1>2 DEF StoredBy
  <2> QED
    BY <2>1, AccountsAssumption, FS_Subset
<1>6. f \in [StoredBy(c) -> Int]
  BY <1>5, AccountsAssumption
<1>7. SumFunction(f) \in Int /\ Net(DOMAIN events, c) \in Int
  <2> HIDE DEF f
  <2>1. SumFunction(f) \in Int
    BY <1>5, <1>6, SumIn, NumbersAdd
  <2> QED
    BY <2>1, NetIsInt
<1>8. CASE Sender[x] = c
  <2>1. /\ StoredBy(c)' = StoredBy(c) \cup {x} /\ g \in [StoredBy(c) \cup {x} -> Int]
        /\ (\A y \in StoredBy(c) : g[y] = f[y]) /\ g[x] = Amount[x]
    BY <1>2, <1>3, <1>5, <1>8, AccountsAssumption
  <2> HIDE DEF f, g
  <2>2. SumFunction(g) = SumFunction(f) + g[x]
    BY <1>3, <1>5, <1>6, <2>1, SumMore
  <2> QED
    BY <1>1, <1>2, <1>4, <1>7, <1>8, <2>1, <2>2
<1>9. CASE Sender[x] # c
  <2>1. g = f
    BY <1>3, <1>9
  <2> HIDE DEF f, g
  <2> QED
    BY <1>1, <1>4, <1>7, <1>9, <2>1
<1> QED
  BY <1>8, <1>9

\* Nothing is in flight when no request is paying.
LEMMA FlightZero ==
  TypeOK => \A c \in Coldkeys : (\A r \in Requests : Lent(r, c) = 0) => InFlight(c) = 0
<1> SUFFICES ASSUME TypeOK, NEW c \in Coldkeys, \A r \in Requests : Lent(r, c) = 0
             PROVE  InFlight(c) = 0
  OBVIOUS
<1> DEFINE f == [r \in Requests |-> Lent(r, c)]
<1>1. f \in [Requests -> {0}] /\ InFlight(c) = SumFunction(f)
  BY DEF InFlight, Lent
<1> HIDE DEF f
<1>2. SumFunction(f) \in {0}
  BY <1>1, AccountsAssumption, SumIn, NumbersAdd
<1> QED
  BY <1>1, <1>2

\* The same in the next state.
LEMMA FlightZeroNext ==
  TypeOK' => \A c \in Coldkeys : (\A r \in Requests : Lent(r, c)' = 0) => InFlight(c)' = 0
<1> DEFINE Zero == \A c \in Coldkeys : (\A r \in Requests : Lent(r, c) = 0) => InFlight(c) = 0
<1>1. TypeOK => Zero
  BY FlightZero
<1>2. TypeOK' => Zero'
  <2> HIDE DEF Zero
  <2> QED
    BY <1>1, PTL
<1> QED
  BY <1>2

\* A failure counts, and the rest keeps the count.
LEMMA FailuresGrow ==
  ASSUME TypeOK
  PROVE  /\ NoFault => Failed \in Nat /\ Failed' = Failed
         /\ \A k \in Kinds : Fault(k) =>
              /\ Failed \in Nat /\ Failed' \in Nat /\ Failed <= Failed'
              /\ k \in {"credit", "refund"} => Failed' > 0
<1>1. faults \in [Kinds -> Nat] /\ Failed \in Nat
  BY DEF TypeOK, Failed, Kinds
<1>2. NoFault => Failed' = Failed
  BY DEF NoFault, Failed
<1> QED
  BY <1>1, <1>2, FaultCounts

\* Steps that touch neither money nor requests.
LEMMA BooksQuiet ==
  ASSUME TypeOK, TypeOK', BooksBalance, UNCHANGED <<events, balance, request>>,
         \A c \in Coldkeys : StoredBy(c)' = StoredBy(c),
         NoFault \/ (\E k \in Kinds : Fault(k))
  PROVE  BooksBalance'
<1>1. Failed \in Nat /\ Failed' \in Nat /\ Failed <= Failed'
  BY FailuresGrow
<1>2. \A c \in Coldkeys : 0 <= balance'[c] /\ Gap(c)' = Gap(c)
  BY GapStays, GapIs
<1> QED
  BY <1>1, <1>2, BooksKept

\* What neither the monitor nor the miners' accounts show.
LEMMA StoredStays ==
  ASSUME UNCHANGED stored, monitor'.now = monitor.now
  PROVE  \A c \in Coldkeys : StoredBy(c)' = StoredBy(c)
BY DEF StoredBy

\* The balance follows the credit; a credit that fails leaves a gap.
LEMMA CreditBooks ==
  ASSUME TypeOK, TypeOK', MonitorFits, BooksBalance,
         Credit \/ CreditFails \/ (RestartRunner /\ monitor.at = "credit")
  PROVE  BooksBalance'
<1>1. PICK x \in Transfers : x = monitor.now
  BY DEF TypeOK, Credit, CreditFails
<1>2. /\ monitor.at = "credit" /\ UNCHANGED <<events, stored, request>> /\ monitor'.now = None
  <2>1. UNCHANGED <<events, stored, request>> /\ monitor.at = "credit" /\ monitor \in Pass
    BY DEF Credit, CreditFails, RestartRunner, accounts, TypeOK
  <2>2. [monitor EXCEPT !.at = "store", !.now = None].now = None
    BY <2>1 DEF Pass
  <2>3. NoPass.now = None
    BY DEF NoPass
  <2> QED
    BY <2>1, <2>2, <2>3 DEF Credit, CreditFails, RestartRunner
<1>3. Sender[x] \in Coldkeys /\ Amount[x] \in Nat
  BY AccountsAssumption
<1>4. ASSUME NEW c \in Coldkeys
      PROVE  /\ Due(c)' = Due(c) + (IF Sender[x] = c THEN Amount[x] ELSE 0)
             /\ InFlight(c)' = InFlight(c)
             /\ Due(c) \in Int /\ InFlight(c) \in Int /\ balance[c] \in Int /\ 0 <= balance[c]
    BY <1>1, <1>2, DueGains, SumsStay, GapIs
<1>5. CASE Credit
  <2>1. NoFault /\ balance' = [balance EXCEPT ![Sender[x]] = balance[Sender[x]] + Amount[x]]
    BY <1>1, <1>5 DEF Credit, NoFault
  <2>2. Failed \in Nat /\ Failed' \in Nat /\ Failed <= Failed'
    BY <2>1, FailuresGrow
  <2>3. ASSUME NEW c \in Coldkeys
        PROVE  0 <= balance'[c] /\ Gap(c)' = Gap(c)
    <3>1. balance'[c] = balance[c] + (IF Sender[x] = c THEN Amount[x] ELSE 0)
      BY <1>3, <1>4, <2>1 DEF TypeOK
    <3> QED
      BY <1>3, <1>4, <3>1 DEF Gap
  <2> QED
    BY <2>2, <2>3, BooksKept
<1>6. CASE CreditFails \/ (RestartRunner /\ monitor.at = "credit")
  <2>1. Fault("credit") /\ balance' = balance
    BY <1>6 DEF CreditFails, RestartRunner, accounts
  <2>2. Failed \in Nat /\ Failed' \in Nat /\ Failed <= Failed' /\ Failed' > 0
    BY <2>1, FailuresGrow DEF Kinds
  <2>3. \A c \in Coldkeys : 0 <= balance'[c] /\ Gap(c)' >= Gap(c)
    BY <1>3, <1>4, <2>1 DEF Gap
  <2> QED
    BY <2>2, <2>3, BooksKept
<1> QED
  BY <1>5, <1>6

\* The entry's event and the debit are one.
LEMMA EnrolBooks ==
  ASSUME TypeOK, TypeOK', BooksBalance, NEW h \in Hotkeys, Enrol(h)
  PROVE  BooksBalance'
<1> DEFINE t == pop.t
           d == pop.picked[h]
<1>1. t \in Tournaments /\ d \in Coldkeys /\ Fee[t] \in Nat /\ UNCHANGED <<request, faults, stored, monitor>>
  BY PickedAre, AccountsAssumption DEF Enrol, TypeOK, feed
<1>2. \A c \in Coldkeys : StoredBy(c)' = StoredBy(c)
  BY <1>1, StoredStays
<1>3. NoFault
  BY <1>1 DEF NoFault
<1>4. CASE ~Charges(t, h, d)
  BY <1>1, <1>2, <1>3, <1>4, BooksQuiet DEF Enrol
<1>5. CASE Charges(t, h, d)
  <2>1. PICK e : e = [tournament |-> t, coldkey |-> d, amount |-> -Fee[t]]
    OBVIOUS
  <2>2. e \in Event /\ e.coldkey = d /\ e.amount = -Fee[t]
    BY <1>1, <2>1 DEF Event
  <2>3. /\ Written(e) /\ balance' = [balance EXCEPT ![d] = balance[d] - Fee[t]] /\ balance[d] >= Fee[t]
    BY <1>5, <2>1 DEF Enrol, Written, Charges
  <2>4. Failed \in Nat /\ Failed' \in Nat /\ Failed <= Failed'
    BY <1>3, FailuresGrow
  <2>5. ASSUME NEW c \in Coldkeys
        PROVE  0 <= balance'[c] /\ Gap(c)' = Gap(c)
    <3>1. Net(DOMAIN events, c)' = Net(DOMAIN events, c) + (IF d = c THEN -Fee[t] ELSE 0)
      BY <2>2, <2>3, NetAppends
    <3>2. Net(DOMAIN events, c) \in Int
      BY NetIsInt
    <3>3. balance[c] \in Int /\ 0 <= balance[c] /\ InFlight(c) \in Int /\ Due(c) \in Int
      BY GapIs
    <3>4. Due(c)' = Due(c) + (IF d = c THEN -Fee[t] ELSE 0)
      <4>1. SumFunction([x \in StoredBy(c)' |-> Amount[x]]) = SumFunction([x \in StoredBy(c) |-> Amount[x]])
        BY <1>2
      <4>2. PICK s : s = SumFunction([x \in StoredBy(c) |-> Amount[x]])
        OBVIOUS
      <4>3. Due(c) = s + Net(DOMAIN events, c) /\ Due(c)' = s + Net(DOMAIN events, c)'
        BY <4>1, <4>2 DEF Due
      <4>4. s \in Int
        BY <4>2, AmountsAre
      <4> QED
        BY <1>1, <3>1, <3>2, <4>3, <4>4
    <3>5. balance'[c] = IF d = c THEN balance[c] - Fee[t] ELSE balance[c]
      BY <1>1, <2>3 DEF TypeOK
    <3>6. InFlight(c)' = InFlight(c)
      BY <1>1, SumsStay
    <3> HIDE DEF t, d
    <3> QED
      BY <1>1, <2>3, <3>3, <3>4, <3>5, <3>6 DEF Gap
  <2> QED
    BY <2>4, <2>5, BooksKept
<1> QED
  BY <1>4, <1>5

\* What requests take with them, one of them at its next step.
LEMMA RefundBooks ==
  ASSUME TypeOK, TypeOK', BooksBalance,
         NEW r \in Requests, \/ PayRefund(r) \/ EndRefund(r) \/ PayFails(r)
                             \/ \E c \in Coldkeys : RecordRefund(r, c) \/ RecordFails(r, c)
                             \/ \E t \in Tournaments : BeginRefund(r, t)
  PROVE  BooksBalance'
<1>0. UNCHANGED <<stored, monitor>>
  BY DEF PayRefund, EndRefund, PayFails, RecordRefund, RecordFails, BeginRefund, feed
<1>1. \A c \in Coldkeys : StoredBy(c)' = StoredBy(c)
  BY <1>0, StoredStays
<1>2. PICK q : Set(r, q)
  BY DEF PayRefund, EndRefund, PayFails, RecordRefund, RecordFails, BeginRefund
<1>3. request'[r] = q /\ \A s \in Requests \ {r} : request'[s] = request[s]
  BY <1>2 DEF Set, TypeOK
<1>4. ASSUME NEW c \in Coldkeys
      PROVE  InFlight(c)' = InFlight(c) - Lent(r, c) + Lent(r, c)'
  BY <1>3, FlightChanges
<1>5. ASSUME NEW c \in Coldkeys
      PROVE  /\ Due(c) \in Int /\ InFlight(c) \in Nat /\ Lent(r, c) \in Nat /\ Lent(r, c)' \in Nat
             /\ balance[c] \in Int /\ 0 <= balance[c]
  BY SumsNext, GapIs DEF SumsFit
<1>6. /\ request[r].at = "pay" => request[r].now \in Coldkeys
      /\ \A c \in Coldkeys : request[r].owed[c] \in Nat
  BY RequestIs DEF RequestTyped
<1>7. NoFault => Failed \in Nat /\ Failed' \in Nat /\ Failed <= Failed'
  BY FailuresGrow
<1>8. Fault("refund") => Failed \in Nat /\ Failed' \in Nat /\ Failed <= Failed' /\ Failed' > 0
  BY FailuresGrow DEF Kinds
<1>9. CASE PayRefund(r) \/ PayFails(r)
  <2>1. PICK d \in Coldkeys : d = request[r].now
    BY <1>6, <1>9 DEF PayRefund, PayFails
  <2>2. request[r].at = "pay" /\ request'[r].at = "refund" /\ UNCHANGED events
    BY <1>9, <1>3, <1>2, SettledFits DEF PayRefund, PayFails, accounts, Set, TypeOK
  <2>3. ASSUME NEW c \in Coldkeys
        PROVE  /\ Lent(r, c) = (IF c = d THEN request[r].owed[d] ELSE 0) /\ Lent(r, c)' = 0
               /\ Due(c)' = Due(c)
    BY <1>1, <2>1, <2>2, SumsStay DEF Lent
  <2>4. CASE PayRefund(r)
    <3>1. NoFault /\ balance' = [balance EXCEPT ![d] = balance[d] + request[r].owed[d]]
      BY <2>1, <2>4 DEF PayRefund, NoFault
    <3>2. ASSUME NEW c \in Coldkeys
          PROVE  0 <= balance'[c] /\ Gap(c)' = Gap(c)
      <4>1. balance'[c] = balance[c] + (IF c = d THEN request[r].owed[d] ELSE 0)
        BY <1>5, <1>6, <3>1 DEF TypeOK
      <4> QED
        BY <1>4, <1>5, <1>6, <2>1, <2>3, <4>1 DEF Gap
    <3> QED
      BY <1>7, <3>1, <3>2, BooksKept
  <2>5. CASE PayFails(r)
    <3>1. Fault("refund") /\ balance' = balance
      BY <2>5 DEF PayFails, accounts
    <3>2. ASSUME NEW c \in Coldkeys
          PROVE  0 <= balance'[c] /\ Gap(c)' >= Gap(c)
      BY <1>4, <1>5, <1>6, <2>1, <2>3, <3>1 DEF Gap
    <3> QED
      BY <1>8, <3>1, <3>2, BooksKept
  <2> QED
    BY <1>9, <2>4, <2>5
<1>10. CASE EndRefund(r) \/ (\E c \in Coldkeys : RecordFails(r, c)) \/ (\E t \in Tournaments : BeginRefund(r, t))
  <2>1. /\ request[r].at # "pay" /\ UNCHANGED <<events, balance>>
        /\ NoFault \/ Fault("refund")
    BY <1>10 DEF EndRefund, RecordFails, BeginRefund, accounts, NoFault
  <2>2. request'[r].at # "pay"
    <3>1. CASE EndRefund(r)
      BY <3>1 DEF EndRefund, Set, NoRequest, TypeOK
    <3>2. ASSUME NEW c \in Coldkeys, RecordFails(r, c)
          PROVE  request'[r].at # "pay"
      <4>1. request[r] \in Request /\ request'[r] = [request[r] EXCEPT !.owed[c] = 0]
        BY <3>2, RequestIs DEF RecordFails, Set, TypeOK
      <4> QED
        BY <2>1, <4>1 DEF Request
    <3>3. ASSUME NEW t \in Tournaments, BeginRefund(r, t)
          PROVE  request'[r].at # "pay"
      BY <3>3 DEF BeginRefund, Set, TypeOK
    <3> QED
      BY <1>10, <3>1, <3>2, <3>3
  <2>3. ASSUME NEW c \in Coldkeys
        PROVE  0 <= balance'[c] /\ Gap(c)' = Gap(c)
    <3>1. Lent(r, c) = 0 /\ Lent(r, c)' = 0 /\ Due(c)' = Due(c)
      BY <1>1, <2>1, <2>2, SumsStay DEF Lent
    <3> QED
      BY <1>4, <1>5, <2>1, <3>1 DEF Gap
  <2> QED
    BY <1>7, <1>8, <2>1, <2>3, BooksKept
<1>11. ASSUME NEW d \in Coldkeys, RecordRefund(r, d)
       PROVE  BooksBalance'
  <2>0. PICK e : e = [tournament |-> request[r].t, coldkey |-> d, amount |-> request[r].owed[d]]
    OBVIOUS
  <2>1. e \in Event /\ e.coldkey = d /\ e.amount = request[r].owed[d]
    <3>1. request[r].t \in Tournaments /\ request[r].owed[d] \in Int
      <4>1. request[r].at = "refund"
        BY <1>11 DEF RecordRefund
      <4> QED
        BY <1>6, <4>1, RequestIs DEF RequestTyped
    <3> QED
      BY <2>0, <3>1 DEF Event
  <2>2. Written(e) /\ UNCHANGED balance /\ NoFault /\ request[r].at = "refund"
    BY <1>11, <2>0 DEF RecordRefund, Written, NoFault
  <2>3. request'[r].at = "pay" /\ request'[r].now = d /\ request'[r].owed = request[r].owed
    <3>1. request[r] \in Request /\ request'[r] = [request[r] EXCEPT !.at = "pay", !.now = d]
      BY <1>11, RequestIs DEF RecordRefund, Set, TypeOK
    <3> QED
      BY <3>1 DEF Request
  <2>4. ASSUME NEW c \in Coldkeys
        PROVE  0 <= balance'[c] /\ Gap(c)' = Gap(c)
    <3>1. Lent(r, c) = 0 /\ Lent(r, c)' = IF d = c THEN request[r].owed[d] ELSE 0
      BY <2>2, <2>3 DEF Lent
    <3>2. Net(DOMAIN events, c)' = Net(DOMAIN events, c) + (IF d = c THEN request[r].owed[d] ELSE 0)
      BY <2>1, <2>2, NetAppends
    <3>3. Due(c)' = Due(c) + (IF d = c THEN request[r].owed[d] ELSE 0)
      <4>1. SumFunction([x \in StoredBy(c)' |-> Amount[x]]) = SumFunction([x \in StoredBy(c) |-> Amount[x]])
        BY <1>1
      <4>2. PICK s : s = SumFunction([x \in StoredBy(c) |-> Amount[x]])
        OBVIOUS
      <4>3. Due(c) = s + Net(DOMAIN events, c) /\ Due(c)' = s + Net(DOMAIN events, c)'
        BY <4>1, <4>2 DEF Due
      <4>4. s \in Int /\ Net(DOMAIN events, c) \in Int
        BY <4>2, AmountsAre, NetIsInt
      <4> QED
        BY <1>6, <3>2, <4>3, <4>4
    <3> QED
      BY <1>4, <1>5, <1>6, <2>2, <3>1, <3>3 DEF Gap
  <2> QED
    BY <1>7, <2>2, <2>4, BooksKept
<1> QED
  BY <1>9, <1>10, <1>11

\* A restart of the API forgets what was to be paid.
LEMMA RestartBooks ==
  ASSUME TypeOK, TypeOK', BooksBalance, RestartApi
  PROVE  BooksBalance'
<1>1. UNCHANGED <<events, balance, stored, monitor>>
  BY DEF RestartApi, accounts, feed
<1>2. ASSUME NEW c \in Coldkeys
      PROVE  /\ InFlight(c)' = 0 /\ Due(c)' = Due(c) /\ Due(c) \in Int /\ InFlight(c) \in Nat
             /\ balance[c] \in Int /\ 0 <= balance[c]
             /\ (\A r \in Requests : request[r].at # "pay") => InFlight(c) = 0
  <2>1. \A r \in Requests : Lent(r, c)' = 0
    BY DEF Lent, RestartApi, NoRequest
  <2>2. (\A r \in Requests : request[r].at # "pay") => \A r \in Requests : Lent(r, c) = 0
    BY DEF Lent
  <2>3. StoredBy(c)' = StoredBy(c)
    BY <1>1, StoredStays
  <2> QED
    BY <1>1, <2>1, <2>2, <2>3, FlightZero, FlightZeroNext, SumsStay, GapIs
<1>3. CASE \E r \in Requests : request[r].at = "pay"
  <2>1. Fault("refund")
    BY <1>3 DEF RestartApi
  <2>2. Failed \in Nat /\ Failed' \in Nat /\ Failed <= Failed' /\ Failed' > 0
    BY <2>1, FailuresGrow DEF Kinds
  <2>3. \A c \in Coldkeys : 0 <= balance'[c] /\ Gap(c)' >= Gap(c)
    BY <1>1, <1>2 DEF Gap
  <2> QED
    BY <2>2, <2>3, BooksKept
<1>4. CASE ~ \E r \in Requests : request[r].at = "pay"
  <2>1. Fault("restart")
    BY <1>4 DEF RestartApi
  <2>2. Failed \in Nat /\ Failed' \in Nat /\ Failed <= Failed'
    BY <2>1, FailuresGrow DEF Kinds
  <2>3. \A c \in Coldkeys : 0 <= balance'[c] /\ Gap(c)' = Gap(c)
    BY <1>1, <1>2, <1>4 DEF Gap
  <2> QED
    BY <2>2, <2>3, BooksKept
<1> QED
  BY <1>3, <1>4

\* Every step keeps the books.
LEMMA BooksStep ==
  ASSUME TypeOK, MonitorFits, BooksBalance, [Next]_vars
  PROVE  BooksBalance'
<1>0. TypeOK'
  BY TypeKept
<1>1. CASE BeginPass \/ MoveCursor \/ MoveFails \/ (\E x \in Transfers : Pay(x) \/ StoreFails(x))
  <2>1. UNCHANGED <<events, balance, request, stored>> /\ (NoFault \/ \E k \in Kinds : Fault(k))
    BY <1>1 DEF BeginPass, MoveCursor, MoveFails, Pay, StoreFails, accounts, NoFault, Kinds
  <2>2. monitor'.now = monitor.now
    BY <1>1, PassesFit DEF MonitorFits, BeginPass, MoveCursor, MoveFails, Pay, StoreFails, NoPass
  <2> QED
    BY <1>0, <2>1, <2>2, StoredStays, BooksQuiet
<1>2. ASSUME NEW x \in Transfers, StoreTransfer(x)
      PROVE  BooksBalance'
  <2>1. UNCHANGED <<events, balance, request>> /\ NoFault /\ monitor.now = None /\ x # None
    BY <1>2, AccountsAssumption DEF StoreTransfer, accounts, NoFault, MonitorFits
  <2>2. ASSUME NEW c \in Coldkeys
        PROVE  StoredBy(c)' = StoredBy(c)
    <3>1. CASE x \in stored
      BY <1>2, <3>1, PassesFit DEF StoreTransfer, StoredBy
    <3>2. CASE x \notin stored
      <4>1. monitor' = [Passed(x) EXCEPT !.at = "credit", !.now = x] /\ stored' = stored \cup {x}
        BY <1>2, <3>2 DEF StoreTransfer
      <4>2. monitor'.now = x
        BY <4>1, PassesFit DEF Pass
      <4>3. stored \subseteq Transfers /\ None \notin Transfers
        BY AccountsAssumption DEF TypeOK
      <4> QED
        BY <2>1, <3>2, <4>1, <4>2, <4>3 DEF StoredBy
    <3> QED
      BY <3>1, <3>2
  <2> QED
    BY <1>0, <2>1, <2>2, BooksQuiet
<1>3. CASE \/ ReadPending \/ CountMiners \/ EndEnrolments \/ Activate
           \/ \E h \in Hotkeys : EnrolFails(h)
           \/ \E h \in Hotkeys, c \in Coldkeys : Rekey(h, c)
           \/ \E t \in Tournaments : CallOff(t)
  <2>1. UNCHANGED <<events, balance, request, stored, monitor>> /\ (NoFault \/ \E k \in Kinds : Fault(k))
    BY <1>3 DEF ReadPending, CountMiners, EndEnrolments, Activate, EnrolFails, Rekey, CallOff,
                accounts, feed, NoFault, Kinds
  <2> QED
    BY <1>0, <2>1, StoredStays, BooksQuiet
<1>4. CASE RestartRunner
  <2>1. CASE monitor.at # "credit"
    <3>1. UNCHANGED <<events, balance, request, stored>> /\ Fault("restart") /\ "restart" \in Kinds
      BY <1>4, <2>1 DEF RestartRunner, accounts, Kinds
    <3>2. monitor'.now = monitor.now
      BY <1>4, <2>1 DEF RestartRunner, NoPass, MonitorFits
    <3> QED
      BY <1>0, <3>1, <3>2, StoredStays, BooksQuiet
  <2> QED
    BY <1>0, <1>4, <2>1, CreditBooks
<1>5. CASE UNCHANGED vars
  BY <1>5 DEF vars, accounts, feed, BooksBalance, StoredBy, Net, InFlight
<1> QED
  BY <1>0, <1>1, <1>2, <1>3, <1>4, <1>5, CreditBooks, EnrolBooks, RefundBooks, RestartBooks
     DEF Next, MonitorStep, PendingStep, Failure, RefundStep
-----------------------------------------------------------------------------
(* Entries and what is given back for them.                                *)

\* What one more event adds to the fees.
LEMMA FeesAppend ==
  ASSUME TypeOK, NEW e \in Event, Written(e)
  PROVE  /\ \A t \in Tournaments :
              Fees(t)' = Fees(t) \cup (IF e.tournament = t /\ IsFee(e) THEN {Len(events) + 1} ELSE {})
         /\ \A i \in DOMAIN events : events'[i] = events[i] /\ i < Len(events) + 1 /\ i \in Nat
         /\ events'[Len(events) + 1] = e /\ Len(events) + 1 \notin DOMAIN events
         /\ DOMAIN events' = DOMAIN events \cup {Len(events) + 1}
<1>1. /\ events \in Seq(Event) /\ events' = Append(events, e)
  BY DEF TypeOK, Written
<1>2. PICK n \in Nat : n = Len(events) + 1
  BY <1>1
<1>3. /\ \A i \in DOMAIN events : events'[i] = events[i] /\ i < n /\ i \in Nat
      /\ events'[n] = e /\ n \notin DOMAIN events /\ DOMAIN events' = DOMAIN events \cup {n}
  <2> HIDE DEF Event
  <2> QED
    BY <1>1, <1>2
<1>4. ASSUME NEW t \in Tournaments
      PROVE  Fees(t)' = Fees(t) \cup (IF e.tournament = t /\ IsFee(e) THEN {n} ELSE {})
  <2>1. Fees(t)' = {i \in DOMAIN events' : events'[i].tournament = t /\ IsFee(events'[i])}
    BY DEF Fees, IsFee
  <2> HIDE DEF Event
  <2> QED
    BY <1>3, <2>1 DEF Fees
<1> QED
  BY <1>2, <1>3, <1>4

\* A fee stays a fee.
LEMMA PaidStays ==
  ASSUME TypeOK, UNCHANGED events \/ (\E e \in Event : Written(e))
  PROVE  \A t \in Tournaments, c \in Coldkeys : HasPaid(t, c) => HasPaid(t, c)'
<1>1. CASE UNCHANGED events
  BY <1>1 DEF HasPaid, Fees
<1>2. ASSUME NEW e \in Event, Written(e), NEW t \in Tournaments, NEW c \in Coldkeys, HasPaid(t, c)
      PROVE  HasPaid(t, c)'
  <2>1. PICK i \in Fees(t) : events[i].coldkey = c
    BY <1>2 DEF HasPaid
  <2>2. i \in Fees(t)' /\ events'[i] = events[i]
    <3>1. i \in DOMAIN events
      BY DEF Fees
    <3> QED
      BY <1>2, <2>1, <3>1, FeesAppend
  <2> QED
    BY <2>1, <2>2 DEF HasPaid
<1> QED
  BY <1>1, <1>2

\* The entries of a tournament and its fees go together.
LEMMA FeesFinite ==
  ASSUME TypeOK, NEW t \in Tournaments
  PROVE  /\ IsFiniteSet(Fees(t)) /\ IsFiniteSet(entered[t])
         /\ Cardinality(Fees(t)) \in Nat /\ Cardinality(entered[t]) \in Nat
<1>1. IsFiniteSet(DOMAIN events)
  BY EventsAre DEF TypeOK
<1>2. Fees(t) \subseteq DOMAIN events /\ entered[t] \subseteq Hotkeys
  BY DEF Fees, TypeOK
<1>3. IsFiniteSet(Fees(t)) /\ IsFiniteSet(entered[t])
  BY <1>1, <1>2, AccountsAssumption, FS_Subset
<1> QED
  BY <1>3, FS_CardinalityType

\* Enrolling a miner charges a coldkey once for a tournament.
LEMMA EntriesEnrol ==
  ASSUME TypeOK, EntriesArePaidOnce, NEW h \in Hotkeys, Enrol(h)
  PROVE  EntriesArePaidOnce'
<1>0. PICK t, d : t = pop.t /\ d = pop.picked[h]
  OBVIOUS
<1>1. t \in Tournaments /\ d \in Coldkeys /\ Fee[t] \in Nat /\ Fee[t] > 0
  BY <1>0, PickedAre, AccountsAssumption DEF Enrol, TypeOK
<1>2. CASE ~Charges(t, h, d)
  BY <1>0, <1>2 DEF Enrol, EntriesArePaidOnce, Fees
<1>3. CASE Charges(t, h, d)
  <2>1. PICK e : e = [tournament |-> t, coldkey |-> d, amount |-> -Fee[t]]
    OBVIOUS
  <2>2. e \in Event /\ e.coldkey = d /\ e.tournament = t /\ IsFee(e)
    BY <1>1, <2>1 DEF Event, IsFee
  <2>3. /\ Written(e) /\ h \notin entered[t] /\ ~HasPaid(t, d)
        /\ entered' = [entered EXCEPT ![t] = entered[t] \cup {h}]
    BY <1>0, <1>3, <2>1 DEF Enrol, Written, Charges
  <2>4. PICK n : /\ \A u \in Tournaments : Fees(u)' = Fees(u) \cup (IF e.tournament = u /\ IsFee(e) THEN {n} ELSE {})
                 /\ \A i \in DOMAIN events : events'[i] = events[i]
                 /\ events'[n] = e /\ n \notin DOMAIN events
    BY <2>2, <2>3, FeesAppend
  <2>5. ASSUME NEW u \in Tournaments
        PROVE  /\ Cardinality(Fees(u))' = Cardinality(entered[u])'
               /\ \A i, j \in Fees(u)' : events'[i].coldkey = events'[j].coldkey => i = j
    <3>1. /\ Cardinality(Fees(u)) = Cardinality(entered[u])
          /\ \A i, j \in Fees(u) : events[i].coldkey = events[j].coldkey => i = j
          /\ Fees(u) \subseteq DOMAIN events
      BY DEF EntriesArePaidOnce, Fees
    <3>2. CASE u # t
      <4>1. Fees(u)' = Fees(u)
        BY <2>2, <2>4, <3>2
      <4>2. entered'[u] = entered[u]
        BY <2>3, <3>2 DEF TypeOK
      <4> QED
        BY <2>4, <3>1, <4>1, <4>2
    <3>3. CASE u = t
      <4>0. entered'[t] = entered[t] \cup {h}
        BY <1>1, <2>3 DEF TypeOK
      <4>1. Fees(t)' = Fees(t) \cup {n} /\ n \notin Fees(t)
        BY <1>1, <2>2, <2>4, <3>1, <3>3
      <4>2. /\ Cardinality(Fees(t) \cup {n}) = Cardinality(Fees(t)) + 1
            /\ Cardinality(entered[t] \cup {h}) = Cardinality(entered[t]) + 1
        BY <1>1, <2>3, <4>1, FeesFinite, FS_AddElement
      <4>3. \A i \in Fees(t) : events'[i] = events[i] /\ events[i].coldkey # d
        BY <2>3, <2>4, <3>1, <3>3 DEF HasPaid
      <4>4. \A i, j \in Fees(t)' : events'[i].coldkey = events'[j].coldkey => i = j
        BY <2>2, <2>4, <3>1, <3>3, <4>1, <4>3
      <4> QED
        BY <3>1, <3>3, <4>0, <4>1, <4>2, <4>4
    <3> QED
      BY <3>2, <3>3
  <2> QED
    BY <2>5 DEF EntriesArePaidOnce
<1> QED
  BY <1>2, <1>3

\* Every step keeps the entries paid once.
LEMMA EntriesStep ==
  ASSUME TypeOK, EntriesArePaidOnce, [Next]_vars
  PROVE  EntriesArePaidOnce'
<1>1. CASE UNCHANGED <<events, entered>>
  BY <1>1 DEF EntriesArePaidOnce, Fees
<1>2. ASSUME NEW r \in Requests, NEW c \in Coldkeys, RecordRefund(r, c)
      PROVE  EntriesArePaidOnce'
  <2>1. PICK e : e = [tournament |-> request[r].t, coldkey |-> c, amount |-> request[r].owed[c]]
    OBVIOUS
  <2>2. request[r].t \in Tournaments /\ request[r].owed[c] \in Nat
    BY <1>2, RequestIs DEF RecordRefund, RequestTyped
  <2>3. e \in Event /\ ~IsFee(e) /\ Written(e) /\ UNCHANGED entered
    BY <1>2, <2>1, <2>2 DEF Event, IsFee, Written, RecordRefund, entries
  <2>4. ASSUME NEW t \in Tournaments
        PROVE  Fees(t)' = Fees(t) /\ \A i \in Fees(t) : events'[i] = events[i]
    <3>1. Fees(t) \subseteq DOMAIN events
      BY DEF Fees
    <3> QED
      BY <2>3, <3>1, FeesAppend
  <2> QED
    BY <2>3, <2>4 DEF EntriesArePaidOnce
<1>3. \/ UNCHANGED <<events, entered>> \/ (\E h \in Hotkeys : Enrol(h))
      \/ \E r \in Requests, c \in Coldkeys : RecordRefund(r, c)
  BY DEF Next, MonitorStep, PendingStep, Failure, RefundStep, vars, accounts, entries,
         BeginPass, Credit, MoveCursor, StoreTransfer, ReadPending, CountMiners, EndEnrolments,
         Activate, PayRefund, EndRefund, CreditFails, MoveFails, RestartRunner, RestartApi,
         StoreFails, EnrolFails, PayFails, RecordFails, BeginRefund, Pay, Rekey, CallOff
<1> QED
  BY <1>1, <1>2, <1>3, EntriesEnrol

\* A set of one request has one request.
LEMMA OneRequest ==
  ASSUME Cardinality(Requests) = 1
  PROVE  \A q, r \in Requests : q = r
<1>1. PICK s : Requests = {s}
  BY AccountsAssumption, FS_Singleton
<1> QED
  BY <1>1

\* A fee that is seen has everything of its coldkey that followed in view, and
\* nothing of it came before.
LEMMA RecentIsAll ==
  ASSUME TypeOK, EntriesArePaidOnce, RefundsFollowFees, NEW t \in Tournaments, NEW c \in Coldkeys,
         NEW i \in Recent(t) \cap Fees(t), events[i].coldkey = c
  PROVE  Net(Recent(t), c) = Net(EventsOf(t), c)
<1>1. DOMAIN events \subseteq Nat /\ IsFiniteSet(DOMAIN events)
  BY EventsAre DEF TypeOK
<1>2. EventsOf(t) \subseteq DOMAIN events /\ Recent(t) \subseteq EventsOf(t)
  BY DEF EventsOf, Recent
<1>3. ASSUME NEW j \in EventsOf(t), events[j].coldkey = c
      PROVE  j \in Recent(t)
  <2>1. i \in Nat /\ j \in Nat /\ i \in Fees(t)
    BY <1>1, <1>2, <1>3
  <2>2. i <= j
    <3>1. CASE IsFee(events[j])
      <4>1. j \in Fees(t)
        BY <1>2, <1>3, <3>1 DEF Fees, EventsOf
      <4>2. i = j
        BY <1>3, <2>1, <4>1 DEF EntriesArePaidOnce
      <4> QED
        BY <2>1, <4>2
    <3>2. CASE ~IsFee(events[j])
      <4>1. PICK k \in Fees(t) : k < j /\ events[k].coldkey = c
        BY <1>2, <1>3, <3>2 DEF RefundsFollowFees, EventsOf
      <4>2. i = k
        BY <2>1, <4>1 DEF EntriesArePaidOnce
      <4> QED
        BY <2>1, <4>1, <4>2
    <3> QED
      BY <3>1, <3>2
  <2> DEFINE Later(k) == {m \in EventsOf(t) : m > k}
  <2>3. Later(j) \subseteq Later(i) /\ Later(i) \subseteq DOMAIN events
    BY <1>1, <1>2, <2>1, <2>2
  <2>4. IsFiniteSet(Later(i)) /\ Cardinality(Later(i)) < EventLimit
    <3>1. IsFiniteSet(Later(i))
      BY <1>1, <2>3, FS_Subset
    <3> QED
      BY <3>1 DEF Recent
  <2>5. Cardinality(Later(j)) \in Nat /\ Cardinality(Later(j)) <= Cardinality(Later(i))
        /\ Cardinality(Later(i)) \in Nat
    <3> HIDE DEF Later
    <3> QED
      BY <2>3, <2>4, FS_Subset, FS_CardinalityType
  <2>6. Cardinality(Later(j)) < EventLimit
    <3> HIDE DEF Later
    <3> QED
      BY <2>4, <2>5, LimitsAssumption
  <2> QED
    BY <1>3, <2>6 DEF Recent
<1>4. {j \in Recent(t) : events[j].coldkey = c} = {j \in EventsOf(t) : events[j].coldkey = c}
  BY <1>2, <1>3
<1> QED
  BY <1>4 DEF Net

\* What the log says is owed was paid in and has not been refunded.
LEMMA OwedIsRight ==
  ASSUME TypeOK, EntriesArePaidOnce, RefundsFollowFees, NEW t \in Tournaments, NEW c \in Coldkeys,
         Owed(t)[c] > 0
  PROVE  HasPaid(t, c) /\ Net(EventsOf(t), c) + Owed(t)[c] <= 0
<1>1. PICK o : o = IF Net(Recent(t), c) < 0 /\ (\E i \in Recent(t) \cap Fees(t) : events[i].coldkey = c)
                   THEN -Net(Recent(t), c) ELSE 0
  OBVIOUS
<1>2. o > 0 /\ Owed(t)[c] = o
  BY <1>1 DEF Owed
<1>3. PICK i \in Recent(t) \cap Fees(t) : events[i].coldkey = c
  BY <1>1, <1>2
<1>4. o = -Net(Recent(t), c)
  BY <1>1, <1>2
<1>5. Net(EventsOf(t), c) = Net(Recent(t), c) /\ Net(EventsOf(t), c) \in Int
  BY <1>3, RecentIsAll, NetIsInt DEF EventsOf
<1> QED
  BY <1>2, <1>3, <1>4, <1>5 DEF HasPaid

Refunds == RefundsFollowFees /\ OwedIsLeft /\ NothingRefundedTwice

\* What a request has yet to give back gets less.
LEMMA RefundsShrink ==
  ASSUME TypeOK, Refunds, UNCHANGED events,
         \A r \in Requests, c \in Coldkeys :
           request'[r].at # "idle" /\ request'[r].owed[c] > 0 =>
             /\ request[r].at # "idle" /\ request'[r].t = request[r].t
             /\ request'[r].owed[c] = request[r].owed[c]
             /\ ~(request'[r].at = "pay" /\ request'[r].now = c) => ~(request[r].at = "pay" /\ request[r].now = c)
  PROVE  Refunds'
<1>1. \A t \in Tournaments, c \in Coldkeys : Net(EventsOf(t), c)' = Net(EventsOf(t), c)
  BY DEF Net, EventsOf
<1>2. \A t \in Tournaments, c \in Coldkeys : HasPaid(t, c)' <=> HasPaid(t, c)
  BY DEF HasPaid, Fees
<1>3. \A r \in Requests : request[r].at # "idle" => request[r].t \in Tournaments
  BY DEF TypeOK
<1>4. RefundsFollowFees'
  <2>1. ASSUME NEW r \in Requests, NEW c \in Coldkeys, request'[r].at # "idle", request'[r].owed[c] > 0
        PROVE  HasPaid(request[r].t, c)'
    <3>1. PICK u \in Tournaments : u = request[r].t /\ u = request'[r].t
      BY <1>3, <2>1
    <3>2. HasPaid(u, c)'
      BY <1>2, <2>1, <3>1 DEF Refunds, RefundsFollowFees
    <3> QED
      BY <3>1, <3>2 DEF HasPaid, Fees
  <2>2. \A i \in DOMAIN events' : ~IsFee(events'[i]) =>
          \E j \in Fees(events[i].tournament)' : j < i /\ events'[j].coldkey = events'[i].coldkey
    BY DEF Refunds, RefundsFollowFees, Fees
  <2> QED
    BY <2>1, <2>2 DEF RefundsFollowFees, IsFee
<1>5. OwedIsLeft'
  BY <1>1, <1>3 DEF Refunds, OwedIsLeft
<1>6. NothingRefundedTwice'
  BY <1>1 DEF Refunds, NothingRefundedTwice
<1> QED
  BY <1>4, <1>5, <1>6 DEF Refunds

\* Beginning a request owes what was paid in.
LEMMA RefundsBegin ==
  ASSUME TypeOK, EntriesArePaidOnce, Refunds, NEW r \in Requests, NEW t \in Tournaments, BeginRefund(r, t)
  PROVE  Refunds'
<1>1. UNCHANGED events /\ \A s \in Requests \ {r} : request'[s] = request[s]
  BY DEF BeginRefund, accounts, Set, TypeOK
<1>2. /\ request'[r].at = "refund" /\ request'[r].t = t
      /\ \A c \in Coldkeys : request'[r].owed[c] = Owed(t)[c]
  BY DEF BeginRefund, Set, TypeOK
<1>3. \A u \in Tournaments, c \in Coldkeys : /\ Net(EventsOf(u), c)' = Net(EventsOf(u), c)
                                             /\ HasPaid(u, c)' <=> HasPaid(u, c)
  BY <1>1 DEF Net, EventsOf, HasPaid, Fees
<1>4. \A c \in Coldkeys : Owed(t)[c] > 0 => HasPaid(t, c) /\ Net(EventsOf(t), c) + Owed(t)[c] <= 0
  BY OwedIsRight DEF Refunds
<1>5. \A s \in Requests : request[s].at # "idle" => request[s].t \in Tournaments
  BY DEF TypeOK
<1>6. ASSUME NEW s \in Requests, NEW c \in Coldkeys, request'[s].at # "idle", request'[s].owed[c] > 0
      PROVE  HasPaid(request[s].t, c)'
  <2>1. PICK u : u = request'[s].t
    OBVIOUS
  <2>2. HasPaid(u, c)' /\ u \in Tournaments
    <3>1. CASE s = r
      BY <1>2, <1>3, <1>4, <1>6, <2>1, <3>1
    <3>2. CASE s # r
      BY <1>1, <1>3, <1>5, <1>6, <2>1, <3>2 DEF Refunds, RefundsFollowFees
    <3> QED
      BY <3>1, <3>2
  <2> QED
    BY <2>1, <2>2 DEF HasPaid, Fees
<1>7. RefundsFollowFees'
  <2>2. \A i \in DOMAIN events' : ~IsFee(events'[i]) =>
          \E j \in Fees(events[i].tournament)' : j < i /\ events'[j].coldkey = events'[i].coldkey
    BY <1>1 DEF Refunds, RefundsFollowFees, Fees
  <2> QED
    BY <1>6, <2>2 DEF RefundsFollowFees, IsFee
<1>8. ASSUME Cardinality(Requests) = 1
      PROVE  \A s \in Requests, c \in Coldkeys :
               request'[s].at # "idle" /\ request'[s].owed[c] > 0 => Net(EventsOf(request[s].t), c)' + request'[s].owed[c] <= 0
  <2>1. \A s \in Requests : s = r
    BY <1>8, OneRequest
  <2>2. ASSUME NEW c \in Coldkeys, request'[r].owed[c] > 0
        PROVE  Net(EventsOf(request[r].t), c)' + request'[r].owed[c] <= 0
    <3>1. Net(EventsOf(t), c)' + Owed(t)[c] <= 0
      BY <1>2, <1>3, <1>4, <2>2
    <3>2. Net(EventsOf(request[r].t), c)' = Net(EventsOf(t), c)'
      BY <1>2 DEF Net, EventsOf
    <3> QED
      BY <1>2, <3>1, <3>2
  <2> QED
    BY <2>1, <2>2
<1>9. OwedIsLeft' /\ NothingRefundedTwice'
  BY <1>3, <1>8 DEF Refunds, OwedIsLeft, NothingRefundedTwice
<1> QED
  BY <1>7, <1>9 DEF Refunds

\* The first part of RefundsFollowFees with one event more.
LEMMA FeesFirst ==
  ASSUME TypeOK, RefundsFollowFees, NEW e \in Event, Written(e), IsFee(e) \/ HasPaid(e.tournament, e.coldkey)
  PROVE  \A i \in DOMAIN events' : ~IsFee(events'[i]) =>
           \E j \in Fees(events[i].tournament)' : j < i /\ events'[j].coldkey = events'[i].coldkey
<1>1. PICK n : /\ \A t \in Tournaments : Fees(t) \subseteq Fees(t)'
               /\ \A i \in DOMAIN events : events'[i] = events[i] /\ i < n
               /\ events'[n] = e /\ DOMAIN events' = DOMAIN events \cup {n}
  BY FeesAppend
<1>2. \A i \in DOMAIN events : events[i].tournament \in Tournaments
  <2>1. events \in Seq(Event)
    BY DEF TypeOK
  <2>2. \A i \in DOMAIN events : events[i] \in Event
    BY <2>1, EventsAre
  <2> QED
    BY <2>2 DEF Event
<1>3. ASSUME NEW i \in DOMAIN events, ~IsFee(events'[i])
      PROVE  \E j \in Fees(events[i].tournament)' : j < i /\ events'[j].coldkey = events'[i].coldkey
  <2>1. PICK u \in Tournaments : u = events[i].tournament
    BY <1>2
  <2>2. PICK j \in Fees(u) : j < i /\ events[j].coldkey = events[i].coldkey
    BY <1>1, <1>3, <2>1 DEF RefundsFollowFees
  <2>3. j \in DOMAIN events /\ j \in Fees(u)'
    BY <1>1, <2>2 DEF Fees
  <2>4. events'[j].coldkey = events'[i].coldkey /\ u = events'[i].tournament
    BY <1>1, <2>1, <2>2, <2>3
  <2>5. j \in Fees(events[i].tournament)'
    BY <2>3, <2>4 DEF Fees
  <2> QED
    BY <2>2, <2>4, <2>5
<1>4. ASSUME ~IsFee(e)
      PROVE  \E j \in Fees(events[n].tournament)' : j < n /\ events'[j].coldkey = events'[n].coldkey
  <2>1. PICK u \in Tournaments : u = e.tournament
    BY DEF Event
  <2>2. PICK j \in Fees(u) : events[j].coldkey = e.coldkey
    BY <1>4, <2>1 DEF HasPaid
  <2>3. j \in DOMAIN events /\ j \in Fees(u)' /\ j < n
    BY <1>1, <2>2 DEF Fees
  <2>4. j \in Fees(events[n].tournament)'
    BY <1>1, <2>1, <2>3 DEF Fees
  <2> QED
    BY <1>1, <2>2, <2>3, <2>4
<1> QED
  BY <1>1, <1>3, <1>4

\* A fee charged meanwhile only leaves more to refund.
LEMMA RefundsEnrol ==
  ASSUME TypeOK, Refunds, NEW h \in Hotkeys, Enrol(h)
  PROVE  Refunds'
<1>0. PICK t, d : t = pop.t /\ d = pop.picked[h]
  OBVIOUS
<1>1. t \in Tournaments /\ d \in Coldkeys /\ Fee[t] \in Nat /\ Fee[t] > 0 /\ UNCHANGED request
  BY <1>0, PickedAre, AccountsAssumption DEF Enrol, TypeOK
<1>2. CASE ~Charges(t, h, d)
  <2>1. UNCHANGED events
    BY <1>0, <1>2 DEF Enrol
  <2> QED
    BY <1>1, <2>1, RefundsShrink
<1>3. CASE Charges(t, h, d)
  <2>1. PICK e : e = [tournament |-> t, coldkey |-> d, amount |-> -Fee[t]]
    OBVIOUS
  <2>2. e \in Event /\ IsFee(e) /\ e.amount < 0 /\ e.amount \in Int
    BY <1>1, <2>1 DEF Event, IsFee
  <2>3. Written(e)
    BY <1>0, <1>3, <2>1 DEF Enrol, Written
  <2>4. ASSUME NEW u \in Tournaments, NEW c \in Coldkeys
        PROVE  Net(EventsOf(u), c)' <= Net(EventsOf(u), c) /\ Net(EventsOf(u), c) \in Int /\ Net(EventsOf(u), c)' \in Int
    <3>1. Net(EventsOf(u), c) \in Int
      BY NetIsInt DEF EventsOf
    <3>2. Net(EventsOf(u), c)'
            = Net(EventsOf(u), c) + (IF e.tournament = u /\ e.coldkey = c THEN e.amount ELSE 0)
      BY <2>2, <2>3, NetAppends
    <3> QED
      BY <2>2, <3>1, <3>2
  <2>5. \A i \in DOMAIN events' : ~IsFee(events'[i]) =>
           \E j \in Fees(events[i].tournament)' : j < i /\ events'[j].coldkey = events'[i].coldkey
    BY <2>2, <2>3, FeesFirst DEF Refunds
  <2>6. ASSUME NEW r \in Requests, NEW c \in Coldkeys, request[r].at # "idle", request[r].owed[c] > 0
        PROVE  HasPaid(request[r].t, c)'
    <3>1. PICK u \in Tournaments : u = request[r].t
      BY <2>6 DEF TypeOK
    <3>2. HasPaid(u, c)'
      BY <2>2, <2>3, <2>6, <3>1, PaidStays DEF Refunds, RefundsFollowFees
    <3> QED
      BY <1>1, <3>1, <3>2 DEF HasPaid, Fees
  <2>7. RefundsFollowFees'
    BY <1>1, <2>5, <2>6 DEF RefundsFollowFees, IsFee
  <2>8. ASSUME Cardinality(Requests) = 1, NEW r \in Requests, NEW c \in Coldkeys,
               request[r].at # "idle", request[r].owed[c] > 0, ~(request[r].at = "pay" /\ request[r].now = c)
        PROVE  Net(EventsOf(request[r].t), c)' + request'[r].owed[c] <= 0
    <3>1. PICK u \in Tournaments : u = request[r].t
      BY <2>8 DEF TypeOK
    <3>2. Net(EventsOf(u), c) + request[r].owed[c] <= 0
      BY <2>8, <3>1 DEF Refunds, OwedIsLeft
    <3>3. Net(EventsOf(u), c)' <= Net(EventsOf(u), c) /\ Net(EventsOf(u), c) \in Int /\ Net(EventsOf(u), c)' \in Int
      BY <2>4
    <3>4. request[r].owed[c] \in Int
      BY RequestIs
    <3>5. Net(EventsOf(request[r].t), c)' = Net(EventsOf(u), c)'
      BY <1>1, <3>1 DEF Net, EventsOf
    <3> QED
      BY <1>1, <3>2, <3>3, <3>4, <3>5
  <2>9. OwedIsLeft'
    BY <1>1, <2>8 DEF OwedIsLeft
  <2>10. NothingRefundedTwice'
    <3>1. ASSUME Cardinality(Requests) = 1, NEW u \in Tournaments, NEW c \in Coldkeys
          PROVE  Net(EventsOf(u), c)' <= 0
      <4>1. Net(EventsOf(u), c) <= 0
        BY <3>1 DEF Refunds, NothingRefundedTwice
      <4> QED
        BY <2>4, <4>1
    <3> QED
      BY <3>1 DEF NothingRefundedTwice
  <2> QED
    BY <2>7, <2>9, <2>10 DEF Refunds
<1> QED
  BY <1>2, <1>3

\* Recording a refund takes it off what is owed.
LEMMA RefundsRecord ==
  ASSUME TypeOK, Refunds, NEW r \in Requests, NEW d \in Coldkeys, RecordRefund(r, d)
  PROVE  Refunds'
<1>0. request[r].at = "refund" /\ request[r].owed[d] > 0
  BY DEF RecordRefund
<1>1. PICK t \in Tournaments : t = request[r].t
  BY <1>0 DEF TypeOK
<1>2. \A c \in Coldkeys : request[r].owed[c] \in Nat
  BY RequestIs
<1>3. PICK e : e = [tournament |-> t, coldkey |-> d, amount |-> request[r].owed[d]]
  OBVIOUS
<1>4. e \in Event /\ ~IsFee(e) /\ e.tournament = t /\ e.coldkey = d /\ e.amount = request[r].owed[d]
  BY <1>1, <1>2, <1>3 DEF Event, IsFee
<1>5. Written(e)
  BY <1>1, <1>3 DEF RecordRefund, Written
<1>6. /\ request'[r].at = "pay" /\ request'[r].now = d /\ request'[r].t = t
      /\ request'[r].owed = request[r].owed
      /\ \A s \in Requests \ {r} : request'[s] = request[s]
  <2>1. /\ request[r] \in Request /\ request'[r] = [request[r] EXCEPT !.at = "pay", !.now = d]
        /\ \A s \in Requests \ {r} : request'[s] = request[s]
    BY RequestIs DEF RecordRefund, Set, TypeOK
  <2> QED
    BY <1>1, <2>1 DEF Request
<1>7. HasPaid(t, d)
  BY <1>0, <1>1 DEF Refunds, RefundsFollowFees
<1>8. \A i \in DOMAIN events' : ~IsFee(events'[i]) =>
        \E j \in Fees(events[i].tournament)' : j < i /\ events'[j].coldkey = events'[i].coldkey
  BY <1>4, <1>5, <1>7, FeesFirst DEF Refunds
<1>9. ASSUME NEW s \in Requests, NEW c \in Coldkeys, request'[s].at # "idle", request'[s].owed[c] > 0
      PROVE  HasPaid(request[s].t, c)'
  <2>1. request[s].at # "idle" /\ request'[s].t = request[s].t /\ request[s].owed[c] > 0
    BY <1>0, <1>1, <1>6, <1>9
  <2>2. PICK u \in Tournaments : u = request[s].t
    BY <2>1 DEF TypeOK
  <2>3. HasPaid(u, c)'
    BY <1>4, <1>5, <2>1, <2>2, PaidStays DEF Refunds, RefundsFollowFees
  <2> QED
    BY <2>1, <2>2, <2>3 DEF HasPaid, Fees
<1>10. RefundsFollowFees'
  BY <1>8, <1>9 DEF RefundsFollowFees, IsFee
<1>11. ASSUME NEW u \in Tournaments, NEW c \in Coldkeys
       PROVE  /\ Net(EventsOf(u), c)'
                   = Net(EventsOf(u), c) + (IF t = u /\ d = c THEN request[r].owed[d] ELSE 0)
              /\ Net(EventsOf(u), c) \in Int
  <2>1. Net(EventsOf(u), c) \in Int
    BY NetIsInt DEF EventsOf
  <2> QED
    BY <1>4, <1>5, <2>1, NetAppends
<1>12. ASSUME Cardinality(Requests) = 1
       PROVE  /\ \A s \in Requests : s = r
              /\ \A c \in Coldkeys : request[r].owed[c] > 0 => Net(EventsOf(t), c) + request[r].owed[c] <= 0
              /\ \A u \in Tournaments, c \in Coldkeys : Net(EventsOf(u), c) <= 0
  BY <1>0, <1>1, <1>12, OneRequest DEF Refunds, OwedIsLeft, NothingRefundedTwice
<1>13. ASSUME Cardinality(Requests) = 1, NEW s \in Requests, NEW c \in Coldkeys,
              request'[s].owed[c] > 0, ~(request'[s].at = "pay" /\ request'[s].now = c)
       PROVE  Net(EventsOf(request[s].t), c)' + request'[s].owed[c] <= 0
  <2>1. s = r /\ c # d /\ request[r].owed[c] > 0
    BY <1>6, <1>12, <1>13
  <2>2. Net(EventsOf(t), c)' + request[r].owed[c] <= 0
    BY <1>11, <1>12, <1>13, <2>1
  <2>3. Net(EventsOf(request[s].t), c)' = Net(EventsOf(t), c)'
    BY <1>6, <2>1 DEF Net, EventsOf
  <2> QED
    BY <1>6, <2>1, <2>2, <2>3
<1>14. OwedIsLeft'
  BY <1>13 DEF OwedIsLeft
<1>15. NothingRefundedTwice'
  <2>1. ASSUME Cardinality(Requests) = 1, NEW u \in Tournaments, NEW c \in Coldkeys
        PROVE  Net(EventsOf(u), c)' <= 0
    <3>1. Net(EventsOf(u), c) <= 0 /\ Net(EventsOf(t), d) + request[r].owed[d] <= 0
      BY <1>0, <1>12, <2>1
    <3> QED
      BY <1>2, <1>11, <3>1
  <2> QED
    BY <2>1 DEF NothingRefundedTwice
<1> QED
  BY <1>10, <1>14, <1>15 DEF Refunds

\* Every step keeps what is known of refunds.
LEMMA RefundsStep ==
  ASSUME TypeOK, EntriesArePaidOnce, Refunds, [Next]_vars
  PROVE  Refunds'
<1>1. CASE UNCHANGED <<events, request>>
  BY <1>1, RefundsShrink
<1>2. ASSUME NEW r \in Requests, PayRefund(r) \/ PayFails(r)
      PROVE  Refunds'
  <2>1. /\ request[r].at = "pay" /\ UNCHANGED events /\ request'[r] = Settled(r)
        /\ \A s \in Requests \ {r} : request'[s] = request[s]
    BY <1>2 DEF PayRefund, PayFails, accounts, Set, TypeOK
  <2>2. /\ Settled(r).at = "refund" /\ Settled(r).t = request[r].t
        /\ \A c \in Coldkeys : Settled(r).owed[c] = IF c = request[r].now THEN 0 ELSE request[r].owed[c]
    BY <2>1, SettledFits
  <2>3. ASSUME NEW c \in Coldkeys, request'[r].owed[c] > 0
        PROVE  request'[r].owed[c] = request[r].owed[c] /\ request[r].now # c
    BY <2>1, <2>2, <2>3
  <2>4. request'[r].t = request[r].t /\ request[r].at # "idle"
    BY <2>1, <2>2
  <2> QED
    BY <2>1, <2>3, <2>4, RefundsShrink
<1>3. ASSUME NEW r \in Requests, NEW d \in Coldkeys, RecordFails(r, d)
      PROVE  Refunds'
  <2>1. /\ request[r].at = "refund" /\ UNCHANGED events /\ request[r] \in Request
        /\ request'[r] = [request[r] EXCEPT !.owed[d] = 0]
        /\ \A s \in Requests \ {r} : request'[s] = request[s]
    BY <1>3, RequestIs DEF RecordFails, accounts, Set, TypeOK
  <2>2. /\ request'[r].at = "refund" /\ request'[r].t = request[r].t
        /\ \A c \in Coldkeys : request'[r].owed[c] = IF c = d THEN 0 ELSE request[r].owed[c]
    BY <2>1 DEF Request
  <2>3. ASSUME NEW c \in Coldkeys, request'[r].owed[c] > 0
        PROVE  request'[r].owed[c] = request[r].owed[c]
    BY <2>2, <2>3
  <2> QED
    BY <2>1, <2>2, <2>3, RefundsShrink
<1>4. ASSUME NEW r \in Requests, EndRefund(r)
      PROVE  Refunds'
  <2>1. /\ UNCHANGED events /\ request'[r].at = "idle"
        /\ \A s \in Requests \ {r} : request'[s] = request[s]
    BY <1>4 DEF EndRefund, accounts, Set, TypeOK, NoRequest
  <2> QED
    BY <2>1, RefundsShrink
<1>5. CASE RestartApi
  <2>1. UNCHANGED events /\ \A s \in Requests : request'[s].at = "idle"
    BY <1>5 DEF RestartApi, accounts, NoRequest
  <2> QED
    BY <2>1, RefundsShrink
<1>6. \/ UNCHANGED <<events, request>> \/ (\E h \in Hotkeys : Enrol(h)) \/ RestartApi
      \/ \E r \in Requests : \/ PayRefund(r) \/ PayFails(r) \/ EndRefund(r)
                             \/ \E c \in Coldkeys : RecordRefund(r, c) \/ RecordFails(r, c)
                             \/ \E t \in Tournaments : BeginRefund(r, t)
  BY DEF Next, MonitorStep, PendingStep, Failure, RefundStep, vars, accounts,
         BeginPass, Credit, MoveCursor, StoreTransfer, ReadPending, CountMiners, EndEnrolments,
         Activate, CreditFails, MoveFails, RestartRunner, StoreFails, EnrolFails, Pay, Rekey, CallOff
<1> QED
  BY <1>1, <1>2, <1>3, <1>4, <1>5, <1>6, RefundsEnrol, RefundsRecord, RefundsBegin

-----------------------------------------------------------------------------
\* The monitor credits transfers that it stored.
LEMMA MonitorStepFits ==
  ASSUME TypeOK, MonitorFits, [Next]_vars
  PROVE  MonitorFits'
<1>1. CASE UNCHANGED <<monitor, stored>>
  BY <1>1 DEF MonitorFits
<1>2. ASSUME NEW x \in Transfers, StoreTransfer(x)
      PROVE  MonitorFits'
  <2>1. CASE x \in stored
    BY <1>2, <2>1, PassesFit DEF StoreTransfer, MonitorFits
  <2>2. CASE x \notin stored
    <3>1. monitor' = [[Passed(x) EXCEPT !.at = "credit"] EXCEPT !.now = x] /\ Passed(x) \in Pass
      BY <1>2, <2>2, PassesFit DEF StoreTransfer
    <3>2. monitor'.at = "credit" /\ monitor'.now = x
      BY <3>1 DEF Pass
    <3> QED
      BY <1>2, <3>2 DEF StoreTransfer, MonitorFits
  <2> QED
    BY <2>1, <2>2
<1>3. ASSUME NEW x \in Transfers, StoreFails(x)
      PROVE  MonitorFits'
  BY <1>3, PassesFit DEF StoreFails, MonitorFits
<1>4. CASE BeginPass \/ Credit \/ CreditFails \/ MoveCursor \/ MoveFails \/ RestartRunner
  <2>1. monitor \in Pass
    BY DEF TypeOK
  <2>2. [monitor EXCEPT !.at = "store", !.now = None].at = "store" /\ [monitor EXCEPT !.at = "store", !.now = None].now = None
    BY <2>1 DEF Pass
  <2>3. monitor'.at # "credit" /\ monitor'.now = None
    <3>1. CASE BeginPass
      BY <3>1 DEF BeginPass
    <3>2. CASE Credit \/ CreditFails
      BY <2>2, <3>2 DEF Credit, CreditFails
    <3>3. CASE MoveCursor \/ MoveFails \/ RestartRunner
      BY <3>3 DEF MoveCursor, MoveFails, RestartRunner, NoPass
    <3> QED
      BY <1>4, <3>1, <3>2, <3>3
  <2> QED
    BY <2>3 DEF MonitorFits
<1>5. \/ UNCHANGED <<monitor, stored>>
      \/ BeginPass \/ Credit \/ CreditFails \/ MoveCursor \/ MoveFails \/ RestartRunner
      \/ \E x \in Transfers : StoreTransfer(x) \/ StoreFails(x)
  BY DEF Next, MonitorStep, PendingStep, Failure, RefundStep, vars, feed,
         ReadPending, CountMiners, EndEnrolments, Activate, Enrol, EnrolFails, PayRefund, EndRefund,
         RecordRefund, RestartApi, PayFails, RecordFails, BeginRefund, Pay, Rekey, CallOff
<1> QED
  BY <1>1, <1>2, <1>3, <1>4, <1>5

-----------------------------------------------------------------------------
(* The theorems.                                                           *)

\* The invariant holds at the start.
LEMMA InitHolds == Init => IInv
<1> SUFFICES ASSUME Init
             PROVE  IInv
  OBVIOUS
<1>1. DOMAIN events = {} /\ events = << >>
  BY DEF Init
<1>2. TypeOK
  <2>1. NoDebt \in [Coldkeys -> Int] /\ NoDebt \in [Coldkeys -> Nat]
    BY DEF NoDebt
  <2>2. NoPass \in Pass /\ NoPass.at = "idle"
    BY DEF NoPass, Pass
  <2>3. {} \in SUBSET Tournaments /\ NoTurn \in Turns({}) /\ NoTurn.at = "idle"
    BY DEF Turns, NoTurn
  <2>4. NoTurn \in Turn
    BY <2>3, TurnsFit
  <2>5. NoRequest \in Request /\ NoRequest.at = "idle"
    BY <2>1 DEF NoRequest, Request
  <2>6. events \in Seq(Event)
    BY <1>1
  <2>7. AccountsTyped
    BY <2>1, <2>6 DEF Init, AccountsTyped
  <2>8. PassTyped /\ TurnTyped
    BY <2>2, <2>3, <2>4 DEF Init, PassTyped, TurnTyped
  <2>9. request \in [Requests -> Request] /\ \A r \in Requests : RequestTyped(request[r])
    BY <2>5 DEF Init, RequestTyped
  <2> QED
    BY <2>7, <2>8, <2>9, TypeParts
<1>3. MonitorFits
  BY DEF Init, MonitorFits, NoPass
<1>4. \A t \in Tournaments : Fees(t) = {} /\ EventsOf(t) = {}
  BY <1>1 DEF Fees, EventsOf
<1>5. EntriesArePaidOnce
  BY <1>4 DEF EntriesArePaidOnce, Init
<1>6. \A r \in Requests : request[r].at = "idle"
  BY DEF Init, NoRequest
<1>7. ASSUME NEW c \in Coldkeys
      PROVE  Net({}, c) = 0
  <2> DEFINE J == {j \in {} : events[j].coldkey = c}
             f == [i \in J |-> events[i].amount]
  <2>1. f \in [J -> {0}] /\ IsFiniteSet(J)
    <3>1. J = {}
      OBVIOUS
    <3> QED
      BY <3>1, FS_EmptySet
  <2>2. Net({}, c) = SumFunction(f)
    BY DEF Net
  <2> HIDE DEF f, J
  <2>3. SumFunction(f) \in {0}
    BY <2>1, SumIn, NumbersAdd
  <2> QED
    BY <2>2, <2>3
<1>8. BooksBalance
  <2>1. ASSUME NEW c \in Coldkeys
        PROVE  Due(c) = 0 /\ InFlight(c) = 0 /\ balance[c] = 0
    <3>1. InFlight(c) = 0
      BY <1>2, <1>6, FlightZero DEF Lent
    <3>2. StoredBy(c) = {}
      BY DEF Init, StoredBy
    <3> DEFINE f == [x \in StoredBy(c) |-> Amount[x]]
    <3>3. f \in [StoredBy(c) -> {0}] /\ IsFiniteSet(StoredBy(c))
      BY <3>2, FS_EmptySet
    <3>4. Due(c) = SumFunction(f) + Net(DOMAIN events, c)
      BY DEF Due
    <3>5. Due(c) = 0
      <4> HIDE DEF f
      <4>1. SumFunction(f) \in {0}
        BY <3>3, SumIn, NumbersAdd
      <4> QED
        BY <1>1, <1>7, <3>4, <4>1
    <3> QED
      BY <3>1, <3>5 DEF Init, NoDebt
  <2> QED
    BY <2>1 DEF BooksBalance, Due
<1>9. RefundsFollowFees
  BY <1>1, <1>6 DEF RefundsFollowFees
<1>10. OwedIsLeft
  BY <1>6 DEF OwedIsLeft
<1>11. NothingRefundedTwice
  BY <1>4, <1>7 DEF NothingRefundedTwice
<1> QED
  BY <1>2, <1>3, <1>5, <1>8, <1>9, <1>10, <1>11 DEF IInv

\* Every step keeps the invariant.
LEMMA StepHolds == IInv /\ [Next]_vars => IInv'
<1> SUFFICES ASSUME IInv, [Next]_vars
             PROVE  IInv'
  OBVIOUS
<1>1. TypeOK' /\ MonitorFits' /\ EntriesArePaidOnce' /\ BooksBalance'
  BY TypeKept, MonitorStepFits, EntriesStep, BooksStep DEF IInv
<1>2. Refunds'
  BY RefundsStep DEF IInv, Refunds
<1> QED
  BY <1>1, <1>2 DEF IInv, Refunds

\* The invariant holds whatever fails and whenever the two programs restart.
THEOREM InvariantHolds == Spec => []IInv
BY InitHolds, StepHolds, PTL DEF Spec

\* Every variable has its type: a pass that credits knows its transfer, a
\* refund its tournament and the coldkey it pays.
THEOREM TypeCorrect == Spec => []TypeOK
<1>1. IInv => TypeOK
  BY DEF IInv
<1> QED
  BY <1>1, InvariantHolds, PTL

\* enroll_tournament_participant_with_fee takes one fee for an entry, and none
\* twice of a coldkey: with any number of miners that change their coldkeys,
\* of retries and of restarts.
THEOREM EntriesPaidOnce == Spec => []EntriesArePaidOnce
<1>1. IInv => EntriesArePaidOnce
  BY DEF IInv
<1> QED
  BY <1>1, InvariantHolds, PTL

\* coldkey_balances is what transfers and balance_events say, but for the
\* credits and refunds that failed, which leave it lower, never higher.
THEOREM BooksAlwaysBalance == Spec => []BooksBalance
<1>1. IInv => BooksBalance
  BY DEF IInv
<1> QED
  BY <1>1, InvariantHolds, PTL

\* refund_tournament_participants gives nothing back twice where its requests
\* come one after the other, however few events one query returns.
THEOREM NoSecondRefund == Spec => []NothingRefundedTwice
<1>1. IInv => NothingRefundedTwice
  BY DEF IInv
<1> QED
  BY <1>1, InvariantHolds, PTL

-----------------------------------------------------------------------------
(* Weights: the shares of a tournament.                                    *)

\* What a rank is worth.
LEMMA RankShares ==
  ASSUME NEW total \in Nat, NEW rank \in Nat \ {0}
  PROVE  /\ RankShare(total, rank) \in Nat
         /\ total <= 1 => RankShare(total, rank) = 105
         /\ total = 2 => RankShare(total, rank) = IF rank = 1 THEN 84 ELSE IF rank = 2 THEN 21 ELSE 0
         /\ total > 2 => RankShare(total, rank) = IF rank = 1 THEN 80 ELSE IF rank = 2 THEN 20
                                                  ELSE IF rank = 3 THEN 5 ELSE 0
<1>1. Decline[1] = 16 /\ Decline[2] = 4 /\ Decline[3] = 1
  BY DEF Decline
<1>2. CASE total <= 1
  BY <1>2 DEF RankShare
<1>3. CASE total = 2
  <2>1. Lesser(total, PaidRanks) = 2
    BY <1>3 DEF Lesser, PaidRanks
  <2>2. RankShare(total, rank) = IF rank > 2 THEN 0 ELSE (105 * Decline[rank]) \div 20
    BY <1>1, <1>3, <2>1 DEF RankShare
  <2>3. rank > 2 \/ rank = 1 \/ rank = 2
    OBVIOUS
  <2>4. (105 * 16) \div 20 = 84 /\ (105 * 4) \div 20 = 21
    OBVIOUS
  <2> QED
    BY <1>1, <1>3, <2>2, <2>3, <2>4
<1>4. CASE total > 2
  <2>1. Lesser(total, PaidRanks) = 3
    BY <1>4 DEF Lesser, PaidRanks
  <2>2. RankShare(total, rank) = IF rank > 3 THEN 0 ELSE (105 * Decline[rank]) \div 21
    BY <1>1, <1>4, <2>1 DEF RankShare
  <2>3. rank > 3 \/ rank = 1 \/ rank = 2 \/ rank = 3
    OBVIOUS
  <2>4. (105 * 16) \div 21 = 80 /\ (105 * 4) \div 21 = 20 /\ (105 * 1) \div 21 = 5
    OBVIOUS
  <2> QED
    BY <1>1, <1>4, <2>2, <2>3, <2>4
<1> QED
  BY <1>2, <1>3, <1>4

\* Distinct ranks earn no more than the whole.
LEMMA RanksFit ==
  ASSUME NEW S, IsFiniteSet(S), NEW rank \in [S -> Nat \ {0}], IsInjective(rank),
         NEW total \in Nat, total <= 1 => Cardinality(S) <= 1
  PROVE  LET share == [k \in S |-> RankShare(total, rank[k])]
         IN  share \in [S -> Nat] /\ SumFunction(share) <= 105
<1> DEFINE share == [k \in S |-> RankShare(total, rank[k])]
<1>1. share \in [S -> Nat]
  BY RankShares
<1>2. \A k \in S : share[k] = RankShare(total, rank[k])
  OBVIOUS
<1>3. DOMAIN rank = S
  OBVIOUS
<1> HIDE DEF share
<1>4. PICK F : IsSum(share, S, F) /\ SumFunction(share) = F[S]
  BY <1>1, SumOf
<1>5. \A T \in SUBSET S : F[T] \in Nat
  BY <1>1, <1>4, NumbersAdd, SumStays
<1>6. \A T \in SUBSET S : \A y \in T : F[T] = share[y] + F[T \ {y}]
  <2>1. share \in [S -> Int]
    BY <1>1
  <2> SUFFICES ASSUME NEW T \in SUBSET S, NEW y \in T
               PROVE  F[T] = share[y] + F[T \ {y}]
    OBVIOUS
  <2> QED
    BY <1>4, <2>1, SumTakeOut
<1>7. F[{}] = 0
  BY <1>4, SumOfNone
<1>8. ASSUME total <= 1 PROVE F[S] <= 105
  <2>1. CASE S = {}
    BY <1>7, <2>1
  <2>2. CASE S # {}
    <3>1. PICK x \in S : S = {x}
      <4>1. Cardinality(S) \in Nat /\ Cardinality(S) # 0 /\ Cardinality(S) <= 1
        BY <1>8, <2>2, FS_EmptySet, FS_CardinalityType
      <4>2. Cardinality(S) = 1
        BY <4>1
      <4> QED
        BY <4>2, FS_Singleton
    <3>2. F[S] = share[x] + F[S \ {x}] /\ S \ {x} = {}
      BY <1>6, <3>1
    <3>3. share[x] = 105
      BY <1>2, <1>8, RankShares
    <3> QED
      BY <1>7, <3>2, <3>3
  <2> QED
    BY <2>1, <2>2
<1>9. ASSUME total > 1 PROVE F[S] <= 105
  <2> DEFINE At(i) == {k \in S : rank[k] = i}
             worth(i) == RankShare(total, i)
  <2>1. ASSUME NEW i \in Nat \ {0}
        PROVE  F[At(i)] \in Nat /\ F[At(i)] <= worth(i)
    <3>1. PICK A : A = At(i)
      OBVIOUS
    <3>2. A \in SUBSET S /\ \A k \in A : rank[k] = i
      BY <3>1
    <3>3. worth(i) \in Nat
      BY RankShares
    <3>4. CASE A = {}
      BY <1>7, <3>1, <3>3, <3>4
    <3>5. ASSUME NEW x \in A PROVE F[A] = worth(i)
      <4>1. A \ {x} = {}
        BY <1>3, <3>2, <3>5 DEF IsInjective
      <4>2. F[A] = share[x] + F[A \ {x}]
        BY <1>6, <3>2, <3>5
      <4>3. share[x] = worth(i)
        BY <1>2, <3>2, <3>5
      <4> QED
        BY <1>7, <3>3, <4>1, <4>2, <4>3
    <3> QED
      BY <3>1, <3>3, <3>4, <3>5
  <2>2. PICK R : R = {k \in S : rank[k] > 3}
    OBVIOUS
  <2>3. \A A \in SUBSET R : F[A] = 0
    <3> DEFINE none == [k \in R |-> 0]
    <3>1. PICK Z : Z = [T \in SUBSET R |-> 0]
      OBVIOUS
    <3>2. R \subseteq S /\ IsFiniteSet(R)
      BY <2>2, FS_Subset
    <3>3. \A k \in R : share[k] = 0
      BY <1>2, <1>9, <2>2, RankShares
    <3>4. IsSum(none, R, Z)
      <4>1. \A T \in SUBSET R : T # {} => One(T) \in R /\ T \ {One(T)} \in SUBSET R
        BY OneIsIn
      <4>2. \A T \in SUBSET R : 0 = IF T = {} THEN 0 ELSE none[One(T)] + Z[T \ {One(T)}]
        BY <3>1, <4>1
      <4> QED
        BY <3>1, <4>2 DEF IsSum
    <3>5. \A k \in R : none[k] = share[k]
      BY <3>3
    <3> HIDE DEF none
    <3>6. \A T \in SUBSET R : Z[T] = F[T]
      BY <1>4, <3>2, <3>4, <3>5, SumsAgree
    <3> QED
      BY <3>1, <3>6
  <2>4. F[S] = F[At(1)] + (F[At(2)] + (F[At(3)] + F[R]))
    <3> DEFINE U3 == At(3) \cup R
               U2 == At(2) \cup U3
    <3>0. share \in [S -> Int]
      BY <1>1
    <3>1. /\ At(1) \in SUBSET S /\ At(2) \in SUBSET S /\ At(3) \in SUBSET S /\ R \in SUBSET S
          /\ At(3) \cap R = {} /\ At(2) \cap U3 = {} /\ At(1) \cap U2 = {}
          /\ U3 \in SUBSET S /\ U2 \in SUBSET S
      BY <2>2
    <3>2. At(1) \cup U2 = S
      BY <2>2
    <3> HIDE DEF At
    <3>3. F[At(3) \cup R] = F[At(3)] + F[R]
      <4>1. IsSum(share, S, F)
        BY <1>4
      <4>2. At(3) \in SUBSET S /\ R \in SUBSET S /\ At(3) \cap R = {}
        BY <3>1
      <4> HIDE DEF U3, U2
      <4> QED
        BY <3>0, <4>1, <4>2, SumUnion
    <3> HIDE DEF U3
    <3>4. F[At(2) \cup U3] = F[At(2)] + F[U3]
      <4>1. IsSum(share, S, F)
        BY <1>4
      <4>2. At(2) \in SUBSET S /\ U3 \in SUBSET S /\ At(2) \cap U3 = {}
        BY <3>1
      <4> HIDE DEF U2
      <4> QED
        BY <3>0, <4>1, <4>2, SumUnion
    <3> HIDE DEF U2
    <3>5. F[At(1) \cup U2] = F[At(1)] + F[U2]
      <4>1. IsSum(share, S, F)
        BY <1>4
      <4>2. At(1) \in SUBSET S /\ U2 \in SUBSET S /\ At(1) \cap U2 = {}
        BY <3>1
      <4> QED
        BY <3>0, <4>1, <4>2, SumUnion
    <3> QED
      BY <3>2, <3>3, <3>4, <3>5, Zenon DEF U3, U2
  <2>5. F[R] = 0
    BY <2>3
  <2>6. worth(1) + worth(2) + worth(3) <= 105 /\ worth(1) \in Nat /\ worth(2) \in Nat /\ worth(3) \in Nat
    <3>1. 1 \in Nat \ {0} /\ 2 \in Nat \ {0} /\ 3 \in Nat \ {0}
      OBVIOUS
    <3>2. CASE total = 2
      <4>1. worth(1) = 84 /\ worth(2) = 21 /\ worth(3) = 0
        BY <3>1, <3>2, RankShares
      <4> QED
        BY <4>1
    <3>3. CASE total > 2
      <4>1. worth(1) = 80 /\ worth(2) = 20 /\ worth(3) = 5
        BY <3>1, <3>3, RankShares
      <4> QED
        BY <4>1
    <3> QED
      BY <1>9, <3>2, <3>3
  <2> HIDE DEF At, worth
  <2> QED
    BY <2>1, <2>4, <2>5, <2>6
<1>10. F[S] <= 105
  BY <1>8, <1>9
<1> QED
  BY <1>1, <1>4, <1>10 DEF share

\* What hotkeys earn by distinct ranks is no more than the whole.
LEMMA SharesFit ==
  ASSUME NEW S, IsFiniteSet(S), NEW name, NEW rank \in [S -> Nat \ {0}], IsInjective(rank),
         NEW total \in Nat, total <= 1 => Cardinality(S) <= 1, NEW R \in SUBSET Earners
  PROVE  LET earned == Shares(name, rank, total)
         IN  earned \in [Earners -> Nat] /\ SumFunction([h \in R |-> earned[h]]) <= 105
<1> DEFINE share == [k \in S |-> RankShare(total, rank[k])]
           earned == Shares(name, rank, total)
           part == [h \in R |-> earned[h]]
<1>1. share \in [S -> Nat] /\ SumFunction(share) <= 105
  BY RanksFit
<1>2. DOMAIN rank = S
  OBVIOUS
<1>3. ASSUME NEW h \in Earners
      PROVE  earned[h] = SumFunction(Restrict(share, Named(S, name, h)))
  <2> DEFINE A == {k \in S : name[k] = h}
  <2>1. [k \in A |-> RankShare(total, rank[k])] = [k \in A |-> share[k]]
    OBVIOUS
  <2>2. earned[h] = SumFunction([k \in A |-> RankShare(total, rank[k])])
    BY <1>2 DEF Shares
  <2> QED
    BY <2>1, <2>2 DEF Restrict, Named
<1>4. earned \in [Earners -> Nat]
  <2>1. \A h \in Earners : earned[h] \in Nat
    <3> SUFFICES ASSUME NEW h \in Earners PROVE earned[h] \in Nat
      OBVIOUS
    <3> DEFINE A == Named(S, name, h)
               g == Restrict(share, A)
    <3>1. earned[h] = SumFunction(g)
      BY <1>3
    <3>2. A \subseteq S /\ g \in [A -> Nat]
      BY <1>1 DEF Restrict, Named
    <3>3. IsFiniteSet(A)
      BY <3>2, FS_Subset
    <3> HIDE DEF g, A, earned
    <3>4. SumFunction(g) \in Nat
      BY <3>2, <3>3, NumbersAdd, SumIn
    <3> QED
      BY <3>1, <3>4
  <2>2. earned = [h \in Earners |-> earned[h]]
    BY DEF Shares
  <2> HIDE DEF earned
  <2> QED
    BY <2>1, <2>2
<1> HIDE DEF share, earned
<1>5. IsFiniteSet(R) /\ part \in [R -> Nat]
  BY <1>4, BurnAssumption, FS_Subset
<1>6. \A h \in R : part[h] = SumFunction(Restrict(share, Named(S, name, h)))
  BY <1>3
<1> HIDE DEF part
<1>7. SumFunction(part) <= SumFunction(share)
  <2>1. share \in [S -> Nat] /\ IsFiniteSet(S)
    BY <1>1
  <2> QED
    BY <1>5, <1>6, <2>1, SumByName
<1>8. SumFunction(part) \in Nat /\ SumFunction(share) \in Nat
  BY <1>1, <1>5, NumbersAdd, SumIn
<1>9. SumFunction(part) <= 105
  BY <1>1, <1>7, <1>8
<1> QED
  BY <1>4, <1>9 DEF earned, part

\* The positions that are paid are distinct.
LEMMA PlacesAreRanks ==
  ASSUME NEW t \in Results
  PROVE  /\ PaidPlaces(t) \subseteq Earners /\ IsFiniteSet(PaidPlaces(t))
         /\ [k \in PaidPlaces(t) |-> t.places[k]] \in [PaidPlaces(t) -> Nat \ {0}]
         /\ IsInjective([k \in PaidPlaces(t) |-> t.places[k]])
         /\ LET total == Lesser(Cardinality(DOMAIN t.places), PaidRanks)
            IN  total \in Nat /\ (total <= 1 => Cardinality(PaidPlaces(t)) <= 1)
<1>1. PICK S \in SUBSET Earners : t.places \in [S -> Nat \ {0}]
  BY DEF Results, Placings
<1>2. IsInjective(t.places)
  BY DEF Results, Placings
<1>3. DOMAIN t.places = S /\ PaidPlaces(t) \subseteq S
  BY <1>1 DEF PaidPlaces
<1>4. IsFiniteSet(S) /\ IsFiniteSet(PaidPlaces(t)) /\ Cardinality(PaidPlaces(t)) <= Cardinality(S)
      /\ Cardinality(S) \in Nat /\ Cardinality(PaidPlaces(t)) \in Nat
  BY <1>1, <1>3, BurnAssumption, FS_Subset, FS_CardinalityType
<1>5. IsInjective([k \in PaidPlaces(t) |-> t.places[k]])
  BY <1>2, <1>3 DEF IsInjective
<1>6. [k \in PaidPlaces(t) |-> t.places[k]] \in [PaidPlaces(t) -> Nat \ {0}]
  BY <1>1, <1>3
<1>7. LET total == Lesser(Cardinality(DOMAIN t.places), PaidRanks)
      IN  total \in Nat /\ (total <= 1 => Cardinality(PaidPlaces(t)) <= 1)
  BY <1>3, <1>4 DEF Lesser, PaidRanks
<1> QED
  BY <1>1, <1>3, <1>4, <1>5, <1>6, <1>7

\* Counting those that came no later ranks the finalists one by one.
LEMMA FinalistsAreRanked ==
  ASSUME NEW n \in Nat, NEW paid \in SUBSET (1 .. n)
  PROVE  LET rank == [i \in paid |-> Cardinality(paid \cap 1 .. i)]
         IN  IsFiniteSet(paid) /\ rank \in [paid -> Nat \ {0}] /\ IsInjective(rank)
<1> DEFINE rank == [i \in paid |-> Cardinality(paid \cap 1 .. i)]
<1>1. IsFiniteSet(paid)
  <2>1. IsFiniteSet(1 .. n)
    BY FS_Interval
  <2> QED
    BY <2>1, FS_Subset
<1>2. ASSUME NEW i \in paid
      PROVE  IsFiniteSet(paid \cap 1 .. i) /\ rank[i] \in Nat \ {0}
  <2>1. IsFiniteSet(paid \cap 1 .. i)
    BY <1>1, FS_Intersection
  <2>2. Cardinality(paid \cap 1 .. i) \in Nat
    BY <2>1, FS_CardinalityType
  <2>3. i \in paid \cap 1 .. i
    OBVIOUS
  <2>4. Cardinality(paid \cap 1 .. i) # 0
    BY <2>1, <2>3, FS_EmptySet
  <2> QED
    BY <2>1, <2>2, <2>4
<1>3. ASSUME NEW i \in paid, NEW j \in paid, i < j
      PROVE  rank[i] # rank[j]
  <2>1. PICK A : A = paid \cap 1 .. i
    OBVIOUS
  <2>2. PICK B : B = paid \cap 1 .. j
    OBVIOUS
  <2>3. A \subseteq B /\ j \in B /\ j \notin A /\ IsFiniteSet(B)
    BY <1>2, <1>3, <2>1, <2>2
  <2>4. Cardinality(A) # Cardinality(B)
    BY <2>3, FS_Subset
  <2> QED
    BY <2>1, <2>2, <2>4
<1>4. IsInjective(rank)
  <2>1. \A i, j \in paid : i < j \/ j < i \/ i = j
    OBVIOUS
  <2>2. \A i, j \in paid : rank[i] = rank[j] => i = j
    BY <1>3, <2>1
  <2>3. DOMAIN rank = paid
    OBVIOUS
  <2> HIDE DEF rank
  <2> QED
    BY <2>2, <2>3 DEF IsInjective
<1>5. rank \in [paid -> Nat \ {0}]
  BY <1>2
<1> QED
  BY <1>1, <1>4, <1>5

\* A tournament pays natural numbers, no more than the whole.
LEMMA PairWeightsFit ==
  ASSUME NEW t \in Results \cup {Nobody}, NEW R \in SUBSET Earners
  PROVE  PairWeights(t) \in [Earners -> Nat] /\ SumFunction([h \in R |-> PairWeights(t)[h]]) <= 105
<1>1. CASE t = Nobody
  <2> DEFINE none == [h \in R |-> PairWeights(t)[h]]
  <2>1. PairWeights(t) = [h \in Earners |-> 0]
    BY <1>1 DEF PairWeights
  <2>2. IsFiniteSet(R) /\ none \in [R -> {0}]
    BY <2>1, BurnAssumption, FS_Subset
  <2> HIDE DEF none
  <2>3. SumFunction(none) \in {0}
    BY <2>2, NumbersAdd, SumIn
  <2> QED
    BY <2>1, <2>3 DEF none
<1>2. CASE t # Nobody /\ DOMAIN t.places # {}
  <2>0. t \in Results
    BY <1>2
  <2> DEFINE S == PaidPlaces(t)
             name == [k \in PaidPlaces(t) |-> Resolve(k, t.base)]
             rank == [k \in PaidPlaces(t) |-> t.places[k]]
             total == Lesser(Cardinality(DOMAIN t.places), PaidRanks)
  <2>1. PairWeights(t) = Shares(name, rank, total)
    BY <1>2 DEF PairWeights, PlacedShares
  <2>2. /\ IsFiniteSet(S) /\ rank \in [S -> Nat \ {0}] /\ IsInjective(rank)
        /\ total \in Nat /\ (total <= 1 => Cardinality(S) <= 1)
    BY <2>0, PlacesAreRanks
  <2> HIDE DEF S, name, rank, total
  <2> QED
    BY <2>1, <2>2, SharesFit
<1>3. CASE t # Nobody /\ DOMAIN t.places = {}
  <2> DEFINE n == Len(t.finalists) + 1
             name == Finalists(t)
             S == Paid(name)
             rank == [i \in S |-> Cardinality(S \cap 1 .. i)]
             total == Lesser(Cardinality(S), FallbackRanks)
  <2>1. PairWeights(t) = Shares(name, rank, total)
    BY <1>3 DEF PairWeights, FinalistShares
  <2>2. n \in Nat
    BY <1>3 DEF Results
  <2>3. S \in SUBSET (1 .. n)
    BY DEF Paid, Finalists
  <2>4. IsFiniteSet(S) /\ rank \in [S -> Nat \ {0}] /\ IsInjective(rank)
    <3> HIDE DEF S, n
    <3> QED
      BY <2>2, <2>3, FinalistsAreRanked
  <2>5. total \in Nat /\ (total <= 1 => Cardinality(S) <= 1)
    <3>1. Cardinality(S) \in Nat
      BY <2>4, FS_CardinalityType
    <3> HIDE DEF S
    <3> QED
      BY <3>1 DEF Lesser, FallbackRanks
  <2> HIDE DEF S, name, rank, total
  <2> QED
    BY <2>1, <2>4, <2>5, SharesFit
<1> QED
  BY <1>1, <1>2, <1>3

\* The two types of a round of the loop.
LEMMA AuditParts ==
  ASSUME NEW c \in Audits
  PROVE  /\ \A type \in {"text", "image"} : c[type] \in Results \cup {Nobody}
         /\ c["text"] = c.text /\ c["image"] = c.image
         /\ c.base \in 0 .. 100 /\ c.registered \in SUBSET Earners /\ c.participants \in SUBSET Earners
         /\ IsFiniteSet(c.registered) /\ IsFiniteSet(c.participants)
         /\ Cardinality(c.participants) \in Nat /\ Rest(c) \in Nat
         /\ Rest(c) = Scale - Cardinality(c.participants)
<1>1. /\ c.text \in Results \cup {Nobody} /\ c.image \in Results \cup {Nobody}
      /\ c.base \in 0 .. 100 /\ c.registered \in SUBSET Earners /\ c.participants \in SUBSET Earners
      /\ Cardinality(c.participants) <= Scale
  BY DEF Audits
<1>2. c["text"] = c.text /\ c["image"] = c.image
  OBVIOUS
<1>3. IsFiniteSet(c.registered) /\ IsFiniteSet(c.participants)
  BY <1>1, BurnAssumption, FS_Subset
<1>4. Cardinality(c.participants) \in Nat
  BY <1>3, FS_CardinalityType
<1>5. Rest(c) \in Nat /\ Rest(c) = Scale - Cardinality(c.participants)
  BY <1>1, <1>4 DEF Rest, Scale
<1> QED
  BY <1>1, <1>2, <1>3, <1>4, <1>5

\* Pools are natural numbers.
LEMMA PoolsFit ==
  ASSUME NEW c \in Audits
  PROVE  PoolOf(c).text \in Nat /\ PoolOf(c).image \in Nat
<1>1. ASSUME NEW t \in Results \cup {Nobody}, NEW base \in 0 .. 100, NEW type \in {"text", "image"}
      PROVE  Pool(type, base, t) \in Nat
  <2>1. PerformanceDifference(t) \in Int \cup {Nobody}
    <3>1. CASE t = Nobody
      BY <3>1 DEF PerformanceDifference
    <3>2. CASE t # Nobody
      <4>1. t.computed \in Int /\ t.stored \in Int \cup {Nobody}
        BY <3>2 DEF Results
      <4> QED
        BY <3>2, <4>1 DEF PerformanceDifference
    <3> QED
      BY <3>1, <3>2
  <2>2. Boost(PerformanceDifference(t)) \in Nat
    BY <2>1 DEF Boost, BoostRate, BoostThreshold
  <2>3. MaxPool[type] \in Nat
    BY DEF MaxPool
  <2> QED
    BY <2>2, <2>3 DEF Pool, Lesser
<1>2. c.text \in Results \cup {Nobody} /\ c.image \in Results \cup {Nobody} /\ c.base \in 0 .. 100 /\ 100 - c.base \in 0 .. 100
  BY AuditParts
<1> QED
  BY <1>1, <1>2 DEF PoolOf

\* What one type pays its nodes is no more than its pool, and what is left burns.
LEMMA TypeFits ==
  ASSUME NEW c \in Audits, NEW type \in {"text", "image"}
  PROVE  /\ TypeWeights(c, type) \in [c.registered -> Nat]
         /\ SumFunction(TypeWeights(c, type)) \in Nat
         /\ Undistributed(c, type) \in Nat
         /\ Undistributed(c, type) + SumFunction(TypeWeights(c, type)) = 105 * (PoolOf(c)[type] * Rest(c))
         /\ \A h \in c.registered : PairWeights(c[type])[h] = 0 => TypeWeights(c, type)[h] = 0
<1> DEFINE R == c.registered
           shares == PairWeights(c[type])
           part == [h \in R |-> shares[h]]
           W == TypeWeights(c, type)
<1>1. PICK P : P = PoolOf(c)[type]
  OBVIOUS
<1>2. P \in Nat
  BY <1>1, PoolsFit
<1>3. PICK q : q = Rest(c)
  OBVIOUS
<1>4. q \in Nat /\ R \in SUBSET Earners /\ IsFiniteSet(R) /\ c[type] \in Results \cup {Nobody}
  BY <1>3, AuditParts
<1>5. shares \in [Earners -> Nat] /\ SumFunction(part) <= 105
  BY <1>4, PairWeightsFit
<1>6. W = [h \in R |-> shares[h] * P * q]
  BY <1>1, <1>3 DEF TypeWeights
<1>7. part \in [R -> Nat] /\ \A h \in R : part[h] = shares[h]
  BY <1>4, <1>5
<1> HIDE DEF shares, part, W, R
<1>8. PICK m : m = P * q
  OBVIOUS
<1>9. m \in Nat
  BY <1>2, <1>4, <1>8
<1>10. ASSUME NEW h \in R
       PROVE  W[h] = m * part[h] /\ W[h] \in Nat /\ (shares[h] = 0 => W[h] = 0)
  <2>1. PICK s : s = shares[h]
    OBVIOUS
  <2>2. s \in Nat /\ part[h] = s
    BY <1>4, <1>5, <1>7, <2>1
  <2>3. W[h] = s * P * q
    BY <1>6, <2>1
  <2>4. s * P * q = (P * q) * s
    BY <1>2, <1>4, <2>2
  <2>5. m * s \in Nat /\ (s = 0 => m * s = 0)
    BY <1>9, <2>2
  <2> QED
    BY <1>8, <2>1, <2>2, <2>3, <2>4, <2>5
<1>11. W \in [R -> Nat]
  <2>1. W = [h \in R |-> W[h]]
    BY <1>6
  <2> QED
    BY <1>10, <2>1
<1>12. PICK total : total = SumFunction(part)
  OBVIOUS
<1>13. total \in Nat /\ total <= 105
  BY <1>4, <1>5, <1>7, <1>12, NumbersAdd, SumIn
<1>14. SumFunction(W) = m * total
  <2>1. part \in [R -> Int] /\ W \in [R -> Int] /\ m \in Int
    BY <1>7, <1>9, <1>11
  <2>2. \A h \in R : W[h] = m * part[h]
    BY <1>10
  <2> QED
    BY <1>4, <1>12, <2>1, <2>2, SumScaled
<1>15. SumFunction(W) \in Nat /\ SumFunction(W) <= 105 * m
  <2>1. m * total \in Nat /\ m * total <= m * 105
    <3>1. PICK d \in Nat : 105 = total + d
      <4>1. 105 - total \in Nat /\ 105 = total + (105 - total)
        BY <1>13
      <4> QED
        BY <4>1
    <3>2. m * (total + d) = m * total + m * d
      BY <1>9, <1>13, <3>1
    <3>3. m * total \in Nat /\ m * d \in Nat
      BY <1>9, <1>13, <3>1
    <3> QED
      BY <3>1, <3>2, <3>3
  <2>2. m * 105 = 105 * m
    BY <1>9
  <2> QED
    BY <1>14, <2>1, <2>2
<1>16. Undistributed(c, type) = 105 * m - SumFunction(W)
  <2>1. Undistributed(c, type) = 105 * P * q - SumFunction(W)
    BY <1>1, <1>3 DEF Undistributed, W
  <2>2. 105 * P * q = 105 * (P * q)
    BY <1>2, <1>4
  <2> QED
    BY <1>8, <2>1, <2>2
<1>17. Undistributed(c, type) \in Nat /\ Undistributed(c, type) + SumFunction(W) = 105 * m
  BY <1>9, <1>15, <1>16
<1>18. \A h \in R : shares[h] = 0 => W[h] = 0
  BY <1>10
<1> QED
  BY <1>1, <1>3, <1>8, <1>11, <1>15, <1>17, <1>18 DEF shares, W, R

\* The weights of the nodes of one round.
LEMMA NodeWeightsFit ==
  ASSUME NEW c \in Audits
  PROVE  LET total == SumFunction(NodeWeights(c))
             burnEarns == PairWeights(c.text)[Burn] + PairWeights(c.image)[Burn] > 0
         IN  /\ total <= Whole(c)
             /\ Burn \in c.registered \ c.participants /\ c.participants \subseteq c.registered /\ ~ burnEarns
                   => total = Whole(c)
<1> DEFINE R == c.registered
           X == c.participants
           V == TypeWeights(c, "text")
           W == TypeWeights(c, "image")
           N == NodeWeights(c)
           paid == [h \in R |-> IF h \in X THEN Whole(c) \div Scale ELSE 0]
           types == [h \in R |-> V[h] + W[h]]
           all == [h \in R |-> types[h] + paid[h]]
<1>1. PICK p : p = PoolOf(c).text + PoolOf(c).image
  OBVIOUS
<1>2. PICK q : q = Rest(c)
  OBVIOUS
<1>3. PICK m : m = Cardinality(X)
  OBVIOUS
<1>4. /\ PoolOf(c).text \in Nat /\ PoolOf(c).image \in Nat /\ p \in Nat
      /\ q \in Nat /\ m \in Nat /\ q = 10000 - m
      /\ R \in SUBSET Earners /\ IsFiniteSet(R) /\ IsFiniteSet(X)
  BY <1>1, <1>2, <1>3, PoolsFit, AuditParts DEF Scale
<1>5. Whole(c) = 1050000 * p /\ Whole(c) \div Scale = 105 * p /\ 105 * p \in Nat
  <2>1. Whole(c) = 105 * 10000 * p
    BY <1>1 DEF Whole, Scale
  <2>2. 105 * 10000 * p = 1050000 * p /\ (1050000 * p) \div 10000 = 105 * p /\ 105 * p \in Nat
    BY <1>4
  <2> QED
    BY <2>1, <2>2 DEF Scale
<1>6. PICK A : A = SumFunction(V)
  OBVIOUS
<1>7. PICK B : B = SumFunction(W)
  OBVIOUS
<1>8. PICK y \in Nat, z \in Nat : y = Undistributed(c, "text") /\ z = Undistributed(c, "image")
  BY TypeFits
<1>9. V \in [R -> Nat] /\ W \in [R -> Nat] /\ A \in Nat /\ B \in Nat
  BY <1>6, <1>7, TypeFits
<1>10. (y + A) + (z + B) = 105 * (p * q)
  <2>1. y + A = 105 * (PoolOf(c)["text"] * q) /\ z + B = 105 * (PoolOf(c)["image"] * q)
    BY <1>2, <1>6, <1>7, <1>8, TypeFits
  <2>2. PoolOf(c)["text"] = PoolOf(c).text /\ PoolOf(c)["image"] = PoolOf(c).image
    BY DEF PoolOf
  <2>3. PICK i \in Nat, j \in Nat : i = PoolOf(c).text /\ j = PoolOf(c).image /\ p = i + j
    BY <1>1, <1>4
  <2>4. 105 * (i * q) + 105 * (j * q) = 105 * ((i + j) * q)
    BY <1>4
  <2> QED
    BY <2>1, <2>2, <2>3, <2>4
<1> HIDE DEF V, W, N, R, X
<1>11. /\ paid \in [R -> Nat] /\ types \in [R -> Nat] /\ all \in [R -> Nat]
       /\ \A h \in R : types[h] = V[h] + W[h] /\ all[h] = types[h] + paid[h]
       /\ \A h \in R : paid[h] = IF h \in X THEN 105 * p ELSE 0
  <2>1. \A h \in R : V[h] \in Nat /\ W[h] \in Nat
    BY <1>9
  <2>2. types \in [R -> Nat]
    BY <2>1
  <2>3. paid \in [R -> Nat]
    BY <1>5
  <2>4. \A h \in R : types[h] \in Nat /\ paid[h] \in Nat
    BY <2>2, <2>3
  <2>5. all \in [R -> Nat]
    <3> HIDE DEF types, paid
    <3> QED
      BY <2>4
  <2> QED
    BY <1>5, <2>2, <2>3, <2>5
<1> HIDE DEF paid, types, all
<1>12. SumFunction(all) = (A + B) + SumFunction(paid)
  <2>1. paid \in [R -> Int] /\ types \in [R -> Int] /\ all \in [R -> Int] /\ V \in [R -> Int] /\ W \in [R -> Int]
    BY <1>9, <1>11
  <2>2. SumFunction(types) = A + B
    BY <1>4, <1>6, <1>7, <1>11, <2>1, SumAdded
  <2>3. SumFunction(all) = SumFunction(types) + SumFunction(paid)
    BY <1>4, <1>11, <2>1, SumAdded
  <2> QED
    BY <2>2, <2>3
<1>13. PICK n \in Nat : n = Cardinality(R \cap X) /\ n <= m
  BY <1>3, <1>4, FS_Subset, FS_Intersection, FS_CardinalityType
<1>14. SumFunction(paid) = (105 * p) * n
  <2>1. PICK F : IsSum(paid, R, F) /\ SumFunction(paid) = F[R]
    BY <1>4, <1>11, SumOf
  <2>2. R \cap X \in SUBSET R /\ R \ X \in SUBSET R /\ (R \cap X) \cap (R \ X) = {} /\ (R \cap X) \cup (R \ X) = R
    OBVIOUS
  <2>3. paid \in [R -> Int]
    BY <1>11
  <2>4. F[(R \cap X) \cup (R \ X)] = F[R \cap X] + F[R \ X]
    BY <1>4, <2>1, <2>2, <2>3, SumUnion
  <2>5. ASSUME NEW S \in SUBSET R, NEW a \in Nat, \A h \in S : paid[h] = a
        PROVE  F[S] = a * Cardinality(S)
    <3> DEFINE g == [h \in S |-> paid[h]]
    <3>1. IsFiniteSet(S)
      BY <1>4, FS_Subset
    <3>2. SumFunction(g) = F[S]
      BY <1>4, <2>1, SumPart
    <3>3. g \in [S -> Int] /\ \A h \in S : g[h] = a
      BY <2>3, <2>5
    <3> HIDE DEF g
    <3>4. SumFunction(g) = a * Cardinality(S)
      BY <3>1, <3>3, SumEqual
    <3> QED
      BY <3>2, <3>4
  <2>6. F[R \cap X] = (105 * p) * Cardinality(R \cap X)
    BY <1>5, <1>11, <2>5
  <2>7. F[R \ X] = 0 * Cardinality(R \ X)
    BY <1>11, <2>5
  <2>8. Cardinality(R \ X) \in Nat
    <3>1. IsFiniteSet(R \ X)
      BY <1>4, <2>2, FS_Subset
    <3> QED
      BY <3>1, FS_CardinalityType
  <2>9. 0 * Cardinality(R \ X) = 0
    BY <2>8
  <2>10. (105 * p) * n + 0 = (105 * p) * n
    BY <1>4
  <2> QED
    BY <1>13, <2>1, <2>2, <2>4, <2>6, <2>7, <2>9, <2>10, Zenon
<1>15. PICK k : k = (105 * p) * n
  OBVIOUS
<1>16. /\ k \in Nat
       /\ 105 * (p * q) + k <= Whole(c)
       /\ n = m => 105 * (p * q) + k = Whole(c)
  <2>1. PICK d \in Nat : m = n + d
    <3>1. m - n \in Nat /\ m = n + (m - n)
      BY <1>4, <1>13
    <3> QED
      BY <3>1
  <2>2. (q + n) + d = 10000 /\ (n = m => d = 0)
    BY <1>4, <1>13, <2>1
  <2>3. 105 * (p * q) = (105 * p) * q
    BY <1>4
  <2>4. (105 * p) * ((q + n) + d) = ((105 * p) * q + (105 * p) * n) + (105 * p) * d
    BY <1>4, <1>13, <2>1
  <2>5. (105 * p) * 10000 = Whole(c)
    BY <1>4, <1>5
  <2>6. (105 * p) * q \in Nat /\ (105 * p) * n \in Nat /\ (105 * p) * d \in Nat
    BY <1>4, <1>13, <2>1
  <2>7. d = 0 => (105 * p) * d = 0
    BY <1>4
  <2>8. Whole(c) = (105 * (p * q) + k) + (105 * p) * d
    <3>1. (q + n) + d = 10000
      BY <2>2
    <3>2. (105 * p) * ((q + n) + d) = Whole(c)
      BY <2>5, <3>1
    <3> QED
      BY <1>15, <2>3, <2>4, <3>2, Zenon
  <2> QED
    BY <1>15, <2>2, <2>3, <2>6, <2>7, <2>8
<1>17. DOMAIN N = R /\ \A h \in R : N[h] = IF h = Burn THEN y + z ELSE all[h]
  <2>1. N = [h \in R |-> IF h = Burn THEN y + z
                         ELSE V[h] + W[h] + (IF h \in X THEN Whole(c) \div Scale ELSE 0)]
    BY <1>8 DEF N, NodeWeights, R, V, W, X
  <2>2. \A h \in R : all[h] = V[h] + W[h] + (IF h \in X THEN Whole(c) \div Scale ELSE 0)
    BY DEF all, types, paid
  <2> QED
    BY <2>1, <2>2
<1>18. N \in [R -> Nat]
  <2>1. \A h \in R : N[h] \in Nat
    BY <1>8, <1>11, <1>17
  <2>2. N = [h \in R |-> N[h]]
    BY <1>17 DEF N, NodeWeights
  <2> QED
    BY <2>1, <2>2
<1>19. CASE Burn \notin R
  <2>1. N = all
    <3>1. \A h \in R : N[h] = all[h]
      BY <1>17, <1>19
    <3>2. N = [h \in R |-> N[h]] /\ all = [h \in R |-> all[h]]
      BY <1>11, <1>18
    <3> QED
      BY <3>1, <3>2
  <2>2. SumFunction(N) = (A + B) + k
    BY <1>12, <1>14, <1>15, <2>1
  <2>3. A + B <= 105 * (p * q)
    BY <1>8, <1>9, <1>10, <1>4
  <2>4. 105 * (p * q) \in Nat /\ Whole(c) \in Nat
    BY <1>4, <1>5
  <2>5. SumFunction(N) <= Whole(c)
    BY <1>9, <1>16, <2>2, <2>3, <2>4
  <2> QED
    BY <1>19, <2>5 DEF N, R
<1>20. CASE Burn \in R
  <2>1. SumFunction(N) = SumFunction(all) - all[Burn] + N[Burn]
    <3>1. N \in [R -> Int] /\ all \in [R -> Int]
      BY <1>11, <1>18
    <3>2. \A s \in R \ {Burn} : N[s] = all[s]
      BY <1>17
    <3> QED
      BY <1>4, <1>20, <3>1, <3>2, SumChange
  <2>2. N[Burn] = y + z /\ all[Burn] \in Nat
    BY <1>11, <1>17, <1>20
  <2>3. SumFunction(N) = (105 * (p * q) + k) - all[Burn]
    BY <1>8, <1>9, <1>10, <1>12, <1>14, <1>15, <1>16, <2>1, <2>2
  <2>4. 105 * (p * q) \in Nat /\ Whole(c) \in Nat
    BY <1>4, <1>5
  <2>5. SumFunction(N) <= Whole(c)
    BY <1>16, <2>2, <2>3, <2>4
  <2>6. ASSUME Burn \in R \ X, X \subseteq R, ~ (PairWeights(c.text)[Burn] + PairWeights(c.image)[Burn] > 0)
        PROVE  SumFunction(N) = Whole(c)
    <3>1. n = m
      <4>1. R \cap X = X
        BY <2>6
      <4> QED
        BY <1>3, <1>13, <4>1
    <3>2. PairWeights(c.text)[Burn] = 0 /\ PairWeights(c.image)[Burn] = 0
      <4>1. /\ c.text \in Results \cup {Nobody} /\ c.image \in Results \cup {Nobody}
        BY AuditParts
      <4>2. PairWeights(c.text) \in [Earners -> Nat] /\ PairWeights(c.image) \in [Earners -> Nat]
        <5>1. R \in SUBSET Earners
          BY <1>4
        <5>2. \A t \in Results \cup {Nobody} : PairWeights(t) \in [Earners -> Nat]
          BY <5>1, PairWeightsFit
        <5> QED
          BY <4>1, <5>2, Zenon
      <4>3. PairWeights(c.text)[Burn] \in Nat /\ PairWeights(c.image)[Burn] \in Nat
        BY <4>2, BurnAssumption
      <4> QED
        BY <2>6, <4>3
    <3>3. V[Burn] = 0 /\ W[Burn] = 0
      <4>1. c["text"] = c.text /\ c["image"] = c.image
        BY AuditParts
      <4> QED
        BY <1>20, <3>2, <4>1, TypeFits DEF V, W, R
    <3>4. all[Burn] = 0
      BY <1>11, <1>20, <2>6, <3>3
    <3> QED
      BY <1>16, <2>3, <2>4, <3>1, <3>4
  <2> QED
    BY <2>5, <2>6 DEF N, R, X
<1> QED
  BY <1>19, <1>20

\* What the champion's positions earn moves to his hotkey, and nothing else does.
LEMMA PlacesMove ==
  ASSUME NEW t \in Results, t # Nobody, DOMAIN t.places # {}, t.base \notin {Nobody, Burn}
  PROVE  LET nominal == PlacedShares([t EXCEPT !.base = Nobody])
         IN  PairWeights(t) = [nominal EXCEPT ![t.base] = @ + nominal[Burn], ![Burn] = 0]
<1> DEFINE S == PaidPlaces(t)
           total == Lesser(Cardinality(DOMAIN t.places), PaidRanks)
           share == [k \in S |-> RankShare(total, t.places[k])]
           u == [t EXCEPT !.base = Nobody]
           nominal == PlacedShares(u)
           earned == PairWeights(t)
           name(r) == [k \in S |-> Resolve(k, r.base)]
           rank == [k \in S |-> t.places[k]]
<1>1. PICK b : b = t.base
  OBVIOUS
<1>2. b \in Earners /\ b # Burn /\ b # Nobody /\ Burn \in Earners
  BY <1>1, BurnAssumption DEF Results
<1>3. /\ S \subseteq Earners /\ IsFiniteSet(S) /\ rank \in [S -> Nat \ {0}] /\ IsInjective(rank)
      /\ total \in Nat /\ (total <= 1 => Cardinality(S) <= 1)
  BY PlacesAreRanks
<1>4. u \in Results /\ u.places = t.places /\ u.base = Nobody /\ PaidPlaces(u) = S
  BY DEF Results, PaidPlaces
<1>6. earned = Shares(name(t), rank, total)
  BY DEF PairWeights, PlacedShares
<1>7. nominal = Shares(name(u), rank, total)
  BY <1>4 DEF PlacedShares
<1>8. share \in [S -> Nat]
  <2>1. \A k \in S : share[k] = RankShare(total, rank[k])
    OBVIOUS
  <2>2. \A k \in S : share[k] \in Nat
    BY <1>3, <2>1, RankShares
  <2> QED
    BY <2>2
<1>9. \A h \in Earners : /\ earned[h] = SumFunction([k \in {k \in S : Resolve(k, b) = h} |-> share[k]])
                         /\ nominal[h] = SumFunction([k \in {k \in S : k = h} |-> share[k]])
  <2> SUFFICES ASSUME NEW h \in Earners
               PROVE  /\ earned[h] = SumFunction([k \in {k \in S : Resolve(k, b) = h} |-> share[k]])
                      /\ nominal[h] = SumFunction([k \in {k \in S : k = h} |-> share[k]])
    OBVIOUS
  <2>1. DOMAIN rank = S
    OBVIOUS
  <2>2. earned[h] = SumFunction([k \in {k \in S : name(t)[k] = h} |-> RankShare(total, rank[k])])
    BY <1>6, <2>1 DEF Shares
  <2>3. nominal[h] = SumFunction([k \in {k \in S : name(u)[k] = h} |-> RankShare(total, rank[k])])
    BY <1>7, <2>1 DEF Shares
  <2>4. PICK A : A = {k \in S : Resolve(k, b) = h}
    OBVIOUS
  <2>5. PICK B : B = {k \in S : k = h}
    OBVIOUS
  <2>6. {k \in S : name(t)[k] = h} = A
    BY <1>1, <2>4
  <2>7. {k \in S : name(u)[k] = h} = B
    <3>1. \A k \in S : Resolve(k, Nobody) = k
      BY DEF Resolve
    <3> QED
      BY <1>4, <2>5, <3>1
  <2>8. A \subseteq S /\ B \subseteq S
    BY <2>4, <2>5
  <2>9. /\ [k \in A |-> RankShare(total, rank[k])] = [k \in A |-> share[k]]
        /\ [k \in B |-> RankShare(total, rank[k])] = [k \in B |-> share[k]]
    BY <2>8
  <2>10. earned[h] = SumFunction([k \in A |-> RankShare(total, rank[k])])
    BY <2>2, <2>6
  <2>11. nominal[h] = SumFunction([k \in B |-> RankShare(total, rank[k])])
    BY <2>3, <2>7
  <2> QED
    BY <2>4, <2>5, <2>9, <2>10, <2>11
<1> HIDE DEF S, total, u, nominal, earned, name, rank, share
<1>10. PICK F : IsSum(share, S, F)
  BY <1>3, SumExists
<1>11. \A h \in Earners : earned[h] = F[{k \in S : Resolve(k, b) = h}] /\ nominal[h] = F[S \cap {h}]
  <2> SUFFICES ASSUME NEW h \in Earners
               PROVE  earned[h] = F[{k \in S : Resolve(k, b) = h}] /\ nominal[h] = F[S \cap {h}]
    OBVIOUS
  <2>1. PICK A : A = {k \in S : Resolve(k, b) = h}
    OBVIOUS
  <2>2. PICK B : B = {k \in S : k = h}
    OBVIOUS
  <2>3. A \in SUBSET S /\ B \in SUBSET S /\ B = S \cap {h}
    BY <2>1, <2>2
  <2>4. SumFunction([k \in A |-> share[k]]) = F[A]
    BY <1>3, <1>10, <2>3, SumPart
  <2>5. SumFunction([k \in B |-> share[k]]) = F[B]
    BY <1>3, <1>10, <2>3, SumPart
  <2> QED
    BY <1>9, <2>1, <2>2, <2>3, <2>4, <2>5
<1>12. \A k : Resolve(k, b) = IF k = Burn THEN b ELSE k
  BY <1>2 DEF Resolve
<1>13. ASSUME NEW h \in Earners, h # b, h # Burn PROVE earned[h] = nominal[h]
  <2>1. {k \in S : Resolve(k, b) = h} = S \cap {h}
    BY <1>12, <1>13
  <2> QED
    BY <1>11, <2>1
<1>14. earned[Burn] = 0
  <2>1. {k \in S : Resolve(k, b) = Burn} = {}
    BY <1>2, <1>12
  <2>2. F[{}] = 0
    BY <1>10, SumOfNone
  <2> QED
    BY <1>2, <1>11, <2>1, <2>2
<1>15. earned[b] = nominal[b] + nominal[Burn]
  <2>1. PICK A : A = S \cap {b}
    OBVIOUS
  <2>2. PICK B : B = S \cap {Burn}
    OBVIOUS
  <2>3. {k \in S : Resolve(k, b) = b} = A \cup B /\ A \in SUBSET S /\ B \in SUBSET S /\ A \cap B = {}
    BY <1>2, <1>12, <2>1, <2>2
  <2>4. share \in [S -> Int]
    BY <1>8
  <2>5. F[A \cup B] = F[A] + F[B]
    BY <1>3, <1>10, <2>3, <2>4, SumUnion
  <2>6. earned[b] = F[{k \in S : Resolve(k, b) = b}] /\ nominal[b] = F[S \cap {b}] /\ nominal[Burn] = F[S \cap {Burn}]
    BY <1>2, <1>11
  <2> QED
    BY <2>1, <2>2, <2>3, <2>5, <2>6, Zenon
<1>16. earned \in [Earners -> Nat] /\ nominal \in [Earners -> Nat]
  <2>1. PICK R \in SUBSET Earners : R = {}
    OBVIOUS
  <2> QED
    BY <1>3, <1>6, <1>7, <2>1, SharesFit
<1>17. earned = [nominal EXCEPT ![b] = @ + nominal[Burn], ![Burn] = 0]
  <2> DEFINE moved == [nominal EXCEPT ![b] = @ + nominal[Burn], ![Burn] = 0]
  <2>1. moved = [h \in Earners |-> IF h = Burn THEN 0 ELSE IF h = b THEN nominal[b] + nominal[Burn] ELSE nominal[h]]
    BY <1>2, <1>16
  <2>2. earned = [h \in Earners |-> earned[h]]
    BY <1>16
  <2>3. \A h \in Earners : earned[h] = IF h = Burn THEN 0 ELSE IF h = b THEN nominal[b] + nominal[Burn] ELSE nominal[h]
    BY <1>13, <1>14, <1>15
  <2> HIDE DEF moved
  <2>4. earned = moved
    BY <2>1, <2>2, <2>3
  <2> QED
    BY <2>4 DEF moved
<1> QED
  BY <1>1, <1>17 DEF earned, nominal, u

\* The audit is one that can be read, and the weights are those computed from it.
WeightsFollowAudit == audit = Nobody \/ (audit \in Audits /\ weights = NodeWeights(audit))

\* Every round of the loop sets the weights computed from what it read.
LEMMA WeightsInvariant == WeightsSpec => []WeightsFollowAudit
<1>1. WeightsInit => WeightsFollowAudit
  BY DEF WeightsInit, WeightsFollowAudit
<1>2. WeightsFollowAudit /\ [WeightsNext]_<<audit, weights>> => WeightsFollowAudit'
  BY DEF WeightsFollowAudit, WeightsNext, ComputeWeights
<1> QED
  BY <1>1, <1>2, PTL DEF WeightsSpec

\* EmissionsHold (get_node_weights_from_tournament_audit_data): whatever the two
\* tournaments left, the weights never exceed one, and add up to one when nothing
\* is paid to the account that burns or to somebody who left.
THEOREM EmissionsHold == WeightsSpec => []EmissionsAddUp
<1>1. WeightsFollowAudit => EmissionsAddUp
  BY NodeWeightsFit DEF WeightsFollowAudit, EmissionsAddUp
<1> QED
  BY <1>1, WeightsInvariant, PTL

\* PlacesAreKept (get_boss_round_pair_weights): a champion who also holds the
\* position of the account that burns gets the sum of both, and no other hotkey
\* gets more or less than its position is worth.
THEOREM PlacesAreKept == WeightsSpec => []ChampionKeepsHisPlaces
<1>1. WeightsFollowAudit => ChampionKeepsHisPlaces
  <2> SUFFICES ASSUME WeightsFollowAudit, audit # Nobody, NEW t \in {audit.text, audit.image} \ {Nobody},
                      DOMAIN t.places # {} /\ t.base \notin {Nobody, Burn}
               PROVE  LET nominal == PlacedShares([t EXCEPT !.base = Nobody])
                      IN  PairWeights(t) = [nominal EXCEPT ![t.base] = @ + nominal[Burn], ![Burn] = 0]
    BY DEF ChampionKeepsHisPlaces
  <2>1. t \in Results
    BY AuditParts DEF WeightsFollowAudit
  <2> QED
    BY <2>1, PlacesMove, Zenon
<1> QED
  BY <1>1, WeightsInvariant, PTL
=============================================================================
