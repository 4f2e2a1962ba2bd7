------------------------------- MODULE SumFacts -------------------------------
(***************************************************************************)
(* Facts about every finite set that the proofs of several components      *)
(* need: the least of some numbers, induction over a finite set, and sums. *)
(* The library's induction theorems take the formula to prove as an        *)
(* operator; here it is a set, that of the arguments the formula holds of. *)
(***************************************************************************)
EXTENDS FiniteSetsExt, FiniteSetTheorems, TLAPS

LEMMA LeastThereIs ==
    ASSUME NEW S \in SUBSET Nat, S # {}
    PROVE  \E n \in S : \A m \in S : n <= m
<1>1. PICK n \in S : \A m \in S : ~(<<m, n>> \in OpToRel(<, Nat))
  BY NatLessThanWellFounded, WFMin
<1>2. \A m \in S : ~(m < n)
  BY <1>1 DEF OpToRel
<1> QED
  BY <1>2

\* What holds of a number whenever it holds of all smaller ones holds of all.
LEMMA NumberInduction ==
    ASSUME NEW Good,
           \A n \in Nat : (\A m \in Nat : m < n => m \in Good) => n \in Good
    PROVE  Nat \subseteq Good
<1> SUFFICES ASSUME Nat \ Good # {} PROVE FALSE
  OBVIOUS
<1>1. PICK n \in Nat \ Good : \A m \in Nat \ Good : n <= m
  BY LeastThereIs
<1>2. \A m \in Nat : m < n => m \in Good
  BY <1>1
<1> QED
  BY <1>1, <1>2

\* What holds of a subset whenever it holds of it less any one of its elements
\* holds of every subset.
LEMMA SubsetInduction ==
    ASSUME NEW S, IsFiniteSet(S), NEW Good,
           \A T \in SUBSET S : (\A x \in T : T \ {x} \in Good) => T \in Good
    PROVE  SUBSET S \subseteq Good
<1> DEFINE Sized == {n \in Nat : \A T \in SUBSET S : Cardinality(T) = n => T \in Good}
<1>1. \A T \in SUBSET S : /\ IsFiniteSet(T) /\ Cardinality(T) \in Nat
                          /\ \A x \in T : Cardinality(T \ {x}) = Cardinality(T) - 1
  BY FS_Subset, FS_CardinalityType, FS_RemoveElement
<1>2. ASSUME NEW n \in Nat, \A m \in Nat : m < n => m \in Sized
      PROVE  n \in Sized
  <2> SUFFICES ASSUME NEW T \in SUBSET S, Cardinality(T) = n PROVE T \in Good
    OBVIOUS
  <2>1. ASSUME NEW x \in T PROVE T \ {x} \in Good
    <3>1. Cardinality(T \ {x}) = n - 1 /\ Cardinality(T \ {x}) \in Nat /\ T \ {x} \in SUBSET S
      BY <1>1
    <3>2. Cardinality(T \ {x}) \in Sized
      <4> HIDE DEF Sized
      <4> QED
        BY <3>1, <1>2
    <3> QED
      BY <3>1, <3>2
  <2> QED
    BY <2>1
<1>3. Nat \subseteq Sized
  <2> HIDE DEF Sized
  <2> QED
    BY <1>2, NumberInduction
<1> QED
  BY <1>1, <1>3

-----------------------------------------------------------------------------
(* Sums *)

Picked(T) == CHOOSE x \in T : TRUE
Sums(F, S, g) ==
    g = [T \in SUBSET S |-> IF T = {} THEN 0 ELSE F[Picked(T)] + g[T \ {Picked(T)}]]

\* The sum of F over the finite set S.
SumOver(F, S) == (CHOOSE g : Sums(F, S, g))[S]

LEMMA PickedIsIn ==
    ASSUME NEW T, T # {}
    PROVE  Picked(T) \in T
BY DEF Picked

LEMMA SumsMean ==
    ASSUME NEW F, NEW S, NEW g, Sums(F, S, g)
    PROVE  \A T \in SUBSET S :
               g[T] = IF T = {} THEN 0 ELSE F[Picked(T)] + g[T \ {Picked(T)}]
BY DEF Sums

\* Two of them agree where both are defined.
LEMMA SumsAgree ==
    ASSUME NEW F, NEW G, NEW S, NEW R, NEW g, NEW h, IsFiniteSet(S),
           Sums(F, S, g), Sums(G, R, h), S \subseteq R, \A x \in S : F[x] = G[x]
    PROVE  \A T \in SUBSET S : g[T] = h[T]
<1>0. /\ \A T \in SUBSET S :
             g[T] = IF T = {} THEN 0 ELSE F[Picked(T)] + g[T \ {Picked(T)}]
      /\ \A T \in SUBSET R :
             h[T] = IF T = {} THEN 0 ELSE G[Picked(T)] + h[T \ {Picked(T)}]
  BY SumsMean
<1> DEFINE Good == {T \in SUBSET S : g[T] = h[T]}
<1>1. ASSUME NEW T \in SUBSET S, \A x \in T : T \ {x} \in Good
      PROVE  T \in Good
  <2>1. CASE T = {}
    BY <2>1, <1>0
  <2>2. CASE T # {}
    <3>1. Picked(T) \in T /\ T \in SUBSET R
      BY <2>2, PickedIsIn
    <3>2. T \ {Picked(T)} \in Good
      BY <3>1, <1>1
    <3>3. g[T] = F[Picked(T)] + g[T \ {Picked(T)}]
      BY <2>2, <1>0
    <3>4. h[T] = G[Picked(T)] + h[T \ {Picked(T)}]
      BY <2>2, <3>1, <1>0
    <3> QED
      BY <3>1, <3>2, <3>3, <3>4
  <2> QED
    BY <2>1, <2>2
<1>2. SUBSET S \subseteq Good
  <2> HIDE DEF Good
  <2> QED
    BY <1>1, SubsetInduction
<1> QED
  BY <1>2

\* The recursion has a solution: by the size of the sets it is defined on.
LEMMA SumsExist ==
    ASSUME NEW F, NEW S, IsFiniteSet(S)
    PROVE  \E g : Sums(F, S, g)
<1> DEFINE UpTo(n) == {T \in SUBSET S : Cardinality(T) <= n}
           Value(g, T) == IF T = {} THEN 0 ELSE F[Picked(T)] + g[T \ {Picked(T)}]
           Good == {n \in Nat : \E g : g = [T \in UpTo(n) |-> Value(g, T)]}
<1>1. \A T \in SUBSET S : /\ Cardinality(T) \in Nat /\ Cardinality(T) <= Cardinality(S)
                          /\ Cardinality(T) = 0 <=> T = {}
                          /\ \A x \in T : Cardinality(T \ {x}) = Cardinality(T) - 1
  BY FS_Subset, FS_CardinalityType, FS_RemoveElement, FS_EmptySet
<1>2. ASSUME NEW n \in Nat, \A m \in Nat : m < n => m \in Good
      PROVE  n \in Good
  <2>1. CASE n = 0
    <3> DEFINE g == [T \in UpTo(0) |-> 0]
    <3>1. \A T \in UpTo(0) : T = {}
      BY <1>1
    <3>2. g = [T \in UpTo(0) |-> Value(g, T)]
      BY <3>1
    <3> QED
      BY <2>1, <3>2
  <2>2. CASE n # 0
    <3>1. n - 1 \in Good
      <4> HIDE DEF Good
      <4> QED
        BY <1>2, <2>2
    <3>2. PICK f : f = [T \in UpTo(n - 1) |-> Value(f, T)]
      BY <3>1
    <3> DEFINE g == [T \in UpTo(n) |-> Value(f, T)]
    <3>3. \A T \in UpTo(n - 1) : g[T] = f[T]
      <4>1. \A T \in UpTo(n - 1) : T \in UpTo(n)
        BY <1>1
      <4>2. \A T \in UpTo(n - 1) : f[T] = Value(f, T)
        BY <3>2
      <4> QED
        BY <4>1, <4>2
    <3>4. ASSUME NEW T \in UpTo(n) PROVE Value(f, T) = Value(g, T)
      <4>1. T # {} => T \ {Picked(T)} \in UpTo(n - 1)
        BY <1>1, PickedIsIn
      <4> QED
        BY <4>1, <3>3
    <3>5. g = [T \in UpTo(n) |-> Value(g, T)]
      BY <3>4
    <3> QED
      BY <3>5
  <2> QED
    BY <2>1, <2>2
<1>3. Nat \subseteq Good
  <2> HIDE DEF Good
  <2> QED
    BY <1>2, NumberInduction
<1>4. Cardinality(S) \in Good /\ UpTo(Cardinality(S)) = SUBSET S
  BY <1>1, <1>3
<1> QED
  BY <1>4 DEF Sums

\* So the sum over S is the value at S of any solution over a larger set.
LEMMA SumIs ==
    ASSUME NEW F, NEW G, NEW S, NEW R, NEW g, IsFiniteSet(R), S \subseteq R,
           Sums(G, R, g), \A x \in S : F[x] = G[x]
    PROVE  SumOver(F, S) = g[S]
<1>1. IsFiniteSet(S)
  BY FS_Subset
<1>2. PICK h : Sums(F, S, h)
  BY <1>1, SumsExist
<1> DEFINE f == CHOOSE k : Sums(F, S, k)
<1>3. Sums(F, S, f)
  <2> HIDE DEF Sums
  <2> QED
    BY <1>2
<1>4. SumOver(F, S) = f[S]
  BY DEF SumOver
<1> HIDE DEF f
<1>5. \A T \in SUBSET S : f[T] = g[T]
  BY <1>1, <1>3, SumsAgree
<1> QED
  BY <1>4, <1>5

LEMMA SumOfNone ==
    ASSUME NEW F
    PROVE  SumOver(F, {}) = 0
<1>1. IsFiniteSet({})
  BY FS_EmptySet
<1>2. PICK g : Sums(F, {}, g)
  BY <1>1, SumsExist
<1>3. SumOver(F, {}) = g[{}]
  BY <1>1, <1>2, SumIs
<1> QED
  BY <1>2, <1>3, SumsMean

\* Functions that agree on the set have the same sum.
LEMMA SumOfEquals ==
    ASSUME NEW F, NEW G, NEW S, IsFiniteSet(S), \A x \in S : F[x] = G[x]
    PROVE  SumOver(F, S) = SumOver(G, S)
<1>1. PICK g : Sums(G, S, g)
  BY SumsExist
<1>2. SumOver(F, S) = g[S]
  BY <1>1, SumIs
<1>3. SumOver(G, S) = g[S]
  BY <1>1, SumIs
<1> QED
  BY <1>2, <1>3

LEMMA SumByPicked ==
    ASSUME NEW F, NEW S, IsFiniteSet(S), S # {}
    PROVE  SumOver(F, S) = F[Picked(S)] + SumOver(F, S \ {Picked(S)})
<1>1. PICK g : Sums(F, S, g)
  BY SumsExist
<1>2. SumOver(F, S) = g[S] /\ SumOver(F, S \ {Picked(S)}) = g[S \ {Picked(S)}]
  <2>1. S \ {Picked(S)} \subseteq S
    OBVIOUS
  <2> QED
    BY <1>1, <2>1, SumIs
<1>3. g[S] = F[Picked(S)] + g[S \ {Picked(S)}]
  <2>1. \A T \in SUBSET S :
            g[T] = IF T = {} THEN 0 ELSE F[Picked(T)] + g[T \ {Picked(T)}]
    BY <1>1, SumsMean
  <2> QED
    BY <2>1
<1> QED
  BY <1>2, <1>3

LEMMA SumIsAnInteger ==
    ASSUME NEW S, IsFiniteSet(S), NEW F, \A x \in S : F[x] \in Int
    PROVE  SumOver(F, S) \in Int
<1> DEFINE Good == {T \in SUBSET S : SumOver(F, T) \in Int}
<1>1. ASSUME NEW T \in SUBSET S, \A x \in T : T \ {x} \in Good
      PROVE  T \in Good
  <2>1. CASE T = {}
    BY <2>1, SumOfNone
  <2>2. CASE T # {}
    <3>1. IsFiniteSet(T) /\ Picked(T) \in T
      BY <2>2, FS_Subset, PickedIsIn
    <3>2. SumOver(F, T) = F[Picked(T)] + SumOver(F, T \ {Picked(T)})
      BY <2>2, <3>1, SumByPicked
    <3>3. SumOver(F, T \ {Picked(T)}) \in Int
      BY <1>1, <3>1
    <3> QED
      BY <3>1, <3>2, <3>3
  <2> QED
    BY <2>1, <2>2
<1>2. SUBSET S \subseteq Good
  <2> HIDE DEF Good
  <2> QED
    BY <1>1, SubsetInduction
<1> QED
  BY <1>2

\* Whichever element is taken out, it accounts for the difference.
LEMMA SumLess ==
    ASSUME NEW S, IsFiniteSet(S), NEW F, \A x \in S : F[x] \in Int, NEW y \in S
    PROVE  SumOver(F, S) = F[y] + SumOver(F, S \ {y})
<1> DEFINE Good == {T \in SUBSET S : \A x \in T : SumOver(F, T) = F[x] + SumOver(F, T \ {x})}
<1>0. \A T \in SUBSET S : IsFiniteSet(T) /\ SumOver(F, T) \in Int
  BY FS_Subset, SumIsAnInteger
<1>1. ASSUME NEW T \in SUBSET S, \A x \in T : T \ {x} \in Good
      PROVE  T \in Good
  <2> SUFFICES ASSUME NEW x \in T PROVE SumOver(F, T) = F[x] + SumOver(F, T \ {x})
    OBVIOUS
  <2> DEFINE p == Picked(T)
  <2>1. p \in T
    BY PickedIsIn
  <2>2. SumOver(F, T) = F[p] + SumOver(F, T \ {p})
    BY <1>0, SumByPicked
  <2> HIDE DEF p
  <2>3. CASE x = p
    BY <2>2, <2>3
  <2>4. CASE x # p
    <3>1. T \ {p} \in Good /\ x \in T \ {p}
      BY <1>1, <2>1, <2>4
    <3>2. T \ {x} \in Good /\ p \in T \ {x}
      BY <1>1, <2>1, <2>4
    <3>3. SumOver(F, T \ {p}) = F[x] + SumOver(F, (T \ {p}) \ {x})
      BY <3>1
    <3>4. SumOver(F, T \ {x}) = F[p] + SumOver(F, (T \ {x}) \ {p})
      BY <3>2
    <3>5. (T \ {p}) \ {x} = (T \ {x}) \ {p}
      OBVIOUS
    <3>6. F[x] \in Int /\ F[p] \in Int /\ SumOver(F, (T \ {x}) \ {p}) \in Int
      BY <1>0, <2>1
    <3> HIDE DEF Good
    <3>7. SumOver(F, T) = F[p] + (F[x] + SumOver(F, (T \ {x}) \ {p}))
      BY <2>2, <3>3, <3>5
    <3>8. \A a, b, c \in Int : a + (b + c) = b + (a + c)
      OBVIOUS
    <3> QED
      BY <3>4, <3>6, <3>7, <3>8
  <2> QED
    BY <2>3, <2>4
<1>2. SUBSET S \subseteq Good
  <2> HIDE DEF Good
  <2> QED
    BY <1>1, SubsetInduction
<1> QED
  BY <1>2

LEMMA SumMore ==
    ASSUME NEW S, IsFiniteSet(S), NEW F, NEW y, y \notin S,
           \A x \in S \cup {y} : F[x] \in Int
    PROVE  SumOver(F, S \cup {y}) = SumOver(F, S) + F[y]
<1>1. IsFiniteSet(S \cup {y}) /\ (S \cup {y}) \ {y} = S
  BY FS_AddElement
<1>2. SumOver(F, S \cup {y}) = F[y] + SumOver(F, (S \cup {y}) \ {y})
  BY <1>1, SumLess
<1>3. SumOver(F, S) \in Int
  BY SumIsAnInteger
<1>4. F[y] \in Int /\ SumOver(F, S \cup {y}) = F[y] + SumOver(F, S)
  BY <1>1, <1>2
<1> QED
  BY <1>3, <1>4

LEMMA SumIsNatural ==
    ASSUME NEW S, IsFiniteSet(S), NEW F, \A x \in S : F[x] \in Nat
    PROVE  SumOver(F, S) \in Nat
<1> DEFINE Good == {T \in SUBSET S : SumOver(F, T) \in Nat}
<1>1. ASSUME NEW T \in SUBSET S, \A x \in T : T \ {x} \in Good
      PROVE  T \in Good
  <2>1. CASE T = {}
    BY <2>1, SumOfNone
  <2>2. CASE T # {}
    <3>1. IsFiniteSet(T) /\ Picked(T) \in T
      BY <2>2, FS_Subset, PickedIsIn
    <3>2. SumOver(F, T) = F[Picked(T)] + SumOver(F, T \ {Picked(T)})
      BY <2>2, <3>1, SumByPicked
    <3>3. SumOver(F, T \ {Picked(T)}) \in Nat
      BY <1>1, <3>1
    <3> QED
      BY <3>1, <3>2, <3>3
  <2> QED
    BY <2>1, <2>2
<1>2. SUBSET S \subseteq Good
  <2> HIDE DEF Good
  <2> QED
    BY <1>1, SubsetInduction
<1> QED
  BY <1>2

\* One value changes.
LEMMA SumChanged ==
    ASSUME NEW S, IsFiniteSet(S), NEW y \in S, NEW F, NEW G,
           \A x \in S : F[x] \in Int /\ G[x] \in Int,
           \A x \in S \ {y} : G[x] = F[x]
    PROVE  SumOver(G, S) = SumOver(F, S) - F[y] + G[y]
<1>1. IsFiniteSet(S \ {y})
  BY FS_RemoveElement
<1>2. SumOver(G, S \ {y}) = SumOver(F, S \ {y}) /\ SumOver(F, S \ {y}) \in Int
  BY <1>1, SumOfEquals, SumIsAnInteger
<1>3. SumOver(F, S) = F[y] + SumOver(F, S \ {y})
  BY SumLess
<1>4. SumOver(G, S) = G[y] + SumOver(G, S \ {y})
  BY SumLess
<1>5. \A a, b, c \in Int : b + c = (a + c) - a + b
  OBVIOUS
<1>6. F[y] \in Int /\ G[y] \in Int
  OBVIOUS
<1> QED
  BY <1>2, <1>3, <1>4, <1>5, <1>6

LEMMA SumIsMonotone ==
    ASSUME NEW S, IsFiniteSet(S), NEW F, NEW G,
           \A x \in S : F[x] \in Int /\ G[x] \in Int /\ F[x] <= G[x]
    PROVE  SumOver(F, S) <= SumOver(G, S)
<1> DEFINE Good == {T \in SUBSET S : SumOver(F, T) <= SumOver(G, T)}
<1>1. ASSUME NEW T \in SUBSET S, \A x \in T : T \ {x} \in Good
      PROVE  T \in Good
  <2>1. CASE T = {}
    BY <2>1, SumOfNone
  <2>2. CASE T # {}
    <3> DEFINE p == Picked(T)
    <3>1. IsFiniteSet(T) /\ p \in T /\ IsFiniteSet(T \ {p})
      BY <2>2, FS_Subset, FS_RemoveElement, PickedIsIn
    <3>2. /\ SumOver(F, T) = F[p] + SumOver(F, T \ {p})
          /\ SumOver(G, T) = G[p] + SumOver(G, T \ {p})
      BY <2>2, <3>1, SumByPicked
    <3>3. SumOver(F, T \ {p}) <= SumOver(G, T \ {p})
      BY <1>1, <3>1
    <3>4. SumOver(F, T \ {p}) \in Int /\ SumOver(G, T \ {p}) \in Int
      BY <3>1, SumIsAnInteger
    <3>5. F[p] \in Int /\ G[p] \in Int /\ F[p] <= G[p]
      BY <3>1
    <3> HIDE DEF p, Good
    <3>6. SumOver(F, T) <= SumOver(G, T)
      BY <3>2, <3>3, <3>4, <3>5
    <3> QED
      BY <3>6 DEF Good
  <2> QED
    BY <2>1, <2>2
<1>2. SUBSET S \subseteq Good
  <2> HIDE DEF Good
  <2> QED
    BY <1>1, SubsetInduction
<1> QED
  BY <1>2

LEMMA SumTimes ==
    ASSUME NEW S, IsFiniteSet(S), NEW F, NEW G, NEW k \in Int,
           \A x \in S : F[x] \in Int /\ G[x] = F[x] * k
    PROVE  SumOver(G, S) = SumOver(F, S) * k
<1> DEFINE Good == {T \in SUBSET S : SumOver(G, T) = SumOver(F, T) * k}
<1>1. ASSUME NEW T \in SUBSET S, \A x \in T : T \ {x} \in Good
      PROVE  T \in Good
  <2>1. CASE T = {}
    <3>1. SumOver(F, T) = 0 /\ SumOver(G, T) = 0 /\ 0 * k = 0
      BY <2>1, SumOfNone
    <3> QED
      BY <3>1
  <2>2. CASE T # {}
    <3> DEFINE p == Picked(T)
    <3>1. IsFiniteSet(T) /\ p \in T /\ IsFiniteSet(T \ {p})
      BY <2>2, FS_Subset, FS_RemoveElement, PickedIsIn
    <3>2. /\ SumOver(F, T) = F[p] + SumOver(F, T \ {p})
          /\ SumOver(G, T) = G[p] + SumOver(G, T \ {p})
      BY <2>2, <3>1, SumByPicked
    <3>3. SumOver(G, T \ {p}) = SumOver(F, T \ {p}) * k
      BY <1>1, <3>1
    <3>4. SumOver(F, T \ {p}) \in Int /\ F[p] \in Int /\ G[p] = F[p] * k
      BY <3>1, SumIsAnInteger
    <3>5. \A a, b \in Int : (a + b) * k = a * k + b * k
      OBVIOUS
    <3> HIDE DEF p, Good
    <3>6. SumOver(G, T) = SumOver(F, T) * k
      BY <3>2, <3>3, <3>4, <3>5
    <3> QED
      BY <3>6 DEF Good
  <2> QED
    BY <2>1, <2>2
<1>2. SUBSET S \subseteq Good
  <2> HIDE DEF Good
  <2> QED
    BY <1>1, SubsetInduction
<1> QED
  BY <1>2

\* The sums over two disjoint sets make the sum over both.
LEMMA SumOfDisjoint ==
    ASSUME NEW S, NEW R, IsFiniteSet(S), IsFiniteSet(R), S \cap R = {}, NEW F,
           \A x \in S \cup R : F[x] \in Int
    PROVE  SumOver(F, S \cup R) = SumOver(F, S) + SumOver(F, R)
<1> DEFINE Good == {T \in SUBSET R : SumOver(F, S \cup T) = SumOver(F, S) + SumOver(F, T)}
<1>0. SumOver(F, S) \in Int
  BY SumIsAnInteger
<1>1. ASSUME NEW T \in SUBSET R, \A x \in T : T \ {x} \in Good
      PROVE  T \in Good
  <2>1. CASE T = {}
    BY <1>0, <2>1, SumOfNone
  <2>2. CASE T # {}
    <3> DEFINE p == Picked(T)
    <3>1. IsFiniteSet(T) /\ p \in T /\ IsFiniteSet(T \ {p}) /\ IsFiniteSet(S \cup T)
      BY <2>2, FS_Subset, FS_RemoveElement, FS_Union, PickedIsIn
    <3>2. SumOver(F, S \cup (T \ {p})) = SumOver(F, S) + SumOver(F, T \ {p})
      BY <1>1, <3>1
    <3>3. SumOver(F, T) = F[p] + SumOver(F, T \ {p})
      BY <3>1, SumLess
    <3>4. (S \cup T) \ {p} = S \cup (T \ {p}) /\ p \in S \cup T
      BY <3>1
    <3>5. SumOver(F, S \cup T) = F[p] + SumOver(F, (S \cup T) \ {p})
      BY <3>1, <3>4, SumLess
    <3>6. F[p] \in Int /\ SumOver(F, T \ {p}) \in Int
      BY <3>1, SumIsAnInteger
    <3> HIDE DEF p, Good
    <3>7. SumOver(F, S \cup T) = F[p] + (SumOver(F, S) + SumOver(F, T \ {p}))
      BY <3>2, <3>4, <3>5
    <3>8. \A a, b, c \in Int : a + (b + c) = b + (a + c)
      OBVIOUS
    <3>9. SumOver(F, S \cup T) = SumOver(F, S) + SumOver(F, T)
      BY <1>0, <3>3, <3>6, <3>7, <3>8
    <3> QED
      BY <3>9 DEF Good
  <2> QED
    BY <2>1, <2>2
<1>2. SUBSET R \subseteq Good
  <2> HIDE DEF Good
  <2> QED
    BY <1>1, SubsetInduction
<1> QED
  BY <1>2

LEMMA SumOfBoth ==
    ASSUME NEW S, NEW R, IsFiniteSet(S), IsFiniteSet(R), NEW F,
           \A x \in S \cup R : F[x] \in Int
    PROVE  SumOver(F, S \cup R) + SumOver(F, S \cap R) = SumOver(F, S) + SumOver(F, R)
<1> DEFINE A == S \ R
           B == S \cap R
<1>1. IsFiniteSet(A) /\ IsFiniteSet(B) /\ A \cap R = {} /\ A \cap B = {}
  BY FS_Subset
<1>2. S \cup R = A \cup R /\ S = A \cup B
  OBVIOUS
<1>3. \A x \in A \cup B \cup R : F[x] \in Int
  OBVIOUS
<1> HIDE DEF A, B
<1>4. SumOver(F, A \cup R) = SumOver(F, A) + SumOver(F, R)
  BY <1>1, <1>3, SumOfDisjoint
<1>5. SumOver(F, A \cup B) = SumOver(F, A) + SumOver(F, B)
  BY <1>1, <1>3, SumOfDisjoint
<1>6. SumOver(F, A) \in Int /\ SumOver(F, B) \in Int /\ SumOver(F, R) \in Int
  BY <1>1, <1>3, SumIsAnInteger
<1>7. SumOver(F, S \cup R) = SumOver(F, A) + SumOver(F, R)
  BY <1>2, <1>4
<1>8. SumOver(F, S) = SumOver(F, A) + SumOver(F, B)
  BY <1>2, <1>5
<1>9. \A a, b, c \in Int : (a + c) + b = (a + b) + c
  OBVIOUS
<1>10. SumOver(F, S \cup R) + SumOver(F, B) = SumOver(F, S) + SumOver(F, R)
  BY <1>6, <1>7, <1>8, <1>9
<1> QED
  BY <1>10 DEF B
=============================================================================
