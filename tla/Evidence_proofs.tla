-------------------------- MODULE Evidence_proofs --------------------------
(***************************************************************************)
(* Proofs about Evidence, for every set of companies, filings, items and   *)
(* pages and every bound.  IInv adds to the properties what they rest on:  *)
(* that a fact is one the world's history made, that each field's file is  *)
(* in the order its facts were observed in, and where a filing can be that *)
(* a completed collection has not stored.                                  *)
(***************************************************************************)
EXTENDS Evidence, SequenceTheorems, SumFacts

\* A sequence with an element put in at a place.
PutIn(t, s, at, e) ==
    /\ Len(t) = Len(s) + 1
    /\ \A i \in 1..(Len(s) + 1) :
           t[i] = IF i < at THEN s[i] ELSE IF i = at THEN e ELSE s[i - 1]

LEMMA InsertFacts ==
    ASSUME NEW S, NEW s \in Seq(S), NEW e \in S, NEW at \in 1..(Len(s) + 1)
    PROVE  InsertAt(s, at, e) \in Seq(S) /\ PutIn(InsertAt(s, at, e), s, at, e)
<1> DEFINE before == SubSeq(s, 1, at - 1)
           after == SubSeq(s, at, Len(s))
           one == <<e>>
<1>1. Len(s) \in Nat /\ at \in Nat /\ at - 1 \in Int /\ 1 <= at /\ at <= Len(s) + 1
  BY LenProperties
<1>2. /\ \A i \in 1..(at - 1) : s[i] \in S
      /\ \A i \in at..Len(s) : s[i] \in S
  BY <1>1, ElementOfSeq
<1>3. /\ before \in Seq(S) /\ Len(before) = at - 1
      /\ \A i \in 1..(at - 1) : before[i] = s[i]
  BY <1>1, <1>2, SubSeqProperties
<1>4. /\ after \in Seq(S) /\ Len(after) = Len(s) - at + 1
      /\ \A i \in 1..(Len(s) - at + 1) : after[i] = s[at + i - 1]
  BY <1>1, <1>2, SubSeqProperties
<1>5. one \in Seq(S) /\ Len(one) = 1 /\ one[1] = e
  OBVIOUS
<1> HIDE DEF before, after, one
<1>6. /\ before \o one \in Seq(S) /\ Len(before \o one) = at
      /\ \A i \in 1..at : (before \o one)[i] = IF i < at THEN s[i] ELSE e
  <2>1. /\ before \o one \in Seq(S)
        /\ Len(before \o one) = Len(before) + Len(one)
        /\ \A i \in 1..(Len(before) + Len(one)) :
               (before \o one)[i] = IF i <= Len(before) THEN before[i] ELSE one[i - Len(before)]
    BY <1>3, <1>5, ConcatProperties
  <2> QED
    BY <1>1, <1>3, <1>5, <2>1
<1>7. /\ (before \o one) \o after \in Seq(S)
      /\ Len((before \o one) \o after) = Len(before \o one) + Len(after)
      /\ \A i \in 1..(Len(before \o one) + Len(after)) :
             ((before \o one) \o after)[i] =
                 IF i <= Len(before \o one) THEN (before \o one)[i]
                 ELSE after[i - Len(before \o one)]
  BY <1>4, <1>6, ConcatProperties
<1>8. InsertAt(s, at, e) = (before \o one) \o after
  BY DEF InsertAt, before, one, after
<1> QED
  BY <1>1, <1>4, <1>6, <1>7, <1>8 DEF PutIn

LEMMA InsertedSet ==
    ASSUME NEW S, NEW s \in Seq(S), NEW e \in S, NEW at \in 1..(Len(s) + 1)
    PROVE  /\ ToSet(InsertAt(s, at, e)) = ToSet(s) \cup {e}
           /\ \A i \in DOMAIN s :
                  InsertAt(s, at, e)[IF i < at THEN i ELSE i + 1] = s[i]
           /\ IsInjective(s) /\ e \notin ToSet(s) => IsInjective(InsertAt(s, at, e))
<1> DEFINE t == InsertAt(s, at, e)
<1> HIDE DEF t
<1>0. InsertAt(s, at, e) \in Seq(S) /\ PutIn(InsertAt(s, at, e), s, at, e)
  BY InsertFacts
<1>1. /\ t \in Seq(S) /\ Len(t) = Len(s) + 1
      /\ \A i \in 1..(Len(s) + 1) :
             t[i] = IF i < at THEN s[i] ELSE IF i = at THEN e ELSE s[i - 1]
  BY <1>0 DEF t, PutIn
<1>2. /\ DOMAIN t = 1..(Len(s) + 1) /\ DOMAIN s = 1..Len(s) /\ Len(s) \in Nat
      /\ at \in Nat /\ 1 <= at /\ at <= Len(s) + 1
  BY <1>1, LenProperties
<1>3. \A i \in DOMAIN s :
          (IF i < at THEN i ELSE i + 1) \in DOMAIN t /\ t[IF i < at THEN i ELSE i + 1] = s[i]
  BY <1>1, <1>2
<1>4. at \in DOMAIN t /\ t[at] = e
  BY <1>1, <1>2
<1>5. \A i \in DOMAIN t : \/ t[i] = e
                          \/ \E j \in DOMAIN s : t[i] = s[j]
  BY <1>1, <1>2
<1>6. ToSet(t) = ToSet(s) \cup {e}
  BY <1>3, <1>4, <1>5 DEF ToSet
<1>7. ASSUME IsInjective(s), e \notin ToSet(s) PROVE IsInjective(t)
  <2>1. ASSUME NEW i \in DOMAIN t, NEW j \in DOMAIN t, t[i] = t[j], i < j PROVE FALSE
    <3>1. \A k \in DOMAIN s : s[k] # e
      BY <1>7 DEF ToSet
    <3>2. CASE i = at
      <4>1. t[i] = e /\ t[j] = s[j - 1] /\ j - 1 \in DOMAIN s
        BY <1>1, <1>2, <2>1, <3>2
      <4> QED
        BY <2>1, <3>1, <4>1
    <3>3. CASE i < at /\ j = at
      <4>1. t[j] = e /\ t[i] = s[i] /\ i \in DOMAIN s
        BY <1>1, <1>2, <2>1, <3>3
      <4> QED
        BY <2>1, <3>1, <4>1
    <3>4. CASE i # at /\ j # at
      <4> DEFINE k == IF i < at THEN i ELSE i - 1
                 l == IF j < at THEN j ELSE j - 1
      <4>1. t[i] = s[k] /\ t[j] = s[l] /\ k \in DOMAIN s /\ l \in DOMAIN s /\ k # l
        BY <1>1, <1>2, <2>1, <3>4
      <4> QED
        BY <1>7, <2>1, <4>1 DEF IsInjective
    <3> QED
      BY <1>2, <2>1, <3>2, <3>3, <3>4
  <2>2. \A i, j \in DOMAIN t : i < j \/ j < i \/ i = j
    BY <1>2
  <2> QED
    BY <2>1, <2>2 DEF IsInjective
<1> QED
  BY <1>3, <1>6, <1>7 DEF t

-----------------------------------------------------------------------------
LEMMA AppendedSet ==
    ASSUME NEW S, NEW s \in Seq(S), NEW e \in S
    PROVE  Append(s, e) \in Seq(S) /\ ToSet(Append(s, e)) = ToSet(s) \cup {e}
<1>1. /\ Append(s, e) \in Seq(S) /\ Len(Append(s, e)) = Len(s) + 1
      /\ \A i \in 1..Len(s) : Append(s, e)[i] = s[i]
      /\ Append(s, e)[Len(s) + 1] = e
  BY AppendProperties
<1>2. /\ Len(s) \in Nat /\ DOMAIN s = 1..Len(s) /\ DOMAIN Append(s, e) = 1..(Len(s) + 1)
  BY <1>1, LenProperties
<1>3. \A i \in 1..(Len(s) + 1) : i \in 1..Len(s) \/ i = Len(s) + 1
  BY <1>2
<1>4. 1..Len(s) \subseteq 1..(Len(s) + 1) /\ Len(s) + 1 \in 1..(Len(s) + 1)
  BY <1>2
<1> QED
  BY <1>1, <1>2, <1>3, <1>4 DEF ToSet

LEMMA AppendedInjective ==
    ASSUME NEW S, NEW s \in Seq(S), NEW e \in S, IsInjective(s), e \notin ToSet(s)
    PROVE  IsInjective(Append(s, e))
<1>1. /\ Append(s, e) \in Seq(S) /\ Len(Append(s, e)) = Len(s) + 1
      /\ \A i \in 1..Len(s) : Append(s, e)[i] = s[i]
      /\ Append(s, e)[Len(s) + 1] = e
  BY AppendProperties
<1>2. /\ Len(s) \in Nat /\ DOMAIN s = 1..Len(s) /\ DOMAIN Append(s, e) = 1..(Len(s) + 1)
  BY <1>1, LenProperties
<1>3. \A i \in 1..(Len(s) + 1) : i \in 1..Len(s) \/ i = Len(s) + 1
  BY <1>2
<1>4. \A i \in 1..Len(s) : s[i] # e
  BY <1>2 DEF ToSet
<1> QED
  BY <1>1, <1>2, <1>3, <1>4 DEF IsInjective

LEMMA ElementsOfSeq ==
    ASSUME NEW S, NEW s \in Seq(S)
    PROVE  /\ ToSet(s) \subseteq S /\ \A i \in DOMAIN s : s[i] \in ToSet(s)
           /\ \A e \in ToSet(s) : \E i \in DOMAIN s : e = s[i]
           /\ DOMAIN s = 1..Len(s) /\ Len(s) \in Nat
<1>1. DOMAIN s = 1..Len(s) /\ Len(s) \in Nat
  BY LenProperties
<1> QED
  BY <1>1, ElementOfSeq DEF ToSet

LEMMA EmptyHasNone == ToSet(<<>>) = {} /\ DOMAIN <<>> = {}
BY DEF ToSet

LEMMA SetAsSequence ==
    ASSUME NEW S, IsFiniteSet(S)
    PROVE  SetToSeq(S) \in Seq(S) /\ ToSet(SetToSeq(S)) = S
<1>1. Cardinality(S) \in Nat /\ ExistsBijection(1..Cardinality(S), S)
  BY FS_CardinalityType
<1>2. PICK b \in [1..Cardinality(S) -> S] :
          IsInjective(b) /\ \A x \in S : \E i \in 1..Cardinality(S) : b[i] = x
  BY <1>1 DEF ExistsBijection, Bijection, Injection, Surjection, IsInjective
<1>3. SetToSeq(S) \in [1..Cardinality(S) -> S] /\ IsInjective(SetToSeq(S))
  BY <1>2 DEF SetToSeq
<1>4. SetToSeq(S) \in Seq(S)
  BY <1>1, <1>3
<1>5. \A x \in S : \E i \in 1..Cardinality(S) : SetToSeq(S)[i] = x
  <2> DEFINE n == Cardinality(S)
             s == SetToSeq(S)
             image == {s[i] : i \in 1..n}
  <2>1. s \in Bijection(1..n, image)
    BY <1>3 DEF Bijection, Injection, Surjection, IsInjective
  <2>2. IsFiniteSet(1..n) /\ Cardinality(1..n) = n
    BY <1>1, FS_Interval
  <2>3. IsFiniteSet(image) /\ Cardinality(image) = n
    BY <2>1, <2>2, FS_Bijection DEF ExistsBijection
  <2>4. image \in SUBSET S
    BY <1>3
  <2>5. image = S
    BY <2>3, <2>4, FS_Subset
  <2> QED
    BY <2>5
<1> QED
  BY <1>3, <1>4, <1>5 DEF ToSet

-----------------------------------------------------------------------------
(* Folding a sequence *)

\* g gives, for some places of a sequence, what a step makes of the elements there.
Folding(g, X, step, base, seq) ==
    /\ g \in [SUBSET (DOMAIN seq) -> X]
    /\ \A T \in SUBSET (DOMAIN seq) :
           /\ g[T] = IF T = {} THEN base ELSE step[g[T \ {Max(T)}]][seq[Max(T)]]
           /\ T # {} => Max(T) \in T

\* A step over the elements of a sequence, as a function, can be folded.
LEMMA FoldsExist ==
    ASSUME NEW X, NEW E, NEW step \in [X -> [E -> X]], NEW base \in X, NEW seq \in Seq(E)
    PROVE  \E g : Folding(g, X, step, base, seq)
<1> DEFINE Folds(g, D) ==
               /\ g \in [SUBSET D -> X]
               /\ \A T \in SUBSET D :
                      /\ g[T] = IF T = {} THEN base ELSE step[g[T \ {Max(T)}]][seq[Max(T)]]
                      /\ T # {} => Max(T) \in T
           Good == {n \in Nat : n <= Len(seq) => \E g : Folds(g, 1..n)}
<1>1. Len(seq) \in Nat /\ DOMAIN seq = 1..Len(seq)
  BY LenProperties
<1>2. ASSUME NEW n \in Nat, \A m \in Nat : m < n => m \in Good PROVE n \in Good
  <2>1. CASE n = 0
    <3> DEFINE g == [T \in SUBSET (1..0) |-> base]
    <3>1. \A T \in SUBSET (1..0) : T = {}
      OBVIOUS
    <3>2. Folds(g, 1..0)
      BY <3>1
    <3> HIDE DEF g, Folds
    <3>3. \E f : Folds(f, 1..n)
      BY <2>1, <3>2
    <3> QED
      BY <3>3
  <2>2. CASE n # 0 /\ n <= Len(seq)
    <3>1. n - 1 \in Nat /\ n - 1 < n /\ n - 1 <= Len(seq) /\ n \in 1..Len(seq)
      BY <1>1, <2>2
    <3>2. PICK f : Folds(f, 1..(n - 1))
      BY <1>2, <3>1
    <3> DEFINE g == [T \in SUBSET (1..n) |->
                        IF n \in T THEN step[f[T \ {n}]][seq[n]] ELSE f[T]]
    <3>3. seq[n] \in E
      BY <3>1, ElementOfSeq
    <3>4. \A T \in SUBSET (1..n) : T \ {n} \in SUBSET (1..(n - 1))
      BY <3>1
    <3>5. g \in [SUBSET (1..n) -> X]
      <4> SUFFICES ASSUME NEW T \in SUBSET (1..n) PROVE g[T] \in X
        OBVIOUS
      <4>1. f[T \ {n}] \in X
        BY <3>2, <3>4
      <4>2. n \notin T => T = T \ {n}
        OBVIOUS
      <4> QED
        BY <3>3, <4>1, <4>2
    <3>6. ASSUME NEW T \in SUBSET (1..n)
          PROVE  /\ g[T] = IF T = {} THEN base ELSE step[g[T \ {Max(T)}]][seq[Max(T)]]
                 /\ T # {} => Max(T) \in T
      <4>1. CASE n \in T
        <5>1. Max(T) = n
          <6>1. \A y \in T : n >= y
            BY <3>1
          <6>2. \A x \in T : (\A y \in T : x >= y) => x = n
            BY <3>1, <4>1, <6>1
          <6> QED
            BY <4>1, <6>1, <6>2 DEF Max
        <5>2. g[T \ {n}] = f[T \ {n}]
          BY <3>4
        <5>3. g[T] = step[f[T \ {n}]][seq[n]]
          BY <4>1
        <5> QED
          BY <4>1, <5>1, <5>2, <5>3
      <4>2. CASE n \notin T
        <5>1. T \in SUBSET (1..(n - 1)) /\ T \ {Max(T)} \in SUBSET (1..(n - 1))
              /\ T \ {Max(T)} \in SUBSET (1..n) /\ n \notin T \ {Max(T)}
          BY <3>4, <4>2
        <5>2. g[T] = f[T] /\ g[T \ {Max(T)}] = f[T \ {Max(T)}]
          BY <4>2, <5>1
        <5>3. /\ f[T] = IF T = {} THEN base ELSE step[f[T \ {Max(T)}]][seq[Max(T)]]
              /\ T # {} => Max(T) \in T
          BY <3>2, <5>1
        <5> QED
          BY <5>2, <5>3
      <4> QED
        BY <4>1, <4>2
    <3> HIDE DEF g
    <3>7. Folds(g, 1..n)
      BY <3>5, <3>6
    <3> QED
      BY <3>7
  <2> QED
    BY <2>1, <2>2
<1> HIDE DEF Good
<1>3. Nat \subseteq Good
  BY <1>2, NumberInduction
<1>4. Len(seq) \in Good
  BY <1>1, <1>3
<1>5. PICK g : Folds(g, DOMAIN seq)
  <2> HIDE DEF Folds
  <2>1. \E g : Folds(g, 1..Len(seq))
    BY <1>1, <1>4 DEF Good
  <2> QED
    BY <1>1, <2>1
<1> QED
  BY <1>5 DEF Folding

LEMMA MaxOfFirst ==
    ASSUME NEW n \in Nat \ {0}
    PROVE  Max(1..n) = n /\ (1..n) \ {n} = 1..(n - 1) /\ 1..n # {} /\ 1..0 = {}
<1>1. n \in 1..n /\ \A y \in 1..n : n >= y
  OBVIOUS
<1>2. \A x \in 1..n : (\A y \in 1..n : x >= y) => x = n
  BY <1>1
<1> QED
  BY <1>1, <1>2 DEF Max

LEMMA StepInduction ==
    ASSUME NEW Good, NEW N \in Nat, 0 \in Good,
           \A n \in 1..N : n - 1 \in Good => n \in Good
    PROVE  0..N \subseteq Good
<1> DEFINE Fine == {n \in Nat : n <= N => n \in Good}
<1>1. ASSUME NEW n \in Nat, \A m \in Nat : m < n => m \in Fine PROVE n \in Fine
  <2>1. CASE n = 0
    BY <2>1
  <2>2. CASE n # 0 /\ n <= N
    <3>1. n - 1 \in Nat /\ n - 1 < n /\ n - 1 <= N /\ n \in 1..N
      BY <2>2
    <3>2. n - 1 \in Good
      BY <1>1, <3>1
    <3> QED
      BY <3>1, <3>2
  <2> QED
    BY <2>1, <2>2
<1> HIDE DEF Fine
<1>2. Nat \subseteq Fine
  BY <1>1, NumberInduction
<1> QED
  BY <1>2 DEF Fine

\* What of a batch is not known, one element after the other.
LEMMA UnknownFolds ==
    ASSUME NEW known, NEW found \in Seq(Filings)
    PROVE  \E h :
               /\ Unknown(found, known) = h[Len(found)] /\ h[0] = <<>>
               /\ \A n \in 1..Len(found) :
                      h[n] = IF found[n] \in known THEN h[n - 1] ELSE Append(h[n - 1], found[n])
<1> DEFINE D == DOMAIN found
           X == Seq(Filings)
           Op(x, e) == IF e \in known THEN x ELSE Append(x, e)
           step == [x \in X |-> [e \in Filings |-> Op(x, e)]]
           After(g) == [T \in SUBSET D |->
                           IF T = {} THEN <<>> ELSE Op(g[T \ {Max(T)}], found[Max(T)])]
           iter == CHOOSE g : g = After(g)
<1>1. D = 1..Len(found) /\ Len(found) \in Nat /\ \A i \in D : found[i] \in Filings
  BY ElementsOfSeq
<1>2. Unknown(found, known) = iter[D]
  BY DEF Unknown, FoldLeft, MapThenFoldSet
<1>3. iter = After(iter)
  <2>1. step \in [X -> [Filings -> X]] /\ <<>> \in X
    BY AppendedSet
  <2> DEFINE none == <<>>
  <2> HIDE DEF step, X, none
  <2>2. PICK g : Folding(g, X, step, none, found)
    <3>1. none \in X /\ step \in [X -> [Filings -> X]]
      BY <2>1 DEF none
    <3> QED
      BY <3>1, FoldsExist
  <2>3. ASSUME NEW T \in SUBSET D PROVE g[T] = After(g)[T]
    <3>1. CASE T = {}
      BY <2>2, <3>1 DEF none, Folding
    <3>2. CASE T # {}
      <4>1. T \ {Max(T)} \in SUBSET D /\ g[T \ {Max(T)}] \in X
        BY <2>2 DEF Folding
      <4>2. found[Max(T)] \in Filings
        BY <1>1, <2>2, <3>2 DEF Folding
      <4>3. g[T] = step[g[T \ {Max(T)}]][found[Max(T)]]
        BY <2>2, <3>2 DEF Folding
      <4> QED
        BY <3>2, <4>1, <4>2, <4>3 DEF step
    <3> QED
      BY <3>1, <3>2
  <2>4. g = After(g)
    <3>1. g \in [SUBSET D -> X]
      BY <2>2 DEF Folding
    <3> HIDE DEF Op
    <3> QED
      BY <2>3, <3>1
  <2> HIDE DEF After
  <2> QED
    BY <2>4
<1>4. \A T \in SUBSET D :
          iter[T] = IF T = {} THEN <<>> ELSE Op(iter[T \ {Max(T)}], found[Max(T)])
  <2> HIDE DEF iter, Op
  <2> QED
    BY <1>3
<1> HIDE DEF iter, D, Op
<1> DEFINE h == [n \in 0..Len(found) |-> iter[1..n]]
<1>5. h[0] = <<>> /\ h[Len(found)] = iter[D]
  <2>1. 1..0 = {} /\ 1..0 \in SUBSET D /\ 0 \in 0..Len(found) /\ Len(found) \in 0..Len(found)
    BY <1>1
  <2>2. iter[1..0] = <<>>
    BY <1>4, <2>1
  <2> QED
    BY <1>1, <2>1, <2>2
<1>6. ASSUME NEW n \in 1..Len(found) PROVE h[n] = Op(h[n - 1], found[n])
  <2>1. n \in Nat \ {0} /\ 1..n \in SUBSET D /\ n - 1 \in 0..Len(found) /\ n \in 0..Len(found)
    BY <1>1
  <2>2. iter[1..n] = Op(iter[1..(n - 1)], found[n])
    BY <1>4, <2>1, MaxOfFirst
  <2> QED
    BY <2>1, <2>2
<1> QED
  BY <1>2, <1>5, <1>6 DEF Op

LEMMA UnknownAre ==
    ASSUME NEW known, NEW found \in Seq(Filings)
    PROVE  /\ Unknown(found, known) \in Seq(Filings)
           /\ ToSet(Unknown(found, known)) = ToSet(found) \ known
<1>1. PICK h :
          /\ Unknown(found, known) = h[Len(found)] /\ h[0] = <<>>
          /\ \A n \in 1..Len(found) :
                 h[n] = IF found[n] \in known THEN h[n - 1] ELSE Append(h[n - 1], found[n])
  BY UnknownFolds
<1>2. /\ DOMAIN found = 1..Len(found) /\ Len(found) \in Nat
      /\ \A i \in 1..Len(found) : found[i] \in Filings
  BY ElementsOfSeq
<1> DEFINE Good == {n \in 0..Len(found) :
                       h[n] \in Seq(Filings) /\ ToSet(h[n]) = {found[i] : i \in 1..n} \ known}
<1>3. 0 \in Good
  <2>1. 1..0 = {} /\ <<>> \in Seq(Filings) /\ 0 \in 0..Len(found)
    BY <1>2
  <2> QED
    BY <1>1, <2>1, EmptyHasNone
<1>4. ASSUME NEW n \in 1..Len(found), n - 1 \in Good PROVE n \in Good
  <2>1. /\ n \in 0..Len(found) /\ n \in Nat /\ {found[i] : i \in 1..n}
             = {found[i] : i \in 1..(n - 1)} \cup {found[n]}
    BY <1>2
  <2>2. /\ h[n - 1] \in Seq(Filings) /\ found[n] \in Filings
        /\ ToSet(h[n - 1]) = {found[i] : i \in 1..(n - 1)} \ known
    BY <1>2, <1>4
  <2>3. CASE found[n] \in known
    <3>1. h[n] = h[n - 1]
      BY <1>1, <2>3
    <3> QED
      BY <2>1, <2>2, <2>3, <3>1
  <2>4. CASE found[n] \notin known
    <3>1. h[n] = Append(h[n - 1], found[n])
      BY <1>1, <2>4
    <3>2. h[n] \in Seq(Filings) /\ ToSet(h[n]) = ToSet(h[n - 1]) \cup {found[n]}
      BY <2>2, <3>1, AppendedSet
    <3> QED
      BY <2>1, <2>2, <2>4, <3>2
  <2> QED
    BY <2>3, <2>4
<1>5. 0..Len(found) \subseteq Good
  <2> HIDE DEF Good
  <2> QED
    BY <1>2, <1>3, <1>4, StepInduction
<1>6. Len(found) \in Good
  <2> HIDE DEF Good
  <2> QED
    BY <1>2, <1>5
<1> QED
  BY <1>1, <1>2, <1>6 DEF ToSet

\* The items of a batch that are new, each once.
LEMMA NewItemsFold ==
    ASSUME NEW batch \in Seq(Items)
    PROVE  \E h :
               /\ NewItems(batch) = h[Len(batch)] /\ h[0] = <<>>
               /\ \A n \in 1..Len(batch) :
                      h[n] = IF batch[n] \in Known(SymbolOf[batch[n]], "news_event", clock)
                                                \cup ToSet(h[n - 1])
                             THEN h[n - 1] ELSE Append(h[n - 1], batch[n])
<1> DEFINE D == DOMAIN batch
           X == Seq(Items)
           Op(x, e) == IF e \in Known(SymbolOf[e], "news_event", clock) \cup ToSet(x)
                       THEN x ELSE Append(x, e)
           step == [x \in X |-> [e \in Items |-> Op(x, e)]]
           After(g) == [T \in SUBSET D |->
                           IF T = {} THEN <<>> ELSE Op(g[T \ {Max(T)}], batch[Max(T)])]
           iter == CHOOSE g : g = After(g)
<1>1. D = 1..Len(batch) /\ Len(batch) \in Nat /\ \A i \in D : batch[i] \in Items
  BY ElementsOfSeq
<1>2. NewItems(batch) = iter[D]
  BY DEF NewItems, FoldLeft, MapThenFoldSet
<1>3. iter = After(iter)
  <2>1. step \in [X -> [Items -> X]] /\ <<>> \in X
    BY AppendedSet
  <2> DEFINE none == <<>>
  <2> HIDE DEF step, X, none
  <2>2. PICK g : Folding(g, X, step, none, batch)
    <3>1. none \in X /\ step \in [X -> [Items -> X]]
      BY <2>1 DEF none
    <3> QED
      BY <3>1, FoldsExist
  <2>3. ASSUME NEW T \in SUBSET D PROVE g[T] = After(g)[T]
    <3>1. CASE T = {}
      BY <2>2, <3>1 DEF none, Folding
    <3>2. CASE T # {}
      <4>1. T \ {Max(T)} \in SUBSET D /\ g[T \ {Max(T)}] \in X
        BY <2>2 DEF Folding
      <4>2. batch[Max(T)] \in Items
        BY <1>1, <2>2, <3>2 DEF Folding
      <4>3. g[T] = step[g[T \ {Max(T)}]][batch[Max(T)]]
        BY <2>2, <3>2 DEF Folding
      <4> HIDE DEF Op
      <4>4. step[g[T \ {Max(T)}]][batch[Max(T)]] = Op(g[T \ {Max(T)}], batch[Max(T)])
        BY <4>1, <4>2 DEF step
      <4> QED
        BY <3>2, <4>3, <4>4
    <3> QED
      BY <3>1, <3>2
  <2>4. g = After(g)
    <3>1. g \in [SUBSET D -> X]
      BY <2>2 DEF Folding
    <3> HIDE DEF Op
    <3> QED
      BY <2>3, <3>1
  <2> HIDE DEF After
  <2> QED
    BY <2>4
<1>4. \A T \in SUBSET D :
          iter[T] = IF T = {} THEN <<>> ELSE Op(iter[T \ {Max(T)}], batch[Max(T)])
  <2> HIDE DEF iter, Op
  <2> QED
    BY <1>3
<1> HIDE DEF iter, D, Op
<1> DEFINE h == [n \in 0..Len(batch) |-> iter[1..n]]
<1>5. h[0] = <<>> /\ h[Len(batch)] = iter[D]
  <2>1. 1..0 = {} /\ 1..0 \in SUBSET D /\ 0 \in 0..Len(batch) /\ Len(batch) \in 0..Len(batch)
    BY <1>1
  <2>2. iter[1..0] = <<>>
    BY <1>4, <2>1
  <2> QED
    BY <1>1, <2>1, <2>2
<1>6. ASSUME NEW n \in 1..Len(batch) PROVE h[n] = Op(h[n - 1], batch[n])
  <2>1. n \in Nat \ {0} /\ 1..n \in SUBSET D /\ n - 1 \in 0..Len(batch) /\ n \in 0..Len(batch)
    BY <1>1
  <2>2. iter[1..n] = Op(iter[1..(n - 1)], batch[n])
    BY <1>4, <2>1, MaxOfFirst
  <2> QED
    BY <2>1, <2>2
<1> QED
  BY <1>2, <1>5, <1>6 DEF Op

LEMMA NewItemsAre ==
    ASSUME NEW batch \in Seq(Items)
    PROVE  /\ NewItems(batch) \in Seq(Items) /\ IsInjective(NewItems(batch))
           /\ ToSet(NewItems(batch)) \subseteq ToSet(batch)
           /\ \A i \in ToSet(NewItems(batch)) : i \notin Known(SymbolOf[i], "news_event", clock)
<1>1. PICK h :
          /\ NewItems(batch) = h[Len(batch)] /\ h[0] = <<>>
          /\ \A n \in 1..Len(batch) :
                 h[n] = IF batch[n] \in Known(SymbolOf[batch[n]], "news_event", clock)
                                           \cup ToSet(h[n - 1])
                        THEN h[n - 1] ELSE Append(h[n - 1], batch[n])
  BY NewItemsFold
<1>2. /\ DOMAIN batch = 1..Len(batch) /\ Len(batch) \in Nat
      /\ \A i \in 1..Len(batch) : batch[i] \in Items /\ batch[i] \in ToSet(batch)
  BY ElementsOfSeq
<1> DEFINE Fine(s) == /\ s \in Seq(Items) /\ IsInjective(s) /\ ToSet(s) \subseteq ToSet(batch)
                      /\ \A i \in ToSet(s) : i \notin Known(SymbolOf[i], "news_event", clock)
           Good == {n \in 0..Len(batch) : Fine(h[n])}
<1>3. 0 \in Good
  <2>1. <<>> \in Seq(Items) /\ 0 \in 0..Len(batch) /\ IsInjective(<<>>)
    BY <1>2, EmptyHasNone DEF IsInjective
  <2> QED
    BY <1>1, <2>1, EmptyHasNone
<1>4. ASSUME NEW n \in 1..Len(batch), n - 1 \in Good PROVE n \in Good
  <2>1. n \in 0..Len(batch) /\ Fine(h[n - 1]) /\ batch[n] \in Items /\ batch[n] \in ToSet(batch)
    BY <1>2, <1>4
  <2>2. CASE batch[n] \in Known(SymbolOf[batch[n]], "news_event", clock) \cup ToSet(h[n - 1])
    <3>1. h[n] = h[n - 1]
      BY <1>1, <2>2
    <3> QED
      BY <2>1, <3>1
  <2>3. CASE batch[n] \notin Known(SymbolOf[batch[n]], "news_event", clock) \cup ToSet(h[n - 1])
    <3>1. h[n] = Append(h[n - 1], batch[n])
      BY <1>1, <2>3
    <3>2. h[n] \in Seq(Items) /\ ToSet(h[n]) = ToSet(h[n - 1]) \cup {batch[n]}
      BY <2>1, <3>1, AppendedSet
    <3>3. IsInjective(h[n])
      BY <2>1, <2>3, <3>1, AppendedInjective
    <3> QED
      BY <2>1, <2>3, <3>2, <3>3
  <2> QED
    BY <2>2, <2>3
<1>5. 0..Len(batch) \subseteq Good
  <2> HIDE DEF Good
  <2> QED
    BY <1>2, <1>3, <1>4, StepInduction
<1>6. Len(batch) \in Good
  BY <1>2, <1>5
<1> QED
  BY <1>1, <1>6

-----------------------------------------------------------------------------
(* A series kept in order *)

LEMMA InitialSegment ==
    ASSUME NEW n \in Nat, NEW S \in SUBSET (1..n),
           \A i \in S, j \in 1..n : j <= i => j \in S
    PROVE  /\ Cardinality(S) \in 0..n /\ S = 1..Cardinality(S)
<1> DEFINE Out == {k \in Nat : k >= 1 /\ k \notin S}
<1>1. n + 1 \in Out
  OBVIOUS
<1>2. PICK k \in Out : \A m \in Out : k <= m
  <2>1. Out \in SUBSET Nat /\ Out # {}
    BY <1>1
  <2> HIDE DEF Out
  <2> QED
    BY <2>1, LeastThereIs
<1>3. k \in Nat /\ 1 <= k /\ k <= n + 1 /\ k \notin S
  BY <1>1, <1>2
<1>4. S = 1..(k - 1)
  <2>1. ASSUME NEW i \in S PROVE i \in 1..(k - 1)
    BY <1>2, <1>3
  <2>2. ASSUME NEW i \in 1..(k - 1) PROVE i \in S
    <3>1. i \notin Out
      BY <1>2, <1>3
    <3> QED
      BY <1>3, <3>1
  <2> QED
    BY <2>1, <2>2
<1>5. Cardinality(1..(k - 1)) = k - 1
  BY <1>3, FS_Interval
<1> QED
  BY <1>3, <1>4, <1>5

LEMMA FactsAre ==
    ASSUME NEW facts \in Seq(Facts)
    PROVE  /\ Len(facts) \in Nat /\ DOMAIN facts = 1..Len(facts)
           /\ \A i \in DOMAIN facts : /\ facts[i] \in Facts /\ facts[i].observed \in Nat
                                     /\ facts[i] \in ToSet(facts)
<1>1. /\ Len(facts) \in Nat /\ DOMAIN facts = 1..Len(facts) /\ ToSet(facts) \subseteq Facts
      /\ \A i \in DOMAIN facts : facts[i] \in ToSet(facts)
  BY ElementsOfSeq
<1>2. \A fact \in Facts : fact.observed \in Nat
  BY DEF Facts
<1> QED
  BY <1>1, <1>2

\* What is at or before an instant comes first.
LEMMA BisectRightIs ==
    ASSUME NEW facts \in Seq(Facts), InOrder(facts), NEW t \in Nat
    PROVE  /\ BisectRight(facts, t) \in 0..Len(facts)
           /\ \A i \in DOMAIN facts : i <= BisectRight(facts, t) <=> facts[i].observed <= t
<1> DEFINE S == {i \in DOMAIN facts : facts[i].observed <= t}
<1>1. Len(facts) \in Nat /\ DOMAIN facts = 1..Len(facts)
      /\ \A i \in DOMAIN facts : facts[i].observed \in Nat
  BY FactsAre
<1>2. \A i \in S, j \in 1..Len(facts) : j <= i => j \in S
  BY <1>1 DEF InOrder
<1>3. S \in SUBSET (1..Len(facts))
  BY <1>1
<1>4. BisectRight(facts, t) = Cardinality(S)
  BY DEF BisectRight
<1> HIDE DEF S
<1>5. Cardinality(S) \in 0..Len(facts) /\ S = 1..Cardinality(S)
  BY <1>1, <1>2, <1>3, InitialSegment
<1>6. \A i \in DOMAIN facts : i <= Cardinality(S) <=> i \in S
  BY <1>1, <1>5
<1> QED
  BY <1>4, <1>5, <1>6 DEF S

\* What holds between any two of a series and between each and a fact still
\* holds when the fact is inserted.
LEMMA InsertedInOrder ==
    ASSUME NEW facts \in Seq(Facts), InOrder(facts), NEW fact \in Facts
    PROVE  /\ Inserted(facts, fact) \in Seq(Facts) /\ InOrder(Inserted(facts, fact))
           /\ ToSet(Inserted(facts, fact)) = ToSet(facts) \cup {fact}
           /\ (/\ \A i, j \in DOMAIN facts : i # j => Caused(facts[i], facts[j])
               /\ \A other \in ToSet(facts) : Caused(fact, other) /\ Caused(other, fact))
              => \A i, j \in DOMAIN Inserted(facts, fact) :
                     i # j => Caused(Inserted(facts, fact)[i], Inserted(facts, fact)[j])
<1> DEFINE at == BisectRight(facts, fact.observed) + 1
           new == Inserted(facts, fact)
<1>1. /\ Len(facts) \in Nat /\ DOMAIN facts = 1..Len(facts) /\ fact.observed \in Nat
      /\ \A i \in DOMAIN facts : facts[i].observed \in Nat /\ facts[i] \in ToSet(facts)
  BY FactsAre DEF Facts
<1>2. /\ BisectRight(facts, fact.observed) \in 0..Len(facts)
      /\ \A i \in DOMAIN facts : i <= BisectRight(facts, fact.observed)
                                    <=> facts[i].observed <= fact.observed
  BY <1>1, BisectRightIs
<1>3. new = InsertAt(facts, at, fact)
  BY DEF Inserted
<1> HIDE DEF new
<1>4. /\ at \in 1..(Len(facts) + 1)
      /\ \A i \in DOMAIN facts : i < at <=> facts[i].observed <= fact.observed
  BY <1>1, <1>2
<1> HIDE DEF at
<1>5. /\ new \in Seq(Facts) /\ Len(new) = Len(facts) + 1
      /\ \A i \in 1..(Len(facts) + 1) :
             new[i] = IF i < at THEN facts[i] ELSE IF i = at THEN fact ELSE facts[i - 1]
  <2>1. new \in Seq(Facts) /\ PutIn(new, facts, at, fact)
    BY <1>3, <1>4, InsertFacts
  <2> QED
    BY <2>1 DEF PutIn
<1>6. ToSet(new) = ToSet(facts) \cup {fact}
  BY <1>3, <1>4, InsertedSet
<1>7. DOMAIN new = 1..(Len(facts) + 1)
  BY <1>5, LenProperties
<1> DEFINE place(i) == IF i < at THEN i ELSE i - 1
<1>8. \A i \in DOMAIN new : i # at => place(i) \in DOMAIN facts /\ new[i] = facts[place(i)]
  BY <1>1, <1>4, <1>5, <1>7
<1>9. new[at] = fact /\ at \in DOMAIN new
  BY <1>4, <1>5, <1>7
<1>10. InOrder(new)
  <2> SUFFICES ASSUME NEW i \in DOMAIN new, NEW j \in DOMAIN new, i <= j
               PROVE  new[i].observed <= new[j].observed
    BY DEF InOrder
  <2>1. CASE i # at /\ j # at
    <3>1. place(i) <= place(j)
      BY <1>1, <1>4, <1>7, <2>1
    <3> QED
      BY <1>8, <2>1, <3>1 DEF InOrder
  <2>2. CASE i = at /\ j = at
    BY <1>1, <1>9, <2>2
  <2>3. CASE i = at /\ j # at
    <3>1. ~(place(j) < at) /\ place(j) \in DOMAIN facts /\ new[j] = facts[place(j)]
      BY <1>1, <1>4, <1>7, <1>8, <2>3
    <3> QED
      BY <1>1, <1>4, <1>9, <2>3, <3>1
  <2>4. CASE i # at /\ j = at
    <3>1. place(i) < at /\ place(i) \in DOMAIN facts /\ new[i] = facts[place(i)]
      BY <1>1, <1>4, <1>7, <1>8, <2>4
    <3> QED
      BY <1>1, <1>4, <1>9, <2>4, <3>1
  <2> QED
    BY <2>1, <2>2, <2>3, <2>4
<1>11. ASSUME \A i, j \in DOMAIN facts : i # j => Caused(facts[i], facts[j]),
              \A other \in ToSet(facts) : Caused(fact, other) /\ Caused(other, fact),
              NEW i \in DOMAIN new, NEW j \in DOMAIN new, i # j
       PROVE  Caused(new[i], new[j])
  <2>1. CASE i # at /\ j # at
    <3>1. place(i) # place(j)
      BY <1>1, <1>4, <1>7, <1>11, <2>1
    <3> QED
      BY <1>8, <1>11, <2>1, <3>1
  <2>2. CASE i = at \/ j = at
    BY <1>1, <1>8, <1>9, <1>11, <2>2
  <2> QED
    BY <2>1, <2>2
<1> QED
  BY <1>5, <1>6, <1>10, <1>11 DEF new

-----------------------------------------------------------------------------
(* What a process loads *)

RowOf(line, symbol, field) ==
    Parses(line) /\ line.fact.symbol = symbol /\ line.fact.field = field

LEMMA ReadableLine ==
    ASSUME NEW line \in Lines, Parses(line)
    PROVE  line.fact \in Facts
BY DEF Lines, Parses

LEMMA LoadedFold ==
    ASSUME NEW lines \in Seq(Lines), NEW symbol \in Symbols, NEW field \in Fields
    PROVE  \E h :
               /\ Loaded(lines)[symbol][field] = h[Len(lines)] /\ h[0] = <<>>
               /\ \A n \in 1..Len(lines) :
                      h[n] = IF RowOf(lines[n], symbol, field)
                             THEN Inserted(h[n - 1], lines[n].fact) ELSE h[n - 1]
<1> DEFINE D == DOMAIN lines
           X == {s \in Seq(Facts) : InOrder(s)}
           Op(x, l) == IF RowOf(l, symbol, field) THEN Inserted(x, l.fact) ELSE x
           step == [x \in X |-> [l \in Lines |-> Op(x, l)]]
           After(g) == [T \in SUBSET D |->
                           IF T = {} THEN <<>> ELSE Op(g[T \ {Max(T)}], lines[Max(T)])]
           iter == CHOOSE g : g = After(g)
<1>1. D = 1..Len(lines) /\ Len(lines) \in Nat /\ \A i \in D : lines[i] \in Lines
  BY ElementsOfSeq
<1>2. Loaded(lines)[symbol][field] = iter[D]
  BY DEF Loaded, FoldLeft, MapThenFoldSet, RowOf
<1>3. iter = After(iter)
  <2>1. step \in [X -> [Lines -> X]]
    <3> SUFFICES ASSUME NEW x \in X, NEW l \in Lines PROVE Op(x, l) \in X
      OBVIOUS
    <3>1. CASE RowOf(l, symbol, field)
      <4>1. l.fact \in Facts
        BY <3>1, ReadableLine DEF RowOf
      <4>2. Inserted(x, l.fact) \in X
        BY <4>1, InsertedInOrder
      <4> QED
        BY <3>1, <4>2
    <3>2. CASE ~RowOf(l, symbol, field)
      BY <3>2
    <3> QED
      BY <3>1, <3>2
  <2> DEFINE none == <<>>
  <2>2. none \in X
    BY EmptyHasNone DEF InOrder
  <2> HIDE DEF step, X, none
  <2>3. PICK g : Folding(g, X, step, none, lines)
    BY <2>1, <2>2, FoldsExist
  <2>4. ASSUME NEW T \in SUBSET D PROVE g[T] = After(g)[T]
    <3>1. CASE T = {}
      BY <2>3, <3>1 DEF none, Folding
    <3>2. CASE T # {}
      <4>1. T \ {Max(T)} \in SUBSET D /\ g[T \ {Max(T)}] \in X
        BY <2>3 DEF Folding
      <4>2. lines[Max(T)] \in Lines
        BY <1>1, <2>3, <3>2 DEF Folding
      <4>3. g[T] = step[g[T \ {Max(T)}]][lines[Max(T)]]
        BY <2>3, <3>2 DEF Folding
      <4> HIDE DEF Op
      <4>4. step[g[T \ {Max(T)}]][lines[Max(T)]] = Op(g[T \ {Max(T)}], lines[Max(T)])
        BY <4>1, <4>2 DEF step
      <4> QED
        BY <3>2, <4>3, <4>4
    <3> QED
      BY <3>1, <3>2
  <2>5. g = After(g)
    <3>1. g \in [SUBSET D -> X]
      BY <2>3 DEF Folding
    <3> HIDE DEF Op
    <3> QED
      BY <2>4, <3>1
  <2> HIDE DEF After
  <2> QED
    BY <2>5
<1>4. \A T \in SUBSET D :
          iter[T] = IF T = {} THEN <<>> ELSE Op(iter[T \ {Max(T)}], lines[Max(T)])
  <2> HIDE DEF iter, Op
  <2> QED
    BY <1>3
<1> HIDE DEF iter, D, Op
<1> DEFINE h == [n \in 0..Len(lines) |-> iter[1..n]]
<1>5. h[0] = <<>> /\ h[Len(lines)] = iter[D]
  <2>1. 1..0 = {} /\ 1..0 \in SUBSET D /\ 0 \in 0..Len(lines) /\ Len(lines) \in 0..Len(lines)
    BY <1>1
  <2>2. iter[1..0] = <<>>
    BY <1>4, <2>1
  <2> QED
    BY <1>1, <2>1, <2>2
<1>6. ASSUME NEW n \in 1..Len(lines) PROVE h[n] = Op(h[n - 1], lines[n])
  <2>1. n \in Nat \ {0} /\ 1..n \in SUBSET D /\ n - 1 \in 0..Len(lines) /\ n \in 0..Len(lines)
    BY <1>1
  <2>2. iter[1..n] = Op(iter[1..(n - 1)], lines[n])
    BY <1>4, <2>1, MaxOfFirst
  <2> QED
    BY <2>1, <2>2
<1> QED
  BY <1>2, <1>5, <1>6 DEF Op

LEMMA LoadedIs ==
    ASSUME NEW lines \in Seq(Lines), NEW symbol \in Symbols, NEW field \in Fields
    PROVE  /\ Loaded(lines)[symbol][field] \in Seq(Facts)
           /\ InOrder(Loaded(lines)[symbol][field])
           /\ ToSet(Loaded(lines)[symbol][field])
                  = {lines[i].fact : i \in {n \in DOMAIN lines : RowOf(lines[n], symbol, field)}}
           /\ (\A i, j \in DOMAIN lines :
                   i # j /\ Parses(lines[i]) /\ Parses(lines[j]) =>
                       Caused(lines[i].fact, lines[j].fact))
              => \A i, j \in DOMAIN Loaded(lines)[symbol][field] :
                     i # j => Caused(Loaded(lines)[symbol][field][i],
                                     Loaded(lines)[symbol][field][j])
<1>1. PICK h :
          /\ Loaded(lines)[symbol][field] = h[Len(lines)] /\ h[0] = <<>>
          /\ \A n \in 1..Len(lines) :
                 h[n] = IF RowOf(lines[n], symbol, field)
                        THEN Inserted(h[n - 1], lines[n].fact) ELSE h[n - 1]
  BY LoadedFold
<1>2. /\ DOMAIN lines = 1..Len(lines) /\ Len(lines) \in Nat
      /\ \A i \in 1..Len(lines) : lines[i] \in Lines
  BY ElementsOfSeq
<1> DEFINE RowsTo(n) == {i \in 1..n : RowOf(lines[i], symbol, field)}
           Apart == \A i, j \in DOMAIN lines :
                        i # j /\ Parses(lines[i]) /\ Parses(lines[j]) =>
                            Caused(lines[i].fact, lines[j].fact)
           Pairs(s) == \A i, j \in DOMAIN s : i # j => Caused(s[i], s[j])
           Good == {n \in 0..Len(lines) :
                       /\ h[n] \in Seq(Facts) /\ InOrder(h[n])
                       /\ ToSet(h[n]) = {lines[i].fact : i \in RowsTo(n)}
                       /\ Apart => Pairs(h[n])}
<1>3. 0 \in Good
  <2>1. RowsTo(0) = {} /\ <<>> \in Seq(Facts) /\ 0 \in 0..Len(lines)
    BY <1>2
  <2>2. InOrder(<<>>) /\ Pairs(<<>>)
    BY EmptyHasNone DEF InOrder
  <2> HIDE DEF Pairs, RowsTo, Apart
  <2> QED
    BY <1>1, <2>1, <2>2, EmptyHasNone
<1>4. ASSUME NEW n \in 1..Len(lines), n - 1 \in Good PROVE n \in Good
  <2>1. n \in 0..Len(lines) /\ lines[n] \in Lines /\ n \in Nat
    BY <1>2
  <2> DEFINE before == h[n - 1]
  <2>2. /\ before \in Seq(Facts) /\ InOrder(before)
        /\ ToSet(before) = {lines[i].fact : i \in RowsTo(n - 1)}
        /\ Apart => Pairs(before)
    <3> HIDE DEF Apart, Pairs, RowsTo
    <3> QED
      BY <1>4
  <2>3. CASE ~RowOf(lines[n], symbol, field)
    <3>1. h[n] = before
      BY <1>1, <2>3
    <3>2. RowsTo(n) = RowsTo(n - 1)
      BY <2>1, <2>3
    <3> HIDE DEF Apart, Pairs, RowsTo, before
    <3> QED
      BY <2>1, <2>2, <3>1, <3>2
  <2>4. CASE RowOf(lines[n], symbol, field)
    <3> DEFINE fact == lines[n].fact
    <3>1. h[n] = Inserted(before, fact)
      BY <1>1, <2>4
    <3>2. RowsTo(n) = RowsTo(n - 1) \cup {n}
      BY <2>1, <2>4
    <3>3. fact \in Facts
      BY <2>1, <2>4, ReadableLine DEF RowOf
    <3>4. Apart => \A other \in ToSet(before) : Caused(fact, other) /\ Caused(other, fact)
      <4> SUFFICES ASSUME Apart, NEW i \in RowsTo(n - 1)
                   PROVE  Caused(fact, lines[i].fact) /\ Caused(lines[i].fact, fact)
        <5> HIDE DEF Apart, RowsTo, fact, before
        <5> QED
          BY <2>2
      <4>1. i \in DOMAIN lines /\ n \in DOMAIN lines /\ i # n
            /\ Parses(lines[i]) /\ Parses(lines[n])
        BY <1>2, <2>1, <2>4 DEF RowOf
      <4> QED
        BY <4>1
    <3> HIDE DEF fact, before
    <3>5. /\ Inserted(before, fact) \in Seq(Facts) /\ InOrder(Inserted(before, fact))
          /\ ToSet(Inserted(before, fact)) = ToSet(before) \cup {fact}
      BY <2>2, <3>3, InsertedInOrder
    <3>6. Apart => Pairs(Inserted(before, fact))
      <4> HIDE DEF Apart
      <4> SUFFICES ASSUME Apart PROVE Pairs(Inserted(before, fact))
        OBVIOUS
      <4>1. /\ \A i, j \in DOMAIN before : i # j => Caused(before[i], before[j])
            /\ \A other \in ToSet(before) : Caused(fact, other) /\ Caused(other, fact)
        BY <2>2, <3>4
      <4> QED
        BY <2>2, <3>3, <4>1, InsertedInOrder
    <3>7. {lines[i].fact : i \in RowsTo(n)} = ToSet(before) \cup {fact}
      <4> HIDE DEF RowsTo
      <4> QED
        BY <2>2, <3>2 DEF fact
    <3> HIDE DEF Apart, Pairs, RowsTo
    <3> QED
      BY <2>1, <3>1, <3>5, <3>6, <3>7
  <2> QED
    BY <2>3, <2>4
<1>5. 0..Len(lines) \subseteq Good
  <2> HIDE DEF Good
  <2> QED
    BY <1>2, <1>3, <1>4, StepInduction
<1>6. Len(lines) \in Good
  <2> HIDE DEF Good
  <2> QED
    BY <1>2, <1>5
<1>7. RowsTo(Len(lines)) = {n \in DOMAIN lines : RowOf(lines[n], symbol, field)}
  BY <1>2
<1>8. /\ h[Len(lines)] \in Seq(Facts) /\ InOrder(h[Len(lines)])
      /\ ToSet(h[Len(lines)]) = {lines[i].fact : i \in RowsTo(Len(lines))}
      /\ Apart => Pairs(h[Len(lines)])
  <2> HIDE DEF RowsTo, Apart, Pairs
  <2> QED
    BY <1>6
<1> QED
  <2> HIDE DEF RowsTo
  <2> QED
    BY <1>1, <1>7, <1>8

-----------------------------------------------------------------------------
(* What is known, and what a step leaves alone *)

LEMMA HistoryIs ==
    ASSUME IInv, NEW symbol \in Symbols, NEW field \in Fields, NEW t \in Nat
    PROVE  LET s == series[symbol][field]
               k == BisectRight(s, t)
           IN /\ k \in 0..Len(s) /\ Len(s) \in Nat
              /\ History(symbol, field, t) \in Seq(Facts)
              /\ Len(History(symbol, field, t)) = k
              /\ \A i \in 1..k : History(symbol, field, t)[i] = s[i]
              /\ \A i \in DOMAIN s : i <= k <=> s[i].observed <= t
<1> DEFINE s == series[symbol][field]
           k == BisectRight(s, t)
<1>1. s \in Seq(Facts) /\ InOrder(s)
  BY DEF IInv, TypeOK, SeriesAreSorted
<1>2. History(symbol, field, t) = SubSeq(s, 1, k)
  BY DEF History
<1> HIDE DEF s
<1>3. k \in 0..Len(s) /\ \A i \in DOMAIN s : i <= k <=> s[i].observed <= t
  BY <1>1, BisectRightIs
<1>4. Len(s) \in Nat /\ DOMAIN s = 1..Len(s) /\ \A i \in DOMAIN s : s[i] \in Facts
  BY <1>1, FactsAre
<1> HIDE DEF k
<1>5. 1 \in Int /\ k \in Int /\ \A i \in 1..k : s[i] \in Facts
  BY <1>3, <1>4
<1>6. /\ SubSeq(s, 1, k) \in Seq(Facts)
      /\ Len(SubSeq(s, 1, k)) = IF 1 <= k THEN k - 1 + 1 ELSE 0
      /\ \A i \in 1..(k - 1 + 1) : SubSeq(s, 1, k)[i] = s[1 + i - 1]
  BY <1>5, SubSeqProperties
<1>7. /\ Len(SubSeq(s, 1, k)) = k /\ \A i \in 1..k : SubSeq(s, 1, k)[i] = s[i]
  BY <1>3, <1>4, <1>6
<1> QED
  BY <1>2, <1>3, <1>4, <1>6, <1>7 DEF s, k

\* What is not known of a series is later than the look.
LEMMA UnknownIsLater ==
    ASSUME IInv, NEW symbol \in Symbols, NEW field \in Fields, NEW t \in Nat, NEW id
    PROVE  /\ id \notin Known(symbol, field, t) =>
                  \A fact \in ToSet(series[symbol][field]) : fact.id = id => fact.observed > t
           /\ id \in Known(symbol, field, t) =>
                  \E fact \in ToSet(series[symbol][field]) : fact.id = id
<1> DEFINE s == series[symbol][field]
           k == BisectRight(s, t)
           past == History(symbol, field, t)
<1>1. /\ k \in 0..Len(s) /\ Len(s) \in Nat /\ past \in Seq(Facts) /\ Len(past) = k
      /\ \A i \in 1..k : past[i] = s[i]
      /\ \A i \in DOMAIN s : i <= k <=> s[i].observed <= t
  BY HistoryIs
<1>2. s \in Seq(Facts)
  BY DEF IInv, TypeOK
<1>3. Known(symbol, field, t) = {past[i].id : i \in DOMAIN past}
  BY DEF Known, Ids
<1> HIDE DEF s, k, past
<1>4. /\ DOMAIN s = 1..Len(s) /\ DOMAIN past = 1..k
      /\ \A i \in DOMAIN s : s[i] \in ToSet(s) /\ s[i].observed \in Nat
      /\ \A e \in ToSet(s) : \E i \in DOMAIN s : e = s[i]
  BY <1>1, <1>2, FactsAre, LenProperties DEF ToSet
<1>5. ASSUME id \notin Known(symbol, field, t), NEW fact \in ToSet(s), fact.id = id
      PROVE  fact.observed > t
  <2>1. PICK i \in DOMAIN s : fact = s[i]
    BY <1>4
  <2>2. ~(i <= k)
    <3>1. ASSUME i <= k PROVE FALSE
      <4>1. i \in DOMAIN past /\ past[i] = s[i]
        BY <1>1, <1>4, <3>1
      <4> QED
        BY <1>3, <1>5, <2>1, <4>1
    <3> QED
      BY <3>1
  <2> QED
    BY <1>1, <1>4, <2>1, <2>2
<1>6. ASSUME id \in Known(symbol, field, t) PROVE \E fact \in ToSet(s) : fact.id = id
  <2>1. PICK i \in DOMAIN past : id = past[i].id
    BY <1>3, <1>6
  <2>2. i \in DOMAIN s /\ past[i] = s[i]
    BY <1>1, <1>4
  <2> QED
    BY <1>4, <2>1, <2>2
<1> QED
  BY <1>5, <1>6 DEF s

LEMMA InitInv == Init => IInv
<1> SUFFICES ASSUME Init PROVE IInv
  OBVIOUS
<1>1. /\ <<>> \in Seq(Facts) /\ <<>> \in Seq(Lines) /\ <<>> \in Seq(Symbols)
      /\ <<>> \in Seq(PageNames) /\ <<>> \in Seq(Filings)
  OBVIOUS
<1>2. DownProcess \in Processes /\ DownProcess.pc = "down"
      /\ DownProcess.now = 0 /\ DownProcess.view = 0
  BY <1>1 DEF DownProcess, Processes
<1>3. NoSeries \in [Symbols -> [Fields -> Seq(Facts)]]
      /\ \A symbol \in Symbols, field \in Fields : NoSeries[symbol][field] = <<>>
  BY <1>1 DEF NoSeries
<1>4. clock \in Nat
  BY TimesAssumption DEF Init
<1>5. TypeOK
  BY <1>1, <1>2, <1>3, <1>4 DEF Init, TypeOK
<1>6. Rows = {} /\ RowFacts = {}
  BY EmptyHasNone DEF Init, Rows, RowFacts
<1>7. FactsAreGenuine /\ SeriesAreSorted /\ RepeatsAreCaused /\ RowsAreInMemory
  <2> USE <1>2, <1>3, <1>6, EmptyHasNone DEF Init
  <2>1. FactsAreGenuine
    BY DEF FactsAreGenuine
  <2>2. SeriesAreSorted
    BY DEF SeriesAreSorted, InOrder
  <2>3. RepeatsAreCaused
    BY DEF RepeatsAreCaused
  <2>4. RowsAreInMemory
    BY DEF RowsAreInMemory
  <2> QED
    BY <2>1, <2>2, <2>3, <2>4
<1>8. CollectionStands
  BY <1>2, <1>4 DEF Init, CollectionStands
<1> QED
  BY <1>5, <1>7, <1>8 DEF IInv

\* A step that leaves the world, the store and the queue as they are.
LEMMA KeepsTheFacts ==
    ASSUME IInv, UNCHANGED <<clock, listed, news, file, series, queue>>,
           proc' \in Processes, promised' \subseteq Filings, cycles' \in Nat, deaths' \in Nat,
           proc'.pc \notin {"down", "refused"} => proc.pc \notin {"down", "refused"}
    PROVE  /\ TypeOK' /\ FactsAreGenuine' /\ SeriesAreSorted'
           /\ RepeatsAreCaused' /\ RowsAreInMemory'
<1>1. TypeOK'
  BY DEF IInv, TypeOK
<1>2. Rows' = Rows /\ RowFacts' = RowFacts
  BY DEF Rows, RowFacts
<1>3. \A fact : Genuine(fact)' <=> Genuine(fact)
  BY DEF Genuine, ObservedAt
<1>4. FactsAreGenuine'
  BY <1>2, <1>3 DEF IInv, FactsAreGenuine
<1>5. SeriesAreSorted'
  BY DEF IInv, SeriesAreSorted
<1>6. RepeatsAreCaused'
  BY <1>2 DEF IInv, RepeatsAreCaused
<1>7. RowsAreInMemory'
  BY <1>2 DEF IInv, RowsAreInMemory
<1> QED
  BY <1>1, <1>4, <1>5, <1>6, <1>7

-----------------------------------------------------------------------------
(* Steps of the process that append nothing *)

LEMMA ProcIs ==
    ASSUME IInv
    PROVE  /\ proc \in Processes /\ proc.now \in Nat /\ proc.view \in Nat
           /\ proc.todo \in Seq(Symbols) /\ proc.pages \in Seq(PageNames)
           /\ proc.found \in Seq(Filings) /\ proc.ciks \in SUBSET Symbols
           /\ proc.refreshed \in Nat \cup {Null} /\ proc.collected \in Nat \cup {Null}
           /\ clock \in Nat /\ proc.now <= clock /\ proc.view <= clock
BY DEF IInv, TypeOK, Processes, CollectionStands

LEMMA DownIs ==
    /\ DownProcess \in Processes /\ DownProcess.pc = "down"
    /\ DownProcess.now = 0 /\ DownProcess.view = 0
<1>1. /\ <<>> \in Seq(Symbols) /\ <<>> \in Seq(PageNames) /\ <<>> \in Seq(Filings)
  OBVIOUS
<1> QED
  BY <1>1 DEF DownProcess, Processes

LEMMA PagesAre ==
    /\ Pages \in Seq(PageNames) /\ Len(Pages) = 2 /\ Head(Pages) = "recent"
    /\ Tail(Pages) = <<"older">> /\ <<"older">> # Pages
    /\ <<"older">> \in Seq(PageNames) /\ Len(<<"older">>) = 1 /\ Head(<<"older">>) = "older"
BY DEF Pages, PageNames

LEMMA SameHoldings ==
    ASSUME UNCHANGED <<listed, series, queue>>
    PROVE  /\ \A symbol : Held(symbol)' = Held(symbol)
           /\ \A f : Queued(f)' <=> Queued(f)
BY DEF Held, Ids, Queued

LEMMA BeginStep ==
    ASSUME IInv, BeginCycle
    PROVE  IInv'
<1>1. /\ proc' = [proc EXCEPT !.pc = "market", !.now = clock] /\ cycles' = cycles + 1
      /\ UNCHANGED <<clock, listed, news, file, series, queue, deaths, promised>>
      /\ proc.pc = "idle"
  BY DEF BeginCycle, environment, store, Ready
<1>2. proc' \in Processes /\ proc'.pc = "market" /\ proc'.now = clock /\ proc'.view = proc.view
  BY <1>1, ProcIs DEF Processes
<1>3. promised = {}
  BY <1>1 DEF IInv, CollectionStands
<1>4. promised' \subseteq Filings /\ cycles' \in Nat /\ deaths' \in Nat
  BY <1>1 DEF IInv, TypeOK
<1>5. CollectionStands'
  BY <1>1, <1>2, <1>3, ProcIs DEF CollectionStands
<1> QED
  BY <1>1, <1>2, <1>4, <1>5, KeepsTheFacts DEF IInv

LEMMA FreshStep ==
    ASSUME IInv, EnsureFresh
    PROVE  IInv'
<1>1. /\ proc' = [proc EXCEPT
             !.pc = "filings", !.view = clock, !.todo = SetToSeq(Symbols),
             !.pages = Pages, !.found = <<>>,
             !.ciks = IF Stale THEN Registered ELSE @,
             !.refreshed = IF Stale THEN proc.now ELSE @]
      /\ UNCHANGED <<clock, listed, news, file, series, queue, cycles, deaths, promised>>
      /\ proc.pc = "tickers" /\ queue = <<>>
  BY DEF EnsureFresh, environment, store, counters, Ready
<1>2. SetToSeq(Symbols) \in Seq(Symbols) /\ <<>> \in Seq(Filings) /\ Registered \in SUBSET Symbols
  BY SetAsSequence, SubjectsAssumption
<1>3. /\ proc' \in Processes /\ proc'.pc = "filings" /\ proc'.view = clock
      /\ proc'.now = proc.now /\ proc'.pages = Pages /\ proc'.found = <<>>
  BY <1>1, <1>2, ProcIs, PagesAre DEF Processes
<1>4. promised = {}
  BY <1>1 DEF IInv, CollectionStands
<1>5. promised' \subseteq Filings /\ cycles' \in Nat /\ deaths' \in Nat
  BY <1>1 DEF IInv, TypeOK
<1>6. \A symbol \in Symbols : \A fact \in ToSet(series[symbol]["filing"]) : fact.seen <= clock
  BY DEF IInv, FactsAreGenuine, Fields
<1>7. CollectionStands'
  BY <1>1, <1>3, <1>4, <1>6, ProcIs, EmptyHasNone DEF CollectionStands
<1> QED
  BY <1>1, <1>3, <1>5, <1>7, KeepsTheFacts DEF IInv

LEMMA SkipStep ==
    ASSUME IInv, SkipSymbol
    PROVE  IInv'
<1>1. /\ proc' = [proc EXCEPT !.todo = Tail(@)]
      /\ UNCHANGED <<clock, listed, news, file, series, queue, cycles, deaths, promised>>
      /\ proc.pc = "filings" /\ queue = <<>> /\ proc.todo # <<>>
      /\ Head(proc.todo) \notin proc.ciks
  BY DEF SkipSymbol, environment, store, counters, Ready
<1>2. Tail(proc.todo) \in Seq(Symbols)
  BY <1>1, ProcIs, HeadTailProperties
<1>3. /\ proc' \in Processes /\ proc'.pc = "filings" /\ proc'.view = proc.view
      /\ proc'.now = proc.now /\ proc'.pages = proc.pages /\ proc'.found = proc.found
  BY <1>1, <1>2, ProcIs DEF Processes
<1>4. proc.pages = Pages /\ proc.found = <<>>
  BY <1>1 DEF IInv, CollectionStands
<1>5. promised' \subseteq Filings /\ cycles' \in Nat /\ deaths' \in Nat
  BY <1>1 DEF IInv, TypeOK
<1>6. \A f : ~Expected(f)
  BY <1>4 DEF Expected
<1>7. CollectionStands'
  BY <1>1, <1>3, <1>4, <1>6, ProcIs, EmptyHasNone, SameHoldings DEF IInv, CollectionStands
<1> QED
  BY <1>1, <1>3, <1>5, <1>7, KeepsTheFacts DEF IInv

LEMMA CollectedStep ==
    ASSUME IInv, FilingsCollected
    PROVE  IInv'
<1>1. /\ proc' = [proc EXCEPT !.pc = "news"]
      /\ UNCHANGED <<clock, listed, news, file, series, queue, cycles, deaths, promised>>
      /\ proc.pc = "filings" /\ queue = <<>> /\ proc.todo = <<>>
  BY DEF FilingsCollected, environment, store, counters, Ready
<1>2. /\ proc' \in Processes /\ proc'.pc = "news" /\ proc'.view = proc.view
      /\ proc'.now = proc.now
  BY <1>1, ProcIs DEF Processes
<1>3. \A f : ~Expected(f)
  BY <1>1 DEF Expected, IInv, CollectionStands
<1>4. promised' \subseteq Filings /\ cycles' \in Nat /\ deaths' \in Nat
  BY <1>1 DEF IInv, TypeOK
<1>5. CollectionStands'
  BY <1>1, <1>2, <1>3, ProcIs, SameHoldings DEF IInv, CollectionStands
<1> QED
  BY <1>1, <1>2, <1>4, <1>5, KeepsTheFacts DEF IInv

\* A process ends: of the lines, only those of a death can be new.
LEMMA EndsStep ==
    ASSUME IInv, Ends, UNCHANGED <<clock, listed, news>>, queue' = <<>>,
           file' \in Seq(Lines), cycles' \in Nat, deaths' \in Nat,
           \A fact \in RowFacts' : Genuine(fact) /\ fact.seen <= clock,
           \A i, j \in Rows' : i # j => Caused(file'[i].fact, file'[j].fact)
    PROVE  IInv'
<1>1. proc' = DownProcess /\ series' = NoSeries /\ promised' = {}
  BY DEF Ends
<1>2. NoSeries \in [Symbols -> [Fields -> Seq(Facts)]]
      /\ \A symbol \in Symbols, field \in Fields : NoSeries[symbol][field] = <<>>
  BY DEF NoSeries
<1>3. TypeOK'
  BY <1>1, <1>2, DownIs DEF IInv, TypeOK
<1>4. \A fact : Genuine(fact)' <=> Genuine(fact)
  BY DEF Genuine, ObservedAt
<1>5. FactsAreGenuine'
  BY <1>1, <1>2, <1>4, EmptyHasNone DEF FactsAreGenuine
<1>6. SeriesAreSorted'
  BY <1>1, <1>2, EmptyHasNone DEF SeriesAreSorted, InOrder
<1>7. RepeatsAreCaused'
  BY <1>1, <1>2, EmptyHasNone DEF RepeatsAreCaused
<1>8. RowsAreInMemory'
  BY <1>1, DownIs DEF RowsAreInMemory
<1>9. CollectionStands'
  BY <1>1, DownIs, ProcIs DEF CollectionStands
<1> QED
  BY <1>3, <1>5, <1>6, <1>7, <1>8, <1>9 DEF IInv

LEMMA EndsOnly ==
    ASSUME IInv, Ends, UNCHANGED <<clock, listed, news, file, queue, cycles, deaths>>, queue = <<>>
    PROVE  IInv'
<1>1. Rows' = Rows /\ RowFacts' = RowFacts
  BY DEF Rows, RowFacts
<1>2. /\ \A fact \in RowFacts' : Genuine(fact) /\ fact.seen <= clock
      /\ \A i, j \in Rows' : i # j => Caused(file'[i].fact, file'[j].fact)
  BY <1>1 DEF IInv, FactsAreGenuine, RepeatsAreCaused
<1>3. file' \in Seq(Lines) /\ cycles' \in Nat /\ deaths' \in Nat /\ queue' = <<>>
  BY DEF IInv, TypeOK
<1> QED
  BY <1>2, <1>3, EndsStep

LEMMA EndCycleStep ==
    ASSUME IInv, EndCycle
    PROVE  IInv'
<1>1. /\ proc.pc = "screen" /\ queue = <<>>
      /\ UNCHANGED <<clock, listed, news, file, queue, cycles, deaths>>
  BY DEF EndCycle, Ready, environment, counters
<1>2. CASE proc.who = "loop"
  <2>1. /\ proc' = [DownProcess EXCEPT !.pc = "idle", !.ciks = proc.ciks,
                                     !.refreshed = proc.refreshed, !.collected = proc.now]
        /\ promised' = {} /\ series' = series
    BY <1>2 DEF EndCycle
  <2>2. proc' \in Processes /\ proc'.pc = "idle" /\ proc'.now = 0 /\ proc'.view = 0
    BY <2>1, ProcIs, DownIs DEF Processes, DownProcess
  <2>3. cycles' \in Nat /\ deaths' \in Nat
    BY <1>1 DEF IInv, TypeOK
  <2>4. CollectionStands'
    BY <1>1, <2>1, <2>2, ProcIs DEF CollectionStands
  <2> QED
    BY <1>1, <2>1, <2>2, <2>3, <2>4, KeepsTheFacts DEF IInv
<1>3. CASE proc.who # "loop"
  BY <1>1, <1>3, EndsOnly DEF EndCycle
<1> QED
  BY <1>2, <1>3

LEMMA StopStep ==
    ASSUME IInv, Stop
    PROVE  IInv'
<1>1. queue = <<>> /\ Ends /\ UNCHANGED <<clock, listed, news, file, queue, cycles, deaths>>
  BY DEF Stop, Ready, environment, counters
<1> QED
  BY <1>1, EndsOnly

LEMMA FailsStep ==
    ASSUME IInv, RequestFails
    PROVE  IInv'
<1>1. /\ proc.pc \in {"market", "news", "tickers", "filings"} /\ queue = <<>>
      /\ UNCHANGED <<clock, listed, news, file, queue, cycles, deaths>>
  BY DEF RequestFails, environment, counters
<1>2. CASE proc.who = "loop"
  BY <1>1, <1>2, EndsOnly DEF RequestFails
<1>3. CASE proc.who # "loop"
  <2>1. /\ proc' = [proc EXCEPT !.pc = CASE @ = "market" -> "tickers"
                                         [] @ \in {"tickers", "filings"} -> "news"
                                         [] OTHER -> "screen"]
        /\ promised' = IF proc.pc \in {"tickers", "filings"} THEN {} ELSE promised
        /\ series' = series
    BY <1>3 DEF RequestFails
  <2>2. /\ proc' \in Processes /\ proc'.now = proc.now /\ proc'.view = proc.view
        /\ proc'.pc = CASE proc.pc = "market" -> "tickers"
                        [] proc.pc \in {"tickers", "filings"} -> "news"
                        [] OTHER -> "screen"
    BY <2>1, ProcIs DEF Processes
  <2>3. proc'.pc \in {"tickers", "news", "screen"} /\ (proc.pc = "market" => proc'.pc = "tickers")
        /\ (proc.pc = "news" => proc'.pc = "screen")
    BY <1>1, <2>2
  <2>4. cycles' \in Nat /\ deaths' \in Nat /\ promised' \subseteq Filings
    BY <1>1, <2>1 DEF IInv, TypeOK
  <2>5. \A f : proc.pc = "news" => ~Expected(f)
    BY DEF Expected
  <2>6. CollectionStands'
    BY <1>1, <2>1, <2>2, <2>3, <2>5, ProcIs, SameHoldings DEF IInv, CollectionStands
  <2> QED
    BY <1>1, <2>1, <2>2, <2>3, <2>4, <2>6, KeepsTheFacts DEF IInv
<1> QED
  BY <1>2, <1>3

LEMMA StartStep ==
    ASSUME IInv, NEW who \in {"loop", "once"}, Start(who)
    PROVE  IInv'
<1>1. /\ proc.pc = "down" /\ promised' = {}
      /\ proc' = [DownProcess EXCEPT !.pc = IF Loads(file) THEN "idle" ELSE "refused",
                                     !.who = who]
      /\ series' = IF Loads(file) THEN Loaded(file) ELSE NoSeries
      /\ UNCHANGED <<clock, listed, news, file, queue, cycles, deaths>>
  BY DEF Start, environment, counters
<1>2. queue = <<>>
  BY <1>1 DEF IInv, CollectionStands
<1>3. /\ proc' \in Processes /\ proc'.pc = IF Loads(file) THEN "idle" ELSE "refused"
      /\ proc'.now = 0 /\ proc'.view = 0
  BY <1>1, DownIs DEF Processes, DownProcess
<1>4. file \in Seq(Lines) /\ DOMAIN file = 1..Len(file) /\ Len(file) \in Nat
      /\ \A i \in DOMAIN file : file[i] \in Lines
  BY ElementsOfSeq DEF IInv, TypeOK
<1>5. Rows' = Rows /\ RowFacts' = RowFacts
  BY <1>1 DEF Rows, RowFacts
<1>6. \A fact \in RowFacts : fact \in Facts /\ fact.symbol \in Symbols /\ fact.field \in Fields
  <2>1. \A i \in Rows : file[i].fact \in Facts
    BY <1>4, ReadableLine DEF Rows
  <2> QED
    BY <2>1 DEF RowFacts, Facts
<1>7. ASSUME NEW symbol \in Symbols, NEW field \in Fields
      PROVE  /\ series'[symbol][field] \in Seq(Facts) /\ InOrder(series'[symbol][field])
             /\ \A fact \in ToSet(series'[symbol][field]) :
                    fact \in RowFacts /\ fact.symbol = symbol /\ fact.field = field
             /\ \A i, j \in DOMAIN series'[symbol][field] :
                    i # j => Caused(series'[symbol][field][i], series'[symbol][field][j])
             /\ Loads(file) => \A fact \in RowFacts :
                    fact.symbol = symbol /\ fact.field = field =>
                        fact \in ToSet(series'[symbol][field])
  <2>1. CASE Loads(file)
    <3> DEFINE s == Loaded(file)[symbol][field]
    <3>1. series'[symbol][field] = s
      BY <1>1, <2>1
    <3>2. \A i, j \in DOMAIN file : i # j /\ Parses(file[i]) /\ Parses(file[j]) =>
                                        Caused(file[i].fact, file[j].fact)
      BY DEF IInv, RepeatsAreCaused, Rows
    <3>3. /\ s \in Seq(Facts) /\ InOrder(s)
          /\ ToSet(s) = {file[i].fact : i \in {n \in DOMAIN file : RowOf(file[n], symbol, field)}}
      BY <1>4, LoadedIs
    <3>4. \A i, j \in DOMAIN s : i # j => Caused(s[i], s[j])
      BY <1>4, <3>2, LoadedIs
    <3> HIDE DEF s
    <3>5. \A fact : fact \in ToSet(s) <=>
              fact \in RowFacts /\ fact.symbol = symbol /\ fact.field = field
      BY <3>3 DEF RowOf, Rows, RowFacts
    <3> QED
      BY <3>1, <3>3, <3>4, <3>5
  <2>2. CASE ~Loads(file)
    <3>1. series'[symbol][field] = <<>>
      BY <1>1, <2>2 DEF NoSeries
    <3>2. <<>> \in Seq(Facts)
      OBVIOUS
    <3> QED
      BY <2>2, <3>1, <3>2, EmptyHasNone DEF InOrder
  <2> QED
    BY <2>1, <2>2
<1>8. series' \in [Symbols -> [Fields -> Seq(Facts)]]
  <2>1. series' = [symbol \in Symbols |-> [field \in Fields |-> series'[symbol][field]]]
    BY <1>1 DEF Loaded, NoSeries
  <2> QED
    BY <1>7, <2>1
<1>9. TypeOK'
  BY <1>1, <1>3, <1>8 DEF IInv, TypeOK
<1>10. \A fact : Genuine(fact)' <=> Genuine(fact)
  BY <1>1 DEF Genuine, ObservedAt
<1>11. FactsAreGenuine'
  BY <1>1, <1>5, <1>7, <1>10 DEF IInv, FactsAreGenuine
<1>12. SeriesAreSorted'
  BY <1>7 DEF SeriesAreSorted
<1>13. RepeatsAreCaused'
  BY <1>1, <1>2, <1>5, <1>7, EmptyHasNone DEF IInv, RepeatsAreCaused
<1>14. RowsAreInMemory'
  BY <1>3, <1>5, <1>6, <1>7 DEF RowsAreInMemory
<1>15. CollectionStands'
  BY <1>1, <1>2, <1>3, ProcIs DEF CollectionStands
<1> QED
  BY <1>9, <1>11, <1>12, <1>13, <1>14, <1>15 DEF IInv

-----------------------------------------------------------------------------
(* Steps of the world *)

\* Time passes, and what a provider lists it goes on listing.
LEMMA WorldStep ==
    ASSUME IInv, UNCHANGED <<file, series, proc, queue, cycles, deaths, promised>>,
           clock' \in Nat, clock <= clock',
           listed' \in [Filings -> Listings \cup {Null}],
           news' \in [Items -> Nat \cup {Null}],
           \A f \in Filings : listed[f] # Null =>
               /\ listed'[f] # Null /\ listed'[f].at = listed[f].at
               /\ listed[f].page = "older" => listed'[f].page = "older",
           \A i \in Items : news[i] # Null => news'[i] = news[i]
    PROVE  IInv'
<1>1. TypeOK'
  BY DEF IInv, TypeOK
<1>2. Rows' = Rows /\ RowFacts' = RowFacts
  BY DEF Rows, RowFacts
<1>3. \A fact : Genuine(fact) => Genuine(fact)'
  BY DEF Genuine, ObservedAt
<1>4. (\A symbol \in Symbols, field \in Fields : ToSet(series[symbol][field]) \subseteq Facts)
      /\ ToSet(queue) \subseteq Facts /\ RowFacts \subseteq Facts
  <2>1. (\A symbol \in Symbols, field \in Fields : series[symbol][field] \in Seq(Facts))
        /\ queue \in Seq(Facts) /\ file \in Seq(Lines)
    BY DEF IInv, TypeOK
  <2>2. (\A symbol \in Symbols, field \in Fields : ToSet(series[symbol][field]) \subseteq Facts)
        /\ ToSet(queue) \subseteq Facts
    BY <2>1, ElementsOfSeq
  <2>3. \A i \in DOMAIN file : file[i] \in Lines
    BY <2>1, ElementsOfSeq
  <2> QED
    BY <2>2, <2>3, ReadableLine DEF RowFacts, Rows
<1>5. \A fact \in Facts : fact.seen <= clock => fact.seen <= clock'
  <2>1. clock \in Nat /\ \A fact \in Facts : fact.seen \in Nat
    BY DEF IInv, TypeOK, Facts
  <2> QED
    BY <2>1
<1>6. FactsAreGenuine'
  <2>1. FactsAreGenuine
    BY DEF IInv
  <2>2. ASSUME NEW symbol \in Symbols, NEW field \in Fields,
               NEW fact \in ToSet(series[symbol][field])
        PROVE  fact.symbol = symbol /\ fact.field = field /\ Genuine(fact)' /\ fact.seen <= clock'
    BY <1>3, <1>4, <1>5, <2>1 DEF FactsAreGenuine
  <2>3. ASSUME NEW fact \in RowFacts \cup ToSet(queue)
        PROVE  Genuine(fact)' /\ fact.seen <= clock'
    BY <1>3, <1>4, <1>5, <2>1 DEF FactsAreGenuine
  <2> QED
    BY <1>2, <2>2, <2>3 DEF FactsAreGenuine
<1>7. SeriesAreSorted' /\ RepeatsAreCaused' /\ RowsAreInMemory'
  BY <1>2 DEF IInv, SeriesAreSorted, RepeatsAreCaused, RowsAreInMemory
<1>8. /\ \A symbol : Held(symbol)' = Held(symbol)
      /\ \A f : Queued(f)' <=> Queued(f)
      /\ \A f \in Filings : listed[f] # Null /\ Expected(f) => Expected(f)'
  BY DEF Held, Ids, Queued, Expected
<1>9. promised \subseteq Filings /\ \A f \in ToSet(proc.found) : f \in Filings
  BY ProcIs, ElementsOfSeq DEF IInv, TypeOK
<1>10. clock \in Nat /\ proc.now \in Nat /\ proc.view \in Nat /\ proc.now <= clock'
       /\ proc.view <= clock'
  BY ProcIs
<1>11. CollectionStands'
  <2>1. CollectionStands
    BY DEF IInv
  <2>2. \A f \in promised : /\ listed'[f] # Null
                            /\ f \in Held(SymbolOf[f])' \/ Queued(f)' \/ Expected(f)'
    BY <1>8, <1>9, <2>1 DEF CollectionStands
  <2>3. proc.pc = "filings" =>
            \A f \in ToSet(proc.found) : listed'[f] # Null /\ SymbolOf[f] = Head(proc.todo)
    BY <1>9, <2>1 DEF CollectionStands
  <2> QED
    BY <1>10, <2>1, <2>2, <2>3 DEF CollectionStands
<1> QED
  BY <1>1, <1>6, <1>7, <1>11 DEF IInv

LEMMA WorldIs ==
    ASSUME IInv
    PROVE  /\ clock \in Nat /\ listed \in [Filings -> Listings \cup {Null}]
           /\ news \in [Items -> Nat \cup {Null}]
           /\ \A f \in Filings : listed[f] # Null =>
                  listed[f] \in Listings /\ listed[f].at \in Nat /\ listed[f].page \in PageNames
           /\ \A i \in Items : news[i] # Null => news[i] \in Nat
BY DEF IInv, TypeOK, Listings

LEMMA WorldSteps ==
    ASSUME IInv, \/ Tick
                 \/ \E f \in Filings : SecAccepts(f) \/ SecMoves(f)
                 \/ \E i \in Items : Publish(i)
    PROVE  IInv'
<1> USE WorldIs
<1>1. CASE Tick
  <2>1. /\ clock' = clock + 1
        /\ UNCHANGED <<listed, news, file, series, proc, queue, cycles, deaths, promised>>
    BY <1>1 DEF Tick, store, counters
  <2>2. clock' \in Nat /\ clock <= clock'
    BY <2>1
  <2> QED
    BY <2>1, <2>2, WorldStep
<1>2. ASSUME NEW f \in Filings, SecAccepts(f) PROVE IInv'
  <2>1. /\ listed[f] = Null /\ listed' = [listed EXCEPT ![f] = [at |-> clock, page |-> "recent"]]
        /\ UNCHANGED <<clock, news, file, series, proc, queue, cycles, deaths, promised>>
    BY <1>2 DEF SecAccepts, store, counters
  <2>2. [at |-> clock, page |-> "recent"] \in Listings
    BY DEF Listings, PageNames
  <2>3. listed' \in [Filings -> Listings \cup {Null}] /\ clock <= clock'
    BY <2>1, <2>2
  <2>4. \A g \in Filings : listed[g] # Null => listed'[g] = listed[g]
    BY <2>1
  <2> QED
    BY <2>1, <2>3, <2>4, WorldStep
<1>3. ASSUME NEW f \in Filings, SecMoves(f) PROVE IInv'
  <2>1. /\ listed[f] # Null /\ listed' = [listed EXCEPT ![f].page = "older"]
        /\ UNCHANGED <<clock, news, file, series, proc, queue, cycles, deaths, promised>>
    BY <1>3 DEF SecMoves, store, counters
  <2>2. listed'[f] = [at |-> listed[f].at, page |-> "older"]
    BY <2>1 DEF Listings
  <2>3. listed'[f] \in Listings /\ listed'[f] # Null
        /\ listed'[f].at = listed[f].at /\ listed'[f].page = "older"
    BY <2>1, <2>2, NullAssumption DEF Listings, PageNames
  <2>4. listed' = [listed EXCEPT ![f] = listed'[f]]
    BY <2>1
  <2>5. listed' \in [Filings -> Listings \cup {Null}] /\ clock <= clock'
    BY <2>1, <2>3, <2>4
  <2>6. \A g \in Filings : g # f => listed'[g] = listed[g]
    BY <2>1
  <2> QED
    BY <2>1, <2>3, <2>5, <2>6, WorldStep
<1>4. ASSUME NEW i \in Items, Publish(i) PROVE IInv'
  <2>1. /\ news[i] = Null /\ news' = [news EXCEPT ![i] = IF i \in Ahead THEN clock + 1 ELSE clock]
        /\ UNCHANGED <<clock, listed, file, series, proc, queue, cycles, deaths, promised>>
    BY <1>4 DEF Publish, store, counters
  <2>2. news' \in [Items -> Nat \cup {Null}] /\ clock <= clock'
    BY <2>1
  <2>3. \A j \in Items : news[j] # Null => news'[j] = news[j]
    BY <2>1
  <2> QED
    BY <2>1, <2>2, <2>3, WorldStep
<1> QED
  BY <1>1, <1>2, <1>3, <1>4

-----------------------------------------------------------------------------
(* Steps of the process that fill the queue *)

LEMMA DivIs ==
    ASSUME NEW n \in Nat, NEW d \in Nat, d > 0
    PROVE  n \div d \in Nat /\ (n \div d) * d <= n
OBVIOUS

LEMMA TimesMinusOne ==
    ASSUME NEW n \in Nat, NEW d \in Nat
    PROVE  (n - 1) * d = n * d - d /\ n * d \in Nat /\ (n - 1) * d \in Int
OBVIOUS

LEMMA FactIs ==
    ASSUME NEW symbol \in Symbols, NEW field \in Fields, NEW id \in Filings \cup Items \cup Int,
           NEW observed \in Nat, NEW effective \in Int, NEW seen \in Nat
    PROVE  LET fact == Fact(symbol, field, id, observed, effective, seen) IN
           /\ fact \in Facts /\ fact.symbol = symbol /\ fact.field = field /\ fact.id = id
           /\ fact.observed = observed /\ fact.effective = effective /\ fact.seen = seen
BY DEF Fact, Facts

\* A batch of facts comes to be appended.
LEMMA QueueStep ==
    ASSUME IInv, UNCHANGED <<clock, listed, news, file, series>>,
           proc' \in Processes, promised' \subseteq Filings, cycles' \in Nat, deaths' \in Nat,
           proc'.pc \notin {"down", "refused"} => proc.pc \notin {"down", "refused"},
           queue' \in Seq(Facts),
           \A fact \in ToSet(queue') : Genuine(fact) /\ fact.seen <= clock,
           \A i, j \in DOMAIN queue' : i # j => Caused(queue'[i], queue'[j]),
           \A fact \in ToSet(queue'), symbol \in Symbols, field \in Fields :
               \A other \in ToSet(series[symbol][field]) :
                   Caused(fact, other) /\ Caused(other, fact)
    PROVE  /\ TypeOK' /\ FactsAreGenuine' /\ SeriesAreSorted'
           /\ RepeatsAreCaused' /\ RowsAreInMemory'
<1>1. TypeOK'
  BY DEF IInv, TypeOK
<1>2. Rows' = Rows /\ RowFacts' = RowFacts
  BY DEF Rows, RowFacts
<1>3. \A fact : Genuine(fact)' <=> Genuine(fact)
  BY DEF Genuine, ObservedAt
<1>4. FactsAreGenuine'
  BY <1>2, <1>3 DEF IInv, FactsAreGenuine
<1>5. SeriesAreSorted'
  BY DEF IInv, SeriesAreSorted
<1>6. RepeatsAreCaused'
  BY <1>2 DEF IInv, RepeatsAreCaused
<1>7. RowsAreInMemory'
  BY <1>2 DEF IInv, RowsAreInMemory
<1> QED
  BY <1>1, <1>4, <1>5, <1>6, <1>7

LEMMA SnapshotIs ==
    ASSUME IInv, NEW symbol \in Symbols
    PROVE  LET now == proc.now
               session == MostRecentCompletedSession(now)
               snapshot ==
                   IF InSession(now)
                   THEN Fact(symbol, "market_snapshot", Day(now), now, now, now)
                   ELSE Fact(symbol, "market_snapshot", session, now, CloseOf(session), now)
           IN /\ snapshot \in Facts /\ Genuine(snapshot) /\ snapshot.seen <= clock
              /\ snapshot.field = "market_snapshot"
<1> DEFINE now == proc.now
           session == MostRecentCompletedSession(now)
<1>1. /\ now \in Nat /\ now <= clock /\ DayLength \in Nat /\ DayLength > 0
      /\ SessionClose \in Nat /\ SessionClose < DayLength
  BY ProcIs, TimesAssumption
<1> HIDE DEF now
<1>2. Day(now) \in Nat /\ Day(now) * DayLength <= now
  BY <1>1, DivIs DEF Day
<1>3. /\ (Day(now) - 1) * DayLength = Day(now) * DayLength - DayLength
      /\ Day(now) * DayLength \in Nat
  BY <1>1, <1>2, TimesMinusOne
<1>4. CloseOf(Day(now)) \in Int /\ CloseOf(Day(now) - 1) \in Int /\ CloseOf(Day(now) - 1) <= now
  BY <1>1, <1>2, <1>3 DEF CloseOf
<1>5. session \in Int /\ CloseOf(session) \in Int /\ CloseOf(session) <= now
  <2>1. CASE now >= CloseOf(Day(now))
    BY <1>1, <1>2, <1>4, <2>1 DEF MostRecentCompletedSession
  <2>2. CASE ~(now >= CloseOf(Day(now)))
    BY <1>1, <1>2, <1>4, <2>2 DEF MostRecentCompletedSession
  <2> QED
    BY <2>1, <2>2
<1> HIDE DEF session
<1>6. "market_snapshot" \in Fields
  BY DEF Fields
<1>7. CASE InSession(now)
  <2> DEFINE fact == Fact(symbol, "market_snapshot", Day(now), now, now, now)
  <2>1. /\ fact \in Facts /\ fact.field = "market_snapshot" /\ fact.id = Day(now)
        /\ fact.observed = now /\ fact.effective = now /\ fact.seen = now
    BY <1>1, <1>2, <1>6, FactIs
  <2> HIDE DEF fact
  <2>2. Genuine(fact)
    BY <1>1, <1>2, <1>7, <2>1 DEF Genuine
  <2> QED
    BY <1>1, <1>7, <2>1, <2>2 DEF fact, now
<1>8. CASE ~InSession(now)
  <2> DEFINE fact == Fact(symbol, "market_snapshot", session, now, CloseOf(session), now)
  <2>1. /\ fact \in Facts /\ fact.field = "market_snapshot" /\ fact.id = session
        /\ fact.observed = now /\ fact.effective = CloseOf(session) /\ fact.seen = now
    BY <1>1, <1>5, <1>6, FactIs
  <2> HIDE DEF fact
  <2>2. Genuine(fact)
    BY <1>1, <1>5, <1>8, <2>1 DEF Genuine
  <2> QED
    BY <1>1, <1>8, <2>1, <2>2 DEF fact, now, session
<1> QED
  BY <1>7, <1>8

LEMMA MarketStep ==
    ASSUME IInv, CollectMarketData
    PROVE  IInv'
<1> DEFINE now == proc.now
           session == MostRecentCompletedSession(now)
           Snapshot(symbol) ==
               IF InSession(now)
               THEN Fact(symbol, "market_snapshot", Day(now), now, now, now)
               ELSE Fact(symbol, "market_snapshot", session, now, CloseOf(session), now)
           all == {Snapshot(symbol) : symbol \in Seasoned}
<1>1. /\ proc.pc = "market" /\ queue = <<>> /\ proc' = [proc EXCEPT !.pc = "tickers"]
      /\ queue' = SetToSeq(all)
      /\ UNCHANGED <<clock, listed, news, file, series, cycles, deaths, promised>>
  BY DEF CollectMarketData, Ready, environment, store, counters
<1>2. /\ proc' \in Processes /\ proc'.pc = "tickers" /\ proc'.now = proc.now
      /\ proc'.view = proc.view
  BY <1>1, ProcIs DEF Processes
<1>3. \A symbol \in Seasoned :
          /\ Snapshot(symbol) \in Facts /\ Genuine(Snapshot(symbol))
          /\ Snapshot(symbol).seen <= clock /\ Snapshot(symbol).field = "market_snapshot"
  BY SnapshotIs, SubjectsAssumption
<1> HIDE DEF now, session, Snapshot
<1>4. IsFiniteSet(all)
  <2>1. IsFiniteSet(Seasoned)
    BY SubjectsAssumption, FS_Subset
  <2> DEFINE f == [symbol \in Seasoned |-> Snapshot(symbol)]
  <2>2. f \in Surjection(Seasoned, all)
    BY DEF Surjection
  <2> HIDE DEF f, all
  <2> QED
    BY <2>1, <2>2, FS_Surjection
<1>5. all \subseteq Facts
  BY <1>3
<1> HIDE DEF all
<1>6. queue' \in Seq(all) /\ ToSet(queue') = all
  BY <1>1, <1>4, SetAsSequence
<1>7. queue' \in Seq(Facts) /\ \A i \in DOMAIN queue' : queue'[i] \in all
  <2>1. /\ DOMAIN queue' = 1..Len(queue') /\ Len(queue') \in Nat
        /\ \A i \in DOMAIN queue' : queue'[i] \in all
    BY <1>6, ElementsOfSeq
  <2> QED
    BY <1>5, <1>6, <2>1
<1>8. \A fact \in all : /\ Genuine(fact) /\ fact.seen <= clock
                        /\ fact.field = "market_snapshot"
  BY <1>3 DEF all
<1>9. \A fact \in all : \A other : Caused(fact, other) /\ Caused(other, fact)
  BY <1>8 DEF Caused
<1>10. promised = {}
  BY <1>1 DEF IInv, CollectionStands
<1>11. promised' \subseteq Filings /\ cycles' \in Nat /\ deaths' \in Nat
  BY <1>1 DEF IInv, TypeOK
<1>12. CollectionStands'
  BY <1>1, <1>2, <1>10, ProcIs DEF CollectionStands
<1>13. /\ TypeOK' /\ FactsAreGenuine' /\ SeriesAreSorted'
       /\ RepeatsAreCaused' /\ RowsAreInMemory'
  <2>1. /\ \A fact \in ToSet(queue') : Genuine(fact) /\ fact.seen <= clock
        /\ \A i, j \in DOMAIN queue' : i # j => Caused(queue'[i], queue'[j])
        /\ \A fact \in ToSet(queue'), symbol \in Symbols, field \in Fields :
               \A other \in ToSet(series[symbol][field]) :
                   Caused(fact, other) /\ Caused(other, fact)
    BY <1>6, <1>7, <1>8, <1>9
  <2> QED
    BY <1>1, <1>2, <1>7, <1>11, <2>1, QueueStep
<1> QED
  BY <1>12, <1>13 DEF IInv

LEMMA FilingFactIs ==
    ASSUME IInv, NEW f \in Filings, listed[f] # Null
    PROVE  /\ FilingFact(f) \in Facts /\ FilingFact(f).symbol = SymbolOf[f]
           /\ FilingFact(f).field = "filing" /\ FilingFact(f).id = f
           /\ FilingFact(f).seen = proc.view /\ Genuine(FilingFact(f))
<1>1. /\ listed[f].at \in Nat /\ proc.view \in Nat /\ SymbolOf[f] \in Symbols
      /\ DayLength \in Nat /\ DayLength > 0
  BY WorldIs, ProcIs, SubjectsAssumption, TimesAssumption
<1>2. Day(listed[f].at) \in Nat
  BY <1>1, DivIs DEF Day
<1>3. EndOfDay(listed[f].at) \in Nat
  <2>1. Day(listed[f].at) * DayLength \in Nat
    BY <1>1, <1>2, TimesMinusOne
  <2> QED
    BY <1>1, <2>1 DEF EndOfDay
<1>4. ObservedAt(f) \in Nat /\ "filing" \in Fields
  BY <1>1, <1>3 DEF ObservedAt, Fields
<1> DEFINE fact == Fact(SymbolOf[f], "filing", f, ObservedAt(f), Day(listed[f].at), proc.view)
<1>5. /\ fact \in Facts /\ fact.symbol = SymbolOf[f] /\ fact.field = "filing" /\ fact.id = f
      /\ fact.observed = ObservedAt(f) /\ fact.seen = proc.view
  BY <1>1, <1>2, <1>4, FactIs
<1>6. FilingFact(f) = fact
  BY DEF FilingFact
<1> HIDE DEF fact
<1> QED
  BY <1>5, <1>6 DEF Genuine

\* Filings in some order.
LEMMA InSomeOrder ==
    ASSUME NEW those \in SUBSET Filings
    PROVE  SetToSeq(those) \in Seq(Filings) /\ ToSet(SetToSeq(those)) = those
<1>1. IsFiniteSet(those)
  BY SubjectsAssumption, FS_Subset
<1>2. SetToSeq(those) \in Seq(those) /\ ToSet(SetToSeq(those)) = those
  BY <1>1, SetAsSequence
<1>3. Seq(those) \subseteq Seq(Filings)
  OBVIOUS
<1> QED
  BY <1>2, <1>3

LEMMA JoinedSet ==
    ASSUME NEW S, NEW s \in Seq(S), NEW t \in Seq(S)
    PROVE  s \o t \in Seq(S) /\ ToSet(s \o t) = ToSet(s) \cup ToSet(t)
<1>1. /\ s \o t \in Seq(S) /\ Len(s \o t) = Len(s) + Len(t)
      /\ \A i \in 1..(Len(s) + Len(t)) :
             (s \o t)[i] = IF i <= Len(s) THEN s[i] ELSE t[i - Len(s)]
  BY ConcatProperties
<1>2. /\ Len(s) \in Nat /\ Len(t) \in Nat /\ DOMAIN s = 1..Len(s) /\ DOMAIN t = 1..Len(t)
      /\ DOMAIN (s \o t) = 1..(Len(s) + Len(t))
  BY <1>1, LenProperties
<1>3. /\ \A i \in DOMAIN s : i \in DOMAIN (s \o t) /\ (s \o t)[i] = s[i]
      /\ \A i \in DOMAIN t : i + Len(s) \in DOMAIN (s \o t) /\ (s \o t)[i + Len(s)] = t[i]
      /\ \A i \in DOMAIN (s \o t) : \/ i \in DOMAIN s /\ (s \o t)[i] = s[i]
                                    \/ /\ i - Len(s) \in DOMAIN t
                                       /\ (s \o t)[i] = t[i - Len(s)]
  BY <1>1, <1>2
<1>4. ToSet(s \o t) \subseteq ToSet(s) \cup ToSet(t)
  BY <1>3 DEF ToSet
<1>5. ToSet(s) \subseteq ToSet(s \o t)
  BY <1>3 DEF ToSet
<1>6. ASSUME NEW e \in ToSet(t) PROVE e \in ToSet(s \o t)
  <2>1. PICK i \in DOMAIN t : e = t[i]
    BY DEF ToSet
  <2>2. e = (s \o t)[i + Len(s)] /\ i + Len(s) \in DOMAIN (s \o t)
    BY <1>3, <2>1
  <2> QED
    BY <2>2 DEF ToSet
<1> QED
  BY <1>1, <1>4, <1>5, <1>6

\* The first of a symbol's pages.
LEMMA FirstPageStep ==
    ASSUME IInv, FetchPage, Len(proc.pages) > 1
    PROVE  IInv'
<1> DEFINE symbol == Head(proc.todo)
           page == SetToSeq({f \in ListedFor(symbol) : listed[f].page = Head(proc.pages)})
           found == proc.found \o page
<1>1. /\ proc.pc = "filings" /\ queue = <<>> /\ proc.todo # <<>> /\ symbol \in proc.ciks
      /\ proc' = [proc EXCEPT !.pages = Tail(@), !.found = found] /\ queue' = queue
      /\ promised' = IF Len(proc.pages) = Len(Pages)
                     THEN promised \cup ListedFor(symbol) ELSE promised
      /\ UNCHANGED <<clock, listed, news, file, series, cycles, deaths>>
  BY DEF FetchPage, Ready, environment, store, counters
<1>2. proc.pages = Pages /\ proc.found = <<>>
  <2>1. CollectionStands
    BY DEF IInv
  <2>2. (proc.pages = Pages /\ proc.found = <<>>) \/ proc.pages = <<"older">>
    BY <1>1, <2>1 DEF CollectionStands
  <2>3. proc.pages # <<"older">>
    <3> DEFINE older == <<"older">>
    <3>1. Len(older) = 1
      BY PagesAre
    <3>2. ASSUME proc.pages = older PROVE FALSE
      <4>1. Len(proc.pages) = Len(older)
        BY <3>2, Zenon
      <4>2. ~(1 > 1)
        OBVIOUS
      <4> QED
        BY <3>1, <4>1, <4>2, Zenon
    <3> QED
      BY <3>2
  <2> QED
    BY <2>2, <2>3
<1>3. page \in Seq(Filings)
      /\ ToSet(page) = {f \in ListedFor(symbol) : listed[f].page = "recent"}
  <2> DEFINE those == {f \in ListedFor(symbol) : listed[f].page = Head(proc.pages)}
  <2>1. those \in SUBSET Filings
    BY DEF ListedFor
  <2>2. those = {f \in ListedFor(symbol) : listed[f].page = "recent"}
    BY <1>2, PagesAre
  <2> HIDE DEF those
  <2>3. SetToSeq(those) \in Seq(Filings) /\ ToSet(SetToSeq(those)) = those
    BY <2>1, InSomeOrder
  <2> QED
    BY <2>2, <2>3 DEF those
<1> HIDE DEF page
<1>4. found \in Seq(Filings) /\ ToSet(found) = ToSet(page)
  BY <1>2, <1>3, ProcIs, JoinedSet, EmptyHasNone
<1> HIDE DEF found
<1>5. /\ proc' \in Processes /\ proc'.pc = "filings" /\ proc'.view = proc.view
      /\ proc'.now = proc.now /\ proc'.pages = <<"older">> /\ proc'.found = found
      /\ proc'.todo = proc.todo /\ proc'.ciks = proc.ciks
  BY <1>1, <1>2, <1>4, ProcIs, PagesAre DEF Processes
<1>6. promised' = promised \cup ListedFor(symbol)
  BY <1>1, <1>2
<1>7. promised' \subseteq Filings /\ cycles' \in Nat /\ deaths' \in Nat
  BY <1>1, <1>6 DEF IInv, TypeOK, ListedFor
<1>8. \A f : ~Expected(f)
  BY <1>2 DEF Expected
<1>9. ASSUME NEW f \in promised'
      PROVE  listed[f] # Null /\ (f \in Held(SymbolOf[f])' \/ Queued(f)' \/ Expected(f)')
  <2>1. CASE f \in promised
    BY <1>1, <1>8, <2>1, SameHoldings DEF IInv, CollectionStands
  <2>2. CASE f \in ListedFor(symbol)
    <3>1. f \in Filings /\ SymbolOf[f] = symbol /\ listed[f] # Null
      BY <2>2 DEF ListedFor
    <3>2. listed[f].page \in PageNames
      BY <3>1, WorldIs
    <3>3. f \in ToSet(found) \/ listed[f].page = "older"
      BY <1>3, <1>4, <2>2, <3>2 DEF PageNames
    <3>4. Expected(f)'
      BY <1>1, <1>5, <3>1, <3>3, PagesAre DEF Expected
    <3> QED
      BY <3>1, <3>4
  <2> QED
    BY <1>6, <2>1, <2>2
<1>10. CollectionStands'
  <2>1. \A f \in ToSet(proc'.found) : listed[f] # Null /\ SymbolOf[f] = Head(proc'.todo)
    BY <1>3, <1>4, <1>5 DEF ListedFor
  <2> QED
    BY <1>1, <1>5, <1>9, <2>1, ProcIs DEF IInv, CollectionStands
<1> QED
  BY <1>1, <1>5, <1>7, <1>10, KeepsTheFacts DEF IInv

\* The last of them, with which what is not known comes to be appended.
LEMMA LastPageStep ==
    ASSUME IInv, FetchPage, ~(Len(proc.pages) > 1)
    PROVE  IInv'
<1> DEFINE symbol == Head(proc.todo)
           page == SetToSeq({f \in ListedFor(symbol) : listed[f].page = Head(proc.pages)})
           found == proc.found \o page
           known == Known(symbol, "filing", proc.view)
           unknown == Unknown(found, known)
<1>1. /\ proc.pc = "filings" /\ queue = <<>> /\ proc.todo # <<>> /\ symbol \in proc.ciks
      /\ proc' = [proc EXCEPT !.pages = Pages, !.found = <<>>, !.todo = Tail(@)]
      /\ queue' = [i \in DOMAIN unknown |-> FilingFact(unknown[i])]
      /\ promised' = IF Len(proc.pages) = Len(Pages)
                     THEN promised \cup ListedFor(symbol) ELSE promised
      /\ UNCHANGED <<clock, listed, news, file, series, cycles, deaths>>
  BY DEF FetchPage, Ready, environment, store, counters
<1>2. /\ proc.pages = <<"older">> /\ symbol \in Symbols
      /\ \A f \in ToSet(proc.found) : listed[f] # Null /\ SymbolOf[f] = symbol
  <2>1. Head(proc.todo) \in Symbols
    BY <1>1, ProcIs, HeadTailProperties
  <2> QED
    BY <1>1, <2>1, PagesAre DEF IInv, CollectionStands
<1>3. page \in Seq(Filings)
      /\ ToSet(page) = {f \in ListedFor(symbol) : listed[f].page = "older"}
  <2> DEFINE those == {f \in ListedFor(symbol) : listed[f].page = Head(proc.pages)}
  <2>1. those \in SUBSET Filings
    BY DEF ListedFor
  <2>2. those = {f \in ListedFor(symbol) : listed[f].page = "older"}
    BY <1>2, PagesAre
  <2> HIDE DEF those
  <2>3. SetToSeq(those) \in Seq(Filings) /\ ToSet(SetToSeq(those)) = those
    BY <2>1, InSomeOrder
  <2> QED
    BY <2>2, <2>3 DEF those
<1> HIDE DEF page
<1>4. found \in Seq(Filings) /\ ToSet(found) = ToSet(proc.found) \cup ToSet(page)
  BY <1>3, ProcIs, JoinedSet
<1> HIDE DEF found
<1>5. unknown \in Seq(Filings) /\ ToSet(unknown) = ToSet(found) \ known
  BY <1>4, UnknownAre
<1> HIDE DEF unknown
<1>6. \A f \in ToSet(unknown) :
          f \in Filings /\ listed[f] # Null /\ SymbolOf[f] = symbol /\ f \notin known
  <2>1. ToSet(unknown) \subseteq Filings
    BY <1>5, ElementsOfSeq
  <2> QED
    BY <1>2, <1>3, <1>4, <1>5, <2>1 DEF ListedFor
<1>7. /\ DOMAIN unknown = 1..Len(unknown) /\ Len(unknown) \in Nat
      /\ \A i \in DOMAIN unknown : unknown[i] \in ToSet(unknown)
      /\ \A f \in ToSet(unknown) : \E i \in DOMAIN unknown : f = unknown[i]
  BY <1>5, ElementsOfSeq
<1>8. \A f \in ToSet(unknown) :
          /\ FilingFact(f) \in Facts /\ FilingFact(f).symbol = symbol
          /\ FilingFact(f).field = "filing" /\ FilingFact(f).id = f
          /\ FilingFact(f).seen = proc.view /\ Genuine(FilingFact(f))
  BY <1>6, FilingFactIs
<1>9. queue' \in Seq(Facts) /\ ToSet(queue') = {FilingFact(f) : f \in ToSet(unknown)}
  <2>1. DOMAIN queue' = 1..Len(unknown)
        /\ \A i \in 1..Len(unknown) : queue'[i] = FilingFact(unknown[i])
    BY <1>1, <1>7
  <2>2. \A i \in 1..Len(unknown) : queue'[i] \in Facts
    BY <1>7, <1>8, <2>1
  <2>3. queue' = [i \in 1..Len(unknown) |-> queue'[i]]
    BY <1>1, <1>7
  <2>4. queue' \in Seq(Facts)
    BY <1>7, <2>2, <2>3
  <2>5. ToSet(queue') = {queue'[i] : i \in DOMAIN queue'}
    BY DEF ToSet
  <2> QED
    BY <1>7, <2>1, <2>4, <2>5
<1>10. \A fact \in ToSet(queue') :
           /\ fact.field = "filing" /\ fact.symbol = symbol /\ fact.seen = proc.view
           /\ fact.id \notin known /\ Genuine(fact)
  BY <1>6, <1>8, <1>9
<1>11. /\ proc' \in Processes /\ proc'.pc = "filings" /\ proc'.view = proc.view
       /\ proc'.now = proc.now /\ proc'.pages = Pages /\ proc'.found = <<>>
  <2>1. Tail(proc.todo) \in Seq(Symbols) /\ <<>> \in Seq(Filings)
    BY <1>1, ProcIs, HeadTailProperties
  <2> QED
    BY <1>1, <2>1, ProcIs, PagesAre DEF Processes
<1>12. promised' = promised
  BY <1>1, <1>2, PagesAre
<1>13. promised' \subseteq Filings /\ cycles' \in Nat /\ deaths' \in Nat
  BY <1>1, <1>12 DEF IInv, TypeOK
<1>14. ASSUME NEW f \in promised
       PROVE  listed[f] # Null /\ (f \in Held(SymbolOf[f])' \/ Queued(f)')
  <2>1. listed[f] # Null /\ (f \in Held(SymbolOf[f]) \/ Expected(f)) /\ f \in Filings
    BY <1>1, EmptyHasNone DEF IInv, TypeOK, CollectionStands, Queued
  <2>2. Held(SymbolOf[f])' = Held(SymbolOf[f])
    BY <1>1 DEF Held, Ids
  <2>3. CASE Expected(f)
    <3>1. SymbolOf[f] = symbol /\ f \in ToSet(found)
      BY <1>3, <1>4, <2>1, <2>3 DEF Expected, ListedFor
    <3>2. CASE f \notin known
      <4>1. FilingFact(f) \in ToSet(queue') /\ FilingFact(f).field = "filing"
            /\ FilingFact(f).id = f
        BY <1>5, <1>8, <1>9, <3>1, <3>2
      <4> QED
        BY <2>1, <4>1 DEF Queued
    <3>3. CASE f \in known
      <4>1. PICK fact \in ToSet(series[symbol]["filing"]) : fact.id = f
        BY <1>2, <3>3, ProcIs, UnknownIsLater DEF Fields
      <4>2. f \in Held(symbol)
        BY <4>1 DEF Held, Ids, ToSet
      <4> QED
        BY <2>1, <2>2, <3>1, <4>2
    <3> QED
      BY <3>2, <3>3
  <2> QED
    BY <2>1, <2>2, <2>3
<1>15. CollectionStands'
  BY <1>1, <1>10, <1>11, <1>12, <1>14, ProcIs, EmptyHasNone DEF IInv, CollectionStands
<1>16. ASSUME NEW fact \in ToSet(queue'), NEW s \in Symbols, NEW field \in Fields,
              NEW other \in ToSet(series[s][field])
       PROVE  Caused(fact, other) /\ Caused(other, fact)
  <2>1. other.symbol = s /\ other.field = field /\ Genuine(other)
    BY DEF IInv, FactsAreGenuine
  <2>2. other.seen \in Nat /\ proc.view \in Nat /\ fact.seen = proc.view
    <3>1. ToSet(series[s][field]) \subseteq Facts
      BY ElementsOfSeq DEF IInv, TypeOK
    <3> QED
      BY <1>10, <3>1, ProcIs DEF Facts
  <2>3. CASE field = "filing" /\ other.id = fact.id
    <3>1. s = symbol
      BY <1>10, <2>1, <2>3 DEF Genuine
    <3>2. other.seen <= proc.view
      BY <1>1, <2>3 DEF IInv, CollectionStands
    <3>3. other.observed > proc.view
      BY <1>2, <1>10, <2>3, <3>1, ProcIs, UnknownIsLater
    <3> QED
      BY <1>10, <2>1, <2>2, <2>3, <3>2, <3>3 DEF Caused
  <2>4. CASE ~(field = "filing" /\ other.id = fact.id)
    BY <1>10, <2>1, <2>4 DEF Caused
  <2> QED
    BY <2>3, <2>4
<1>17. ASSUME NEW i \in DOMAIN queue', NEW j \in DOMAIN queue' PROVE Caused(queue'[i], queue'[j])
  <2>1. queue'[i] \in ToSet(queue') /\ queue'[j] \in ToSet(queue')
    BY DEF ToSet
  <2> QED
    BY <1>10, <2>1 DEF Caused
<1>18. /\ TypeOK' /\ FactsAreGenuine' /\ SeriesAreSorted'
       /\ RepeatsAreCaused' /\ RowsAreInMemory'
  <2>1. \A fact \in ToSet(queue') : Genuine(fact) /\ fact.seen <= clock
    BY <1>10, ProcIs
  <2> QED
    BY <1>1, <1>9, <1>11, <1>13, <1>16, <1>17, <2>1, QueueStep
<1> QED
  BY <1>15, <1>18 DEF IInv

LEMMA NewsFactIs ==
    ASSUME IInv, NEW i \in Items, news[i] # Null
    PROVE  /\ NewsFact(i) \in Facts /\ NewsFact(i).symbol = SymbolOf[i]
           /\ NewsFact(i).field = "news_event" /\ NewsFact(i).id = i
           /\ NewsFact(i).observed = news[i] /\ NewsFact(i).seen = clock
           /\ Genuine(NewsFact(i))
<1>1. news[i] \in Nat /\ clock \in Nat /\ SymbolOf[i] \in Symbols /\ "news_event" \in Fields
  BY WorldIs, SubjectsAssumption DEF Fields
<1> DEFINE fact == Fact(SymbolOf[i], "news_event", i, news[i], news[i], clock)
<1>2. /\ fact \in Facts /\ fact.symbol = SymbolOf[i] /\ fact.field = "news_event" /\ fact.id = i
      /\ fact.observed = news[i] /\ fact.seen = clock
  BY <1>1, FactIs
<1>3. NewsFact(i) = fact
  BY DEF NewsFact
<1> HIDE DEF fact
<1> QED
  BY <1>2, <1>3 DEF Genuine

LEMMA NewsStep ==
    ASSUME IInv, NEW twice \in SUBSET Items, CollectNews(twice)
    PROVE  IInv'
<1> DEFINE window == {i \in Items : news[i] # Null /\ news[i] + Lookback >= proc.now}
           batch == SetToSeq(window) \o SetToSeq(twice)
           items == NewItems(batch)
<1>1. /\ proc.pc = "news" /\ queue = <<>> /\ twice \subseteq window
      /\ proc' = [proc EXCEPT !.pc = "screen"]
      /\ queue' = [i \in DOMAIN items |-> NewsFact(items[i])]
      /\ UNCHANGED <<clock, listed, news, file, series, cycles, deaths, promised>>
  BY DEF CollectNews, Ready, environment, store, counters
<1>2. window \in SUBSET Items /\ \A i \in window : news[i] # Null
  OBVIOUS
<1> HIDE DEF window
<1>3. batch \in Seq(Items) /\ ToSet(batch) = window
  <2> DEFINE first == SetToSeq(window)
             again == SetToSeq(twice)
  <2>1. IsFiniteSet(window) /\ IsFiniteSet(twice)
    BY <1>1, <1>2, SubjectsAssumption, FS_Subset
  <2>2. /\ first \in Seq(window) /\ ToSet(first) = window
        /\ again \in Seq(twice) /\ ToSet(again) = twice
    BY <2>1, SetAsSequence
  <2>3. Seq(window) \subseteq Seq(Items) /\ Seq(twice) \subseteq Seq(Items)
    BY <1>1, <1>2
  <2> HIDE DEF first, again
  <2>4. first \o again \in Seq(Items) /\ ToSet(first \o again) = ToSet(first) \cup ToSet(again)
    BY <2>2, <2>3, JoinedSet
  <2> QED
    BY <1>1, <2>2, <2>4 DEF first, again
<1> HIDE DEF batch
<1>4. /\ items \in Seq(Items) /\ IsInjective(items) /\ ToSet(items) \subseteq window
      /\ \A i \in ToSet(items) : i \notin Known(SymbolOf[i], "news_event", clock)
  BY <1>3, NewItemsAre
<1> HIDE DEF items
<1>5. /\ DOMAIN items = 1..Len(items) /\ Len(items) \in Nat
      /\ \A i \in DOMAIN items : items[i] \in ToSet(items)
      /\ \A e \in ToSet(items) : \E i \in DOMAIN items : e = items[i]
  BY <1>4, ElementsOfSeq
<1>6. \A i \in ToSet(items) :
          /\ NewsFact(i) \in Facts /\ NewsFact(i).symbol = SymbolOf[i]
          /\ NewsFact(i).field = "news_event" /\ NewsFact(i).id = i
          /\ NewsFact(i).observed = news[i] /\ NewsFact(i).seen = clock
          /\ Genuine(NewsFact(i))
  BY <1>2, <1>4, NewsFactIs
<1>7. DOMAIN queue' = 1..Len(items)
      /\ \A i \in 1..Len(items) : queue'[i] = NewsFact(items[i])
  BY <1>1, <1>5
<1>8. queue' \in Seq(Facts) /\ ToSet(queue') = {NewsFact(i) : i \in ToSet(items)}
  <2>1. \A i \in 1..Len(items) : queue'[i] \in Facts
    BY <1>5, <1>6, <1>7
  <2>2. queue' = [i \in 1..Len(items) |-> queue'[i]]
    BY <1>1, <1>5
  <2>3. queue' \in Seq(Facts)
    BY <1>5, <2>1, <2>2
  <2>4. ToSet(queue') = {queue'[i] : i \in DOMAIN queue'}
    BY DEF ToSet
  <2> QED
    BY <1>5, <1>7, <2>3, <2>4
<1>9. \A fact \in ToSet(queue') :
          /\ fact.field = "news_event" /\ fact.id \in Items /\ fact.seen = clock
          /\ fact.observed = news[fact.id] /\ Genuine(fact)
          /\ fact.id \notin Known(SymbolOf[fact.id], "news_event", clock)
  <2>1. \A i \in ToSet(items) : i \in Items
    BY <1>2, <1>4
  <2> QED
    BY <1>4, <1>6, <1>8, <2>1
<1>10. proc' \in Processes /\ proc'.pc = "screen" /\ proc'.view = proc.view
       /\ proc'.now = proc.now
  BY <1>1, ProcIs DEF Processes
<1>11. promised' \subseteq Filings /\ cycles' \in Nat /\ deaths' \in Nat
  BY <1>1 DEF IInv, TypeOK
<1>12. ASSUME NEW f \in promised PROVE listed[f] # Null /\ f \in Held(SymbolOf[f])'
  <2>1. ~Expected(f) /\ ~Queued(f)
    BY <1>1, EmptyHasNone DEF Expected, Queued
  <2>2. Held(SymbolOf[f])' = Held(SymbolOf[f])
    BY <1>1 DEF Held, Ids
  <2> QED
    BY <2>1, <2>2 DEF IInv, CollectionStands
<1>13. CollectionStands'
  BY <1>1, <1>10, <1>12, ProcIs DEF CollectionStands
<1>14. ASSUME NEW i \in DOMAIN queue', NEW j \in DOMAIN queue', i # j
       PROVE  Caused(queue'[i], queue'[j])
  <2>1. queue'[i].id = items[i] /\ queue'[j].id = items[j]
    BY <1>5, <1>6, <1>7
  <2>2. items[i] # items[j]
    BY <1>4, <1>5, <1>7, <1>14 DEF IsInjective
  <2> QED
    BY <2>1, <2>2 DEF Caused
<1>15. ASSUME NEW fact \in ToSet(queue'), NEW s \in Symbols, NEW field \in Fields,
              NEW other \in ToSet(series[s][field])
       PROVE  Caused(fact, other) /\ Caused(other, fact)
  <2>1. other.symbol = s /\ other.field = field /\ Genuine(other) /\ other.seen <= clock
    BY DEF IInv, FactsAreGenuine
  <2>2. other.seen \in Nat /\ other.observed \in Nat /\ clock \in Nat
    <3>1. ToSet(series[s][field]) \subseteq Facts
      BY ElementsOfSeq DEF IInv, TypeOK
    <3> QED
      BY <3>1, WorldIs DEF Facts
  <2>3. CASE field = "news_event" /\ other.id = fact.id
    <3>1. s = SymbolOf[fact.id] /\ other.observed = news[fact.id]
      BY <2>1, <2>3 DEF Genuine
    <3>2. other.observed > clock
      BY <1>9, <2>2, <2>3, <3>1, UnknownIsLater
    <3> QED
      BY <1>9, <2>1, <2>2, <3>1, <3>2 DEF Caused
  <2>4. CASE ~(field = "news_event" /\ other.id = fact.id)
    BY <1>9, <2>1, <2>4 DEF Caused
  <2> QED
    BY <2>3, <2>4
<1>16. /\ TypeOK' /\ FactsAreGenuine' /\ SeriesAreSorted'
       /\ RepeatsAreCaused' /\ RowsAreInMemory'
  <2>1. clock \in Nat /\ \A fact \in ToSet(queue') : Genuine(fact) /\ fact.seen <= clock
    BY <1>9, WorldIs
  <2> QED
    BY <1>1, <1>8, <1>10, <1>11, <1>14, <1>15, <2>1, QueueStep
<1> QED
  BY <1>13, <1>16 DEF IInv

-----------------------------------------------------------------------------
(* Steps that append, or die appending *)

\* After an attempt to append a fact, a line that reads is one that was
\* there or, at the end, the fact's.
Attempted(lines, new, fact) ==
    /\ new \in Seq(Lines)
    /\ \A i \in DOMAIN new : Parses(new[i]) =>
           \/ i \in DOMAIN lines /\ new[i] = lines[i]
           \/ i = Len(lines) + 1 /\ new[i].fact = fact

LEMMA LineAdded ==
    ASSUME NEW lines \in Seq(Lines), NEW line \in Lines, NEW fact,
           Parses(line) => line.fact = fact
    PROVE  Attempted(lines, Append(lines, line), fact)
<1>1. /\ Append(lines, line) \in Seq(Lines) /\ Len(Append(lines, line)) = Len(lines) + 1
      /\ \A i \in 1..Len(lines) : Append(lines, line)[i] = lines[i]
      /\ Append(lines, line)[Len(lines) + 1] = line
  BY AppendProperties
<1>2. /\ Len(lines) \in Nat /\ DOMAIN lines = 1..Len(lines)
      /\ DOMAIN Append(lines, line) = 1..(Len(lines) + 1)
  BY <1>1, LenProperties
<1>3. \A i \in DOMAIN Append(lines, line) : i \in DOMAIN lines \/ i = Len(lines) + 1
  BY <1>2
<1> QED
  BY <1>1, <1>2, <1>3 DEF Attempted

LEMMA LastReplaced ==
    ASSUME NEW lines \in Seq(Lines), lines # <<>>, NEW line \in Lines, ~Parses(line), NEW fact
    PROVE  Attempted(lines, Append(Front(lines), line), fact)
<1>1. Len(lines) \in Nat /\ Len(lines) > 0 /\ DOMAIN lines = 1..Len(lines)
      /\ \A i \in 1..Len(lines) : lines[i] \in Lines
  BY ElementsOfSeq, EmptySeq
<1>2. /\ Front(lines) \in Seq(Lines) /\ Len(Front(lines)) = Len(lines) - 1
      /\ \A i \in 1..(Len(lines) - 1) : Front(lines)[i] = lines[i]
  <2>1. /\ SubSeq(lines, 1, Len(lines) - 1) \in Seq(Lines)
        /\ Len(SubSeq(lines, 1, Len(lines) - 1)) = Len(lines) - 1
        /\ \A i \in 1..(Len(lines) - 1) : SubSeq(lines, 1, Len(lines) - 1)[i] = lines[i]
    BY <1>1, SubSeqProperties
  <2> QED
    BY <2>1 DEF Front
<1> DEFINE kept == Front(lines)
           new == Append(kept, line)
<1> HIDE DEF kept
<1>3. kept \in Seq(Lines) /\ Len(kept) = Len(lines) - 1
      /\ \A i \in 1..(Len(lines) - 1) : kept[i] = lines[i]
  BY <1>2 DEF kept
<1>4. /\ new \in Seq(Lines) /\ Len(new) = Len(kept) + 1
      /\ \A i \in 1..Len(kept) : new[i] = kept[i]
      /\ new[Len(kept) + 1] = line
  BY <1>3, AppendProperties
<1> HIDE DEF new
<1>5. DOMAIN new = 1..Len(lines)
  BY <1>1, <1>3, <1>4, LenProperties
<1>6. \A i \in DOMAIN new : i = Len(lines) \/ i \in 1..(Len(lines) - 1)
  BY <1>1, <1>5
<1>7. new[Len(lines)] = line /\ \A i \in 1..(Len(lines) - 1) : new[i] = lines[i]
  BY <1>1, <1>3, <1>4
<1> QED
  BY <1>1, <1>4, <1>5, <1>6, <1>7 DEF Attempted, new, kept

\* Its rows are those there were and perhaps the head of the queue.
LEMMA RowsAfter ==
    ASSUME IInv, queue # <<>>, Attempted(file, file', Head(queue))
    PROVE  /\ file' \in Seq(Lines) /\ RowFacts' \subseteq RowFacts \cup {Head(queue)}
           /\ \A i, j \in Rows' : i # j => Caused(file'[i].fact, file'[j].fact)
<1> DEFINE fact == Head(queue)
<1>1. /\ file' \in Seq(Lines)
      /\ \A i \in Rows' : \/ i \in Rows /\ file'[i] = file[i]
                          \/ i = Len(file) + 1 /\ file'[i].fact = fact
  BY DEF Attempted, Rows
<1>2. fact \in ToSet(queue) /\ queue \in Seq(Facts)
  <2>1. queue \in Seq(Facts)
    BY DEF IInv, TypeOK
  <2>2. Head(queue) = queue[1] /\ 1 \in DOMAIN queue
    BY <2>1, HeadTailProperties, LenProperties, EmptySeq
  <2> QED
    BY <2>1, <2>2 DEF ToSet
<1>3. RowFacts' \subseteq RowFacts \cup {fact}
  BY <1>1 DEF RowFacts
<1>4. \A i \in Rows : Caused(fact, file[i].fact) /\ Caused(file[i].fact, fact)
  <2>1. proc.pc \notin {"down", "refused"}
    BY DEF IInv, CollectionStands
  <2> SUFFICES ASSUME NEW i \in Rows
               PROVE  Caused(fact, file[i].fact) /\ Caused(file[i].fact, fact)
    OBVIOUS
  <2>2. file[i].fact \in RowFacts
    BY DEF RowFacts
  <2>3. file[i].fact \in ToSet(series[file[i].fact.symbol][file[i].fact.field])
    BY <2>1, <2>2 DEF IInv, RowsAreInMemory
  <2>4. file[i].fact \in Facts
    <3>1. file \in Seq(Lines) /\ i \in DOMAIN file /\ Parses(file[i])
      BY DEF IInv, TypeOK, Rows
    <3> QED
      BY <3>1, ElementsOfSeq, ReadableLine
  <2>5. file[i].fact.symbol \in Symbols /\ file[i].fact.field \in Fields
    BY <2>4 DEF Facts
  <2> QED
    BY <1>2, <2>3, <2>5 DEF IInv, RepeatsAreCaused
<1>5. \A i, j \in Rows : i # j => Caused(file[i].fact, file[j].fact)
  BY DEF IInv, RepeatsAreCaused
<1> HIDE DEF fact
<1>6. \A i, j \in Rows' : i # j => Caused(file'[i].fact, file'[j].fact)
  BY <1>1, <1>4, <1>5
<1> QED
  BY <1>1, <1>3, <1>6 DEF fact

LEMMA DieStep ==
    ASSUME IInv, NEW kind \in {"none", "torn", "open"}, DieAppending(kind)
    PROVE  IInv'
<1>1. /\ queue # <<>> /\ Ends /\ queue' = <<>> /\ deaths' = deaths + 1
      /\ UNCHANGED <<clock, listed, news, cycles>>
      /\ file' = CASE kind = "none" -> file
                   [] file # <<>> /\ Unterminated(Last(file)) ->
                          Append(Front(file), [kind |-> "torn"])
                   [] kind = "torn" -> Append(file, [kind |-> "torn"])
                   [] OTHER -> Append(file, [kind |-> "open", fact |-> Head(queue)])
  BY DEF DieAppending, environment
<1>2. file \in Seq(Lines) /\ queue \in Seq(Facts) /\ deaths \in Nat /\ cycles \in Nat
  BY DEF IInv, TypeOK
<1>3. Head(queue) \in Facts /\ Head(queue) \in ToSet(queue)
  <2>1. Head(queue) = queue[1] /\ 1 \in DOMAIN queue
    BY <1>1, <1>2, HeadTailProperties, LenProperties, EmptySeq
  <2> QED
    BY <1>2, <2>1, ElementsOfSeq
<1> DEFINE torn == [kind |-> "torn"]
           open == [kind |-> "open", fact |-> Head(queue)]
<1>4. torn \in Lines /\ ~Parses(torn)
  BY DEF Lines, Parses
<1>5. open \in Lines /\ open.fact = Head(queue)
  BY <1>3 DEF Lines
<1>6. \/ file' = file
      \/ file # <<>> /\ file' = Append(Front(file), torn)
      \/ file' = Append(file, torn)
      \/ file' = Append(file, open)
  BY <1>1
<1> HIDE DEF torn, open
<1>7. Attempted(file, file', Head(queue))
  <2>1. CASE file' = file
    BY <1>2, <2>1 DEF Attempted
  <2>2. CASE file # <<>> /\ file' = Append(Front(file), torn)
    BY <1>2, <1>4, <2>2, LastReplaced
  <2>3. CASE file' = Append(file, torn)
    BY <1>2, <1>4, <2>3, LineAdded
  <2>4. CASE file' = Append(file, open)
    BY <1>2, <1>5, <2>4, LineAdded
  <2> QED
    BY <1>6, <2>1, <2>2, <2>3, <2>4
<1>8. /\ file' \in Seq(Lines) /\ RowFacts' \subseteq RowFacts \cup {Head(queue)}
      /\ \A i, j \in Rows' : i # j => Caused(file'[i].fact, file'[j].fact)
  BY <1>1, <1>7, RowsAfter
<1>9. \A fact \in RowFacts' : Genuine(fact) /\ fact.seen <= clock
  BY <1>3, <1>8 DEF IInv, FactsAreGenuine
<1>10. cycles' \in Nat /\ deaths' \in Nat
  BY <1>1, <1>2
<1> QED
  BY <1>1, <1>8, <1>9, <1>10, EndsStep

LEMMA QueueIs ==
    ASSUME IInv, queue # <<>>
    PROVE  /\ queue \in Seq(Facts) /\ Head(queue) \in Facts /\ Head(queue) = queue[1]
           /\ Tail(queue) \in Seq(Facts) /\ DOMAIN Tail(queue) = 1..(Len(queue) - 1)
           /\ Len(queue) \in Nat \ {0} /\ DOMAIN queue = 1..Len(queue)
           /\ \A i \in DOMAIN Tail(queue) :
                  Tail(queue)[i] = queue[i + 1] /\ i + 1 \in DOMAIN queue /\ i + 1 # 1
           /\ ToSet(queue) = ToSet(Tail(queue)) \cup {Head(queue)}
<1>1. queue \in Seq(Facts) /\ Len(queue) \in Nat /\ Len(queue) # 0 /\ DOMAIN queue = 1..Len(queue)
  BY LenProperties, EmptySeq DEF IInv, TypeOK
<1>2. /\ Head(queue) \in Facts /\ Head(queue) = queue[1]
      /\ Tail(queue) \in Seq(Facts) /\ Len(Tail(queue)) = Len(queue) - 1
      /\ \A i \in 1..(Len(queue) - 1) : Tail(queue)[i] = queue[i + 1]
  BY <1>1, HeadTailProperties
<1>3. DOMAIN Tail(queue) = 1..(Len(queue) - 1)
  BY <1>2, LenProperties
<1>4. /\ 1 \in DOMAIN queue
      /\ \A i \in DOMAIN Tail(queue) : i + 1 \in DOMAIN queue /\ i + 1 # 1
      /\ \A i \in DOMAIN queue : i = 1 \/ (i - 1 \in DOMAIN Tail(queue) /\ (i - 1) + 1 = i)
  BY <1>1, <1>3
<1> DEFINE rest == Tail(queue)
<1>5. /\ Head(queue) = queue[1] /\ \A i \in DOMAIN rest : rest[i] = queue[i + 1]
  BY <1>2, <1>3
<1> HIDE DEF rest
<1>6. \A i \in DOMAIN queue : i = 1 \/ \E j \in DOMAIN rest : queue[i] = rest[j]
  <2> SUFFICES ASSUME NEW i \in DOMAIN queue, i # 1 PROVE \E j \in DOMAIN rest : queue[i] = rest[j]
    OBVIOUS
  <2>1. i - 1 \in DOMAIN rest /\ (i - 1) + 1 = i
    BY <1>4 DEF rest
  <2>2. rest[i - 1] = queue[i]
    BY <1>5, <2>1
  <2> QED
    BY <2>1, <2>2
<1>7. ToSet(queue) \subseteq ToSet(rest) \cup {queue[1]}
  BY <1>6 DEF ToSet
<1>8. ToSet(rest) \cup {queue[1]} \subseteq ToSet(queue)
  BY <1>4, <1>5 DEF ToSet, rest
<1> QED
  BY <1>1, <1>2, <1>3, <1>4, <1>5, <1>7, <1>8 DEF rest

LEMMA AppendStep ==
    ASSUME IInv, AppendFact
    PROVE  IInv'
<1> DEFINE fact == Head(queue)
<1>1. /\ queue # <<>> /\ queue' = Tail(queue) /\ file' = AppendedLine(file, fact)
      /\ series' = [series EXCEPT ![fact.symbol][fact.field] = Inserted(@, fact)]
      /\ UNCHANGED <<clock, listed, news, proc, cycles, deaths, promised>>
  BY DEF AppendFact, environment, counters
<1>2. /\ fact \in Facts /\ fact.symbol \in Symbols /\ fact.field \in Fields
      /\ fact.observed \in Nat /\ fact.seen \in Nat /\ fact = queue[1] /\ 1 \in DOMAIN queue
  BY <1>1, QueueIs DEF Facts
<1>3. /\ queue \in Seq(Facts) /\ queue' \in Seq(Facts)
      /\ ToSet(queue) = ToSet(queue') \cup {fact}
      /\ \A i \in DOMAIN queue' : queue'[i] = queue[i + 1] /\ i + 1 \in DOMAIN queue
                                  /\ i + 1 # 1
      /\ DOMAIN queue' = 1..(Len(queue) - 1) /\ Len(queue) \in Nat
  BY <1>1, QueueIs
<1>4. Attempted(file, file', fact)
  <2> DEFINE glued == [kind |-> "glued"]
             row == [kind |-> "row", fact |-> fact]
  <2>1. file \in Seq(Lines) /\ glued \in Lines /\ ~Parses(glued) /\ row \in Lines
        /\ row.fact = fact
    BY <1>2 DEF IInv, TypeOK, Lines, Parses
  <2>2. \/ file # <<>> /\ file' = Append(Front(file), glued)
        \/ file' = Append(file, row)
    BY <1>1 DEF AppendedLine
  <2> HIDE DEF glued, row, fact
  <2>3. CASE file # <<>> /\ file' = Append(Front(file), glued)
    BY <2>1, <2>3, LastReplaced
  <2>4. CASE file' = Append(file, row)
    BY <2>1, <2>4, LineAdded
  <2> QED
    BY <2>2, <2>3, <2>4
<1>5. /\ file' \in Seq(Lines) /\ RowFacts' \subseteq RowFacts \cup {fact}
      /\ \A i, j \in Rows' : i # j => Caused(file'[i].fact, file'[j].fact)
  BY <1>1, <1>4, RowsAfter
<1> HIDE DEF fact
<1>6. proc.pc \notin {"down", "refused", "idle"}
  BY <1>1 DEF IInv, CollectionStands
<1>7. Genuine(fact) /\ fact.seen <= clock
  BY <1>3 DEF IInv, FactsAreGenuine
<1>8. ASSUME NEW symbol \in Symbols, NEW field \in Fields
      PROVE  /\ series'[symbol][field] =
                    IF symbol = fact.symbol /\ field = fact.field
                    THEN Inserted(series[symbol][field], fact) ELSE series[symbol][field]
             /\ series[symbol][field] \in Seq(Facts) /\ InOrder(series[symbol][field])
             /\ \A i, j \in DOMAIN series[symbol][field] : i # j =>
                    Caused(series[symbol][field][i], series[symbol][field][j])
             /\ \A other \in ToSet(series[symbol][field]) :
                    Caused(fact, other) /\ Caused(other, fact)
  <2>1. series \in [Symbols -> [Fields -> Seq(Facts)]]
    BY DEF IInv, TypeOK
  <2>2. series'[symbol][field] =
            IF symbol = fact.symbol /\ field = fact.field
            THEN Inserted(series[symbol][field], fact) ELSE series[symbol][field]
    BY <1>1, <1>2, <2>1
  <2>3. InOrder(series[symbol][field])
    BY DEF IInv, SeriesAreSorted
  <2>4. \A i, j \in DOMAIN series[symbol][field] : i # j =>
            Caused(series[symbol][field][i], series[symbol][field][j])
    BY DEF IInv, RepeatsAreCaused
  <2>5. \A other \in ToSet(series[symbol][field]) : Caused(fact, other) /\ Caused(other, fact)
    BY <1>3 DEF IInv, RepeatsAreCaused
  <2> QED
    BY <2>1, <2>2, <2>3, <2>4, <2>5
<1>9. ASSUME NEW symbol \in Symbols, NEW field \in Fields
      PROVE  /\ series'[symbol][field] \in Seq(Facts) /\ InOrder(series'[symbol][field])
             /\ ToSet(series'[symbol][field]) =
                    IF symbol = fact.symbol /\ field = fact.field
                    THEN ToSet(series[symbol][field]) \cup {fact}
                    ELSE ToSet(series[symbol][field])
             /\ \A i, j \in DOMAIN series'[symbol][field] : i # j =>
                    Caused(series'[symbol][field][i], series'[symbol][field][j])
  <2>1. CASE symbol = fact.symbol /\ field = fact.field
    <3>1. series'[symbol][field] = Inserted(series[symbol][field], fact)
      BY <1>8, <2>1
    <3>2. PICK s : s = series[symbol][field]
      OBVIOUS
    <3>3. /\ s \in Seq(Facts) /\ InOrder(s)
          /\ \A i, j \in DOMAIN s : i # j => Caused(s[i], s[j])
          /\ \A other \in ToSet(s) : Caused(fact, other) /\ Caused(other, fact)
      BY <1>8, <3>2
    <3>4. /\ Inserted(s, fact) \in Seq(Facts) /\ InOrder(Inserted(s, fact))
          /\ ToSet(Inserted(s, fact)) = ToSet(s) \cup {fact}
      BY <1>2, <3>3, InsertedInOrder
    <3>5. \A i, j \in DOMAIN Inserted(s, fact) :
              i # j => Caused(Inserted(s, fact)[i], Inserted(s, fact)[j])
      BY <1>2, <3>3, InsertedInOrder
    <3> QED
      BY <2>1, <3>1, <3>2, <3>4, <3>5
  <2>2. CASE ~(symbol = fact.symbol /\ field = fact.field)
    <3>1. series'[symbol][field] = series[symbol][field]
      BY <1>8, <2>2
    <3> QED
      BY <1>8, <2>2, <3>1
  <2> QED
    BY <2>1, <2>2
<1>10. TypeOK'
  <2>1. series' \in [Symbols -> [Fields -> Seq(Facts)]]
    <3>1. series \in [Symbols -> [Fields -> Seq(Facts)]]
      BY DEF IInv, TypeOK
    <3>2. Inserted(series[fact.symbol][fact.field], fact) \in Seq(Facts)
      <4>1. series[fact.symbol][fact.field] \in Seq(Facts)
            /\ InOrder(series[fact.symbol][fact.field])
        BY <1>2, <1>8
      <4> QED
        BY <1>2, <4>1, InsertedInOrder
    <3> QED
      BY <1>1, <1>2, <3>1, <3>2
  <2> QED
    BY <1>1, <1>3, <1>5, <2>1 DEF IInv, TypeOK
<1>11. \A f : Genuine(f)' <=> Genuine(f)
  BY <1>1 DEF Genuine, ObservedAt
<1>12. FactsAreGenuine'
  <2>1. ASSUME NEW symbol \in Symbols, NEW field \in Fields,
               NEW f \in ToSet(series'[symbol][field])
        PROVE  f.symbol = symbol /\ f.field = field /\ Genuine(f) /\ f.seen <= clock
    <3>1. \/ f \in ToSet(series[symbol][field])
          \/ f = fact /\ symbol = fact.symbol /\ field = fact.field
      <4>1. ToSet(series'[symbol][field]) =
                IF symbol = fact.symbol /\ field = fact.field
                THEN ToSet(series[symbol][field]) \cup {fact}
                ELSE ToSet(series[symbol][field])
        BY <1>9
      <4> QED
        BY <2>1, <4>1
    <3>2. CASE f \in ToSet(series[symbol][field])
      BY <3>2 DEF IInv, FactsAreGenuine
    <3> QED
      BY <1>7, <3>1, <3>2
  <2>2. ASSUME NEW f \in RowFacts' \cup ToSet(queue') PROVE Genuine(f) /\ f.seen <= clock
    BY <1>3, <1>5, <1>7 DEF IInv, FactsAreGenuine
  <2> QED
    BY <1>1, <1>11, <2>1, <2>2 DEF FactsAreGenuine
<1>13. SeriesAreSorted'
  BY <1>9 DEF SeriesAreSorted
<1>14. RepeatsAreCaused'
  <2>1. \A i, j \in DOMAIN queue : i # j => Caused(queue[i], queue[j])
    BY DEF IInv, RepeatsAreCaused
  <2>2. \A i, j \in DOMAIN queue' : i # j => i + 1 # j + 1
    BY <1>3
  <2>3. \A i, j \in DOMAIN queue' : i # j => Caused(queue'[i], queue'[j])
    BY <1>3, <2>1, <2>2
  <2>4. \A f \in ToSet(queue') : Caused(f, fact) /\ Caused(fact, f)
    <3> SUFFICES ASSUME NEW i \in DOMAIN queue'
                 PROVE  Caused(queue'[i], fact) /\ Caused(fact, queue'[i])
      BY DEF ToSet
    <3> QED
      BY <1>2, <1>3, <2>1
  <2>5. ASSUME NEW f \in ToSet(queue'), NEW symbol \in Symbols, NEW field \in Fields,
               NEW other \in ToSet(series'[symbol][field])
        PROVE  Caused(f, other) /\ Caused(other, f)
    <3>1. other = fact \/ other \in ToSet(series[symbol][field])
      BY <1>9
    <3>2. f \in ToSet(queue)
      BY <1>3
    <3> QED
      BY <2>4, <3>1, <3>2 DEF IInv, RepeatsAreCaused
  <2> QED
    BY <1>5, <1>9, <2>3, <2>5 DEF RepeatsAreCaused
<1>15. RowsAreInMemory'
  <2> SUFFICES ASSUME NEW f \in RowFacts' PROVE f \in ToSet(series'[f.symbol][f.field])
    BY DEF RowsAreInMemory
  <2>1. CASE f = fact
    BY <1>2, <1>9, <2>1
  <2>2. CASE f \in RowFacts
    <3>1. f \in ToSet(series[f.symbol][f.field])
      BY <1>6, <2>2 DEF IInv, RowsAreInMemory
    <3>2. f.symbol \in Symbols /\ f.field \in Fields
      <4>1. f \in Facts
        BY <2>2, ElementsOfSeq, ReadableLine DEF IInv, TypeOK, RowFacts, Rows
      <4> QED
        BY <4>1 DEF Facts
    <3> QED
      BY <1>9, <3>1, <3>2
  <2> QED
    BY <1>5, <2>1, <2>2
<1>16. ASSUME NEW f \in promised
       PROVE  listed[f] # Null /\ (f \in Held(SymbolOf[f])' \/ Queued(f)' \/ Expected(f)')
  <2>1. listed[f] # Null /\ (f \in Held(SymbolOf[f]) \/ Queued(f) \/ Expected(f))
        /\ SymbolOf[f] \in Symbols
    BY SubjectsAssumption DEF IInv, TypeOK, CollectionStands
  <2>2. Expected(f)' <=> Expected(f)
    BY <1>1 DEF Expected
  <2>3. CASE f \in Held(SymbolOf[f])
    <3>1. \E e \in ToSet(series[SymbolOf[f]]["filing"]) : e.id = f
      BY <2>3 DEF Held, Ids, ToSet
    <3>2. \E e \in ToSet(series'[SymbolOf[f]]["filing"]) : e.id = f
      BY <1>9, <2>1, <3>1 DEF Fields
    <3> QED
      BY <2>1, <3>2 DEF Held, Ids, ToSet
  <2>4. CASE Queued(f)
    <3>1. PICK e \in ToSet(queue) : e.field = "filing" /\ e.id = f
      BY <2>4 DEF Queued
    <3>2. CASE e \in ToSet(queue')
      BY <2>1, <3>1, <3>2 DEF Queued
    <3>3. CASE e = fact
      <4>1. fact.symbol = SymbolOf[f]
        BY <1>7, <3>1, <3>3 DEF Genuine
      <4>2. fact \in ToSet(series'[SymbolOf[f]]["filing"])
        BY <1>2, <1>9, <3>1, <3>3, <4>1
      <4> QED
        BY <2>1, <3>1, <3>3, <4>2 DEF Held, Ids, ToSet
    <3> QED
      BY <1>3, <3>1, <3>2, <3>3
  <2> QED
    BY <2>1, <2>2, <2>3, <2>4
<1>17. CollectionStands'
  <2>1. proc.pc = "filings" =>
            /\ proc.pages = Pages /\ proc.found = <<>>
            /\ \A f \in ToSet(queue) : f.field = "filing" => f.seen = proc.view
    BY <1>1 DEF IInv, CollectionStands
  <2>2. proc.pc = "filings" =>
            \A symbol \in Symbols : \A f \in ToSet(series'[symbol]["filing"]) :
                f.seen <= proc.view
    <3> SUFFICES ASSUME proc.pc = "filings", NEW symbol \in Symbols,
                        NEW f \in ToSet(series'[symbol]["filing"])
                 PROVE  f.seen <= proc.view
      OBVIOUS
    <3>1. CASE f \in ToSet(series[symbol]["filing"])
      BY <3>1 DEF IInv, CollectionStands
    <3>2. CASE f = fact /\ fact.field = "filing"
      <4>1. f.seen = proc.view /\ proc.view \in Nat
        BY <1>3, <2>1, <3>2, ProcIs
      <4> QED
        BY <4>1
    <3> QED
      BY <1>9, <3>1, <3>2 DEF Fields
  <2>3. \A f \in ToSet(queue') : f \in ToSet(queue)
    BY <1>3
  <2>4. proc.now <= clock /\ proc.view <= clock
    BY ProcIs
  <2>5. promised # {} => proc.pc \in {"filings", "news", "screen"}
    BY DEF IInv, CollectionStands
  <2> QED
    BY <1>1, <1>6, <1>16, <2>1, <2>2, <2>3, <2>4, <2>5, EmptyHasNone DEF CollectionStands
<1> QED
  BY <1>5, <1>10, <1>12, <1>13, <1>14, <1>15, <1>17 DEF IInv

-----------------------------------------------------------------------------
LEMMA NextInv == IInv /\ [Next]_vars => IInv'
<1> SUFFICES ASSUME IInv, [Next]_vars PROVE IInv'
  OBVIOUS
<1>1. CASE UNCHANGED vars
  <2>1. UNCHANGED <<clock, listed, news, file, series, proc, queue, cycles, deaths, promised>>
    BY <1>1 DEF vars, environment, store, counters
  <2>2. proc' \in Processes /\ promised' \subseteq Filings /\ cycles' \in Nat /\ deaths' \in Nat
    BY <2>1 DEF IInv, TypeOK
  <2>3. /\ \A symbol : Held(symbol)' = Held(symbol)
        /\ \A f : (Queued(f)' <=> Queued(f)) /\ (Expected(f)' <=> Expected(f))
    BY <2>1 DEF Held, Ids, Queued, Expected
  <2>4. CollectionStands'
    BY <2>1, <2>3 DEF IInv, CollectionStands
  <2> QED
    BY <2>1, <2>2, <2>4, KeepsTheFacts DEF IInv
<1>2. ASSUME NEW who \in {"loop", "once"}, Start(who) PROVE IInv'
  BY <1>2, StartStep
<1>3. CASE BeginCycle
  BY <1>3, BeginStep
<1>4. CASE CollectMarketData
  BY <1>4, MarketStep
<1>5. CASE EnsureFresh
  BY <1>5, FreshStep
<1>6. CASE FetchPage
  BY <1>6, FirstPageStep, LastPageStep
<1>7. CASE SkipSymbol
  BY <1>7, SkipStep
<1>8. CASE FilingsCollected
  BY <1>8, CollectedStep
<1>9. ASSUME NEW twice \in SUBSET Items, CollectNews(twice) PROVE IInv'
  BY <1>9, NewsStep
<1>10. CASE EndCycle
  BY <1>10, EndCycleStep
<1>11. CASE RequestFails
  BY <1>11, FailsStep
<1>12. CASE AppendFact
  BY <1>12, AppendStep
<1>13. ASSUME NEW kind \in {"none", "torn", "open"}, DieAppending(kind) PROVE IInv'
  BY <1>13, DieStep
<1>14. CASE Stop
  BY <1>14, StopStep
<1>15. CASE \/ Tick
            \/ \E f \in Filings : SecAccepts(f) \/ SecMoves(f)
            \/ \E i \in Items : Publish(i)
  BY <1>15, WorldSteps
<1> QED
  BY <1>1, <1>2, <1>3, <1>4, <1>5, <1>6, <1>7, <1>8, <1>9, <1>10, <1>11, <1>12, <1>13,
     <1>14, <1>15 DEF Next

\* The inductive invariant holds in every reachable state, whatever was filed,
\* moved between pages or published, and whenever a process died
\* (agent/store.py, agent/edgar_collector.py, agent/news_collector.py).
THEOREM Invariance == Spec => []IInv
<1>1. Init => IInv
  BY InitInv
<1>2. IInv /\ [Next]_vars => IInv'
  BY NextInv
<1> QED
  BY <1>1, <1>2, PTL DEF Spec

-----------------------------------------------------------------------------
LEMMA EndOfDayIs ==
    ASSUME NEW n \in Nat, NEW d \in Nat, d > 0
    PROVE  n <= (n \div d) * d + d - 1
OBVIOUS

\* A filing is dated when it was accepted, or later.
LEMMA ObservedLate ==
    ASSUME IInv, NEW f \in Filings, listed[f] # Null
    PROVE  listed[f].at \in Nat /\ listed[f].at <= ObservedAt(f)
<1>1. listed[f].at \in Nat /\ DayLength \in Nat /\ DayLength > 0
  BY WorldIs, TimesAssumption
<1>2. listed[f].at <= EndOfDay(listed[f].at)
  BY <1>1, EndOfDayIs DEF EndOfDay, Day
<1> QED
  BY <1>1, <1>2 DEF ObservedAt

LEMMA LooksBackOnly == IInv => NoLookAhead
<1> SUFFICES ASSUME IInv, NEW symbol \in Symbols, NEW field \in Fields, NEW t \in 0..clock
             PROVE  LET shown == History(symbol, field, t)
                        all == series[symbol][field]
                    IN /\ \A i \in DOMAIN shown : Public(shown[i], t)
                       /\ \A i \in DOMAIN all :
                              all[i].observed <= t => /\ shown # <<>>
                                                      /\ all[i].observed <= Last(shown).observed
  BY DEF NoLookAhead
<1> DEFINE all == series[symbol][field]
           shown == History(symbol, field, t)
           k == BisectRight(all, t)
<1>1. t \in Nat /\ clock \in Nat
  BY WorldIs
<1>2. all \in Seq(Facts) /\ InOrder(all)
  BY DEF IInv, TypeOK, SeriesAreSorted
<1>3. /\ k \in 0..Len(all) /\ Len(all) \in Nat /\ shown \in Seq(Facts) /\ Len(shown) = k
      /\ \A i \in 1..k : shown[i] = all[i]
      /\ \A i \in DOMAIN all : i <= k <=> all[i].observed <= t
  BY <1>1, HistoryIs
<1>4. \A fact \in ToSet(all) : fact.field = field /\ Genuine(fact)
  BY DEF IInv, FactsAreGenuine
<1> HIDE DEF all, shown, k
<1>5. DOMAIN shown = 1..k /\ DOMAIN all = 1..Len(all)
      /\ \A i \in DOMAIN all : all[i] \in ToSet(all) /\ all[i] \in Facts /\ all[i].observed \in Nat
  BY <1>2, <1>3, FactsAre, LenProperties
<1>6. ASSUME NEW i \in DOMAIN shown PROVE Public(shown[i], t)
  <2>1. i \in DOMAIN all /\ i <= k /\ shown[i] = all[i]
    BY <1>3, <1>5
  <2>2. PICK fact \in Facts : /\ fact = shown[i] /\ fact.field = field /\ Genuine(fact)
                              /\ fact.observed <= t /\ fact.observed \in Nat
    BY <1>3, <1>4, <1>5, <2>1
  <2>3. CASE field = "filing"
    <3>1. fact.id \in Filings /\ listed[fact.id] # Null /\ fact.observed = ObservedAt(fact.id)
      BY <2>2, <2>3 DEF Genuine
    <3>2. listed[fact.id].at \in Nat /\ listed[fact.id].at <= ObservedAt(fact.id)
      BY <3>1, ObservedLate
    <3>3. listed[fact.id].at <= t
      BY <1>1, <2>2, <3>1, <3>2
    <3> QED
      BY <2>2, <2>3, <3>3 DEF Public
  <2>4. CASE field = "news_event"
    BY <2>2, <2>4 DEF Genuine, Public
  <2>5. CASE field = "market_snapshot"
    <3>1. /\ fact.id \in Int /\ fact.effective <= fact.observed /\ fact.effective \in Int
          /\ CloseOf(fact.id) <= fact.observed \/ InSession(fact.observed)
      BY <2>2, <2>5 DEF Genuine, Facts
    <3>2. CloseOf(fact.id) \in Int
      <4>1. DayLength \in Nat /\ SessionClose \in Nat
        BY TimesAssumption
      <4> QED
        BY <3>1, <4>1 DEF CloseOf
    <3>3. fact.effective <= t
      BY <1>1, <2>2, <3>1
    <3>4. CloseOf(fact.id) <= t \/ InSession(fact.observed)
      BY <1>1, <2>2, <3>1, <3>2
    <3> QED
      BY <2>2, <2>5, <3>3, <3>4 DEF Public
  <2> QED
    BY <2>3, <2>4, <2>5 DEF Fields
<1>7. ASSUME NEW i \in DOMAIN all, all[i].observed <= t
      PROVE  shown # <<>> /\ all[i].observed <= Last(shown).observed
  <2>1. i <= k /\ k \in 1..k /\ k \in DOMAIN all /\ k > 0
    BY <1>3, <1>5, <1>7
  <2>2. Last(shown) = all[k]
    BY <1>3, <2>1 DEF Last
  <2>3. shown # <<>>
    BY <1>3, <2>1
  <2>4. all[i].observed <= all[k].observed
    BY <1>2, <2>1 DEF InOrder
  <2> QED
    BY <2>2, <2>3, <2>4
<1> QED
  BY <1>6, <1>7 DEF all, shown

\* An as-of query shows nothing that was observed after the instant it asks
\* about, and of what was observed by then it withholds nothing newer than what
\* it shows (agent/store.py:45-86).
THEOREM LookAhead == Spec => []NoLookAhead
BY Invariance, LooksBackOnly, PTL

LEMMA PromisesAreKept == IInv => NothingIsMissed
<1> SUFFICES ASSUME IInv, Ready("news") \/ Ready("screen"), NEW f \in promised
             PROVE  f \in Held(SymbolOf[f])
  BY DEF NothingIsMissed
<1>1. ~Queued(f) /\ ~Expected(f)
  BY EmptyHasNone DEF Ready, Queued, Expected
<1> QED
  BY <1>1 DEF IInv, CollectionStands

\* A collection of filings that was not cut short stored all that the SEC listed
\* when it began, however filings moved between its pages meanwhile
\* (agent/edgar.py:356-371, agent/edgar_collector.py:204-229).
THEOREM Completeness == Spec => []NothingIsMissed
BY Invariance, PromisesAreKept, PTL

LEMMA CausesOfRepeats == IInv => RepeatsHaveACause
<1> SUFFICES ASSUME IInv, NEW symbol \in Symbols, NEW field \in {"filing", "news_event"},
                    NEW i \in DOMAIN series[symbol][field],
                    NEW j \in DOMAIN series[symbol][field], i # j,
                    series[symbol][field][i].id = series[symbol][field][j].id,
                    series[symbol][field][i].seen <= series[symbol][field][j].seen
             PROVE  LET facts == series[symbol][field] IN
                    \/ facts[i].observed > facts[j].seen
                    \/ field = "filing" /\ facts[i].seen = facts[j].seen
  BY DEF RepeatsHaveACause
<1>1. field \in Fields
  BY DEF Fields
<1>2. \A fact \in ToSet(series[symbol][field]) : fact.field = field
  BY <1>1 DEF IInv, FactsAreGenuine
<1>3. series[symbol][field][i].field = field /\ series[symbol][field][j].field = field
  BY <1>2 DEF ToSet
<1>4. Caused(series[symbol][field][i], series[symbol][field][j])
  BY <1>1 DEF IInv, RepeatsAreCaused
<1> QED
  BY <1>3, <1>4 DEF Caused

\* A filing or an item stored twice was dated ahead of the second look, or shown
\* twice by one collection; no restart, torn row or lost row repeats a fact
\* (agent/edgar_collector.py:210-214, agent/news_collector.py:125-129).
THEOREM Repeats == Spec => []RepeatsHaveACause
BY Invariance, CausesOfRepeats, PTL
=============================================================================
