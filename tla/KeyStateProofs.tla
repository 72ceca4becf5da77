---------------------------- MODULE KeyStateProofs ----------------------------
(***************************************************************************)
(* Theorems about KeyState for every set of usages, every number of slots  *)
(* and every bound on order.  The facts about Ordered (the list            *)
(* comprehension over _order) are inductions over the length of a list.    *)
(* They are carried by the well-foundedness of < on the naturals: the set  *)
(* of lengths for which a fact fails has no least element, so it is empty. *)
(***************************************************************************)
EXTENDS MCKeyState, FiniteSetTheorems, SequenceTheorems, WellFoundedInduction, TLAPS

-----------------------------------------------------------------------------
(* Well-founded induction over list lengths *)

\* A nonempty set of naturals has a least element.
LEMMA LeastNat ==
  ASSUME NEW T \in SUBSET Nat, T # {}
  PROVE  \E x \in T : \A y \in T : x <= y
<1>1. IsWellFoundedOn(OpToRel(<, Nat), Nat)
  BY NatLessThanWellFounded
<1>2. PICK x \in T : \A y \in T : ~ (<<y, x>> \in OpToRel(<, Nat))
  BY <1>1, WFMin
<1>3. \A y \in T : ~ (y < x)
  BY <1>2 DEF OpToRel
<1> QED BY <1>3

-----------------------------------------------------------------------------
(* The entries of a list after each of the list operations of KeyState *)

\* Append adds its element.
LEMMA AppendRange ==
  ASSUME NEW D, NEW s \in Seq(D), NEW e \in D
  PROVE  Append(s, e) \in Seq(D) /\ ToSet(Append(s, e)) = ToSet(s) \cup {e}
<1>1. /\ Append(s, e) \in Seq(D)
      /\ Len(Append(s, e)) = Len(s) + 1
      /\ \A i \in 1 .. Len(s) : Append(s, e)[i] = s[i]
      /\ Append(s, e)[Len(s) + 1] = e
  BY AppendProperties
<1>2. DOMAIN Append(s, e) = 1 .. Len(s) + 1 /\ DOMAIN s = 1 .. Len(s)
  BY <1>1
<1>3. ToSet(Append(s, e)) \subseteq ToSet(s) \cup {e}
  BY <1>1, <1>2 DEF ToSet
<1>4. ToSet(s) \cup {e} \subseteq ToSet(Append(s, e))
  <2>1. \A i \in DOMAIN s : i \in DOMAIN Append(s, e) /\ s[i] = Append(s, e)[i]
    BY <1>1, <1>2
  <2>2. Len(s) + 1 \in DOMAIN Append(s, e)
    BY <1>2
  <2> QED BY <1>1, <2>1, <2>2 DEF ToSet
<1> QED BY <1>1, <1>3, <1>4

\* Append makes no duplicate of an element that was not there.
LEMMA AppendDistinct ==
  ASSUME NEW D, NEW s \in Seq(D), NEW e \in D, IsInjective(s), e \notin ToSet(s)
  PROVE  IsInjective(Append(s, e))
<1> DEFINE r == Append(s, e)
<1>1. /\ r \in Seq(D) /\ Len(r) = Len(s) + 1
      /\ \A i \in 1 .. Len(s) : r[i] = s[i]
      /\ r[Len(s) + 1] = e
  BY AppendProperties
<1> HIDE DEF r
<1>2. DOMAIN r = 1 .. Len(s) + 1 /\ DOMAIN s = 1 .. Len(s) /\ Len(s) \in Nat
  BY <1>1
<1>3. \A i \in 1 .. Len(s) + 1 : i \in 1 .. Len(s) \/ i = Len(s) + 1
  BY <1>2
<1>4. \A i \in 1 .. Len(s) : r[i] # e
  BY <1>1, <1>2 DEF ToSet
<1>5. \A i, j \in 1 .. Len(s) : r[i] = r[j] => i = j
  BY <1>1, <1>2 DEF IsInjective
<1>6. \A i, j \in 1 .. Len(s) + 1 : r[i] = r[j] => i = j
  BY <1>1, <1>3, <1>4, <1>5
<1>7. IsInjective(r)
  BY <1>2, <1>6 DEF IsInjective
<1> QED BY <1>7 DEF r

\* list.remove takes out one occurrence, and what was behind it moves up by one.
LEMMA RemoveFirstAt ==
  ASSUME NEW D, NEW s \in Seq(D), NEW e, e \in ToSet(s)
  PROVE  \E k \in 1 .. Len(s) :
           /\ s[k] = e
           /\ RemoveFirst(s, e) \in Seq(D) /\ Len(RemoveFirst(s, e)) = Len(s) - 1
           /\ \A i \in 1 .. Len(s) - 1 : RemoveFirst(s, e)[i] = IF i < k THEN s[i] ELSE s[i + 1]
<1> DEFINE I == {i \in 1 .. Len(s) : s[i] = e}
<1>0. I # {}
  BY DEF ToSet
<1> DEFINE k == SelectInSeq(s, LAMBDA v : v = e)
<1>1. k = Min(I)
  BY <1>0 DEF SelectInSeq
<1>2. k \in I
  <2>0. I \in SUBSET Nat
    OBVIOUS
  <2>1. \E x \in I : \A y \in I : x <= y
    BY <1>0, <2>0, LeastNat
  <2> QED BY <1>1, <2>1 DEF Min
<1> HIDE DEF k
<1>3. RemoveFirst(s, e) = SubSeq(s, 1, k - 1) \o SubSeq(s, k + 1, Len(s))
  BY <1>0 DEF RemoveFirst, RemoveAt, k
<1>4. Len(s) \in Nat /\ k \in 1 .. Len(s) /\ s[k] = e /\ DOMAIN s = 1 .. Len(s)
  BY <1>2
<1> HIDE DEF I
<1> DEFINE p == SubSeq(s, 1, k - 1)
           q == SubSeq(s, k + 1, Len(s))
<1>5. /\ p \in Seq(D) /\ Len(p) = k - 1
      /\ \A i \in 1 .. k - 1 : p[i] = s[i]
  BY <1>4
<1>6. /\ q \in Seq(D) /\ Len(q) = Len(s) - k
      /\ \A i \in 1 .. Len(s) - k : q[i] = s[k + i]
  <2>1. \A i \in k + 1 .. Len(s) : s[i] \in D
    BY <1>4
  <2>2. /\ q \in Seq(D)
        /\ Len(q) = IF k + 1 <= Len(s) THEN Len(s) - (k + 1) + 1 ELSE 0
        /\ \A i \in 1 .. Len(s) - (k + 1) + 1 : q[i] = s[(k + 1) + i - 1]
    BY <1>4, <2>1, SubSeqProperties
  <2> HIDE DEF q
  <2>3. Len(s) - (k + 1) + 1 = Len(s) - k
    BY <1>4
  <2>4. Len(q) = Len(s) - k
    <3>1. CASE k + 1 <= Len(s)
      BY <2>2, <2>3, <3>1
    <3>2. CASE ~ (k + 1 <= Len(s))
      <4>1. Len(q) = 0
        BY <2>2, <3>2
      <4>2. k \in Int /\ Len(s) \in Int /\ k <= Len(s)
        BY <1>4
      <4>3. k = Len(s)
        BY <3>2, <4>2
      <4> QED BY <4>1, <4>2, <4>3
    <3> QED BY <3>1, <3>2
  <2>5. \A i \in 1 .. Len(s) - k : (k + 1) + i - 1 = k + i
    BY <1>4
  <2> QED BY <2>2, <2>3, <2>4, <2>5
<1> DEFINE r == p \o q
<1> HIDE DEF p, q
<1>7. /\ r \in Seq(D)
      /\ Len(r) = Len(s) - 1
      /\ \A i \in 1 .. Len(s) - 1 : r[i] = IF i <= k - 1 THEN p[i] ELSE q[i - (k - 1)]
  <2>1. /\ r \in Seq(D)
        /\ Len(r) = Len(p) + Len(q)
        /\ \A i \in 1 .. Len(p) + Len(q) :
             r[i] = IF i <= Len(p) THEN p[i] ELSE q[i - Len(p)]
    BY <1>5, <1>6, ConcatProperties
  <2>2. Len(p) + Len(q) = Len(s) - 1
    BY <1>4, <1>5, <1>6
  <2> HIDE DEF r
  <2> QED BY <2>1, <2>2, <1>5
<1> HIDE DEF r
<1>8. \A i \in 1 .. Len(s) - 1 : r[i] = IF i < k THEN s[i] ELSE s[i + 1]
  <2> SUFFICES ASSUME NEW i \in 1 .. Len(s) - 1
               PROVE  r[i] = IF i < k THEN s[i] ELSE s[i + 1]
    OBVIOUS
  <2>1. CASE i < k
    BY <1>4, <1>5, <1>7, <2>1
  <2>2. CASE ~ (i < k)
    <3>1. i - (k - 1) \in 1 .. Len(s) - k /\ k + (i - (k - 1)) = i + 1
      BY <1>4, <2>2
    <3> QED BY <1>4, <1>6, <1>7, <2>2, <3>1
  <2> QED BY <2>1, <2>2
<1> QED
  BY <1>3, <1>4, <1>7, <1>8 DEF p, q, r

\* Every other element keeps its entries.
LEMMA RemoveFirstRange ==
  ASSUME NEW D, NEW s \in Seq(D), NEW e
  PROVE  /\ RemoveFirst(s, e) \in Seq(D)
         /\ ToSet(RemoveFirst(s, e)) \subseteq ToSet(s)
         /\ ToSet(s) \ {e} \subseteq ToSet(RemoveFirst(s, e))
<1> DEFINE r == RemoveFirst(s, e)
<1>1. CASE e \notin ToSet(s)
  <2>1. r = s
    BY <1>1 DEF RemoveFirst, ToSet
  <2> QED BY <2>1
<1>2. CASE e \in ToSet(s)
  <2>1. PICK k \in 1 .. Len(s) :
          /\ s[k] = e /\ r \in Seq(D) /\ Len(r) = Len(s) - 1
          /\ \A i \in 1 .. Len(s) - 1 : r[i] = IF i < k THEN s[i] ELSE s[i + 1]
    BY <1>2, RemoveFirstAt
  <2> HIDE DEF r
  <2>2. Len(s) \in Nat /\ DOMAIN s = 1 .. Len(s) /\ DOMAIN r = 1 .. Len(s) - 1
    BY <2>1
  <2>3. ToSet(r) \subseteq ToSet(s)
    <3>1. \A i \in DOMAIN r : \E j \in DOMAIN s : r[i] = s[j]
      BY <2>1, <2>2
    <3> QED BY <3>1 DEF ToSet
  <2>4. ToSet(s) \ {e} \subseteq ToSet(r)
    <3>1. \A j \in DOMAIN s : s[j] # e => \E i \in DOMAIN r : r[i] = s[j]
      <4> SUFFICES ASSUME NEW j \in 1 .. Len(s), s[j] # e
                   PROVE  \E i \in 1 .. Len(s) - 1 : r[i] = s[j]
        BY <2>2
      <4>1. CASE j < k
        <5>1. j \in 1 .. Len(s) - 1 /\ r[j] = s[j]
          BY <2>1, <2>2, <4>1
        <5> QED BY <5>1
      <4>2. CASE ~ (j < k)
        <5>1. j - 1 \in 1 .. Len(s) - 1 /\ ~ (j - 1 < k) /\ (j - 1) + 1 = j
          BY <2>1, <2>2, <4>2
        <5>2. r[j - 1] = s[j]
          BY <2>1, <5>1
        <5> QED BY <5>1, <5>2
      <4> QED BY <4>1, <4>2
    <3> QED BY <3>1 DEF ToSet
  <2> QED BY <2>1, <2>3, <2>4 DEF r
<1> QED BY <1>1, <1>2

-----------------------------------------------------------------------------
(* Ordered *)

\* One unfolding of the recursive function in Ordered.
KeptStep(s, S, f, n) ==
  IF n = 0 THEN << >>
  ELSE IF s[n] \in S THEN Append(f[n - 1], s[n]) ELSE f[n - 1]

Keeps(s, S, f, m) == f = [n \in 0 .. m |-> KeptStep(s, S, f, n)]

\* The recursive definition of Ordered has a solution.
LEMMA KeptExists ==
  ASSUME NEW s, NEW S, NEW m \in Nat
  PROVE  \E f : Keeps(s, S, f, m)
<1> DEFINE Bad == {n \in Nat : ~ \E f : Keeps(s, S, f, n)}
<1> SUFFICES ASSUME Bad # {} PROVE FALSE
  OBVIOUS
<1>1. PICK n \in Bad : \A y \in Bad : n <= y
  BY LeastNat
<1>2. CASE n = 0
  <2> DEFINE f0 == [i \in 0 .. 0 |-> << >>]
  <2>1. Keeps(s, S, f0, 0)
    BY DEF Keeps, KeptStep
  <2> QED BY <2>1, <1>1, <1>2
<1>3. CASE n # 0
  <2>1. n - 1 \in Nat /\ n - 1 \notin Bad
    BY <1>1, <1>3
  <2>2. PICK f : Keeps(s, S, f, n - 1)
    BY <2>1
  <2> DEFINE g == [i \in 0 .. n |-> IF i = n THEN KeptStep(s, S, f, n) ELSE f[i]]
  <2>3. ASSUME NEW i \in 0 .. n PROVE g[i] = KeptStep(s, S, g, i)
    <3>1. CASE i = n
      <4>1. g[n] = KeptStep(s, S, f, n)
        BY <1>1
      <4>2. g[n - 1] = f[n - 1]
        BY <2>1
      <4> QED BY <3>1, <4>1, <4>2 DEF KeptStep
    <3>2. CASE i # n
      <4>1. i \in 0 .. n - 1
        BY <3>2, <1>1
      <4>2. f[i] = KeptStep(s, S, f, i)
        BY <2>2, <4>1 DEF Keeps
      <4>3. g[i] = f[i] /\ (i # 0 => g[i - 1] = f[i - 1])
        BY <3>2, <1>1
      <4> QED BY <4>2, <4>3 DEF KeptStep
    <3> QED BY <3>1, <3>2
  <2>4. Keeps(s, S, g, n)
    <3> HIDE DEF g
    <3>1. DOMAIN g = 0 .. n /\ g = [i \in DOMAIN g |-> g[i]]
      BY DEF g
    <3> QED BY <2>3, <3>1 DEF Keeps
  <2> QED BY <2>4, <1>1
<1> QED BY <1>2, <1>3

\* Ordered keeps exactly the entries that are in S, and only entries of s.
LEMMA OrderedRange ==
  ASSUME NEW D, NEW s \in Seq(D), NEW S
  PROVE  /\ Ordered(s, S) \in Seq(D)
         /\ ToSet(Ordered(s, S)) = ToSet(s) \cap S
<1> DEFINE K == CHOOSE f : Keeps(s, S, f, Len(s))
<1>1. Len(s) \in Nat
  OBVIOUS
<1>2. Keeps(s, S, K, Len(s))
  BY KeptExists, <1>1
<1>3. Ordered(s, S) = K[Len(s)]
  BY DEF Ordered, Keeps, KeptStep
<1> HIDE DEF K
<1> DEFINE Holds(n) == /\ K[n] \in Seq(D)
                       /\ ToSet(K[n]) = {s[i] : i \in 1 .. n} \cap S
           Bad == {n \in 0 .. Len(s) : ~ Holds(n)}
<1>4. Bad = {}
  <2> SUFFICES ASSUME Bad # {} PROVE FALSE
    OBVIOUS
  <2>1. Bad \in SUBSET Nat
    BY <1>1
  <2>2. PICK n \in Bad : \A y \in Bad : n <= y
    BY <2>1, LeastNat
  <2>3. n \in 0 .. Len(s) /\ ~ Holds(n) /\ \A y \in 0 .. n - 1 : Holds(y)
    <3> HIDE DEF Holds
    <3>1. n \in 0 .. Len(s) /\ ~ Holds(n)
      OBVIOUS
    <3>2. \A y \in 0 .. n - 1 : y \in 0 .. Len(s) /\ ~ (n <= y)
      BY <1>1, <3>1
    <3> QED BY <2>2, <3>1, <3>2
  <2>4. K[n] = KeptStep(s, S, K, n)
    BY <1>2, <2>3 DEF Keeps
  <2>5. CASE n = 0
    <3>1. K[0] = << >>
      BY <2>4, <2>5 DEF KeptStep
    <3>2. ToSet(<< >>) = {} /\ << >> \in Seq(D)
      BY DEF ToSet
    <3>3. {s[i] : i \in 1 .. 0} = {}
      OBVIOUS
    <3>4. Holds(0)
      BY <3>1, <3>2, <3>3
    <3> QED BY <2>3, <2>5, <3>4
  <2>6. CASE n # 0
    <3>1. n - 1 \in 0 .. n - 1
      BY <2>3, <2>6, <1>1
    <3>2. K[n - 1] \in Seq(D) /\ ToSet(K[n - 1]) = {s[i] : i \in 1 .. n - 1} \cap S
      BY <2>3, <3>1
    <3>3. n \in 1 .. Len(s) /\ s[n] \in D
      BY <2>3, <2>6, <1>1
    <3>4. {s[i] : i \in 1 .. n} = {s[i] : i \in 1 .. n - 1} \cup {s[n]}
      <4>1. 1 .. n = (1 .. n - 1) \cup {n}
        BY <3>3, <1>1
      <4> QED BY <4>1
    <3>5. CASE s[n] \in S
      <4>1. K[n] = Append(K[n - 1], s[n])
        BY <2>4, <2>6, <3>5 DEF KeptStep
      <4>2. K[n] \in Seq(D) /\ ToSet(K[n]) = ToSet(K[n - 1]) \cup {s[n]}
        BY <3>2, <3>3, <4>1, AppendRange
      <4>3. Holds(n)
        BY <3>2, <3>4, <3>5, <4>2
      <4> QED BY <2>3, <4>3
    <3>6. CASE s[n] \notin S
      <4>1. K[n] = K[n - 1]
        BY <2>4, <2>6, <3>6 DEF KeptStep
      <4>2. Holds(n)
        BY <3>2, <3>4, <3>6, <4>1
      <4> QED BY <2>3, <4>2
    <3> QED BY <3>5, <3>6
  <2> QED BY <2>5, <2>6
<1>5. Holds(Len(s))
  BY <1>4, <1>1
<1>6. ToSet(s) = {s[i] : i \in 1 .. Len(s)}
  BY DEF ToSet
<1> QED BY <1>3, <1>5, <1>6

\* Ordered of a list without duplicates, step by step.
LEMMA OrderedSteps ==
  ASSUME NEW s, Len(s) \in Nat, NEW S
  PROVE  \E K : /\ Ordered(s, S) = K[Len(s)]
                /\ K[0] = << >>
                /\ \A n \in 1 .. Len(s) : K[n] = IF s[n] \in S THEN Append(K[n - 1], s[n]) ELSE K[n - 1]
<1> DEFINE K == CHOOSE f : Keeps(s, S, f, Len(s))
<1>1. Keeps(s, S, K, Len(s))
  BY KeptExists
<1>2. Ordered(s, S) = K[Len(s)]
  BY DEF Ordered, Keeps, KeptStep
<1> HIDE DEF K
<1>3. \A n \in 0 .. Len(s) : K[n] = KeptStep(s, S, K, n)
  BY <1>1 DEF Keeps
<1> QED BY <1>2, <1>3 DEF KeptStep

\* What holds of the empty prefix and passes from each prefix to the next holds of them all.
LEMMA EveryPrefix ==
  ASSUME NEW m \in Nat, NEW G, 0 \in G, \A n \in 1 .. m : n - 1 \in G => n \in G
  PROVE  m \in G
<1> DEFINE Bad == {n \in 0 .. m : n \notin G}
<1> SUFFICES ASSUME Bad # {} PROVE FALSE
  OBVIOUS
<1>1. PICK n \in Bad : \A y \in Bad : n <= y
  <2>1. Bad \in SUBSET Nat
    OBVIOUS
  <2> QED BY <2>1, LeastNat
<1>2. n \in 1 .. m /\ n - 1 \in 0 .. m /\ ~ (n <= n - 1)
  BY <1>1
<1>3. n - 1 \in G
  BY <1>1, <1>2
<1> QED BY <1>1, <1>2, <1>3

\* Ordered drops nothing of a list whose entries are all kept.
LEMMA OrderedAll ==
  ASSUME NEW D, NEW s \in Seq(D), NEW S, ToSet(s) \subseteq S
  PROVE  Ordered(s, S) = s
<1>0. Len(s) \in Nat
  OBVIOUS
<1>1. Len(s) \in Nat /\ DOMAIN s = 1 .. Len(s) /\ \A i \in 1 .. Len(s) : s[i] \in D /\ s[i] \in S
  BY DEF ToSet
<1>2. PICK K : /\ Ordered(s, S) = K[Len(s)]
               /\ K[0] = << >>
               /\ \A n \in 1 .. Len(s) : K[n] = IF s[n] \in S THEN Append(K[n - 1], s[n]) ELSE K[n - 1]
  BY <1>0, OrderedSteps
<1> DEFINE Same(n) == K[n] \in Seq(D) /\ Len(K[n]) = n /\ \A i \in 1 .. n : K[n][i] = s[i]
           G == {n \in 0 .. Len(s) : Same(n)}
<1>3. 0 \in G
  <2>1. << >> \in Seq(D) /\ Len(<< >>) = 0
    OBVIOUS
  <2>2. Same(0)
    BY <1>2, <2>1
  <2> QED BY <1>0, <2>2
<1>4. ASSUME NEW n \in 1 .. Len(s), n - 1 \in G PROVE n \in G
  <2>1. K[n] = Append(K[n - 1], s[n]) /\ s[n] \in D
    BY <1>1, <1>2
  <2>2. K[n - 1] \in Seq(D) /\ Len(K[n - 1]) = n - 1 /\ \A i \in 1 .. n - 1 : K[n - 1][i] = s[i]
    BY <1>4
  <2>3. K[n] \in Seq(D) /\ Len(K[n]) = n - 1 + 1 /\ (\A i \in 1 .. n - 1 : K[n][i] = s[i]) /\ K[n][n - 1 + 1] = s[n]
    BY <2>1, <2>2, AppendProperties
  <2>4. n - 1 + 1 = n /\ n \in 0 .. Len(s) /\ \A i \in 1 .. n : i \in 1 .. n - 1 \/ i = n
    BY <1>1
  <2>5. Same(n)
    BY <2>3, <2>4
  <2> QED BY <2>4, <2>5
<1> HIDE DEF G
<1>5. Len(s) \in G
  BY <1>0, <1>3, <1>4, EveryPrefix
<1>6. Same(Len(s))
  BY <1>5 DEF G
<1> QED BY <1>2, <1>6, SeqEqual

\* Ordered makes no duplicates.
LEMMA OrderedInjective ==
  ASSUME NEW D, NEW s \in Seq(D), IsInjective(s), NEW S
  PROVE  IsInjective(Ordered(s, S))
<1>0. Len(s) \in Nat
  OBVIOUS
<1>1. /\ Len(s) \in Nat /\ DOMAIN s = 1 .. Len(s) /\ \A i \in 1 .. Len(s) : s[i] \in D
      /\ \A i, j \in 1 .. Len(s) : s[i] = s[j] => i = j
  BY DEF IsInjective
<1>2. PICK K : /\ Ordered(s, S) = K[Len(s)]
               /\ K[0] = << >>
               /\ \A n \in 1 .. Len(s) : K[n] = IF s[n] \in S THEN Append(K[n - 1], s[n]) ELSE K[n - 1]
  BY <1>0, OrderedSteps
<1> DEFINE Good(n) == K[n] \in Seq(D) /\ IsInjective(K[n]) /\ \A x \in ToSet(K[n]) : \E i \in 1 .. n : x = s[i]
           G == {n \in 0 .. Len(s) : Good(n)}
<1>3. 0 \in G
  <2>1. << >> \in Seq(D) /\ IsInjective(<< >>) /\ ToSet(<< >>) = {}
    BY DEF IsInjective, ToSet
  <2>2. Good(0)
    BY <1>2, <2>1
  <2> QED BY <1>0, <2>2
<1>4. ASSUME NEW n \in 1 .. Len(s), n - 1 \in G PROVE n \in G
  <2>1. K[n - 1] \in Seq(D) /\ IsInjective(K[n - 1]) /\ \A x \in ToSet(K[n - 1]) : \E i \in 1 .. n - 1 : x = s[i]
    BY <1>4
  <2>2. n \in 0 .. Len(s) /\ n \in 1 .. n /\ \A i \in 1 .. n - 1 : i \in 1 .. n /\ i \in 1 .. Len(s) /\ i # n
    BY <1>1
  <2>3. CASE s[n] \in S
    <3>1. K[n] = Append(K[n - 1], s[n]) /\ s[n] \in D
      BY <1>1, <1>2, <2>3
    <3>2. s[n] \notin ToSet(K[n - 1])
      BY <1>1, <2>1, <2>2
    <3>3. IsInjective(K[n])
      BY <2>1, <3>1, <3>2, AppendDistinct
    <3>4. K[n] \in Seq(D) /\ ToSet(K[n]) = ToSet(K[n - 1]) \cup {s[n]}
      BY <2>1, <3>1, AppendRange
    <3>5. \A x \in ToSet(K[n]) : \E i \in 1 .. n : x = s[i]
      BY <2>1, <2>2, <3>4
    <3> QED BY <2>2, <3>3, <3>4, <3>5
  <2>4. CASE s[n] \notin S
    <3>1. K[n] = K[n - 1]
      BY <1>2, <2>4
    <3> QED BY <2>1, <2>2, <3>1
  <2> QED BY <2>3, <2>4
<1> HIDE DEF G
<1>5. Len(s) \in G
  BY <1>0, <1>3, <1>4, EveryPrefix
<1> QED BY <1>2, <1>5 DEF G

-----------------------------------------------------------------------------
(* The slots of a report *)

\* keys[:n] keeps a prefix.
LEMMA TakeRange ==
  ASSUME NEW D, NEW s \in Seq(D), NEW n \in Nat
  PROVE  /\ Take(s, n) \in Seq(D)
         /\ Len(Take(s, n)) = IF Len(s) <= n THEN Len(s) ELSE n
         /\ ToSet(Take(s, n)) \subseteq ToSet(s)
         /\ Len(s) <= n => Take(s, n) = s
<1>1. Len(s) \in Nat /\ DOMAIN s = 1 .. Len(s)
  OBVIOUS
<1>2. CASE Len(s) <= n
  BY <1>2 DEF Take
<1>3. CASE ~ (Len(s) <= n)
  <2> DEFINE p == SubSeq(s, 1, n)
  <2>1. Take(s, n) = p
    BY <1>3 DEF Take
  <2>2. \A i \in 1 .. n : s[i] \in D
    BY <1>1, <1>3
  <2>3. /\ p \in Seq(D)
        /\ Len(p) = IF 1 <= n THEN n - 1 + 1 ELSE 0
        /\ \A i \in 1 .. n - 1 + 1 : p[i] = s[1 + i - 1]
    BY <2>2, SubSeqProperties
  <2> HIDE DEF p
  <2>4. Len(p) = n /\ \A i \in 1 .. n : p[i] = s[i]
    BY <2>3
  <2>5. DOMAIN p = 1 .. n
    BY <2>3, <2>4
  <2>6. ToSet(p) \subseteq ToSet(s)
    BY <1>1, <1>3, <2>4, <2>5 DEF ToSet
  <2> QED BY <1>3, <2>1, <2>3, <2>4, <2>6
<1> QED BY <1>2, <1>3

\* The slots only hold listed keys, and a listed trigger key always gets one.
LEMMA SlotsRange ==
  ASSUME NEW D, NEW ordered \in Seq(D), NEW t, NEW trig \in {{}, {t}}
  PROVE  /\ ToSet(Slots(ordered, trig)) \subseteq ToSet(ordered)
         /\ trig \cap ToSet(ordered) \subseteq ToSet(Slots(ordered, trig))
<1> DEFINE keys == Take(ordered, MAX_KEYS)
           absent == trig \ ToSet(keys)
           missing == Ordered(ordered, absent)
           slots == Slots(ordered, trig)
<1>1. MAX_KEYS \in Nat /\ MAX_KEYS >= 1
  BY SlotsAssumption
<1>2. /\ keys \in Seq(D)
      /\ Len(keys) = IF Len(ordered) <= MAX_KEYS THEN Len(ordered) ELSE MAX_KEYS
      /\ ToSet(keys) \subseteq ToSet(ordered)
      /\ Len(ordered) <= MAX_KEYS => keys = ordered
  BY <1>1, TakeRange
<1>3. /\ missing \in Seq(D)
      /\ ToSet(missing) = ToSet(ordered) \cap absent
  BY OrderedRange
<1>4. slots = [i \in DOMAIN keys |->
                 IF MAX_KEYS + 1 - i <= Len(missing)
                 THEN missing[MAX_KEYS + 1 - i] ELSE keys[i]]
  BY DEF Slots
<1> HIDE DEF keys, absent, missing, slots
<1>5. /\ Len(keys) \in Nat /\ DOMAIN keys = 1 .. Len(keys)
      /\ Len(missing) \in Nat /\ DOMAIN missing = 1 .. Len(missing)
      /\ Len(ordered) \in Nat
  BY <1>2, <1>3
<1>6. Len(keys) <= MAX_KEYS
  BY <1>1, <1>2, <1>5
<1>7. ToSet(slots) \subseteq ToSet(ordered)
  <2> SUFFICES ASSUME NEW i \in DOMAIN keys PROVE slots[i] \in ToSet(ordered)
    BY <1>4 DEF ToSet
  <2>1. CASE MAX_KEYS + 1 - i <= Len(missing)
    <3>1. MAX_KEYS + 1 - i \in DOMAIN missing
      BY <1>1, <1>5, <1>6, <2>1
    <3>2. slots[i] \in ToSet(missing)
      BY <1>4, <2>1, <3>1 DEF ToSet
    <3> QED BY <1>3, <3>2
  <2>2. CASE ~ (MAX_KEYS + 1 - i <= Len(missing))
    <3>1. slots[i] \in ToSet(keys)
      BY <1>4, <2>2 DEF ToSet
    <3> QED BY <1>2, <3>1
  <2> QED BY <2>1, <2>2
<1>8. ASSUME NEW u \in trig \cap ToSet(ordered) PROVE u \in ToSet(slots)
  <2>1. trig = {u} /\ u \in ToSet(ordered)
    OBVIOUS
  <2>2. CASE u \in ToSet(keys)
    <3>1. absent = {}
      BY <2>1, <2>2 DEF absent
    <3>2. ToSet(missing) = {}
      BY <1>3, <3>1
    <3>3. Len(missing) = 0
      <4>1. 1 \notin DOMAIN missing
        BY <3>2 DEF ToSet
      <4> QED BY <1>5, <4>1
    <3>4. \A i \in DOMAIN keys : ~ (MAX_KEYS + 1 - i <= Len(missing))
      BY <1>1, <1>5, <1>6, <3>3
    <3>5. slots = [i \in DOMAIN keys |-> keys[i]]
      BY <1>4, <3>4
    <3> QED BY <2>2, <3>5 DEF ToSet
  <2>3. CASE u \notin ToSet(keys)
    <3>1. absent = {u}
      BY <2>1, <2>3 DEF absent
    <3>2. ToSet(missing) = {u}
      BY <1>3, <2>1, <3>1
    <3>3. 1 \in DOMAIN missing /\ missing[1] = u
      <4>1. PICK i \in DOMAIN missing : missing[i] = u
        BY <3>2 DEF ToSet
      <4>2. 1 \in DOMAIN missing
        BY <1>5, <4>1
      <4>3. missing[1] \in ToSet(missing)
        BY <4>2 DEF ToSet
      <4> QED BY <3>2, <4>2, <4>3
    <3>4. Len(keys) = MAX_KEYS
      BY <1>2, <2>1, <2>3
    <3>5. MAX_KEYS \in DOMAIN keys /\ MAX_KEYS + 1 - MAX_KEYS = 1 /\ 1 <= Len(missing)
      BY <1>1, <1>5, <3>3, <3>4
    <3>6. slots[MAX_KEYS] = u /\ MAX_KEYS \in DOMAIN slots
      BY <1>4, <3>3, <3>5
    <3> QED BY <3>6 DEF ToSet
  <2> QED BY <2>2, <2>3
<1> QED BY <1>7, <1>8 DEF slots

\* The entry at i of a list without duplicates is in the report: it is one of the first, it is
\* the trigger's, or it is in the last slot and no trigger key that came later takes it.
Late(o, trig) == \E j \in DOMAIN o : j > MAX_KEYS /\ o[j] \in trig
HasSlot(o, trig, i) == i < MAX_KEYS \/ o[i] \in trig \/ (i = MAX_KEYS /\ ~ Late(o, trig))

LEMMA SlotsAre ==
  ASSUME NEW D, NEW o \in Seq(D), IsInjective(o), NEW trig, \A u, v \in trig : u = v
  PROVE  \A x : x \in ToSet(Slots(o, trig)) <=> \E i \in DOMAIN o : HasSlot(o, trig, i) /\ x = o[i]
<1> DEFINE keys == Take(o, MAX_KEYS)
           absent == trig \ ToSet(keys)
           missing == Ordered(o, absent)
           slots == Slots(o, trig)
           N == Len(o)
<1>1. MAX_KEYS \in Nat /\ MAX_KEYS >= 1
  BY SlotsAssumption
<1>2. /\ N \in Nat /\ DOMAIN o = 1 .. N
      /\ \A i, j \in 1 .. N : o[i] = o[j] => i = j
  BY DEF IsInjective
<1>3. /\ keys \in Seq(D) /\ Len(keys) = IF N <= MAX_KEYS THEN N ELSE MAX_KEYS
      /\ \A i \in 1 .. Len(keys) : keys[i] = o[i]
  <2>1. keys \in Seq(D) /\ Len(keys) = IF N <= MAX_KEYS THEN N ELSE MAX_KEYS
    BY <1>1, TakeRange
  <2>2. CASE N <= MAX_KEYS
    BY <2>2 DEF Take
  <2>3. CASE ~ (N <= MAX_KEYS)
    <3> DEFINE p == SubSeq(o, 1, MAX_KEYS)
    <3>1. keys = p
      BY <2>3 DEF Take
    <3>2. \A i \in 1 .. MAX_KEYS : o[i] \in D
      BY <1>1, <1>2, <2>3
    <3>3. /\ p \in Seq(D)
          /\ Len(p) = IF 1 <= MAX_KEYS THEN MAX_KEYS - 1 + 1 ELSE 0
          /\ \A i \in 1 .. MAX_KEYS - 1 + 1 : p[i] = o[1 + i - 1]
      BY <1>1, <3>2, SubSeqProperties
    <3> HIDE DEF keys, p
    <3>4. \A i \in 1 .. MAX_KEYS : p[i] = o[i]
      BY <1>1, <3>3
    <3> QED BY <1>1, <2>1, <2>3, <3>1, <3>4
  <2> QED BY <2>1, <2>2, <2>3
<1>4. missing \in Seq(D) /\ IsInjective(missing) /\ ToSet(missing) = ToSet(o) \cap absent
  BY OrderedRange, OrderedInjective
<1>5. slots = [i \in DOMAIN keys |->
                 IF MAX_KEYS + 1 - i <= Len(missing)
                 THEN missing[MAX_KEYS + 1 - i] ELSE keys[i]]
  BY DEF Slots
<1> HIDE DEF keys, missing, slots, N
<1>6. /\ Len(keys) \in Nat /\ DOMAIN keys = 1 .. Len(keys) /\ Len(keys) <= MAX_KEYS /\ Len(keys) <= N
      /\ Len(missing) \in Nat /\ DOMAIN missing = 1 .. Len(missing)
  BY <1>1, <1>2, <1>3, <1>4
<1>7. /\ \A x : x \in ToSet(o) <=> \E i \in 1 .. N : x = o[i]
      /\ \A x : x \in ToSet(keys) <=> \E i \in 1 .. Len(keys) : x = keys[i]
      /\ \A x : x \in ToSet(missing) <=> \E i \in 1 .. Len(missing) : x = missing[i]
  BY <1>2, <1>6 DEF ToSet
<1>8. Late(o, trig) <=> \E x \in absent : x \in ToSet(o)
  <2>1. ASSUME NEW j \in 1 .. N, o[j] \in trig PROVE j > MAX_KEYS <=> o[j] \notin ToSet(keys)
    <3>1. \A i \in 1 .. Len(keys) : i \in 1 .. N
      BY <1>2, <1>6
    <3>2. o[j] \in ToSet(keys) <=> \E i \in 1 .. Len(keys) : i = j
      BY <1>2, <1>3, <1>7, <2>1, <3>1
    <3>3. j \in 1 .. Len(keys) <=> ~ (j > MAX_KEYS)
      BY <1>1, <1>2, <1>3
    <3> QED BY <3>2, <3>3
  <2> QED BY <1>2, <1>7, <2>1 DEF Late
<1>9. CASE Late(o, trig)
  <2>0. PICK t : t \in trig
    BY <1>9 DEF Late
  <2>1. trig = {t} /\ absent = {t} /\ ToSet(missing) = {t}
    BY <1>4, <1>8, <1>9, <2>0
  <2>2. Len(missing) = 1 /\ missing[1] = t
    <3>1. \A i \in 1 .. Len(missing) : missing[i] = t
      BY <1>7, <2>1
    <3>2. \A i, j \in 1 .. Len(missing) : i = j
      BY <1>4, <1>6, <3>1 DEF IsInjective
    <3>3. \E i \in 1 .. Len(missing) : TRUE
      BY <1>7, <2>1
    <3> QED BY <1>6, <3>1, <3>2, <3>3
  <2>3. N > MAX_KEYS /\ Len(keys) = MAX_KEYS
    BY <1>1, <1>2, <1>3, <1>9 DEF Late
  <2>4. /\ DOMAIN slots = 1 .. MAX_KEYS /\ slots[MAX_KEYS] = t
        /\ \A i \in 1 .. MAX_KEYS : i # MAX_KEYS => slots[i] = o[i]
    BY <1>1, <1>3, <1>5, <1>6, <2>2, <2>3
  <2>5. t \in ToSet(o)
    BY <1>4, <2>1
  <2>6. \A x : x \in ToSet(slots) <=> x = t \/ \E i \in 1 .. N : i < MAX_KEYS /\ x = o[i]
    <3>1. \A x : x \in ToSet(slots) <=> \E i \in 1 .. MAX_KEYS : x = slots[i]
      BY <2>4 DEF ToSet
    <3>2. MAX_KEYS \in 1 .. MAX_KEYS /\ \A i \in 1 .. N : i < MAX_KEYS <=> i \in 1 .. MAX_KEYS /\ i # MAX_KEYS
      BY <1>1, <1>2, <2>3
    <3>3. \A i \in 1 .. MAX_KEYS : i \in 1 .. N
      BY <1>1, <1>2, <2>3
    <3> QED BY <2>4, <3>1, <3>2, <3>3
  <2>7. \A i \in 1 .. N : HasSlot(o, trig, i) <=> i < MAX_KEYS \/ o[i] = t
    BY <1>9, <2>1 DEF HasSlot
  <2> QED BY <1>2, <1>7, <2>5, <2>6, <2>7 DEF slots
<1>10. CASE ~ Late(o, trig)
  <2>1. ToSet(missing) = {}
    BY <1>4, <1>8, <1>10
  <2>2. Len(missing) = 0
    <3>1. 1 \notin 1 .. Len(missing)
      BY <1>7, <2>1
    <3> QED BY <1>6, <3>1
  <2>3. DOMAIN slots = 1 .. Len(keys) /\ \A i \in 1 .. Len(keys) : slots[i] = o[i]
    BY <1>1, <1>3, <1>5, <1>6, <2>2
  <2>4. \A x : x \in ToSet(slots) <=> \E i \in 1 .. Len(keys) : x = o[i]
    BY <2>3 DEF ToSet
  <2>5. \A i \in 1 .. N : i \in 1 .. Len(keys) <=> i < MAX_KEYS \/ i = MAX_KEYS
    BY <1>1, <1>2, <1>3
  <2>6. \A i \in 1 .. N : HasSlot(o, trig, i) <=> i \in 1 .. Len(keys)
    BY <1>1, <1>2, <1>10, <2>5 DEF HasSlot, Late
  <2>7. \A i \in 1 .. Len(keys) : i \in 1 .. N
    BY <1>2, <1>6
  <2> QED BY <1>2, <2>4, <2>6, <2>7 DEF slots
<1> QED BY <1>9, <1>10

-----------------------------------------------------------------------------
(* The state machine *)

\* Typing and HeldInOrder hold together: each method preserves both.
IInv == TypeOK /\ HeldInOrder

LEMMA InitInv == KeyInit => IInv
<1>1. << >> \in Seq(AllUsages)
  OBVIOUS
<1> QED BY <1>1 DEF KeyInit, IInv, TypeOK, HeldInOrder, TriggerSets, held

LEMMA NextInv == IInv /\ [Next]_keyVars => IInv'
<1> SUFFICES ASSUME IInv, [Next]_keyVars PROVE IInv'
  OBVIOUS
<1> USE DEF IInv, TypeOK, HeldInOrder, held
<1>0. /\ order \in Seq(AllUsages)
      /\ Usages \subseteq AllUsages /\ TriggerUsage \in AllUsages
  BY DEF AllUsages
<1>1. ASSUME NEW u \in Usages, press_physical(u) PROVE IInv'
  <2>1. CASE u \in physical
    BY <1>1, <2>1 DEF press_physical
  <2>2. CASE u \notin physical
    <3>1. order' = Append(order, u) /\ u \in AllUsages
      BY <1>0, <1>1, <2>2 DEF press_physical
    <3>2. order' \in Seq(AllUsages) /\ ToSet(order') = ToSet(order) \cup {u}
      BY <1>0, <3>1, AppendRange
    <3> QED BY <1>1, <2>2, <3>2 DEF press_physical
  <2> QED BY <2>1, <2>2
<1>2. ASSUME NEW u \in Usages, release_physical(u) PROVE IInv'
  <2>1. CASE u \in trigger
    BY <1>2, <2>1 DEF release_physical
  <2>2. CASE u \notin trigger
    <3>1. order' \in Seq(AllUsages) /\ ToSet(order) \ {u} \subseteq ToSet(order')
      BY <1>0, <1>2, <2>2, RemoveFirstRange DEF release_physical
    <3> QED BY <1>2, <2>2, <3>1 DEF release_physical
  <2> QED BY <2>1, <2>2
<1>3. ASSUME NEW bit \in ModifierBits, NEW down \in BOOLEAN, set_modifier_bit(bit, down)
      PROVE  IInv'
  BY <1>3 DEF set_modifier_bit
<1>4. ASSUME clear_physical PROVE IInv'
  <2>1. order' \in Seq(AllUsages) /\ ToSet(order') = ToSet(order) \cap trigger
    BY <1>0, <1>4, OrderedRange DEF clear_physical
  <2> QED BY <1>4, <2>1 DEF clear_physical
<1>5. ASSUME NEW new \in TriggerSets, set_trigger(new) PROVE IInv'
  <2>1. trigger' = new /\ physical' = physical /\ modifiers' = modifiers
    BY <1>5 DEF set_trigger
  <2>2. CASE new = trigger \/ TriggerUsage \in physical
    <3>1. order' = order
      BY <1>5, <2>2 DEF set_trigger
    <3> QED BY <2>1, <2>2, <3>1 DEF TriggerSets
  <2>3. CASE ~ (new = trigger \/ TriggerUsage \in physical) /\ new # {}
    <3>1. order' = Append(order, TriggerUsage)
      BY <1>5, <2>3 DEF set_trigger
    <3>2. order' \in Seq(AllUsages) /\ ToSet(order') = ToSet(order) \cup {TriggerUsage}
      BY <1>0, <3>1, AppendRange
    <3> QED BY <2>1, <3>2 DEF TriggerSets
  <2>4. CASE ~ (new = trigger \/ TriggerUsage \in physical) /\ new = {}
    <3>1. order' = RemoveFirst(order, TriggerUsage)
      BY <1>5, <2>4 DEF set_trigger
    <3>2. order' \in Seq(AllUsages) /\ ToSet(order) \ {TriggerUsage} \subseteq ToSet(order')
      BY <1>0, <3>1, RemoveFirstRange
    <3> QED BY <2>1, <2>4, <3>2 DEF TriggerSets
  <2> QED BY <2>2, <2>3, <2>4
<1>6. CASE UNCHANGED keyVars
  BY <1>6 DEF keyVars
<1> QED BY <1>1, <1>2, <1>3, <1>4, <1>5, <1>6 DEF Next

\* The state of KeyState keeps its types whatever the threads call, and order
\* never names a usage that neither source can press (report.py:36-102).
THEOREM TypeCorrect == Spec => []TypeOK
<1>1. IInv => TypeOK
  BY DEF IInv
<1> QED BY InitInv, NextInv, <1>1, PTL DEF Spec

\* Every held key has an entry in order (report.py:48-102), for every set of
\* keys, the trigger key among them or not.
THEOREM OrderCoversHeld == Spec => []HeldInOrder
<1>1. IInv => HeldInOrder
  BY DEF IInv
<1> QED BY InitInv, NextInv, <1>1, PTL DEF Spec

\* What a report holds, in any state that satisfies the invariant.
LEMMA ReportedRange ==
  ASSUME IInv
  PROVE  reported \subseteq held /\ trigger \subseteq reported
<1> DEFINE o == Ordered(order, held)
<1>1. o \in Seq(AllUsages) /\ ToSet(o) = held
  <2>1. order \in Seq(AllUsages) /\ held \subseteq ToSet(order)
    BY DEF IInv, TypeOK, HeldInOrder
  <2>2. o \in Seq(AllUsages) /\ ToSet(o) = ToSet(order) \cap held
    BY <2>1, OrderedRange
  <2> QED BY <2>1, <2>2
<1>2. trigger \in {{}, {TriggerUsage}}
  BY DEF IInv, TypeOK, TriggerSets
<1>3. reported = ToSet(Slots(o, trigger))
  BY DEF reported, build
<1> HIDE DEF o
<1>4. /\ ToSet(Slots(o, trigger)) \subseteq ToSet(o)
      /\ trigger \cap ToSet(o) \subseteq ToSet(Slots(o, trigger))
  BY <1>1, <1>2, SlotsRange
<1> QED BY <1>1, <1>3, <1>4 DEF held

\* A report never holds down a key that no source holds (report.py:12-13), although
\* order may list keys that were released.
THEOREM NothingInvented == Spec => []ReportedAreHeld
<1>1. IInv => ReportedAreHeld
  BY ReportedRange DEF ReportedAreHeld
<1> QED BY InitInv, NextInv, <1>1, PTL DEF Spec

\* An active trigger is in every report, whatever else is held and however few slots
\* the report has (report.py:20-23, 109-119).
THEOREM TriggerAlwaysReported == Spec => []TriggerNeverLost
<1>1. IInv => TriggerNeverLost
  BY ReportedRange DEF TriggerNeverLost
<1> QED BY InitInv, NextInv, <1>1, PTL DEF Spec

-----------------------------------------------------------------------------
(* The refinement of KeyMerge, when the trigger key is not one that anybody   *)
(* can press: then order has no duplicates and lists exactly what is held.    *)

MergeInv == IInv /\ IsInjective(order) /\ ToSet(order) = held

\* Every entry of o that H still wants is in p, no further back.
NoFurtherBack(o, p, H) == \A i \in DOMAIN o : o[i] \in H => \E k \in DOMAIN p : k <= i /\ p[k] = o[i]

\* list.remove moves nothing back and makes no duplicate.
LEMMA RemoveFirstDistinct ==
  ASSUME NEW D, NEW s \in Seq(D), NEW e, IsInjective(s)
  PROVE  /\ IsInjective(RemoveFirst(s, e)) /\ ToSet(RemoveFirst(s, e)) = ToSet(s) \ {e}
         /\ \A H : e \notin H => NoFurtherBack(s, RemoveFirst(s, e), H)
<1> DEFINE r == RemoveFirst(s, e)
<1>1. Len(s) \in Nat /\ DOMAIN s = 1 .. Len(s) /\ \A i, j \in 1 .. Len(s) : s[i] = s[j] => i = j
  BY DEF IsInjective
<1>2. CASE e \notin ToSet(s)
  <2>1. r = s
    BY <1>2 DEF RemoveFirst, ToSet
  <2>2. \A H : NoFurtherBack(s, s, H)
    BY <1>1 DEF NoFurtherBack
  <2> QED BY <1>2, <2>1, <2>2
<1>3. CASE e \in ToSet(s)
  <2>1. PICK k \in 1 .. Len(s) :
          /\ s[k] = e /\ r \in Seq(D) /\ Len(r) = Len(s) - 1
          /\ \A i \in 1 .. Len(s) - 1 : r[i] = IF i < k THEN s[i] ELSE s[i + 1]
    BY <1>3, RemoveFirstAt
  <2>2. ToSet(r) \subseteq ToSet(s) /\ ToSet(s) \ {e} \subseteq ToSet(r)
    BY RemoveFirstRange
  <2> HIDE DEF r
  <2>3. DOMAIN r = 1 .. Len(s) - 1
    BY <1>1, <2>1
  <2>4. \A i \in 1 .. Len(s) - 1 : /\ i \in 1 .. Len(s) /\ i + 1 \in 1 .. Len(s)
                                   /\ i < k => i # k
                                   /\ ~ (i < k) => i + 1 # k
    BY <1>1
  <2>5. \A i \in 1 .. Len(s) - 1 : r[i] # e
    BY <1>1, <2>1, <2>4
  <2>6. \A i, j \in 1 .. Len(s) - 1 : r[i] = r[j] => i = j
    BY <1>1, <2>1, <2>4
  <2>7. IsInjective(r) /\ e \notin ToSet(r)
    BY <2>3, <2>5, <2>6 DEF IsInjective, ToSet
  <2>8. ASSUME NEW H, e \notin H PROVE NoFurtherBack(s, r, H)
    <3> SUFFICES ASSUME NEW i \in 1 .. Len(s), s[i] # e
                 PROVE  \E j \in 1 .. Len(s) - 1 : j <= i /\ r[j] = s[i]
      BY <1>1, <2>3, <2>8 DEF NoFurtherBack
    <3>1. CASE i < k
      <4>1. i \in 1 .. Len(s) - 1 /\ i <= i
        BY <1>1, <3>1
      <4> QED BY <2>1, <3>1, <4>1
    <3>2. CASE ~ (i < k)
      <4>1. i - 1 \in 1 .. Len(s) - 1 /\ i - 1 <= i /\ ~ (i - 1 < k) /\ (i - 1) + 1 = i
        BY <1>1, <2>1, <3>2
      <4>2. r[i - 1] = s[i]
        BY <2>1, <4>1
      <4> QED BY <4>1, <4>2
    <3> QED BY <3>1, <3>2
  <2> QED BY <2>2, <2>7, <2>8 DEF r
<1> QED BY <1>2, <1>3

\* What was in the report and is still wanted stays, if nothing moved back and no trigger key
\* came.
LEMMA NothingEvicted ==
  ASSUME NEW D, NEW o \in Seq(D), NEW p \in Seq(D), IsInjective(o), IsInjective(p),
         NEW trig, \A u, v \in trig : u = v, NEW trig2 \in SUBSET trig, NEW H,
         trig \subseteq ToSet(o), trig \cap H \subseteq trig2, trig2 \subseteq H, NoFurtherBack(o, p, H)
  PROVE  ToSet(Slots(o, trig)) \cap H \subseteq ToSet(Slots(p, trig2))
<1>0. (\A u, v \in trig2 : u = v) /\ MAX_KEYS \in Nat
  BY SlotsAssumption
<1>1. /\ \A x : x \in ToSet(Slots(o, trig)) <=> \E i \in DOMAIN o : HasSlot(o, trig, i) /\ x = o[i]
      /\ \A x : x \in ToSet(Slots(p, trig2)) <=> \E i \in DOMAIN p : HasSlot(p, trig2, i) /\ x = p[i]
  BY <1>0, SlotsAre
<1>2. /\ DOMAIN o = 1 .. Len(o) /\ Len(o) \in Nat /\ DOMAIN p = 1 .. Len(p) /\ Len(p) \in Nat
      /\ \A i, j \in 1 .. Len(p) : p[i] = p[j] => i = j
  BY DEF IsInjective
<1>3. ~ Late(o, trig) => ~ Late(p, trig2)
  <2> SUFFICES ASSUME NEW j \in 1 .. Len(p), j > MAX_KEYS, p[j] \in trig2
               PROVE  Late(o, trig)
    BY <1>2 DEF Late
  <2>1. p[j] \in trig /\ p[j] \in H
    OBVIOUS
  <2>2. PICK i \in 1 .. Len(o) : o[i] = p[j]
    BY <1>2, <2>1 DEF ToSet
  <2>3. PICK k \in 1 .. Len(p) : k <= i /\ p[k] = o[i]
    BY <1>2, <2>1, <2>2 DEF NoFurtherBack
  <2>4. k = j
    BY <1>2, <2>2, <2>3
  <2>5. i > MAX_KEYS
    BY <1>0, <1>2, <2>3, <2>4
  <2> QED BY <1>2, <2>1, <2>2, <2>5 DEF Late
<1>4. ASSUME NEW i \in 1 .. Len(o), HasSlot(o, trig, i), o[i] \in H
      PROVE  \E k \in 1 .. Len(p) : HasSlot(p, trig2, k) /\ p[k] = o[i]
  <2>1. PICK k \in 1 .. Len(p) : k <= i /\ p[k] = o[i]
    BY <1>2, <1>4 DEF NoFurtherBack
  <2>2. k < MAX_KEYS \/ k = MAX_KEYS \/ ~ (i <= MAX_KEYS)
    BY <1>0, <1>2, <2>1
  <2>3. CASE o[i] \in trig
    BY <1>4, <2>1, <2>3 DEF HasSlot
  <2>4. CASE i < MAX_KEYS
    <3>1. k < MAX_KEYS
      BY <1>0, <1>2, <2>1, <2>4
    <3> QED BY <2>1, <3>1 DEF HasSlot
  <2>5. CASE i = MAX_KEYS /\ ~ Late(o, trig)
    <3>1. k < MAX_KEYS \/ k = MAX_KEYS
      BY <1>0, <1>2, <2>1, <2>5
    <3> QED BY <1>3, <2>1, <2>5, <3>1 DEF HasSlot
  <2> QED BY <1>4, <2>3, <2>4, <2>5 DEF HasSlot
<1> QED BY <1>1, <1>2, <1>4

\* What fits is all reported.
LEMMA AllFits ==
  ASSUME NEW D, NEW o \in Seq(D), IsInjective(o), NEW trig, \A u, v \in trig : u = v,
         Cardinality(ToSet(o)) <= MAX_KEYS
  PROVE  ToSet(Slots(o, trig)) = ToSet(o)
<1>0. MAX_KEYS \in Nat /\ Len(o) \in Nat /\ DOMAIN o = 1 .. Len(o)
  BY SlotsAssumption
<1>1. IsFiniteSet(1 .. Len(o)) /\ Cardinality(1 .. Len(o)) = Len(o)
  <2>1. IsFiniteSet(1 .. Len(o)) /\ Cardinality(1 .. Len(o)) = IF 1 > Len(o) THEN 0 ELSE Len(o) - 1 + 1
    <3>1. 1 \in Int /\ Len(o) \in Int
      BY <1>0
    <3> QED BY <3>1, FS_Interval
  <2> QED BY <1>0, <2>1
<1>2. o \in Surjection(1 .. Len(o), ToSet(o)) /\ o \in Injection(1 .. Len(o), ToSet(o))
  <2>1. o \in [1 .. Len(o) -> ToSet(o)]
    BY <1>0 DEF ToSet
  <2>2. \A x \in ToSet(o) : \E i \in 1 .. Len(o) : o[i] = x
    BY <1>0 DEF ToSet
  <2> QED BY <2>1, <2>2 DEF Surjection, Injection
<1>3. Cardinality(ToSet(o)) = Len(o)
  BY <1>1, <1>2, FS_Surjection
<1>4. \A i \in DOMAIN o : HasSlot(o, trig, i)
  BY <1>0, <1>3 DEF HasSlot, Late
<1>5. \A x : x \in ToSet(Slots(o, trig)) <=> \E i \in DOMAIN o : HasSlot(o, trig, i) /\ x = o[i]
  BY SlotsAre
<1> QED BY <1>4, <1>5 DEF ToSet

LEMMA MergeInit == KeyInit => MergeInv
<1> SUFFICES ASSUME KeyInit PROVE IsInjective(order) /\ ToSet(order) = held
  BY InitInv DEF MergeInv
<1> QED BY DEF KeyInit, IsInjective, ToSet, held

\* One step: nobody can press the trigger key, so each key has at most one entry.  What is
\* still held moves nowhere back unless a trigger key came.
LEMMA MergeStep ==
  ASSUME TriggerUsage \notin Usages, MergeInv, [Next]_keyVars
  PROVE  MergeInv' /\ (trigger' \subseteq trigger => NoFurtherBack(order, order', held'))
<1> USE DEF held
<1>1. IInv'
  BY NextInv DEF MergeInv
<1>2. /\ order \in Seq(AllUsages) /\ IsInjective(order) /\ ToSet(order) = physical \cup trigger
      /\ physical \subseteq Usages /\ trigger \in TriggerSets
      /\ \A u \in Usages : u \in AllUsages /\ u \notin trigger
      /\ TriggerUsage \in AllUsages /\ TriggerUsage \notin physical
  BY DEF MergeInv, IInv, TypeOK, TriggerSets, AllUsages
<1>3. \A H : NoFurtherBack(order, order, H)
  <2>1. DOMAIN order \subseteq Nat
    BY <1>2
  <2> QED BY <2>1 DEF NoFurtherBack
<1> SUFFICES /\ IsInjective(order') /\ ToSet(order') = held'
             /\ trigger' \subseteq trigger => NoFurtherBack(order, order', held')
  BY <1>1 DEF MergeInv
<1>4. ASSUME NEW u \in AllUsages, u \notin held, order' = Append(order, u)
      PROVE  /\ IsInjective(order') /\ ToSet(order') = held \cup {u}
             /\ \A H : NoFurtherBack(order, order', H)
  <2>1. IsInjective(order') /\ ToSet(order') = ToSet(order) \cup {u}
    BY <1>2, <1>4, AppendDistinct, AppendRange
  <2>2. /\ DOMAIN order = 1 .. Len(order) /\ DOMAIN order' = 1 .. Len(order) + 1 /\ Len(order) \in Nat
        /\ \A i \in 1 .. Len(order) : order'[i] = order[i]
    BY <1>2, <1>4
  <2>3. \A i \in 1 .. Len(order) : i \in 1 .. Len(order) + 1 /\ i <= i
    BY <2>2
  <2>4. \A H : NoFurtherBack(order, order', H)
    BY <2>2, <2>3 DEF NoFurtherBack
  <2> QED BY <1>2, <2>1, <2>4
<1>5. ASSUME NEW u, order' = RemoveFirst(order, u)
      PROVE  /\ IsInjective(order') /\ ToSet(order') = held \ {u}
             /\ \A H : u \notin H => NoFurtherBack(order, order', H)
  BY <1>2, <1>5, RemoveFirstDistinct
<1>6. ASSUME NEW u \in Usages, press_physical(u)
      PROVE  IsInjective(order') /\ ToSet(order') = held' /\ NoFurtherBack(order, order', held')
  <2>1. CASE u \in physical
    BY <1>2, <1>3, <1>6, <2>1 DEF press_physical
  <2>2. CASE u \notin physical
    <3>1. order' = Append(order, u) /\ held' = held \cup {u}
      BY <1>6, <2>2 DEF press_physical
    <3> QED BY <1>2, <1>4, <2>2, <3>1
  <2> QED BY <2>1, <2>2
<1>7. ASSUME NEW u \in Usages, release_physical(u)
      PROVE  IsInjective(order') /\ ToSet(order') = held' /\ NoFurtherBack(order, order', held')
  <2>1. order' = RemoveFirst(order, u) /\ held' = held \ {u}
    BY <1>2, <1>7 DEF release_physical
  <2> QED BY <1>5, <2>1
<1>8. ASSUME NEW bit \in ModifierBits, NEW down \in BOOLEAN, set_modifier_bit(bit, down)
      PROVE  UNCHANGED <<physical, trigger, order>>
  BY <1>8 DEF set_modifier_bit
<1>9. ASSUME clear_physical
      PROVE  IsInjective(order') /\ ToSet(order') = held' /\ NoFurtherBack(order, order', held')
  <2>1. order' = Ordered(order, trigger) /\ held' = trigger
    BY <1>9 DEF clear_physical
  <2>2. order' \in Seq(AllUsages) /\ IsInjective(order') /\ ToSet(order') = trigger
    <3>1. IsInjective(Ordered(order, trigger))
      BY <1>2, OrderedInjective
    <3>2. Ordered(order, trigger) \in Seq(AllUsages) /\ ToSet(Ordered(order, trigger)) = ToSet(order) \cap trigger
      BY <1>2, OrderedRange
    <3> QED BY <1>2, <2>1, <3>1, <3>2
  <2>3. DOMAIN order = 1 .. Len(order) /\ DOMAIN order' = 1 .. Len(order') /\ Len(order) \in Nat /\ Len(order') \in Nat
    BY <1>2, <2>2
  <2>4. ASSUME NEW i \in 1 .. Len(order), order[i] \in trigger
        PROVE  1 \in 1 .. Len(order') /\ 1 <= i /\ order'[1] = order[i]
    <3>1. \E k \in 1 .. Len(order') : order'[k] = order[i]
      BY <2>2, <2>3, <2>4 DEF ToSet
    <3>2. 1 \in 1 .. Len(order') /\ 1 <= i
      BY <2>3, <3>1
    <3>3. order'[1] \in trigger
      BY <2>2, <2>3, <3>2 DEF ToSet
    <3> QED BY <1>2, <2>4, <3>2, <3>3 DEF TriggerSets
  <2> QED BY <2>1, <2>2, <2>3, <2>4 DEF NoFurtherBack
<1>10. ASSUME NEW new \in TriggerSets, set_trigger(new)
       PROVE  /\ IsInjective(order') /\ ToSet(order') = held'
              /\ trigger' \subseteq trigger => NoFurtherBack(order, order', held')
  <2>1. trigger' = new /\ physical' = physical
    BY <1>10 DEF set_trigger
  <2>2. CASE new = trigger
    BY <1>2, <1>3, <1>10, <2>1, <2>2 DEF set_trigger
  <2>3. CASE new # trigger /\ new # {}
    <3>1. order' = Append(order, TriggerUsage) /\ held' = held \cup {TriggerUsage} /\ TriggerUsage \notin held
      BY <1>2, <1>10, <2>1, <2>3 DEF set_trigger, TriggerSets
    <3> QED BY <1>2, <1>4, <3>1
  <2>4. CASE new # trigger /\ new = {}
    <3>1. order' = RemoveFirst(order, TriggerUsage) /\ held' = held \ {TriggerUsage}
      BY <1>2, <1>10, <2>1, <2>4 DEF set_trigger, TriggerSets
    <3> QED BY <1>5, <3>1
  <2> QED BY <2>2, <2>3, <2>4
<1>11. CASE UNCHANGED <<physical, trigger, order>>
  BY <1>2, <1>3, <1>11
<1>12. CASE UNCHANGED keyVars
  BY <1>11, <1>12 DEF keyVars
<1> QED BY <1>6, <1>7, <1>8, <1>9, <1>10, <1>11, <1>12 DEF Next

\* KeyMerge counts as FiniteSets does.
LEMMA MergeCardinality == \A S : Merge!Cardinality(S) = Cardinality(S)
BY DEF Merge!Cardinality, Cardinality

\* What build reports when order has no duplicates.
LEMMA ReportedIs ==
  ASSUME MergeInv
  PROVE  /\ reported = ToSet(Slots(order, trigger))
         /\ Merge!Faithful(physical, trigger, reported)
<1>1. /\ order \in Seq(AllUsages) /\ IsInjective(order) /\ ToSet(order) = held
      /\ trigger \in TriggerSets
  BY DEF MergeInv, IInv, TypeOK
<1>2. Ordered(order, held) = order
  BY <1>1, OrderedAll
<1>3. reported = ToSet(Slots(order, trigger))
  BY <1>2 DEF reported, build
<1>4. \A u, v \in trigger : u = v
  BY <1>1 DEF TriggerSets
<1>5. Cardinality(held) <= MAX_KEYS => reported = held
  BY <1>1, <1>3, <1>4, AllFits
<1>6. reported \subseteq held /\ trigger \subseteq reported
  BY ReportedRange DEF MergeInv
<1>7. Merge!Faithful(physical, trigger, reported)
  BY <1>5, <1>6, MergeCardinality DEF held, Merge!Faithful
<1> QED BY <1>3, <1>7

\* Nobody presses the trigger key by hand: KeyState implements the abstract merge.  The report
\* is exact as long as what is held fits, the trigger always gets through, and no key that
\* stays held flickers unless a trigger key comes (report.py:12-23, 48-119).
THEOREM MergeRefined == TriggerUsage \notin Usages => (Spec => MergeSpec)
<1> SUFFICES ASSUME TriggerUsage \notin Usages PROVE Spec => MergeSpec
  OBVIOUS
<1> DEFINE Shown == /\ physical \subseteq AllUsages /\ trigger \subseteq AllUsages /\ reported \subseteq AllUsages
                    /\ Merge!Faithful(physical, trigger, reported)
                    /\ reported = ToSet(Slots(order, trigger))
<1>1. MergeInv => Shown
  <2> SUFFICES ASSUME MergeInv PROVE Shown
    OBVIOUS
  <2>1. physical \subseteq AllUsages /\ trigger \subseteq AllUsages
    BY DEF MergeInv, IInv, TypeOK, TriggerSets, AllUsages
  <2>2. reported \subseteq held
    BY ReportedRange DEF MergeInv
  <2> QED BY <2>1, <2>2, ReportedIs DEF held
<1>2. KeyInit => Merge!Init
  BY <1>1, MergeInit DEF Merge!Init, Shown
<1>3. MergeInv /\ [Next]_keyVars => MergeInv'
  BY MergeStep
<1> HIDE DEF Shown
<1>4. MergeInv' => Shown'
  BY <1>1, PTL
<1>5. ASSUME MergeInv, MergeInv', [Next]_keyVars
      PROVE  [Merge!Next]_(Merge!vars)
  <2>1. /\ physical' \subseteq AllUsages /\ trigger' \subseteq AllUsages
        /\ Merge!Faithful(physical', trigger', reported')
        /\ reported' = ToSet(Slots(order', trigger'))
    BY <1>4, <1>5 DEF Shown
  <2>2. reported = ToSet(Slots(order, trigger))
    BY <1>1, <1>5 DEF Shown
  <2>3. ASSUME trigger' \subseteq trigger
        PROVE  reported \cap held' \subseteq reported'
    <3>1. NoFurtherBack(order, order', held')
      BY <1>5, <2>3, MergeStep
    <3>2. /\ order \in Seq(AllUsages) /\ order' \in Seq(AllUsages) /\ IsInjective(order) /\ IsInjective(order')
          /\ trigger \subseteq ToSet(order) /\ trigger' \subseteq held'
      BY <1>5 DEF MergeInv, IInv, TypeOK, held
    <3>3. /\ \A u, v \in trigger : u = v
          /\ trigger \cap held' \subseteq trigger'
      BY <1>5 DEF MergeInv, IInv, TypeOK, TriggerSets, held
    <3> HIDE DEF held
    <3>4. ToSet(Slots(order, trigger)) \cap held' \subseteq ToSet(Slots(order', trigger'))
      BY <2>3, <3>1, <3>2, <3>3, NothingEvicted
    <3> QED BY <2>1, <2>2, <3>4
  <2>4. Merge!NoFlicker
    BY <2>3 DEF Merge!NoFlicker, held
  <2> QED BY <2>1, <2>4 DEF Merge!Next
<1> QED BY <1>2, <1>3, <1>5, MergeInit, PTL DEF Spec, MergeSpec, Merge!Spec

\* Nobody presses the trigger key by hand: a report with a slot for each held key has them all
\* (report.py:12-13).  When somebody may, a release can leave entries behind that take slots.
THEOREM MergeAlwaysExact == TriggerUsage \notin Usages => (Spec => []MergeExact)
<1> SUFFICES ASSUME TriggerUsage \notin Usages PROVE Spec => []MergeExact
  OBVIOUS
<1>1. ASSUME MergeInv PROVE MergeExact
  <2>1. Merge!Faithful(physical, trigger, reported)
    BY <1>1, ReportedIs
  <2> QED BY <2>1, MergeCardinality DEF Merge!Faithful, MergeExact, held
<1>2. MergeInv /\ [Next]_keyVars => MergeInv'
  BY MergeStep
<1> QED BY <1>1, <1>2, MergeInit, PTL DEF Spec
===============================================================================
