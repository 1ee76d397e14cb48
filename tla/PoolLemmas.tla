----------------------------- MODULE PoolLemmas -----------------------------
(***************************************************************************)
(* Facts about what the pools and caches are built from: the order of keys *)
(* (Append and RemoveFirst on a sequence without duplicates), the sum of   *)
(* what is charged (SumFunction), the arithmetic of pages and blocks, the  *)
(* last place of a queue, and lists without repetitions: what a cut or a   *)
(* join of them lists, and the ranks of a finite set of numbers.           *)
(*                                                                         *)
(* The library defines the sum by recursion over the subsets of a set, so  *)
(* that even the existence of that function needs an induction.  Each      *)
(* induction is done by a least counterexample.                            *)
(***************************************************************************)
EXTENDS Integers, FiniteSets, SequencesExt, FiniteSetTheorems,
        SequenceTheorems, WellFoundedInduction, TLAPS

Chosen(s) == CHOOSE x \in s : TRUE

(* g is the recursive function by which the sum of f over S is defined. *)
SumsUp(g, f, S) ==
  g = [s \in SUBSET S |-> IF s = {} THEN 0 ELSE f[Chosen(s)] + g[s \ {Chosen(s)}]]

LessThan == {ss \in Nat \X Nat : ss[1] < ss[2]}

(* Every set of naturals that is not empty has a least element. *)
LEMMA LeastNatural ==
  ASSUME NEW T \in SUBSET Nat, T # {}
  PROVE  \E m \in T : \A k \in T : m <= k
<1>1. IsWellFoundedOn(LessThan, Nat)
  <2>1. OpToRel(<, Nat) = LessThan
    BY Zenon DEF OpToRel, LessThan
  <2> QED
    BY <2>1, NatLessThanWellFounded, Zenon
<1>2. PICK m \in T : \A k \in T : ~(<<k, m>> \in LessThan)
  BY <1>1, WFMin
<1>3. ASSUME NEW k \in T PROVE m <= k
  <2>1. ~(<<k, m>> \in LessThan)
    BY <1>2
  <2>2. <<k, m>> \in Nat \X Nat
    OBVIOUS
  <2>3. ~(k < m)
    BY <2>1, <2>2 DEF LessThan
  <2> QED
    BY <2>3
<1> QED
  BY <1>3

(* A non-empty family of finite sets has a member of the least size. *)
LEMMA LeastSet ==
  ASSUME NEW S, IsFiniteSet(S), NEW F \in SUBSET (SUBSET S), F # {}
  PROVE  \E s \in F : \A t \in F : Cardinality(s) <= Cardinality(t)
<1> DEFINE Sizes == {Cardinality(s) : s \in F}
<1>1. \A s \in F : Cardinality(s) \in Nat
  BY FS_Subset, FS_CardinalityType
<1>2. Sizes \in SUBSET Nat /\ Sizes # {}
  BY <1>1
<1>3. PICK m \in Sizes : \A k \in Sizes : m <= k
  BY <1>2, LeastNatural
<1> QED
  BY <1>3

(* The chosen element of a non-empty set is in it. *)
LEMMA ChosenIn == ASSUME NEW s, s # {} PROVE Chosen(s) \in s
  BY DEF Chosen

(* One step of the recursion. *)
LEMMA SumStep ==
  ASSUME NEW S, NEW f, NEW g, SumsUp(g, f, S), NEW s \in SUBSET S
  PROVE  g[s] = IF s = {} THEN 0 ELSE f[Chosen(s)] + g[s \ {Chosen(s)}]
  BY Zenon DEF SumsUp

(* Two such functions agree where their summands agree. *)
LEMMA SumsAgree ==
  ASSUME NEW S, IsFiniteSet(S), NEW g, NEW h, NEW e, NEW f, NEW A, NEW B,
         SumsUp(g, e, A), SumsUp(h, f, B),
         S \subseteq A, S \subseteq B, \A x \in S : e[x] = f[x]
  PROVE  g[S] = h[S]
<1> DEFINE F == {s \in SUBSET S : g[s] # h[s]}
<1>1. SUFFICES ASSUME F # {} PROVE FALSE
  OBVIOUS
<1>2. PICK s \in F : \A t \in F : Cardinality(s) <= Cardinality(t)
  BY <1>1, LeastSet
<1>3. g[{}] = 0 /\ h[{}] = 0
  BY DEF SumsUp
<1>4. s # {}
  BY <1>2, <1>3
<1> DEFINE c == Chosen(s)
           r == s \ {c}
<1>5. c \in s /\ r \in SUBSET S
  BY <1>4, ChosenIn
<1>6. IsFiniteSet(s) /\ Cardinality(s) \in Nat
  BY FS_Subset, FS_CardinalityType
<1>7. Cardinality(r) = Cardinality(s) - 1
  BY <1>5, <1>6, FS_RemoveElement
<1> HIDE DEF c, r
<1>8. r \notin F
  BY <1>2, <1>6, <1>7
<1>9. g[r] = h[r]
  BY <1>5, <1>8
<1>10. g[s] = e[c] + g[r] /\ h[s] = f[c] + h[r]
  BY <1>4 DEF SumsUp, c, r
<1>11. e[c] = f[c]
  BY <1>5
<1> QED
  BY <1>2, <1>9, <1>10, <1>11

(* The recursion defines a function. *)
LEMMA SumExists ==
  ASSUME NEW S, IsFiniteSet(S), NEW f
  PROVE  \E g : SumsUp(g, f, S)
<1> DEFINE F == {s \in SUBSET S : ~\E g : SumsUp(g, f, s)}
<1>1. SUFFICES ASSUME F # {} PROVE FALSE
  OBVIOUS
<1>2. PICK T \in F : \A t \in F : Cardinality(T) <= Cardinality(t)
  BY <1>1, LeastSet
<1>3. IsFiniteSet(T) /\ Cardinality(T) \in Nat
  BY FS_Subset, FS_CardinalityType
<1> DEFINE G(r) == CHOOSE g : SumsUp(g, f, r)
           H(s) == IF s = {} THEN 0
                   ELSE f[Chosen(s)] + G(s \ {Chosen(s)})[s \ {Chosen(s)}]
           h == [s \in SUBSET T |-> H(s)]
<1>4. ASSUME NEW r \in SUBSET T, r # T PROVE SumsUp(G(r), f, r)
  <2>1. Cardinality(r) < Cardinality(T)
    BY <1>3, <1>4, FS_Subset, FS_CardinalityType
  <2>2. r \notin F
    BY <2>1, <1>2, <1>3, FS_Subset, FS_CardinalityType
  <2>3. \E g : SumsUp(g, f, r)
    BY <2>2
  <2> QED
    BY <2>3
<1>5. ASSUME NEW r \in SUBSET T, r # T PROVE h[r] = G(r)[r]
  <2>1. G(r)[r] = IF r = {} THEN 0 ELSE f[Chosen(r)] + G(r)[r \ {Chosen(r)}]
    <3>1. SumsUp(G(r), f, r) /\ r \in SUBSET r
      BY <1>4, <1>5
    <3> HIDE DEF G
    <3> QED
      BY <3>1, SumStep
  <2>2. CASE r = {}
    BY <2>1, <2>2
  <2>3. CASE r # {}
    <3> DEFINE q == r \ {Chosen(r)}
    <3>1. q \in SUBSET T /\ q # T /\ q \subseteq r /\ IsFiniteSet(q)
      BY <1>3, <2>3, ChosenIn, FS_Subset
    <3>2. SumsUp(G(q), f, q) /\ SumsUp(G(r), f, r)
      BY <1>4, <1>5, <3>1
    <3> HIDE DEF q, G
    <3>3. G(q)[q] = G(r)[q]
      BY <3>1, <3>2, SumsAgree
    <3> QED
      BY <2>1, <2>3, <3>3 DEF q
  <2> QED
    BY <2>2, <2>3
<1>6. ASSUME NEW s \in SUBSET T
      PROVE  H(s) = IF s = {} THEN 0 ELSE f[Chosen(s)] + h[s \ {Chosen(s)}]
  <2>1. CASE s = {}
    BY <2>1
  <2>2. CASE s # {}
    <3>1. s \ {Chosen(s)} \in SUBSET T /\ s \ {Chosen(s)} # T
      BY <2>2, ChosenIn
    <3> HIDE DEF h
    <3>2. h[s \ {Chosen(s)}] = G(s \ {Chosen(s)})[s \ {Chosen(s)}]
      BY <3>1, <1>5
    <3> QED
      BY <2>2, <3>2
  <2> QED
    BY <2>1, <2>2
<1> HIDE DEF H
<1>7. SumsUp(h, f, T)
  BY <1>6, Zenon DEF SumsUp
<1> QED
  BY <1>2, <1>7

(* SumFunctionOnSet is that function, at the whole set. *)
LEMMA SumIsRecursive ==
  ASSUME NEW S, IsFiniteSet(S), NEW f
  PROVE  \E g : SumsUp(g, f, S) /\ SumFunctionOnSet(f, S) = g[S]
<1> DEFINE g == CHOOSE h : SumsUp(h, f, S)
<1>1. SumsUp(g, f, S)
  BY SumExists
<1>2. SumFunctionOnSet(f, S) = g[S]
  BY Zenon DEF SumsUp, SumFunctionOnSet, FoldFunctionOnSet, MapThenFoldSet, Chosen
<1> QED
  BY <1>1, <1>2

(* Nothing adds up to zero. *)
LEMMA SumOfNothing ==
  ASSUME NEW f
  PROVE  SumFunctionOnSet(f, {}) = 0
<1>1. PICK g : SumsUp(g, f, {}) /\ SumFunctionOnSet(f, {}) = g[{}]
  BY SumIsRecursive, FS_EmptySet
<1> QED
  BY <1>1, SumStep

(* The sum depends on the values of f on S only. *)
LEMMA SumOfEquals ==
  ASSUME NEW S, IsFiniteSet(S), NEW e, NEW f, \A x \in S : e[x] = f[x]
  PROVE  SumFunctionOnSet(e, S) = SumFunctionOnSet(f, S)
<1>1. PICK g : SumsUp(g, e, S) /\ SumFunctionOnSet(e, S) = g[S]
  BY SumIsRecursive
<1>2. PICK h : SumsUp(h, f, S) /\ SumFunctionOnSet(f, S) = h[S]
  BY SumIsRecursive
<1> QED
  BY <1>1, <1>2, SumsAgree

(* The sum takes out the element the recursion chooses. *)
LEMMA SumOfChosen ==
  ASSUME NEW S, IsFiniteSet(S), S # {}, NEW f
  PROVE  SumFunctionOnSet(f, S)
           = f[Chosen(S)] + SumFunctionOnSet(f, S \ {Chosen(S)})
<1> DEFINE r == S \ {Chosen(S)}
<1>1. IsFiniteSet(r) /\ r \subseteq S
  BY FS_Subset
<1>2. PICK g : SumsUp(g, f, S) /\ SumFunctionOnSet(f, S) = g[S]
  BY SumIsRecursive
<1>3. PICK h : SumsUp(h, f, r) /\ SumFunctionOnSet(f, r) = h[r]
  BY <1>1, SumIsRecursive
<1>4. g[S] = f[Chosen(S)] + g[r]
  BY <1>2, SumStep
<1> HIDE DEF r
<1>5. g[r] = h[r]
  BY <1>1, <1>2, <1>3, SumsAgree
<1> QED
  BY <1>2, <1>3, <1>4, <1>5 DEF r

(* The sum of naturals is a natural. *)
LEMMA SumIsNatural ==
  ASSUME NEW S, IsFiniteSet(S), NEW f, \A x \in S : f[x] \in Nat
  PROVE  SumFunctionOnSet(f, S) \in Nat
<1> DEFINE F == {s \in SUBSET S : SumFunctionOnSet(f, s) \notin Nat}
<1>1. SUFFICES ASSUME F # {} PROVE FALSE
  OBVIOUS
<1>2. PICK s \in F : \A t \in F : Cardinality(s) <= Cardinality(t)
  BY <1>1, LeastSet
<1>3. IsFiniteSet(s) /\ Cardinality(s) \in Nat /\ s # {}
  BY <1>2, FS_Subset, FS_CardinalityType, SumOfNothing
<1> DEFINE r == s \ {Chosen(s)}
<1>4. Chosen(s) \in S /\ Chosen(s) \in s /\ r \in SUBSET S
  BY <1>3, ChosenIn
<1>5. Cardinality(r) = Cardinality(s) - 1
  BY <1>3, <1>4, FS_RemoveElement
<1>6. SumFunctionOnSet(f, s) = f[Chosen(s)] + SumFunctionOnSet(f, r)
  BY <1>3, SumOfChosen
<1> HIDE DEF r
<1>7. SumFunctionOnSet(f, r) \in Nat
  BY <1>2, <1>3, <1>4, <1>5
<1> QED
  BY <1>2, <1>4, <1>6, <1>7

(* Any element may be taken out of the sum, whichever the recursion takes. *)
LEMMA SumOfElement ==
  ASSUME NEW S, IsFiniteSet(S), NEW f, \A x \in S : f[x] \in Nat, NEW e \in S
  PROVE  SumFunctionOnSet(f, S) = f[e] + SumFunctionOnSet(f, S \ {e})
<1> DEFINE Sum(s) == SumFunctionOnSet(f, s)
           F == {s \in SUBSET S : \E x \in s : Sum(s) # f[x] + Sum(s \ {x})}
<1>1. SUFFICES ASSUME F # {} PROVE FALSE
  OBVIOUS
<1>2. PICK s \in F : \A t \in F : Cardinality(s) <= Cardinality(t)
  BY <1>1, LeastSet
<1>3. PICK x \in s : Sum(s) # f[x] + Sum(s \ {x})
  BY <1>2
<1>4. s \in SUBSET S /\ IsFiniteSet(s) /\ Cardinality(s) \in Nat /\ s # {}
  BY <1>2, <1>3, FS_Subset, FS_CardinalityType
<1> DEFINE c == Chosen(s)
<1>5. c \in s
  BY <1>4, ChosenIn
<1>6. Sum(s) = f[c] + Sum(s \ {c})
  BY <1>4, SumOfChosen
<1> HIDE DEF c
<1>7. c # x
  BY <1>3, <1>6
<1>8. ASSUME NEW a \in s, NEW b \in s \ {a}
      PROVE  Sum(s \ {a}) = f[b] + Sum(s \ {a, b})
  <2>1. Cardinality(s \ {a}) = Cardinality(s) - 1
    BY <1>4, FS_RemoveElement
  <2>2. s \ {a} \in SUBSET S
    BY <1>4
  <2> HIDE DEF Sum
  <2>3. s \ {a} \notin F
    BY <1>2, <1>4, <2>1, <2>2
  <2>4. Sum(s \ {a}) = f[b] + Sum((s \ {a}) \ {b})
    BY <2>2, <2>3
  <2>5. (s \ {a}) \ {b} = s \ {a, b}
    OBVIOUS
  <2> QED
    BY <2>4, <2>5
<1>9. Sum(s \ {c, x}) \in Nat
  <2>1. s \ {c, x} \subseteq S /\ IsFiniteSet(s \ {c, x})
    BY <1>4, FS_Subset
  <2> QED
    BY <2>1, SumIsNatural
<1>10. f[c] \in Nat /\ f[x] \in Nat
  BY <1>4, <1>5
<1>11. Sum(s \ {c}) = f[x] + Sum(s \ {c, x})
  BY <1>5, <1>7, <1>8
<1>12. Sum(s \ {x}) = f[c] + Sum(s \ {c, x})
  <2>1. s \ {x, c} = s \ {c, x}
    OBVIOUS
  <2> QED
    BY <1>5, <1>7, <1>8, <2>1
<1> HIDE DEF Sum
<1> QED
  BY <1>3, <1>6, <1>9, <1>10, <1>11, <1>12

-----------------------------------------------------------------------------
(* A new key goes to the end of the order. *)
LEMMA AppendNew ==
  ASSUME NEW S, NEW s \in Seq(S), IsInjective(s), NEW e \in S, e \notin Range(s)
  PROVE  /\ Append(s, e) \in Seq(S)
         /\ IsInjective(Append(s, e))
         /\ Range(Append(s, e)) = Range(s) \cup {e}
<1> DEFINE t == Append(s, e)
<1>1. /\ t \in Seq(S) /\ Len(t) = Len(s) + 1 /\ t[Len(s) + 1] = e
      /\ \A i \in 1 .. Len(s) : t[i] = s[i]
  BY AppendProperties
<1>2. Len(s) \in Nat /\ DOMAIN s = 1 .. Len(s) /\ DOMAIN t = 1 .. Len(s) + 1
  BY <1>1, LenProperties
<1> HIDE DEF t
<1>3. \A i \in 1 .. Len(s) : s[i] # e
  BY <1>2 DEF Range
<1>4. IsInjective(t)
  BY <1>1, <1>2, <1>3 DEF IsInjective
<1>5. Range(t) = Range(s) \cup {e}
  <2>1. ASSUME NEW i \in DOMAIN t PROVE t[i] \in Range(s) \cup {e}
    BY <1>1, <1>2 DEF Range
  <2>2. ASSUME NEW i \in DOMAIN s PROVE s[i] \in Range(t)
    BY <1>1, <1>2 DEF Range
  <2>3. e \in Range(t)
    BY <1>1, <1>2 DEF Range
  <2> QED
    BY <2>1, <2>2, <2>3 DEF Range
<1> QED
  BY <1>1, <1>4, <1>5 DEF t

(* A key taken out of the order leaves all others. *)
LEMMA RemoveFirstKey ==
  ASSUME NEW S, NEW s \in Seq(S), IsInjective(s), NEW e \in Range(s)
  PROVE  /\ RemoveFirst(s, e) \in Seq(S)
         /\ IsInjective(RemoveFirst(s, e))
         /\ Range(RemoveFirst(s, e)) = Range(s) \ {e}
<1>1. Len(s) \in Nat /\ DOMAIN s = 1 .. Len(s) /\ \A i \in 1 .. Len(s) : s[i] \in S
  BY LenProperties, ElementOfSeq
<1>2. PICK m \in 1 .. Len(s) : s[m] = e
  BY <1>1 DEF Range
<1> DEFINE I == {i \in 1 .. Len(s) : s[i] = e}
<1>3. I = {m}
  BY <1>1, <1>2 DEF IsInjective
<1>4. Min(I) = m
  BY <1>3 DEF Min
<1>5. RemoveFirst(s, e) = RemoveAt(s, m)
  BY <1>2, <1>3, <1>4, Zenon DEF RemoveFirst, SelectInSeq
<1> DEFINE t == RemoveAt(s, m)
           a == SubSeq(s, 1, m - 1)
           b == SubSeq(s, m + 1, Len(s))
<1>6. /\ a \in Seq(S) /\ Len(a) = m - 1
      /\ \A i \in 1 .. m - 1 : a[i] = s[i]
  BY <1>1, SubSeqProperties
<1>7. /\ b \in Seq(S) /\ Len(b) = Len(s) - m
      /\ \A i \in 1 .. Len(s) - m : b[i] = s[m + i]
  <2>1. m + 1 \in Int /\ \A i \in m + 1 .. Len(s) : s[i] \in S
    BY <1>1
  <2>2. /\ b \in Seq(S)
        /\ Len(b) = IF m + 1 <= Len(s) THEN Len(s) - (m + 1) + 1 ELSE 0
        /\ \A i \in 1 .. Len(s) - (m + 1) + 1 : b[i] = s[m + 1 + i - 1]
    BY <1>1, <2>1, SubSeqProperties
  <2> HIDE DEF b
  <2>3. Len(b) = Len(s) - m
    <3>1. Len(b) = IF m + 1 <= Len(s) THEN Len(s) - (m + 1) + 1 ELSE 0
      BY <2>2
    <3>2. Len(s) \in Nat /\ m \in Nat /\ m <= Len(s)
      BY <1>1
    <3> QED
      BY <3>1, <3>2
  <2>4. ASSUME NEW i \in 1 .. Len(s) - m PROVE b[i] = s[m + i]
    <3>1. i \in 1 .. Len(s) - (m + 1) + 1 /\ m + 1 + i - 1 = m + i
      BY <1>1
    <3> QED
      BY <2>2, <3>1
  <2> QED
    BY <2>2, <2>3, <2>4
<1>8. t = a \o b
  BY DEF RemoveAt
<1> HIDE DEF t, a, b
<1>9. t \in Seq(S) /\ Len(t) = Len(s) - 1 /\ DOMAIN t = 1 .. Len(s) - 1
  <2>1. t \in Seq(S) /\ Len(t) = Len(a) + Len(b)
    BY <1>6, <1>7, <1>8, ConcatProperties
  <2>2. Len(t) = Len(s) - 1
    BY <1>1, <1>6, <1>7, <2>1
  <2> QED
    BY <2>1, <2>2, LenProperties
<1>10. \A i \in 1 .. Len(s) - 1 : t[i] = IF i < m THEN s[i] ELSE s[i + 1]
  <2> TAKE i \in 1 .. Len(s) - 1
  <2>1. t[i] = IF i <= Len(a) THEN a[i] ELSE b[i - Len(a)]
    BY <1>1, <1>6, <1>7, <1>8, ConcatProperties, SMTT(40)
  <2>2. CASE i < m
    BY <1>1, <1>6, <2>1, <2>2
  <2>3. CASE i >= m
    <3>1. i - (m - 1) \in 1 .. Len(s) - m
      BY <1>1, <2>3
    <3> QED
      BY <1>1, <1>6, <1>7, <2>1, <2>3, <3>1, SMTT(40)
  <2> QED
    BY <1>1, <2>2, <2>3
<1>11. IsInjective(t)
  BY <1>1, <1>9, <1>10, SMTT(40) DEF IsInjective
<1>12. Range(t) = Range(s) \ {e}
  <2>1. ASSUME NEW i \in DOMAIN t PROVE t[i] \in Range(s) \ {e}
    <3>1. CASE i < m
      BY <1>1, <1>2, <1>9, <1>10, <3>1, SMTT(40) DEF Range, IsInjective
    <3>2. CASE i >= m
      <4>1. i + 1 \in DOMAIN s /\ t[i] = s[i + 1] /\ i + 1 # m
        BY <1>1, <1>9, <1>10, <3>2
      <4> QED
        BY <1>1, <1>2, <4>1 DEF Range, IsInjective
    <3> QED
      BY <1>1, <1>9, <3>1, <3>2
  <2>2. ASSUME NEW i \in DOMAIN s, s[i] # e PROVE s[i] \in Range(t)
    <3>1. CASE i < m
      BY <1>1, <1>9, <1>10, <3>1 DEF Range
    <3>2. CASE i > m
      <4>1. i - 1 \in DOMAIN t /\ t[i - 1] = s[i]
        BY <1>1, <1>9, <1>10, <3>2
      <4> QED
        BY <4>1 DEF Range
    <3> QED
      BY <1>1, <1>2, <2>2, <3>1, <3>2
  <2> QED
    BY <2>1, <2>2 DEF Range
<1> QED
  BY <1>5, <1>9, <1>11, <1>12 DEF t

(* A function on 1 .. n is a sequence of length n. *)
LEMMA IntervalIsSequence ==
  ASSUME NEW n \in Nat, NEW S, NEW h \in [1 .. n -> S]
  PROVE  h \in Seq(S) /\ Len(h) = n
<1>1. h \in Seq(S)
  BY SeqDef
<1>2. DOMAIN h = 1 .. n /\ DOMAIN h = 1 .. Len(h) /\ Len(h) \in Nat
  BY <1>1, LenProperties
<1> QED
  BY <1>1, <1>2

(* The last of a set of places in a queue is one of them, and after all    *)
(* others.                                                                 *)
LEMMA LastIn ==
  ASSUME NEW k \in Nat, NEW T \in SUBSET (1 .. k), T # {}
  PROVE  Max(T) \in T /\ \A y \in T : Max(T) >= y
<1> DEFINE F == {k - x : x \in T}
<1>1. F \in SUBSET Nat /\ F # {}
  <2>1. \A x \in T : k - x \in Nat
    OBVIOUS
  <2> QED
    BY <2>1
<1>2. PICK m \in F : \A y \in F : m <= y
  BY <1>1, LeastNatural
<1>3. PICK x \in T : m = k - x
  BY <1>2
<1>4. \A y \in T : x >= y
  <2> TAKE y \in T
  <2>1. k - x <= k - y
    BY <1>2, <1>3
  <2> QED
    BY <2>1
<1> QED
  BY <1>4 DEF Max

-----------------------------------------------------------------------------
(* Numbers. *)

(* What division by a constant rounds to. *)
LEMMA Division ==
  ASSUME NEW a \in Nat, NEW d \in Nat \ {0}
  PROVE  /\ a \div d \in Nat
         /\ (a \div d) * d <= a
         /\ a < ((a \div d) + 1) * d
  OBVIOUS

(* Multiplication keeps the order. *)
LEMMA TimesMonotone ==
  ASSUME NEW a \in Nat, NEW b \in Nat, NEW d \in Nat, a <= b
  PROVE  a * d <= b * d /\ a * d \in Nat /\ b * d \in Nat
  OBVIOUS

(* Division keeps the order. *)
LEMMA DivisionMonotone ==
  ASSUME NEW a \in Nat, NEW b \in Nat, NEW d \in Nat \ {0}, a <= b
  PROVE  a \div d <= b \div d
<1>1. SUFFICES ASSUME (b \div d) + 1 <= a \div d PROVE FALSE
  BY Division
<1>2. ((b \div d) + 1) * d <= (a \div d) * d
  BY <1>1, TimesMonotone, Division
<1> QED
  BY <1>2, Division

-----------------------------------------------------------------------------
(* Lists without repetitions, ranks, and rows in pages. *)

(* A row number determines its page and its place in the page. *)
LEMMA RowsDecompose ==
  ASSUME NEW d \in Nat \ {0}, NEW a \in Nat, NEW b \in Nat,
         NEW x \in 0 .. d - 1, NEW y \in 0 .. d - 1, a * d + x = b * d + y
  PROVE  a = b /\ x = y
<1>1. \A p, q \in Nat : p < q => p * d + d <= q * d
  <2>1. SUFFICES ASSUME NEW p \in Nat, NEW q \in Nat, p + 1 <= q PROVE p * d + d <= q * d
    OBVIOUS
  <2>2. (p + 1) * d <= q * d
    BY <2>1, TimesMonotone
  <2> QED
    BY <2>2
<1>2. a * d \in Nat /\ b * d \in Nat
  BY TimesMonotone
<1>3. ~(a < b) /\ ~(b < a)
  BY <1>1, <1>2
<1> QED
  BY <1>2, <1>3

(* The remainder is what the quotient leaves. *)
LEMMA Remainder ==
  ASSUME NEW a \in Nat, NEW d \in Nat \ {0}
  PROVE  a % d \in 0 .. d - 1 /\ a = (a \div d) * d + (a % d)
  OBVIOUS

(* The last n elements, last first, and what is left without them. *)
TakenPages(free, n) == Reverse(SubSeq(free, Len(free) - n + 1, Len(free)))
LeftPages(free, n) == SubSeq(free, 1, Len(free) - n)

(* What is left of the free pages, and the pages taken from their end. *)
LEMMA PagesTaken ==
  ASSUME NEW S, NEW free \in Seq(S), IsInjective(free), NEW n \in Nat, n <= Len(free)
  PROVE  /\ TakenPages(free, n) \in Seq(S) /\ IsInjective(TakenPages(free, n))
         /\ Len(TakenPages(free, n)) = n
         /\ LeftPages(free, n) \in Seq(S) /\ IsInjective(LeftPages(free, n))
         /\ Range(TakenPages(free, n)) \cap Range(LeftPages(free, n)) = {}
         /\ Range(free) = Range(LeftPages(free, n)) \cup Range(TakenPages(free, n))
<1> DEFINE back == TakenPages(free, n)
           front == LeftPages(free, n)
           f == Len(free)
           left == f - n
           part == SubSeq(free, left + 1, f)
<1>1. /\ f \in Nat /\ left \in Nat /\ left + n = f
      /\ DOMAIN free = 1 .. f /\ \A i \in 1 .. f : free[i] \in S
  BY LenProperties, ElementOfSeq
<1>2. \A i, j \in 1 .. f : free[i] = free[j] => i = j
  BY <1>1 DEF IsInjective
<1> HIDE DEF f, left
<1>3. /\ part \in Seq(S) /\ Len(part) = n
      /\ \A i \in 1 .. n : part[i] = free[left + i]
  <2>1. \A i \in left + 1 .. f : free[i] \in S
    BY <1>1
  <2>2. left + 1 \in Int /\ f \in Int
    BY <1>1
  <2>3. /\ part \in Seq(S)
        /\ Len(part) = IF left + 1 <= f THEN f - (left + 1) + 1 ELSE 0
        /\ \A i \in 1 .. f - (left + 1) + 1 : part[i] = free[left + 1 + i - 1]
    BY <2>1, <2>2, SubSeqProperties, SMTT(40)
  <2> HIDE DEF part
  <2>4. f - (left + 1) + 1 = n /\ (left + 1 <= f <=> n > 0)
    BY <1>1
  <2>5. \A i \in 1 .. n : left + 1 + i - 1 = left + i
    BY <1>1
  <2> QED
    BY <1>1, <2>3, <2>4, <2>5
<1>4. /\ front \in Seq(S) /\ Len(front) = left
      /\ \A i \in 1 .. left : front[i] = free[i]
  <2>1. \A i \in 1 .. left : free[i] \in S
    BY <1>1
  <2>2. front = SubSeq(free, 1, left)
    BY DEF left, f, LeftPages
  <2>3. /\ SubSeq(free, 1, left) \in Seq(S)
        /\ Len(SubSeq(free, 1, left)) = IF 1 <= left THEN left - 1 + 1 ELSE 0
        /\ \A i \in 1 .. left - 1 + 1 : SubSeq(free, 1, left)[i] = free[1 + i - 1]
    BY <1>1, <2>1, SubSeqProperties
  <2> HIDE DEF left
  <2>4. left - 1 + 1 = left /\ \A i \in 1 .. left : 1 + i - 1 = i
    BY <1>1
  <2> QED
    BY <1>1, <2>2, <2>3, <2>4
<1>5. back = [i \in 1 .. n |-> part[(n - i) + 1]]
  BY <1>3 DEF Reverse, left, f, TakenPages
<1> HIDE DEF part, back, front
<1>6. \A i \in 1 .. n : back[i] = free[f - i + 1]
  <2>1. SUFFICES ASSUME NEW i \in 1 .. n PROVE back[i] = free[f - i + 1]
    OBVIOUS
  <2>2. (n - i) + 1 \in 1 .. n /\ left + ((n - i) + 1) = f - i + 1
    BY <1>1
  <2>3. back[i] = part[(n - i) + 1]
    BY <1>5
  <2> QED
    BY <1>3, <2>2, <2>3
<1>7. back \in [1 .. n -> S]
  <2>1. \A i \in 1 .. n : (n - i) + 1 \in 1 .. n
    OBVIOUS
  <2>2. \A k \in 1 .. n : part[k] \in S
    BY <1>3, LenProperties, ElementOfSeq
  <2> QED
    BY <1>5, <2>1, <2>2
<1>8. back \in Seq(S) /\ Len(back) = n /\ DOMAIN back = 1 .. n
  BY <1>7, IntervalIsSequence
<1>9. DOMAIN front = 1 .. left
  BY <1>4, LenProperties
<1>10. \A i \in 1 .. n : f - i + 1 \in left + 1 .. f /\ f - i + 1 \in 1 .. f
  BY <1>1
<1>11. IsInjective(back)
  <2>1. SUFFICES ASSUME NEW i \in 1 .. n, NEW j \in 1 .. n, back[i] = back[j] PROVE i = j
    BY <1>8 DEF IsInjective
  <2>2. f - i + 1 = f - j + 1
    BY <1>2, <1>6, <1>10, <2>1
  <2> QED
    BY <1>1, <2>2
<1>12. IsInjective(front)
  <2>1. SUFFICES ASSUME NEW i \in 1 .. left, NEW j \in 1 .. left, front[i] = front[j]
                 PROVE  i = j
    BY <1>9 DEF IsInjective
  <2> QED
    BY <1>1, <1>2, <1>4, <2>1
<1>13. Range(back) \cap Range(front) = {}
  <2>1. SUFFICES ASSUME NEW p \in Range(back), p \in Range(front) PROVE FALSE
    OBVIOUS
  <2>2. PICK i \in 1 .. n : back[i] = p
    BY <1>8 DEF Range
  <2>3. PICK j \in 1 .. left : front[j] = p
    BY <1>9, <2>1 DEF Range
  <2>4. j \in 1 .. f /\ f - i + 1 \in 1 .. f /\ free[f - i + 1] = free[j]
    BY <1>1, <1>4, <1>6, <1>10, <2>2, <2>3
  <2>5. f - i + 1 = j
    BY <1>2, <2>4
  <2> QED
    BY <1>1, <2>5
<1>14. Range(free) = Range(front) \cup Range(back)
  <2>1. ASSUME NEW p \in Range(free) PROVE p \in Range(front) \cup Range(back)
    <3>1. PICK k \in 1 .. f : free[k] = p
      BY <1>1 DEF Range
    <3>2. CASE k <= left
      <4>1. k \in 1 .. left /\ front[k] = p
        BY <1>1, <1>4, <3>1, <3>2
      <4> QED
        BY <1>9, <4>1 DEF Range
    <3>3. CASE ~(k <= left)
      <4>1. PICK i \in 1 .. n : i = f - k + 1
        BY <1>1, <3>3
      <4>2. f - i + 1 = k
        BY <1>1, <4>1
      <4>3. back[i] = p
        BY <1>6, <3>1, <4>2
      <4> QED
        BY <1>8, <4>3 DEF Range
    <3> QED
      BY <3>2, <3>3
  <2>2. ASSUME NEW p \in Range(front) PROVE p \in Range(free)
    <3>1. PICK k \in 1 .. left : front[k] = p
      BY <1>9 DEF Range
    <3>2. k \in 1 .. f /\ free[k] = p
      BY <1>1, <1>4, <3>1
    <3> QED
      BY <1>1, <3>2 DEF Range
  <2>3. ASSUME NEW p \in Range(back) PROVE p \in Range(free)
    <3>1. PICK k \in 1 .. n : back[k] = p
      BY <1>8 DEF Range
    <3>2. f - k + 1 \in 1 .. f /\ free[f - k + 1] = p
      BY <1>6, <1>10, <3>1
    <3> QED
      BY <1>1, <3>2 DEF Range
  <2> QED
    BY <2>1, <2>2, <2>3
<1> QED
  BY <1>4, <1>8, <1>11, <1>12, <1>13, <1>14 DEF back, front

(* One list behind another. *)
Joined(a, b) == a \o b

(* The free pages with returned ones. *)
LEMMA PagesGiven ==
  ASSUME NEW S, NEW a \in Seq(S), NEW b \in Seq(S), IsInjective(a), IsInjective(b),
         Range(a) \cap Range(b) = {}, NEW h, h = Joined(a, b)
  PROVE  h \in Seq(S) /\ IsInjective(h) /\ Range(h) = Range(a) \cup Range(b)
<1> DEFINE m == Len(a)
           n == Len(b)
<1>1. /\ m \in Nat /\ n \in Nat /\ DOMAIN a = 1 .. m /\ DOMAIN b = 1 .. n
  BY LenProperties
<1>2. /\ h \in Seq(S) /\ Len(h) = m + n
      /\ \A i \in 1 .. m + n : h[i] = IF i <= m THEN a[i] ELSE b[i - m]
  BY ConcatProperties, ZenonT(60) DEF Joined
<1> HIDE DEF m, n
<1>3. DOMAIN h = 1 .. m + n
  BY <1>2, LenProperties
<1>4. \A i \in 1 .. m + n : i \in 1 .. m \/ i - m \in 1 .. n
  BY <1>1
<1>5. /\ \A i \in 1 .. m : i \in 1 .. m + n /\ h[i] = a[i]
      /\ \A i \in 1 .. m + n : ~(i <= m) => h[i] = b[i - m]
  BY <1>1, <1>2
<1>6. \A i \in 1 .. n : i + m \in 1 .. m + n /\ ~(i + m <= m) /\ (i + m) - m = i
  BY <1>1
<1>7. \A i \in 1 .. m : \A j \in 1 .. n : a[i] # b[j]
  BY <1>1 DEF Range
<1>8. IsInjective(h)
  <2>1. SUFFICES ASSUME NEW i \in 1 .. m + n, NEW j \in 1 .. m + n, h[i] = h[j] PROVE i = j
    BY <1>3 DEF IsInjective
  <2>2. CASE i <= m /\ j <= m
    <3>1. i \in 1 .. m /\ j \in 1 .. m /\ a[i] = a[j]
      BY <1>1, <1>2, <2>1, <2>2
    <3> QED
      BY <1>1, <3>1 DEF IsInjective
  <2>3. CASE ~(i <= m) /\ ~(j <= m)
    <3>1. i - m \in 1 .. n /\ j - m \in 1 .. n /\ b[i - m] = b[j - m]
      BY <1>1, <1>2, <2>1, <2>3
    <3>2. i - m = j - m
      BY <1>1, <3>1 DEF IsInjective
    <3> QED
      BY <1>1, <3>2
  <2>4. CASE i <= m /\ ~(j <= m)
    <3>1. i \in 1 .. m /\ j - m \in 1 .. n /\ a[i] = b[j - m]
      BY <1>1, <1>2, <2>1, <2>4
    <3> QED
      BY <1>7, <3>1
  <2>5. CASE ~(i <= m) /\ j <= m
    <3>1. j \in 1 .. m /\ i - m \in 1 .. n /\ a[j] = b[i - m]
      BY <1>1, <1>2, <2>1, <2>5
    <3> QED
      BY <1>7, <3>1
  <2> QED
    BY <2>2, <2>3, <2>4, <2>5
<1>9. Range(h) = Range(a) \cup Range(b)
  <2>1. ASSUME NEW p \in Range(h) PROVE p \in Range(a) \cup Range(b)
    <3>1. PICK i \in 1 .. m + n : h[i] = p
      BY <1>3 DEF Range
    <3>2. CASE i <= m
      <4>1. i \in 1 .. m /\ a[i] = p
        BY <1>1, <1>2, <3>1, <3>2
      <4> QED
        BY <1>1, <4>1 DEF Range
    <3>3. CASE ~(i <= m)
      <4>1. i - m \in 1 .. n /\ b[i - m] = p
        BY <1>1, <1>2, <3>1, <3>3
      <4> QED
        BY <1>1, <4>1 DEF Range
    <3> QED
      BY <3>2, <3>3
  <2>2. ASSUME NEW p \in Range(a) PROVE p \in Range(h)
    <3>1. PICK i \in 1 .. m : a[i] = p
      BY <1>1 DEF Range
    <3> QED
      BY <1>3, <1>5, <3>1 DEF Range
  <2>3. ASSUME NEW p \in Range(b) PROVE p \in Range(h)
    <3>1. PICK i \in 1 .. n : b[i] = p
      BY <1>1 DEF Range
    <3>2. h[i + m] = p /\ i + m \in 1 .. m + n
      BY <1>5, <1>6, <3>1
    <3> QED
      BY <1>3, <3>2 DEF Range
  <2> QED
    BY <2>1, <2>2, <2>3
<1> QED
  BY <1>2, <1>8, <1>9

(* How many numbers of a set are below a number. *)
Below(V, v) == Cardinality({u \in V : u < v})

(* The ranks of a finite set of numbers keep its order. *)
LEMMA RanksKeepOrder ==
  ASSUME NEW V \in SUBSET Int, IsFiniteSet(V), NEW v \in V
  PROVE  /\ Cardinality(V) \in Nat /\ Below(V, v) \in 0 .. Cardinality(V) - 1
         /\ \A w \in V : v < w <=> Below(V, v) < Below(V, w)
         /\ Below(V, v) < Cardinality(V) - 1 => \E w \in V : v < w
<1> DEFINE B(w) == {u \in V : u < w}
<1>1. \A w \in V : B(w) \subseteq V /\ w \notin B(w)
  OBVIOUS
<1>2. /\ Cardinality(V) \in Nat
      /\ \A w \in V : IsFiniteSet(B(w)) /\ Below(V, w) \in 0 .. Cardinality(V) - 1
  <2>1. Cardinality(V) \in Nat
    BY FS_CardinalityType
  <2>2. \A w \in V : /\ IsFiniteSet(B(w)) /\ Cardinality(B(w)) \in Nat
                     /\ Cardinality(B(w)) <= Cardinality(V)
                     /\ Cardinality(B(w)) # Cardinality(V)
    <3>1. SUFFICES ASSUME NEW w \in V
                   PROVE  /\ IsFiniteSet(B(w)) /\ Cardinality(B(w)) \in Nat
                          /\ Cardinality(B(w)) <= Cardinality(V)
                          /\ Cardinality(B(w)) # Cardinality(V)
      OBVIOUS
    <3>2. B(w) \subseteq V /\ B(w) # V
      BY <1>1
    <3> HIDE DEF B
    <3> QED
      BY <3>2, FS_Subset, FS_CardinalityType
  <2> QED
    BY <2>1, <2>2 DEF Below
<1>3. ASSUME NEW w \in V, NEW z \in V, w < z PROVE Below(V, w) < Below(V, z)
  <2>1. B(w) \subseteq B(z) /\ B(w) # B(z)
    <3>1. \A u \in V : u \in Int
      OBVIOUS
    <3>2. w \in B(z)
      BY <1>3
    <3>3. ASSUME NEW u \in B(w) PROVE u \in B(z)
      BY <1>3, <3>1, <3>3
    <3> QED
      BY <1>1, <3>2, <3>3
  <2>2. IsFiniteSet(B(z)) /\ Below(V, w) = Cardinality(B(w)) /\ Below(V, z) = Cardinality(B(z))
        /\ Below(V, w) \in Nat /\ Below(V, z) \in Nat
    BY <1>2 DEF Below
  <2> HIDE DEF B
  <2>3. Cardinality(B(w)) <= Cardinality(B(z)) /\ Cardinality(B(w)) # Cardinality(B(z))
    BY <2>1, <2>2, FS_Subset
  <2> QED
    BY <2>2, <2>3
<1>4. \A w \in V : v < w <=> Below(V, v) < Below(V, w)
  <2>1. SUFFICES ASSUME NEW w \in V PROVE v < w <=> Below(V, v) < Below(V, w)
    OBVIOUS
  <2>2. v \in Int /\ w \in Int /\ Below(V, v) \in Nat /\ Below(V, w) \in Nat
    <3> HIDE DEF B
    <3>1. v \in Int /\ w \in Int
      OBVIOUS
    <3> QED
      BY <1>2, <3>1
  <2>3. v < w \/ v = w \/ w < v
    BY <2>2
  <2> QED
    BY <1>3, <2>2, <2>3
<1>5. ASSUME \A w \in V : ~(v < w) PROVE Below(V, v) = Cardinality(V) - 1
  <2>1. B(v) = V \ {v}
    <3>1. \A u \in V : u \in Int
      OBVIOUS
    <3>2. \A u \in V : u < v <=> u # v
      BY <1>5, <3>1
    <3> QED
      BY <3>2
  <2>2. Cardinality(V \ {v}) = Cardinality(V) - 1
    BY FS_RemoveElement
  <2> QED
    BY <2>1, <2>2 DEF Below
<1> QED
  BY <1>2, <1>4, <1>5

(* The images of a finite set are as many at most. *)
LEMMA ImagesCount ==
  ASSUME NEW S, IsFiniteSet(S), NEW f
  PROVE  LET T == {f[x] : x \in S} IN
         IsFiniteSet(T) /\ Cardinality(T) \in Nat /\ Cardinality(T) <= Cardinality(S)
<1> DEFINE T == {f[x] : x \in S}
           g == [x \in S |-> f[x]]
<1>1. g \in Surjection(S, T)
  BY DEF Surjection
<1> HIDE DEF g
<1>2. IsFiniteSet(T) /\ Cardinality(T) <= Cardinality(S)
  BY <1>1, FS_Surjection
<1> QED
  BY <1>2, FS_CardinalityType

(* The n elements behind place m, and a list that begins with them. *)
Slice(q, m, n) == SubSeq(q, m + 1, m + n)
FromPlace(c, q, m, n) == \A k \in 1 .. n : c[k] = q[m + k]

(* A part of a list without repetitions. *)
LEMMA SliceIs ==
  ASSUME NEW S, NEW N \in Nat, NEW q \in [1 .. N -> S], IsInjective(q),
         NEW m \in Nat, NEW n \in Nat, m + n <= N
  PROVE  /\ Slice(q, m, n) \in [1 .. n -> S] /\ IsInjective(Slice(q, m, n))
         /\ FromPlace(Slice(q, m, n), q, m, n)
         /\ \A x : x \in Range(Slice(q, m, n)) <=> \E k \in 1 .. n : q[m + k] = x
<1> DEFINE c == SubSeq(q, m + 1, m + n)
<1>1. q \in Seq(S) /\ Len(q) = N
  BY IntervalIsSequence
<1>2. /\ c \in Seq(S) /\ Len(c) = n
      /\ \A k \in 1 .. n : c[k] = q[m + k]
  <2>1. m + 1 \in Int /\ m + n \in Int /\ \A k \in m + 1 .. m + n : q[k] \in S
    OBVIOUS
  <2>2. /\ c \in Seq(S)
        /\ Len(c) = IF m + 1 <= m + n THEN (m + n) - (m + 1) + 1 ELSE 0
        /\ \A k \in 1 .. (m + n) - (m + 1) + 1 : c[k] = q[(m + 1) + k - 1]
    BY <1>1, <2>1, SubSeqProperties
  <2> HIDE DEF c
  <2>3. \A k \in 1 .. n : (m + 1) + k - 1 = m + k /\ (m + n) - (m + 1) + 1 = n
    OBVIOUS
  <2>4. Len(c) = n
    BY <2>2
  <2> QED
    BY <2>2, <2>3, <2>4
<1> HIDE DEF c
<1>3. DOMAIN c = 1 .. n /\ \A k \in 1 .. n : c[k] \in S
  BY <1>2, LenProperties, ElementOfSeq
<1>4. c \in [1 .. n -> S]
  BY <1>2, <1>3, LenProperties, SeqDef
<1>5. IsInjective(c)
  <2>1. SUFFICES ASSUME NEW j \in 1 .. n, NEW k \in 1 .. n, c[j] = c[k] PROVE j = k
    BY <1>3 DEF IsInjective
  <2>2. q[m + j] = q[m + k] /\ m + j \in 1 .. N /\ m + k \in 1 .. N
    BY <1>2, <2>1
  <2>3. m + j = m + k
    BY <2>2 DEF IsInjective
  <2> QED
    BY <2>3
<1>6. \A x : x \in Range(c) <=> \E k \in 1 .. n : q[m + k] = x
  BY <1>2, <1>3 DEF Range
<1> QED
  BY <1>2, <1>4, <1>5, <1>6 DEF c, Slice, FromPlace

(* A list without repetitions is as long as its set. *)
LEMMA ListCounts ==
  ASSUME NEW S, NEW n \in Nat, NEW c \in [1 .. n -> S], IsInjective(c)
  PROVE  IsFiniteSet(Range(c)) /\ Cardinality(Range(c)) = n
<1>1. n \in Int /\ 1 \in Int
  OBVIOUS
<1>2. IsFiniteSet(1 .. n) /\ Cardinality(1 .. n) = IF 1 > n THEN 0 ELSE n - 1 + 1
  BY <1>1, FS_Interval
<1>3. Cardinality(1 .. n) = n
  BY <1>2
<1>4. c \in Surjection(1 .. n, Range(c)) /\ c \in Injection(1 .. n, Range(c))
  BY DEF Surjection, Injection, IsInjective, Range
<1> QED
  BY <1>2, <1>3, <1>4, FS_Surjection

=============================================================================
