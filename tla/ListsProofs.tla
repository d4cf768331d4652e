----------------------------- MODULE ListsProofs -----------------------------
(***************************************************************************)
(* Induction and recursion over the naturals, from the fact that a set of  *)
(* finite sets has a least one, and what the operators of Lists compute.   *)
(***************************************************************************)
EXTENDS Lists, SequencesExt, FiniteSetTheorems, TLAPS

\* A set of naturals has a least element: the intervals below its elements are finite sets.
LEMMA LeastNat ==
  ASSUME NEW T, T \subseteq Nat, T # {}
  PROVE  \E n \in T : \A m \in T : n <= m
<1> DEFINE F == {0 .. n : n \in T}
<1>1. F \subseteq FiniteSubsetsOf(Nat) /\ F # {}
  <2>1. \A n \in T : n \in Int /\ IsFiniteSet(0 .. n)
    BY FS_Interval
  <2>2. \A n \in T : 0 .. n \in SUBSET Nat
    OBVIOUS
  <2> QED
    BY <2>1, <2>2 DEF FiniteSubsetsOf
<1>2. \E x \in F : \A y \in F : ~ (<<y, x>> \in StrictSubsetOrdering(Nat))
  <2> HIDE DEF F
  <2> QED
    BY <1>1, FS_StrictSubsetOrderingWellFounded, WFMin
<1>3. PICK n \in T : \A m \in T : ~ (<<0 .. m, 0 .. n>> \in StrictSubsetOrdering(Nat))
  BY <1>2
<1>4. ASSUME NEW m \in T, m < n PROVE FALSE
  <2>1. 0 .. m \in SUBSET Nat /\ 0 .. n \in SUBSET Nat
    OBVIOUS
  <2>2. 0 .. m \subseteq 0 .. n /\ n \in 0 .. n /\ n \notin 0 .. m
    BY <1>4
  <2>3. <<0 .. m, 0 .. n>> \in StrictSubsetOrdering(Nat)
    BY <2>1, <2>2 DEF StrictSubsetOrdering
  <2> QED
    BY <1>3, <2>3
<1> QED
  BY <1>3, <1>4

\* Induction, with the set of the numbers that have the property in the property's place
LEMMA Induction ==
  ASSUME NEW T, 0 \in T, \A n \in Nat : n \in T => n + 1 \in T
  PROVE  \A n \in Nat : n \in T
<1> SUFFICES ASSUME ~ (Nat \subseteq T) PROVE FALSE
  OBVIOUS
<1>1. PICK n \in Nat \ T : \A m \in Nat \ T : n <= m
  BY LeastNat
<1>2. n # 0 /\ n - 1 \in Nat
  BY <1>1
<1>3. n - 1 \in T
  BY <1>1, <1>2
<1>4. (n - 1) + 1 \in T
  BY <1>2, <1>3
<1> QED
  BY <1>1, <1>4

LEMMA InductionUpto ==
  ASSUME NEW n \in Nat, NEW T, 0 \in T, \A k \in 0 .. n - 1 : k \in T => k + 1 \in T
  PROVE  \A k \in 0 .. n : k \in T
<1> DEFINE U == {k \in Nat : k <= n => k \in T}
<1>1. 0 \in U
  OBVIOUS
<1>2. ASSUME NEW k \in Nat, k \in U PROVE k + 1 \in U
  BY <1>2
<1>3. \A k \in Nat : k \in U
  <2> HIDE DEF U
  <2> QED
    BY <1>1, <1>2, Induction
<1> QED
  BY <1>3

\* A sequence of values, each made from the one before, exists.
Computed(S, b, n, step) ==
  \E g \in [0 .. n -> S] : g[0] = b /\ \A i \in 1 .. n : g[i] = step[i][g[i - 1]]

LEMMA Recursion ==
  ASSUME NEW S, NEW b, NEW n, NEW step, b \in S, n \in Nat, step \in [1 .. n -> [S -> S]]
  PROVE  Computed(S, b, n, step)
<1> DEFINE Computes(g, k) == g[0] = b /\ \A i \in 1 .. k : g[i] = step[i][g[i - 1]]
           Upto(k) == \E g \in [0 .. k -> S] : Computes(g, k)
           T == {k \in Nat : k <= n => Upto(k)}
<1>1. 0 \in T
  <2>1. [i \in 0 .. 0 |-> b] \in [0 .. 0 -> S] /\ Computes([i \in 0 .. 0 |-> b], 0)
    OBVIOUS
  <2>2. Upto(0)
    BY <2>1
  <2> QED
    BY <2>2
<1>2. ASSUME NEW k \in Nat, k \in T, k + 1 <= n PROVE Upto(k + 1)
  <2>1. PICK g \in [0 .. k -> S] : Computes(g, k)
    BY <1>2
  <2> DEFINE h == [i \in 0 .. k + 1 |-> IF i <= k THEN g[i] ELSE step[k + 1][g[k]]]
  <2>2. step[k + 1][g[k]] \in S
    BY <1>2
  <2>3. h \in [0 .. k + 1 -> S]
    BY <2>2
  <2>4. h[0] = b
    BY <2>1
  <2>5. ASSUME NEW i \in 1 .. k + 1 PROVE h[i] = step[i][h[i - 1]]
    <3>1. CASE i <= k
      <4>1. i \in 1 .. k /\ i \in 0 .. k + 1 /\ i - 1 \in 0 .. k + 1 /\ i - 1 <= k
        BY <3>1
      <4>2. h[i] = g[i] /\ h[i - 1] = g[i - 1]
        BY <4>1
      <4> QED
        BY <2>1, <4>1, <4>2
    <3>2. CASE i = k + 1
      <4>1. h[i] = step[k + 1][g[k]]
        BY <3>2
      <4>2. h[i - 1] = g[k]
        BY <3>2
      <4> QED
        BY <3>2, <4>1, <4>2
    <3> QED
      BY <3>1, <3>2
  <2> QED
    BY <2>3, <2>4, <2>5
<1>3. ASSUME NEW k \in Nat, k \in T PROVE k + 1 \in T
  <2>1. k + 1 <= n => Upto(k + 1)
    BY <1>2, <1>3
  <2> HIDE DEF Upto
  <2> QED
    BY <2>1
<1>4. \A k \in Nat : k \in T
  <2> HIDE DEF T
  <2> QED
    BY <1>1, <1>3, Induction
<1>5. Upto(n)
  BY <1>4
<1> QED
  BY <1>5 DEF Computed

-----------------------------------------------------------------------------

\* Append adds one element to those of a list.
LEMMA RangeAppend ==
  ASSUME NEW A, NEW s \in Seq(A), NEW x \in A
  PROVE  Range(Append(s, x)) = Range(s) \cup {x}
<1> DEFINE t == Append(s, x)
<1>1. /\ DOMAIN s = 1 .. Len(s) /\ DOMAIN t = 1 .. Len(s) + 1 /\ Len(s) \in Nat
      /\ t[Len(s) + 1] = x /\ \A i \in 1 .. Len(s) : t[i] = s[i]
  OBVIOUS
<1>2. \A i \in DOMAIN t : i \in DOMAIN s \/ i = Len(s) + 1
  BY <1>1
<1>3. \A i \in DOMAIN s : i \in DOMAIN t
  BY <1>1
<1>4. Len(s) + 1 \in DOMAIN t
  BY <1>1
<1> HIDE DEF t
<1> QED
  BY <1>1, <1>2, <1>3, <1>4 DEF Range

\* What is left of a list has the elements that were to stay, and no others.
LEMMA WithoutProperties ==
  ASSUME NEW A, NEW s \in Seq(A), NEW S
  PROVE  /\ Without(s, S) \in Seq(A)
         /\ Range(Without(s, S)) = Range(s) \ S
<1> DEFINE Body(g) == [i \in 0 .. Len(s) |->
                         IF i = 0 THEN <<>>
                         ELSE IF s[i] \in S THEN g[i - 1] ELSE Append(g[i - 1], s[i])]
           step == [i \in 1 .. Len(s) |->
                      [t \in Seq(A) |-> IF s[i] \in S THEN t ELSE Append(t, s[i])]]
           kept == CHOOSE g : g = Body(g)
<1>1. <<>> \in Seq(A) /\ Len(s) \in Nat /\ step \in [1 .. Len(s) -> [Seq(A) -> Seq(A)]]
  OBVIOUS
<1>2. PICK g \in [0 .. Len(s) -> Seq(A)] :
        g[0] = <<>> /\ \A i \in 1 .. Len(s) : g[i] = step[i][g[i - 1]]
  <2>1. PICK Q, b, n : Q = Seq(A) /\ b = <<>> /\ n = Len(s)
    OBVIOUS
  <2>2. b \in Q /\ n \in Nat /\ step \in [1 .. n -> [Q -> Q]]
    BY <1>1, <2>1
  <2> HIDE DEF step
  <2>3. Computed(Q, b, n, step)
    BY <2>2, Recursion, Zenon
  <2> QED
    BY <2>1, <2>3 DEF Computed
<1>3. ASSUME NEW i \in 1 .. Len(s)
      PROVE  g[i] = IF s[i] \in S THEN g[i - 1] ELSE Append(g[i - 1], s[i])
  <2>1. g[i - 1] \in Seq(A)
    OBVIOUS
  <2>2. g[i] = step[i][g[i - 1]]
    BY <1>2
  <2> QED
    BY <2>1, <2>2
<1>4. g = Body(g)
  <2>1. \A i \in 0 .. Len(s) :
          g[i] = IF i = 0 THEN <<>> ELSE IF s[i] \in S THEN g[i - 1] ELSE Append(g[i - 1], s[i])
    <3>1. \A i \in 0 .. Len(s) : i = 0 \/ i \in 1 .. Len(s)
      OBVIOUS
    <3> QED
      BY <1>2, <1>3, <3>1
  <2>2. g = [i \in 0 .. Len(s) |-> g[i]]
    OBVIOUS
  <2> QED
    BY <2>1, <2>2
<1>5. kept = Body(kept)
  <2> HIDE DEF Body
  <2> QED
    BY <1>4
<1>6. \A i \in 0 .. Len(s) : kept[i] = g[i]
  <2> DEFINE T == {k \in 0 .. Len(s) : kept[k] = g[k]}
  <2> HIDE DEF kept
  <2>1. 0 \in T
    BY <1>2, <1>5
  <2>2. ASSUME NEW k \in 0 .. Len(s) - 1, k \in T PROVE k + 1 \in T
    <3>1. k + 1 \in 1 .. Len(s) /\ k + 1 \in 0 .. Len(s) /\ k + 1 # 0 /\ (k + 1) - 1 = k
      OBVIOUS
    <3>2. kept[k] = g[k]
      BY <2>2
    <3>3. kept[k + 1] = IF s[k + 1] \in S THEN kept[k] ELSE Append(kept[k], s[k + 1])
      BY <1>5, <3>1
    <3> QED
      BY <1>3, <3>1, <3>2, <3>3
  <2>3. \A k \in 0 .. Len(s) : k \in T
    <3> HIDE DEF T
    <3> QED
      BY <1>1, <2>1, <2>2, InductionUpto
  <2> QED
    BY <2>3
<1>7. Without(s, S) = kept[Len(s)]
  BY DEF Without
<1>8. Without(s, S) = g[Len(s)]
  <2> HIDE DEF kept
  <2> QED
    BY <1>6, <1>7
<1> HIDE DEF step, kept, Body
<1>9. Len(s) \in Nat /\ DOMAIN s = 1 .. Len(s)
  OBVIOUS
<1> DEFINE First(k) == {s[i] : i \in 1 .. k}
           T == {k \in 0 .. Len(s) : Range(g[k]) = First(k) \ S}
<1>10. 0 \in T
  BY <1>2 DEF Range
<1>11. ASSUME NEW k \in 0 .. Len(s) - 1, k \in T PROVE k + 1 \in T
  <2>1. k + 1 \in 1 .. Len(s) /\ k + 1 \in 0 .. Len(s) /\ (k + 1) - 1 = k
    OBVIOUS
  <2>2. /\ s[k + 1] \in S => g[k + 1] = g[k]
        /\ s[k + 1] \notin S => g[k + 1] = Append(g[k], s[k + 1])
    BY <1>3, <2>1
  <2>3. g[k] \in Seq(A) /\ s[k + 1] \in A
    BY <2>1
  <2>4. First(k + 1) = First(k) \cup {s[k + 1]}
    OBVIOUS
  <2>5. Range(Append(g[k], s[k + 1])) = Range(g[k]) \cup {s[k + 1]}
    BY <2>3, RangeAppend
  <2>6. Range(g[k]) = First(k) \ S
    BY <1>11
  <2> HIDE DEF First
  <2>7. Range(g[k + 1]) = First(k + 1) \ S
    BY <2>2, <2>4, <2>5, <2>6
  <2> QED
    BY <2>1, <2>7
<1>12. \A k \in 0 .. Len(s) : k \in T
  <2> HIDE DEF T
  <2> QED
    BY <1>9, <1>10, <1>11, InductionUpto
<1>13. Range(g[Len(s)]) = First(Len(s)) \ S
  BY <1>9, <1>12
<1>14. First(Len(s)) = Range(s)
  BY <1>9 DEF Range
<1>15. g[Len(s)] \in Seq(A)
  BY <1>9
<1> QED
  BY <1>8, <1>13, <1>14, <1>15

-----------------------------------------------------------------------------
(* Lists: their prefixes, and lists of lists put together. *)

LEMMA PrefixPointwise ==
  ASSUME NEW A, NEW s \in Seq(A), NEW t \in Seq(A)
  PROVE  IsPrefix(s, t) <=> Len(s) <= Len(t) /\ \A i \in 1 .. Len(s) : s[i] = t[i]
<1>1. PICK m \in Nat, n \in Nat : m = Len(s) /\ n = Len(t)
  OBVIOUS
<1>2. ASSUME m <= n PROVE SubSeq(s, 1, m) = SubSeq(t, 1, m) <=> \A i \in 1 .. m : s[i] = t[i]
  <2>1. SubSeq(s, 1, m) = [i \in 1 .. m |-> s[i]]
    BY <1>1
  <2>2. SubSeq(t, 1, m) = [i \in 1 .. m |-> t[i]]
    BY <1>1, <1>2
  <2> QED
    BY <2>1, <2>2
<1> QED
  BY <1>1, <1>2 DEF IsPrefix

LEMMA ConcatProperties ==
  ASSUME NEW A, NEW s, NEW t, NEW u, s \in Seq(A), t \in Seq(A), u \in Seq(A)
  PROVE  /\ s \o t \in Seq(A)
         /\ (s \o t) \o u = s \o (t \o u)
         /\ s \o <<>> = s /\ <<>> \o s = s
  OBVIOUS

Cat(s, t) == s \o t

\* Two sequences are the same if they have the same length and elements.
LEMMA SameSequence ==
  ASSUME NEW A, NEW s \in Seq(A), NEW t \in Seq(A), Len(s) = Len(t), \A i \in 1 .. Len(s) : s[i] = t[i]
  PROVE  s = t
OBVIOUS

LEMMA CatAssociative ==
  ASSUME NEW A, NEW s, NEW t, NEW u, s \in Seq(A), t \in Seq(A), u \in Seq(A)
  PROVE  Cat(Cat(s, t), u) = Cat(s, Cat(t, u))
  BY DEF Cat

\* Short lists are what Append makes of shorter ones.
LEMMA AppendToNone == \A x : Append(<<>>, x) = <<x>>
OBVIOUS

LEMMA AppendToOne == \A x, y : Append(<<x>>, y) = <<x, y>>
<1> SUFFICES ASSUME NEW x, NEW y PROVE Append(<<x>>, y) = <<x, y>>
  OBVIOUS
<1>1. PICK A, s, t, u : A = {x, y} /\ s = <<x>> /\ t = Append(s, y) /\ u = <<x, y>>
  OBVIOUS
<1>2. s \in Seq(A) /\ Len(s) = 1 /\ s[1] = x /\ y \in A
  BY <1>1
<1>3. t \in Seq(A) /\ Len(t) = 2 /\ t[1] = x /\ t[2] = y
  BY <1>1, <1>2
<1>4. u \in Seq(A) /\ Len(u) = 2 /\ u[1] = x /\ u[2] = y
  BY <1>1
<1>5. \A i \in 1 .. 2 : i = 1 \/ i = 2
  OBVIOUS
<1>6. t = u
  BY <1>3, <1>4, <1>5
<1> QED
  BY <1>1, <1>6

LEMMA AppendToTwo == \A x, y, z : Append(<<x, y>>, z) = <<x, y, z>>
<1> SUFFICES ASSUME NEW x, NEW y, NEW z PROVE Append(<<x, y>>, z) = <<x, y, z>>
  OBVIOUS
<1>1. PICK A, s, t, u : A = {x, y, z} /\ s = <<x, y>> /\ t = Append(s, z) /\ u = <<x, y, z>>
  OBVIOUS
<1>2. s \in Seq(A) /\ Len(s) = 2 /\ s[1] = x /\ s[2] = y /\ z \in A
  BY <1>1
<1>3. t \in Seq(A) /\ Len(t) = 3 /\ t[1] = x /\ t[2] = y /\ t[3] = z
  BY <1>1, <1>2
<1>4. u \in Seq(A) /\ Len(u) = 3 /\ u[1] = x /\ u[2] = y /\ u[3] = z
  BY <1>1
<1>5. \A i \in 1 .. 3 : i = 1 \/ i = 2 \/ i = 3
  OBVIOUS
<1>6. t = u
  BY <1>3, <1>4, <1>5
<1> QED
  BY <1>1, <1>6

LEMMA ConcatOne ==
  ASSUME NEW A, NEW s \in Seq(A), NEW x \in A
  PROVE  s \o <<x>> = Append(s, x)
OBVIOUS

LEMMA PairAndOne == \A x, y, z : <<x, y>> \o <<z>> = <<x, y, z>>
<1> SUFFICES ASSUME NEW x, NEW y, NEW z PROVE <<x, y>> \o <<z>> = <<x, y, z>>
  OBVIOUS
<1>1. <<x, y>> \in Seq({x, y, z}) /\ z \in {x, y, z}
  OBVIOUS
<1>2. <<x, y>> \o <<z>> = Append(<<x, y>>, z)
  BY <1>1, ConcatOne
<1> QED
  BY <1>2, AppendToTwo

LEMMA ConcatPrefix ==
  ASSUME NEW A, NEW s \in Seq(A), NEW t \in Seq(A), NEW u \in Seq(A)
  PROVE  /\ IsPrefix(s, s \o t)
         /\ IsPrefix(t, u) => IsPrefix(s \o t, s \o u)
<1>1. s \o t \in Seq(A) /\ s \o u \in Seq(A)
  OBVIOUS
<1>2. PICK m \in Nat, n \in Nat, l \in Nat : m = Len(s) /\ n = Len(t) /\ l = Len(u)
  OBVIOUS
<1>3. /\ Len(s \o t) = m + n /\ Len(s \o u) = m + l
      /\ \A i \in 1 .. m : (s \o t)[i] = s[i] /\ (s \o u)[i] = s[i]
      /\ \A i \in 1 .. n : (s \o t)[m + i] = t[i]
      /\ \A i \in 1 .. l : (s \o u)[m + i] = u[i]
  BY <1>2
<1>4. IsPrefix(s, s \o t)
  <2>1. Len(s) <= Len(s \o t) /\ \A i \in 1 .. Len(s) : s[i] = (s \o t)[i]
    BY <1>2, <1>3
  <2> QED
    BY <1>1, <2>1, PrefixPointwise
<1>5. ASSUME IsPrefix(t, u) PROVE IsPrefix(s \o t, s \o u)
  <2>1. n <= l /\ \A i \in 1 .. n : t[i] = u[i]
    BY <1>2, <1>5, PrefixPointwise
  <2>2. \A i \in 1 .. m + n : i \in 1 .. m \/ (i - m \in 1 .. n /\ m + (i - m) = i)
    OBVIOUS
  <2>3. \A i \in 1 .. n : (s \o t)[m + i] = (s \o u)[m + i]
    <3>1. \A i \in 1 .. n : i \in 1 .. l
      BY <2>1
    <3> QED
      BY <1>3, <2>1, <3>1
  <2>4. \A i \in 1 .. m + n : (s \o t)[i] = (s \o u)[i]
    BY <1>3, <2>2, <2>3
  <2>5. Len(s \o t) <= Len(s \o u) /\ \A i \in 1 .. Len(s \o t) : (s \o t)[i] = (s \o u)[i]
    BY <1>3, <2>1, <2>4
  <2> QED
    BY <1>1, <2>5, PrefixPointwise
<1> QED
  BY <1>4, <1>5

LEMMA PrefixTransitive ==
  ASSUME NEW A, NEW s \in Seq(A), NEW t \in Seq(A), NEW u \in Seq(A),
         IsPrefix(s, t), IsPrefix(t, u)
  PROVE  IsPrefix(s, u)
<1>1. PICK m \in Nat, n \in Nat, l \in Nat : m = Len(s) /\ n = Len(t) /\ l = Len(u)
  OBVIOUS
<1>2. m <= n /\ \A i \in 1 .. m : s[i] = t[i]
  BY <1>1, PrefixPointwise
<1>3. n <= l /\ \A i \in 1 .. n : t[i] = u[i]
  BY <1>1, PrefixPointwise
<1>4. m <= l /\ \A i \in 1 .. m : s[i] = u[i]
  BY <1>2, <1>3
<1> QED
  BY <1>1, <1>4, PrefixPointwise

LEMMA AppendPrefix ==
  ASSUME NEW A, NEW t \in Seq(A), NEW x \in A
  PROVE  IsPrefix(t, Append(t, x))
<1>1. <<x>> \in Seq(A) /\ Append(t, x) = t \o <<x>>
  OBVIOUS
<1> QED
  BY <1>1, ConcatPrefix

LEMMA AppendConcat ==
  ASSUME NEW A, NEW s \in Seq(A), NEW t \in Seq(A), NEW x \in A
  PROVE  Append(s \o t, x) = s \o Append(t, x) /\ Append(s \o t, x) \in Seq(A)
<1>1. s \o t \in Seq(A) /\ <<x>> \in Seq(A)
  OBVIOUS
<1>2. Append(t, x) = t \o <<x>> /\ Append(s \o t, x) = (s \o t) \o <<x>>
  BY <1>1
<1>3. (s \o t) \o <<x>> = s \o (t \o <<x>>)
  BY <1>1
<1>4. Append(s \o t, x) \in Seq(A)
  BY <1>1
<1> QED
  BY <1>2, <1>3, <1>4

\* One list more adds its elements behind those of the lists before.
Joining(A, n, v, g) ==
  g \in [0 .. n -> Seq(A)] /\ g[0] = <<>> /\ \A i \in 1 .. n : g[i] = g[i - 1] \o v[i]

LEMMA JoiningSteps ==
  ASSUME NEW A, NEW n \in Nat, NEW v \in [1 .. n -> Seq(A)]
  PROVE  \E g : Joining(A, n, v, g)
<1> DEFINE step == [i \in 1 .. n |-> [t \in Seq(A) |-> t \o v[i]]]
<1>1. step \in [1 .. n -> [Seq(A) -> Seq(A)]] /\ <<>> \in Seq(A)
  <2>1. \A i \in 1 .. n : [t \in Seq(A) |-> t \o v[i]] \in [Seq(A) -> Seq(A)]
    OBVIOUS
  <2> QED
    BY <2>1
<1>2. PICK Q, b, st : Q = Seq(A) /\ b = <<>> /\ st = step
  OBVIOUS
<1>3. b \in Q /\ n \in Nat /\ st \in [1 .. n -> [Q -> Q]]
  BY <1>1, <1>2
<1> HIDE DEF step
<1>4. Computed(Q, b, n, st)
  BY <1>3, Recursion, Zenon
<1>5. PICK g \in [0 .. n -> Seq(A)] : g[0] = <<>> /\ \A i \in 1 .. n : g[i] = step[i][g[i - 1]]
  BY <1>2, <1>4 DEF Computed
<1>6. ASSUME NEW i \in 1 .. n PROVE g[i] = g[i - 1] \o v[i]
  <2>1. g[i - 1] \in Seq(A)
    OBVIOUS
  <2> QED
    BY <1>5, <2>1 DEF step
<1> QED
  BY <1>5, <1>6 DEF Joining

Flattens(n, v, g) == \A k \in 0 .. n : FlattenSeq([i \in 1 .. k |-> v[i]]) = g[k]

LEMMA FlattenJoins ==
  ASSUME NEW A, NEW n \in Nat, NEW v, v \in [1 .. n -> Seq(A)], NEW g, Joining(A, n, v, g)
  PROVE  Flattens(n, v, g)
<1> SUFFICES ASSUME NEW k \in 0 .. n PROVE FlattenSeq([i \in 1 .. k |-> v[i]]) = g[k]
  BY DEF Flattens
<1> DEFINE s == [i \in 1 .. k |-> v[i]]
<1>1. s \in Seq(Seq(A)) /\ Len(s) = k /\ \A i \in 1 .. k : s[i] = v[i]
  OBVIOUS
<1>2. g[0] = <<>> /\ \A i \in 1 .. n : v[i] \in Seq(A) /\ g[i] = g[i - 1] \o v[i]
  BY DEF Joining
<1>3. CASE k = 0
  <2>1. s = <<>>
    BY <1>3
  <2>2. FlattenSeq(<<>>) = <<>>
    BY DEF FlattenSeq
  <2> QED
    BY <1>2, <1>3, <2>1, <2>2
<1>4. CASE k # 0
  <2> DEFINE Body(f) == [i \in 1 .. Len(s) |-> IF i = 1 THEN s[i] ELSE f[i - 1] \o s[i]]
             flatten == CHOOSE f : f = Body(f)
             h == [i \in 1 .. k |-> g[i]]
  <2>1. FlattenSeq(s) = flatten[k]
    BY <1>1, <1>4 DEF FlattenSeq
  <2>2. h = Body(h)
    <3>1. ASSUME NEW i \in 1 .. k PROVE h[i] = IF i = 1 THEN s[i] ELSE h[i - 1] \o s[i]
      <4>1. i \in 1 .. n /\ s[i] = v[i]
        OBVIOUS
      <4>2. CASE i = 1
        <5>1. g[1] = g[1 - 1] \o v[1] /\ v[1] \in Seq(A) /\ 1 - 1 = 0
          BY <1>2, <4>1, <4>2
        <5>2. PICK w \in Seq(A) : w = v[1]
          BY <5>1
        <5>3. <<>> \o w = w
          OBVIOUS
        <5>4. g[1] = v[1]
          BY <1>2, <5>1, <5>2, <5>3
        <5> QED
          BY <4>1, <4>2, <5>4
      <4>3. CASE i # 1
        <5>1. i - 1 \in 1 .. k
          BY <4>3
        <5>2. h[i] = g[i] /\ h[i - 1] = g[i - 1]
          BY <5>1
        <5>3. g[i] = g[i - 1] \o v[i]
          BY <1>2, <4>1
        <5> QED
          BY <4>1, <4>3, <5>2, <5>3
      <4> QED
        BY <4>2, <4>3
    <3> QED
      BY <1>1, <3>1
  <2>3. flatten = Body(flatten)
    <3> HIDE DEF Body
    <3> QED
      BY <2>2
  <2> DEFINE T == {i \in 0 .. k : i = 0 \/ flatten[i] = g[i]}
  <2> HIDE DEF flatten
  <2>4. 0 \in T
    OBVIOUS
  <2>5. ASSUME NEW i \in 0 .. k - 1, i \in T PROVE i + 1 \in T
    <3>1. i + 1 \in 1 .. k /\ i + 1 \in 1 .. n /\ i + 1 \in 0 .. k /\ (i + 1) - 1 = i /\ s[i + 1] = v[i + 1]
      OBVIOUS
    <3>2. flatten[i + 1] = IF i + 1 = 1 THEN s[i + 1] ELSE flatten[i] \o s[i + 1]
      BY <1>1, <2>3, <3>1
    <3>3. g[i + 1] = g[i] \o v[i + 1] /\ v[i + 1] \in Seq(A)
      BY <1>2, <3>1
    <3>4. CASE i = 0
      <4>1. PICK w \in Seq(A) : w = v[1]
        BY <3>3, <3>4
      <4>2. <<>> \o w = w
        OBVIOUS
      <4>3. g[1] = g[0] \o w
        <5>1. 1 \in 1 .. n /\ 1 - 1 = 0
          BY <3>1, <3>4
        <5>2. g[1] = g[1 - 1] \o v[1]
          BY <1>2, <5>1
        <5> QED
          BY <4>1, <5>1, <5>2
      <4>4. g[1] = v[1]
        BY <1>2, <4>1, <4>2, <4>3
      <4> QED
        BY <3>1, <3>2, <3>4, <4>4
    <3>5. CASE i # 0
      <4>1. flatten[i] = g[i]
        BY <2>5, <3>5
      <4>2. i + 1 # 1
        BY <3>5
      <4> QED
        BY <3>1, <3>2, <3>3, <4>1, <4>2
    <3> QED
      BY <3>4, <3>5
  <2>6. k \in T
    <3>1. k \in Nat /\ k \in 0 .. k
      OBVIOUS
    <3> HIDE DEF T
    <3>2. \A i \in 0 .. k : i \in T
      BY <2>4, <2>5, <3>1, InductionUpto
    <3> QED
      BY <3>1, <3>2
  <2> QED
    BY <1>4, <2>1, <2>6
<1> QED
  BY <1>3, <1>4

LEMMA FlattenProperties ==
  ASSUME NEW A, NEW n \in Nat, NEW v \in [1 .. n -> Seq(A)]
  PROVE  /\ FlattenSeq([i \in 1 .. 0 |-> v[i]]) = <<>>
         /\ \A k \in 0 .. n : FlattenSeq([i \in 1 .. k |-> v[i]]) \in Seq(A)
         /\ \A k \in 1 .. n : FlattenSeq([i \in 1 .. k |-> v[i]])
                                = FlattenSeq([i \in 1 .. k - 1 |-> v[i]]) \o v[k]
<1>1. PICK g : Joining(A, n, v, g)
  BY JoiningSteps
<1>2. g \in [0 .. n -> Seq(A)] /\ g[0] = <<>> /\ \A i \in 1 .. n : g[i] = g[i - 1] \o v[i]
  BY <1>1 DEF Joining
<1>3. Flattens(n, v, g)
  BY <1>1, FlattenJoins, Zenon
<1>4. \A k \in 1 .. n : k \in 0 .. n /\ k - 1 \in 0 .. n
  OBVIOUS
<1>5. 0 \in 0 .. n
  OBVIOUS
<1> QED
  BY <1>2, <1>3, <1>4, <1>5 DEF Flattens

\* The greatest and the least of some positions
LEMMA MaxProperties ==
  ASSUME NEW n \in Nat, NEW S, S \subseteq 1 .. n, S # {}
  PROVE  Max(S) \in S /\ \A y \in S : Max(S) >= y
<1>1. PICK T : T = {n - x : x \in S}
  OBVIOUS
<1>2. T \subseteq Nat /\ T # {}
  <2>1. \A x \in S : n - x \in Nat
    <3> SUFFICES ASSUME NEW x \in S PROVE n - x \in Nat
      OBVIOUS
    <3>1. x \in 1 .. n
      OBVIOUS
    <3> QED
      BY <3>1
  <2> QED
    BY <1>1, <2>1
<1>3. PICK m \in T : \A k \in T : m <= k
  BY <1>2, LeastNat
<1>4. PICK x \in S : m = n - x
  BY <1>1, <1>3
<1>5. ASSUME NEW y \in S PROVE x >= y
  <2>1. n - y \in T /\ x \in 1 .. n /\ y \in 1 .. n
    BY <1>1
  <2>2. n - x <= n - y
    BY <1>3, <1>4, <2>1
  <2> QED
    BY <2>1, <2>2
<1> QED
  BY <1>5 DEF Max

LEMMA MinProperties ==
  ASSUME NEW S, S \subseteq Nat, S # {}
  PROVE  Min(S) \in S /\ \A y \in S : Min(S) <= y
  BY LeastNat DEF Min

=============================================================================
