---------------------------- MODULE SumTheorems ----------------------------
(***************************************************************************)
(* Finite sets and sums over them: MapThenSumSet as a recursion over the   *)
(* subsets of a set, and what the contracts' bookkeeping needs of it.  A   *)
(* property of all subsets of a finite set is shown for one of the         *)
(* smallest subsets for which it could fail.                               *)
(***************************************************************************)
EXTENDS Sequences, FiniteSetsExt, WellFoundedInduction, TLAPS

\* The sum of g over S.
SumOver(g, S) == MapThenSumSet(LAMBDA a : g[a], S)

-----------------------------------------------------------------------------
(* Numbers and sequences. *)

LEMMA NatInt == \A n \in Nat : n \in Int
OBVIOUS

LEMMA NatPlus == \A m, n \in Nat : m + n \in Nat
OBVIOUS

LEMMA NonePositive == \A n \in Nat : ~(n > 0) => n = 0
OBVIOUS

LEMMA AddZero == \A n \in Int : n + 0 = n
OBVIOUS

LEMMA AddNegative == \A m, n \in Int : m + (-n) = m - n /\ m - n \in Int
OBVIOUS

LEMMA NatMinus == \A m, n \in Nat : m - n \in Int
OBVIOUS

LEMMA PlusMinus == \A a \in Int, m, n \in Nat : a + m - n = a + (m - n)
OBVIOUS

LEMMA OneIsBefore ==
    \A i, j \in Nat : i >= 1 /\ j >= 1 /\ i # j => i \in 1 .. j - 1 \/ j \in 1 .. i - 1
OBVIOUS

\* A sequence with one more element.
LEMMA Appended ==
    ASSUME NEW S, NEW s \in Seq(S), NEW x \in S
    PROVE  LET t == Append(s, x)
               n == Len(s) + 1
           IN /\ DOMAIN s = 1 .. Len(s) /\ t[n] = x /\ \A i \in 1 .. Len(s) : t[i] = s[i]
              /\ DOMAIN t = DOMAIN s \cup {n} /\ n \notin DOMAIN s
<1>1. Len(s) \in Nat
  OBVIOUS
<1>2. (1 .. Len(s)) \cup {Len(s) + 1} = 1 .. Len(s) + 1
  BY <1>1
<1> QED BY <1>2

-----------------------------------------------------------------------------
(* Finite sets: those that a function on 1 .. n covers. *)

Covers(f, n, S) == \A x \in S : \E i \in 1 .. n : f[i] = x

LEMMA LeastNat ==
    ASSUME NEW N, N \subseteq Nat, N # {}
    PROVE  \E n \in N : \A m \in N : ~(m < n)
<1>1. PICK n \in N : \A m \in N : ~(<<m, n>> \in OpToRel(<, Nat))
  BY Zenon, NatLessThanWellFounded, WFMin
<1>2. \A m \in N : m < n => <<m, n>> \in OpToRel(<, Nat)
  BY DEF OpToRel
<1> QED BY Zenon, <1>1, <1>2

LEMMA FiniteCover ==
    ASSUME NEW S, IsFiniteSet(S)
    PROVE  \E n \in Nat : \E f : Covers(f, n, S)
<1>1. PICK q \in Seq(S) : \A x \in S : \E i \in 1 .. Len(q) : q[i] = x
  BY DEF IsFiniteSet
<1>2. Len(q) \in Nat
  BY <1>1
<1>3. Covers(q, Len(q), S)
  BY <1>1 DEF Covers
<1> QED BY <1>2, <1>3

LEMMA CoveredFinite ==
    ASSUME NEW S, NEW n \in Nat, NEW f, Covers(f, n, S)
    PROVE  IsFiniteSet(S)
<1>1. CASE S = {}
  <2>1. << >> \in Seq(S)
    OBVIOUS
  <2> QED BY Zenon, <1>1, <2>1 DEF IsFiniteSet
<1>2. CASE S # {}
  <2> DEFINE e == CHOOSE x \in S : TRUE
             q == [i \in 1 .. n |-> IF f[i] \in S THEN f[i] ELSE e]
  <2>1. e \in S
    BY <1>2
  <2> HIDE DEF e
  <2>2. q \in Seq(S) /\ Len(q) = n
    BY <2>1
  <2>3. \A x \in S : \E i \in 1 .. n : q[i] = x
    BY DEF Covers
  <2> HIDE DEF q
  <2> QED BY <2>2, <2>3 DEF IsFiniteSet
<1> QED BY <1>1, <1>2

LEMMA FiniteEmpty == IsFiniteSet({})
BY CoveredFinite DEF Covers

LEMMA FiniteSubset ==
    ASSUME NEW S, IsFiniteSet(S), NEW T, T \subseteq S
    PROVE  IsFiniteSet(T)
<1>0. PICK n \in Nat : \E f : Covers(f, n, S)
  BY FiniteCover
<1>1. PICK f : Covers(f, n, S)
  BY <1>0
<1>2. Covers(f, n, T)
  BY <1>1 DEF Covers
<1> QED BY <1>2, CoveredFinite

LEMMA FiniteUnion ==
    ASSUME NEW S, IsFiniteSet(S), NEW T, IsFiniteSet(T)
    PROVE  IsFiniteSet(S \cup T)
<1>0. PICK n \in Nat : \E f : Covers(f, n, S)
  BY FiniteCover
<1>1. PICK f : Covers(f, n, S)
  BY <1>0
<1>a. PICK m \in Nat : \E g : Covers(g, m, T)
  BY FiniteCover
<1>2. PICK g : Covers(g, m, T)
  BY <1>a
<1> DEFINE h == [i \in 1 .. n + m |-> IF i <= n THEN f[i] ELSE g[i - n]]
<1>3. ASSUME NEW x \in S PROVE \E i \in 1 .. n + m : h[i] = x
  <2>1. PICK i \in 1 .. n : f[i] = x
    BY <1>1 DEF Covers
  <2>2. i \in 1 .. n + m /\ h[i] = f[i]
    OBVIOUS
  <2> QED BY <2>1, <2>2
<1>4. ASSUME NEW x \in T PROVE \E i \in 1 .. n + m : h[i] = x
  <2>1. PICK i \in 1 .. m : g[i] = x
    BY <1>2 DEF Covers
  <2>2. n + i \in 1 .. n + m /\ ~(n + i <= n) /\ (n + i) - n = i
    OBVIOUS
  <2>3. h[n + i] = g[i]
    BY <2>2
  <2> QED BY <2>1, <2>2, <2>3
<1> HIDE DEF h
<1>5. Covers(h, n + m, S \cup T)
  BY <1>3, <1>4 DEF Covers
<1> QED BY <1>5, CoveredFinite

LEMMA FiniteImage ==
    ASSUME NEW n \in Nat, NEW f
    PROVE  IsFiniteSet({f[i] : i \in 1 .. n})
<1>1. Covers(f, n, {f[i] : i \in 1 .. n})
  BY DEF Covers
<1> QED BY <1>1, CoveredFinite

LEMMA FiniteInterval == ASSUME NEW n \in Nat PROVE IsFiniteSet(1 .. n)
<1>1. Covers([i \in 1 .. n |-> i], n, 1 .. n)
  BY DEF Covers
<1> QED BY <1>1, CoveredFinite

LEMMA FiniteAdd ==
    ASSUME NEW S, IsFiniteSet(S), NEW x
    PROVE  IsFiniteSet(S \cup {x})
<1>1. Covers([i \in 1 .. 1 |-> x], 1, {x})
  BY DEF Covers
<1>2. IsFiniteSet({x})
  BY <1>1, CoveredFinite
<1> QED BY <1>2, FiniteUnion

\* What a shorter function covers lacks an element.
LEMMA ShorterCover ==
    ASSUME NEW S, NEW n \in Nat, NEW f, Covers(f, n, S), NEW T, T \subseteq S, T # S
    PROVE  n - 1 \in Nat /\ \E g : Covers(g, n - 1, T)
<1>1. PICK x \in S : x \notin T
  OBVIOUS
<1>2. PICK k \in 1 .. n : f[k] = x
  BY DEF Covers
<1>3. n - 1 \in Nat
  OBVIOUS
<1> DEFINE g == [i \in 1 .. n - 1 |-> IF i < k THEN f[i] ELSE f[i + 1]]
<1>4. ASSUME NEW y \in T PROVE \E i \in 1 .. n - 1 : g[i] = y
  <2>1. PICK i \in 1 .. n : f[i] = y
    BY DEF Covers
  <2>2. i # k
    BY <1>1, <1>2, <2>1
  <2>3. CASE i < k
    <3>1. i \in 1 .. n - 1 /\ g[i] = f[i]
      BY <2>3
    <3> QED BY <2>1, <3>1
  <2>4. CASE k < i
    <3>1. i - 1 \in 1 .. n - 1 /\ ~(i - 1 < k) /\ (i - 1) + 1 = i
      BY <2>4
    <3>2. g[i - 1] = f[i]
      BY <3>1
    <3> QED BY <2>1, <3>1, <3>2
  <2> QED BY <2>2, <2>3, <2>4
<1> HIDE DEF g
<1>5. Covers(g, n - 1, T)
  BY <1>4 DEF Covers
<1> QED BY <1>3, <1>5

LEMMA MinimalSubset ==
    ASSUME NEW S, IsFiniteSet(S), NEW T, T \subseteq SUBSET S, T # {}
    PROVE  \E s \in T : \A t \in T : ~(t \subseteq s /\ t # s)
<1> DEFINE N == {n \in Nat : \E s \in T : \E f : Covers(f, n, s)}
<1>1. N # {}
  <2>1. PICK s \in T : s \subseteq S
    OBVIOUS
  <2>2. IsFiniteSet(s)
    BY <2>1, FiniteSubset
  <2> QED BY <2>1, <2>2, FiniteCover
<1>2. PICK n \in N : \A m \in N : ~(m < n)
  <2>1. N \subseteq Nat
    OBVIOUS
  <2> HIDE DEF N
  <2> QED BY Zenon, <1>1, <2>1, LeastNat
<1>0. PICK s \in T : \E f : Covers(f, n, s)
  OBVIOUS
<1>3. PICK f : Covers(f, n, s)
  BY <1>0
<1>4. ASSUME NEW t \in T, t \subseteq s, t # s PROVE FALSE
  <2>1. n \in Nat
    OBVIOUS
  <2>2. n - 1 \in Nat /\ \E g : Covers(g, n - 1, t)
    BY <1>3, <1>4, <2>1, ShorterCover
  <2>3. n - 1 \in N
    BY <2>2
  <2>4. n - 1 < n
    BY <2>1
  <2> QED BY <1>2, <2>3, <2>4
<1> QED BY <1>4

-----------------------------------------------------------------------------
(* The recursion. *)

Pick(s) == CHOOSE x \in s : TRUE

IsSum(f, g, S) ==
    f = [s \in SUBSET S |-> IF s = {} THEN 0 ELSE g[Pick(s)] + f[s \ {Pick(s)}]]

LEMMA SumAsChoice ==
    ASSUME NEW g, NEW S
    PROVE  SumOver(g, S) = (CHOOSE f : IsSum(f, g, S))[S]
BY DEF SumOver, MapThenSumSet, MapThenFoldSet, IsSum, Pick

LEMMA PickedElement ==
    ASSUME NEW s, s # {}
    PROVE  Pick(s) \in s /\ s \ {Pick(s)} \subseteq s /\ s \ {Pick(s)} # s
BY DEF Pick

\* The recursion has one solution on the subsets that two sets share.
LEMMA SumAgrees ==
    ASSUME NEW S, IsFiniteSet(S), NEW A \in SUBSET S, NEW B \in SUBSET S,
           NEW g, NEW f, NEW h, IsSum(f, g, A), IsSum(h, g, B),
           NEW s \in SUBSET (A \cap B)
    PROVE  f[s] = h[s]
<1> DEFINE T == {t \in SUBSET (A \cap B) : f[t] # h[t]}
<1>1. SUFFICES ASSUME T # {} PROVE FALSE
  OBVIOUS
<1>2. PICK t \in T : \A u \in T : ~(u \subseteq t /\ u # t)
  <2>1. T \subseteq SUBSET S
    OBVIOUS
  <2> HIDE DEF T
  <2> QED BY <1>1, <2>1, MinimalSubset
<1>3. t \in SUBSET A /\ t \in SUBSET B /\ f[t] # h[t]
  OBVIOUS
<1>4. /\ f[t] = IF t = {} THEN 0 ELSE g[Pick(t)] + f[t \ {Pick(t)}]
      /\ h[t] = IF t = {} THEN 0 ELSE g[Pick(t)] + h[t \ {Pick(t)}]
  BY Zenon, <1>3 DEF IsSum
<1>5. t # {}
  BY <1>3, <1>4
<1>6. t \ {Pick(t)} \notin T
  BY <1>2, <1>5, PickedElement
<1>7. f[t \ {Pick(t)}] = h[t \ {Pick(t)}]
  BY <1>3, <1>6
<1> QED BY <1>3, <1>4, <1>5, <1>7

\* There is a solution.
LEMMA SumExists ==
    ASSUME NEW S, IsFiniteSet(S), NEW g
    PROVE  \E f : IsSum(f, g, S)
<1> DEFINE F(U) == CHOOSE f : IsSum(f, g, U)
           T == {U \in SUBSET S : ~\E f : IsSum(f, g, U)}
<1>1. SUFFICES ASSUME T # {} PROVE FALSE
  OBVIOUS
<1>2. PICK A \in T : \A U \in T : ~(U \subseteq A /\ U # A)
  <2>1. T \subseteq SUBSET S
    OBVIOUS
  <2> HIDE DEF T
  <2> QED BY <1>1, <2>1, MinimalSubset
<1>3. A \in SUBSET S /\ ~\E f : IsSum(f, g, A)
  BY <1>2
<1>4. ASSUME NEW U \in SUBSET A, U # A PROVE IsSum(F(U), g, U)
  <2>1. U \notin T
    BY <1>2, <1>4
  <2> QED BY <1>3, <2>1
<1> DEFINE val(U) == F(U)[U]
           f == [s \in SUBSET A |->
                   IF s = {} THEN 0
                   ELSE IF s = A THEN g[Pick(A)] + val(A \ {Pick(A)}) ELSE val(s)]
<1>5. ASSUME NEW s \in SUBSET A
      PROVE  f[s] = IF s = {} THEN 0 ELSE g[Pick(s)] + f[s \ {Pick(s)}]
  <2>1. CASE s = {}
    BY <2>1
  <2>2. CASE s # {}
    <3> DEFINE u == s \ {Pick(s)}
    <3>1. u \in SUBSET A /\ u # A /\ u \subseteq s
      BY <2>2, PickedElement
    <3>2. f[u] = val(u)
      <4>1. CASE u = {}
        <5>1. val(u) = 0
          <6>1. IsSum(F(u), g, u)
            BY Zenon, <1>4, <3>1
          <6>2. u \in SUBSET u
            OBVIOUS
          <6> HIDE DEF F, u
          <6> QED BY Zenon, <4>1, <6>1, <6>2 DEF IsSum
        <5> QED BY <3>1, <4>1, <5>1
      <4>2. CASE u # {}
        BY <3>1, <4>2
      <4> QED BY <4>1, <4>2
    <3>3. CASE s = A
      BY <2>2, <3>2, <3>3
    <3>4. CASE s # A
      <4>1. IsSum(F(s), g, s) /\ IsSum(F(u), g, u)
        BY Zenon, <1>4, <3>1, <3>4
      <4>2. F(s)[s] = g[Pick(s)] + F(s)[u]
        BY Zenon, <2>2, <4>1 DEF IsSum
      <4>3. F(s)[u] = F(u)[u]
        <5>1. s \in SUBSET S /\ u \in SUBSET S /\ u \in SUBSET (s \cap u)
          BY <1>3, <3>1
        <5> HIDE DEF F, u
        <5> QED BY <4>1, <5>1, SumAgrees
      <4>4. f[s] = val(s)
        BY <2>2, <3>4
      <4> QED BY <2>2, <3>2, <4>2, <4>3, <4>4
    <3> QED BY <3>3, <3>4
  <2> QED BY <2>1, <2>2
<1>6. IsSum(f, g, A)
  <2>1. [s \in SUBSET A |-> f[s]] =
           [s \in SUBSET A |-> IF s = {} THEN 0 ELSE g[Pick(s)] + f[s \ {Pick(s)}]]
    BY Zenon, <1>5
  <2>2. f = [s \in SUBSET A |-> f[s]]
    OBVIOUS
  <2> QED BY Zenon, <2>1, <2>2 DEF IsSum
<1> QED BY <1>3, <1>6

\* The sum is that of one element and of the others.
LEMMA SumRecursion ==
    ASSUME NEW S, IsFiniteSet(S), NEW g
    PROVE  SumOver(g, S) = IF S = {} THEN 0 ELSE g[Pick(S)] + SumOver(g, S \ {Pick(S)})
<1> DEFINE F(U) == CHOOSE f : IsSum(f, g, U)
<1>1. IsSum(F(S), g, S)
  BY SumExists
<1>2. F(S)[S] = IF S = {} THEN 0 ELSE g[Pick(S)] + F(S)[S \ {Pick(S)}]
  BY Zenon, <1>1 DEF IsSum
<1>3. CASE S = {}
  BY <1>2, <1>3, SumAsChoice
<1>4. CASE S # {}
  <2> DEFINE u == S \ {Pick(S)}
  <2>1. u \in SUBSET S
    OBVIOUS
  <2>2. IsFiniteSet(u)
    BY <2>1, FiniteSubset
  <2>3. IsSum(F(u), g, u)
    <3> HIDE DEF u
    <3> QED BY <2>2, SumExists
  <2>4. F(S)[u] = F(u)[u]
    <3>1. S \in SUBSET S /\ u \in SUBSET (S \cap u)
      BY <2>1
    <3> HIDE DEF F, u
    <3> QED BY <1>1, <2>1, <2>3, <3>1, SumAgrees
  <2>5. SumOver(g, S) = F(S)[S] /\ SumOver(g, u) = F(u)[u]
    BY Zenon, SumAsChoice
  <2> QED BY <1>2, <1>4, <2>4, <2>5
<1> QED BY <1>3, <1>4

LEMMA SumEmpty == \A g : SumOver(g, {}) = 0
BY SumRecursion, FiniteEmpty

-----------------------------------------------------------------------------
(* Laws. *)

\* A sum of integers is an integer, of natural numbers a natural number.
LEMMA SumType ==
    ASSUME NEW S, IsFiniteSet(S), NEW g, \A x \in S : g[x] \in Int
    PROVE  SumOver(g, S) \in Int
<1> DEFINE T == {s \in SUBSET S : SumOver(g, s) \notin Int}
<1>1. SUFFICES ASSUME T # {} PROVE FALSE
  OBVIOUS
<1>2. PICK s \in T : \A t \in T : ~(t \subseteq s /\ t # s)
  <2>1. T \subseteq SUBSET S
    OBVIOUS
  <2> HIDE DEF T
  <2> QED BY <1>1, <2>1, MinimalSubset
<1>3. s \in SUBSET S /\ IsFiniteSet(s) /\ SumOver(g, s) \notin Int
  BY FiniteSubset
<1>4. s # {}
  BY <1>3, SumEmpty
<1>5. s \ {Pick(s)} \in SUBSET S /\ s \ {Pick(s)} \notin T /\ g[Pick(s)] \in Int
  BY <1>2, <1>3, <1>4, PickedElement
<1>6. SumOver(g, s \ {Pick(s)}) \in Int
  BY <1>5
<1>7. SumOver(g, s) = g[Pick(s)] + SumOver(g, s \ {Pick(s)})
  BY Zenon, <1>3, <1>4, SumRecursion
<1> QED BY <1>3, <1>5, <1>6, <1>7

LEMMA SumNat ==
    ASSUME NEW S, IsFiniteSet(S), NEW g, \A x \in S : g[x] \in Nat
    PROVE  SumOver(g, S) \in Nat
<1> DEFINE T == {s \in SUBSET S : SumOver(g, s) \notin Nat}
<1>1. SUFFICES ASSUME T # {} PROVE FALSE
  OBVIOUS
<1>2. PICK s \in T : \A t \in T : ~(t \subseteq s /\ t # s)
  <2>1. T \subseteq SUBSET S
    OBVIOUS
  <2> HIDE DEF T
  <2> QED BY <1>1, <2>1, MinimalSubset
<1>3. s \in SUBSET S /\ IsFiniteSet(s) /\ SumOver(g, s) \notin Nat
  BY FiniteSubset
<1>4. s # {}
  BY <1>3, SumEmpty
<1>5. s \ {Pick(s)} \in SUBSET S /\ s \ {Pick(s)} \notin T /\ g[Pick(s)] \in Nat
  BY <1>2, <1>3, <1>4, PickedElement
<1>6. SumOver(g, s \ {Pick(s)}) \in Nat
  BY <1>5
<1>7. SumOver(g, s) = g[Pick(s)] + SumOver(g, s \ {Pick(s)})
  BY Zenon, <1>3, <1>4, SumRecursion
<1> QED BY <1>3, <1>5, <1>6, <1>7

\* The sum depends on the values on S only.
LEMMA SumSame ==
    ASSUME NEW S, IsFiniteSet(S), NEW g, NEW h, \A x \in S : g[x] = h[x]
    PROVE  SumOver(g, S) = SumOver(h, S)
<1> DEFINE T == {s \in SUBSET S : SumOver(g, s) # SumOver(h, s)}
<1>1. SUFFICES ASSUME T # {} PROVE FALSE
  OBVIOUS
<1>2. PICK s \in T : \A t \in T : ~(t \subseteq s /\ t # s)
  <2>1. T \subseteq SUBSET S
    OBVIOUS
  <2> HIDE DEF T
  <2> QED BY <1>1, <2>1, MinimalSubset
<1>3. s \in SUBSET S /\ IsFiniteSet(s) /\ SumOver(g, s) # SumOver(h, s)
  BY FiniteSubset
<1>4. s # {}
  BY <1>3, SumEmpty
<1>5. s \ {Pick(s)} \in SUBSET S /\ s \ {Pick(s)} \notin T /\ g[Pick(s)] = h[Pick(s)]
  BY <1>2, <1>3, <1>4, PickedElement
<1>6. SumOver(g, s \ {Pick(s)}) = SumOver(h, s \ {Pick(s)})
  BY <1>5
<1>7. /\ SumOver(g, s) = g[Pick(s)] + SumOver(g, s \ {Pick(s)})
      /\ SumOver(h, s) = h[Pick(s)] + SumOver(h, s \ {Pick(s)})
  BY <1>3, <1>4, SumRecursion
<1> QED BY <1>3, <1>5, <1>6, <1>7

\* Any element can be taken out first.
LEMMA SumAny ==
    ASSUME NEW S, IsFiniteSet(S), NEW g, \A x \in S : g[x] \in Int, NEW e \in S
    PROVE  SumOver(g, S) = g[e] + SumOver(g, S \ {e})
<1> DEFINE Fails(s) == \E x \in s : SumOver(g, s) # g[x] + SumOver(g, s \ {x})
           T == {s \in SUBSET S : Fails(s)}
<1>1. SUFFICES ASSUME T # {} PROVE FALSE
  BY Zenon
<1>2. PICK s \in T : \A t \in T : ~(t \subseteq s /\ t # s)
  <2>1. T \subseteq SUBSET S
    OBVIOUS
  <2> HIDE DEF T
  <2> QED BY <1>1, <2>1, MinimalSubset
<1>3. s \in SUBSET S /\ IsFiniteSet(s)
  BY FiniteSubset
<1>4. PICK x \in s : SumOver(g, s) # g[x] + SumOver(g, s \ {x})
  BY <1>2
<1> DEFINE p == Pick(s)
<1>5. p \in s /\ SumOver(g, s) = g[p] + SumOver(g, s \ {p})
  BY Zenon, <1>3, <1>4, SumRecursion, PickedElement
<1> HIDE DEF p
<1>6. p # x
  BY <1>4, <1>5
<1>7. s \ {p} \notin T /\ s \ {x} \notin T
  BY Zenon, <1>2, <1>3, <1>4, <1>5
<1>8. SumOver(g, s \ {p}) = g[x] + SumOver(g, (s \ {p}) \ {x})
  BY Zenon, <1>3, <1>4, <1>6, <1>7
<1>9. SumOver(g, s \ {x}) = g[p] + SumOver(g, (s \ {x}) \ {p})
  BY Zenon, <1>3, <1>5, <1>6, <1>7
<1>10. (s \ {p}) \ {x} = (s \ {x}) \ {p}
  OBVIOUS
<1>11. SumOver(g, (s \ {x}) \ {p}) \in Int
  <2>1. IsFiniteSet((s \ {x}) \ {p}) /\ \A y \in (s \ {x}) \ {p} : g[y] \in Int
    BY <1>3, FiniteSubset
  <2> QED BY <2>1, SumType
<1>12. g[x] \in Int /\ g[p] \in Int
  BY <1>3, <1>4, <1>5
<1> DEFINE r == SumOver(g, (s \ {x}) \ {p})
<1>13. /\ SumOver(g, s \ {x}) = g[p] + r
       /\ SumOver(g, s \ {p}) = g[x] + r
  BY Zenon, <1>8, <1>9, <1>10
<1>14. SumOver(g, s) = g[p] + (g[x] + r)
  BY <1>5, <1>13
<1>15. r \in Int
  BY <1>11
<1> HIDE DEF r, T, Fails
<1>16. g[p] + (g[x] + r) = g[x] + (g[p] + r)
  BY <1>12, <1>15
<1> QED BY <1>4, <1>13, <1>14, <1>16

\* One value changes, and the sum by as much.
LEMMA SumChange ==
    ASSUME NEW S, IsFiniteSet(S), NEW g, NEW h, NEW e \in S,
           \A x \in S : g[x] \in Int, h[e] \in Int, \A x \in S \ {e} : h[x] = g[x]
    PROVE  SumOver(h, S) = SumOver(g, S) + (h[e] - g[e])
<1>1. \A x \in S : h[x] \in Int
  OBVIOUS
<1>2. IsFiniteSet(S \ {e}) /\ \A x \in S \ {e} : g[x] \in Int
  BY FiniteSubset
<1>3. SumOver(h, S \ {e}) = SumOver(g, S \ {e}) /\ SumOver(g, S \ {e}) \in Int
  BY <1>2, SumSame, SumType
<1>4. /\ SumOver(g, S) = g[e] + SumOver(g, S \ {e})
      /\ SumOver(h, S) = h[e] + SumOver(h, S \ {e})
  BY <1>1, SumAny
<1>5. g[e] \in Int
  OBVIOUS
<1> QED BY <1>3, <1>4, <1>5

\* Sums of disjoint sets add up.
LEMMA SumUnion ==
    ASSUME NEW S, IsFiniteSet(S), NEW R, IsFiniteSet(R), S \cap R = {},
           NEW g, \A x \in S \cup R : g[x] \in Int
    PROVE  SumOver(g, S \cup R) = SumOver(g, S) + SumOver(g, R)
<1> DEFINE T == {s \in SUBSET R : SumOver(g, S \cup s) # SumOver(g, S) + SumOver(g, s)}
<1>1. SUFFICES ASSUME T # {} PROVE FALSE
  BY Zenon
<1>2. PICK s \in T : \A t \in T : ~(t \subseteq s /\ t # s)
  <2>1. T \subseteq SUBSET R
    OBVIOUS
  <2> HIDE DEF T
  <2> QED BY <1>1, <2>1, MinimalSubset
<1>3. /\ s \in SUBSET R /\ IsFiniteSet(s)
      /\ SumOver(g, S \cup s) # SumOver(g, S) + SumOver(g, s)
  BY FiniteSubset
<1>4. SumOver(g, S) \in Int
  BY SumType
<1>5. s # {}
  <2> SUFFICES ASSUME s = {} PROVE FALSE
    OBVIOUS
  <2>1. S \cup s = S /\ SumOver(g, s) = 0
    BY SumEmpty
  <2> QED BY <1>3, <1>4, <2>1
<1>6. PICK x \in s : TRUE
  BY <1>5
<1>7. s \ {x} \in SUBSET R /\ s \ {x} \notin T
  BY <1>2, <1>3
<1>8. SumOver(g, S \cup (s \ {x})) = SumOver(g, S) + SumOver(g, s \ {x})
  BY <1>7
<1>9. (S \cup s) \ {x} = S \cup (s \ {x})
  BY <1>3
<1>10. SumOver(g, S \cup s) = g[x] + SumOver(g, (S \cup s) \ {x})
  <2>1. IsFiniteSet(S \cup s) /\ (\A y \in S \cup s : g[y] \in Int) /\ x \in S \cup s
    BY <1>3, FiniteUnion
  <2> QED BY <2>1, SumAny
<1>11. SumOver(g, s) = g[x] + SumOver(g, s \ {x})
  BY <1>3, SumAny
<1>12. SumOver(g, s \ {x}) \in Int /\ g[x] \in Int
  <2>1. IsFiniteSet(s \ {x}) /\ \A y \in s \ {x} : g[y] \in Int
    BY <1>3, FiniteSubset
  <2> QED BY <1>3, <2>1, SumType
<1> DEFINE a == SumOver(g, S)
           b == SumOver(g, s \ {x})
<1>13. SumOver(g, S \cup s) = g[x] + (a + b) /\ SumOver(g, s) = g[x] + b
  BY <1>8, <1>9, <1>10, <1>11
<1>14. a \in Int /\ b \in Int
  BY <1>4, <1>12
<1>15. SumOver(g, S \cup s) # a + SumOver(g, s)
  BY <1>3
<1> HIDE DEF a, b, T
<1>16. g[x] + (a + b) = a + (g[x] + b)
  BY <1>12, <1>14
<1> QED BY <1>13, <1>15, <1>16

\* A larger set has no smaller sum of natural numbers.
LEMMA SumSubset ==
    ASSUME NEW R, IsFiniteSet(R), NEW S \in SUBSET R, NEW g, \A x \in R : g[x] \in Nat
    PROVE  SumOver(g, S) <= SumOver(g, R)
<1>1. IsFiniteSet(S) /\ IsFiniteSet(R \ S) /\ S \cup (R \ S) = R /\ S \cap (R \ S) = {}
  BY FiniteSubset
<1>2. \A x \in S \cup (R \ S) : g[x] \in Int
  OBVIOUS
<1>3. SumOver(g, R) = SumOver(g, S) + SumOver(g, R \ S)
  BY <1>1, <1>2, SumUnion
<1>4. SumOver(g, S) \in Nat
  BY <1>1, SumNat
<1>5. SumOver(g, R \ S) \in Nat
  BY <1>1, SumNat
<1> QED BY <1>3, <1>4, <1>5

\* Sums add up pointwise.
LEMMA SumPlus ==
    ASSUME NEW S, IsFiniteSet(S), NEW f, NEW g, NEW h,
           \A x \in S : f[x] \in Int /\ g[x] \in Int /\ h[x] = f[x] + g[x]
    PROVE  SumOver(h, S) = SumOver(f, S) + SumOver(g, S)
<1> DEFINE T == {s \in SUBSET S : SumOver(h, s) # SumOver(f, s) + SumOver(g, s)}
<1>1. SUFFICES ASSUME T # {} PROVE FALSE
  OBVIOUS
<1>2. PICK s \in T : \A t \in T : ~(t \subseteq s /\ t # s)
  <2>1. T \subseteq SUBSET S
    OBVIOUS
  <2> HIDE DEF T
  <2> QED BY <1>1, <2>1, MinimalSubset
<1>3. s \in SUBSET S /\ IsFiniteSet(s) /\ SumOver(h, s) # SumOver(f, s) + SumOver(g, s)
  BY FiniteSubset
<1>4. s # {}
  BY <1>3, SumEmpty
<1> DEFINE x == Pick(s)
           r == s \ {x}
<1>5. x \in S /\ r \in SUBSET S /\ r \notin T /\ IsFiniteSet(r)
  BY <1>2, <1>3, <1>4, PickedElement, FiniteSubset
<1>6. SumOver(h, r) = SumOver(f, r) + SumOver(g, r)
  BY <1>5
<1>7. /\ SumOver(h, s) = h[x] + SumOver(h, r)
      /\ SumOver(f, s) = f[x] + SumOver(f, r)
      /\ SumOver(g, s) = g[x] + SumOver(g, r)
  BY Zenon, <1>3, <1>4, SumRecursion
<1> HIDE DEF T, r, x
<1>8. SumOver(f, r) \in Int /\ SumOver(g, r) \in Int
  BY <1>5, SumType
<1>9. f[x] \in Int /\ g[x] \in Int /\ h[x] = f[x] + g[x]
  BY <1>5
<1> DEFINE a == SumOver(f, r)
           b == SumOver(g, r)
<1>10. /\ SumOver(h, s) = (f[x] + g[x]) + (a + b)
       /\ SumOver(f, s) = f[x] + a
       /\ SumOver(g, s) = g[x] + b
       /\ a \in Int /\ b \in Int
  BY <1>6, <1>7, <1>8, <1>9
<1> HIDE DEF a, b
<1>11. (f[x] + g[x]) + (a + b) = (f[x] + a) + (g[x] + b)
  BY <1>9, <1>10
<1> QED BY <1>3, <1>10, <1>11

\* The number of elements is the sum of ones.
IsCount(f, S) ==
    f = [s \in SUBSET S |-> IF s = {} THEN 0 ELSE 1 + f[s \ {CHOOSE x : x \in s}]]

LEMMA CardinalityIsSum ==
    ASSUME NEW S
    PROVE  Cardinality(S) = SumOver([x \in S |-> 1], S)
<1> DEFINE one == [x \in S |-> 1]
<1>1. Cardinality(S) = (CHOOSE f : IsCount(f, S))[S]
  BY DEF Cardinality, IsCount
<1>2. ASSUME NEW f PROVE IsCount(f, S) <=> IsSum(f, one, S)
  <2> DEFINE c(s) == IF s = {} THEN 0 ELSE 1 + f[s \ {CHOOSE x : x \in s}]
             d(s) == IF s = {} THEN 0 ELSE one[Pick(s)] + f[s \ {Pick(s)}]
  <2>1. ASSUME NEW s \in SUBSET S PROVE c(s) = d(s)
    <3>1. Pick(s) = CHOOSE x : x \in s
      BY Zenon DEF Pick
    <3>2. CASE s # {}
      <4>1. one[Pick(s)] = 1
        BY <3>2, PickedElement
      <4> HIDE DEF one
      <4> QED BY <3>1, <3>2, <4>1
    <3> QED BY <3>2
  <2>2. [s \in SUBSET S |-> c(s)] = [s \in SUBSET S |-> d(s)]
    <3> HIDE DEF c, d
    <3> QED BY <2>1
  <2>3. IsCount(f, S) <=> f = [s \in SUBSET S |-> c(s)]
    BY Zenon DEF IsCount
  <2>4. IsSum(f, one, S) <=> f = [s \in SUBSET S |-> d(s)]
    BY Zenon DEF IsSum
  <2> HIDE DEF c, d, one
  <2> QED BY <2>2, <2>3, <2>4
<1> HIDE DEF one
<1>3. (CHOOSE f : IsCount(f, S)) = (CHOOSE f : IsSum(f, one, S))
  BY Zenon, <1>2
<1>4. SumOver(one, S) = (CHOOSE f : IsSum(f, one, S))[S]
  BY SumAsChoice
<1>5. Cardinality(S) = SumOver(one, S)
  BY Zenon, <1>1, <1>3, <1>4
<1> QED BY <1>5 DEF one

LEMMA CardinalityType ==
    ASSUME NEW S, IsFiniteSet(S)
    PROVE  Cardinality(S) \in Nat
<1> DEFINE one == [x \in S |-> 1]
<1>1. \A x \in S : one[x] \in Nat
  OBVIOUS
<1>2. Cardinality(S) = SumOver(one, S)
  BY Zenon, CardinalityIsSum
<1> HIDE DEF one
<1> QED BY Zenon, <1>1, <1>2, SumNat

LEMMA CardinalityEmpty == Cardinality({}) = 0
BY Zenon, CardinalityIsSum, SumEmpty

LEMMA CardinalityRemove ==
    ASSUME NEW S, IsFiniteSet(S), NEW x \in S
    PROVE  Cardinality(S) = 1 + Cardinality(S \ {x})
<1> DEFINE r == S \ {x}
           one == [y \in S |-> 1]
           rest == [y \in r |-> 1]
<1>1. Cardinality(S) = SumOver(one, S) /\ Cardinality(r) = SumOver(rest, r)
  BY Zenon, CardinalityIsSum
<1>2. /\ \A y \in S : one[y] \in Int
      /\ \A y \in r : one[y] = rest[y]
      /\ one[x] = 1
  OBVIOUS
<1>3. IsFiniteSet(r)
  BY FiniteSubset
<1>4. r = S \ {x}
  OBVIOUS
<1> HIDE DEF one, rest, r
<1>5. SumOver(one, S) = one[x] + SumOver(one, r)
  BY Zenon, <1>2, <1>4, SumAny
<1>6. SumOver(one, r) = SumOver(rest, r)
  BY Zenon, <1>2, <1>3, SumSame
<1> QED BY Zenon, <1>1, <1>2, <1>4, <1>5, <1>6

LEMMA CardinalityAdd ==
    ASSUME NEW S, IsFiniteSet(S), NEW x, x \notin S
    PROVE  Cardinality(S \cup {x}) = Cardinality(S) + 1
<1> DEFINE a == S \cup {x}
<1>1. IsFiniteSet(a) /\ x \in a /\ a \ {x} = S
  BY FiniteAdd
<1> HIDE DEF a
<1>2. Cardinality(a) = 1 + Cardinality(S) /\ Cardinality(S) \in Nat
  BY Zenon, <1>1, CardinalityRemove, CardinalityType
<1>3. Cardinality(a) = Cardinality(S) + 1
  BY <1>2
<1> QED BY Zenon, <1>3 DEF a

\* k values are at most k different ones.
LEMMA CardinalityImage ==
    ASSUME NEW k \in Nat, NEW f
    PROVE  Cardinality({f[i] : i \in 1 .. k}) \in 0 .. k
<1> DEFINE Im(n) == {f[i] : i \in 1 .. n}
           N == {n \in Nat : Cardinality(Im(n)) \notin 0 .. n}
<1>1. SUFFICES ASSUME N # {} PROVE FALSE
  OBVIOUS
<1>2. PICK n \in N : \A m \in N : ~(m < n)
  <2>1. N \subseteq Nat
    OBVIOUS
  <2> HIDE DEF N
  <2> QED BY Zenon, <1>1, <2>1, LeastNat
<1>3. n \in Nat /\ Cardinality(Im(n)) \notin 0 .. n
  OBVIOUS
<1>4. n # 0
  <2> SUFFICES ASSUME n = 0 PROVE FALSE
    OBVIOUS
  <2>1. Im(0) = {}
    OBVIOUS
  <2> HIDE DEF Im
  <2> QED BY <1>3, <2>1, CardinalityEmpty
<1>5. n - 1 \in Nat /\ n - 1 \notin N
  BY <1>2, <1>3, <1>4
<1>6. Cardinality(Im(n - 1)) \in 0 .. (n - 1)
  BY <1>5
<1>7. Im(n) = Im(n - 1) \cup {f[n]}
  BY <1>3, <1>4
<1>8. IsFiniteSet(Im(n - 1))
  BY <1>5, FiniteImage
<1> DEFINE c == Cardinality(Im(n - 1))
<1> HIDE DEF Im, N
<1>9. Cardinality(Im(n)) = c \/ Cardinality(Im(n)) = c + 1
  <2>1. CASE f[n] \in Im(n - 1)
    <3>1. Im(n) = Im(n - 1)
      BY Zenon, <1>7, <2>1
    <3> QED BY Zenon, <3>1
  <2>2. CASE f[n] \notin Im(n - 1)
    BY Zenon, <1>7, <1>8, <2>2, CardinalityAdd
  <2> QED BY Zenon, <2>1, <2>2
<1>10. c \in 0 .. (n - 1)
  BY <1>6
<1> HIDE DEF c
<1> QED BY <1>3, <1>9, <1>10

\* The sum of one and the same value.
LEMMA SumConst ==
    ASSUME NEW S, IsFiniteSet(S), NEW g, NEW c \in Int, \A x \in S : g[x] = c
    PROVE  SumOver(g, S) = c * Cardinality(S)
<1> DEFINE T == {s \in SUBSET S : SumOver(g, s) # c * Cardinality(s)}
<1>1. SUFFICES ASSUME T # {} PROVE FALSE
  OBVIOUS
<1>2. PICK s \in T : \A t \in T : ~(t \subseteq s /\ t # s)
  <2>1. T \subseteq SUBSET S
    OBVIOUS
  <2> HIDE DEF T
  <2> QED BY <1>1, <2>1, MinimalSubset
<1>3. s \in SUBSET S /\ IsFiniteSet(s) /\ SumOver(g, s) # c * Cardinality(s)
  BY FiniteSubset
<1>4. s # {}
  BY <1>3, SumEmpty, CardinalityEmpty
<1> DEFINE x == Pick(s)
           r == s \ {x}
<1>5. x \in s /\ x \in S /\ r \in SUBSET S /\ r \notin T
  BY <1>2, <1>3, <1>4, PickedElement
<1>6. SumOver(g, r) = c * Cardinality(r) /\ SumOver(g, s) = c + SumOver(g, r)
  BY Zenon, <1>3, <1>4, <1>5, SumRecursion
<1>7. Cardinality(r) = Cardinality(s) - 1 /\ Cardinality(s) \in Nat
  <2>1. IsFiniteSet(r) /\ Cardinality(s) = 1 + Cardinality(r)
    BY <1>3, <1>5, CardinalityRemove, FiniteSubset
  <2>2. Cardinality(r) \in Nat
    BY <2>1, CardinalityType
  <2> HIDE DEF r
  <2> QED BY <2>1, <2>2
<1> DEFINE k == Cardinality(s)
<1>8. /\ SumOver(g, s) = c + c * (k - 1) /\ k \in Nat
      /\ SumOver(g, s) # c * k
  BY <1>3, <1>6, <1>7
<1> HIDE DEF T, r, x, k
<1>9. c + c * (k - 1) = c * k
  BY <1>8
<1> QED BY <1>8, <1>9

\* Summation over what a one-to-one function maps to.
LEMMA SumImage ==
    ASSUME NEW S, IsFiniteSet(S), NEW m, \A x, y \in S : m[x] = m[y] => x = y,
           NEW f, NEW g, \A x \in S : f[x] = g[m[x]] /\ g[m[x]] \in Int
    PROVE  /\ IsFiniteSet({m[x] : x \in S})
           /\ SumOver(f, S) = SumOver(g, {m[x] : x \in S})
<1> DEFINE Im(s) == {m[x] : x \in s}
           T == {s \in SUBSET S : ~(IsFiniteSet(Im(s)) /\ SumOver(f, s) = SumOver(g, Im(s)))}
<1>1. SUFFICES ASSUME T # {} PROVE FALSE
  BY Zenon
<1>2. PICK s \in T : \A t \in T : ~(t \subseteq s /\ t # s)
  <2>1. T \subseteq SUBSET S
    OBVIOUS
  <2> HIDE DEF T
  <2> QED BY <1>1, <2>1, MinimalSubset
<1>3. /\ s \in SUBSET S /\ IsFiniteSet(s)
      /\ ~(IsFiniteSet(Im(s)) /\ SumOver(f, s) = SumOver(g, Im(s)))
  BY FiniteSubset
<1>4. s # {}
  <2> SUFFICES ASSUME s = {} PROVE FALSE
    OBVIOUS
  <2>1. Im(s) = {}
    OBVIOUS
  <2> QED BY <1>3, <2>1, SumEmpty, FiniteEmpty
<1> DEFINE e == Pick(s)
           r == s \ {e}
<1>5. e \in s /\ e \in S /\ r \in SUBSET S /\ r \notin T
  BY Zenon, <1>2, <1>3, <1>4, PickedElement
<1>6. IsFiniteSet(Im(r)) /\ SumOver(f, r) = SumOver(g, Im(r))
  BY <1>5
<1>7. SumOver(f, s) = f[e] + SumOver(f, r)
  BY Zenon, <1>3, <1>4, SumRecursion
<1>8. Im(s) = Im(r) \cup {m[e]} /\ Im(r) = Im(s) \ {m[e]} /\ m[e] \in Im(s)
  BY <1>3, <1>5
<1>10. \A y \in Im(s) : g[y] \in Int
  BY <1>3
<1>11. f[e] = g[m[e]]
  BY <1>5
<1> HIDE DEF T, e, r, Im
<1>9. IsFiniteSet(Im(s))
  BY <1>6, <1>8, FiniteAdd
<1>12. SumOver(g, Im(s)) = g[m[e]] + SumOver(g, Im(s) \ {m[e]})
  BY <1>8, <1>9, <1>10, SumAny
<1>13. SumOver(g, Im(s)) = f[e] + SumOver(f, r)
  BY <1>6, <1>8, <1>11, <1>12
<1> QED BY <1>3, <1>7, <1>9, <1>13

\* m maps S one to one onto D, and f takes at x what g takes at m[x].
MapsOnto(m, S, D) == D = {m[x] : x \in S} /\ \A x, y \in S : m[x] = m[y] => x = y
Follows(f, g, m, S) == \A x \in S : f[x] = g[m[x]] /\ g[m[x]] \in Int

\* The same, in these words.
LEMMA SumOnto ==
    ASSUME NEW S, IsFiniteSet(S), NEW m, NEW D, MapsOnto(m, S, D),
           NEW f, NEW g, Follows(f, g, m, S)
    PROVE  SumOver(f, S) = SumOver(g, D)
<1>1. SumOver(f, S) = SumOver(g, {m[x] : x \in S})
  BY SumImage DEF MapsOnto, Follows
<1> QED BY <1>1 DEF MapsOnto

\* Summation class by class: the elements of S by the value that m has for them.
LEMMA SumClasses ==
    ASSUME NEW S, IsFiniteSet(S), NEW C, IsFiniteSet(C), NEW m \in [S -> C],
           NEW class \in [C -> SUBSET S], NEW g, NEW h, \A x \in S : g[x] \in Int,
           \A k \in C : class[k] = {x \in S : m[x] = k},
           \A k \in C : h[k] = SumOver(g, class[k])
    PROVE  SumOver(h, C) = SumOver(g, S)
<1> DEFINE Pre(s) == {x \in S : m[x] \in s}
           T == {s \in SUBSET C : SumOver(h, s) # SumOver(g, Pre(s))}
<1>0. Pre(C) = S
  OBVIOUS
<1>1. SUFFICES ASSUME T # {} PROVE FALSE
  <2>1. C \notin T
    BY Zenon, <1>1
  <2> QED BY <1>0, <2>1
<1>2. PICK s \in T : \A t \in T : ~(t \subseteq s /\ t # s)
  <2>1. T \subseteq SUBSET C
    OBVIOUS
  <2> HIDE DEF T
  <2> QED BY <1>1, <2>1, MinimalSubset
<1>3. s \in SUBSET C /\ IsFiniteSet(s) /\ SumOver(h, s) # SumOver(g, Pre(s))
  BY FiniteSubset
<1>4. s # {}
  <2> SUFFICES ASSUME s = {} PROVE FALSE
    OBVIOUS
  <2>1. Pre(s) = {}
    OBVIOUS
  <2> QED BY <1>3, <2>1, SumEmpty
<1> DEFINE c == Pick(s)
           r == s \ {c}
           K == class[c]
<1>5. c \in s /\ c \in C /\ r \in SUBSET C /\ r \notin T
  BY <1>2, <1>3, <1>4, PickedElement
<1>6. SumOver(h, r) = SumOver(g, Pre(r))
  BY <1>5
<1>7. SumOver(h, s) = h[c] + SumOver(h, r)
  BY Zenon, <1>3, <1>4, SumRecursion
<1>8. h[c] = SumOver(g, K) /\ K = {x \in S : m[x] = c}
  BY <1>5
<1>9. /\ Pre(s) = K \cup Pre(r) /\ K \cap Pre(r) = {}
      /\ K \subseteq S /\ Pre(r) \subseteq S
  <2>1. \A x \in S : m[x] \in s <=> m[x] = c \/ m[x] \in r
    BY <1>5
  <2>2. c \notin r
    OBVIOUS
  <2>3. \A x : x \in K <=> x \in S /\ m[x] = c
    BY <1>8
  <2> HIDE DEF c, r, K
  <2> QED BY <2>1, <2>2, <2>3
<1> HIDE DEF T, c, r, K, Pre
<1>10. IsFiniteSet(K) /\ IsFiniteSet(Pre(r)) /\ \A x \in K \cup Pre(r) : g[x] \in Int
  BY <1>9, FiniteSubset
<1>11. SumOver(g, K \cup Pre(r)) = SumOver(g, K) + SumOver(g, Pre(r))
  BY <1>9, <1>10, SumUnion
<1> QED BY <1>3, <1>6, <1>7, <1>8, <1>9, <1>11
=============================================================================
