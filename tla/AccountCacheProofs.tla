------------------------- MODULE AccountCacheProofs -------------------------
(***************************************************************************)
(* Proofs about the account transaction cache, for every page size, every  *)
(* set of accounts and every chain of blocks.                              *)
(***************************************************************************)
EXTENDS AccountCache, SumTheorems, TLAPS

-----------------------------------------------------------------------------
(* Pages.  The transaction with c transactions before it goes to page        *)
(* c \div PageSize + 1, and is preceded there by c % PageSize transactions.  *)

\* Division of natural numbers.
LEMMA Division ==
    ASSUME NEW n \in Nat \ {0}, NEW c \in Nat
    PROVE  /\ c \div n \in Nat
           /\ c % n \in 0 .. n - 1
           /\ c = n * (c \div n) + (c % n)
OBVIOUS

LEMMA DivisionUnique ==
    ASSUME NEW n \in Nat \ {0}, NEW q \in Nat, NEW s \in Nat,
           NEW r \in 0 .. n - 1, NEW t \in 0 .. n - 1, n * q + r = n * s + t
    PROVE  q = s /\ r = t
<1>1. CASE q < s
  <2>1. n * s >= n * (q + 1)
    BY <1>1
  <2> QED BY <2>1
<1>2. CASE s < q
  <2>1. n * q >= n * (s + 1)
    BY <1>2
  <2> QED BY <2>1
<1> QED BY <1>1, <1>2

LEMMA Place ==
    ASSUME NEW c \in Nat
    PROVE  c \div PageSize \in Nat /\ c % PageSize \in 0 .. PageSize - 1
BY CacheAssumption, Division

LEMMA NextPlace ==
    ASSUME NEW c \in Nat
    PROVE  /\ c % PageSize = PageSize - 1 =>
                 /\ (c + 1) \div PageSize = c \div PageSize + 1
                 /\ (c + 1) % PageSize = 0
           /\ c % PageSize # PageSize - 1 =>
                 /\ (c + 1) \div PageSize = c \div PageSize
                 /\ (c + 1) % PageSize = (c % PageSize) + 1
<1> DEFINE n == PageSize
           q == c \div n
           r == c % n
           s == (c + 1) \div n
           t == (c + 1) % n
<1>0. n \in Nat \ {0} /\ c + 1 \in Nat
  BY CacheAssumption
<1>1. /\ n \in Nat \ {0} /\ q \in Nat /\ r \in 0 .. n - 1 /\ c = n * q + r
      /\ s \in Nat /\ t \in 0 .. n - 1 /\ c + 1 = n * s + t
  <2> HIDE DEF n
  <2> QED BY Zenon, <1>0, Division
<1> HIDE DEF n, q, r, s, t
<1>2. CASE r = n - 1
  <2>1. q + 1 \in Nat /\ 0 \in 0 .. n - 1 /\ n * (q + 1) + 0 = n * s + t
    BY <1>1, <1>2
  <2>2. q + 1 = s /\ 0 = t
    BY <1>1, <2>1, DivisionUnique
  <2> QED BY <1>2, <2>2 DEF n, q, r, s, t
<1>3. CASE r # n - 1
  <2>1. r + 1 \in 0 .. n - 1 /\ n * q + (r + 1) = n * s + t
    BY <1>1, <1>3
  <2>2. q = s /\ r + 1 = t
    BY <1>1, <2>1, DivisionUnique
  <2> QED BY <1>3, <2>2 DEF n, q, r, s, t
<1> QED BY <1>2, <1>3

\* An earlier transaction is in an earlier page, or is preceded by fewer in the same.
LEMMA EarlierPlace ==
    ASSUME NEW c \in Nat, NEW d \in Nat, d < c
    PROVE  /\ d \div PageSize <= c \div PageSize
           /\ d \div PageSize = c \div PageSize => d % PageSize < c % PageSize
<1> DEFINE n == PageSize
           q == c \div n
           r == c % n
           s == d \div n
           t == d % n
<1>1. /\ n \in Nat \ {0} /\ q \in Nat /\ r \in 0 .. n - 1 /\ c = n * q + r
      /\ s \in Nat /\ t \in 0 .. n - 1 /\ d = n * s + t
  BY CacheAssumption, Division
<1> HIDE DEF n, q, r, s, t
<1>2. ~(q < s)
  <2> SUFFICES ASSUME q < s PROVE FALSE
    OBVIOUS
  <2>1. n * s >= n * (q + 1)
    BY <1>1
  <2> QED BY <1>1, <2>1
<1>3. q = s => t < r
  BY <1>1
<1> QED BY <1>1, <1>2, <1>3 DEF n, q, r, s, t

LEMMA PageCountNext ==
    ASSUME NEW c \in Nat
    PROVE  getPageCount(c + 1) = c \div PageSize + 1
<1> DEFINE n == PageSize
           q == c \div n
           r == c % n
           s == (c + 1) \div n
           t == (c + 1) % n
<1>1. n \in Nat \ {0, 1} /\ q \in Nat /\ r \in 0 .. n - 1
  BY CacheAssumption, Place
<1>2. /\ r = n - 1 => s = q + 1 /\ t = 0
      /\ r # n - 1 => s = q /\ t = r + 1
  BY NextPlace
<1>3. getPageCount(c + 1) = IF t = 0 THEN s ELSE s + 1
  BY DEF getPageCount
<1> HIDE DEF n, q, r, s, t
<1>4. (IF t = 0 THEN s ELSE s + 1) = q + 1
  BY <1>1, <1>2
<1> QED BY <1>3, <1>4 DEF q, n

-----------------------------------------------------------------------------
(* The transactions of an account in a block. *)

Entered(txns, n, a, i, before) ==
    IF a \in {txns[i].from, txns[i].to} THEN Append(before, <<n, i>>) ELSE before

IsList(f, txns, n, a, m) ==
    f = [i \in 0 .. m |-> IF i = 0 THEN <<>> ELSE Entered(txns, n, a, i, f[i - 1])]

LEMMA ListExists ==
    ASSUME NEW txns, NEW n, NEW a, NEW m \in Nat
    PROVE  \E f : IsList(f, txns, n, a, m)
<1> DEFINE S(i, x) == Entered(txns, n, a, i, x)
           N == {k \in Nat : ~\E f : IsList(f, txns, n, a, k)}
<1>1. SUFFICES ASSUME N # {} PROVE FALSE
  BY Zenon
<1>2. PICK k \in N : \A j \in N : ~(j < k)
  <2>1. N \subseteq Nat
    BY Zenon
  <2> HIDE DEF N
  <2> QED BY Zenon, <1>1, <2>1, LeastNat
<1>3. k \in Nat /\ ~\E f : IsList(f, txns, n, a, k)
  BY Zenon
<1>4. CASE k = 0
  <2> DEFINE f == [i \in 0 .. 0 |-> <<>>]
  <2>1. f = [i \in 0 .. 0 |-> IF i = 0 THEN <<>> ELSE S(i, f[i - 1])]
    <3> HIDE DEF S
    <3> QED OBVIOUS
  <2>2. IsList(f, txns, n, a, 0)
    BY Zenon, <2>1 DEF IsList
  <2> QED BY Zenon, <1>3, <1>4, <2>2
<1>5. CASE k # 0
  <2>1. k - 1 \in Nat /\ k - 1 < k
    BY <1>3, <1>5
  <2>2. PICK f : IsList(f, txns, n, a, k - 1)
    BY Zenon, <1>2, <2>1
  <2> DEFINE g == [i \in 0 .. k |-> IF i = k THEN S(k, f[k - 1]) ELSE f[i]]
  <2>3. ASSUME NEW i \in 0 .. k
        PROVE  g[i] = IF i = 0 THEN <<>> ELSE S(i, g[i - 1])
    <3>1. f = [j \in 0 .. k - 1 |-> IF j = 0 THEN <<>> ELSE S(j, f[j - 1])]
      BY Zenon, <2>2 DEF IsList
    <3> HIDE DEF S
    <3>2. CASE i = k
      BY <1>3, <1>5, <3>2
    <3>3. CASE i # k /\ i # 0
      <4>1. i \in 0 .. k - 1 /\ i - 1 \in 0 .. k - 1 /\ i - 1 # k
        BY <1>3, <3>3
      <4>2. g[i] = f[i] /\ g[i - 1] = f[i - 1] /\ f[i] = S(i, f[i - 1])
        BY <3>1, <3>3, <4>1
      <4> QED BY Zenon, <3>3, <4>2
    <3>4. CASE i = 0
      BY <1>3, <1>5, <3>1, <3>4
    <3> QED BY Zenon, <3>2, <3>3, <3>4
  <2>4. g = [i \in 0 .. k |-> IF i = 0 THEN <<>> ELSE S(i, g[i - 1])]
    <3>1. g = [i \in 0 .. k |-> g[i]]
      BY Zenon
    <3> HIDE DEF g, S
    <3> QED BY Zenon, <2>3, <3>1
  <2>5. IsList(g, txns, n, a, k)
    <3> HIDE DEF g
    <3> QED BY Zenon, <2>4 DEF IsList
  <2> QED BY Zenon, <1>3, <2>5
<1> QED BY Zenon, <1>4, <1>5

\* The list holds the transactions among the first m in which the account takes part,
\* in their order.
ListOf(L, txns, n, a, m) ==
    /\ L \in Seq(Nat \X Nat)
    /\ \A j \in 1 .. Len(L) : \E i \in 1 .. m :
          L[j] = <<n, i>> /\ a \in {txns[i].from, txns[i].to}
    /\ \A i \in 1 .. m : a \in {txns[i].from, txns[i].to} =>
          \E j \in 1 .. Len(L) : L[j] = <<n, i>>
    /\ \A j, k \in 1 .. Len(L) : j < k => L[j][2] < L[k][2]

LEMMA ListStep ==
    ASSUME NEW txns, NEW n \in Nat, NEW a, NEW m \in Nat, NEW L, ListOf(L, txns, n, a, m)
    PROVE  ListOf(Entered(txns, n, a, m + 1, L), txns, n, a, m + 1)
<1> DEFINE Takes(i) == a \in {txns[i].from, txns[i].to}
           k == Len(L)
<1>1. /\ L \in Seq(Nat \X Nat) /\ k \in Nat
      /\ \A j \in 1 .. k : \E i \in 1 .. m : L[j] = <<n, i>> /\ Takes(i)
      /\ \A i \in 1 .. m : Takes(i) => \E j \in 1 .. k : L[j] = <<n, i>>
      /\ \A j, l \in 1 .. k : j < l => L[j][2] < L[l][2]
  <2>1. L \in Seq(Nat \X Nat)
    BY Zenon DEF ListOf
  <2>2. k \in Nat
    BY <2>1
  <2> QED BY Zenon, <2>1, <2>2 DEF ListOf
<1>2. \A i : i \in 1 .. m + 1 <=> i \in 1 .. m \/ i = m + 1
  OBVIOUS
<1> HIDE DEF Takes
<1>3. CASE ~Takes(m + 1)
  <2>1. Entered(txns, n, a, m + 1, L) = L
    BY Zenon, <1>3 DEF Entered, Takes
  <2>2. /\ \A j \in 1 .. k : \E i \in 1 .. m + 1 : L[j] = <<n, i>> /\ Takes(i)
        /\ \A i \in 1 .. m + 1 : Takes(i) => \E j \in 1 .. k : L[j] = <<n, i>>
    BY Zenon, <1>1, <1>2, <1>3
  <2> QED BY Zenon, <1>1, <2>1, <2>2 DEF ListOf, Takes
<1>4. CASE Takes(m + 1)
  <2> DEFINE e == <<n, m + 1>>
             q == Append(L, e)
  <2>1. Entered(txns, n, a, m + 1, L) = q
    BY Zenon, <1>4 DEF Entered, Takes
  <2>2. q \in Seq(Nat \X Nat) /\ Len(q) = k + 1 /\ q[k + 1] = e
    BY <1>1
  <2>3. \A j \in 1 .. k : q[j] = L[j]
    BY <1>1
  <2>4. e[2] = m + 1
    BY Zenon
  <2>5. ASSUME NEW j \in 1 .. k PROVE L[j][2] < m + 1
    <3>1. PICK i \in 1 .. m : L[j] = <<n, i>>
      BY Zenon, <1>1
    <3>2. L[j][2] = i
      BY <3>1
    <3> QED BY <3>2
  <2>6. \A j : j \in 1 .. k + 1 <=> j \in 1 .. k \/ j = k + 1
    BY <1>1
  <2> HIDE DEF q, k
  <2>7. ASSUME NEW j \in 1 .. k + 1
        PROVE  \E i \in 1 .. m + 1 : q[j] = <<n, i>> /\ Takes(i)
    BY Zenon, <1>1, <1>2, <1>4, <2>2, <2>3, <2>6
  <2>8. ASSUME NEW i \in 1 .. m + 1, Takes(i)
        PROVE  \E j \in 1 .. k + 1 : q[j] = <<n, i>>
    <3>1. CASE i = m + 1
      BY Zenon, <2>2, <2>6, <3>1
    <3>2. CASE i \in 1 .. m
      <4>1. PICK j \in 1 .. k : L[j] = <<n, i>>
        BY Zenon, <1>1, <2>8, <3>2
      <4> QED BY Zenon, <2>3, <2>6, <4>1
    <3> QED BY Zenon, <1>2, <3>1, <3>2
  <2>9. ASSUME NEW j \in 1 .. k + 1, NEW l \in 1 .. k + 1, j < l PROVE q[j][2] < q[l][2]
    <3>1. j \in 1 .. k /\ (l \in 1 .. k \/ l = k + 1)
      BY <1>1, <2>6, <2>9
    <3>2. CASE l \in 1 .. k
      BY Zenon, <1>1, <2>3, <2>9, <3>1, <3>2
    <3>3. CASE l = k + 1
      BY Zenon, <2>2, <2>3, <2>4, <2>5, <3>1, <3>3
    <3> QED BY Zenon, <3>1, <3>2, <3>3
  <2>10. ListOf(q, txns, n, a, m + 1)
    BY Zenon, <2>2, <2>7, <2>8, <2>9 DEF ListOf, Takes
  <2> QED BY Zenon, <2>1, <2>10
<1> QED BY Zenon, <1>3, <1>4

LEMMA ListCorrect ==
    ASSUME NEW txns, NEW n \in Nat, NEW a, NEW m \in Nat, NEW f, IsList(f, txns, n, a, m)
    PROVE  ListOf(f[m], txns, n, a, m)
<1> DEFINE N == {k \in Nat : k <= m /\ ~ListOf(f[k], txns, n, a, k)}
<1>1. SUFFICES ASSUME N # {} PROVE FALSE
  OBVIOUS
<1>2. PICK k \in N : \A j \in N : ~(j < k)
  <2>1. N \subseteq Nat
    BY Zenon
  <2> HIDE DEF N
  <2> QED BY Zenon, <1>1, <2>1, LeastNat
<1>3. k \in Nat /\ k <= m /\ ~ListOf(f[k], txns, n, a, k)
  BY Zenon
<1>4. \A i \in 0 .. m : f[i] = IF i = 0 THEN <<>> ELSE Entered(txns, n, a, i, f[i - 1])
  BY Zenon DEF IsList
<1>5. CASE k = 0
  <2>1. f[0] = <<>>
    BY <1>4
  <2>2. ListOf(<<>>, txns, n, a, 0)
    BY DEF ListOf
  <2> QED BY Zenon, <1>3, <1>5, <2>1, <2>2
<1>6. CASE k # 0
  <2>1. k - 1 \in Nat /\ k - 1 < k /\ k - 1 <= m /\ k \in 0 .. m /\ (k - 1) + 1 = k
    BY <1>3, <1>6
  <2>2. ListOf(f[k - 1], txns, n, a, k - 1)
    BY Zenon, <1>2, <2>1
  <2>3. f[k] = Entered(txns, n, a, k, f[k - 1])
    BY Zenon, <1>4, <1>6, <2>1
  <2>4. ListOf(Entered(txns, n, a, k, f[k - 1]), txns, n, a, k)
    BY Zenon, <2>1, <2>2, ListStep
  <2> QED BY Zenon, <1>3, <2>3, <2>4
<1> QED BY Zenon, <1>5, <1>6

\* What the loop of processByCacheManager collects for an account.
LEMMA LiveAccounts ==
    ASSUME NEW n \in Nat, NEW a, chain[n].txns \in Seq([from : Users, to : Users \cup {None}])
    PROVE  ListOf(liveAccountMap(n, a), chain[n].txns, n, a, Len(chain[n].txns))
<1> DEFINE txns == chain[n].txns
           m == Len(txns)
<1>1. m \in Nat
  OBVIOUS
<1>2. liveAccountMap(n, a) = (CHOOSE f : IsList(f, txns, n, a, m))[m]
  BY Zenon DEF liveAccountMap, IsList, Entered
<1> HIDE DEF m, txns
<1>3. IsList(CHOOSE f : IsList(f, txns, n, a, m), txns, n, a, m)
  BY Zenon, <1>1, ListExists
<1>4. ListOf(liveAccountMap(n, a), txns, n, a, m)
  BY Zenon, <1>1, <1>2, <1>3, ListCorrect
<1> QED BY Zenon, <1>4 DEF m, txns

-----------------------------------------------------------------------------
(* The pages of an account. *)

Txns == Nat \X Nat

PageOf(j) == (j - 1) \div PageSize
Before(j) == (j - 1) % PageSize

\* The j-th transaction in the pages.
At(book, j) == book[PageOf(j) + 1][Len(book[PageOf(j) + 1]) - Before(j)]

\* The pages show the first c transactions of tx.
Shows(book, c, tx) == \A j \in 1 .. c : At(book, j) = tx[j]

\* The pages of an account with c transactions.
BookOk(book, c) ==
    /\ DOMAIN book = 1 .. getPageCount(c)
    /\ \A p \in DOMAIN book :
          /\ book[p] \in Seq(Txns)
          /\ Len(book[p]) = IF p <= c \div PageSize THEN PageSize ELSE c % PageSize

\* In the loop, when c transactions are entered, tx in their order: the full pages are
\* put, and the others are in memory.
LoopOk(page, book, c, tx) ==
    LET q == c \div PageSize
        r == c % PageSize
    IN /\ page \in Seq(Txns) /\ Len(page) = r
       /\ DOMAIN book \in {1 .. q, 1 .. q + 1}
       /\ \A p \in 1 .. q : book[p] \in Seq(Txns) /\ Len(book[p]) = PageSize
       /\ \A j \in 1 .. c : /\ PageOf(j) = q => page[r - Before(j)] = tx[j]
                            /\ PageOf(j) # q => book[PageOf(j) + 1][PageSize - Before(j)] = tx[j]

\* The page in memory when the next transaction is added to it.
TopOk(top, book, c, tx) ==
    LET q == c \div PageSize
        r == c % PageSize
    IN /\ top \in Seq(Txns) /\ Len(top) = r + 1
       /\ \A j \in 1 .. c + 1 :
             /\ PageOf(j) \in 0 .. q /\ Before(j) \in 0 .. PageSize - 1
             /\ PageOf(j) = q => top[(r + 1) - Before(j)] = tx[j]
             /\ PageOf(j) # q => book[PageOf(j) + 1][PageSize - Before(j)] = tx[j]

\* The pages when it is put.
FiledOk(new, c, tx) ==
    LET q == c \div PageSize
        r == c % PageSize
    IN /\ DOMAIN new = 1 .. q + 1
       /\ \A p \in 1 .. q : new[p] \in Seq(Txns) /\ Len(new[p]) = PageSize
       /\ new[q + 1] \in Seq(Txns) /\ Len(new[q + 1]) = r + 1
       /\ \A j \in 1 .. c + 1 :
             /\ PageOf(j) \in 0 .. q /\ Before(j) \in 0 .. PageSize - 1
             /\ PageOf(j) = q => new[q + 1][(r + 1) - Before(j)] = tx[j]
             /\ PageOf(j) # q => new[PageOf(j) + 1][PageSize - Before(j)] = tx[j]

LEMMA PlaceOf ==
    ASSUME NEW c \in Nat, NEW j \in 1 .. c
    PROVE  /\ PageOf(j) \in Nat /\ Before(j) \in 0 .. PageSize - 1
           /\ PageOf(j) <= c \div PageSize
           /\ PageOf(j) = c \div PageSize => Before(j) < c % PageSize
<1> DEFINE d == j - 1
<1>1. d \in Nat /\ d < c
  OBVIOUS
<1>2. PageOf(j) = d \div PageSize /\ Before(j) = d % PageSize
  BY Zenon DEF PageOf, Before
<1> HIDE DEF d
<1> QED BY Zenon, <1>1, <1>2, Place, EarlierPlace

\* The page in memory with the next transaction.
LEMMA PageGrows ==
    ASSUME NEW page \in Seq(Txns), NEW x \in Txns
    PROVE  /\ NewestFirst(x, page) \in Seq(Txns)
           /\ Len(NewestFirst(x, page)) = Len(page) + 1
           /\ NewestFirst(x, page)[1] = x
           /\ \A l \in 1 .. Len(page) : NewestFirst(x, page)[l + 1] = page[l]
BY DEF NewestFirst

LEMMA LoopEnters ==
    ASSUME NEW page, NEW book, NEW c \in Nat, NEW tx, LoopOk(page, book, c, tx),
           tx[c + 1] \in Txns
    PROVE  TopOk(NewestFirst(tx[c + 1], page), book, c, tx)
<1> DEFINE q == c \div PageSize
           r == c % PageSize
           new == NewestFirst(tx[c + 1], page)
<1>1. /\ page \in Seq(Txns) /\ Len(page) = r
      /\ \A j \in 1 .. c : /\ PageOf(j) = q => page[r - Before(j)] = tx[j]
                           /\ PageOf(j) # q => book[PageOf(j) + 1][PageSize - Before(j)] = tx[j]
  BY Zenon DEF LoopOk
<1>2. /\ new \in Seq(Txns) /\ Len(new) = Len(page) + 1 /\ new[1] = tx[c + 1]
      /\ \A l \in 1 .. Len(page) : new[l + 1] = page[l]
  BY Zenon, <1>1, PageGrows
<1>3. q \in Nat /\ r \in 0 .. PageSize - 1 /\ PageSize \in Nat
  BY Zenon, Place, CacheAssumption
<1>4. PageOf(c + 1) = q /\ Before(c + 1) = r
  <2>1. (c + 1) - 1 = c
    OBVIOUS
  <2> QED BY Zenon, <2>1 DEF PageOf, Before
<1> HIDE DEF q, r, new
<1>5. ASSUME NEW j \in 1 .. c + 1
      PROVE  /\ PageOf(j) \in 0 .. q /\ Before(j) \in 0 .. PageSize - 1
             /\ PageOf(j) = q => new[(r + 1) - Before(j)] = tx[j]
             /\ PageOf(j) # q => book[PageOf(j) + 1][PageSize - Before(j)] = tx[j]
  <2>1. CASE j = c + 1
    <3>1. (r + 1) - r = 1 /\ q \in 0 .. q
      BY <1>3
    <3> QED BY Zenon, <1>2, <1>3, <1>4, <2>1, <3>1
  <2>2. CASE j # c + 1
    <3>1. j \in 1 .. c
      BY <2>2
    <3>2. /\ PageOf(j) \in Nat /\ Before(j) \in 0 .. PageSize - 1
          /\ PageOf(j) <= q /\ (PageOf(j) = q => Before(j) < r)
      BY Zenon, <3>1, PlaceOf DEF q, r
    <3>3. PageOf(j) \in 0 .. q
      BY <1>3, <3>2
    <3>4. ASSUME PageOf(j) = q PROVE new[(r + 1) - Before(j)] = tx[j]
      <4>1. r - Before(j) \in 1 .. r /\ (r - Before(j)) + 1 = (r + 1) - Before(j)
        BY <1>3, <3>2, <3>4
      <4>2. new[(r - Before(j)) + 1] = page[r - Before(j)]
        BY Zenon, <1>1, <1>2, <4>1
      <4> QED BY Zenon, <1>1, <3>1, <3>4, <4>1, <4>2
    <3> QED BY Zenon, <1>1, <3>1, <3>2, <3>3, <3>4
  <2> QED BY Zenon, <2>1, <2>2
<1>6. Len(new) = r + 1
  BY Zenon, <1>1, <1>2
<1>7. TopOk(new, book, c, tx)
  BY Zenon, <1>2, <1>5, <1>6 DEF TopOk, q, r
<1> QED BY Zenon, <1>7 DEF new

\* The page with the next transaction is put.
LEMMA PageFiled ==
    ASSUME NEW page, NEW book, NEW c \in Nat, NEW tx, LoopOk(page, book, c, tx),
           tx[c + 1] \in Txns
    PROVE  FiledOk(Put(book, getPageCount(c + 1), NewestFirst(tx[c + 1], page)), c, tx)
<1> DEFINE q == c \div PageSize
           r == c % PageSize
           top == NewestFirst(tx[c + 1], page)
           new == Put(book, getPageCount(c + 1), top)
<1>1. q \in Nat /\ r \in 0 .. PageSize - 1 /\ getPageCount(c + 1) = q + 1
  BY Zenon, Place, PageCountNext
<1>2. /\ DOMAIN book \in {1 .. q, 1 .. q + 1}
      /\ \A p \in 1 .. q : book[p] \in Seq(Txns) /\ Len(book[p]) = PageSize
  BY Zenon DEF LoopOk
<1>3. /\ top \in Seq(Txns) /\ Len(top) = r + 1
      /\ \A j \in 1 .. c + 1 :
            /\ PageOf(j) \in 0 .. q /\ Before(j) \in 0 .. PageSize - 1
            /\ PageOf(j) = q => top[(r + 1) - Before(j)] = tx[j]
            /\ PageOf(j) # q => book[PageOf(j) + 1][PageSize - Before(j)] = tx[j]
  <2>1. TopOk(NewestFirst(tx[c + 1], page), book, c, tx)
    BY Zenon, LoopEnters
  <2> QED BY Zenon, <2>1 DEF TopOk
<1>4. new = [p \in DOMAIN book \cup {q + 1} |-> IF p = q + 1 THEN top ELSE book[p]]
  BY Zenon, <1>1 DEF Put
<1> HIDE DEF q, r, top, new
<1>5. DOMAIN book \cup {q + 1} = 1 .. q + 1
  <2>1. (1 .. q) \cup {q + 1} = 1 .. q + 1 /\ (1 .. q + 1) \cup {q + 1} = 1 .. q + 1
    BY <1>1
  <2> QED BY Zenon, <1>2, <2>1
<1>6. DOMAIN new = 1 .. q + 1 /\ new[q + 1] = top
  <2>1. q + 1 \in 1 .. q + 1
    BY <1>1
  <2> QED BY Zenon, <1>4, <1>5, <2>1
<1>7. \A p \in 1 .. q : new[p] = book[p]
  <2>1. \A p \in 1 .. q : p \in 1 .. q + 1 /\ p # q + 1
    BY <1>1
  <2> QED BY Zenon, <1>4, <1>5, <2>1
<1>8. ASSUME NEW j \in 1 .. c + 1, PageOf(j) # q
      PROVE  new[PageOf(j) + 1][PageSize - Before(j)] = tx[j]
  <2>1. PageOf(j) \in 0 .. q
    BY Zenon, <1>3
  <2>2. PageOf(j) + 1 \in 1 .. q
    BY <1>1, <1>8, <2>1
  <2> QED BY Zenon, <1>3, <1>7, <1>8, <2>2
<1>9. FiledOk(new, c, tx)
  BY Zenon, <1>2, <1>3, <1>6, <1>7, <1>8 DEF FiledOk, q, r
<1> QED BY Zenon, <1>9 DEF new, top

\* A full page is put, and the next one begun.
LEMMA LoopPuts ==
    ASSUME NEW page, NEW book, NEW c \in Nat, NEW tx, LoopOk(page, book, c, tx),
           tx[c + 1] \in Txns, Len(NewestFirst(tx[c + 1], page)) = PageSize
    PROVE  LoopOk(<<>>, Put(book, getPageCount(c + 1), NewestFirst(tx[c + 1], page)),
                  c + 1, tx)
<1> DEFINE q == c \div PageSize
           r == c % PageSize
           new == Put(book, getPageCount(c + 1), NewestFirst(tx[c + 1], page))
<1>1. /\ DOMAIN new = 1 .. q + 1
      /\ \A p \in 1 .. q : new[p] \in Seq(Txns) /\ Len(new[p]) = PageSize
      /\ new[q + 1] \in Seq(Txns) /\ Len(new[q + 1]) = r + 1
      /\ \A j \in 1 .. c + 1 :
            /\ PageOf(j) \in 0 .. q /\ Before(j) \in 0 .. PageSize - 1
            /\ PageOf(j) = q => new[q + 1][(r + 1) - Before(j)] = tx[j]
            /\ PageOf(j) # q => new[PageOf(j) + 1][PageSize - Before(j)] = tx[j]
  <2>1. FiledOk(new, c, tx)
    BY Zenon, PageFiled
  <2> HIDE DEF new
  <2> QED BY Zenon, <2>1 DEF FiledOk
<1>2. q \in Nat /\ r \in 0 .. PageSize - 1 /\ PageSize \in Nat
  BY Zenon, Place, CacheAssumption
<1>3. r + 1 = PageSize
  <2>1. TopOk(NewestFirst(tx[c + 1], page), book, c, tx)
    BY Zenon, LoopEnters
  <2> QED BY Zenon, <2>1 DEF TopOk
<1>4. /\ r = PageSize - 1 =>
            (c + 1) \div PageSize = q + 1 /\ (c + 1) % PageSize = 0
  BY Zenon, NextPlace
<1> HIDE DEF q, r, new
<1>5. (c + 1) \div PageSize = q + 1 /\ (c + 1) % PageSize = 0
  BY <1>2, <1>3, <1>4
<1>6. ASSUME NEW p \in 1 .. q + 1 PROVE new[p] \in Seq(Txns) /\ Len(new[p]) = PageSize
  <2>1. p \in 1 .. q \/ p = q + 1
    BY <1>2
  <2> QED BY Zenon, <1>1, <1>3, <2>1
<1>7. ASSUME NEW j \in 1 .. c + 1
      PROVE  /\ PageOf(j) # q + 1
             /\ new[PageOf(j) + 1][PageSize - Before(j)] = tx[j]
  <2>1. PageOf(j) \in 0 .. q
    BY Zenon, <1>1
  <2>2. PageOf(j) # q + 1
    BY <1>2, <2>1
  <2>3. CASE PageOf(j) = q
    <3>1. new[q + 1][(r + 1) - Before(j)] = tx[j]
      BY Zenon, <1>1, <2>3
    <3>2. new[q + 1][PageSize - Before(j)] = tx[j]
      BY Zenon, <1>3, <3>1
    <3> QED BY Zenon, <2>2, <2>3, <3>2
  <2>4. CASE PageOf(j) # q
    BY Zenon, <1>1, <2>2, <2>4
  <2> QED BY Zenon, <2>3, <2>4
<1>8. << >> \in Seq(Txns) /\ Len(<< >>) = 0
  OBVIOUS
<1>9. LoopOk(<<>>, new, c + 1, tx)
  BY Zenon, <1>1, <1>5, <1>6, <1>7, <1>8 DEF LoopOk
<1> QED BY Zenon, <1>9 DEF new

\* A page that is not full stays in memory.
LEMMA LoopHolds ==
    ASSUME NEW page, NEW book, NEW c \in Nat, NEW tx, LoopOk(page, book, c, tx),
           tx[c + 1] \in Txns, Len(NewestFirst(tx[c + 1], page)) # PageSize
    PROVE  LoopOk(NewestFirst(tx[c + 1], page), book, c + 1, tx)
<1> DEFINE q == c \div PageSize
           r == c % PageSize
           top == NewestFirst(tx[c + 1], page)
<1>1. /\ DOMAIN book \in {1 .. q, 1 .. q + 1}
      /\ \A p \in 1 .. q : book[p] \in Seq(Txns) /\ Len(book[p]) = PageSize
  BY Zenon DEF LoopOk
<1>2. /\ top \in Seq(Txns) /\ Len(top) = r + 1
      /\ \A j \in 1 .. c + 1 :
            /\ PageOf(j) = q => top[(r + 1) - Before(j)] = tx[j]
            /\ PageOf(j) # q => book[PageOf(j) + 1][PageSize - Before(j)] = tx[j]
  <2>1. TopOk(NewestFirst(tx[c + 1], page), book, c, tx)
    BY Zenon, LoopEnters
  <2> QED BY Zenon, <2>1 DEF TopOk
<1>3. q \in Nat /\ r \in 0 .. PageSize - 1 /\ PageSize \in Nat
  BY Zenon, Place, CacheAssumption
<1>4. r # PageSize - 1 =>
         (c + 1) \div PageSize = q /\ (c + 1) % PageSize = r + 1
  BY Zenon, NextPlace
<1>5. r + 1 # PageSize
  BY Zenon, <1>2
<1> HIDE DEF q, r, top
<1>6. (c + 1) \div PageSize = q /\ (c + 1) % PageSize = r + 1
  BY <1>3, <1>4, <1>5
<1>7. LoopOk(top, book, c + 1, tx)
  BY Zenon, <1>1, <1>2, <1>6 DEF LoopOk
<1> QED BY Zenon, <1>7 DEF top

\* The last page is put.
LEMMA LoopEnds ==
    ASSUME NEW page, NEW book, NEW c \in Nat, NEW tx, LoopOk(page, book, c, tx),
           tx[c + 1] \in Txns
    PROVE  /\ BookOk(Put(book, getPageCount(c + 1), NewestFirst(tx[c + 1], page)), c + 1)
           /\ Shows(Put(book, getPageCount(c + 1), NewestFirst(tx[c + 1], page)), c + 1, tx)
<1> DEFINE q == c \div PageSize
           r == c % PageSize
           new == Put(book, getPageCount(c + 1), NewestFirst(tx[c + 1], page))
           s == (c + 1) \div PageSize
           t == (c + 1) % PageSize
<1>1. /\ DOMAIN new = 1 .. q + 1
      /\ \A p \in 1 .. q : new[p] \in Seq(Txns) /\ Len(new[p]) = PageSize
      /\ new[q + 1] \in Seq(Txns) /\ Len(new[q + 1]) = r + 1
      /\ \A j \in 1 .. c + 1 :
            /\ PageOf(j) \in 0 .. q /\ Before(j) \in 0 .. PageSize - 1
            /\ PageOf(j) = q => new[q + 1][(r + 1) - Before(j)] = tx[j]
            /\ PageOf(j) # q => new[PageOf(j) + 1][PageSize - Before(j)] = tx[j]
  <2>1. FiledOk(new, c, tx)
    BY Zenon, PageFiled
  <2> HIDE DEF new
  <2> QED BY Zenon, <2>1 DEF FiledOk
<1>2. q \in Nat /\ r \in 0 .. PageSize - 1 /\ PageSize \in Nat /\ getPageCount(c + 1) = q + 1
  BY Zenon, Place, CacheAssumption, PageCountNext
<1>3. /\ r = PageSize - 1 => s = q + 1 /\ t = 0
      /\ r # PageSize - 1 => s = q /\ t = r + 1
  BY Zenon, NextPlace
<1> HIDE DEF q, r, new, s, t
<1>4. ASSUME NEW p \in 1 .. q + 1
      PROVE  /\ new[p] \in Seq(Txns)
             /\ Len(new[p]) = IF p <= s THEN PageSize ELSE t
  <2>1. CASE p = q + 1
    <3>1. r + 1 = IF q + 1 <= s THEN PageSize ELSE t
      <4>1. CASE r = PageSize - 1
        <5>1. q + 1 <= s /\ r + 1 = PageSize
          BY <1>2, <1>3, <4>1
        <5> QED BY Zenon, <5>1
      <4>2. CASE r # PageSize - 1
        <5>1. ~(q + 1 <= s) /\ r + 1 = t
          BY <1>2, <1>3, <4>2
        <5> QED BY Zenon, <5>1
      <4> QED BY Zenon, <4>1, <4>2
    <3> QED BY Zenon, <1>1, <2>1, <3>1
  <2>2. CASE p # q + 1
    <3>1. p \in 1 .. q /\ p <= s
      BY <1>2, <1>3, <2>2
    <3> QED BY Zenon, <1>1, <3>1
  <2> QED BY Zenon, <2>1, <2>2
<1>5. BookOk(new, c + 1)
  BY Zenon, <1>1, <1>2, <1>4 DEF BookOk, s, t
<1>6. ASSUME NEW j \in 1 .. c + 1 PROVE At(new, j) = tx[j]
  <2>1. CASE PageOf(j) = q
    BY Zenon, <1>1, <2>1 DEF At
  <2>2. CASE PageOf(j) # q
    <3>1. PageOf(j) \in 0 .. q
      BY Zenon, <1>1
    <3>2. PageOf(j) + 1 \in 1 .. q
      BY <1>2, <2>2, <3>1
    <3> QED BY Zenon, <1>1, <2>2, <3>2 DEF At
  <2> QED BY Zenon, <2>1, <2>2
<1>7. Shows(new, c + 1, tx)
  BY Zenon, <1>6 DEF Shows
<1> QED BY Zenon, <1>5, <1>7 DEF new

\* The page that is loaded, or a new one.
LEMMA LoopStarts ==
    ASSUME NEW a, txnCount[a] \in Nat, BookOk(pages[a], txnCount[a]),
           NEW tx, Shows(pages[a], txnCount[a], tx)
    PROVE  LoopOk(OpenPage(a), pages[a], txnCount[a], tx)
<1> DEFINE c == txnCount[a]
           book == pages[a]
           q == c \div PageSize
           r == c % PageSize
<1>1. /\ c \in Nat /\ q \in Nat /\ r \in 0 .. PageSize - 1 /\ PageSize \in Nat \ {0, 1}
      /\ getPageCount(c + 1) = q + 1
  BY Zenon, Place, CacheAssumption, PageCountNext
<1>2. /\ DOMAIN book = 1 .. getPageCount(c)
      /\ \A p \in DOMAIN book :
            /\ book[p] \in Seq(Txns)
            /\ Len(book[p]) = IF p <= q THEN PageSize ELSE r
  BY Zenon DEF BookOk
<1>3. getPageCount(c) = IF r = 0 THEN q ELSE q + 1
  BY Zenon DEF getPageCount
<1>4. (c + 1) % PageSize = 1 <=> r = 0
  <2>1. /\ r = PageSize - 1 => (c + 1) % PageSize = 0
        /\ r # PageSize - 1 => (c + 1) % PageSize = r + 1
    BY Zenon, <1>1, NextPlace
  <2> HIDE DEF r
  <2> QED BY <1>1, <2>1
<1>5. OpenPage(a) = IF r = 0 THEN <<>> ELSE book[q + 1]
  BY Zenon, <1>1, <1>4 DEF OpenPage
<1>6. ASSUME NEW j \in 1 .. c
      PROVE  /\ tx[j] = book[PageOf(j) + 1][Len(book[PageOf(j) + 1]) - Before(j)]
             /\ PageOf(j) \in Nat /\ PageOf(j) <= q
             /\ PageOf(j) = q => Before(j) < r
             /\ Before(j) \in 0 .. PageSize - 1
  <2>1. tx[j] = At(book, j)
    BY Zenon DEF Shows
  <2> QED BY Zenon, <1>1, <2>1, PlaceOf DEF At
<1> HIDE DEF c, book, q, r
<1>7. DOMAIN book \in {1 .. q, 1 .. q + 1} /\ \A p \in 1 .. q : p \in DOMAIN book
  <2>1. CASE r = 0
    <3>1. DOMAIN book = 1 .. q
      BY Zenon, <1>2, <1>3, <2>1
    <3> QED BY Zenon, <3>1
  <2>2. CASE r # 0
    <3>1. DOMAIN book = 1 .. q + 1
      BY Zenon, <1>2, <1>3, <2>2
    <3>2. \A p \in 1 .. q : p \in 1 .. q + 1
      BY <1>1
    <3> QED BY Zenon, <3>1, <3>2
  <2> QED BY Zenon, <2>1, <2>2
<1>8. ASSUME NEW p \in 1 .. q PROVE book[p] \in Seq(Txns) /\ Len(book[p]) = PageSize
  <2>1. p <= q
    BY <1>1
  <2> QED BY Zenon, <1>2, <1>7, <2>1
<1>9. r # 0 => book[q + 1] \in Seq(Txns) /\ Len(book[q + 1]) = r
  <2> SUFFICES ASSUME r # 0 PROVE book[q + 1] \in Seq(Txns) /\ Len(book[q + 1]) = r
    BY Zenon
  <2>1. q + 1 \in 1 .. q + 1 /\ ~(q + 1 <= q)
    BY <1>1
  <2>2. DOMAIN book = 1 .. q + 1
    BY Zenon, <1>2, <1>3
  <2> QED BY Zenon, <1>2, <2>1, <2>2
<1>10. OpenPage(a) \in Seq(Txns) /\ Len(OpenPage(a)) = r
  <2>1. << >> \in Seq(Txns) /\ Len(<< >>) = 0
    OBVIOUS
  <2> QED BY Zenon, <1>5, <1>9, <2>1
<1>11. ASSUME NEW j \in 1 .. c, PageOf(j) = q PROVE OpenPage(a)[r - Before(j)] = tx[j]
  <2>1. r # 0
    BY <1>1, <1>6, <1>11
  <2> QED BY Zenon, <1>5, <1>6, <1>9, <1>11, <2>1
<1>12. ASSUME NEW j \in 1 .. c, PageOf(j) # q
       PROVE  book[PageOf(j) + 1][PageSize - Before(j)] = tx[j]
  <2>1. PageOf(j) + 1 \in 1 .. q
    BY <1>1, <1>6, <1>12
  <2> QED BY Zenon, <1>6, <1>8, <2>1
<1>13. LoopOk(OpenPage(a), book, c, tx)
  BY Zenon, <1>7, <1>8, <1>10, <1>11, <1>12 DEF LoopOk, q, r
<1> QED BY Zenon, <1>13 DEF book, c

IsLoop(f, a, L, m) ==
    f = [i \in 0 .. m |-> IF i = 0 THEN [page |-> OpenPage(a), book |-> pages[a]]
                          ELSE AfterTransaction(a, L, i, f[i - 1])]

LEMMA LoopExists ==
    ASSUME NEW a, NEW L, NEW m \in Nat
    PROVE  \E f : IsLoop(f, a, L, m)
<1> DEFINE base == [page |-> OpenPage(a), book |-> pages[a]]
           S(i, x) == AfterTransaction(a, L, i, x)
           N == {k \in Nat : ~\E f : IsLoop(f, a, L, k)}
<1>1. SUFFICES ASSUME N # {} PROVE FALSE
  BY Zenon
<1>2. PICK k \in N : \A j \in N : ~(j < k)
  <2>1. N \subseteq Nat
    BY Zenon
  <2> HIDE DEF N
  <2> QED BY Zenon, <1>1, <2>1, LeastNat
<1>3. k \in Nat /\ ~\E f : IsLoop(f, a, L, k)
  BY Zenon
<1>4. CASE k = 0
  <2> DEFINE f == [i \in 0 .. 0 |-> base]
  <2>1. f = [i \in 0 .. 0 |-> IF i = 0 THEN base ELSE S(i, f[i - 1])]
    <3> HIDE DEF S, base
    <3> QED OBVIOUS
  <2>2. IsLoop(f, a, L, 0)
    BY Zenon, <2>1 DEF IsLoop
  <2> QED BY Zenon, <1>3, <1>4, <2>2
<1>5. CASE k # 0
  <2>1. k - 1 \in Nat /\ k - 1 < k
    BY <1>3, <1>5
  <2>2. PICK f : IsLoop(f, a, L, k - 1)
    BY Zenon, <1>2, <2>1
  <2> DEFINE g == [i \in 0 .. k |-> IF i = k THEN S(k, f[k - 1]) ELSE f[i]]
  <2>3. ASSUME NEW i \in 0 .. k
        PROVE  g[i] = IF i = 0 THEN base ELSE S(i, g[i - 1])
    <3>1. f = [j \in 0 .. k - 1 |-> IF j = 0 THEN base ELSE S(j, f[j - 1])]
      BY Zenon, <2>2 DEF IsLoop
    <3> HIDE DEF S, base
    <3>2. CASE i = k
      BY <1>3, <1>5, <3>2
    <3>3. CASE i # k /\ i # 0
      <4>1. i \in 0 .. k - 1 /\ i - 1 \in 0 .. k - 1 /\ i - 1 # k
        BY <1>3, <3>3
      <4>2. g[i] = f[i] /\ g[i - 1] = f[i - 1] /\ f[i] = S(i, f[i - 1])
        BY <3>1, <3>3, <4>1
      <4> QED BY Zenon, <3>3, <4>2
    <3>4. CASE i = 0
      BY <1>3, <1>5, <3>1, <3>4
    <3> QED BY Zenon, <3>2, <3>3, <3>4
  <2>4. g = [i \in 0 .. k |-> IF i = 0 THEN base ELSE S(i, g[i - 1])]
    <3>1. g = [i \in 0 .. k |-> g[i]]
      BY Zenon
    <3> HIDE DEF g, S, base
    <3> QED BY Zenon, <2>3, <3>1
  <2>5. IsLoop(g, a, L, k)
    <3> HIDE DEF g
    <3> QED BY Zenon, <2>4 DEF IsLoop
  <2> QED BY Zenon, <1>3, <2>5
<1> QED BY Zenon, <1>4, <1>5

\* The transactions after the first c are those of L.
Continues(tx, c, L) == \A i \in 1 .. Len(L) : tx[c + i] = L[i]

\* The loop up to its last step, and that step.
LEMMA LoopRuns ==
    ASSUME NEW a, txnCount[a] \in Nat, BookOk(pages[a], txnCount[a]),
           NEW L \in Seq(Txns), Len(L) # 0, NEW f, IsLoop(f, a, L, Len(L)),
           NEW tx, Shows(pages[a], txnCount[a], tx), Continues(tx, txnCount[a], L)
    PROVE  /\ BookOk(f[Len(L)].book, txnCount[a] + Len(L))
           /\ Shows(f[Len(L)].book, txnCount[a] + Len(L), tx)
<1> DEFINE c == txnCount[a]
           m == Len(L)
           Holds(i) == LoopOk(f[i].page, f[i].book, c + i, tx)
           N == {k \in Nat : k < m /\ ~Holds(k)}
<1>1. c \in Nat /\ m \in Nat \ {0} /\ \A i \in 1 .. m : L[i] \in Txns /\ tx[c + i] = L[i]
  <2>1. c \in Nat /\ m \in Nat \ {0} /\ \A i \in 1 .. m : L[i] \in Txns
    OBVIOUS
  <2> QED BY Zenon, <2>1 DEF Continues
<1>2. \A i \in 0 .. m : f[i] = IF i = 0 THEN [page |-> OpenPage(a), book |-> pages[a]]
                               ELSE AfterTransaction(a, L, i, f[i - 1])
  BY Zenon DEF IsLoop
<1>3. f[0] = [page |-> OpenPage(a), book |-> pages[a]]
  <2>1. 0 \in 0 .. m
    BY <1>1
  <2> QED BY Zenon, <1>2, <2>1
<1>4. ASSUME NEW i \in 1 .. m
      PROVE  /\ f[i] = AfterTransaction(a, L, i, f[i - 1])
             /\ i - 1 \in Nat /\ c + (i - 1) \in Nat /\ (c + (i - 1)) + 1 = c + i
             /\ tx[(c + (i - 1)) + 1] = L[i] /\ L[i] \in Txns
  <2>1. /\ i \in 0 .. m /\ i # 0 /\ i - 1 \in Nat
        /\ c + (i - 1) \in Nat /\ (c + (i - 1)) + 1 = c + i
    BY <1>1
  <2> QED BY Zenon, <1>1, <1>2, <2>1
<1>5. Holds(0)
  <2>1. LoopOk(OpenPage(a), pages[a], c, tx)
    BY Zenon, LoopStarts
  <2>2. c + 0 = c
    BY <1>1
  <2>3. f[0].page = OpenPage(a) /\ f[0].book = pages[a]
    BY <1>3
  <2> QED BY Zenon, <2>1, <2>2, <2>3
<1>6. \A i : PutsPage(NewestFirst(L[i], f[i - 1].page), i, L) <=>
                Len(NewestFirst(L[i], f[i - 1].page)) = PageSize \/ i = m
  BY Zenon DEF PutsPage
<1>7. ASSUME NEW i \in 1 .. m
      PROVE  LET page == NewestFirst(L[i], f[i - 1].page)
                 book == f[i - 1].book
             IN IF Len(page) = PageSize \/ i = m
                THEN /\ f[i].page = <<>>
                     /\ f[i].book = Put(book, getPageCount(c + i), page)
                ELSE f[i].page = page /\ f[i].book = book
  <2> DEFINE page == NewestFirst(L[i], f[i - 1].page)
             book == f[i - 1].book
  <2>1. f[i] = IF Len(page) = PageSize \/ i = m
               THEN [page |-> <<>>, book |-> Put(book, getPageCount(c + i), page)]
               ELSE [page |-> page, book |-> book]
    BY Zenon, <1>4, <1>6 DEF AfterTransaction
  <2> HIDE DEF page, book
  <2>2. CASE Len(page) = PageSize \/ i = m
    <3>1. f[i] = [page |-> <<>>, book |-> Put(book, getPageCount(c + i), page)]
      BY Zenon, <2>1, <2>2
    <3>2. f[i].page = <<>> /\ f[i].book = Put(book, getPageCount(c + i), page)
      BY <3>1
    <3> QED BY Zenon, <2>2, <3>2 DEF page, book
  <2>3. CASE ~(Len(page) = PageSize \/ i = m)
    <3>1. f[i] = [page |-> page, book |-> book]
      BY Zenon, <2>1, <2>3
    <3>2. f[i].page = page /\ f[i].book = book
      BY <3>1
    <3> QED BY Zenon, <2>3, <3>2 DEF page, book
  <2> QED BY Zenon, <2>2, <2>3
<1> HIDE DEF c, m
<1>8. N = {}
  <2> SUFFICES ASSUME N # {} PROVE FALSE
    BY Zenon
  <2>1. PICK k \in N : \A j \in N : ~(j < k)
    <3>1. N \subseteq Nat
      BY Zenon
    <3> HIDE DEF N
    <3> QED BY Zenon, <3>1, LeastNat
  <2>2. k \in Nat /\ k < m /\ ~Holds(k)
    BY Zenon, <2>1
  <2>3. k # 0
    BY Zenon, <1>5, <2>2
  <2>4. k \in 1 .. m /\ k # m /\ k - 1 \in Nat /\ k - 1 < k /\ k - 1 < m
    BY <1>1, <2>2, <2>3
  <2>5. Holds(k - 1)
    BY Zenon, <2>1, <2>4
  <2> DEFINE d == c + (k - 1)
             top == NewestFirst(tx[d + 1], f[k - 1].page)
  <2>6. d \in Nat /\ tx[d + 1] \in Txns /\ d + 1 = c + k /\ tx[d + 1] = L[k]
    BY Zenon, <1>4, <2>4
  <2>7. LoopOk(f[k - 1].page, f[k - 1].book, d, tx)
    BY Zenon, <2>5
  <2>8. CASE Len(top) = PageSize
    <3>1. LoopOk(<<>>, Put(f[k - 1].book, getPageCount(d + 1), top), d + 1, tx)
      <4> HIDE DEF d
      <4> QED BY Zenon, <2>6, <2>7, <2>8, LoopPuts
    <3>2. f[k].page = <<>> /\ f[k].book = Put(f[k - 1].book, getPageCount(d + 1), top)
      <4> HIDE DEF d
      <4> QED BY Zenon, <1>7, <2>4, <2>6, <2>8
    <3> HIDE DEF d, top
    <3> QED BY Zenon, <2>2, <2>6, <3>1, <3>2
  <2>9. CASE Len(top) # PageSize
    <3>1. LoopOk(top, f[k - 1].book, d + 1, tx)
      <4> HIDE DEF d
      <4> QED BY Zenon, <2>6, <2>7, <2>9, LoopHolds
    <3>2. f[k].page = top /\ f[k].book = f[k - 1].book
      <4> HIDE DEF d
      <4> QED BY Zenon, <1>7, <2>4, <2>6, <2>9
    <3> HIDE DEF d, top
    <3> QED BY Zenon, <2>2, <2>6, <3>1, <3>2
  <2> QED BY Zenon, <2>8, <2>9
<1>9. m \in 1 .. m /\ m - 1 \in Nat /\ m - 1 < m
  BY <1>1
<1>10. Holds(m - 1)
  BY Zenon, <1>8, <1>9
<1> DEFINE d == c + (m - 1)
           top == NewestFirst(tx[d + 1], f[m - 1].page)
<1>11. d \in Nat /\ tx[d + 1] \in Txns /\ d + 1 = c + m /\ tx[d + 1] = L[m]
  BY Zenon, <1>4, <1>9
<1>12. LoopOk(f[m - 1].page, f[m - 1].book, d, tx)
  BY Zenon, <1>10
<1> HIDE DEF d
<1>13. f[m].book = Put(f[m - 1].book, getPageCount(d + 1), top)
  BY Zenon, <1>7, <1>9, <1>11
<1>14. /\ BookOk(Put(f[m - 1].book, getPageCount(d + 1), top), d + 1)
       /\ Shows(Put(f[m - 1].book, getPageCount(d + 1), top), d + 1, tx)
  <2> DEFINE page == f[m - 1].page
             book == f[m - 1].book
  <2>1. LoopOk(page, book, d, tx)
    BY Zenon, <1>12
  <2> HIDE DEF page, book
  <2>2. BookOk(Put(book, getPageCount(d + 1), NewestFirst(tx[d + 1], page)), d + 1)
    BY Zenon, <1>11, <2>1, LoopEnds
  <2>3. Shows(Put(book, getPageCount(d + 1), NewestFirst(tx[d + 1], page)), d + 1, tx)
    BY Zenon, <1>11, <2>1, LoopEnds
  <2> QED BY Zenon, <2>2, <2>3 DEF page, book
<1> HIDE DEF top
<1> QED BY Zenon, <1>11, <1>13, <1>14 DEF c, m

\* processAccountTransactions enters the transactions of a block, in their order and
\* after the earlier ones, however many pages they fill.
LEMMA AccountProcessed ==
    ASSUME NEW a, txnCount[a] \in Nat, BookOk(pages[a], txnCount[a]),
           NEW L \in Seq(Txns), Len(L) # 0
    PROVE  /\ BookOk(processAccountTransactions(a, L), txnCount[a] + Len(L))
           /\ \A j \in 1 .. txnCount[a] :
                 At(processAccountTransactions(a, L), j) = At(pages[a], j)
           /\ \A i \in 1 .. Len(L) :
                 At(processAccountTransactions(a, L), txnCount[a] + i) = L[i]
<1> DEFINE c == txnCount[a]
           m == Len(L)
           tx == [j \in 1 .. c + m |-> IF j <= c THEN At(pages[a], j) ELSE L[j - c]]
           f == CHOOSE g : IsLoop(g, a, L, m)
           new == f[m].book
<1>1. c \in Nat /\ m \in Nat
  OBVIOUS
<1>2. processAccountTransactions(a, L) = new
  BY Zenon DEF processAccountTransactions, IsLoop
<1>3. IsLoop(f, a, L, m)
  BY Zenon, <1>1, LoopExists
<1>4. \A j \in 1 .. c : j \in 1 .. c + m /\ tx[j] = At(pages[a], j)
  <2>1. \A j \in 1 .. c : j \in 1 .. c + m /\ j <= c
    BY <1>1
  <2> QED BY Zenon, <2>1
<1>5. \A i \in 1 .. m : c + i \in 1 .. c + m /\ tx[c + i] = L[i]
  <2>1. \A i \in 1 .. m : c + i \in 1 .. c + m /\ ~(c + i <= c) /\ (c + i) - c = i
    BY <1>1
  <2> QED BY Zenon, <2>1
<1> HIDE DEF tx, f
<1>6. BookOk(new, c + m) /\ \A j \in 1 .. c + m : At(new, j) = tx[j]
  <2>1. Shows(pages[a], txnCount[a], tx) /\ Continues(tx, txnCount[a], L)
    BY Zenon, <1>4, <1>5 DEF Shows, Continues
  <2>2. BookOk(new, c + m) /\ Shows(new, c + m, tx)
    BY Zenon, <1>3, <2>1, LoopRuns
  <2> QED BY Zenon, <2>2 DEF Shows
<1> HIDE DEF new
<1>7. \A j \in 1 .. c : At(new, j) = At(pages[a], j)
  BY Zenon, <1>4, <1>6
<1>8. \A i \in 1 .. m : At(new, c + i) = L[i]
  BY Zenon, <1>5, <1>6
<1> QED BY Zenon, <1>2, <1>6, <1>7, <1>8

-----------------------------------------------------------------------------
(* The invariant of the database and of the loop in start. *)

CacheInv ==
    /\ chain \in Seq(Blocks)
    /\ lastBlock \in 0 .. Len(chain)
    /\ blockNumber = lastBlock
    /\ txnCount \in [Users -> Nat]
    /\ DOMAIN pages = Users
    /\ \A a \in Users : BookOk(pages[a], txnCount[a])

LEMMA CacheInit == Init => CacheInv
<1> SUFFICES ASSUME Init PROVE CacheInv
  BY Zenon
<1>1. /\ chain = <<>> /\ lastBlock = 0 /\ blockNumber = 0
      /\ txnCount = [a \in Users |-> 0] /\ pages = [a \in Users |-> <<>>]
  BY Zenon DEF Init
<1>2. chain \in Seq(Blocks) /\ lastBlock \in 0 .. Len(chain)
  BY <1>1
<1>3. txnCount \in [Users -> Nat] /\ DOMAIN pages = Users
  BY <1>1
<1>4. BookOk(<<>>, 0)
  <2>1. PageSize \in Nat \ {0}
    BY CacheAssumption
  <2>2. 0 % PageSize = 0 /\ 0 \div PageSize = 0
    BY <2>1
  <2>3. getPageCount(0) = 0
    BY Zenon, <2>2 DEF getPageCount
  <2>4. DOMAIN << >> = 1 .. 0 /\ 1 .. 0 = {}
    OBVIOUS
  <2> QED BY Zenon, <2>3, <2>4 DEF BookOk
<1>5. ASSUME NEW a \in Users PROVE BookOk(pages[a], txnCount[a])
  BY Zenon, <1>1, <1>4
<1> QED BY Zenon, <1>1, <1>2, <1>3, <1>5 DEF CacheInv

\* A block of the chain.
LEMMA BlockOfChain ==
    ASSUME chain \in Seq(Blocks), NEW n \in 1 .. Len(chain)
    PROVE  /\ n \in Nat
           /\ chain[n].txns \in Seq([from : Users, to : Users \cup {None}])
           /\ chain[n].reward \in Nat
<1>1. chain[n] \in Blocks /\ n \in Nat
  OBVIOUS
<1>2. chain[n] \in [txns : Seq([from : Users, to : Users \cup {None}]), reward : Nat]
  BY Zenon, <1>1, CacheAssumption
<1> QED BY <1>1, <1>2

\* What processByCacheManager does for one account.
LEMMA BlockEntered ==
    ASSUME CacheInv, ProcessBlock, NEW a \in Users
    PROVE  LET n == lastBlock + 1
               L == liveAccountMap(n, a)
           IN /\ n \in 1 .. Len(chain)
              /\ ListOf(L, chain[n].txns, n, a, Len(chain[n].txns))
              /\ txnCount'[a] = txnCount[a] + Len(L)
              /\ BookOk(pages'[a], txnCount[a] + Len(L))
              /\ \A j \in 1 .. txnCount[a] : At(pages'[a], j) = At(pages[a], j)
              /\ \A i \in 1 .. Len(L) : At(pages'[a], txnCount[a] + i) = L[i]
<1> DEFINE n == lastBlock + 1
           L == liveAccountMap(n, a)
           c == txnCount[a]
           new == pages'[a]
<1>1. /\ chain \in Seq(Blocks) /\ lastBlock \in 0 .. Len(chain) /\ blockNumber = lastBlock
      /\ c \in Nat /\ BookOk(pages[a], c)
  BY Zenon DEF CacheInv
<1>2. /\ n <= Len(chain)
      /\ new = IF a \in Involved(n) THEN processAccountTransactions(a, L) ELSE pages[a]
      /\ txnCount'[a] = c + Len(L)
  BY Zenon, <1>1 DEF ProcessBlock, BlockByNumber
<1>3. n \in 1 .. Len(chain)
  BY <1>1, <1>2
<1>4. ListOf(L, chain[n].txns, n, a, Len(chain[n].txns))
  <2> HIDE DEF n
  <2> QED BY Zenon, <1>1, <1>3, BlockOfChain, LiveAccounts
<1>5. L \in Seq(Txns) /\ Len(L) \in Nat
  <2>1. L \in Seq(Txns)
    BY Zenon, <1>4 DEF ListOf, Txns
  <2> HIDE DEF L
  <2> QED BY <2>1
<1>6. a \in Involved(n) <=> L # <<>>
  BY Zenon DEF Involved
<1> HIDE DEF n, L, c
<1>7. CASE L # <<>>
  <2>1. Len(L) # 0
    BY <1>5, <1>7
  <2>2. new = processAccountTransactions(a, L)
    BY Zenon, <1>2, <1>6, <1>7
  <2> HIDE DEF new
  <2>3. /\ BookOk(new, c + Len(L))
        /\ \A j \in 1 .. c : At(new, j) = At(pages[a], j)
        /\ \A i \in 1 .. Len(L) : At(new, c + i) = L[i]
    BY Zenon, <1>1, <1>5, <2>1, <2>2, AccountProcessed DEF c
  <2> QED BY Zenon, <1>2, <1>3, <1>4, <2>3 DEF n, L, c, new
<1>8. CASE L = <<>>
  <2>1. Len(L) = 0 /\ c + Len(L) = c /\ 1 .. Len(L) = {}
    BY <1>1, <1>8
  <2>2. new = pages[a]
    BY Zenon, <1>2, <1>6, <1>8
  <2> HIDE DEF new
  <2>3. /\ BookOk(new, c + Len(L))
        /\ \A j \in 1 .. c : At(new, j) = At(pages[a], j)
        /\ \A i \in 1 .. Len(L) : At(new, c + i) = L[i]
    BY Zenon, <1>1, <2>1, <2>2
  <2> QED BY Zenon, <1>2, <1>3, <1>4, <2>3 DEF n, L, c, new
<1> QED BY Zenon, <1>7, <1>8

LEMMA CacheStep == CacheInv /\ [Next]_vars => CacheInv'
<1> SUFFICES ASSUME CacheInv, [Next]_vars PROVE CacheInv'
  BY Zenon
<1>1. CASE NewBlock
  <2>1. /\ \E b \in Blocks : chain' = Append(chain, b)
        /\ UNCHANGED <<db, blockNumber>>
    BY Zenon, <1>1 DEF NewBlock
  <2>2. chain \in Seq(Blocks) /\ lastBlock \in 0 .. Len(chain)
    BY Zenon DEF CacheInv
  <2>3. chain' \in Seq(Blocks) /\ lastBlock \in 0 .. Len(chain')
    BY <2>1, <2>2
  <2> QED BY Zenon, <2>1, <2>3 DEF CacheInv, db
<1>2. CASE ProcessBlock
  <2> DEFINE n == lastBlock + 1
  <2>1. /\ lastBlock' = n /\ blockNumber' = n /\ UNCHANGED chain
        /\ DOMAIN pages' = Users
        /\ txnCount' = [a \in Users |-> txnCount[a] + Len(liveAccountMap(n, a))]
    BY Zenon, <1>2 DEF ProcessBlock, CacheInv
  <2>2. ASSUME NEW a \in Users
        PROVE  /\ BookOk(pages'[a], txnCount'[a]) /\ txnCount'[a] \in Nat
               /\ n \in 1 .. Len(chain)
    <3> DEFINE L == liveAccountMap(n, a)
    <3>1. /\ n \in 1 .. Len(chain)
          /\ ListOf(L, chain[n].txns, n, a, Len(chain[n].txns))
          /\ txnCount'[a] = txnCount[a] + Len(L)
          /\ BookOk(pages'[a], txnCount[a] + Len(L))
      BY Zenon, <1>2, BlockEntered
    <3>2. L \in Seq(Txns) /\ txnCount[a] \in Nat
      BY Zenon, <3>1 DEF ListOf, Txns, CacheInv
    <3> HIDE DEF L, n
    <3>3. txnCount[a] + Len(L) \in Nat
      BY <3>2
    <3> QED BY Zenon, <3>1, <3>3
  <2>3. n <= Len(chain)
    BY Zenon, <1>2 DEF ProcessBlock, BlockByNumber, CacheInv
  <2>4. chain' \in Seq(Blocks) /\ n \in 0 .. Len(chain')
    <3>1. chain \in Seq(Blocks) /\ lastBlock \in 0 .. Len(chain)
      BY Zenon DEF CacheInv
    <3> QED BY <2>1, <2>3, <3>1
  <2>5. txnCount' \in [Users -> Nat]
    <3>1. \A a \in Users : txnCount'[a] \in Nat
      BY Zenon, <2>2
    <3> QED BY Zenon, <2>1, <3>1
  <2> QED BY Zenon, <2>1, <2>2, <2>4, <2>5 DEF CacheInv
<1>3. CASE ProcessFails
  BY Zenon, <1>3 DEF ProcessFails, CacheInv, db
<1>4. CASE Restart
  BY Zenon, <1>4 DEF Restart, CacheInv, db
<1>5. CASE UNCHANGED vars
  BY Zenon, <1>5 DEF vars, CacheInv, db
<1> QED BY Zenon, <1>1, <1>2, <1>3, <1>4, <1>5 DEF Next

\* ListTransactionByAccount finds every page that the number of transactions calls for,
\* whichever calls fail and whenever the process stops.
THEOREM PagesComplete == Spec => []PagesFound
<1>1. CacheInv => PagesFound
  BY Zenon DEF CacheInv, BookOk, PagesFound
<1> QED BY <1>1, CacheInit, CacheStep, PTL DEF Spec

-----------------------------------------------------------------------------
(* The summary. *)

Rewards(blocks) == [i \in DOMAIN blocks |-> blocks[i].reward]

LEMMA RewardsAreSum ==
    ASSUME NEW n
    PROVE  RewardsUpTo(n) = SumOver(Rewards(chain), 1 .. n)
BY Zenon DEF RewardsUpTo, SumOver, Rewards

LEMMA RewardsTyped ==
    ASSUME chain \in Seq(Blocks), NEW n \in 0 .. Len(chain)
    PROVE  /\ IsFiniteSet(1 .. n)
           /\ \A i \in 1 .. n : Rewards(chain)[i] = chain[i].reward /\ Rewards(chain)[i] \in Nat
           /\ RewardsUpTo(n) \in Nat
<1>1. IsFiniteSet(1 .. n)
  <2>1. n \in Nat
    OBVIOUS
  <2> QED BY Zenon, <2>1, FiniteInterval
<1>2. ASSUME NEW i \in 1 .. n
      PROVE  Rewards(chain)[i] = chain[i].reward /\ Rewards(chain)[i] \in Nat
  <2>1. i \in 1 .. Len(chain) /\ DOMAIN chain = 1 .. Len(chain)
    OBVIOUS
  <2>2. chain[i].reward \in Nat
    BY Zenon, <2>1, BlockOfChain
  <2> QED BY Zenon, <2>1, <2>2 DEF Rewards
<1>3. SumOver(Rewards(chain), 1 .. n) \in Nat
  BY Zenon, <1>1, <1>2, SumNat
<1> QED BY Zenon, <1>1, <1>2, <1>3, RewardsAreSum

LEMMA RewardsNext ==
    ASSUME chain \in Seq(Blocks), NEW m \in Nat, m + 1 <= Len(chain)
    PROVE  RewardsUpTo(m + 1) = RewardsUpTo(m) + chain[m + 1].reward
<1> DEFINE g == Rewards(chain)
           n == m + 1
<1>1. /\ n \in 0 .. Len(chain) /\ m \in 0 .. Len(chain) /\ n \in 1 .. n
      /\ (1 .. n) \ {n} = 1 .. m
  OBVIOUS
<1> HIDE DEF n
<1>2. /\ IsFiniteSet(1 .. n)
      /\ \A i \in 1 .. n : g[i] = chain[i].reward /\ g[i] \in Nat
  BY Zenon, <1>1, RewardsTyped
<1>3. RewardsUpTo(m) \in Nat
  BY Zenon, <1>1, RewardsTyped
<1> HIDE DEF g
<1>4. \A i \in 1 .. n : g[i] \in Int
  BY <1>2
<1>5. SumOver(g, 1 .. n) = g[n] + SumOver(g, (1 .. n) \ {n})
  BY Zenon, <1>1, <1>2, <1>4, SumAny
<1>6. /\ RewardsUpTo(n) = chain[n].reward + RewardsUpTo(m)
      /\ chain[n].reward \in Nat
  BY Zenon, <1>1, <1>2, <1>5, RewardsAreSum DEF g
<1>7. RewardsUpTo(n) = RewardsUpTo(m) + chain[n].reward
  BY <1>3, <1>6
<1> QED BY Zenon, <1>7 DEF n

\* A new block changes nothing in the sums of the earlier ones.
LEMMA RewardsKept ==
    ASSUME chain \in Seq(Blocks), NEW b \in Blocks, chain' = Append(chain, b),
           NEW n \in 0 .. Len(chain)
    PROVE  SumOver(Rewards(chain'), 1 .. n) = SumOver(Rewards(chain), 1 .. n)
<1>1. IsFiniteSet(1 .. n)
  BY Zenon, RewardsTyped
<1>2. ASSUME NEW i \in 1 .. n PROVE Rewards(chain')[i] = Rewards(chain)[i]
  <2>1. i \in DOMAIN chain /\ i \in DOMAIN chain' /\ chain'[i] = chain[i]
    OBVIOUS
  <2> QED BY Zenon, <2>1 DEF Rewards
<1> QED BY Zenon, <1>1, <1>2, SumSame

\* The summary of the first n of some blocks.
SummaryOf(blocks, n) == [blockNumber |-> n, rewards |-> SumOver(Rewards(blocks), 1 .. n)]

\* The summary in memory is the one that is stored, or a block ahead of it after a
\* block that failed late.
SummaryInv ==
    enableExtendedApis =>
        /\ summary = SummaryOf(chain, lastBlock)
        /\ \E m \in {lastBlock, lastBlock + 1} :
              m <= Len(chain) /\ runningSummary = SummaryOf(chain, m)

LEMMA SummaryOfNone ==
    ASSUME NEW blocks PROVE SummaryOf(blocks, 0) = EmptySummary
<1>1. 1 .. 0 = {}
  OBVIOUS
<1>2. SumOver(Rewards(blocks), 1 .. 0) = 0
  BY Zenon, <1>1, SumEmpty
<1> QED BY Zenon, <1>2 DEF SummaryOf, EmptySummary

LEMMA SummaryInit == Init => SummaryInv
<1> SUFFICES ASSUME Init PROVE SummaryInv
  BY Zenon
<1>1. chain = <<>> /\ lastBlock = 0 /\ summary = EmptySummary /\ runningSummary = EmptySummary
  BY Zenon DEF Init
<1>2. 0 <= Len(chain)
  BY <1>1
<1> QED BY Zenon, <1>1, <1>2, SummaryOfNone DEF SummaryInv

\* The check at the start of updateSummary lets a block pass only when the summary in
\* memory is the stored one, and what it computes is then the summary of the block.
LEMMA SummaryUpdated ==
    ASSUME CacheInv, SummaryInv, enableExtendedApis,
           BlockByNumber(blockNumber + 1), SummaryExpects(blockNumber + 1)
    PROVE  /\ UpdatedSummary(blockNumber + 1) = SummaryOf(chain, lastBlock + 1)
           /\ lastBlock + 1 <= Len(chain)
<1>1. /\ chain \in Seq(Blocks) /\ lastBlock \in 0 .. Len(chain) /\ blockNumber = lastBlock
      /\ lastBlock + 1 <= Len(chain)
  BY Zenon DEF CacheInv, BlockByNumber
<1>2. PICK m \in {lastBlock, lastBlock + 1} :
         m <= Len(chain) /\ runningSummary = SummaryOf(chain, m)
  BY Zenon DEF SummaryInv
<1>3. runningSummary.blockNumber = m /\ runningSummary.rewards = RewardsUpTo(m)
  <2>1. runningSummary = [blockNumber |-> m, rewards |-> RewardsUpTo(m)]
    BY Zenon, <1>2, RewardsAreSum DEF SummaryOf
  <2> QED BY <2>1
<1>4. lastBlock + 1 = m + 1
  BY Zenon, <1>1, <1>3 DEF SummaryExpects
<1>5. m = lastBlock /\ lastBlock \in Nat
  BY <1>1, <1>2, <1>4
<1>6. RewardsUpTo(lastBlock + 1) = RewardsUpTo(lastBlock) + chain[lastBlock + 1].reward
  BY Zenon, <1>1, <1>5, RewardsNext
<1> QED BY Zenon, <1>1, <1>3, <1>5, <1>6, RewardsAreSum DEF UpdatedSummary, SummaryOf

LEMMA SummaryStep == CacheInv /\ SummaryInv /\ [Next]_vars => SummaryInv'
<1> SUFFICES ASSUME CacheInv, SummaryInv, [Next]_vars, enableExtendedApis'
             PROVE  /\ summary' = SummaryOf(chain', lastBlock')
                    /\ \E m \in {lastBlock', lastBlock' + 1} :
                          m <= Len(chain') /\ runningSummary' = SummaryOf(chain', m)
  BY Zenon DEF SummaryInv
<1>0. /\ chain \in Seq(Blocks) /\ lastBlock \in 0 .. Len(chain) /\ blockNumber = lastBlock
      /\ lastBlock \in Nat
  <2>1. chain \in Seq(Blocks) /\ lastBlock \in 0 .. Len(chain) /\ blockNumber = lastBlock
    BY Zenon DEF CacheInv
  <2> QED BY <2>1
<1>x. enableExtendedApis
  BY Zenon DEF Next, NewBlock, ProcessBlock, ProcessFails, Restart, vars
<1>y. PICK m \in {lastBlock, lastBlock + 1} :
         m <= Len(chain) /\ runningSummary = SummaryOf(chain, m)
  BY Zenon, <1>x DEF SummaryInv
<1>z. summary = SummaryOf(chain, lastBlock)
  BY Zenon, <1>x DEF SummaryInv
<1>1. CASE NewBlock
  <2>1. PICK b \in Blocks : chain' = Append(chain, b)
    BY Zenon, <1>1 DEF NewBlock
  <2>2. UNCHANGED <<summary, lastBlock, runningSummary>>
    BY Zenon, <1>1 DEF NewBlock, db
  <2>3. ASSUME NEW n \in 0 .. Len(chain) PROVE SummaryOf(chain', n) = SummaryOf(chain, n)
    <3>1. SumOver(Rewards(chain'), 1 .. n) = SumOver(Rewards(chain), 1 .. n)
      BY Zenon, <1>0, <2>1, RewardsKept
    <3> QED BY Zenon, <3>1 DEF SummaryOf
  <2>4. m \in 0 .. Len(chain) /\ m <= Len(chain')
    BY <1>0, <1>y, <2>1
  <2> QED BY Zenon, <1>0, <1>y, <1>z, <2>2, <2>3, <2>4
<1>2. CASE ProcessBlock
  <2>1. /\ UpdatedSummary(blockNumber + 1) = SummaryOf(chain, lastBlock + 1)
        /\ lastBlock + 1 <= Len(chain)
    BY Zenon, <1>2, <1>x, SummaryUpdated DEF ProcessBlock
  <2>2. /\ lastBlock' = lastBlock + 1 /\ chain' = chain
        /\ runningSummary' = UpdatedSummary(blockNumber + 1)
        /\ summary' = UpdatedSummary(blockNumber + 1)
    BY Zenon, <1>0, <1>2, <1>x DEF ProcessBlock
  <2> QED BY Zenon, <2>1, <2>2
<1>3. CASE ProcessFails
  <2>1. /\ UpdatedSummary(blockNumber + 1) = SummaryOf(chain, lastBlock + 1)
        /\ lastBlock + 1 <= Len(chain)
    BY Zenon, <1>3, <1>x, SummaryUpdated DEF ProcessFails
  <2>2. /\ UNCHANGED <<lastBlock, chain, summary>>
        /\ runningSummary' = UpdatedSummary(blockNumber + 1)
    BY Zenon, <1>3 DEF ProcessFails, db
  <2> QED BY Zenon, <1>z, <2>1, <2>2
<1>4. CASE Restart
  <2>1. /\ UNCHANGED <<lastBlock, chain, summary>>
        /\ runningSummary' = IF lastBlock = 0 THEN EmptySummary ELSE summary
    BY Zenon, <1>4 DEF Restart, db
  <2>2. runningSummary' = SummaryOf(chain, lastBlock)
    BY Zenon, <1>z, <2>1, SummaryOfNone
  <2>3. lastBlock <= Len(chain)
    BY <1>0
  <2> QED BY Zenon, <1>z, <2>1, <2>2, <2>3
<1>5. CASE UNCHANGED vars
  <2>1. UNCHANGED <<lastBlock, chain, summary, runningSummary>>
    BY Zenon, <1>5 DEF vars, db
  <2> QED BY Zenon, <1>y, <1>z, <2>1
<1> QED BY Zenon, <1>1, <1>2, <1>3, <1>4, <1>5 DEF Next

\* The summary that is served is that of the last recorded block: a block that is tried
\* again after a late failure, or after a restart, is not added twice.
THEOREM SummaryServed == Spec => []SummaryExact
<1>1. SummaryInv => SummaryExact
  BY Zenon, RewardsAreSum DEF SummaryInv, SummaryExact, SummaryOf
<1> QED BY <1>1, CacheInit, CacheStep, SummaryInit, SummaryStep, PTL DEF Spec

-----------------------------------------------------------------------------
(* The cache implements AccountHistory. *)

\* The first c transactions that the pages hold.
Transactions(book, c) == [j \in 1 .. c |-> At(book, j)]

LEMMA ListedInPages == \A a : Listed(a) = Transactions(pages[a], txnCount[a])
BY Zenon DEF Listed, Transactions, At, PageOf, Before

LEMMA ListedInNewPages == \A a : Listed(a)' = Transactions(pages'[a], txnCount'[a])
BY Zenon DEF Listed, Transactions, At, PageOf, Before

\* Every place up to c is filled.
LEMMA TransactionsTyped ==
    ASSUME NEW book, NEW c \in Nat, BookOk(book, c)
    PROVE  Transactions(book, c) \in Seq(Txns) /\ Len(Transactions(book, c)) = c
<1>1. ASSUME NEW j \in 1 .. c PROVE At(book, j) \in Txns
  <2> DEFINE p == PageOf(j) + 1
             q == c \div PageSize
             r == c % PageSize
             b == Before(j)
             page == book[p]
  <2>1. /\ PageOf(j) \in Nat /\ b \in 0 .. PageSize - 1
        /\ PageOf(j) <= q /\ (PageOf(j) = q => b < r)
    BY Zenon, PlaceOf
  <2>2. q \in Nat /\ r \in 0 .. PageSize - 1
    BY Zenon, Place
  <2>3. getPageCount(c) = IF r = 0 THEN q ELSE q + 1
    BY Zenon DEF getPageCount
  <2>4. DOMAIN book = 1 .. getPageCount(c)
    BY Zenon DEF BookOk
  <2> HIDE DEF q, r, b
  <2>5. p \in 1 .. getPageCount(c)
    <3>1. CASE r = 0
      <4>1. getPageCount(c) = q
        BY Zenon, <2>3, <3>1
      <4> QED BY <2>1, <2>2, <3>1, <4>1
    <3>2. CASE r # 0
      <4>1. getPageCount(c) = q + 1
        BY Zenon, <2>3, <3>2
      <4> QED BY <2>1, <2>2, <4>1
    <3> QED BY Zenon, <3>1, <3>2
  <2>6. page \in Seq(Txns) /\ Len(page) = IF p <= q THEN PageSize ELSE r
    BY Zenon, <2>4, <2>5 DEF BookOk, q, r
  <2>7. b < Len(page) /\ b \in Nat
    <3>1. CASE p <= q
      BY <2>1, <2>6, <3>1, CacheAssumption
    <3>2. CASE ~(p <= q)
      <4>1. PageOf(j) = q
        BY <2>1, <2>2, <3>2
      <4> QED BY <2>1, <2>6, <3>2, <4>1
    <3> QED BY Zenon, <3>1, <3>2
  <2> HIDE DEF page
  <2>8. page[Len(page) - b] \in Txns
    <3>1. Len(page) - b \in 1 .. Len(page)
      BY <2>6, <2>7
    <3> QED BY <2>6, <3>1
  <2> QED BY Zenon, <2>8 DEF At, page, p, b
<1>2. Transactions(book, c) \in [1 .. c -> Txns]
  BY Zenon, <1>1 DEF Transactions
<1> QED BY <1>2

\* The transactions of an account among the first m of block n; appending them in
\* their order is an extension.
TakesPart(txns, n, a, m) ==
    {<<n, i>> : i \in {j \in 1 .. m : a \in {txns[j].from, txns[j].to}}}

LEMMA ListExtends ==
    ASSUME NEW old \in Seq(Txns), NEW new \in Seq(Txns), NEW L, NEW txns, NEW n, NEW a,
           NEW m \in Nat, ListOf(L, txns, n, a, m), Len(new) = Len(old) + Len(L),
           \A j \in 1 .. Len(old) : new[j] = old[j],
           \A i \in 1 .. Len(L) : new[Len(old) + i] = L[i]
    PROVE  History!IsExtension(old, new, TakesPart(txns, n, a, m))
<1> DEFINE added == Len(old) + 1 .. Len(new)
           tx == TakesPart(txns, n, a, m)
<1>1. L \in Seq(Txns) /\ Len(L) \in Nat /\ Len(old) \in Nat
  <2>1. L \in Seq(Txns)
    BY Zenon DEF ListOf, Txns
  <2> QED BY <2>1
<1>2. Len(old) <= Len(new)
  BY <1>1
<1>3. ASSUME NEW j \in added
      PROVE  j - Len(old) \in 1 .. Len(L) /\ new[j] = L[j - Len(old)] /\ j \in Nat
  <2>1. j - Len(old) \in 1 .. Len(L) /\ Len(old) + (j - Len(old)) = j /\ j \in Nat
    BY <1>1
  <2> QED BY Zenon, <2>1
<1>4. ASSUME NEW i \in 1 .. Len(L) PROVE Len(old) + i \in added
  BY <1>1
<1> HIDE DEF added
<1>5. {new[j] : j \in added} \subseteq tx
  <2> SUFFICES ASSUME NEW j \in added PROVE new[j] \in tx
    BY Zenon
  <2>1. PICK i \in 1 .. m : /\ L[j - Len(old)] = <<n, i>>
                           /\ a \in {txns[i].from, txns[i].to}
    BY Zenon, <1>3 DEF ListOf
  <2>2. new[j] = <<n, i>>
    BY Zenon, <1>3, <2>1
  <2> QED BY Zenon, <2>1, <2>2 DEF TakesPart
<1>6. tx \subseteq {new[j] : j \in added}
  <2> SUFFICES ASSUME NEW i \in 1 .. m, a \in {txns[i].from, txns[i].to}
               PROVE  <<n, i>> \in {new[j] : j \in added}
    BY Zenon DEF TakesPart
  <2>1. PICK j \in 1 .. Len(L) : L[j] = <<n, i>>
    BY Zenon DEF ListOf
  <2>2. new[Len(old) + j] = <<n, i>>
    BY Zenon, <2>1
  <2> QED BY Zenon, <1>4, <2>2
<1>7. ASSUME NEW j \in added, NEW k \in added, j < k PROVE new[j][2] < new[k][2]
  <2>1. j - Len(old) < k - Len(old)
    BY <1>1, <1>3, <1>7
  <2>2. L[j - Len(old)][2] < L[k - Len(old)][2]
    BY Zenon, <1>3, <2>1 DEF ListOf
  <2> QED BY Zenon, <1>3, <2>2
<1>8. {new[j] : j \in added} = tx
  BY Zenon, <1>5, <1>6
<1> QED BY Zenon, <1>2, <1>7, <1>8 DEF History!IsExtension, added

LEMMA HistoryInit == Init => History!Init
<1> SUFFICES ASSUME Init PROVE History!Init
  BY Zenon
<1>1. chain = <<>> /\ lastBlock = 0 /\ txnCount = [a \in Users |-> 0]
  BY Zenon DEF Init
<1>2. ASSUME NEW a \in Users PROVE Listed(a) = <<>>
  <2>1. Listed(a) = [j \in 1 .. 0 |-> At(pages[a], j)]
    BY Zenon, <1>1, ListedInPages DEF Transactions
  <2> QED BY <2>1
<1>3. [a \in Users |-> Listed(a)] = [a \in Users |-> <<>>]
  BY Zenon, <1>2
<1> QED BY Zenon, <1>1, <1>3 DEF History!Init

\* A block that is recorded extends the history of every account.
LEMMA HistoryRecords ==
    ASSUME CacheInv, CacheInv', ProcessBlock PROVE History!Record
<1> DEFINE n == lastBlock + 1
<1>1. /\ chain \in Seq(Blocks) /\ lastBlock \in 0 .. Len(chain) /\ blockNumber = lastBlock
      /\ n <= Len(chain) /\ lastBlock' = n /\ UNCHANGED chain
  BY Zenon DEF CacheInv, ProcessBlock, BlockByNumber
<1>2. lastBlock < Len(chain)
  BY <1>1
<1>3. ASSUME NEW a \in Users
      PROVE  /\ Listed(a) \in Seq(Txns) /\ Listed(a)' \in Seq(Txns)
             /\ Len(Listed(a)) = txnCount[a] /\ Len(Listed(a)') = txnCount'[a]
             /\ txnCount[a] \in Nat /\ txnCount'[a] \in Nat
  BY Zenon, TransactionsTyped, ListedInPages, ListedInNewPages DEF CacheInv
<1>4. ASSUME NEW a \in Users
      PROVE  History!IsExtension(Listed(a), Listed(a)', History!TransactionsOf(n, a))
  <2> DEFINE L == liveAccountMap(n, a)
             c == txnCount[a]
             txns == chain[n].txns
             old == Listed(a)
             new == Listed(a)'
  <2>1. /\ n \in 1 .. Len(chain)
        /\ ListOf(L, txns, n, a, Len(txns))
        /\ txnCount'[a] = c + Len(L)
        /\ \A j \in 1 .. c : At(pages'[a], j) = At(pages[a], j)
        /\ \A i \in 1 .. Len(L) : At(pages'[a], c + i) = L[i]
    BY Zenon, BlockEntered
  <2>2. old = [j \in 1 .. c |-> At(pages[a], j)]
    BY Zenon, ListedInPages DEF Transactions
  <2>3. new = [j \in 1 .. c + Len(L) |-> At(pages'[a], j)]
    BY Zenon, <2>1, ListedInNewPages DEF Transactions
  <2>4. /\ old \in Seq(Txns) /\ new \in Seq(Txns) /\ Len(old) = c /\ c \in Nat
        /\ Len(new) = c + Len(L)
    BY Zenon, <1>3, <2>1
  <2>5. txns \in Seq([from : Users, to : Users \cup {None}])
    BY Zenon, <1>1, <2>1, BlockOfChain
  <2>6. L \in Seq(Txns)
    BY Zenon, <2>1 DEF ListOf, Txns
  <2> HIDE DEF n, L, c, old, new, txns
  <2>7. Len(txns) \in Nat /\ DOMAIN txns = 1 .. Len(txns) /\ Len(L) \in Nat
    BY <2>5, <2>6
  <2>8. ASSUME NEW j \in 1 .. c PROVE new[j] = old[j]
    <3>1. j \in 1 .. c + Len(L)
      BY <2>4, <2>7
    <3> QED BY Zenon, <2>1, <2>2, <2>3, <3>1
  <2>9. ASSUME NEW i \in 1 .. Len(L) PROVE new[c + i] = L[i]
    <3>1. c + i \in 1 .. c + Len(L)
      BY <2>4, <2>7
    <3> QED BY Zenon, <2>1, <2>3, <3>1
  <2>10. History!IsExtension(old, new, TakesPart(txns, n, a, Len(txns)))
    <3>1. /\ \A j \in 1 .. Len(old) : new[j] = old[j]
          /\ \A i \in 1 .. Len(L) : new[Len(old) + i] = L[i]
          /\ Len(new) = Len(old) + Len(L)
      BY Zenon, <2>4, <2>8, <2>9
    <3> QED BY Zenon, <2>1, <2>4, <2>7, <3>1, ListExtends
  <2>11. History!TransactionsOf(n, a) = TakesPart(txns, n, a, Len(txns))
    BY Zenon, <2>7 DEF History!TransactionsOf, TakesPart, txns
  <2> QED BY Zenon, <2>10, <2>11 DEF old, new
<1> DEFINE h == [a \in Users |-> Listed(a)]
           k == [a \in Users |-> Listed(a)']
<1>5. h' = k
  OBVIOUS
<1>6. k \in [Users -> Seq(Nat \X Nat)]
  BY Zenon, <1>3 DEF Txns
<1>7. \A a \in Users : History!IsExtension(h[a], k[a], History!TransactionsOf(n, a))
  BY Zenon, <1>4
<1> QED BY Zenon, <1>1, <1>2, <1>5, <1>6, <1>7 DEF History!Record

LEMMA HistoryStep ==
    CacheInv /\ CacheInv' /\ [Next]_vars => [History!Next]_(History!historyVars)
<1> SUFFICES ASSUME CacheInv, CacheInv', [Next]_vars
             PROVE  [History!Next]_(History!historyVars)
  BY Zenon
<1> DEFINE h == [a \in Users |-> Listed(a)]
<1>0. ASSUME UNCHANGED db PROVE h' = h /\ lastBlock' = lastBlock
  <2>1. pages' = pages /\ txnCount' = txnCount /\ lastBlock' = lastBlock
    BY Zenon, <1>0 DEF db
  <2>2. \A a \in Users : Listed(a)' = Listed(a)
    BY Zenon, <2>1, ListedInPages, ListedInNewPages
  <2>3. h' = [a \in Users |-> Listed(a)']
    OBVIOUS
  <2> QED BY Zenon, <2>1, <2>2, <2>3
<1>1. CASE NewBlock
  <2>1. (\E b \in Blocks : chain' = Append(chain, b)) /\ UNCHANGED db
    BY Zenon, <1>1 DEF NewBlock
  <2> QED BY Zenon, <1>0, <2>1 DEF History!Next, History!Extend
<1>2. CASE ProcessBlock
  BY Zenon, <1>2, HistoryRecords DEF History!Next
<1>3. CASE ProcessFails \/ Restart \/ UNCHANGED vars
  <2>1. UNCHANGED db /\ UNCHANGED chain
    BY Zenon, <1>3 DEF ProcessFails, Restart, vars
  <2> QED BY Zenon, <1>0, <2>1 DEF History!historyVars
<1> QED BY Zenon, <1>1, <1>2, <1>3 DEF Next

\* The pages of every account hold the transactions of all recorded blocks, each of them
\* once and in order, whichever calls fail and whenever the process stops.
THEOREM CacheRefinesHistory == Spec => ImplementsHistory
BY CacheInit, CacheStep, HistoryInit, HistoryStep, PTL
   DEF Spec, ImplementsHistory, History!Spec
=============================================================================
