-------------------------- MODULE ItemImportsProofs --------------------------
(***************************************************************************)
(* Proofs about the rank keys, for every number of digits, and about       *)
(* ItemImports, for any items, clients and overlap of requests.            *)
(***************************************************************************)
EXTENDS ItemImports, WellFoundedInduction, FiniteSetTheorems, TLAPS

-----------------------------------------------------------------------------
(* Induction, and functions defined by it *)

LEMMA Least ==
    ASSUME NEW S \in SUBSET Nat, S # {}
    PROVE  \E m \in S : \A n \in S : m <= n
<1>1. PICK m \in S : \A n \in S : ~(<<n, m>> \in OpToRel(<, Nat))
  BY NatLessThanWellFounded, WFMin, Zenon
<1>2. \A n \in S : ~(n < m)
  BY <1>1 DEF OpToRel
<1> QED BY <1>2

\* Induction, for a set of numbers.
LEMMA Induction ==
    ASSUME NEW S, 0 \in S, \A n \in Nat : n \in S => n + 1 \in S
    PROVE  Nat \subseteq S
<1> SUFFICES ASSUME NEW k \in Nat \ S PROVE FALSE
  OBVIOUS
<1>1. PICK m \in Nat \ S : \A n \in Nat \ S : m <= n
  BY Least
<1>2. m # 0 /\ m - 1 \in Nat
  BY <1>1
<1>3. m - 1 \in S
  BY <1>1, <1>2
<1> QED BY <1>1, <1>2, <1>3

\* Values of which the first is v0 and F gives the next.
Solves(f, V, v0, F) ==
    f \in [Nat -> V] /\ f[0] = v0 /\ \A n \in Nat : f[n + 1] = F[n][f[n]]

LEMMA Recursion ==
    ASSUME NEW V, NEW v0 \in V, NEW F \in [Nat -> [V -> V]]
    PROVE  \E f : Solves(f, V, v0, F)
<1> DEFINE Part(n) == {g \in [0 .. n -> V] : g[0] = v0 /\ \A i \in 0 .. n - 1 : g[i + 1] = F[i][g[i]]}
<1>1. \A n \in Nat : Part(n) # {}
  <2> DEFINE S == {n \in Nat : Part(n) # {}}
  <2>1. 0 \in S
    <3>1. [i \in 0 .. 0 |-> v0] \in Part(0)
      OBVIOUS
    <3> QED BY <3>1
  <2>2. ASSUME NEW n \in Nat, n \in S PROVE n + 1 \in S
    <3>1. PICK g \in Part(n) : TRUE
      BY <2>2
    <3>2. g[n] \in V /\ F[n][g[n]] \in V
      OBVIOUS
    <3> DEFINE h == [i \in 0 .. n + 1 |-> IF i <= n THEN g[i] ELSE F[n][g[n]]]
    <3>3. h \in [0 .. n + 1 -> V] /\ h[0] = v0
      BY <3>2
    <3>4. ASSUME NEW i \in 0 .. n PROVE h[i + 1] = F[i][h[i]]
      <4>1. CASE i = n
        BY <4>1
      <4>2. CASE i # n
        <5>1. i \in 0 .. n - 1 /\ i + 1 <= n /\ i + 1 \in 0 .. n + 1
          BY <4>2
        <5>2. g[i + 1] = F[i][g[i]]
          BY <3>1, <5>1
        <5> QED BY <5>1, <5>2
      <4> QED BY <4>1, <4>2
    <3>5. h \in Part(n + 1)
      BY <3>3, <3>4
    <3> HIDE DEF Part
    <3> QED BY <3>5
  <2> HIDE DEF S
  <2>3. Nat \subseteq S
    BY <2>1, <2>2, Induction
  <2>4. \A n \in Nat : n \in S => Part(n) # {}
    BY DEF S
  <2> QED BY <2>3, <2>4
<1>2. ASSUME NEW n \in Nat, NEW g \in Part(n), NEW m \in Nat, NEW h \in Part(m), n <= m
      PROVE  \A i \in 0 .. n : g[i] = h[i]
  <2> DEFINE S == {i \in Nat : i <= n => g[i] = h[i]}
  <2>1. 0 \in S
    OBVIOUS
  <2>2. ASSUME NEW i \in Nat, i \in S PROVE i + 1 \in S
    <3> SUFFICES ASSUME i + 1 <= n PROVE g[i + 1] = h[i + 1]
      OBVIOUS
    <3>1. i \in 0 .. n - 1 /\ i \in 0 .. m - 1 /\ g[i] = h[i]
      BY <1>2, <2>2
    <3> QED BY <3>1
  <2> HIDE DEF S
  <2>3. Nat \subseteq S
    BY <2>1, <2>2, Induction
  <2>4. \A i \in Nat : i <= n => g[i] = h[i]
    BY <2>3 DEF S
  <2> QED BY <2>4
<1> DEFINE c == [n \in Nat |-> CHOOSE g \in Part(n) : TRUE]
           f == [n \in Nat |-> c[n][n]]
<1>3. \A n \in Nat : c[n] \in Part(n)
  BY <1>1
<1> HIDE DEF c
<1>4. f \in [Nat -> V]
  BY <1>3
<1>5. f[0] = v0
  BY <1>3
<1>6. ASSUME NEW n \in Nat PROVE f[n + 1] = F[n][f[n]]
  <2>1. c[n] \in Part(n) /\ c[n + 1] \in Part(n + 1)
    BY <1>3
  <2>2. c[n][n] = c[n + 1][n]
    <3> HIDE DEF Part
    <3>1. \A i \in 0 .. n : c[n][i] = c[n + 1][i]
      BY <1>2, <2>1
    <3> QED BY <3>1
  <2>3. c[n + 1][n + 1] = F[n][c[n + 1][n]]
    BY <2>1
  <2> QED BY <2>2, <2>3
<1>7. Solves(f, V, v0, F)
  BY <1>4, <1>5, <1>6 DEF Solves
<1> QED BY <1>7

\* A loop over a sequence that skips positions.
KeptTo(f, s, P) == f = [n \in 0 .. Len(s) |->
                           IF n = 0 THEN <<>>
                           ELSE IF n \in P THEN Append(f[n - 1], s[n]) ELSE f[n - 1]]

LEMMA KeptLoop ==
    ASSUME NEW X, NEW s \in Seq(X), NEW P
    PROVE  \E f : KeptTo(f, s, P) /\ Kept(s, P) = f[Len(s)]
<1> DEFINE F == [n \in Nat |-> [v \in Seq(X) |->
                    IF n + 1 \in P /\ n + 1 <= Len(s) THEN Append(v, s[n + 1]) ELSE v]]
<1>1. F \in [Nat -> [Seq(X) -> Seq(X)]]
  <2>1. \A n \in Nat, v \in Seq(X) :
           (IF n + 1 \in P /\ n + 1 <= Len(s) THEN Append(v, s[n + 1]) ELSE v) \in Seq(X)
    OBVIOUS
  <2> QED BY <2>1
<1>2. <<>> \in Seq(X)
  OBVIOUS
<1> HIDE DEF F
<1>g. PICK g : Solves(g, Seq(X), <<>>, F)
  BY <1>1, <1>2, Recursion
<1>3. g \in [Nat -> Seq(X)] /\ g[0] = <<>> /\ \A n \in Nat : g[n + 1] = F[n][g[n]]
  BY <1>g DEF Solves
<1> DEFINE f == [n \in 0 .. Len(s) |-> g[n]]
<1>4. KeptTo(f, s, P)
  <2>1. ASSUME NEW n \in 0 .. Len(s)
        PROVE  g[n] = IF n = 0 THEN <<>> ELSE IF n \in P THEN Append(g[n - 1], s[n]) ELSE g[n - 1]
    <3>1. CASE n = 0
      BY <1>3, <3>1
    <3>2. CASE n # 0
      <4>1. PICK m \in Nat : n = m + 1 /\ m + 1 <= Len(s) /\ m = n - 1
        BY <3>2
      <4>2. g[m + 1] = F[m][g[m]] /\ g[m] \in Seq(X)
        BY <1>3
      <4>3. F[m][g[m]] = IF m + 1 \in P THEN Append(g[m], s[m + 1]) ELSE g[m]
        BY <4>1, <4>2 DEF F
      <4> QED BY <3>2, <4>1, <4>2, <4>3
    <3> QED BY <3>1, <3>2
  <2>2. ASSUME NEW n \in 0 .. Len(s)
        PROVE  f[n] = IF n = 0 THEN <<>> ELSE IF n \in P THEN Append(f[n - 1], s[n]) ELSE f[n - 1]
    <3>1. CASE n = 0
      BY <2>1, <3>1
    <3>2. CASE n # 0
      <4>1. n - 1 \in 0 .. Len(s) /\ f[n - 1] = g[n - 1] /\ f[n] = g[n]
        BY <3>2
      <4> QED BY <2>1, <3>2, <4>1
    <3> QED BY <3>1, <3>2
  <2> QED BY <2>2, Zenon DEF KeptTo
<1> HIDE DEF f
<1>5. Kept(s, P) = (CHOOSE h : KeptTo(h, s, P))[Len(s)]
  BY Zenon DEF Kept, KeptTo
<1>6. KeptTo(CHOOSE h : KeptTo(h, s, P), s, P)
  BY <1>4, Zenon
<1> QED BY <1>5, <1>6

Collects(f, X, s, P) ==
    /\ f \in [0 .. Len(s) -> Seq(X)]
    /\ f[0] = <<>> /\ Kept(s, P) = f[Len(s)]
    /\ \A n \in 1 .. Len(s) : f[n] = IF n \in P THEN Append(f[n - 1], s[n]) ELSE f[n - 1]

LEMMA KeptSteps ==
    ASSUME NEW X, NEW s \in Seq(X), NEW P
    PROVE  \E f : Collects(f, X, s, P)
<1>1. PICK f : KeptTo(f, s, P) /\ Kept(s, P) = f[Len(s)]
  BY KeptLoop
<1>2. /\ DOMAIN f = 0 .. Len(s) /\ f[0] = <<>> /\ f = [n \in 0 .. Len(s) |-> f[n]]
      /\ \A n \in 1 .. Len(s) : f[n] = IF n \in P THEN Append(f[n - 1], s[n]) ELSE f[n - 1]
  <2>1. /\ DOMAIN f = 0 .. Len(s) /\ f = [n \in 0 .. Len(s) |-> f[n]]
        /\ \A n \in 0 .. Len(s) : f[n] = IF n = 0 THEN <<>>
                                         ELSE IF n \in P THEN Append(f[n - 1], s[n]) ELSE f[n - 1]
    BY <1>1, Zenon DEF KeptTo
  <2>2. 0 \in 0 .. Len(s) /\ \A n \in 1 .. Len(s) : n \in 0 .. Len(s) /\ n # 0
    OBVIOUS
  <2> QED BY <2>1, <2>2, Zenon
<1>3. \A n \in 0 .. Len(s) : f[n] \in Seq(X)
  <2> DEFINE S == {n \in Nat : n <= Len(s) => f[n] \in Seq(X)}
  <2>1. 0 \in S
    BY <1>2
  <2>2. ASSUME NEW n \in Nat, n \in S PROVE n + 1 \in S
    <3> SUFFICES ASSUME n + 1 <= Len(s) PROVE f[n + 1] \in Seq(X)
      OBVIOUS
    <3>1. n + 1 \in 1 .. Len(s) /\ (n + 1) - 1 = n /\ s[n + 1] \in X /\ f[n] \in Seq(X)
      BY <2>2
    <3>2. f[n + 1] = IF n + 1 \in P THEN Append(f[n], s[n + 1]) ELSE f[n]
      BY <1>2, <3>1
    <3> QED BY <3>1, <3>2
  <2> HIDE DEF S
  <2>3. Nat \subseteq S
    BY <2>1, <2>2, Induction
  <2>4. \A n \in Nat : n <= Len(s) => f[n] \in Seq(X)
    BY <2>3 DEF S
  <2> QED BY <2>4
<1>4. f \in [0 .. Len(s) -> Seq(X)]
  BY <1>2, <1>3
<1>5. Collects(f, X, s, P)
  BY <1>1, <1>2, <1>4 DEF Collects
<1> QED BY <1>5

\* What is kept of two sequences of one length is found at the same positions e.
Alike(e, s, t, P) ==
    /\ e \in Seq(P)
    /\ Kept(s, P) = [i \in 1 .. Len(e) |-> s[e[i]]]
    /\ Kept(t, P) = [i \in 1 .. Len(e) |-> t[e[i]]]
    /\ e = <<>> <=> P = {}
    /\ P = 1 .. Len(s) => e = [i \in 1 .. Len(s) |-> i]

LEMMA KeptAlike ==
    ASSUME NEW X, NEW s \in Seq(X), NEW Y, NEW t \in Seq(Y), Len(s) = Len(t),
           NEW P \in SUBSET (1 .. Len(s))
    PROVE  \E e : Alike(e, s, t, P)
<1>f. PICK f : Collects(f, X, s, P)
  BY KeptSteps
<1>g. PICK g : Collects(g, Y, t, P)
  BY KeptSteps
<1>1. /\ f \in [0 .. Len(s) -> Seq(X)] /\ f[0] = <<>> /\ Kept(s, P) = f[Len(s)]
      /\ \A n \in 1 .. Len(s) : f[n] = IF n \in P THEN Append(f[n - 1], s[n]) ELSE f[n - 1]
  BY <1>f DEF Collects
<1>2. /\ g \in [0 .. Len(s) -> Seq(Y)] /\ g[0] = <<>> /\ Kept(t, P) = g[Len(s)]
      /\ \A n \in 1 .. Len(s) : g[n] = IF n \in P THEN Append(g[n - 1], t[n]) ELSE g[n - 1]
  BY <1>g DEF Collects
<1> DEFINE Same(n, e) == /\ f[n] = [i \in 1 .. Len(e) |-> s[e[i]]]
                         /\ g[n] = [i \in 1 .. Len(e) |-> t[e[i]]]
                         /\ e = <<>> <=> P \cap (1 .. n) = {}
                         /\ 1 .. n \subseteq P => e = [i \in 1 .. n |-> i]
           S == {n \in Nat : n <= Len(s) => \E e \in Seq(P) : Same(n, e)}
<1>s. /\ \A n \in Nat : n \in S <=> (n <= Len(s) => \E e \in Seq(P) : Same(n, e))
      /\ Len(s) \in Nat /\ Len(s) <= Len(s)
  <2> HIDE DEF Same
  <2> QED BY DEF S
<1> HIDE DEF S
<1>3. 0 \in S
  <2>1. <<>> \in Seq(P) /\ f[0] = <<>> /\ g[0] = <<>> /\ Len(<<>>) = 0
    BY <1>1, <1>2
  <2>2. Same(0, <<>>)
    BY <2>1
  <2> HIDE DEF Same
  <2> QED BY <1>s, <2>1, <2>2
<1>4. ASSUME NEW n \in Nat, n \in S PROVE n + 1 \in S
  <2> SUFFICES ASSUME n + 1 <= Len(s) PROVE \E e \in Seq(P) : Same(n + 1, e)
    <3> HIDE DEF Same
    <3> QED BY <1>s
  <2>0. n <= Len(s)
    BY <1>s
  <2>1. PICK e \in Seq(P) : Same(n, e)
    <3> HIDE DEF Same
    <3> QED BY <1>4, <1>s, <2>0
  <2>2. n + 1 \in 1 .. Len(s) /\ (n + 1) - 1 = n
    OBVIOUS
  <2>3. /\ f[n + 1] = IF n + 1 \in P THEN Append(f[n], s[n + 1]) ELSE f[n]
        /\ g[n + 1] = IF n + 1 \in P THEN Append(g[n], t[n + 1]) ELSE g[n]
    BY <1>1, <1>2, <2>2
  <2>4. CASE n + 1 \notin P
    <3>1. P \cap (1 .. n + 1) = P \cap (1 .. n) /\ ~(1 .. n + 1 \subseteq P)
      BY <2>4
    <3>2. Same(n + 1, e)
      BY <2>1, <2>3, <2>4, <3>1
    <3> QED BY <3>2
  <2>5. CASE n + 1 \in P
    <3>1. PICK d : d = Append(e, n + 1)
      OBVIOUS
    <3>2. d \in Seq(P) /\ Len(d) = Len(e) + 1 /\ d # <<>> /\ Len(e) \in Nat
          /\ d[Len(e) + 1] = n + 1
          /\ \A i \in 1 .. Len(e) : d[i] = e[i]
      BY <2>5, <3>1
    <3>3. f[n + 1] = [i \in 1 .. Len(d) |-> s[d[i]]]
      <4>0. n \in 0 .. Len(s)
        OBVIOUS
      <4>1. f[n] \in Seq(X) /\ f[n] = [i \in 1 .. Len(e) |-> s[e[i]]]
        BY <1>1, <1>2, <2>1, <4>0
      <4>2. f[n + 1] = Append(f[n], s[n + 1]) /\ Len(f[n]) = Len(e)
        BY <2>3, <2>5, <3>2, <4>1
      <4> QED BY <3>2, <4>1, <4>2
    <3>4. g[n + 1] = [i \in 1 .. Len(d) |-> t[d[i]]]
      <4>0. n \in 0 .. Len(t)
        OBVIOUS
      <4>1. g[n] \in Seq(Y) /\ g[n] = [i \in 1 .. Len(e) |-> t[e[i]]]
        BY <1>1, <1>2, <2>1, <4>0
      <4>2. g[n + 1] = Append(g[n], t[n + 1]) /\ Len(g[n]) = Len(e)
        BY <2>3, <2>5, <3>2, <4>1
      <4> QED BY <3>2, <4>1, <4>2
    <3>5. P \cap (1 .. n + 1) # {}
      BY <2>5
    <3>6. ASSUME 1 .. n + 1 \subseteq P PROVE d = [i \in 1 .. n + 1 |-> i]
      <4>1. 1 .. n \subseteq P
        BY <3>6
      <4>2. e = [i \in 1 .. n |-> i]
        BY <2>1, <4>1
      <4> QED BY <3>1, <4>2
    <3>7. Same(n + 1, d)
      BY <3>2, <3>3, <3>4, <3>5, <3>6
    <3> HIDE DEF Same
    <3> QED BY <3>2, <3>7
  <2> QED BY <2>4, <2>5
<1>5. Nat \subseteq S
  BY <1>3, <1>4, Induction
<1>6. PICK e \in Seq(P) : Same(Len(s), e)
  <2> HIDE DEF Same
  <2> QED BY <1>5, <1>s, Zenon
<1>7. P \cap (1 .. Len(s)) = P
  OBVIOUS
<1>8. Alike(e, s, t, P)
  BY <1>1, <1>2, <1>6, <1>7 DEF Alike
<1> QED BY <1>8

-----------------------------------------------------------------------------
(* Keys *)

LEMMA DigitsAreNumbers == Base \in Nat /\ Base >= 2 /\ Digit \subseteq Nat /\ 0 \in Digit
                          /\ \A d \in Digit : d < Base
BY BaseAssumption DEF Digit

LEMMA KeyDigits ==
    ASSUME NEW k \in Key
    PROVE  Len(k) \in Nat /\ \A i \in 1 .. Len(k) : k[i] \in Digit /\ k[i] \in Nat
<1>1. Len(k) \in Nat /\ \A i \in 1 .. Len(k) : k[i] \in Digit
  BY DEF Key
<1> QED BY <1>1, DigitsAreNumbers

LEMMA LoHiType ==
    ASSUME NEW a \in Key, NEW b \in Key, NEW i \in Nat \ {0}
    PROVE  Lo(a, i) \in Digit /\ Hi(b, i) \in 0 .. Base
BY DigitsAreNumbers DEF Lo, Hi, Key, Digit

\* The loop of Between ends, at the first position with room.
LEMMA PlaceFound ==
    ASSUME NEW a \in Key, NEW b \in Key
    PROVE  /\ Place(a, b) \in Nat \ {0}
           /\ Room(a, b, Place(a, b))
           /\ \A i \in 1 .. Place(a, b) - 1 : ~Room(a, b, i)
<1> DEFINE N == Len(a) + Len(b) + 1
           S == {p \in 1 .. N : Room(a, b, p)}
<1>1. Len(a) \in Nat /\ Len(b) \in Nat
  BY DEF Key
<1>2. Room(a, b, N)
  BY <1>1, DigitsAreNumbers DEF Room, Lo, Hi
<1>3. S \in SUBSET Nat /\ S # {}
  BY <1>1, <1>2
<1>4. PICK m \in S : \A n \in S : m <= n
  BY <1>3, Least
<1>5. /\ m \in 1 .. N
      /\ Room(a, b, m)
      /\ \A i \in 1 .. m - 1 : ~Room(a, b, i)
  BY <1>1, <1>4
<1>6. /\ Place(a, b) \in 1 .. N
      /\ Room(a, b, Place(a, b))
      /\ \A i \in 1 .. Place(a, b) - 1 : ~Room(a, b, i)
  BY <1>5, Zenon DEF Place
<1> QED BY <1>1, <1>6

LEMMA BetweenShape ==
    ASSUME NEW a \in Key, NEW b \in Key
    PROVE  /\ Between(a, b) \in Key
           /\ Len(Between(a, b)) = Place(a, b)
           /\ \A i \in 1 .. Place(a, b) - 1 : Between(a, b)[i] = Lo(a, i)
           /\ Lo(a, Place(a, b)) < Between(a, b)[Place(a, b)]
           /\ Between(a, b)[Place(a, b)] < Hi(b, Place(a, b))
<1> DEFINE p == Place(a, b)
           mid == (Lo(a, p) + Hi(b, p)) \div 2
<1>1. p \in Nat \ {0} /\ Room(a, b, p)
  BY PlaceFound
<1> HIDE DEF p
<1>2. Lo(a, p) \in Digit /\ Hi(b, p) \in 0 .. Base
  BY <1>1, LoHiType
<1>3. Lo(a, p) < mid /\ mid < Hi(b, p) /\ mid \in Digit
  BY <1>1, <1>2, DigitsAreNumbers DEF Room, Digit
<1> HIDE DEF mid
<1>4. Between(a, b) = [i \in 1 .. p |-> IF i < p THEN Lo(a, i) ELSE mid]
  <2>1. \A i \in 1 .. p : ~(i < p) => i = p
    BY <1>1
  <2> QED BY <2>1 DEF Between, p, mid
<1>5. \A i \in 1 .. p : (IF i < p THEN Lo(a, i) ELSE mid) \in Digit
  BY <1>1, <1>3, LoHiType
<1>6. Between(a, b) \in [1 .. p -> Digit]
  BY <1>4, <1>5
<1>7. Between(a, b) \in Key /\ Len(Between(a, b)) = p
  BY <1>1, <1>6 DEF Key
<1>8. \A i \in 1 .. p - 1 : Between(a, b)[i] = Lo(a, i)
  BY <1>1, <1>4
<1>9. Between(a, b)[p] = mid
  BY <1>1, <1>4
<1> QED BY <1>3, <1>7, <1>8, <1>9 DEF p

\* A key rank.go makes never ends in the lowest digit.
LEMMA BetweenUsable ==
    ASSUME NEW a \in Key, NEW b \in Key
    PROVE  Between(a, b) \in Key /\ Usable(Between(a, b))
<1>1. Place(a, b) \in Nat \ {0}
  BY PlaceFound
<1>2. Lo(a, Place(a, b)) \in Nat
  BY <1>1, LoHiType, DigitsAreNumbers
<1>3. Between(a, b) # <<>>
  BY <1>1, BetweenShape
<1> QED BY <1>1, <1>2, <1>3, BetweenShape DEF Usable

\* Between(a, b) is after a, whatever b is.
LEMMA BetweenAbove ==
    ASSUME NEW a \in Key, NEW b \in Key
    PROVE  Precedes(a, Between(a, b))
<1> DEFINE p == Place(a, b)
           m == Between(a, b)
<1>1. p \in Nat \ {0} /\ Len(a) \in Nat /\ Len(m) = p
  BY PlaceFound, BetweenShape DEF Key
<1>2. /\ \A i \in 1 .. p - 1 : m[i] = Lo(a, i)
      /\ Lo(a, p) < m[p]
  BY BetweenShape
<1> HIDE DEF p, m
<1>3. CASE p <= Len(a)
  <2>1. \A i \in 1 .. p - 1 : i <= Len(a) /\ a[i] = m[i]
    BY <1>1, <1>2, <1>3 DEF Lo
  <2>2. a[p] < m[p] /\ p \in 1 .. Len(m)
    BY <1>1, <1>2, <1>3 DEF Lo
  <2> QED BY <2>1, <2>2 DEF Precedes, m
<1>4. CASE p > Len(a)
  <2> DEFINE q == Len(a) + 1
  <2>1. \A i \in 1 .. q - 1 : i <= Len(a) /\ a[i] = m[i]
    BY <1>1, <1>2, <1>4 DEF Lo
  <2>2. q \in 1 .. Len(m) /\ ~(q <= Len(a))
    BY <1>1, <1>4
  <2> QED BY <2>1, <2>2 DEF Precedes, m
<1> QED BY <1>1, <1>3, <1>4

\* A key that is after another differs from it, read on with zeros, at a first
\* position, and is the greater one there.
LEMMA FirstDifference ==
    ASSUME NEW a \in Key, NEW b \in Key, Precedes(a, b), Usable(b)
    PROVE  \E r \in 1 .. Len(b) :
              /\ Lo(a, r) < b[r]
              /\ \A i \in 1 .. r - 1 : Lo(a, i) = b[i]
<1> DEFINE D == {i \in 1 .. Len(b) : Lo(a, i) # b[i]}
<1>1. /\ Len(a) \in Nat /\ Len(b) \in Nat
      /\ \A i \in 1 .. Len(b) : b[i] \in Nat
      /\ \A i \in 1 .. Len(a) : a[i] \in Nat
  BY KeyDigits
<1>2. PICK q \in 1 .. Len(b) : /\ \A i \in 1 .. q - 1 : i <= Len(a) /\ a[i] = b[i]
                               /\ q <= Len(a) => a[q] < b[q]
  BY DEF Precedes
<1>3. D # {}
  <2>1. CASE q <= Len(a)
    <3>1. a[q] \in Nat
      BY <1>1, <1>2, <2>1
    <3> QED BY <1>1, <1>2, <2>1, <3>1 DEF Lo
  <2>2. CASE ~(q <= Len(a))
    <3>1. Len(b) \in 1 .. Len(b) /\ Len(b) > Len(a)
      BY <1>1, <1>2, <2>2
    <3>2. Lo(a, Len(b)) = 0 /\ b[Len(b)] # 0
      BY <1>1, <3>1 DEF Lo, Usable
    <3> QED BY <3>1, <3>2
  <2> QED BY <2>1, <2>2
<1>4. PICK r \in D : \A n \in D : r <= n
  <2>1. D \in SUBSET Nat
    BY <1>1
  <2> QED BY <1>3, <2>1, Least
<1>5. r \in 1 .. Len(b) /\ \A i \in 1 .. r - 1 : Lo(a, i) = b[i]
  BY <1>1, <1>4
<1>6. Lo(a, r) < b[r]
  <2>1. CASE r <= Len(a)
    <3>1. a[r] # b[r]
      BY <1>4, <2>1 DEF Lo
    <3>2. r = q
      <4>1. ~(r < q)
        BY <1>1, <1>2, <1>5, <3>1
      <4>2. ~(q < r)
        <5> SUFFICES ASSUME q < r PROVE FALSE
          OBVIOUS
        <5>1. q \in 1 .. r - 1 /\ q <= Len(a)
          BY <1>1, <1>5, <2>1
        <5>2. a[q] = b[q] /\ a[q] < b[q]
          BY <1>2, <1>5, <5>1 DEF Lo
        <5> QED BY <1>1, <5>2
      <4> QED BY <1>5, <4>1, <4>2
    <3> QED BY <1>2, <2>1, <3>2 DEF Lo
  <2>2. CASE ~(r <= Len(a))
    <3>1. Lo(a, r) = 0 /\ b[r] \in Nat
      BY <1>1, <1>5, <2>2 DEF Lo
    <3>2. b[r] # 0
      BY <1>4, <3>1
    <3> QED BY <3>1, <3>2
  <2> QED BY <2>1, <2>2
<1> QED BY <1>5, <1>6

\* Between(a, b) is before b, if a is and b is a key rank.go made.
LEMMA BetweenBelow ==
    ASSUME NEW a \in Key, NEW b \in Key, Precedes(a, b), Usable(b)
    PROVE  Precedes(Between(a, b), b)
<1> DEFINE p == Place(a, b)
           m == Between(a, b)
<1>1. p \in Nat \ {0} /\ Len(b) \in Nat /\ Len(m) = p
  BY PlaceFound, BetweenShape DEF Key
<1>2. /\ \A i \in 1 .. p - 1 : m[i] = Lo(a, i)
      /\ m[p] < Hi(b, p)
      /\ Room(a, b, p)
  BY BetweenShape, PlaceFound
<1> HIDE DEF p, m
<1>3. PICK r \in 1 .. Len(b) : /\ Lo(a, r) < b[r]
                               /\ \A i \in 1 .. r - 1 : Lo(a, i) = b[i]
  BY FirstDifference
<1>4. r <= p
  <2> SUFFICES ASSUME p < r PROVE FALSE
    BY <1>1, <1>3
  <2>1. Lo(a, p) = b[p] /\ Hi(b, p) = b[p]
    BY <1>1, <1>3 DEF Hi
  <2>2. b[p] \in Nat
    BY <1>1, <1>3, KeyDigits
  <2> QED BY <1>2, <2>1, <2>2 DEF Room
<1>5. \A i \in 1 .. r - 1 : i <= Len(m) /\ m[i] = b[i]
  BY <1>1, <1>2, <1>3, <1>4
<1>6. r <= Len(m) => m[r] < b[r]
  <2>1. CASE r = p
    BY <1>1, <1>2, <1>3, <2>1 DEF Hi
  <2>2. CASE r < p
    BY <1>1, <1>2, <1>3, <2>2
  <2> QED BY <1>1, <1>3, <1>4, <2>1, <2>2
<1> QED BY <1>3, <1>5, <1>6 DEF Precedes, m

\* rank.go: "always admit a new key strictly between any two".  Whatever the number
\* of digits, Between gives a key strictly between two that differ, and it can be
\* used in its turn; After and Before are its two ends.
THEOREM RankBetween ==
    ASSUME NEW a \in Key, NEW b \in Key
    PROVE  /\ Between(a, b) \in Key /\ Usable(Between(a, b))
           /\ Precedes(a, Between(a, b))
           /\ Usable(b) /\ Precedes(a, b) => Precedes(Between(a, b), b)
           /\ Usable(b) => Precedes(Before(b), b)
<1>1. <<>> \in Key
  BY DEF Key
<1>2. ASSUME Usable(b) PROVE Precedes(<<>>, b)
  <2>1. Len(b) \in Nat /\ b # <<>>
    BY <1>2 DEF Key, Usable
  <2>2. 1 \in 1 .. Len(b)
    BY <2>1 DEF Key
  <2> QED BY <2>2 DEF Precedes
<1> QED BY <1>1, <1>2, BetweenUsable, BetweenAbove, BetweenBelow DEF Before

-----------------------------------------------------------------------------
(* The keys in use *)

\* A rank as the items of a list may have it.
GoodKey == {k \in Key : k # <<>> => Usable(k)}

ItemOK(x) == IsItem(x) => x \in [type: {x.type}, home: {x.home}, key: GoodKey]

RequestOK(r) ==
    /\ r.pc \in {"create", "read", "write"} =>
          r \in [pc: {r.pc}, draft: {r.draft}, in: {r.in}, home: {r.home}, rows: {r.rows},
                 first: {r.first}, prev: GoodKey, sprev: GoodKey, parent: {r.parent},
                 after: {r.after}, under: {r.under}, channel: {r.channel}, batch: {r.batch}]
    /\ r.pc = "set" => ItemOK(r.item)

\* The inductive invariant: whatever is listed, staged or about to be written has a
\* key that rank.go made, or the empty one.
KeysOK ==
    /\ DOMAIN live = Id /\ DOMAIN staged = Id /\ DOMAIN req = Handler
    /\ \A i \in Id : ItemOK(live[i]) /\ ItemOK(staged[i])
    /\ \A h \in Handler : RequestOK(req[h])
    /\ drawn \in Nat /\ 1 .. drawn \subseteq Id

LEMMA MadeKeysAreGood ==
    /\ GoodKey \subseteq Key
    /\ <<>> \in GoodKey
    /\ \A a, b \in Key : Between(a, b) \in GoodKey
    /\ \A a \in Key : After(a) \in GoodKey
    /\ Given \subseteq GoodKey
<1>1. <<>> \in Key
  BY DEF Key
<1>2. \A a, b \in Key : Between(a, b) \in GoodKey
  BY RankBetween DEF GoodKey
<1> QED BY <1>1, <1>2, ItemImportsAssumption DEF GoodKey, After

LEMMA LastRankGood ==
    ASSUME KeysOK, NEW home, NEW last \in LastRank(home)
    PROVE  last \in GoodKey
<1>1. \A i \in Listed(live, home) : live[i].key \in GoodKey
  BY DEF KeysOK, ItemOK, Listed
<1> QED BY <1>1, MadeKeysAreGood DEF LastRank

LEMMA RowOK ==
    ASSUME NEW t, NEW home, NEW k \in GoodKey
    PROVE  ItemOK([type |-> t, home |-> home, key |-> k])
BY DEF ItemOK

LEMMA RekeyOK ==
    ASSUME NEW x, IsItem(x), ItemOK(x), NEW k \in GoodKey
    PROVE  ItemOK([x EXCEPT !.key = k])
BY DEF ItemOK

LEMMA OverlayOK ==
    ASSUME KeysOK, NEW i \in Id
    PROVE  ItemOK(Overlay[i])
BY DEF KeysOK, Overlay, ItemOK, IsItem

\* A request that leaves the items alone.
LEMMA KeysOKRequest ==
    ASSUME KeysOK, UNCHANGED <<live, staged>>, NEW h \in Handler, NEW r, RequestOK(r),
           req' = [req EXCEPT ![h] = r],
           drawn' = drawn \/ (drawn' = drawn + 1 /\ drawn + 1 \in Id)
    PROVE  KeysOK'
<1>1. drawn' \in Nat /\ 1 .. drawn' \subseteq Id
  BY DEF KeysOK
<1> QED BY <1>1 DEF KeysOK, RequestOK, ItemOK, IsItem

LEMMA IdleOK == RequestOK(Idle)
BY DEF RequestOK, Idle

LEMMA AppendingOK ==
    ASSUME NEW pc \in {"create", "read"}, NEW draft, NEW c, NEW home, NEW rows,
           NEW channel, NEW batch, NEW first
    PROVE  /\ RequestOK(Appending(pc, draft, c, home, rows))
           /\ RequestOK([Appending(pc, draft, c, home, rows)
                           EXCEPT !.channel = channel, !.batch = batch])
           /\ RequestOK([Appending(pc, draft, c, home, rows)
                           EXCEPT !.channel = channel, !.batch = batch, !.first = first])
BY MadeKeysAreGood DEF RequestOK, Appending

LEMMA SettingOK ==
    ASSUME NEW i, NEW item, ItemOK(item), NEW mark
    PROVE  RequestOK(Setting(i, item, mark))
BY DEF RequestOK, Setting

LEMMA KeysInit == Init => KeysOK
<1>1. ItemOK(None)
  BY DEF ItemOK, IsItem
<1> QED BY <1>1, IdleOK DEF Init, KeysOK

\* Steps that change the lists only, and put nothing new on them but good rows.
LEMMA KeysOKTables ==
    ASSUME KeysOK, UNCHANGED req,
           DOMAIN live' = Id, DOMAIN staged' = Id,
           \A i \in Id : ItemOK(live'[i]) /\ ItemOK(staged'[i]),
           drawn' = drawn \/ (drawn' = drawn + 1 /\ drawn + 1 \in Id)
    PROVE  KeysOK'
<1>1. drawn' \in Nat /\ 1 .. drawn' \subseteq Id
  BY DEF KeysOK
<1> QED BY <1>1 DEF KeysOK, RequestOK, ItemOK, IsItem

LEMMA NextItemOK ==
    ASSUME NEW r, RequestOK(r), r.pc = "write"
    PROVE  ItemOK(NextItem(r)) /\ NextItem(r).key \in GoodKey
<1>1. r.prev \in Key /\ r.sprev \in Key
  BY MadeKeysAreGood DEF RequestOK
<1>2. After(r.prev) \in GoodKey /\ After(r.sprev) \in GoodKey
  BY <1>1, MadeKeysAreGood
<1>3. \/ NextItem(r) = [type |-> "sentence", home |-> r.parent, key |-> After(r.sprev)]
      \/ NextItem(r) = [type |-> r.rows[1], home |-> r.home, key |-> After(r.prev)]
  BY DEF NextItem
<1> QED BY <1>2, <1>3, RowOK

LEMMA WrittenOK ==
    ASSUME NEW r, RequestOK(r), r.pc = "write", NEW i, NEW item, item.key \in GoodKey
    PROVE  RequestOK(Written(r, i, item))
<1> DEFINE a == [r EXCEPT !.rows = Tail(@), !.sprev = item.key, !.under = @ \cup {i}]
           b == [r EXCEPT !.rows = Tail(@), !.prev = item.key, !.sprev = <<>>, !.parent = i,
                          !.after = @ \cup {i}, !.under = {}]
<1>1. RequestOK(a)
  BY DEF RequestOK
<1>2. RequestOK(b)
  BY MadeKeysAreGood DEF RequestOK
<1>3. Written(r, i, item) \in {Idle, a, b}
  BY DEF Written
<1> QED BY <1>1, <1>2, <1>3, IdleOK

LEMMA KeysSend ==
    ASSUME KeysOK, NEW h \in Handler, Send(h)
    PROVE  KeysOK'
<1>1. ASSUME NEW channel, NEW batch, NEW draft, NEW c, Import(h, channel, batch, draft, c)
      PROVE  KeysOK'
  BY <1>1, AppendingOK, KeysOKRequest DEF Import, Begin
<1>2. ASSUME NEW type, NEW draft, NEW c, NEW home, AddItem(h, type, draft, c, home)
      PROVE  KeysOK'
  BY <1>2, AppendingOK, KeysOKRequest DEF AddItem, Begin
<1>3. ASSUME NEW batch, NEW c, Create(h, batch, c)
      PROVE  KeysOK'
  <2> DEFINE r == [Appending("create", FALSE, c, c, AllRows(Parsed("create", batch)))
                     EXCEPT !.channel = "create", !.batch = batch, !.first = TRUE]
  <2>1. RequestOK(r)
    BY AppendingOK
  <2>2. req' = [req EXCEPT ![h] = r] /\ UNCHANGED <<live, staged, drawn>>
    BY <1>3 DEF Create, Begin
  <2> HIDE DEF r
  <2> QED BY <2>1, <2>2, KeysOKRequest
<1>4. ASSUME NEW k \in Given, NEW c, StageAt(h, k, c)
      PROVE  KeysOK'
  <2>1. ItemOK([type |-> "card", home |-> c, key |-> k])
    BY MadeKeysAreGood, RowOK
  <2> QED BY <1>4, <2>1, SettingOK, KeysOKRequest DEF StageAt, Begin
<1>5. ASSUME NEW i \in Id, Restage(h, i)
      PROVE  KeysOK'
  <2> DEFINE rk == IF IsItem(live[i]) THEN live[i].key
                   ELSE IF IsItem(staged[i]) THEN staged[i].key ELSE <<>>
  <2>1. rk \in GoodKey
    BY MadeKeysAreGood DEF KeysOK, ItemOK
  <2>2. \A last \in LastRank(Overlay[i].home) : After(last) \in GoodKey
    BY LastRankGood, MadeKeysAreGood
  <2>3. PICK k \in IF rk = <<>> THEN {After(last) : last \in LastRank(Overlay[i].home)} ELSE {rk} :
           Begin(h, Setting(i, [Overlay[i] EXCEPT !.key = k], FALSE))
    BY <1>5 DEF Restage
  <2> HIDE DEF rk
  <2>4. k \in GoodKey
    BY <2>1, <2>2, <2>3
  <2>5. ItemOK([Overlay[i] EXCEPT !.key = k])
    BY <1>5, <2>4, OverlayOK, RekeyOK DEF Restage
  <2> QED BY <1>5, <2>3, <2>5, SettingOK, KeysOKRequest DEF Restage, Begin
<1>6. ASSUME NEW i \in Id, NEW a \in Id \cup {None}, NEW b \in Id \cup {None}, Move(h, i, a, b)
      PROVE  KeysOK'
  <2> DEFINE bound(n) == IF n = None THEN <<>> ELSE RankOf(n)
             it == IF IsItem(staged[i]) THEN staged[i] ELSE live[i]
             k == Between(bound(a), bound(b))
  <2>1. \A n \in Id : RankOf(n) \in GoodKey
    BY MadeKeysAreGood DEF RankOf, KeysOK, ItemOK
  <2>2. bound(a) \in GoodKey /\ bound(b) \in GoodKey
    BY <2>1, MadeKeysAreGood
  <2>3. k \in GoodKey
    BY <2>2, MadeKeysAreGood
  <2>4. IsItem(it) /\ ItemOK(it)
    BY <1>6 DEF Move, KeysOK
  <2>5. /\ req' = [req EXCEPT ![h] = Setting(i, [it EXCEPT !.key = k], TRUE)]
        /\ UNCHANGED <<live, staged, drawn>>
    BY <1>6 DEF Move, Begin
  <2> HIDE DEF it, k
  <2>6. ItemOK([it EXCEPT !.key = k])
    BY <2>3, <2>4, RekeyOK
  <2> QED BY <2>5, <2>6, SettingOK, KeysOKRequest
<1>7. 1 .. drawn \subseteq Id
  BY DEF KeysOK
<1> QED BY <1>1, <1>2, <1>3, <1>4, <1>5, <1>6, <1>7 DEF Send

LEMMA KeysServe ==
    ASSUME KeysOK, NEW h \in Handler, Serve(h)
    PROVE  KeysOK'
<1> DEFINE r == req[h]
<1>r. RequestOK(r) /\ drawn \in Nat
  BY DEF KeysOK
<1>1. CASE Free(h) /\ Send(h)
  BY <1>1, KeysSend
<1>2. CASE CreateCollection(h)
  <2> DEFINE s == [r EXCEPT !.pc = "read"]
  <2>1. RequestOK(s)
    BY <1>2, <1>r DEF CreateCollection, RequestOK
  <2>2. req' = [req EXCEPT ![h] = Idle] \/ req' = [req EXCEPT ![h] = s]
    BY <1>2 DEF CreateCollection
  <2>3. UNCHANGED <<live, staged, drawn>>
    BY <1>2 DEF CreateCollection
  <2> HIDE DEF s
  <2> QED BY <2>1, <2>2, <2>3, IdleOK, KeysOKRequest
<1>3. CASE ReadLast(h)
  <2>1. PICK last \in LastRank(r.home) :
           req' = [req EXCEPT ![h].pc = "write", ![h].prev = last,
                              ![h].after = Listed(live, req[h].home)]
    BY <1>3 DEF ReadLast
  <2> DEFINE s == [r EXCEPT !.pc = "write", !.prev = last, !.after = Listed(live, req[h].home)]
  <2>2. RequestOK(s)
    BY <1>3, <1>r, LastRankGood DEF ReadLast, RequestOK
  <2>3. req' = [req EXCEPT ![h] = s] /\ UNCHANGED <<live, staged, drawn>>
    BY <1>3, <2>1 DEF ReadLast
  <2> HIDE DEF s
  <2> QED BY <2>2, <2>3, KeysOKRequest
<1>4. CASE WriteRow(h)
  <2> DEFINE i == drawn + 1
             item == NextItem(r)
             s == Written(r, i, item)
  <2>1. /\ i \in Id /\ drawn' = i
        /\ Store(r, i, item)
        /\ req' = [req EXCEPT ![h] = s]
        /\ r.pc = "write"
    BY <1>4 DEF WriteRow
  <2>2. ItemOK(item) /\ item.key \in GoodKey
    BY <1>r, <2>1, NextItemOK
  <2>3. RequestOK(s)
    BY <1>r, <2>1, <2>2, WrittenOK
  <2> HIDE DEF item, s
  <2>4. \/ staged' = [staged EXCEPT ![i] = item] /\ UNCHANGED live
        \/ live' = [live EXCEPT ![i] = item] /\ UNCHANGED staged
    BY <2>1 DEF Store
  <2>5. /\ DOMAIN live' = Id /\ DOMAIN staged' = Id
        /\ \A j \in Id : ItemOK(live'[j]) /\ ItemOK(staged'[j])
    BY <2>1, <2>2, <2>4 DEF KeysOK
  <2>6. DOMAIN req' = Handler /\ \A g \in Handler : RequestOK(req'[g])
    BY <2>1, <2>3 DEF KeysOK
  <2>7. drawn' \in Nat /\ 1 .. drawn' \subseteq Id
    BY <2>1 DEF KeysOK
  <2> QED BY <2>5, <2>6, <2>7 DEF KeysOK, RequestOK, ItemOK, IsItem
<1>5. CASE Abort(h)
  BY <1>5, IdleOK, KeysOKRequest DEF Abort
<1>6. CASE Set(h)
  <2>1. /\ r.pc = "set"
        /\ staged' = [staged EXCEPT ![r.id] = r.item]
        /\ req' = [req EXCEPT ![h] = Idle]
        /\ UNCHANGED <<live, drawn>>
    BY <1>6 DEF Set
  <2>2. ItemOK(r.item)
    BY <1>r, <2>1 DEF RequestOK
  <2>3. /\ DOMAIN live' = Id /\ DOMAIN staged' = Id
        /\ \A j \in Id : ItemOK(live'[j]) /\ ItemOK(staged'[j])
    BY <2>1, <2>2 DEF KeysOK
  <2>4. DOMAIN req' = Handler /\ \A g \in Handler : RequestOK(req'[g])
    BY <2>1, IdleOK DEF KeysOK
  <2> QED BY <2>1, <2>3, <2>4 DEF KeysOK, RequestOK, ItemOK, IsItem
<1> QED BY <1>1, <1>2, <1>3, <1>4, <1>5, <1>6 DEF Serve

LEMMA NothingOK == ItemOK(None) /\ ItemOK(Removed)
BY DEF ItemOK, IsItem

LEMMA KeysEdit ==
    ASSUME KeysOK, Edit
    PROVE  KeysOK'
<1>1. ASSUME NEW c, NEW keep \in SUBSET Listed(Overlay, c), NEW more, UpdateDraft(c, keep, more)
      PROVE  KeysOK'
  <2> DEFINE cards(table) == {i \in Listed(table, c) : table[i].type = "card"}
             row(k) == [type |-> "card", home |-> c, key |-> k]
             new == IF more THEN {drawn + 1} ELSE {}
  <2>1. PICK last \in LastRank(c) :
          staged' = [i \in Id |->
             IF i \in keep THEN row(IF i \in cards(live) THEN live[i].key ELSE <<>>)
             ELSE IF i \in new THEN row(After(last))
             ELSE IF i \in cards(live) THEN Removed
             ELSE IF owner[i] = c THEN None ELSE staged[i]]
    BY <1>1 DEF UpdateDraft
  <2>2. /\ new \subseteq Id
        /\ drawn' = IF more THEN drawn + 1 ELSE drawn
        /\ UNCHANGED <<live, req>>
    BY <1>1 DEF UpdateDraft
  <2>3. After(last) \in GoodKey /\ <<>> \in GoodKey
    BY LastRankGood, MadeKeysAreGood
  <2>4. \A i \in cards(live) : live[i].key \in GoodKey
    BY DEF KeysOK, ItemOK, Listed
  <2>5. \A k \in GoodKey : ItemOK(row(k))
    BY RowOK
  <2>6. \A i \in Id : \/ staged'[i] = staged[i]
                      \/ staged'[i] \in {None, Removed}
                      \/ \E k \in GoodKey : staged'[i] = row(k)
    <3> SUFFICES ASSUME NEW i \in Id
                 PROVE  \/ staged'[i] = staged[i]
                        \/ staged'[i] \in {None, Removed}
                        \/ \E k \in GoodKey : staged'[i] = row(k)
      OBVIOUS
    <3> DEFINE kept == IF i \in cards(live) THEN live[i].key ELSE <<>>
    <3>1. kept \in GoodKey
      BY <2>3, <2>4
    <3>2. staged'[i] \in {row(kept), row(After(last)), Removed, None, staged[i]}
      BY <2>1
    <3> HIDE DEF kept, row
    <3> QED BY <2>3, <3>1, <3>2
  <2> HIDE DEF row, cards
  <2>7. \A i \in Id : ItemOK(live'[i]) /\ ItemOK(staged'[i])
    BY <2>2, <2>5, <2>6, NothingOK DEF KeysOK
  <2>8. DOMAIN live' = Id /\ DOMAIN staged' = Id
    BY <2>1, <2>2 DEF KeysOK
  <2> QED BY <2>2, <2>7, <2>8, KeysOKTables
<1>2. ASSUME NEW i \in Id, StageDelete(i) PROVE KeysOK'
  <2>1. /\ \E v \in {None, Removed} : staged' = [staged EXCEPT ![i] = v]
        /\ UNCHANGED <<live, req, drawn>>
    BY <1>2 DEF StageDelete
  <2> QED BY <2>1, NothingOK, KeysOKTables DEF KeysOK
<1>3. ASSUME NEW i \in Id, RevertDraftItem(i) PROVE KeysOK'
  <2>1. staged' = [staged EXCEPT ![i] = None] /\ UNCHANGED <<live, req, drawn>>
    BY <1>3 DEF RevertDraftItem
  <2> QED BY <2>1, NothingOK, KeysOKTables DEF KeysOK
<1>4. ASSUME NEW i \in Id, DeleteItem(i) PROVE KeysOK'
  <2>1. /\ DOMAIN live' = Id /\ UNCHANGED <<staged, req, drawn>>
        /\ \A j \in Id : live'[j] \in {None, live[j]}
    BY <1>4 DEF DeleteItem
  <2> QED BY <2>1, NothingOK, KeysOKTables DEF KeysOK
<1>5. ASSUME NEW c, DiscardDraft(c) PROVE KeysOK'
  <2>1. /\ DOMAIN staged' = Id /\ UNCHANGED <<live, req, drawn>>
        /\ \A j \in Id : staged'[j] \in {None, staged[j]}
    BY <1>5 DEF DiscardDraft
  <2> QED BY <2>1, NothingOK, KeysOKTables DEF KeysOK
<1>6. ASSUME NEW c, PublishDraft(c) PROVE KeysOK'
  <2>1. /\ DOMAIN staged' = Id /\ DOMAIN live' = Id /\ UNCHANGED <<req, drawn>>
        /\ \A j \in Id : staged'[j] \in {None, staged[j]}
        /\ \A j \in Id : live'[j] \in {None, Overlay[j], live[j]}
    BY <1>6 DEF PublishDraft
  <2>2. \A j \in Id : ItemOK(Overlay[j])
    BY OverlayOK
  <2> QED BY <2>1, <2>2, NothingOK, KeysOKTables DEF KeysOK
<1>7. 1 .. drawn \subseteq Id
  BY DEF KeysOK
<1> QED BY <1>1, <1>2, <1>3, <1>4, <1>5, <1>6, <1>7 DEF Edit

LEMMA KeysStep == KeysOK /\ [Next]_vars => KeysOK'
<1> SUFFICES ASSUME KeysOK, [Next]_vars PROVE KeysOK'
  OBVIOUS
<1>1. CASE UNCHANGED vars
  BY <1>1 DEF vars, KeysOK, RequestOK, ItemOK, IsItem
<1>2. CASE Next
  BY <1>2, KeysServe, KeysEdit DEF Next
<1> QED BY <1>1, <1>2

LEMMA KeysOKRoom == KeysOK => AlwaysRoom
<1> SUFFICES ASSUME KeysOK, NEW home \in Home, NEW k \in KeysIn(home)
             PROVE  /\ Precedes(k, After(k))
                    /\ k # <<>> => Precedes(Before(k), k)
                    /\ \A l \in KeysIn(home) :
                          Precedes(k, l) => Precedes(k, Between(k, l)) /\ Precedes(Between(k, l), l)
  BY DEF AlwaysRoom
<1>1. \A l \in KeysIn(home) : l \in GoodKey
  BY DEF KeysIn, Listed, KeysOK, ItemOK
<1>2. k \in Key /\ (k # <<>> => Usable(k))
  BY <1>1 DEF GoodKey
<1>3. <<>> \in Key
  BY DEF Key
<1>4. Precedes(k, After(k))
  BY <1>2, <1>3, RankBetween DEF After
<1>5. k # <<>> => Precedes(Before(k), k)
  BY <1>2, RankBetween
<1>6. ASSUME NEW l \in KeysIn(home), Precedes(k, l)
      PROVE  Precedes(k, Between(k, l)) /\ Precedes(Between(k, l), l)
  <2>1. l \in Key /\ (l # <<>> => Usable(l))
    BY <1>1 DEF GoodKey
  <2>2. l # <<>>
    BY <1>6 DEF Precedes
  <2> QED BY <1>2, <1>6, <2>1, <2>2, RankBetween
<1> QED BY <1>4, <1>5, <1>6

\* "Keys are generated only via Between/First/After/Before ... so there is always room":
\* however imports, additions, moves and saves overlap, and whatever ranks of this kind
\* clients send, no list ever holds two different keys with no key between them.
THEOREM AlwaysRoomAlways == Spec => []AlwaysRoom
<1>1. Spec => []KeysOK
  BY KeysInit, KeysStep, PTL DEF Spec
<1> QED BY <1>1, KeysOKRoom, PTL

-----------------------------------------------------------------------------
(* The order of the keys *)

LEMMA PrecedesTransitive ==
    ASSUME NEW a \in Key, NEW b \in Key, NEW c \in Key, Precedes(a, b), Precedes(b, c)
    PROVE  Precedes(a, c)
<1>1. PICK q \in 1 .. Len(b) : /\ \A i \in 1 .. q - 1 : i <= Len(a) /\ a[i] = b[i]
                               /\ q <= Len(a) => a[q] < b[q]
  BY DEF Precedes
<1>2. PICK r \in 1 .. Len(c) : /\ \A i \in 1 .. r - 1 : i <= Len(b) /\ b[i] = c[i]
                               /\ r <= Len(b) => b[r] < c[r]
  BY DEF Precedes
<1>3. /\ Len(a) \in Nat /\ Len(b) \in Nat /\ Len(c) \in Nat
      /\ \A i \in 1 .. Len(a) : a[i] \in Nat
      /\ \A i \in 1 .. Len(b) : b[i] \in Nat
      /\ \A i \in 1 .. Len(c) : c[i] \in Nat
  BY KeyDigits
<1>4. CASE q <= r
  <2>1. \A i \in 1 .. q - 1 : i <= Len(a) /\ a[i] = c[i]
    BY <1>1, <1>2, <1>3, <1>4
  <2>2. q <= Len(a) => a[q] < c[q]
    <3>1. CASE q < r
      BY <1>1, <1>2, <1>3, <3>1
    <3>2. CASE q = r
      BY <1>1, <1>2, <1>3, <3>2
    <3> QED BY <1>3, <1>4, <3>1, <3>2
  <2>3. q \in 1 .. Len(c)
    BY <1>1, <1>2, <1>3, <1>4
  <2> QED BY <2>1, <2>2, <2>3 DEF Precedes
<1>5. CASE r < q
  <2>1. \A i \in 1 .. r - 1 : i <= Len(a) /\ a[i] = c[i]
    BY <1>1, <1>2, <1>3, <1>5
  <2>2. r \in 1 .. q - 1 /\ r <= Len(b) /\ r \in 1 .. Len(a)
    BY <1>1, <1>2, <1>3, <1>5
  <2>3. a[r] = b[r] /\ b[r] < c[r]
    BY <1>1, <1>2, <2>2
  <2> QED BY <1>2, <2>1, <2>3 DEF Precedes
<1> QED BY <1>1, <1>2, <1>3, <1>4, <1>5

LEMMA PrecedesTotal ==
    ASSUME NEW a \in Key, NEW b \in Key
    PROVE  a = b \/ Precedes(a, b) \/ Precedes(b, a)
<1> DEFINE Same(i) == i <= Len(a) /\ i <= Len(b) /\ a[i] = b[i]
           D == {i \in 1 .. Len(a) + 1 : ~Same(i)}
<1>1. /\ Len(a) \in Nat /\ Len(b) \in Nat
      /\ \A i \in 1 .. Len(a) : a[i] \in Nat
      /\ \A i \in 1 .. Len(b) : b[i] \in Nat
  BY KeyDigits
<1>2. Len(a) + 1 \in D
  BY <1>1
<1>3. PICK r \in D : \A n \in D : r <= n
  <2>1. D \in SUBSET Nat /\ D # {}
    BY <1>1, <1>2
  <2> QED BY <2>1, Least
<1>4. r \in 1 .. Len(a) + 1 /\ ~Same(r) /\ \A i \in 1 .. r - 1 : Same(i)
  BY <1>1, <1>3
<1>5. CASE r <= Len(b)
  <2>1. CASE r <= Len(a)
    <3>1. r \in 1 .. Len(a) /\ r \in 1 .. Len(b) /\ a[r] # b[r]
      BY <1>1, <1>4, <1>5, <2>1
    <3>2. a[r] < b[r] \/ b[r] < a[r]
      BY <1>1, <3>1
    <3> QED BY <1>4, <3>1, <3>2 DEF Precedes
  <2>2. CASE ~(r <= Len(a))
    <3>1. r \in 1 .. Len(b)
      BY <1>1, <1>4, <1>5
    <3> QED BY <1>4, <2>2, <3>1 DEF Precedes
  <2> QED BY <2>1, <2>2
<1>6. CASE ~(r <= Len(b)) /\ r <= Len(a)
  <2>1. r \in 1 .. Len(a)
    BY <1>1, <1>4, <1>6
  <2> QED BY <1>4, <1>6, <2>1 DEF Precedes
<1>7. CASE ~(r <= Len(b)) /\ ~(r <= Len(a))
  <2>1. r = Len(a) + 1
    BY <1>1, <1>4, <1>7
  <2>2. Len(b) = Len(a)
    <3>1. Len(a) > 0 => Same(Len(a))
      BY <1>1, <1>4, <2>1
    <3> QED BY <1>1, <1>7, <2>1, <3>1
  <2>3. \A i \in 1 .. Len(a) : a[i] = b[i]
    BY <1>1, <1>4, <2>1
  <2> QED BY <2>2, <2>3 DEF Key
<1> QED BY <1>5, <1>6, <1>7

LEMMA AfterFollows ==
    ASSUME NEW p \in Key, NEW k \in Key, k = p \/ Precedes(k, p)
    PROVE  Precedes(k, After(p)) /\ After(p) # <<>> /\ After(p) \in Key
<1>1. <<>> \in Key
  BY DEF Key
<1>2. After(p) \in Key /\ Usable(After(p)) /\ Precedes(p, After(p))
  BY <1>1, RankBetween DEF After
<1> QED BY <1>2, PrecedesTransitive DEF Usable

SequenceTo(f) == f = [n \in Nat |-> IF n = 0 THEN <<>> ELSE After(f[n - 1])]

LEMMA SequenceSteps ==
    /\ Sequence \in [Nat -> Key] /\ Sequence[0] = <<>>
    /\ \A n \in Nat : Sequence[n + 1] = After(Sequence[n])
<1> DEFINE F == [n \in Nat |-> [k \in Key |-> After(k)]]
<1>1. <<>> \in Key /\ \A k \in Key : After(k) \in Key
  BY MadeKeysAreGood
<1>2. F \in [Nat -> [Key -> Key]] /\ \A n \in Nat : \A k \in Key : F[n][k] = After(k)
  BY <1>1
<1> HIDE DEF F
<1>g. PICK g : Solves(g, Key, <<>>, F)
  BY <1>1, <1>2, Recursion
<1>3. g \in [Nat -> Key] /\ g[0] = <<>> /\ \A n \in Nat : g[n + 1] = F[n][g[n]]
  BY <1>g DEF Solves
<1>4. \A n \in Nat : g[n] = IF n = 0 THEN <<>> ELSE After(g[n - 1])
  <2> SUFFICES ASSUME NEW n \in Nat, n # 0 PROVE g[n] = After(g[n - 1])
    BY <1>3
  <2>1. PICK m \in Nat : n = m + 1 /\ n - 1 = m
    OBVIOUS
  <2>2. g[m] \in Key /\ g[m + 1] = F[m][g[m]]
    BY <1>3
  <2> QED BY <1>2, <2>1, <2>2
<1>5. g = [n \in Nat |-> IF n = 0 THEN <<>> ELSE After(g[n - 1])]
  BY <1>3, <1>4
<1>6. SequenceTo(g)
  BY <1>5, Zenon DEF SequenceTo
<1>7. SequenceTo(Sequence)
  BY <1>6, Zenon DEF SequenceTo, Sequence
<1>8. /\ DOMAIN Sequence = Nat /\ Sequence = [n \in Nat |-> Sequence[n]]
      /\ \A n \in Nat : Sequence[n] = IF n = 0 THEN <<>> ELSE After(Sequence[n - 1])
  BY <1>7, Zenon DEF SequenceTo
<1>9. Sequence[0] = <<>>
  BY <1>8
<1>10. \A n \in Nat : Sequence[n + 1] = After(Sequence[n])
  <2> TAKE n \in Nat
  <2>1. n + 1 \in Nat /\ n + 1 # 0 /\ (n + 1) - 1 = n
    OBVIOUS
  <2> QED BY <1>8, <2>1
<1>11. \A n \in Nat : Sequence[n] \in Key
  <2> DEFINE S == {n \in Nat : Sequence[n] \in Key}
  <2>1. 0 \in S
    BY <1>1, <1>9
  <2>2. \A n \in Nat : n \in S => n + 1 \in S
    BY <1>1, <1>10
  <2>3. \A n \in Nat : n \in S => Sequence[n] \in Key
    OBVIOUS
  <2> HIDE DEF S
  <2>4. Nat \subseteq S
    BY <2>1, <2>2, Induction
  <2> QED BY <2>3, <2>4
<1> QED BY <1>8, <1>9, <1>10, <1>11

\* rank.go: "Sequence returns n keys in ascending order": however long the list, every
\* key can be used and follows all that were made before it.
THEOREM RankSequence ==
    ASSUME NEW n \in Nat \ {0}
    PROVE  /\ Sequence[n] \in Key /\ Usable(Sequence[n])
           /\ \A m \in 0 .. n - 1 : Precedes(Sequence[m], Sequence[n])
<1> DEFINE S == {k \in Nat : \A m \in 0 .. k - 1 : Precedes(Sequence[m], Sequence[k])}
<1>1. 0 \in S
  OBVIOUS
<1>2. ASSUME NEW k \in Nat, k \in S PROVE k + 1 \in S
  <2>1. Sequence[k] \in Key /\ Sequence[k + 1] \in Key /\ <<>> \in Key
        /\ Sequence[k + 1] = Between(Sequence[k], <<>>)
    BY SequenceSteps, MadeKeysAreGood DEF After
  <2>2. Precedes(Sequence[k], Sequence[k + 1])
    BY <2>1, BetweenAbove
  <2>3. ASSUME NEW m \in 0 .. k PROVE Precedes(Sequence[m], Sequence[k + 1])
    <3>1. CASE m = k
      BY <2>2, <3>1
    <3>2. CASE m # k
      <4>1. m \in 0 .. k - 1 /\ m \in Nat
        BY <3>2
      <4>2. Precedes(Sequence[m], Sequence[k]) /\ Sequence[m] \in Key
        BY <1>2, <4>1, SequenceSteps
      <4> QED BY <2>1, <2>2, <4>2, PrecedesTransitive
    <3> QED BY <3>1, <3>2
  <2> QED BY <2>3
<1>3. \A k \in Nat : k \in S => \A m \in 0 .. k - 1 : Precedes(Sequence[m], Sequence[k])
  OBVIOUS
<1> HIDE DEF S
<1>4. Nat \subseteq S
  BY <1>1, <1>2, Induction
<1>5. PICK k \in Nat : n = k + 1
  <2>1. n - 1 \in Nat /\ n = (n - 1) + 1
    OBVIOUS
  <2> QED BY <2>1
<1>6. Sequence[k] \in Key /\ Sequence[n] = Between(Sequence[k], <<>>) /\ <<>> \in Key
  BY <1>5, SequenceSteps, MadeKeysAreGood DEF After
<1> QED BY <1>3, <1>4, <1>6, BetweenUsable

-----------------------------------------------------------------------------
(* The order of appended items *)

\* Where the owner may come to see item i at rank k: its published row, its staged
\* row, or the row a request that keeps its rank is about to stage.
Version(i, k) ==
    \/ IsItem(live[i]) /\ live[i].key = k
    \/ IsItem(staged[i]) /\ staged[i].key = k
    \/ \E h \in Handler : /\ req[h].pc = "set" /\ req[h].id = i /\ ~req[h].mark
                          /\ req[h].item.key = k

Touched == placed \cup saved

\* Whatever becomes of the items of S, a rank after k follows them.
Behind(S, k) == \A j \in S \ Touched : \A y : Version(j, y) => y = k \/ Precedes(y, k)

Ordering(r) ==
    /\ r.pc \in {"create", "read"} => r.under = {}
    /\ r.pc = "write" => /\ r.after \cup r.under \subseteq 1 .. drawn
                         /\ Behind(r.after, r.prev) /\ Behind(r.under, r.sprev)
    /\ r.pc = "set" => /\ r.id \in 1 .. drawn /\ r.item.key \in Key
                       /\ r.mark => r.item.key # <<>>

Orderings == \A h \in Handler : Ordering(req[h])

Numbered ==
    /\ DOMAIN older = Id
    /\ \A i \in Id : older[i] \subseteq 1 .. drawn
    /\ \A i \in Id \ 1 .. drawn : live[i] = None /\ staged[i] = None

Ranked == \A i \in 1 .. drawn \ saved : ~Version(i, <<>>)

OneKey ==
    \A i \in 1 .. drawn \ Touched : \A x, y : Version(i, x) /\ Version(i, y) => x = y

InOrder ==
    \A i \in 1 .. drawn \ Touched : \A j \in older[i] \ Touched :
        \A x, y : Version(i, x) /\ Version(j, y) => Precedes(y, x)

\* The inductive invariant.
OrderOK == KeysOK /\ Numbered /\ Orderings /\ Ranked /\ OneKey /\ InOrder

LEMMA VersionIsKey ==
    ASSUME KeysOK, Orderings, NEW i \in Id, NEW k, Version(i, k)
    PROVE  k \in Key
BY MadeKeysAreGood DEF Version, KeysOK, ItemOK, Orderings, Ordering

\* What every step leaves of the items there were.
Keeps ==
    /\ placed \subseteq placed' /\ saved \subseteq saved'
    /\ drawn' \in {drawn, drawn + 1}
    /\ \A i \in 1 .. drawn : older'[i] = older[i]
    /\ \A i \in 1 .. drawn : \A k : Version(i, k)' =>
          Version(i, k) \/ i \in saved' \/ (i \in placed' /\ k # <<>>)

\* What it makes of a new one: it follows p, or has a rank of the client's.
Appends(p) ==
    \A n \in 1 .. drawn' \ 1 .. drawn :
        /\ \A k : Version(n, k)' => k # <<>>
        /\ \/ n \in placed'
           \/ /\ older'[n] \subseteq 1 .. drawn /\ Behind(older'[n], p)
              /\ \A k : Version(n, k)' => k = After(p)

LEMMA BehindKept ==
    ASSUME Keeps, NEW S, S \subseteq 1 .. drawn, NEW k, Behind(S, k)
    PROVE  Behind(S, k)'
BY DEF Keeps, Behind, Touched

LEMMA OrderingKept ==
    ASSUME Keeps, drawn \in Nat, NEW h \in Handler, Ordering(req[h]), req'[h] = req[h]
    PROVE  Ordering(req[h])'
<1>1. 1 .. drawn \subseteq 1 .. drawn'
  BY DEF Keeps
<1>2. PICK r : r = req[h]
  OBVIOUS
<1>3. r.pc = "write" => Behind(r.after, r.prev)' /\ Behind(r.under, r.sprev)'
  BY <1>2, BehindKept DEF Ordering
<1>4. Ordering(r)'
  BY <1>1, <1>2, <1>3 DEF Ordering
<1> QED BY <1>2, <1>4

LEMMA RanksKept ==
    ASSUME OrderOK, KeysOK', Numbered', Orderings', Keeps, NEW p \in Key, Appends(p)
    PROVE  OrderOK'
<1>1. /\ drawn \in Nat /\ 1 .. drawn \subseteq Id
      /\ drawn' \in Nat /\ 1 .. drawn' \subseteq Id
      /\ 1 .. drawn \subseteq 1 .. drawn'
  BY DEF OrderOK, KeysOK, Keeps
<1>2. \A i \in 1 .. drawn : \A k : Version(i, k)' => k \in Key
  <2> SUFFICES ASSUME NEW i \in 1 .. drawn, NEW k, Version(i, k)' PROVE k \in Key
    OBVIOUS
  <2>1. i \in Id
    BY <1>1
  <2> QED BY <2>1, MadeKeysAreGood DEF Version, KeysOK, ItemOK, Orderings, Ordering
<1>3. Touched \subseteq Touched'
  BY DEF Keeps, Touched
<1>4. \A i \in 1 .. drawn \ Touched' : \A k : Version(i, k)' => Version(i, k)
  BY DEF Keeps, Touched
<1>5. \A n \in (1 .. drawn' \ 1 .. drawn) \ Touched' :
         /\ older'[n] \subseteq 1 .. drawn /\ Behind(older'[n], p)
         /\ \A k : Version(n, k)' => k = After(p)
  BY DEF Appends, Touched
<1>6. Ranked'
  <2> SUFFICES ASSUME NEW i \in 1 .. drawn' \ saved', Version(i, <<>>)' PROVE FALSE
    BY DEF Ranked
  <2>1. CASE i \in 1 .. drawn
    BY <2>1 DEF Keeps, OrderOK, Ranked
  <2>2. CASE i \notin 1 .. drawn
    BY <2>2 DEF Appends
  <2> QED BY <2>1, <2>2
<1>7. OneKey'
  <2> SUFFICES ASSUME NEW i \in 1 .. drawn' \ Touched', NEW x, NEW y,
                      Version(i, x)', Version(i, y)'
               PROVE  x = y
    BY DEF OneKey
  <2>1. CASE i \in 1 .. drawn
    BY <1>3, <1>4, <2>1 DEF OrderOK, OneKey
  <2>2. CASE i \notin 1 .. drawn
    BY <1>5, <2>2
  <2> QED BY <2>1, <2>2
<1>8. InOrder'
  <2> SUFFICES ASSUME NEW i \in 1 .. drawn' \ Touched', NEW j \in older'[i] \ Touched',
                      NEW x, NEW y, Version(i, x)', Version(j, y)'
               PROVE  Precedes(y, x)
    BY DEF InOrder
  <2>1. CASE i \in 1 .. drawn
    <3>1. j \in older[i] /\ j \in 1 .. drawn
      BY <1>1, <2>1 DEF Keeps, OrderOK, Numbered
    <3>2. Version(i, x) /\ Version(j, y)
      BY <1>4, <2>1, <3>1
    <3> QED BY <1>3, <2>1, <3>1, <3>2 DEF OrderOK, InOrder
  <2>2. CASE i \notin 1 .. drawn
    <3>1. j \in 1 .. drawn /\ Behind(older'[i], p) /\ x = After(p)
      BY <1>5, <2>2
    <3>2. Version(j, y) /\ y \in Key
      BY <1>2, <1>4, <3>1
    <3>3. y = p \/ Precedes(y, p)
      BY <1>3, <3>1, <3>2 DEF Behind
    <3> QED BY <3>1, <3>2, <3>3, AfterFollows
  <2> QED BY <2>1, <2>2
<1> QED BY <1>6, <1>7, <1>8 DEF OrderOK

\* Steps that begin, move on or end a request that is not writing rows.
LEMMA RequestOrder ==
    ASSUME OrderOK, KeysOK', UNCHANGED <<live, staged, drawn, older, placed, saved>>,
           NEW h \in Handler, NEW r, req' = [req EXCEPT ![h] = r], r.pc # "write",
           r.pc \in {"create", "read"} => r.under = {},
           r.pc = "set" => /\ r.id \in 1 .. drawn /\ r.item.key \in Key
                           /\ r.mark => r.item.key # <<>>
                           /\ ~r.mark => \/ Version(r.id, r.item.key) \/ r.id \in saved
                                         \/ r.id \in placed /\ r.item.key # <<>>
    PROVE  OrderOK'
<1>1. DOMAIN req = Handler
  BY DEF OrderOK, KeysOK
<1>2. Keeps
  <2> SUFFICES ASSUME NEW i, NEW k, Version(i, k)'
               PROVE  Version(i, k) \/ i \in saved \/ (i \in placed /\ k # <<>>)
    BY DEF Keeps
  <2>1. CASE \E g \in Handler \ {h} : req'[g].pc = "set" /\ req'[g].id = i /\ ~req'[g].mark
                                      /\ req'[g].item.key = k
    BY <1>1, <2>1 DEF Version
  <2>2. CASE req'[h].pc = "set" /\ req'[h].id = i /\ ~req'[h].mark /\ req'[h].item.key = k
    BY <1>1, <2>2
  <2>3. CASE (IsItem(live[i]) /\ live[i].key = k) \/ (IsItem(staged[i]) /\ staged[i].key = k)
    BY <2>3 DEF Version
  <2> QED BY <2>1, <2>2, <2>3 DEF Version
<1>3. Orderings'
  <2> SUFFICES ASSUME NEW g \in Handler PROVE Ordering(req[g])'
    BY DEF Orderings
  <2>1. CASE g = h
    <3>1. req'[g] = r
      BY <1>1, <2>1
    <3> QED BY <3>1 DEF Ordering
  <2>2. CASE g # h
    BY <1>1, <1>2, <2>2, OrderingKept DEF OrderOK, KeysOK, Orderings
  <2> QED BY <2>1, <2>2
<1>4. Numbered'
  BY DEF OrderOK, Numbered
<1>5. Appends(<<>>) /\ <<>> \in Key
  BY DEF Appends, Key
<1> QED BY <1>2, <1>3, <1>4, <1>5, RanksKept

\* Steps that take rows away or publish them.
LEMMA TableOrder ==
    ASSUME OrderOK, KeysOK', UNCHANGED <<req, drawn, older, placed, saved>>,
           \A i \in Id : /\ live'[i] \in {None, live[i], staged[i]}
                         /\ staged'[i] \in {None, Removed, staged[i]}
                         /\ i \notin 1 .. drawn => staged'[i] = None
    PROVE  OrderOK'
<1>1. drawn \in Nat /\ 1 .. drawn \subseteq Id
  BY DEF OrderOK, KeysOK
<1>2. Keeps
  <2> SUFFICES ASSUME NEW i \in Id, NEW k, Version(i, k)' PROVE Version(i, k)
    BY <1>1 DEF Keeps
  <2>1. CASE IsItem(live'[i]) /\ live'[i].key = k
    BY <2>1 DEF Version, IsItem
  <2>2. CASE IsItem(staged'[i]) /\ staged'[i].key = k
    BY <2>2 DEF Version, IsItem
  <2> QED BY <2>1, <2>2 DEF Version
<1>3. Orderings'
  BY <1>1, <1>2, OrderingKept DEF OrderOK, Orderings
<1>4. Numbered'
  BY DEF OrderOK, Numbered
<1>5. Appends(<<>>) /\ <<>> \in Key
  BY DEF Appends, Key
<1> QED BY <1>2, <1>3, <1>4, <1>5, RanksKept

LEMMA LastRankBehind ==
    ASSUME OrderOK, NEW home, NEW last \in LastRank(home)
    PROVE  /\ last \in Key
           /\ Listed(live, home) \subseteq 1 .. drawn
           /\ Behind(Listed(live, home), last)
<1>1. last \in Key
  BY LastRankGood, MadeKeysAreGood DEF OrderOK
<1>2. Listed(live, home) \subseteq 1 .. drawn
  BY DEF OrderOK, Numbered, Listed, IsItem
<1>3. ASSUME NEW j \in Listed(live, home) \ Touched, NEW y, Version(j, y)
      PROVE  y = last \/ Precedes(y, last)
  <2>1. Version(j, live[j].key) /\ live[j].key = y
    BY <1>2, <1>3 DEF OrderOK, OneKey, Version, Listed
  <2>2. ~Precedes(last, live[j].key)
    BY <1>3 DEF LastRank
  <2>3. y \in Key
    BY <1>3, VersionIsKey DEF OrderOK, Listed
  <2> QED BY <1>1, <2>1, <2>2, <2>3, PrecedesTotal
<1> QED BY <1>1, <1>2, <1>3 DEF Behind

LEMMA OrderSend ==
    ASSUME OrderOK, KeysOK', NEW h \in Handler, Free(h), Send(h)
    PROVE  OrderOK'
<1> DEFINE plain(r) == r.pc \in {"create", "read"} /\ r.under = {}
<1>0. /\ KeysOK /\ drawn \in Nat /\ 1 .. drawn \subseteq Id
      /\ DOMAIN req = Handler
  BY DEF OrderOK, KeysOK
<1>1. ASSUME NEW r, plain(r), Begin(h, r),
             UNCHANGED <<collections, live, staged, drawn, owner, history>>
      PROVE  OrderOK'
  BY <1>1, RequestOrder DEF Begin, history
<1>2. ASSUME NEW channel, NEW batch, NEW draft, NEW c, Import(h, channel, batch, draft, c)
      PROVE  OrderOK'
  <2> DEFINE r == [Appending("read", draft, c, c, AllRows(Built(Parsed(channel, batch))))
                     EXCEPT !.channel = channel, !.batch = batch]
  <2>1. plain(r)
    BY DEF Appending
  <2>2. Begin(h, r) /\ UNCHANGED <<collections, live, staged, drawn, owner, history>>
    BY <1>2 DEF Import
  <2> QED BY <1>1, <2>1, <2>2
<1>3. ASSUME NEW type, NEW draft, NEW c, NEW home, AddItem(h, type, draft, c, home)
      PROVE  OrderOK'
  <2> DEFINE r == Appending("read", draft, c, home, <<type>>)
  <2>1. plain(r)
    BY DEF Appending
  <2>2. Begin(h, r) /\ UNCHANGED <<collections, live, staged, drawn, owner, history>>
    BY <1>3 DEF AddItem
  <2> QED BY <1>1, <2>1, <2>2
<1>4. ASSUME NEW batch, NEW c, Create(h, batch, c)
      PROVE  OrderOK'
  <2> DEFINE r == [Appending("create", FALSE, c, c, AllRows(Parsed("create", batch)))
                     EXCEPT !.channel = "create", !.batch = batch, !.first = TRUE]
  <2>1. plain(r)
    BY DEF Appending
  <2>2. Begin(h, r) /\ UNCHANGED <<collections, live, staged, drawn, owner, history>>
    BY <1>4 DEF Create
  <2> QED BY <1>1, <2>1, <2>2
<1>5. ASSUME NEW k \in Given, NEW c, StageAt(h, k, c)
      PROVE  OrderOK'
  <2> DEFINE n == drawn + 1
             r == Setting(n, [type |-> "card", home |-> c, key |-> k], TRUE)
  <2>1. /\ n \in Id /\ drawn' = n /\ placed' = placed \cup {n}
        /\ req' = [req EXCEPT ![h] = r]
        /\ UNCHANGED <<live, staged, older, saved>>
    BY <1>5 DEF StageAt, Begin
  <2>2. /\ r.pc = "set" /\ r.id = n /\ r.mark = TRUE /\ r.item.key = k
    BY DEF Setting
  <2>3. k \in Key /\ k # <<>>
    BY ItemImportsAssumption DEF Usable
  <2> HIDE DEF r
  <2>4. \A i, x : Version(i, x)' => Version(i, x)
    BY <1>0, <2>1, <2>2 DEF Version
  <2>5. \A x : ~Version(n, x)
    BY <1>0, <2>1 DEF OrderOK, Numbered, Orderings, Ordering, Version, IsItem
  <2>6. Keeps
    BY <2>1, <2>4 DEF Keeps
  <2>7. Appends(<<>>) /\ <<>> \in Key
    BY <1>0, <2>1, <2>4, <2>5 DEF Appends, Key
  <2>8. Numbered'
    BY <1>0, <2>1 DEF OrderOK, Numbered
  <2>9. Orderings'
    <3> SUFFICES ASSUME NEW g \in Handler PROVE Ordering(req[g])'
      BY DEF Orderings
    <3>1. CASE g = h
      <4>1. req'[g] = r
        BY <1>0, <2>1, <3>1
      <4> QED BY <1>0, <2>1, <2>2, <2>3, <4>1 DEF Ordering
    <3>2. CASE g # h
      BY <1>0, <2>1, <2>6, <3>2, OrderingKept DEF OrderOK, Orderings
    <3> QED BY <3>1, <3>2
  <2> QED BY <2>6, <2>7, <2>8, <2>9, RanksKept
<1>6. ASSUME NEW i \in 1 .. drawn, Restage(h, i)
      PROVE  OrderOK'
  <2> DEFINE rk == IF IsItem(live[i]) THEN live[i].key
                   ELSE IF IsItem(staged[i]) THEN staged[i].key ELSE <<>>
  <2>1. PICK k \in IF rk = <<>> THEN {After(last) : last \in LastRank(Overlay[i].home)} ELSE {rk} :
           Begin(h, Setting(i, [Overlay[i] EXCEPT !.key = k], FALSE))
    BY <1>6 DEF Restage
  <2>2. Version(i, rk)
    <3>1. IsItem(live[i]) \/ IsItem(staged[i])
      BY <1>0, <1>6 DEF Restage, Overlay, IsItem
    <3> QED BY <3>1 DEF Version
  <2>3. rk = <<>> => i \in saved
    BY <2>2 DEF OrderOK, Ranked
  <2>4. \A last \in LastRank(Overlay[i].home) : last \in Key
    BY LastRankBehind
  <2> HIDE DEF rk
  <2>5. /\ k \in Key
        /\ k = rk \/ i \in saved
    BY <1>0, <2>1, <2>2, <2>3, <2>4, VersionIsKey, AfterFollows DEF OrderOK
  <2> DEFINE r == Setting(i, [Overlay[i] EXCEPT !.key = k], FALSE)
  <2>6. r.pc = "set" /\ r.id = i /\ r.mark = FALSE /\ r.item.key = k
    <3>1. ItemOK(Overlay[i]) /\ IsItem(Overlay[i])
      BY <1>0, <1>6, OverlayOK DEF Restage
    <3> QED BY <3>1 DEF Setting, ItemOK
  <2>7. req' = [req EXCEPT ![h] = r] /\ UNCHANGED <<live, staged, drawn, older, placed, saved>>
    BY <1>6, <2>1 DEF Begin, Restage, history
  <2> HIDE DEF r
  <2> QED BY <2>2, <2>5, <2>6, <2>7, RequestOrder
<1>7. ASSUME NEW i \in 1 .. drawn, NEW a \in (1 .. drawn) \cup {None},
             NEW b \in (1 .. drawn) \cup {None}, Move(h, i, a, b)
      PROVE  OrderOK'
  <2> DEFINE bound(n) == IF n = None THEN <<>> ELSE RankOf(n)
             it == IF IsItem(staged[i]) THEN staged[i] ELSE live[i]
             k == Between(bound(a), bound(b))
             r == Setting(i, [it EXCEPT !.key = k], TRUE)
  <2>1. \A n \in Id : RankOf(n) \in Key
    BY <1>0, MadeKeysAreGood DEF RankOf, KeysOK, ItemOK
  <2>2. bound(a) \in Key /\ bound(b) \in Key
    BY <1>0, <2>1, MadeKeysAreGood
  <2>3. k \in Key /\ k # <<>>
    BY <2>2, RankBetween DEF Usable
  <2>4. IsItem(it) /\ ItemOK(it)
    BY <1>0, <1>7 DEF Move, KeysOK
  <2>5. /\ req' = [req EXCEPT ![h] = r]
        /\ UNCHANGED <<live, staged, drawn, older, placed, saved>>
    BY <1>7 DEF Move, Begin, history
  <2> HIDE DEF it, k
  <2>6. r.pc = "set" /\ r.id = i /\ r.mark = TRUE /\ r.item.key = k
    BY <2>4 DEF Setting, ItemOK
  <2> HIDE DEF r
  <2> QED BY <2>3, <2>5, <2>6, RequestOrder
<1> QED BY <1>2, <1>3, <1>4, <1>5, <1>6, <1>7 DEF Send

\* The row a request writes follows all it was to be listed after.
LEMMA OrderWrite ==
    ASSUME OrderOK, KeysOK', NEW h \in Handler, WriteRow(h)
    PROVE  OrderOK'
<1>0. PICK n : n = drawn + 1
  OBVIOUS
<1>1. PICK r : r = req[h]
  OBVIOUS
<1>2. PICK item : item = NextItem(r)
  OBVIOUS
<1>3. /\ r.pc = "write" /\ n \in Id /\ drawn' = n
      /\ req' = [req EXCEPT ![h] = Written(r, n, item)]
      /\ older' = [older EXCEPT ![n] = IF Nested(r) THEN r.under ELSE r.after]
      /\ UNCHANGED <<placed, saved>>
      /\ Store(r, n, item)
  BY <1>0, <1>1, <1>2 DEF WriteRow
<1>4. \/ staged' = [staged EXCEPT ![n] = item] /\ UNCHANGED live
      \/ live' = [live EXCEPT ![n] = item] /\ UNCHANGED staged
  BY <1>3 DEF Store
<1>5. /\ KeysOK /\ drawn \in Nat /\ 1 .. drawn \subseteq Id
      /\ DOMAIN req = Handler /\ DOMAIN live = Id /\ DOMAIN staged = Id /\ DOMAIN older = Id
      /\ RequestOK(r) /\ Ordering(r)
      /\ n \notin 1 .. drawn /\ 1 .. n = 1 .. drawn \cup {n}
  BY <1>0, <1>1 DEF OrderOK, KeysOK, Numbered, Orderings
<1>s. PICK S : S = IF Nested(r) THEN r.under ELSE r.after
  OBVIOUS
<1>6. PICK p \in Key : p = IF Nested(r) THEN r.sprev ELSE r.prev
  BY <1>3, <1>5, MadeKeysAreGood DEF RequestOK
<1>7. Behind(S, p) /\ S \subseteq 1 .. drawn /\ item.key = After(p)
  BY <1>2, <1>3, <1>5, <1>6, <1>s DEF Ordering, NextItem
<1>8. older' = [older EXCEPT ![n] = S]
  BY <1>3, <1>s
<1>9. After(p) \in Key /\ After(p) # <<>>
  BY AfterFollows
<1>10. PICK s : s = Written(r, n, item)
  OBVIOUS
<1>11. s.pc # "set"
  BY <1>3, <1>5, <1>10 DEF Written, Idle, RequestOK
<1>12. \A i \in Id : \A k : Version(i, k)' => Version(i, k) \/ (i = n /\ k = After(p))
  <2> SUFFICES ASSUME NEW i \in Id, NEW k, Version(i, k)', i # n \/ k # After(p)
               PROVE  Version(i, k)
    OBVIOUS
  <2>1. CASE IsItem(live'[i]) /\ live'[i].key = k
    BY <1>4, <1>5, <1>7, <1>3, <2>1 DEF Version
  <2>2. CASE IsItem(staged'[i]) /\ staged'[i].key = k
    BY <1>4, <1>5, <1>7, <1>3, <2>2 DEF Version
  <2>3. ASSUME NEW g \in Handler, req'[g].pc = "set", req'[g].id = i, ~req'[g].mark,
               req'[g].item.key = k
        PROVE  Version(i, k)
    <3>1. req'[g] = req[g]
      BY <1>3, <1>5, <1>10, <1>11, <2>3
    <3> QED BY <2>3, <3>1 DEF Version
  <2> QED BY <2>1, <2>2, <2>3 DEF Version
<1>13. \A k : ~Version(n, k)
  BY <1>3, <1>5 DEF OrderOK, Numbered, Orderings, Ordering, Version, IsItem
<1>14. Keeps
  BY <1>0, <1>3, <1>5, <1>8, <1>12 DEF Keeps
<1>15. Appends(p)
  <2>1. older'[n] = S
    BY <1>3, <1>5, <1>8
  <2>2. \A k : Version(n, k)' => k = After(p)
    BY <1>3, <1>12, <1>13
  <2> QED BY <1>3, <1>5, <1>7, <1>9, <2>1, <2>2 DEF Appends
<1>16. Numbered'
  <2>1. drawn' = n /\ n \in Id
    BY <1>3
  <2>2. DOMAIN older' = Id /\ \A i \in Id : older'[i] \subseteq 1 .. drawn
    BY <1>5, <1>7, <1>8, <2>1 DEF OrderOK, Numbered
  <2>3. \A i \in Id \ 1 .. n : live'[i] = None /\ staged'[i] = None
    BY <1>4, <1>5 DEF OrderOK, Numbered
  <2> QED BY <1>5, <2>1, <2>2, <2>3 DEF Numbered
<1>17. /\ Behind(S, p)'
       /\ Behind(r.after, r.prev)'
  BY <1>3, <1>5, <1>7, <1>14, BehindKept DEF Ordering
<1>18. Behind(S \cup {n}, After(p))'
  <2>0. ASSUME NEW j \in (S \cup {n}) \ Touched', NEW y, Version(j, y)'
        PROVE  y = After(p) \/ Precedes(y, After(p))
    <3>1. CASE j = n
      BY <2>0, <1>3, <1>12, <1>13, <3>1
    <3>2. CASE j # n
      <4>1. y = p \/ Precedes(y, p)
        BY <2>0, <1>17, <3>2 DEF Behind
      <4>2. y \in Key
        BY <2>0, <1>5, <1>7, <1>12, <3>2, VersionIsKey DEF OrderOK
      <4> QED BY <4>1, <4>2, AfterFollows
    <3> QED BY <2>0, <3>1, <3>2
  <2>1. \A j \in (S \cup {n}) \ Touched' : \A y : Version(j, y)' =>
           y = After(p) \/ Precedes(y, After(p))
    BY <2>0
  <2> QED BY <2>1 DEF Behind
<1>19. Behind({}, <<>>)'
  BY DEF Behind
<1>20. Ordering(s)'
  <2> DEFINE a == [r EXCEPT !.rows = Tail(@), !.sprev = item.key, !.under = @ \cup {n}]
             b == [r EXCEPT !.rows = Tail(@), !.prev = item.key, !.sprev = <<>>, !.parent = n,
                            !.after = @ \cup {n}, !.under = {}]
  <2>1. Nested(r) => /\ a.pc = "write" /\ a.after = r.after /\ a.prev = r.prev
                     /\ a.under = S \cup {n} /\ a.sprev = After(p)
    BY <1>3, <1>5, <1>6, <1>7, <1>s DEF RequestOK
  <2>2. ~Nested(r) => /\ b.pc = "write" /\ b.after = S \cup {n} /\ b.prev = After(p)
                      /\ b.under = {} /\ b.sprev = <<>>
    BY <1>3, <1>5, <1>6, <1>7, <1>s DEF RequestOK
  <2>3. \/ s = Idle
        \/ Nested(r) /\ s = a
        \/ ~Nested(r) /\ s = b
    BY <1>10 DEF Written
  <2> HIDE DEF a, b
  <2>4. r.after \cup r.under \cup S \cup {n} \subseteq 1 .. drawn'
    BY <1>3, <1>5, <1>7 DEF Ordering
  <2>5. CASE s = Idle
    BY <2>5 DEF Ordering, Idle
  <2>6. CASE Nested(r) /\ s = a
    BY <1>17, <1>18, <2>1, <2>4, <2>6 DEF Ordering
  <2>7. CASE ~Nested(r) /\ s = b
    BY <1>18, <1>19, <2>2, <2>4, <2>7 DEF Ordering
  <2> QED BY <2>3, <2>5, <2>6, <2>7
<1>21. Orderings'
  <2> SUFFICES ASSUME NEW g \in Handler PROVE Ordering(req[g])'
    BY DEF Orderings
  <2>1. CASE g = h
    <3>1. req'[g] = s
      BY <1>3, <1>5, <1>10, <2>1
    <3> QED BY <1>20, <3>1 DEF Ordering
  <2>2. CASE g # h
    BY <1>3, <1>5, <1>14, <2>2, OrderingKept DEF OrderOK, Orderings
  <2> QED BY <2>1, <2>2
<1> QED BY <1>14, <1>15, <1>16, <1>21, RanksKept

LEMMA OrderServe ==
    ASSUME OrderOK, KeysOK', NEW h \in Handler, Serve(h)
    PROVE  OrderOK'
<1>0. PICK r : r = req[h]
  OBVIOUS
<1>k. /\ KeysOK /\ drawn \in Nat /\ 1 .. drawn \subseteq Id
      /\ DOMAIN req = Handler /\ DOMAIN staged = Id
      /\ RequestOK(r) /\ Ordering(r)
  BY <1>0 DEF OrderOK, KeysOK, Orderings
<1>i. Idle.pc = "idle"
  BY DEF Idle
<1>1. CASE Free(h) /\ Send(h)
  BY <1>1, OrderSend
<1>2. CASE CreateCollection(h)
  <2> DEFINE s == [r EXCEPT !.pc = "read"]
  <2>1. s.pc = "read" /\ s.under = {}
    BY <1>0, <1>2, <1>k DEF CreateCollection, RequestOK, Ordering
  <2>2. req' = [req EXCEPT ![h] = Idle] \/ req' = [req EXCEPT ![h] = s]
    BY <1>0, <1>2 DEF CreateCollection
  <2>3. UNCHANGED <<live, staged, drawn, older, placed, saved>>
    BY <1>2 DEF CreateCollection
  <2> HIDE DEF s
  <2> QED BY <1>i, <2>1, <2>2, <2>3, RequestOrder
<1>3. CASE ReadLast(h)
  <2>1. PICK last \in LastRank(r.home) :
           req' = [req EXCEPT ![h].pc = "write", ![h].prev = last,
                              ![h].after = Listed(live, req[h].home)]
    BY <1>0, <1>3 DEF ReadLast
  <2>2. PICK S : S = Listed(live, r.home)
    OBVIOUS
  <2>3. PICK s : s = [r EXCEPT !.pc = "write", !.prev = last, !.after = S]
    OBVIOUS
  <2>4. req' = [req EXCEPT ![h] = s]
    BY <1>0, <2>1, <2>2, <2>3
  <2>5. UNCHANGED <<live, staged, drawn, older, placed, saved>>
    BY <1>3 DEF ReadLast, history
  <2>6. s.pc = "write" /\ s.after = S /\ s.prev = last /\ s.under = {}
    BY <1>0, <1>3, <1>k, <2>3 DEF ReadLast, RequestOK, Ordering
  <2>7. S \subseteq 1 .. drawn /\ Behind(S, last)
    BY <2>2, LastRankBehind
  <2>8. \A i, k : Version(i, k)' => Version(i, k)
    BY <1>k, <2>4, <2>5, <2>6 DEF Version
  <2>9. Keeps
    BY <2>5, <2>8 DEF Keeps
  <2>10. Numbered'
    BY <2>5 DEF OrderOK, Numbered
  <2>11. Orderings'
    <3> SUFFICES ASSUME NEW g \in Handler PROVE Ordering(req[g])'
      BY DEF Orderings
    <3>1. CASE g = h
      <4>1. Behind(S, last)' /\ Behind({}, s.sprev)'
        BY <2>7, <2>9, BehindKept DEF Behind
      <4>2. Ordering(s)'
        BY <2>5, <2>6, <2>7, <4>1 DEF Ordering
      <4>3. req'[g] = s
        BY <1>k, <2>4, <3>1
      <4> QED BY <4>2, <4>3 DEF Ordering
    <3>2. CASE g # h
      BY <1>k, <2>4, <2>9, <3>2, OrderingKept DEF OrderOK, Orderings
    <3> QED BY <3>1, <3>2
  <2>12. Appends(<<>>) /\ <<>> \in Key
    BY <2>5 DEF Appends, Key
  <2> QED BY <2>9, <2>10, <2>11, <2>12, RanksKept
<1>4. CASE WriteRow(h)
  BY <1>4, OrderWrite
<1>5. CASE Abort(h)
  BY <1>5, <1>i, RequestOrder DEF Abort
<1>6. CASE Set(h)
  <2>1. /\ r.pc = "set"
        /\ staged' = [staged EXCEPT ![r.id] = r.item]
        /\ placed' = IF r.mark THEN placed \cup {r.id} ELSE placed
        /\ req' = [req EXCEPT ![h] = Idle]
        /\ UNCHANGED <<live, drawn, older, saved>>
    BY <1>0, <1>6 DEF Set
  <2>2. r.id \in 1 .. drawn /\ r.item.key \in Key /\ (r.mark => r.item.key # <<>>)
    BY <1>k, <2>1 DEF Ordering
  <2>3. ~r.mark => Version(r.id, r.item.key)
    BY <1>0, <2>1 DEF Version
  <2>4. \A i \in Id : \A k : Version(i, k)' => Version(i, k) \/ (i = r.id /\ k = r.item.key)
    <3> SUFFICES ASSUME NEW i \in Id, NEW k, Version(i, k)', i # r.id \/ k # r.item.key
                 PROVE  Version(i, k)
      OBVIOUS
    <3>1. CASE IsItem(live'[i]) /\ live'[i].key = k
      BY <2>1, <3>1 DEF Version
    <3>2. CASE IsItem(staged'[i]) /\ staged'[i].key = k
      BY <1>k, <2>1, <3>2 DEF Version
    <3>3. ASSUME NEW g \in Handler, req'[g].pc = "set", req'[g].id = i, ~req'[g].mark,
                 req'[g].item.key = k
          PROVE  Version(i, k)
      <4>1. req'[g] = req[g]
        BY <1>i, <1>k, <2>1, <3>3
      <4> QED BY <3>3, <4>1 DEF Version
    <3> QED BY <3>1, <3>2, <3>3 DEF Version
  <2>5. Keeps
    BY <1>k, <2>1, <2>2, <2>3, <2>4 DEF Keeps
  <2>6. Numbered'
    BY <1>k, <2>1, <2>2 DEF OrderOK, Numbered
  <2>7. Orderings'
    <3> SUFFICES ASSUME NEW g \in Handler PROVE Ordering(req[g])'
      BY DEF Orderings
    <3>1. CASE g = h
      <4>1. req'[g].pc = "idle"
        BY <1>i, <1>k, <2>1, <3>1
      <4> QED BY <4>1 DEF Ordering
    <3>2. CASE g # h
      BY <1>k, <2>1, <2>5, <3>2, OrderingKept DEF OrderOK, Orderings
    <3> QED BY <3>1, <3>2
  <2>8. Appends(<<>>) /\ <<>> \in Key
    BY <2>1 DEF Appends, Key
  <2> QED BY <2>5, <2>6, <2>7, <2>8, RanksKept
<1> QED BY <1>1, <1>2, <1>3, <1>4, <1>5, <1>6 DEF Serve

LEMMA OrderSave ==
    ASSUME OrderOK, KeysOK', NEW c, NEW keep \in SUBSET Listed(Overlay, c), NEW more,
           UpdateDraft(c, keep, more)
    PROVE  OrderOK'
<1>0. PICK n : n = drawn + 1
  OBVIOUS
<1>1. /\ KeysOK /\ drawn \in Nat /\ 1 .. drawn \subseteq Id
      /\ DOMAIN older = Id
      /\ n \notin 1 .. drawn /\ 1 .. n = 1 .. drawn \cup {n}
  BY <1>0 DEF OrderOK, KeysOK, Numbered
<1> DEFINE cards(table) == {i \in Listed(table, c) : table[i].type = "card"}
           row(k) == [type |-> "card", home |-> c, key |-> k]
<1>2. PICK new : new = IF more THEN {n} ELSE {}
  OBVIOUS
<1>3. PICK last \in LastRank(c) :
        staged' = [i \in Id |->
            IF i \in keep THEN row(IF i \in cards(live) THEN live[i].key ELSE <<>>)
            ELSE IF i \in new THEN row(After(last))
            ELSE IF i \in cards(live) THEN Removed
            ELSE IF owner[i] = c THEN None ELSE staged[i]]
  BY <1>0, <1>2 DEF UpdateDraft
<1>4. /\ new \subseteq Id
      /\ drawn' = IF more THEN n ELSE drawn
      /\ saved' = saved \cup (keep \ cards(live))
      /\ older' = [i \in Id |-> IF i \in new THEN Listed(live, c) ELSE older[i]]
      /\ UNCHANGED <<live, req, placed>>
  BY <1>0, <1>2 DEF UpdateDraft
<1>5. /\ last \in Key
      /\ Listed(live, c) \subseteq 1 .. drawn
      /\ Behind(Listed(live, c), last)
      /\ After(last) # <<>>
  BY LastRankBehind, AfterFollows
<1>6. keep \subseteq 1 .. drawn
  BY <1>1 DEF OrderOK, Numbered, Listed, Overlay, IsItem
<1>7. \A i \in Id : cards(live) \subseteq 1 .. drawn /\ (i \in cards(live) => Version(i, live[i].key))
  BY <1>5 DEF Version, Listed
<1>8. \A k : row(k).key = k
  OBVIOUS
<1>9. \A i \in Id : \/ /\ i \in keep /\ i \in cards(live) /\ staged'[i] = row(live[i].key)
                    \/ i \in keep /\ i \in saved'
                    \/ i \in new /\ staged'[i] = row(After(last))
                    \/ i \notin keep \cup new /\ i \in cards(live) /\ staged'[i] = Removed
                    \/ i \notin keep \cup new /\ staged'[i] \in {None, staged[i]}
  BY <1>3, <1>4
<1> HIDE DEF row, cards
<1>10. \A i \in Id : \A k : Version(i, k)' =>
          Version(i, k) \/ i \in saved' \/ (i \in new /\ k = After(last))
  <2> SUFFICES ASSUME NEW i \in Id, NEW k, Version(i, k)'
               PROVE  Version(i, k) \/ i \in saved' \/ (i \in new /\ k = After(last))
    OBVIOUS
  <2>1. CASE IsItem(live'[i]) /\ live'[i].key = k
    BY <1>4, <2>1 DEF Version
  <2>2. CASE IsItem(staged'[i]) /\ staged'[i].key = k
    BY <1>7, <1>8, <1>9, <2>2 DEF Version, IsItem
  <2>3. CASE \E g \in Handler : /\ req'[g].pc = "set" /\ req'[g].id = i /\ ~req'[g].mark
                                /\ req'[g].item.key = k
    BY <1>4, <2>3 DEF Version
  <2> QED BY <2>1, <2>2, <2>3 DEF Version
<1>11. \A k : ~Version(n, k) \/ n \notin Id
  BY <1>1 DEF OrderOK, Numbered, Orderings, Ordering, Version, IsItem
<1>12. Keeps
  BY <1>0, <1>1, <1>2, <1>4, <1>10 DEF Keeps
<1>13. Appends(last)
  <2>1. CASE more
    <3>1. new = {n} /\ n \in Id /\ drawn' = n
      BY <1>2, <1>4, <2>1
    <3>2. older'[n] = Listed(live, c)
      BY <1>4, <3>1
    <3>3. IsItem(staged'[n]) => staged'[n].key = After(last)
      BY <1>1, <1>6, <1>8, <1>9, <3>1 DEF IsItem
    <3>4. \A k : Version(n, k)' => k = After(last)
      BY <1>4, <1>11, <3>1, <3>3 DEF Version
    <3> QED BY <1>1, <1>5, <3>1, <3>2, <3>4 DEF Appends
  <2>2. CASE ~more
    BY <1>4, <2>2 DEF Appends
  <2> QED BY <2>1, <2>2
<1>14. Numbered'
  <2>1. 1 .. drawn' = 1 .. drawn \cup new
    BY <1>1, <1>2, <1>4
  <2>2. DOMAIN older' = Id /\ \A i \in Id : older'[i] \subseteq 1 .. drawn
    BY <1>4, <1>5 DEF OrderOK, Numbered
  <2>3. \A i \in Id \ (1 .. drawn \cup new) : live'[i] = None /\ staged'[i] = None
    BY <1>4, <1>6, <1>7, <1>9 DEF OrderOK, Numbered
  <2> QED BY <2>1, <2>2, <2>3 DEF Numbered
<1>15. Orderings'
  BY <1>1, <1>4, <1>12, OrderingKept DEF OrderOK, Orderings
<1> QED BY <1>5, <1>12, <1>13, <1>14, <1>15, RanksKept

LEMMA OrderEdit ==
    ASSUME OrderOK, KeysOK', Edit
    PROVE  OrderOK'
<1>0. /\ 1 .. drawn \subseteq Id /\ DOMAIN live = Id /\ DOMAIN staged = Id
      /\ \A i \in Id \ 1 .. drawn : live[i] = None /\ staged[i] = None
  BY DEF OrderOK, KeysOK, Numbered
<1>1. ASSUME NEW c, NEW keep \in SUBSET Listed(Overlay, c), NEW more, UpdateDraft(c, keep, more)
      PROVE  OrderOK'
  BY <1>1, OrderSave
<1>2. ASSUME NEW i \in 1 .. drawn, StageDelete(i) PROVE OrderOK'
  <2>1. /\ \E v \in {None, Removed} : staged' = [staged EXCEPT ![i] = v]
        /\ UNCHANGED <<live, req, drawn, older, placed, saved>>
    BY <1>2 DEF StageDelete, history
  <2> QED BY <1>0, <2>1, TableOrder
<1>3. ASSUME NEW i \in 1 .. drawn, RevertDraftItem(i) PROVE OrderOK'
  <2>1. /\ staged' = [staged EXCEPT ![i] = None]
        /\ UNCHANGED <<live, req, drawn, older, placed, saved>>
    BY <1>3 DEF RevertDraftItem, history
  <2> QED BY <1>0, <2>1, TableOrder
<1>4. ASSUME NEW i \in 1 .. drawn, DeleteItem(i) PROVE OrderOK'
  <2>1. /\ \A j \in Id : live'[j] \in {None, live[j]}
        /\ UNCHANGED <<staged, req, drawn, older, placed, saved>>
    BY <1>4 DEF DeleteItem, history
  <2> QED BY <1>0, <2>1, TableOrder
<1>5. ASSUME NEW c, DiscardDraft(c) PROVE OrderOK'
  <2>1. /\ \A j \in Id : staged'[j] \in {None, staged[j]}
        /\ UNCHANGED <<live, req, drawn, older, placed, saved>>
    BY <1>5 DEF DiscardDraft, history
  <2> QED BY <1>0, <2>1, TableOrder
<1>6. ASSUME NEW c, PublishDraft(c) PROVE OrderOK'
  <2>1. /\ \A j \in Id : staged'[j] \in {None, staged[j]}
        /\ \A j \in Id : live'[j] \in {None, Overlay[j], live[j]}
        /\ UNCHANGED <<req, drawn, older, placed, saved>>
    BY <1>6 DEF PublishDraft, history
  <2>2. \A j \in Id : Overlay[j] \in {None, live[j], staged[j]}
    BY DEF Overlay
  <2> QED BY <1>0, <2>1, <2>2, TableOrder
<1> QED BY <1>1, <1>2, <1>3, <1>4, <1>5, <1>6 DEF Edit

LEMMA OrderStep == OrderOK /\ [Next]_vars => OrderOK'
<1> SUFFICES ASSUME OrderOK, [Next]_vars PROVE OrderOK'
  OBVIOUS
<1>1. KeysOK'
  BY KeysStep DEF OrderOK
<1>2. CASE UNCHANGED vars
  <2>1. UNCHANGED <<live, staged, drawn, req, older, placed, saved>>
    BY <1>2 DEF vars
  <2>2. \A i \in Id : /\ live'[i] \in {None, live[i], staged[i]}
                      /\ staged'[i] \in {None, Removed, staged[i]}
                      /\ i \notin 1 .. drawn => staged'[i] = None
    BY <2>1 DEF OrderOK, Numbered
  <2> QED BY <1>1, <2>1, <2>2, TableOrder
<1>3. CASE Next
  BY <1>1, <1>3, OrderServe, OrderEdit DEF Next
<1> QED BY <1>2, <1>3

LEMMA OrderInit == Init => OrderOK
<1> SUFFICES ASSUME Init PROVE OrderOK
  OBVIOUS
<1>1. KeysOK
  BY KeysInit
<1>2. \A h \in Handler : req[h].pc = "idle"
  BY DEF Init, Idle
<1>3. \A i \in Id : \A k : ~Version(i, k)
  BY <1>2 DEF Init, Version, IsItem
<1>4. Numbered /\ Orderings
  BY <1>2 DEF Init, Numbered, Orderings, Ordering
<1>5. \A i \in 1 .. drawn : FALSE
  BY DEF Init
<1> QED BY <1>1, <1>4, <1>5 DEF OrderOK, Ranked, OneKey, InOrder

\* "Appended at the end": however requests overlap, an item is listed after those of its
\* file that came before it and after all that were published when its request read the
\* last rank, until a client moves or re-saves one of the two.
THEOREM AppendedInOrderAlways == Spec => []AppendedInOrder
<1>1. OrderOK => AppendedInOrder
  <2> SUFFICES ASSUME OrderOK, NEW i \in Id, IsItem(Overlay[i])
               PROVE  /\ Overlay[i].key = <<>> => i \in saved
                      /\ \A j \in older[i] :
                            IsItem(Overlay[j]) /\ {i, j} \cap (placed \cup saved) = {} =>
                                Precedes(Overlay[j].key, Overlay[i].key)
    BY DEF AppendedInOrder
  <2>1. \A j \in Id : IsItem(Overlay[j]) => j \in 1 .. drawn /\ Version(j, Overlay[j].key)
    BY DEF OrderOK, Numbered, Overlay, IsItem, Version
  <2>2. older[i] \subseteq 1 .. drawn /\ 1 .. drawn \subseteq Id
    BY DEF OrderOK, Numbered, KeysOK
  <2>3. Overlay[i].key = <<>> => i \in saved
    BY <2>1 DEF OrderOK, Ranked
  <2>4. ASSUME NEW j \in older[i], IsItem(Overlay[j]), {i, j} \cap (placed \cup saved) = {}
        PROVE  Precedes(Overlay[j].key, Overlay[i].key)
    BY <2>1, <2>2, <2>4 DEF OrderOK, InOrder, Touched
  <2> QED BY <2>3, <2>4
<1> QED BY <1>1, OrderInit, OrderStep, PTL DEF Spec

-----------------------------------------------------------------------------
(* What create_collection leaves behind *)

Importing(r, c) == r.pc \in {"read", "write"} /\ r.first /\ r.in = c

Creating(r) ==
    /\ r.pc = "create" => r.first
    /\ r.pc \in {"create", "read", "write"} /\ r.first => r.in \in Collection

\* The inductive invariant.
CreatedOK ==
    /\ KeysOK
    /\ DOMAIN outcome = Collection
    /\ \A h \in Handler : Creating(req[h])
    /\ BadBatchLeavesNothing

\* A step of one request keeps it, if what the request was importing is accounted for.
LEMMA CreatedKept ==
    ASSUME CreatedOK, KeysOK', NEW h \in Handler, NEW r, Creating(r),
           req' = [req EXCEPT ![h] = r], DOMAIN outcome' = Collection,
           \A c \in collections : outcome[c] # "none" => outcome'[c] # "none",
           \A c : Importing(req[h], c) => outcome'[c] # "none" \/ Importing(r, c),
           \A c \in collections' \ collections : outcome'[c] # "none" \/ Importing(r, c)
    PROVE  CreatedOK'
<1>1. DOMAIN req = Handler
  BY DEF CreatedOK, KeysOK
<1>2. \A g \in Handler : req'[g] = IF g = h THEN r ELSE req[g]
  BY <1>1
<1>3. \A g \in Handler : Creating(req'[g])
  BY <1>2 DEF CreatedOK
<1>4. BadBatchLeavesNothing'
  <2> SUFFICES ASSUME NEW c \in collections' \ InitCollections, outcome'[c] = "none"
               PROVE  \E g \in Handler : Importing(req'[g], c)
    BY DEF BadBatchLeavesNothing, Importing
  <2>1. CASE c \in collections
    <3>1. PICK g \in Handler : Importing(req[g], c)
      BY <2>1 DEF CreatedOK, BadBatchLeavesNothing, Importing
    <3> QED BY <1>2, <3>1
  <2>2. CASE c \notin collections
    BY <1>2, <2>2
  <2> QED BY <2>1, <2>2
<1> QED BY <1>3, <1>4 DEF CreatedOK, Creating

LEMMA CreatedSend ==
    ASSUME CreatedOK, KeysOK', NEW h \in Handler, Free(h), Send(h)
    PROVE  CreatedOK'
<1>0. \A c : ~Importing(req[h], c)
  BY DEF Free, Importing
<1>1. ASSUME NEW r, Begin(h, r), Creating(r), UNCHANGED <<collections, outcome>>
      PROVE  CreatedOK'
  BY <1>0, <1>1, CreatedKept DEF Begin, CreatedOK
<1>2. ASSUME NEW channel, NEW batch, NEW draft, NEW c, Import(h, channel, batch, draft, c)
      PROVE  CreatedOK'
  <2> DEFINE r == [Appending("read", draft, c, c, AllRows(Built(Parsed(channel, batch))))
                     EXCEPT !.channel = channel, !.batch = batch]
  <2>1. Creating(r)
    BY DEF Appending, Creating
  <2> QED BY <1>1, <1>2, <2>1 DEF Import, history
<1>3. ASSUME NEW type, NEW draft, NEW c, NEW home, AddItem(h, type, draft, c, home)
      PROVE  CreatedOK'
  <2>1. Creating(Appending("read", draft, c, home, <<type>>))
    BY DEF Appending, Creating
  <2> QED BY <1>1, <1>3, <2>1 DEF AddItem, history
<1>4. ASSUME NEW batch, NEW c \in Collection, Create(h, batch, c)
      PROVE  CreatedOK'
  <2> DEFINE r == [Appending("create", FALSE, c, c, AllRows(Parsed("create", batch)))
                     EXCEPT !.channel = "create", !.batch = batch, !.first = TRUE]
  <2>1. Creating(r)
    BY DEF Appending, Creating
  <2> QED BY <1>1, <1>4, <2>1 DEF Create, history
<1>s. \A i, item, mark : Creating(Setting(i, item, mark))
  BY DEF Creating, Setting
<1>5. ASSUME NEW k, NEW c, StageAt(h, k, c) PROVE CreatedOK'
  BY <1>1, <1>5, <1>s DEF StageAt
<1>6. ASSUME NEW i, Restage(h, i) PROVE CreatedOK'
  BY <1>1, <1>6, <1>s DEF Restage, history
<1>7. ASSUME NEW i, NEW a, NEW b, Move(h, i, a, b) PROVE CreatedOK'
  BY <1>1, <1>7, <1>s DEF Move, history
<1> QED BY <1>2, <1>3, <1>4, <1>5, <1>6, <1>7 DEF Send

LEMMA CreatedServe ==
    ASSUME CreatedOK, KeysOK', NEW h \in Handler, Serve(h)
    PROVE  CreatedOK'
<1>0. PICK r : r = req[h]
  OBVIOUS
<1>k. RequestOK(r) /\ Creating(r) /\ DOMAIN outcome = Collection
  BY <1>0 DEF CreatedOK, KeysOK
<1>i. Creating(Idle)
  BY DEF Creating, Idle
<1>1. CASE Free(h) /\ Send(h)
  BY <1>1, CreatedSend
<1>2. CASE CreateCollection(h)
  <2> DEFINE s == [r EXCEPT !.pc = "read"]
  <2>1. /\ r.pc = "create" /\ r.first /\ r.in \in Collection
        /\ collections' = collections \cup {r.in}
    BY <1>0, <1>2, <1>k DEF CreateCollection, Creating
  <2>2. s.pc = "read" /\ s.first = r.first /\ s.in = r.in
    BY <1>k, <2>1 DEF RequestOK
  <2>3. \/ req' = [req EXCEPT ![h] = Idle] /\ outcome' = [outcome EXCEPT ![r.in] = "done"]
        \/ req' = [req EXCEPT ![h] = s] /\ outcome' = outcome
    BY <1>0, <1>2 DEF CreateCollection
  <2>4. \A c : ~Importing(req[h], c)
    BY <1>0, <2>1 DEF Importing
  <2> HIDE DEF s
  <2>5. CASE req' = [req EXCEPT ![h] = Idle] /\ outcome' = [outcome EXCEPT ![r.in] = "done"]
    <3>1. DOMAIN outcome' = Collection /\ outcome'[r.in] = "done"
      BY <1>k, <2>1, <2>5
    <3>2. \A c \in collections : outcome[c] # "none" => outcome'[c] # "none"
      BY <1>k, <2>1, <2>5
    <3> QED BY <1>i, <2>1, <2>4, <2>5, <3>1, <3>2, CreatedKept
  <2>6. CASE req' = [req EXCEPT ![h] = s] /\ outcome' = outcome
    <3>1. Creating(s) /\ Importing(s, r.in)
      BY <2>1, <2>2 DEF Creating, Importing
    <3> QED BY <1>k, <2>1, <2>4, <2>6, <3>1, CreatedKept
  <2> QED BY <2>3, <2>5, <2>6
<1>3. CASE ReadLast(h)
  <2>1. PICK last : req' = [req EXCEPT ![h].pc = "write", ![h].prev = last,
                                       ![h].after = Listed(live, req[h].home)]
    BY <1>3 DEF ReadLast
  <2>2. PICK s : s = [r EXCEPT !.pc = "write", !.prev = last, !.after = Listed(live, r.home)]
    OBVIOUS
  <2>3. req' = [req EXCEPT ![h] = s] /\ UNCHANGED <<collections, outcome>>
    BY <1>0, <1>3, <2>1, <2>2 DEF ReadLast, history
  <2>4. r.pc = "read" /\ s.pc = "write" /\ s.first = r.first /\ s.in = r.in
    BY <1>0, <1>3, <1>k, <2>2 DEF ReadLast, RequestOK
  <2>5. Creating(s) /\ \A c : Importing(r, c) => Importing(s, c)
    BY <1>k, <2>4 DEF Creating, Importing
  <2> QED BY <1>0, <1>k, <2>3, <2>5, CreatedKept
<1>4. CASE WriteRow(h)
  <2>1. PICK n, item : /\ r.pc = "write"
                       /\ req' = [req EXCEPT ![h] = Written(r, n, item)]
                       /\ UNCHANGED collections
                       /\ outcome' = IF r.first /\ Len(r.rows) = 1
                                     THEN [outcome EXCEPT ![r.in] = "done"] ELSE outcome
    BY <1>0, <1>4 DEF WriteRow
  <2>2. PICK s : s = Written(r, n, item)
    OBVIOUS
  <2>3. /\ Len(r.rows) = 1 => s = Idle
        /\ Len(r.rows) # 1 => s.pc = "write" /\ s.first = r.first /\ s.in = r.in
    BY <1>k, <2>1, <2>2 DEF Written, RequestOK
  <2>4. /\ DOMAIN outcome' = Collection
        /\ \A c \in collections : outcome[c] # "none" => outcome'[c] # "none"
        /\ r.first /\ Len(r.rows) = 1 => outcome'[r.in] = "done"
    BY <1>k, <2>1 DEF Creating
  <2>5. Creating(s) /\ \A c : Importing(r, c) => outcome'[c] # "none" \/ Importing(s, c)
    BY <1>i, <1>k, <2>1, <2>3, <2>4 DEF Creating, Importing
  <2> QED BY <1>0, <2>1, <2>2, <2>4, <2>5, CreatedKept
<1>5. CASE Abort(h)
  <2>1. /\ req' = [req EXCEPT ![h] = Idle] /\ UNCHANGED collections
        /\ outcome' = IF r.pc \in {"read", "write"} /\ r.first
                      THEN [outcome EXCEPT ![r.in] = "cut"] ELSE outcome
    BY <1>0, <1>5 DEF Abort
  <2>2. /\ DOMAIN outcome' = Collection
        /\ \A c \in collections : outcome[c] # "none" => outcome'[c] # "none"
        /\ \A c : Importing(r, c) => outcome'[c] # "none"
    BY <1>k, <2>1 DEF Creating, Importing
  <2> QED BY <1>0, <1>i, <2>1, <2>2, CreatedKept
<1>6. CASE Set(h)
  <2>1. /\ req' = [req EXCEPT ![h] = Idle] /\ UNCHANGED <<collections, outcome>>
        /\ \A c : ~Importing(r, c)
    BY <1>0, <1>6 DEF Set, Importing
  <2> QED BY <1>0, <1>i, <1>k, <2>1, CreatedKept
<1> QED BY <1>1, <1>2, <1>3, <1>4, <1>5, <1>6 DEF Serve

\* "Validate before creating, so a bad batch does not leave an empty collection behind":
\* a collection that is there is filled, being filled, or left by a request that was cut
\* short, whatever other requests do meanwhile.
THEOREM BadBatchLeavesNothingAlways == Spec => []BadBatchLeavesNothing
<1>1. Init => CreatedOK
  <2> SUFFICES ASSUME Init PROVE CreatedOK
    OBVIOUS
  <2>1. \A h \in Handler : req[h].pc = "idle"
    BY DEF Init, Idle
  <2>2. DOMAIN outcome = Collection /\ collections = InitCollections
    BY DEF Init
  <2> QED BY <2>1, <2>2, KeysInit DEF CreatedOK, BadBatchLeavesNothing, Creating
<1>2. CreatedOK /\ [Next]_vars => CreatedOK'
  <2> SUFFICES ASSUME CreatedOK, [Next]_vars PROVE CreatedOK'
    OBVIOUS
  <2>1. KeysOK'
    BY KeysStep DEF CreatedOK
  <2>2. UNCHANGED <<collections, req, outcome>> => CreatedOK'
    BY <2>1 DEF CreatedOK, Creating, BadBatchLeavesNothing
  <2>3. Edit => UNCHANGED <<collections, req, outcome>>
    BY DEF Edit, UpdateDraft, StageDelete, RevertDraftItem, DeleteItem, DiscardDraft,
           PublishDraft, history
  <2> QED BY <2>1, <2>2, <2>3, CreatedServe DEF Next, vars
<1>3. CreatedOK => BadBatchLeavesNothing
  BY DEF CreatedOK
<1> QED BY <1>1, <1>2, <1>3, PTL DEF Spec

-----------------------------------------------------------------------------
(* The two contracts *)

\* handler.buildSentence, kept beside the shared BuildSentence, accepts the same
\* sentences and makes the same of them, for every kind and every sentence.
THEOREM SameSentences ==
    ASSUME NEW kind, NEW s \in Sentence
    PROVE  HandlerSentence(kind, s) = BuildSentence(kind, s)
<1> DEFINE cond == /\ s.blanks > 0
                   /\ Len(s.answer) = s.blanks
                   /\ \A k \in DOMAIN s.answer : s.answer[k]
                   /\ kind = "choice" /\ s.lists > 0 => s.lists = s.blanks
           made == [s EXCEPT !.lists = IF kind = "choice" THEN @ ELSE 0]
<1>1. (s.blanks > 0) <=> ~(s.blanks = 0)
  BY DEF Sentence
<1>2. BuildSentence(kind, s) = IF cond THEN made ELSE Bad
  BY Zenon DEF BuildSentence
<1>3. HandlerSentence(kind, s) = IF ~cond THEN Bad ELSE made
  BY <1>1, Zenon DEF HandlerSentence
<1> HIDE DEF cond, made
<1> QED BY <1>2, <1>3, Zenon
LEMMA KeptIsSeq ==
    ASSUME NEW X, NEW s \in Seq(X), NEW P
    PROVE  Kept(s, P) \in Seq(X)
<1>1. PICK f : Collects(f, X, s, P)
  BY KeptSteps
<1>2. f \in [0 .. Len(s) -> Seq(X)] /\ Kept(s, P) = f[Len(s)] /\ Len(s) \in 0 .. Len(s)
  BY <1>1 DEF Collects
<1> QED BY <1>2

\* A card as ImportCSV reads it.
LEMMA SameCards ==
    ASSUME NEW e \in Entry
    PROVE  ParseCard(e) = BuildItem(AsItem("cards", e))
<1>1. PICK a : a = [e EXCEPT !.type = "card", !.term = FALSE]
  OBVIOUS
<1>2. AsItem("cards", e) = a
  BY <1>1 DEF AsItem
<1>3. a.type = "card" /\ a.term = FALSE /\ a.question = e.question /\ a.definition = e.definition
  BY <1>1 DEF Entry
<1>4. BuildItem(a) = BuildCard(a)
  BY <1>3 DEF BuildItem
<1> QED BY <1>2, <1>3, <1>4 DEF BuildCard, ParseCard

\* A question as ImportTests reads it.
LEMMA SameTests ==
    ASSUME NEW e \in Entry
    PROVE  ParseTest(e) = BuildItem(AsItem("tests", e))
<1>1. PICK a : a = [e EXCEPT !.type = "quiz"]
  OBVIOUS
<1>2. AsItem("tests", e) = a
  BY <1>1 DEF AsItem
<1>3. a.type = "quiz" /\ a.question = e.question /\ a.options = e.options
  BY <1>1 DEF Entry
<1>4. BuildItem(a) = BuildQuiz(a)
  BY <1>3 DEF BuildItem
<1>5. PICK o : o = Texts(e.options)
  OBVIOUS
<1>6. o \in Seq(Option)
  BY <1>5, KeptIsSeq DEF Texts, Entry
<1>7. Len(o) < 2 <=> ~(Len(o) >= 2)
  BY <1>6
<1>8. ParseTest(e) = IF ~e.question \/ Len(o) < 2 \/ ~HasCorrectOption(o)
                       THEN Bad ELSE [type |-> "quiz", options |-> o]
  BY <1>5, Zenon DEF ParseTest
<1>9. BuildQuiz(a) = IF e.question /\ Len(o) >= 2 /\ HasCorrectOption(o)
                       THEN [type |-> "quiz", options |-> o] ELSE Bad
  BY <1>3, <1>5, Zenon DEF BuildQuiz
<1> QED BY <1>2, <1>4, <1>7, <1>8, <1>9

\* An exercise as ImportExercises reads it: what it leaves out is what the shared
\* contract would refuse the exercise for.
LEMMA SameExercises ==
    ASSUME NEW e \in Entry
    PROVE  ParseExercise(e) = BuildItem(AsItem("exercises", e))
<1>0. PICK kind : kind = e.kind
  OBVIOUS
<1>1. PICK s \in Seq(Sentence) : s = e.sentences
  BY DEF Entry
<1>2. PICK t : t = [k \in DOMAIN s |-> HandlerSentence(kind, s[k])]
  OBVIOUS
<1>3. PICK P : P = {k \in DOMAIN s : HandlerSentence(kind, s[k]) # Bad}
  OBVIOUS
<1>4. DOMAIN s = 1 .. Len(s) /\ Len(s) \in Nat
  OBVIOUS
<1>5. /\ t \in Seq({t[k] : k \in 1 .. Len(s)}) /\ Len(t) = Len(s) /\ DOMAIN t = 1 .. Len(s)
      /\ P \in SUBSET (1 .. Len(s)) /\ P = {k \in DOMAIN t : t[k] # Bad}
  BY <1>2, <1>3, <1>4
<1>d. PICK d : Alike(d, s, t, P)
  BY <1>5, KeptAlike
<1>6. /\ d \in Seq(P)
      /\ Kept(s, P) = [i \in 1 .. Len(d) |-> s[d[i]]]
      /\ Kept(t, P) = [i \in 1 .. Len(d) |-> t[d[i]]]
  BY <1>d DEF Alike
<1>7. /\ Len(d) \in Nat
      /\ \A i \in 1 .. Len(d) : d[i] \in P /\ d[i] \in DOMAIN s /\ s[d[i]] \in Sentence
                                /\ t[d[i]] = BuildSentence(kind, s[d[i]]) /\ t[d[i]] # Bad
  <2>1. Len(d) \in Nat /\ \A i \in 1 .. Len(d) : d[i] \in P
    BY <1>6
  <2>2. \A k \in P : k \in DOMAIN s /\ s[k] \in Sentence /\ t[k] = HandlerSentence(kind, s[k])
                     /\ t[k] # Bad
    BY <1>2, <1>3, <1>4
  <2>3. \A k \in P : t[k] = BuildSentence(kind, s[k])
    BY <2>2, SameSentences, Zenon
  <2> QED BY <2>1, <2>2, <2>3, Zenon
<1>8. PICK a : a = [e EXCEPT !.type = "exercise", !.sentences = Kept(s, P)]
  OBVIOUS
<1>9. AsItem("exercises", e) = a
  <2>1. AsItem("exercises", e) =
           [e EXCEPT !.type = "exercise",
                     !.sentences = Kept(e.sentences,
                        {k \in DOMAIN e.sentences : HandlerSentence(e.kind, e.sentences[k]) # Bad})]
    BY DEF AsItem
  <2> QED BY <1>0, <1>1, <1>3, <1>8, <2>1, Zenon
<1>10. a.type = "exercise" /\ a.kind = kind /\ a.sentences = Kept(s, P)
  BY <1>0, <1>1, <1>8 DEF Entry
<1>11. BuildItem(a) = BuildExercise(a)
  BY <1>10 DEF BuildItem
<1>12. DOMAIN Kept(s, P) = 1 .. Len(d) /\ DOMAIN Kept(t, P) = 1 .. Len(d)
  BY <1>6
<1>13. [k \in DOMAIN Kept(s, P) |-> BuildSentence(kind, Kept(s, P)[k])] = Kept(t, P)
  BY <1>6, <1>7, <1>12
<1>14. Complete(Kept(t, P))
  BY <1>6, <1>7, <1>12 DEF Complete
<1>15. Kept(s, P) = <<>> <=> Kept(t, P) = <<>>
  <2>1. Kept(s, P) \in Seq(Sentence) /\ Kept(t, P) \in Seq({t[k] : k \in 1 .. Len(s)})
    BY <1>5, KeptIsSeq
  <2> QED BY <1>12, <2>1
<1>16. BuildExercise(a) = IF kind # "other" /\ Kept(t, P) # <<>>
                            THEN [type |-> "exercise", kind |-> kind, sentences |-> Kept(t, P)]
                            ELSE Bad
  BY <1>10, <1>13, <1>14, <1>15, Zenon DEF BuildExercise
<1>17. ParseExercise(e) = IF kind = "other" \/ Kept(t, P) = <<>>
                            THEN Bad
                            ELSE [type |-> "exercise", kind |-> kind, sentences |-> Kept(t, P)]
  <2>1. Built(t) = Kept(t, P)
    BY <1>5, Zenon DEF Built
  <2> QED BY <1>0, <1>1, <1>2, <2>1, Zenon DEF ParseExercise
<1> QED BY <1>9, <1>11, <1>16, <1>17, Zenon

Channel == {"cards", "tests", "exercises", "items", "add", "stage", "create"}

\* Every endpoint makes of every entry what BuildItem makes of the item it stands for.
THEOREM OneContract ==
    ASSUME NEW channel \in Channel, NEW e \in Entry
    PROVE  Parse(channel, e) = BuildItem(AsItem(channel, e))
<1>1. CASE channel = "cards"
  BY <1>1, SameCards DEF Parse
<1>2. CASE channel = "tests"
  BY <1>2, SameTests DEF Parse
<1>3. CASE channel = "exercises"
  BY <1>3, SameExercises DEF Parse
<1>4. CASE channel \in {"items", "add", "stage", "create"}
  BY <1>4 DEF Parse, AsItem
<1> QED BY <1>1, <1>2, <1>3, <1>4 DEF Channel

-----------------------------------------------------------------------------
(* What an import lets in *)

GoodSentence(kind, s) ==
    /\ s \in Sentence /\ s.blanks > 0 /\ Len(s.answer) = s.blanks
    /\ \A i \in DOMAIN s.answer : s.answer[i]
    /\ s.lists = 0 \/ (kind = "choice" /\ s.lists = s.blanks)

\* build.go: "a quiz needs a correct option, an exercise sentence needs one answer per
\* blank, choice distractors come one list per blank".
WellFormed(x) ==
    \/ x.type = "card"
    \/ /\ x.type = "quiz"
       /\ x.options \in Seq(Option) /\ Len(x.options) >= 2
       /\ \A k \in DOMAIN x.options : x.options[k].text
       /\ \E k \in DOMAIN x.options : x.options[k].correct
    \/ /\ x.type = "exercise" /\ x.kind \in {"bank", "choice"}
       /\ x.sentences # <<>>
       /\ \A k \in DOMAIN x.sentences : GoodSentence(x.kind, x.sentences[k])

LEMMA BuiltSentence ==
    ASSUME NEW kind, NEW s \in Sentence, NEW b, b = BuildSentence(kind, s), b # Bad
    PROVE  GoodSentence(kind, b)
<1>1. /\ s.blanks > 0 /\ Len(s.answer) = s.blanks /\ \A k \in DOMAIN s.answer : s.answer[k]
      /\ kind = "choice" /\ s.lists > 0 => s.lists = s.blanks
      /\ b = [s EXCEPT !.lists = IF kind = "choice" THEN @ ELSE 0]
  BY Zenon DEF BuildSentence
<1>2. /\ b.blanks = s.blanks /\ b.answer = s.answer
      /\ b.lists = IF kind = "choice" THEN s.lists ELSE 0
      /\ b \in Sentence /\ s.lists \in Nat
  BY <1>1 DEF Sentence
<1> QED BY <1>1, <1>2 DEF GoodSentence

LEMMA KeptTexts ==
    ASSUME NEW options \in Seq(Option)
    PROVE  Texts(options) \in Seq(Option)
           /\ \A k \in DOMAIN Texts(options) : Texts(options)[k].text
<1>1. PICK P : P = {k \in DOMAIN options : options[k].text}
  OBVIOUS
<1>2. P \in SUBSET (1 .. Len(options))
  BY <1>1
<1>3. PICK d : Alike(d, options, options, P)
  BY <1>2, KeptAlike
<1>4. Texts(options) = Kept(options, P)
  BY <1>1, Zenon DEF Texts
<1>5. d \in Seq(P) /\ Texts(options) = [i \in 1 .. Len(d) |-> options[d[i]]]
  BY <1>3, <1>4 DEF Alike
<1>6. \A k \in P : options[k].text
  BY <1>1
<1>7. \A i \in 1 .. Len(d) : d[i] \in P
  BY <1>5
<1>8. DOMAIN Texts(options) = 1 .. Len(d) /\ \A i \in 1 .. Len(d) : Texts(options)[i] = options[d[i]]
  BY <1>5
<1>9. Texts(options) \in Seq(Option)
  BY <1>4, KeptIsSeq
<1> QED BY <1>6, <1>7, <1>8, <1>9, Zenon

\* Whatever a client sends and through whichever endpoint, what the validators let pass
\* is well-formed: empty options do not count, not even as the correct one, and an
\* exercise whose bad sentences were left out has only good ones, and one at least.
THEOREM ImportedWellFormed ==
    ASSUME NEW channel \in Channel, NEW e \in Entry, Parse(channel, e) # Bad
    PROVE  WellFormed(Parse(channel, e))
<1>0. PICK x : x = Parse(channel, e)
  OBVIOUS
<1>1. PICK a : a = AsItem(channel, e)
  OBVIOUS
<1>2. x = BuildItem(a) /\ x # Bad
  BY <1>0, <1>1, OneContract
<1>3. a \in Entry
  <2>1. \A P : Kept(e.sentences, P) \in Seq(Sentence)
    BY KeptIsSeq DEF Entry
  <2>2. PICK s \in Seq(Sentence) :
           s = Kept(e.sentences,
                    {k \in DOMAIN e.sentences : HandlerSentence(e.kind, e.sentences[k]) # Bad})
    BY <2>1
  <2>3. \/ a = [e EXCEPT !.type = "card", !.term = FALSE]
        \/ a = [e EXCEPT !.type = "quiz"]
        \/ a = [e EXCEPT !.type = "exercise", !.sentences = s]
        \/ a = e
    BY <1>1, <2>2 DEF AsItem
  <2> QED BY <2>3 DEF Entry
<1>4. x \in {BuildCard(a), BuildQuiz(a), BuildExercise(a)}
  BY <1>2, <1>3 DEF BuildItem, Entry
<1>5. CASE x = BuildCard(a)
  <2>1. x.type = "card"
    BY <1>2, <1>5 DEF BuildCard
  <2> QED BY <1>0, <2>1 DEF WellFormed
<1>6. CASE x = BuildQuiz(a)
  <2>1. PICK o : o = Texts(a.options)
    OBVIOUS
  <2>2. o \in Seq(Option) /\ \A k \in DOMAIN o : o[k].text
    BY <1>3, <2>1, KeptTexts DEF Entry
  <2>3. Len(o) >= 2 /\ (\E k \in DOMAIN o : o[k].correct) /\ x = [type |-> "quiz", options |-> o]
    BY <1>2, <1>6, <2>1, Zenon DEF BuildQuiz, HasCorrectOption
  <2>4. x.type = "quiz" /\ x.options = o
    BY <2>3
  <2> QED BY <1>0, <2>2, <2>3, <2>4 DEF WellFormed
<1>7. CASE x = BuildExercise(a)
  <2>1. PICK s \in Seq(Sentence), kind \in {"bank", "choice", "other"} :
           s = a.sentences /\ kind = a.kind
    BY <1>3 DEF Entry
  <2>2. PICK t : t = [k \in DOMAIN s |-> BuildSentence(kind, s[k])]
    OBVIOUS
  <2>3. /\ kind # "other" /\ s # <<>> /\ Complete(t)
        /\ x = [type |-> "exercise", kind |-> kind, sentences |-> t]
    BY <1>2, <1>7, <2>1, <2>2, Zenon DEF BuildExercise
  <2>4. x.type = "exercise" /\ x.kind = kind /\ x.sentences = t /\ kind \in {"bank", "choice"}
    BY <2>1, <2>3
  <2>5. t # <<>>
    BY <2>2, <2>3
  <2>6. \A k \in DOMAIN t : s[k] \in Sentence /\ t[k] = BuildSentence(kind, s[k]) /\ t[k] # Bad
    BY <2>2, <2>3 DEF Complete
  <2>7. \A k \in DOMAIN t : GoodSentence(kind, t[k])
    BY <2>6, BuiltSentence, Zenon
  <2> QED BY <1>0, <2>4, <2>5, <2>7, Zenon DEF WellFormed
<1> QED BY <1>4, <1>5, <1>6, <1>7

-----------------------------------------------------------------------------
(* Types *)

FlattenTo(f, s) == f = [i \in 1 .. Len(s) |-> IF i = 1 THEN s[i] ELSE f[i - 1] \o s[i]]

\* Sequences one after another: what the loop has after the first i of them.
Flattens(h, R, s) ==
    /\ h \in [1 .. Len(s) -> Seq(R) \ {<<>>}]
    /\ h[1] = s[1] /\ FlattenSeq(s) = h[Len(s)]
    /\ \A i \in 2 .. Len(s) : h[i] = h[i - 1] \o s[i]

LEMMA FlattenSteps ==
    ASSUME NEW R, NEW s \in Seq(Seq(R) \ {<<>>}), s # <<>>
    PROVE  \E h : Flattens(h, R, s)
<1>0. Len(s) \in Nat /\ Len(s) # 0 /\ \A i \in 1 .. Len(s) : s[i] \in Seq(R) \ {<<>>}
  OBVIOUS
<1> DEFINE V == Seq(R) \ {<<>>}
           F == [n \in Nat |-> [v \in V |-> IF n + 2 <= Len(s) THEN v \o s[n + 2] ELSE v]]
<1>1. 1 \in 1 .. Len(s) /\ Len(s) # 0
  BY <1>0
<1>2. s[1] \in V
  BY <1>0, <1>1
<1>3. F \in [Nat -> [V -> V]]
  <2>1. ASSUME NEW n \in Nat, NEW v \in V, n + 2 <= Len(s)
        PROVE  v \o s[n + 2] \in V
    <3>1. n + 2 \in 1 .. Len(s)
      BY <2>1
    <3>2. s[n + 2] \in Seq(R) /\ s[n + 2] # <<>> /\ v \in Seq(R) /\ v # <<>>
      BY <1>0, <3>1
    <3>3. v \o s[n + 2] \in Seq(R) /\ Len(v \o s[n + 2]) = Len(v) + Len(s[n + 2]) /\ Len(v) > 0
          /\ Len(s[n + 2]) \in Nat
      BY <3>2
    <3> QED BY <3>3
  <2>2. \A n \in Nat, v \in V : (IF n + 2 <= Len(s) THEN v \o s[n + 2] ELSE v) \in V
    BY <2>1
  <2> HIDE DEF V
  <2> QED BY <2>2
<1>4. \A n \in Nat : \A v \in V : F[n][v] = IF n + 2 <= Len(s) THEN v \o s[n + 2] ELSE v
  <2> HIDE DEF V
  <2> QED OBVIOUS
<1> HIDE DEF F, V
<1>g. PICK g : Solves(g, V, s[1], F)
  BY <1>2, <1>3, Recursion
<1>5. g \in [Nat -> V] /\ g[0] = s[1] /\ \A n \in Nat : g[n + 1] = F[n][g[n]]
  BY <1>g DEF Solves
<1> DEFINE f == [i \in 1 .. Len(s) |-> g[i - 1]]
<1>6. \A i \in 1 .. Len(s) : f[i] = IF i = 1 THEN s[i] ELSE f[i - 1] \o s[i]
  <2> SUFFICES ASSUME NEW i \in 1 .. Len(s)
               PROVE  f[i] = IF i = 1 THEN s[i] ELSE f[i - 1] \o s[i]
    OBVIOUS
  <2>1. CASE i = 1
    BY <1>5, <2>1
  <2>2. CASE i # 1
    <3>1. PICK n \in Nat : i = n + 2 /\ i - 1 = n + 1 /\ n + 2 <= Len(s) /\ (n + 1) - 1 = n
      BY <1>0, <2>2
    <3>2. g[n + 1] = F[n][g[n]] /\ g[n] \in V
      BY <1>5
    <3>3. F[n][g[n]] = g[n] \o s[i]
      BY <1>4, <3>1, <3>2
    <3>4. i - 1 \in 1 .. Len(s) /\ f[i - 1] = g[n] /\ f[i] = g[n + 1]
      BY <1>0, <2>2, <3>1
    <3> QED BY <2>2, <3>2, <3>3, <3>4
  <2> QED BY <2>1, <2>2
<1>7. FlattenTo(f, s)
  BY <1>6, Zenon DEF FlattenTo
<1> HIDE DEF f
<1>8. PICK h : h = CHOOSE x : FlattenTo(x, s)
  OBVIOUS
<1>9. FlattenTo(h, s)
  BY <1>7, <1>8, Zenon
<1>10. FlattenSeq(s) = h[Len(s)]
  BY <1>1, <1>8, Zenon DEF FlattenSeq, FlattenTo
<1>11. \A i \in 1 .. Len(s) : h[i] = IF i = 1 THEN s[i] ELSE h[i - 1] \o s[i]
  BY <1>9, Zenon DEF FlattenTo
<1> DEFINE S == {n \in Nat : n + 1 <= Len(s) => h[n + 1] \in V}
<1>12. 0 \in S
  BY <1>1, <1>2, <1>11
<1>13. ASSUME NEW n \in Nat, n \in S PROVE n + 1 \in S
  <2> SUFFICES ASSUME n + 2 <= Len(s) PROVE h[n + 2] \in V
    OBVIOUS
  <2>0. n + 2 <= Len(s)
    OBVIOUS
  <2>1. n + 2 \in 1 .. Len(s) /\ n + 2 # 1 /\ (n + 2) - 1 = n + 1 /\ h[n + 1] \in V
    BY <1>0, <1>13
  <2>2. h[n + 2] = h[n + 1] \o s[n + 2]
    BY <1>11, <2>1
  <2>3. F[n][h[n + 1]] = IF n + 2 <= Len(s) THEN h[n + 1] \o s[n + 2] ELSE h[n + 1]
    BY <1>4, <2>1, Zenon
  <2>4. F[n][h[n + 1]] \in V
    BY <1>3, <2>1
  <2> QED BY <2>0, <2>2, <2>3, <2>4, Zenon
<1> HIDE DEF S
<1>14. Nat \subseteq S
  BY <1>12, <1>13, Induction
<1>15. Len(s) - 1 \in S /\ (Len(s) - 1) + 1 = Len(s)
  BY <1>0, <1>1, <1>14
<1>16. \A i \in 1 .. Len(s) : h[i] \in V
  <2> TAKE i \in 1 .. Len(s)
  <2>1. i - 1 \in S /\ (i - 1) + 1 = i /\ i <= Len(s)
    BY <1>0, <1>14
  <2> QED BY <2>1 DEF S
<1>17. h \in [1 .. Len(s) -> V]
  <2>1. h = [i \in 1 .. Len(s) |-> IF i = 1 THEN s[i] ELSE h[i - 1] \o s[i]]
    BY <1>9, Zenon DEF FlattenTo
  <2>2. h = [i \in 1 .. Len(s) |-> h[i]]
    BY <2>1
  <2> QED BY <1>16, <2>2
<1>18. h[1] = s[1] /\ \A i \in 2 .. Len(s) : h[i] = h[i - 1] \o s[i]
  <2>1. \A i \in 2 .. Len(s) : i \in 1 .. Len(s) /\ i # 1
    BY <1>0
  <2> QED BY <1>1, <1>11, <2>1, Zenon
<1>19. Flattens(h, R, s)
  BY <1>10, <1>17, <1>18, Zenon DEF Flattens, V
<1> QED BY <1>19

LEMMA FlattenType ==
    ASSUME NEW R, NEW s \in Seq(Seq(R) \ {<<>>})
    PROVE  FlattenSeq(s) \in Seq(R) /\ (s # <<>> => FlattenSeq(s) # <<>>)
<1>1. CASE s = <<>>
  <2>1. FlattenSeq(s) = s
    BY <1>1 DEF FlattenSeq
  <2>2. <<>> \in Seq(R)
    OBVIOUS
  <2>3. FlattenSeq(s) = <<>>
    BY <1>1, <2>1, Zenon
  <2> QED BY <1>1, <2>2, <2>3, Zenon
<1>2. CASE s # <<>>
  <2>1. PICK h : Flattens(h, R, s)
    BY <1>2, FlattenSteps
  <2>2. h \in [1 .. Len(s) -> Seq(R) \ {<<>>}] /\ FlattenSeq(s) = h[Len(s)]
    BY <2>1, Zenon DEF Flattens
  <2>3. Len(s) \in 1 .. Len(s)
    BY <1>2
  <2> QED BY <2>2, <2>3
<1> QED BY <1>1, <1>2

RowType == {"card", "exercise", "sentence"}

\* What a validator lets pass has its rows, the first of them the item's own.
LEMMA RowsOfParsed ==
    ASSUME NEW channel \in Channel, NEW e \in Entry, Parse(channel, e) # Bad
    PROVE  RowsOf(Parse(channel, e)) \in Seq(RowType) \ {<<>>}
<1>0. PICK x : x = Parse(channel, e)
  OBVIOUS
<1>1. ASSUME x.type \in {"card", "quiz"} PROVE RowsOf(x) \in Seq(RowType) \ {<<>>}
  <2>1. RowsOf(x) = <<"card">> \/ RowsOf(x) = <<"exercise">>
    BY <1>1 DEF RowsOf
  <2> QED BY <2>1 DEF RowType
<1>2. ASSUME NEW Z, NEW z \in Seq(Z), x.type = "exercise", x.sentences = z
      PROVE  RowsOf(x) \in Seq(RowType) \ {<<>>}
  <2>1. RowsOf(x) = <<"exercise">> \o [k \in DOMAIN z |-> "sentence"]
    BY <1>2 DEF RowsOf
  <2>2. PICK w : w = [k \in DOMAIN z |-> "sentence"]
    OBVIOUS
  <2>3. w \in Seq(RowType) /\ <<"exercise">> \in Seq(RowType) /\ Len(<<"exercise">>) = 1
    BY <1>2, <2>2 DEF RowType
  <2>4. <<"exercise">> \o w \in Seq(RowType) /\ Len(<<"exercise">> \o w) = 1 + Len(w) /\ Len(w) \in Nat
    BY <2>3
  <2> QED BY <2>1, <2>2, <2>4
<1>s. PICK s \in Seq(Sentence) : s = e.sentences
  BY DEF Entry
<1>3. ASSUME x = BuildItem(e) PROVE RowsOf(x) \in Seq(RowType) \ {<<>>}
  <2>1. x \in {BuildCard(e), BuildQuiz(e), BuildExercise(e), Bad}
    BY <1>3 DEF BuildItem, Entry
  <2>2. x = BuildCard(e) => x.type = "card"
    BY <1>0 DEF BuildCard
  <2>3. x = BuildQuiz(e) => x.type = "quiz"
    BY <1>0 DEF BuildQuiz
  <2>4. PICK z : z = [k \in DOMAIN s |-> BuildSentence(e.kind, s[k])]
    OBVIOUS
  <2>5. z \in Seq({z[k] : k \in 1 .. Len(s)})
    BY <2>4
  <2>6. x = BuildExercise(e) => x = [type |-> "exercise", kind |-> e.kind, sentences |-> z]
    BY <1>0, <1>s, <2>4, Zenon DEF BuildExercise
  <2>7. x = BuildExercise(e) => x.type = "exercise" /\ x.sentences = z
    BY <2>6
  <2> QED BY <1>0, <1>1, <1>2, <2>1, <2>2, <2>3, <2>5, <2>7
<1>4. CASE channel = "cards"
  <2>1. x = ParseCard(e)
    BY <1>0, <1>4 DEF Parse
  <2>2. x.type = "card"
    BY <1>0, <2>1 DEF ParseCard
  <2> QED BY <1>0, <1>1, <2>2
<1>5. CASE channel = "tests"
  <2>1. x = ParseTest(e)
    BY <1>0, <1>5 DEF Parse
  <2>2. x.type = "quiz"
    BY <1>0, <2>1 DEF ParseTest
  <2> QED BY <1>0, <1>1, <2>2
<1>6. CASE channel = "exercises"
  <2>1. x = ParseExercise(e)
    BY <1>0, <1>6 DEF Parse
  <2>2. PICK t : t = [k \in DOMAIN s |-> HandlerSentence(e.kind, s[k])]
    OBVIOUS
  <2>3. t \in Seq({t[k] : k \in 1 .. Len(s)})
    BY <2>2
  <2>4. PICK z : z = Built(t)
    OBVIOUS
  <2>5. z \in Seq({t[k] : k \in 1 .. Len(s)})
    BY <2>3, <2>4, KeptIsSeq DEF Built
  <2>6. x = [type |-> "exercise", kind |-> e.kind, sentences |-> z]
    BY <1>0, <1>s, <2>1, <2>2, <2>4, Zenon DEF ParseExercise
  <2>7. x.type = "exercise" /\ x.sentences = z
    BY <2>6
  <2> QED BY <1>0, <1>2, <2>5, <2>7
<1>7. CASE channel \in {"items", "add", "stage", "create"}
  BY <1>0, <1>3, <1>7 DEF Parse
<1> QED BY <1>4, <1>5, <1>6, <1>7 DEF Channel

LEMMA RowsOfAll ==
    ASSUME NEW X, NEW items \in Seq(X),
           \A k \in DOMAIN items : RowsOf(items[k]) \in Seq(RowType) \ {<<>>}
    PROVE  AllRows(items) \in Seq(RowType) /\ (items # <<>> => AllRows(items) # <<>>)
<1>1. PICK w : w = [k \in DOMAIN items |-> RowsOf(items[k])]
  OBVIOUS
<1>2. w \in Seq(Seq(RowType) \ {<<>>}) /\ (items # <<>> => w # <<>>)
  BY <1>1
<1>3. AllRows(items) = FlattenSeq(w)
  BY <1>1, Zenon DEF AllRows
<1> QED BY <1>2, <1>3, FlattenType

Accepted(channel, x) == x # Bad /\ \E e \in Entry : x = Parse(channel, e)

\* What is left of the entries of an import that is not refused.
LEMMA BuiltItems ==
    ASSUME NEW channel \in Channel \ {"create"}, NEW batch \in Seq(Entry), ~Refused(channel, batch)
    PROVE  \E b : /\ b = Built(Parsed(channel, batch))
                  /\ b \in Seq({b[k] : k \in DOMAIN b}) /\ b # <<>>
                  /\ \A i \in DOMAIN b : Accepted(channel, b[i])
<1>1. PICK p : p = Parsed(channel, batch)
  OBVIOUS
<1>2. /\ p \in Seq({p[k] : k \in 1 .. Len(batch)}) /\ DOMAIN p = 1 .. Len(batch)
      /\ \A k \in 1 .. Len(batch) : p[k] = Parse(channel, batch[k]) /\ batch[k] \in Entry
      /\ Len(p) = Len(batch) /\ Len(batch) \in Nat
  BY <1>1 DEF Parsed
<1>3. PICK P : P = {k \in DOMAIN p : p[k] # Bad}
  OBVIOUS
<1>4. P \in SUBSET (1 .. Len(p))
  BY <1>2, <1>3
<1>5. PICK d : Alike(d, p, p, P)
  BY <1>2, <1>4, KeptAlike
<1>6. PICK b : b = Built(p)
  OBVIOUS
<1>7. /\ d \in Seq(P) /\ b = [i \in 1 .. Len(d) |-> p[d[i]]]
      /\ d = <<>> <=> P = {}
  BY <1>3, <1>5, <1>6 DEF Alike, Built
<1>8. /\ Len(d) \in Nat /\ DOMAIN b = 1 .. Len(d)
      /\ \A i \in 1 .. Len(d) : d[i] \in P /\ b[i] = p[d[i]]
  BY <1>7
<1>9. \A i \in DOMAIN b : Accepted(channel, b[i])
  <2>1. \A k \in P : Accepted(channel, p[k])
    BY <1>2, <1>3 DEF Accepted
  <2>2. \A i \in DOMAIN b : d[i] \in P /\ b[i] = p[d[i]]
    BY <1>8
  <2> QED BY <2>1, <2>2, Zenon
<1>10. b # <<>>
  <2>1. CASE channel \in {"add", "stage"}
    <3>1. batch # <<>> /\ Complete(p)
      BY <1>1, <2>1 DEF Refused
    <3>2. 1 \in P
      BY <1>2, <1>3, <3>1 DEF Complete
    <3> QED BY <1>7, <1>8, <3>2
  <2>2. CASE channel \notin {"add", "stage"}
    BY <1>1, <1>6, <2>2 DEF Refused, Channel
  <2> QED BY <2>1, <2>2
<1>11. b \in Seq({b[k] : k \in DOMAIN b})
  BY <1>7, <1>8
<1> QED BY <1>1, <1>6, <1>9, <1>10, <1>11, Zenon

\* The rows of an import that is not refused; only a new collection may have none.
LEMMA ImportRows ==
    ASSUME NEW channel \in Channel \ {"create"}, NEW batch \in Seq(Entry), ~Refused(channel, batch)
    PROVE  AllRows(Built(Parsed(channel, batch))) \in Seq(RowType) \ {<<>>}
<1>1. PICK b : /\ b = Built(Parsed(channel, batch))
               /\ b \in Seq({b[k] : k \in DOMAIN b}) /\ b # <<>>
               /\ \A i \in DOMAIN b : Accepted(channel, b[i])
  BY BuiltItems
<1>2. \A i \in DOMAIN b : RowsOf(b[i]) \in Seq(RowType) \ {<<>>}
  BY <1>1, RowsOfParsed, Zenon DEF Accepted
<1> QED BY <1>1, <1>2, RowsOfAll

LEMMA CreateRows ==
    ASSUME NEW batch \in Seq(Entry), ~Refused("create", batch)
    PROVE  AllRows(Parsed("create", batch)) \in Seq(RowType)
<1>1. PICK p : p = Parsed("create", batch)
  OBVIOUS
<1>2. /\ p \in Seq({p[k] : k \in DOMAIN p}) /\ DOMAIN p = 1 .. Len(batch)
      /\ \A k \in 1 .. Len(batch) : p[k] = Parse("create", batch[k]) /\ batch[k] \in Entry
  BY <1>1 DEF Parsed
<1>3. \A k \in DOMAIN p : p[k] # Bad
  BY <1>1 DEF Refused, Complete
<1>4. \A k \in DOMAIN p : RowsOf(p[k]) \in Seq(RowType) \ {<<>>}
  BY <1>2, <1>3, RowsOfParsed DEF Channel
<1> QED BY <1>1, <1>2, <1>4, RowsOfAll

RequestTyped(r) ==
    /\ r.pc \in {"idle", "create", "read", "write", "set"}
    /\ r.pc \in {"create", "read", "write"} =>
          /\ r.in \in Collection /\ r.home \in Home /\ r.parent \in Id \cup {None}
          /\ r.after \in SUBSET Id /\ r.under \in SUBSET Id
          /\ r.rows \in Seq(RowType)
          /\ r.channel \in Channel \cup {"one"} /\ r.batch \in Seq(Entry)
          /\ r.channel = "one" => r.batch = <<>>
    /\ r.pc \in {"read", "write"} => r.rows # <<>>
    /\ r.pc = "set" => r.id \in Id /\ r.item \in Item

TablesTyped ==
    /\ collections \subseteq Collection
    /\ live \in [Id -> Item \cup {None}]
    /\ staged \in [Id -> Item \cup {None, Removed}]
    /\ owner \in [Id -> Collection \cup {None}]

HistoryTyped ==
    /\ sent \in 0 .. MaxRequests
    /\ older \in [Id -> SUBSET Id]
    /\ placed \subseteq Id /\ saved \subseteq Id
    /\ outcome \in [Collection -> {"none", "done", "cut"}]

\* The inductive invariant, beside OrderOK.
Typed == TablesTyped /\ HistoryTyped /\ \A h \in Handler : RequestTyped(req[h])

LEMMA IdsAreNumbers == Cardinality(Id) \in Nat /\ Id = 1 .. Cardinality(Id) /\ Id \subseteq Nat
<1>1. Cardinality(Id) \in Nat
  BY ItemImportsAssumption, FS_CardinalityType
<1> QED BY <1>1, ItemImportsAssumption

LEMMA TypedInit == Init => Typed
<1> SUFFICES ASSUME Init PROVE Typed
  OBVIOUS
<1>1. RequestTyped(Idle)
  BY DEF RequestTyped, Idle
<1>2. TablesTyped
  BY ItemImportsAssumption DEF Init, TablesTyped
<1>3. HistoryTyped
  BY ItemImportsAssumption DEF Init, HistoryTyped
<1>4. \A h \in Handler : req[h] = Idle
  BY DEF Init
<1> QED BY <1>1, <1>2, <1>3, <1>4 DEF Typed

\* The step of one request, seen from the others.
LEMMA TypedRequest ==
    ASSUME Typed, TablesTyped', HistoryTyped', NEW h \in Handler, NEW r, RequestTyped(r),
           DOMAIN req = Handler, req' = [req EXCEPT ![h] = r]
    PROVE  Typed'
<1>1. \A g \in Handler : req'[g] = IF g = h THEN r ELSE req[g]
  OBVIOUS
<1>2. \A g \in Handler : RequestTyped(req'[g])
  BY <1>1 DEF Typed
<1>3. (\A g \in Handler : RequestTyped(req[g]))'
  BY <1>2 DEF RequestTyped
<1> QED BY <1>3 DEF Typed

LEMMA AppendingTyped ==
    ASSUME NEW draft, NEW c \in Collection, NEW home \in Home, NEW rows \in Seq(RowType)
    PROVE  /\ rows # <<>> => RequestTyped(Appending("read", draft, c, home, rows))
           /\ \A channel \in Channel, batch \in Seq(Entry) :
                 rows # <<>> => RequestTyped([Appending("read", draft, c, home, rows)
                                          EXCEPT !.channel = channel, !.batch = batch])
           /\ \A batch \in Seq(Entry) :
                 RequestTyped([Appending("create", draft, c, home, rows)
                                 EXCEPT !.channel = "create", !.batch = batch, !.first = TRUE])
<1>0. <<>> \in Seq(Entry)
  OBVIOUS
<1>1. ASSUME rows # <<>> PROVE RequestTyped(Appending("read", draft, c, home, rows))
  BY <1>0, <1>1 DEF RequestTyped, Appending
<1>2. ASSUME NEW channel \in Channel, NEW batch \in Seq(Entry), rows # <<>>
      PROVE  RequestTyped([Appending("read", draft, c, home, rows)
                             EXCEPT !.channel = channel, !.batch = batch])
  BY <1>2 DEF RequestTyped, Appending, Channel
<1>3. ASSUME NEW batch \in Seq(Entry)
      PROVE  RequestTyped([Appending("create", draft, c, home, rows)
                             EXCEPT !.channel = "create", !.batch = batch, !.first = TRUE])
  BY <1>3 DEF RequestTyped, Appending, Channel
<1> QED BY <1>1, <1>2, <1>3

LEMMA SettingTyped ==
    ASSUME NEW i \in Id, NEW item \in Item, NEW mark
    PROVE  RequestTyped(Setting(i, item, mark))
BY DEF RequestTyped, Setting

\* A request that begins, and leaves the tables as they are.
LEMMA TypedBegin ==
    ASSUME Typed, DOMAIN req = Handler, NEW h \in Handler, NEW r, RequestTyped(r), Begin(h, r),
           UNCHANGED <<collections, live, staged, older, saved, outcome>>,
           owner' \in [Id -> Collection \cup {None}], placed' \subseteq Id
    PROVE  Typed'
<1>1. sent' \in 0 .. MaxRequests
  BY ItemImportsAssumption DEF Typed, HistoryTyped, Begin, Free
<1>2. TablesTyped' /\ HistoryTyped'
  BY <1>1 DEF Typed, TablesTyped, HistoryTyped
<1> QED BY <1>2, TypedRequest DEF Begin

LEMMA OverlayTyped ==
    ASSUME Typed, NEW i \in Id
    PROVE  /\ Overlay[i] \in Item \cup {None, Removed}
           /\ live[i] \in Item \cup {None} /\ staged[i] \in Item \cup {None, Removed}
BY DEF Typed, TablesTyped, Overlay

LEMMA RekeyTyped ==
    ASSUME NEW x \in Item, NEW k \in Key
    PROVE  [x EXCEPT !.key = k] \in Item
BY DEF Item

LEMMA BatchesAreEntries ==
    /\ \A batch \in Batches : batch \in Seq(Entry)
    /\ Collection \subseteq Home /\ Id \subseteq Home
BY ItemImportsAssumption DEF Home

LEMMA TypedSend ==
    ASSUME Typed, KeysOK, NEW h \in Handler, Send(h)
    PROVE  Typed'
<1>0. DOMAIN req = Handler /\ 1 .. drawn \subseteq Id /\ collections \subseteq Collection
  BY DEF KeysOK, Typed, TablesTyped
<1>a. owner \in [Id -> Collection \cup {None}] /\ placed \subseteq Id
  BY DEF Typed, TablesTyped, HistoryTyped
<1>b. Collection \subseteq Home
  BY BatchesAreEntries
<1>1. ASSUME NEW channel \in {"cards", "tests", "exercises", "items", "add", "stage"},
             NEW batch \in Batches, NEW draft, NEW c \in collections,
             Import(h, channel, batch, draft, c)
      PROVE  Typed'
  <2> DEFINE r == [Appending("read", draft, c, c, AllRows(Built(Parsed(channel, batch))))
                     EXCEPT !.channel = channel, !.batch = batch]
  <2>1. AllRows(Built(Parsed(channel, batch))) \in Seq(RowType) \ {<<>>}
    <3>1. ~Refused(channel, batch)
      BY <1>1 DEF Import
    <3> QED BY <3>1, BatchesAreEntries, ImportRows DEF Channel
  <2>2. RequestTyped(r)
    BY <1>0, <1>b, <2>1, BatchesAreEntries, AppendingTyped DEF Channel
  <2>3. Begin(h, r) /\ UNCHANGED <<collections, live, staged, owner, older, placed, saved, outcome>>
    BY <1>1 DEF Import, history
  <2> HIDE DEF r
  <2> QED BY <1>0, <1>a, <2>2, <2>3, TypedBegin
<1>2. ASSUME NEW type \in RowType, NEW draft, NEW c \in collections, NEW home \in Home,
             AddItem(h, type, draft, c, home)
      PROVE  Typed'
  <2> DEFINE r == Appending("read", draft, c, home, <<type>>)
  <2>1. <<type>> \in Seq(RowType) /\ <<type>> # <<>>
    OBVIOUS
  <2>2. RequestTyped(r)
    BY <1>0, <2>1, AppendingTyped
  <2>3. Begin(h, r) /\ UNCHANGED <<collections, live, staged, owner, older, placed, saved, outcome>>
    BY <1>2 DEF AddItem, history
  <2> HIDE DEF r
  <2> QED BY <1>0, <1>a, <2>2, <2>3, TypedBegin
<1>3. ASSUME NEW batch \in Batches, NEW c \in Collection, Create(h, batch, c)
      PROVE  Typed'
  <2> DEFINE r == [Appending("create", FALSE, c, c, AllRows(Parsed("create", batch)))
                     EXCEPT !.channel = "create", !.batch = batch, !.first = TRUE]
  <2>1. AllRows(Parsed("create", batch)) \in Seq(RowType)
    <3>1. ~Refused("create", batch)
      BY <1>3 DEF Create
    <3> QED BY <3>1, BatchesAreEntries, CreateRows
  <2>2. RequestTyped(r)
    BY <1>b, <2>1, BatchesAreEntries, AppendingTyped
  <2>3. Begin(h, r) /\ UNCHANGED <<collections, live, staged, owner, older, placed, saved, outcome>>
    BY <1>3 DEF Create, history
  <2> HIDE DEF r
  <2> QED BY <1>0, <1>a, <2>2, <2>3, TypedBegin
<1>4. ASSUME NEW k \in Given, NEW c \in collections, StageAt(h, k, c)
      PROVE  Typed'
  <2>1. drawn + 1 \in Id /\ k \in Key /\ c \in Collection /\ c \in Home
    BY <1>0, <1>4, <1>b, ItemImportsAssumption DEF StageAt
  <2>2. PICK item : item = [type |-> "card", home |-> c, key |-> k]
    OBVIOUS
  <2>3. item \in Item
    BY <2>1, <2>2 DEF Item
  <2>4. Begin(h, Setting(drawn + 1, item, TRUE))
    BY <1>4, <2>2 DEF StageAt
  <2>5. /\ owner' = [owner EXCEPT ![drawn + 1] = c] /\ placed' = placed \cup {drawn + 1}
        /\ UNCHANGED <<collections, live, staged, older, saved, outcome>>
    BY <1>4 DEF StageAt
  <2>6. owner' \in [Id -> Collection \cup {None}] /\ placed' \subseteq Id
    BY <1>a, <2>1, <2>5
  <2> QED BY <1>0, <2>1, <2>3, <2>4, <2>5, <2>6, SettingTyped, TypedBegin
<1>5. ASSUME NEW i \in 1 .. drawn, Restage(h, i)
      PROVE  Typed'
  <2>1. i \in Id
    BY <1>0
  <2> DEFINE rk == IF IsItem(live[i]) THEN live[i].key
                   ELSE IF IsItem(staged[i]) THEN staged[i].key ELSE <<>>
  <2>2. rk \in Key
    BY <2>1, MadeKeysAreGood DEF KeysOK, ItemOK
  <2>3. \A last \in LastRank(Overlay[i].home) : After(last) \in Key
    BY LastRankGood, MadeKeysAreGood
  <2>4. PICK k \in IF rk = <<>> THEN {After(last) : last \in LastRank(Overlay[i].home)} ELSE {rk} :
           Begin(h, Setting(i, [Overlay[i] EXCEPT !.key = k], FALSE))
    BY <1>5 DEF Restage
  <2> HIDE DEF rk
  <2>5. k \in Key
    BY <2>2, <2>3, <2>4
  <2>6. Overlay[i] \in Item
    BY <1>5, <2>1, OverlayTyped DEF Restage, IsItem
  <2>7. [Overlay[i] EXCEPT !.key = k] \in Item
    BY <2>5, <2>6, RekeyTyped
  <2>8. UNCHANGED <<collections, live, staged, owner, older, placed, saved, outcome>>
    BY <1>5 DEF Restage, history
  <2> QED BY <1>0, <1>a, <2>1, <2>4, <2>7, <2>8, SettingTyped, TypedBegin
<1>6. ASSUME NEW i \in 1 .. drawn, NEW a \in (1 .. drawn) \cup {None},
             NEW b \in (1 .. drawn) \cup {None}, Move(h, i, a, b)
      PROVE  Typed'
  <2> DEFINE bound(n) == IF n = None THEN <<>> ELSE RankOf(n)
             it == IF IsItem(staged[i]) THEN staged[i] ELSE live[i]
             k == Between(bound(a), bound(b))
  <2>1. \A n \in Id : RankOf(n) \in Key
    BY MadeKeysAreGood DEF RankOf, KeysOK, ItemOK
  <2>2. bound(a) \in Key /\ bound(b) \in Key
    BY <1>0, <2>1, MadeKeysAreGood
  <2>3. k \in Key
    BY <2>2, MadeKeysAreGood
  <2>4. i \in Id /\ it \in Item
    BY <1>0, <1>6, OverlayTyped DEF Move, IsItem
  <2>5. /\ Begin(h, Setting(i, [it EXCEPT !.key = k], TRUE))
        /\ UNCHANGED <<collections, live, staged, owner, older, placed, saved, outcome>>
    BY <1>6 DEF Move, history
  <2> HIDE DEF it, k
  <2>6. [it EXCEPT !.key = k] \in Item
    BY <2>3, <2>4, RekeyTyped
  <2> QED BY <1>0, <1>a, <2>4, <2>5, <2>6, SettingTyped, TypedBegin
<1>7. \A c : \A e \in Listed(Overlay, c) : e \in Home
  BY BatchesAreEntries DEF Listed
<1> QED BY <1>0, <1>1, <1>2, <1>3, <1>4, <1>5, <1>6, <1>7, <1>b DEF Send, RowType

LEMMA NextItemTyped ==
    ASSUME NEW r, RequestTyped(r), RequestOK(r), r.pc = "write"
    PROVE  NextItem(r) \in Item
<1>1. r.rows \in Seq(RowType) /\ r.rows # <<>> /\ r.home \in Home /\ r.parent \in Id \cup {None}
  BY DEF RequestTyped
<1>2. r.rows[1] \in RowType
  BY <1>1
<1>3. NextItem(r).key \in Key
  BY NextItemOK, MadeKeysAreGood
<1>4. \E type \in RowType, home \in Home : \E k :
         NextItem(r) = [type |-> type, home |-> home, key |-> k]
  <2>1. r.parent # None => r.parent \in Home
    BY <1>1, BatchesAreEntries
  <2>2. CASE Nested(r)
    <3>1. NextItem(r) = [type |-> "sentence", home |-> r.parent, key |-> After(r.sprev)]
      BY <2>2 DEF NextItem
    <3> QED BY <2>1, <2>2, <3>1, Zenon DEF Nested, RowType
  <2>3. CASE ~Nested(r)
    <3>1. NextItem(r) = [type |-> r.rows[1], home |-> r.home, key |-> After(r.prev)]
      BY <2>3 DEF NextItem
    <3> QED BY <1>1, <1>2, <3>1, Zenon
  <2> QED BY <2>2, <2>3
<1>5. PICK type \in RowType, home \in Home :
         \E k : NextItem(r) = [type |-> type, home |-> home, key |-> k]
  BY <1>4, Zenon
<1>6. PICK k : NextItem(r) = [type |-> type, home |-> home, key |-> k]
  BY <1>5, Zenon
<1>7. k \in Key
  BY <1>3, <1>6
<1>8. [type |-> type, home |-> home, key |-> k] \in Item
  BY <1>7 DEF Item, RowType
<1> QED BY <1>6, <1>8, Zenon

LEMMA WrittenTyped ==
    ASSUME NEW r, RequestTyped(r), RequestOK(r), r.pc = "write", NEW i \in Id, NEW item
    PROVE  RequestTyped(Written(r, i, item))
<1>1. /\ r.in \in Collection /\ r.home \in Home /\ r.parent \in Id \cup {None}
      /\ r.after \in SUBSET Id /\ r.under \in SUBSET Id
      /\ r.rows \in Seq(RowType) /\ r.rows # <<>>
      /\ r.channel \in Channel \cup {"one"} /\ r.batch \in Seq(Entry)
      /\ r.channel = "one" => r.batch = <<>>
  BY DEF RequestTyped
<1>2. Tail(r.rows) \in Seq(RowType) /\ (Len(r.rows) # 1 => Tail(r.rows) # <<>>)
  <2>1. \A w \in Seq(RowType) : w # <<>> => Tail(w) \in Seq(RowType)
    OBVIOUS
  <2>2. ASSUME NEW w \in Seq(RowType), w # <<>>, Len(w) # 1 PROVE Tail(w) # <<>>
    <3>1. Len(Tail(w)) = Len(w) - 1 /\ Len(w) \in Nat /\ Len(w) # 0
      BY <2>2
    <3>2. Len(Tail(w)) # 0
      BY <2>2, <3>1
    <3>3. Len(<<>>) = 0
      OBVIOUS
    <3> QED BY <3>2, <3>3, Zenon
  <2> QED BY <1>1, <2>1, <2>2, Zenon
<1> DEFINE a == [r EXCEPT !.rows = Tail(@), !.sprev = item.key, !.under = @ \cup {i}]
           b == [r EXCEPT !.rows = Tail(@), !.prev = item.key, !.sprev = <<>>, !.parent = i,
                          !.after = @ \cup {i}, !.under = {}]
<1>3. /\ a.pc = "write" /\ a.in = r.in /\ a.home = r.home /\ a.parent = r.parent
      /\ a.after = r.after /\ a.under = r.under \cup {i} /\ a.rows = Tail(r.rows)
      /\ a.channel = r.channel /\ a.batch = r.batch
  BY DEF RequestOK
<1>4. /\ b.pc = "write" /\ b.in = r.in /\ b.home = r.home /\ b.parent = i
      /\ b.after = r.after \cup {i} /\ b.under = {} /\ b.rows = Tail(r.rows)
      /\ b.channel = r.channel /\ b.batch = r.batch
  BY DEF RequestOK
<1>5. Written(r, i, item) = IF Len(r.rows) = 1 THEN Idle ELSE IF Nested(r) THEN a ELSE b
  BY DEF Written
<1> HIDE DEF a, b
<1>6. RequestTyped(Idle)
  BY DEF RequestTyped, Idle
<1>7. Len(r.rows) # 1 => RequestTyped(a) /\ RequestTyped(b)
  BY <1>1, <1>2, <1>3, <1>4 DEF RequestTyped
<1> QED BY <1>5, <1>6, <1>7

LEMMA TypedServe ==
    ASSUME Typed, KeysOK, NEW h \in Handler, Serve(h)
    PROVE  Typed'
<1>0. PICK r : r = req[h]
  OBVIOUS
<1>k. RequestOK(r) /\ RequestTyped(r) /\ DOMAIN req = Handler /\ TablesTyped /\ HistoryTyped
  BY <1>0 DEF KeysOK, Typed
<1>i. RequestTyped(Idle)
  BY DEF RequestTyped, Idle
<1>1. CASE Free(h) /\ Send(h)
  BY <1>1, TypedSend
<1>2. CASE CreateCollection(h)
  <2>1. r.pc = "create" /\ r.in \in Collection
    BY <1>0, <1>2, <1>k DEF CreateCollection, RequestTyped
  <2>2. PICK s : s = [r EXCEPT !.pc = "read"]
    OBVIOUS
  <2>3. /\ s.pc = "read" /\ s.in = r.in /\ s.home = r.home /\ s.parent = r.parent
        /\ s.after = r.after /\ s.under = r.under /\ s.rows = r.rows
        /\ s.channel = r.channel /\ s.batch = r.batch
    BY <1>k, <2>1, <2>2 DEF RequestOK
  <2>4. r.rows # <<>> => RequestTyped(s)
    BY <1>k, <2>1, <2>3 DEF RequestTyped
  <2>5. /\ collections' = collections \cup {r.in}
        /\ UNCHANGED <<live, staged, drawn, owner, sent, older, placed, saved>>
        /\ \/ /\ req' = [req EXCEPT ![h] = Idle]
              /\ outcome' = [outcome EXCEPT ![r.in] = "done"]
           \/ /\ r.rows # <<>> /\ req' = [req EXCEPT ![h] = s] /\ outcome' = outcome
    BY <1>0, <1>2, <2>2 DEF CreateCollection
  <2>6. TablesTyped' /\ HistoryTyped'
    BY <1>k, <2>1, <2>5 DEF TablesTyped, HistoryTyped
  <2> QED BY <1>i, <1>k, <2>4, <2>5, <2>6, TypedRequest
<1>3. CASE ReadLast(h)
  <2>1. PICK last : req' = [req EXCEPT ![h].pc = "write", ![h].prev = last,
                                       ![h].after = Listed(live, req[h].home)]
    BY <1>3 DEF ReadLast
  <2>2. PICK s : s = [r EXCEPT !.pc = "write", !.prev = last, !.after = Listed(live, r.home)]
    OBVIOUS
  <2>3. /\ r.pc = "read" /\ req' = [req EXCEPT ![h] = s]
        /\ UNCHANGED <<collections, live, staged, owner, sent, older, placed, saved, outcome>>
    BY <1>0, <1>3, <2>1, <2>2 DEF ReadLast, history
  <2>4. /\ s.pc = "write" /\ s.in = r.in /\ s.home = r.home /\ s.parent = r.parent
        /\ s.after = Listed(live, r.home) /\ s.under = r.under /\ s.rows = r.rows
        /\ s.channel = r.channel /\ s.batch = r.batch
    BY <1>k, <2>2, <2>3 DEF RequestOK
  <2>5. Listed(live, r.home) \in SUBSET Id
    BY DEF Listed
  <2>6. RequestTyped(s)
    BY <1>k, <2>3, <2>4, <2>5 DEF RequestTyped
  <2>7. TablesTyped' /\ HistoryTyped'
    BY <1>k, <2>3 DEF TablesTyped, HistoryTyped
  <2> QED BY <1>k, <2>3, <2>6, <2>7, TypedRequest
<1>4. CASE WriteRow(h)
  <2>1. PICK n, item : n = drawn + 1 /\ item = NextItem(r)
    OBVIOUS
  <2>2. /\ r.pc = "write" /\ n \in Id
        /\ Store(r, n, item)
        /\ req' = [req EXCEPT ![h] = Written(r, n, item)]
        /\ older' = [older EXCEPT ![n] = IF Nested(r) THEN r.under ELSE r.after]
        /\ owner' = [owner EXCEPT ![n] = r.in]
        /\ outcome' = IF r.first /\ Len(r.rows) = 1
                        THEN [outcome EXCEPT ![r.in] = "done"] ELSE outcome
        /\ UNCHANGED <<collections, sent, placed, saved>>
    BY <1>0, <1>4, <2>1 DEF WriteRow
  <2>3. item \in Item /\ RequestTyped(Written(r, n, item))
    BY <1>k, <2>1, <2>2, NextItemTyped, WrittenTyped
  <2>4. r.in \in Collection /\ r.after \in SUBSET Id /\ r.under \in SUBSET Id
    BY <1>k, <2>2 DEF RequestTyped
  <2>5. \/ staged' = [staged EXCEPT ![n] = item] /\ UNCHANGED live
        \/ live' = [live EXCEPT ![n] = item] /\ UNCHANGED staged
    BY <2>2 DEF Store
  <2>6. TablesTyped'
    BY <1>k, <2>2, <2>3, <2>4, <2>5 DEF TablesTyped
  <2>7. HistoryTyped'
    BY <1>k, <2>2, <2>4 DEF HistoryTyped
  <2> QED BY <1>k, <2>2, <2>3, <2>6, <2>7, TypedRequest
<1>5. CASE Abort(h)
  <2>1. /\ req' = [req EXCEPT ![h] = Idle]
        /\ outcome' = IF r.pc \in {"read", "write"} /\ r.first
                        THEN [outcome EXCEPT ![r.in] = "cut"] ELSE outcome
        /\ UNCHANGED <<collections, live, staged, owner, sent, older, placed, saved>>
    BY <1>0, <1>5 DEF Abort
  <2>2. r.pc \in {"read", "write"} => r.in \in Collection
    BY <1>k DEF RequestTyped
  <2>3. TablesTyped' /\ HistoryTyped'
    BY <1>k, <2>1, <2>2 DEF TablesTyped, HistoryTyped
  <2> QED BY <1>i, <1>k, <2>1, <2>3, TypedRequest
<1>6. CASE Set(h)
  <2>1. /\ r.pc = "set"
        /\ staged' = [staged EXCEPT ![r.id] = r.item]
        /\ placed' = IF r.mark THEN placed \cup {r.id} ELSE placed
        /\ req' = [req EXCEPT ![h] = Idle]
        /\ UNCHANGED <<collections, live, owner, sent, older, saved, outcome>>
    BY <1>0, <1>6 DEF Set
  <2>2. r.id \in Id /\ r.item \in Item
    BY <1>k, <2>1 DEF RequestTyped
  <2>3. TablesTyped' /\ HistoryTyped'
    BY <1>k, <2>1, <2>2 DEF TablesTyped, HistoryTyped
  <2> QED BY <1>i, <1>k, <2>1, <2>3, TypedRequest
<1> QED BY <1>1, <1>2, <1>3, <1>4, <1>5, <1>6 DEF Serve

LEMMA TypedEdit ==
    ASSUME Typed, KeysOK, sent < MaxRequests, Edit
    PROVE  Typed'
<1>0. /\ TablesTyped /\ HistoryTyped /\ 1 .. drawn \subseteq Id
      /\ \A h \in Handler : RequestTyped(req[h])
  BY DEF Typed, KeysOK
<1>s. Request => sent' \in 0 .. MaxRequests
  BY <1>0, ItemImportsAssumption DEF Request, HistoryTyped
\* The requests, the owners and the items of the lists stay as they are.
<1>a. ASSUME Request, UNCHANGED <<collections, owner, req, history>>,
             live' \in [Id -> Item \cup {None}], staged' \in [Id -> Item \cup {None, Removed}]
      PROVE  Typed'
  <2>1. TablesTyped' /\ HistoryTyped'
    BY <1>0, <1>a, <1>s DEF TablesTyped, HistoryTyped, history
  <2>2. (\A h \in Handler : RequestTyped(req[h]))'
    BY <1>0, <1>a DEF RequestTyped
  <2> QED BY <2>1, <2>2 DEF Typed
<1>1. ASSUME NEW c \in collections, NEW keep \in SUBSET Listed(Overlay, c), NEW more \in BOOLEAN,
             UpdateDraft(c, keep, more)
      PROVE  Typed'
  <2> DEFINE cards(table) == {i \in Listed(table, c) : table[i].type = "card"}
             row(k) == [type |-> "card", home |-> c, key |-> k]
  <2>n. PICK new : new = IF more THEN {drawn + 1} ELSE {}
    OBVIOUS
  <2>1. PICK last \in LastRank(c) :
          staged' = [i \in Id |->
             IF i \in keep THEN row(IF i \in cards(live) THEN live[i].key ELSE <<>>)
             ELSE IF i \in new THEN row(After(last))
             ELSE IF i \in cards(live) THEN Removed
             ELSE IF owner[i] = c THEN None ELSE staged[i]]
    BY <1>1, <2>n DEF UpdateDraft
  <2>2. /\ Request /\ new \subseteq Id
        /\ owner' = [i \in Id |-> IF i \in new THEN c ELSE owner[i]]
        /\ saved' = saved \cup (keep \ cards(live))
        /\ older' = [i \in Id |-> IF i \in new THEN Listed(live, c) ELSE older[i]]
        /\ UNCHANGED <<collections, live, req, placed, outcome>>
    BY <1>1, <2>n, Zenon DEF UpdateDraft
  <2>3. c \in Collection /\ c \in Home /\ Listed(live, c) \subseteq Id /\ keep \subseteq Id
    BY <1>0, BatchesAreEntries DEF TablesTyped, Listed
  <2>4. After(last) \in Key /\ <<>> \in Key /\ \A i \in cards(live) : live[i].key \in Key
    BY LastRankGood, MadeKeysAreGood DEF KeysOK, ItemOK, Listed
  <2>5. \A k \in Key : row(k) \in Item
    BY <2>3 DEF Item
  <2>6. staged' \in [Id -> Item \cup {None, Removed}]
    <3> SUFFICES ASSUME NEW i \in Id PROVE staged'[i] \in Item \cup {None, Removed}
      BY <2>1
    <3> DEFINE kept == IF i \in cards(live) THEN live[i].key ELSE <<>>
    <3>1. kept \in Key
      BY <2>4
    <3>2. staged'[i] \in {row(kept), row(After(last)), Removed, None, staged[i]}
      BY <2>1
    <3>3. staged[i] \in Item \cup {None, Removed}
      BY <1>0 DEF TablesTyped
    <3> HIDE DEF kept, row
    <3> QED BY <2>4, <2>5, <3>1, <3>2, <3>3
  <2> HIDE DEF cards, row
  <2>7. TablesTyped'
    <3>1. owner' \in [Id -> Collection \cup {None}]
      BY <1>0, <2>2, <2>3 DEF TablesTyped
    <3> QED BY <1>0, <2>2, <2>6, <3>1 DEF TablesTyped
  <2>8. HistoryTyped'
    <3>1. older' \in [Id -> SUBSET Id]
      BY <1>0, <2>2, <2>3 DEF HistoryTyped
    <3>2. saved' \subseteq Id
      BY <1>0, <2>2, <2>3 DEF HistoryTyped
    <3> QED BY <1>0, <1>s, <2>2, <3>1, <3>2 DEF HistoryTyped
  <2>9. (\A h \in Handler : RequestTyped(req[h]))'
    BY <1>0, <2>2 DEF RequestTyped
  <2> QED BY <2>7, <2>8, <2>9 DEF Typed
<1>2. ASSUME NEW i \in Id, StageDelete(i) PROVE Typed'
  <2>1. /\ \E v \in {None, Removed} : staged' = [staged EXCEPT ![i] = v]
        /\ Request /\ UNCHANGED <<collections, live, owner, req, history>>
    BY <1>2 DEF StageDelete
  <2>2. live' \in [Id -> Item \cup {None}] /\ staged' \in [Id -> Item \cup {None, Removed}]
    BY <1>0, <2>1 DEF TablesTyped
  <2> QED BY <1>a, <2>1, <2>2
<1>3. ASSUME NEW i \in Id, RevertDraftItem(i) PROVE Typed'
  <2>1. /\ staged' = [staged EXCEPT ![i] = None]
        /\ Request /\ UNCHANGED <<collections, live, owner, req, history>>
    BY <1>3 DEF RevertDraftItem
  <2>2. live' \in [Id -> Item \cup {None}] /\ staged' \in [Id -> Item \cup {None, Removed}]
    BY <1>0, <2>1 DEF TablesTyped
  <2> QED BY <1>a, <2>1, <2>2
<1>4. ASSUME NEW i \in Id, DeleteItem(i) PROVE Typed'
  <2>1. /\ live' = [j \in Id |-> IF j = i \/ j \in Listed(live, i) THEN None ELSE live[j]]
        /\ Request /\ UNCHANGED <<collections, staged, owner, req, history>>
    BY <1>4 DEF DeleteItem
  <2>2. live' \in [Id -> Item \cup {None}] /\ staged' \in [Id -> Item \cup {None, Removed}]
    BY <1>0, <2>1 DEF TablesTyped
  <2> QED BY <1>a, <2>1, <2>2
<1>5. ASSUME NEW c, DiscardDraft(c) PROVE Typed'
  <2>1. /\ staged' = [j \in Id |-> IF owner[j] = c THEN None ELSE staged[j]]
        /\ Request /\ UNCHANGED <<collections, live, owner, req, history>>
    BY <1>5 DEF DiscardDraft
  <2>2. live' \in [Id -> Item \cup {None}] /\ staged' \in [Id -> Item \cup {None, Removed}]
    BY <1>0, <2>1 DEF TablesTyped
  <2> QED BY <1>a, <2>1, <2>2
<1>6. ASSUME NEW c, PublishDraft(c) PROVE Typed'
  <2>1. PICK rows, gone :
           /\ live' = [i \in Id |->
                         IF owner[i] = c
                           THEN IF IsItem(Overlay[i]) /\ Overlay[i].home \in gone
                                  THEN None ELSE Overlay[i]
                           ELSE live[i]]
           /\ staged' = [i \in Id |-> IF i \in rows THEN None ELSE staged[i]]
           /\ Request /\ UNCHANGED <<collections, owner, req, history>>
    BY <1>6 DEF PublishDraft
  <2>2. \A i \in Id : Overlay[i] \in Item \cup {None}
    BY <1>0 DEF Overlay, TablesTyped
  <2>3. live' \in [Id -> Item \cup {None}]
    BY <1>0, <2>1, <2>2 DEF TablesTyped
  <2>4. staged' \in [Id -> Item \cup {None, Removed}]
    BY <1>0, <2>1 DEF TablesTyped
  <2> QED BY <1>a, <2>1, <2>3, <2>4
<1> QED BY <1>0, <1>1, <1>2, <1>3, <1>4, <1>5, <1>6 DEF Edit

LEMMA TypedStep == Typed /\ OrderOK /\ [Next]_vars => Typed'
<1> SUFFICES ASSUME Typed, KeysOK, [Next]_vars PROVE Typed'
  BY DEF OrderOK
<1>1. CASE UNCHANGED vars
  <2>1. TablesTyped' /\ HistoryTyped'
    BY <1>1 DEF vars, Typed, TablesTyped, HistoryTyped
  <2>2. (\A h \in Handler : RequestTyped(req[h]))'
    BY <1>1 DEF vars, Typed, RequestTyped
  <2> QED BY <2>1, <2>2 DEF Typed
<1>2. CASE Next
  BY <1>2, TypedServe, TypedEdit DEF Next
<1> QED BY <1>1, <1>2

LEMMA AlwaysTyped == Spec => [](Typed /\ OrderOK)
<1>1. Init => Typed /\ OrderOK
  BY TypedInit, OrderInit
<1>2. Typed /\ OrderOK /\ [Next]_vars => (Typed /\ OrderOK)'
  BY TypedStep, OrderStep
<1> QED BY <1>1, <1>2, PTL DEF Spec

\* Every variable of ItemImports keeps its type: a request that is reading or writing has
\* rows left, what it writes is an item with a list, and no item has a number to come.
THEOREM TypeCorrect == Spec => []TypeInvariant
<1>1. Typed /\ OrderOK => TypeInvariant
  <2> SUFFICES ASSUME Typed, OrderOK PROVE TypeInvariant
    OBVIOUS
  <2>1. drawn \in Nat /\ 1 .. drawn \subseteq Id
    BY DEF OrderOK, KeysOK
  <2>2. drawn \in 0 .. Cardinality(Id)
    <3>1. drawn # 0 => drawn \in Id
      BY <2>1
    <3> QED BY <2>1, <3>1, IdsAreNumbers
  <2>3. \A i \in Id : i > drawn => live[i] = None /\ staged[i] = None
    <3>1. \A i \in Id : i > drawn => i \notin 1 .. drawn
      BY <2>1, IdsAreNumbers
    <3> QED BY <3>1 DEF OrderOK, Numbered
  <2>4. \A h \in Handler : req[h].pc \in {"idle", "create", "read", "write", "set"}
    BY DEF Typed, RequestTyped
  <2> QED BY <2>2, <2>3, <2>4 DEF Typed, TablesTyped, HistoryTyped, TypeInvariant
<1> QED BY <1>1, AlwaysTyped, PTL

\* "two copies of them would drift": the older endpoints have such copies.  Whatever the
\* entries of an import hold, what it writes of them is what BuildItem makes of them.
THEOREM ContractSharedAlways == Spec => []ContractShared
<1>1. Typed => ContractShared
  <2> SUFFICES ASSUME Typed, NEW h \in Handler, req[h].pc \in {"create", "read", "write"},
                      NEW k \in DOMAIN req[h].batch
               PROVE  Parse(req[h].channel, req[h].batch[k])
                        = BuildItem(AsItem(req[h].channel, req[h].batch[k]))
    BY Zenon DEF ContractShared
  <2>1. /\ req[h].channel \in Channel \cup {"one"} /\ req[h].batch \in Seq(Entry)
        /\ req[h].channel = "one" => req[h].batch = <<>>
    BY DEF Typed, RequestTyped
  <2>2. req[h].channel \in Channel /\ req[h].batch[k] \in Entry
    BY <2>1
  <2> QED BY <2>2, OneContract
<1> QED BY <1>1, AlwaysTyped, PTL

-----------------------------------------------------------------------------
(* How much an import brings *)

\* What one item counts against the cap of a REST import.
Cost(channel, item) ==
    IF channel \in {"cards", "tests"} THEN 1
    ELSE IF item.type = "exercise" THEN Len(item.sentences) ELSE 0

\* f[n] is what the first n items count.
Counts(f, channel, items) ==
    /\ f \in [0 .. Len(items) -> Nat]
    /\ f[0] = 0 /\ Rows(channel, items) = f[Len(items)]
    /\ \A n \in 1 .. Len(items) : f[n] = f[n - 1] + Cost(channel, items[n])

CountTo(f, channel, items) ==
    f = [n \in 0 .. Len(items) |->
            IF n = 0 THEN 0
            ELSE f[n - 1] + (IF channel \in {"cards", "tests"} THEN 1
                             ELSE IF items[n].type = "exercise" THEN Len(items[n].sentences)
                             ELSE 0)]

LEMMA RowsSteps ==
    ASSUME NEW channel, NEW X, NEW items \in Seq(X),
           \A n \in 1 .. Len(items) : Cost(channel, items[n]) \in Nat
    PROVE  \E f : Counts(f, channel, items)
<1> DEFINE F == [n \in Nat |-> [v \in Nat |->
                    IF n + 1 <= Len(items) THEN v + Cost(channel, items[n + 1]) ELSE v]]
<1>0. Len(items) \in Nat
  OBVIOUS
<1>1. F \in [Nat -> [Nat -> Nat]]
  <2>1. \A n \in Nat, v \in Nat :
           (IF n + 1 <= Len(items) THEN v + Cost(channel, items[n + 1]) ELSE v) \in Nat
    <3> SUFFICES ASSUME NEW n \in Nat, NEW v \in Nat, n + 1 <= Len(items)
                 PROVE  v + Cost(channel, items[n + 1]) \in Nat
      OBVIOUS
    <3>1. n + 1 \in 1 .. Len(items)
      BY <1>0
    <3>2. Cost(channel, items[n + 1]) \in Nat
      BY <3>1
    <3> QED BY <3>2
  <2> QED BY <2>1
<1>2. \A n \in Nat : \A v \in Nat :
         F[n][v] = IF n + 1 <= Len(items) THEN v + Cost(channel, items[n + 1]) ELSE v
  OBVIOUS
<1> HIDE DEF F
<1>g. PICK g : Solves(g, Nat, 0, F)
  BY <1>1, Recursion
<1>3. g \in [Nat -> Nat] /\ g[0] = 0 /\ \A n \in Nat : g[n + 1] = F[n][g[n]]
  BY <1>g DEF Solves
<1> DEFINE f == [n \in 0 .. Len(items) |-> g[n]]
<1>4. \A n \in 0 .. Len(items) :
         f[n] = IF n = 0 THEN 0 ELSE f[n - 1] + Cost(channel, items[n])
  <2> TAKE n \in 0 .. Len(items)
  <2>1. CASE n = 0
    BY <1>3, <2>1
  <2>2. CASE n # 0
    <3>1. PICK m \in Nat : n = m + 1 /\ m + 1 <= Len(items) /\ m = n - 1 /\ m \in 0 .. Len(items)
      BY <1>0, <2>2
    <3>2. g[m + 1] = F[m][g[m]] /\ g[m] \in Nat
      BY <1>3
    <3>3. F[m][g[m]] = g[m] + Cost(channel, items[m + 1])
      BY <1>2, <3>1, <3>2
    <3> QED BY <2>2, <3>1, <3>2, <3>3
  <2> QED BY <2>1, <2>2
<1>5. CountTo(f, channel, items)
  BY <1>4, Zenon DEF CountTo, Cost
<1> HIDE DEF f
<1>6. PICK h : h = CHOOSE x : CountTo(x, channel, items)
  OBVIOUS
<1>7. CountTo(h, channel, items)
  BY <1>5, <1>6, Zenon
<1>8. Rows(channel, items) = h[Len(items)]
  BY <1>6, Zenon DEF Rows, CountTo
<1>9. /\ h = [n \in 0 .. Len(items) |-> h[n]]
      /\ \A n \in 0 .. Len(items) :
            h[n] = IF n = 0 THEN 0 ELSE h[n - 1] + Cost(channel, items[n])
  <2>1. h = [n \in 0 .. Len(items) |->
               IF n = 0 THEN 0 ELSE h[n - 1] + Cost(channel, items[n])]
    BY <1>7, Zenon DEF CountTo, Cost
  <2> QED BY <2>1
<1>10. h[0] = 0 /\ \A n \in 1 .. Len(items) : h[n] = h[n - 1] + Cost(channel, items[n])
  BY <1>0, <1>9
<1>11. \A n \in 0 .. Len(items) : h[n] \in Nat
  <2> DEFINE S == {n \in Nat : n <= Len(items) => h[n] \in Nat}
  <2>1. 0 \in S
    BY <1>10
  <2>2. ASSUME NEW n \in Nat, n \in S PROVE n + 1 \in S
    <3> SUFFICES ASSUME n + 1 <= Len(items) PROVE h[n + 1] \in Nat
      OBVIOUS
    <3>1. n + 1 \in 1 .. Len(items) /\ (n + 1) - 1 = n /\ h[n] \in Nat
      BY <1>0, <2>2
    <3>2. h[n + 1] = h[n] + Cost(channel, items[n + 1]) /\ Cost(channel, items[n + 1]) \in Nat
      BY <1>10, <3>1
    <3> QED BY <3>1, <3>2
  <2>3. \A n \in S : n <= Len(items) => h[n] \in Nat
    OBVIOUS
  <2> HIDE DEF S
  <2>4. Nat \subseteq S
    BY <2>1, <2>2, Induction
  <2> QED BY <1>0, <2>3, <2>4
<1>12. Counts(h, channel, items)
  BY <1>8, <1>9, <1>10, <1>11, Zenon DEF Counts
<1> QED BY <1>12

\* If no item has more rows than m times what it counts, neither have all of them.
LEMMA RowsBound ==
    ASSUME NEW channel, NEW m \in Nat, NEW X, NEW items \in Seq(X), items # <<>>,
           \A n \in 1 .. Len(items) :
              /\ Cost(channel, items[n]) \in Nat
              /\ RowsOf(items[n]) \in Seq(RowType) \ {<<>>}
              /\ Len(RowsOf(items[n])) <= m * Cost(channel, items[n])
    PROVE  Len(AllRows(items)) <= m * Rows(channel, items)
<1>1. PICK f : Counts(f, channel, items)
  BY RowsSteps
<1>2. PICK w : w = [k \in DOMAIN items |-> RowsOf(items[k])]
  OBVIOUS
<1>3. /\ w \in Seq(Seq(RowType) \ {<<>>}) /\ w # <<>> /\ Len(w) = Len(items)
      /\ Len(items) \in Nat /\ Len(items) # 0
      /\ \A n \in 1 .. Len(items) : w[n] = RowsOf(items[n])
  <2>1. DOMAIN items = 1 .. Len(items) /\ Len(items) \in Nat /\ Len(items) # 0
    OBVIOUS
  <2>2. w = [k \in 1 .. Len(items) |-> RowsOf(items[k])]
    BY <1>2, <2>1
  <2>3. \A n \in 1 .. Len(items) : w[n] = RowsOf(items[n]) /\ w[n] \in Seq(RowType) \ {<<>>}
    BY <2>2
  <2>4. w \in [1 .. Len(items) -> Seq(RowType) \ {<<>>}]
    BY <2>2, <2>3
  <2>5. w \in Seq(Seq(RowType) \ {<<>>}) /\ Len(w) = Len(items)
    BY <2>1, <2>4
  <2> QED BY <2>1, <2>3, <2>5
<1>4. AllRows(items) = FlattenSeq(w)
  BY <1>2, Zenon DEF AllRows
<1>5. PICK h : Flattens(h, RowType, w)
  BY <1>3, FlattenSteps
<1>6. /\ h \in [1 .. Len(items) -> Seq(RowType) \ {<<>>}] /\ h[1] = w[1]
      /\ AllRows(items) = h[Len(items)]
      /\ \A i \in 2 .. Len(items) : h[i] = h[i - 1] \o w[i]
  BY <1>3, <1>4, <1>5, Zenon DEF Flattens
<1>7. /\ f \in [0 .. Len(items) -> Nat] /\ f[0] = 0 /\ Rows(channel, items) = f[Len(items)]
      /\ \A n \in 1 .. Len(items) : f[n] = f[n - 1] + Cost(channel, items[n])
  BY <1>1, Zenon DEF Counts
<1> DEFINE S == {n \in Nat : n + 1 <= Len(items) => Len(h[n + 1]) <= m * f[n + 1]}
<1>8. 0 \in S
  <2>1. 1 \in 1 .. Len(items) /\ 0 \in 0 .. Len(items)
    BY <1>3
  <2>2. PICK c \in Nat : c = Cost(channel, items[1])
    BY <2>1
  <2>3. f[1] = f[0] + c
    BY <1>7, <2>1, <2>2
  <2>4. f[1] = c
    BY <1>7, <2>2, <2>3
  <2>5. Len(h[1]) <= m * c
    BY <1>3, <1>6, <2>1, <2>2
  <2> QED BY <2>4, <2>5
<1>9. ASSUME NEW n \in Nat, n \in S PROVE n + 1 \in S
  <2> SUFFICES ASSUME n + 2 <= Len(items) PROVE Len(h[n + 2]) <= m * f[n + 2]
    OBVIOUS
  <2>1. n + 2 \in 2 .. Len(items) /\ n + 2 \in 1 .. Len(items) /\ n + 1 \in 1 .. Len(items)
        /\ n + 1 \in 0 .. Len(items) /\ (n + 2) - 1 = n + 1
    BY <1>3
  <2>2. Len(h[n + 1]) <= m * f[n + 1]
    BY <1>9, <2>1
  <2>3. PICK c \in Nat : c = Cost(channel, items[n + 2])
    BY <2>1
  <2>4. PICK a \in Seq(RowType), b \in Seq(RowType) : a = h[n + 1] /\ b = w[n + 2]
    BY <1>3, <1>6, <2>1
  <2>5. h[n + 2] = a \o b
    BY <1>6, <2>1, <2>4
  <2>6. Len(h[n + 2]) = Len(a) + Len(b) /\ Len(a) \in Nat /\ Len(b) \in Nat
    BY <2>5
  <2>7. Len(b) <= m * c
    BY <1>3, <2>1, <2>3, <2>4
  <2>8. PICK y \in Nat : y = f[n + 1]
    BY <1>7, <2>1
  <2>9. f[n + 2] = y + c
    BY <1>7, <2>1, <2>3, <2>8
  <2>10. m * (y + c) = m * y + m * c /\ m * y \in Nat /\ m * c \in Nat
    OBVIOUS
  <2>11. Len(a) <= m * y
    BY <2>2, <2>4, <2>8, Zenon
  <2>12. m * f[n + 2] = m * y + m * c
    BY <2>9, <2>10, Zenon
  <2>13. Len(h[n + 2]) <= m * y + m * c
    BY <2>6, <2>7, <2>10, <2>11
  <2> QED BY <2>12, <2>13, Zenon
<1>10. \A n \in S : n + 1 <= Len(items) => Len(h[n + 1]) <= m * f[n + 1]
  OBVIOUS
<1> HIDE DEF S
<1>11. Nat \subseteq S
  BY <1>8, <1>9, Induction
<1>12. Len(items) - 1 \in S /\ (Len(items) - 1) + 1 = Len(items)
  BY <1>3, <1>11
<1>13. Len(h[Len(items)]) <= m * f[Len(items)]
  <2>1. PICK n : n = Len(items) - 1
    OBVIOUS
  <2>2. n \in S /\ n + 1 = Len(items) /\ n + 1 <= Len(items)
    BY <1>3, <1>12, <2>1
  <2> QED BY <1>10, <2>2, Zenon
<1> QED BY <1>6, <1>7, <1>13, Zenon

\* What one accepted entry of the three older endpoints counts, and the rows it makes.
LEMMA ParsedCost ==
    ASSUME NEW channel \in {"cards", "tests", "exercises"}, NEW e \in Entry,
           Parse(channel, e) # Bad, NEW m \in Nat, m = IF channel = "exercises" THEN 2 ELSE 1
    PROVE  /\ Cost(channel, Parse(channel, e)) \in Nat
           /\ Len(RowsOf(Parse(channel, e))) <= m * Cost(channel, Parse(channel, e))
<1>0. PICK x : x = Parse(channel, e)
  OBVIOUS
<1>1. CASE channel \in {"cards", "tests"}
  <2>1. x \in {ParseCard(e), ParseTest(e)}
    BY <1>0, <1>1 DEF Parse
  <2>2. x.type \in {"card", "quiz"}
    BY <1>0, <2>1 DEF ParseCard, ParseTest
  <2>3. RowsOf(x) = <<"card">> \/ RowsOf(x) = <<"exercise">>
    BY <2>2 DEF RowsOf
  <2>4. Len(RowsOf(x)) = 1
    BY <2>3
  <2>5. Cost(channel, x) = 1
    BY <1>1 DEF Cost
  <2> QED BY <1>0, <1>1, <2>4, <2>5
<1>2. CASE channel = "exercises"
  <2>s. PICK s \in Seq(Sentence) : s = e.sentences
    BY DEF Entry
  <2>1. x = ParseExercise(e)
    BY <1>0, <1>2 DEF Parse
  <2>2. PICK t : t = [k \in DOMAIN s |-> HandlerSentence(e.kind, s[k])]
    OBVIOUS
  <2>3. PICK z : z = Built(t)
    OBVIOUS
  <2>4. z \in Seq({t[k] : k \in 1 .. Len(s)})
    <3>1. t \in Seq({t[k] : k \in 1 .. Len(s)})
      BY <2>2
    <3> QED BY <2>3, <3>1, KeptIsSeq DEF Built
  <2>5. x = [type |-> "exercise", kind |-> e.kind, sentences |-> z] /\ z # <<>>
    BY <1>0, <2>s, <2>1, <2>2, <2>3, Zenon DEF ParseExercise
  <2>6. x.type = "exercise" /\ x.sentences = z
    BY <2>5
  <2>7. Len(z) \in Nat /\ Len(z) >= 1 /\ DOMAIN z = 1 .. Len(z)
    BY <2>4, <2>5
  <2>8. PICK w : w = [k \in DOMAIN z |-> "sentence"]
    OBVIOUS
  <2>9. w \in Seq({"sentence"}) /\ Len(w) = Len(z)
    BY <2>7, <2>8
  <2>10. RowsOf(x) = <<"exercise">> \o w
    BY <2>6, <2>8 DEF RowsOf
  <2>11. Len(RowsOf(x)) = 1 + Len(z)
    <3>1. w \in Seq({"exercise", "sentence"}) /\ <<"exercise">> \in Seq({"exercise", "sentence"})
          /\ Len(<<"exercise">>) = 1
      BY <2>9
    <3> QED BY <2>9, <2>10, <3>1
  <2>12. Cost(channel, x) = Len(z)
    BY <1>2, <2>6 DEF Cost
  <2> QED BY <1>0, <1>2, <2>7, <2>11, <2>12
<1> QED BY <1>1, <1>2

\* exercises.go: "too many sentences", and the cap on rows of the other two files: an
\* import that one of the older endpoints accepts writes no more rows than the cap, an
\* import of exercises at most twice as many, since every exercise has a sentence.
THEOREM ImportsCapped ==
    ASSUME NEW channel \in {"cards", "tests", "exercises"}, NEW batch \in Seq(Entry),
           ~Refused(channel, batch)
    PROVE  Len(AllRows(Built(Parsed(channel, batch))))
             <= (IF channel = "exercises" THEN 2 ELSE 1) * MaxRows
<1>0. channel \in Channel \ {"create"}
  BY DEF Channel
<1>1. PICK b : /\ b = Built(Parsed(channel, batch))
               /\ b \in Seq({b[k] : k \in DOMAIN b}) /\ b # <<>>
               /\ \A i \in DOMAIN b : Accepted(channel, b[i])
  BY <1>0, BuiltItems
<1>2. PICK m \in Nat : m = IF channel = "exercises" THEN 2 ELSE 1
  OBVIOUS
<1>3. DOMAIN b = 1 .. Len(b)
  BY <1>1
<1>4. \A n \in 1 .. Len(b) : /\ Cost(channel, b[n]) \in Nat
                             /\ RowsOf(b[n]) \in Seq(RowType) \ {<<>>}
                             /\ Len(RowsOf(b[n])) <= m * Cost(channel, b[n])
  <2> TAKE n \in 1 .. Len(b)
  <2>1. PICK e \in Entry : b[n] = Parse(channel, e) /\ Parse(channel, e) # Bad
    BY <1>1, <1>3, Zenon DEF Accepted
  <2>2. Cost(channel, b[n]) \in Nat /\ Len(RowsOf(b[n])) <= m * Cost(channel, b[n])
    BY <1>2, <2>1, ParsedCost
  <2>3. RowsOf(b[n]) \in Seq(RowType) \ {<<>>}
    BY <1>0, <2>1, RowsOfParsed
  <2> QED BY <2>2, <2>3
<1>5. Len(AllRows(b)) <= m * Rows(channel, b)
  BY <1>1, <1>4, RowsBound
<1>6. Rows(channel, b) \in Nat
  <2>1. PICK f : Counts(f, channel, b)
    BY <1>1, <1>4, RowsSteps
  <2>2. f \in [0 .. Len(b) -> Nat] /\ Rows(channel, b) = f[Len(b)] /\ Len(b) \in 0 .. Len(b)
    BY <1>1, <2>1 DEF Counts
  <2> QED BY <2>2
<1>7. Rows(channel, b) <= MaxRows
  <2>1. channel \notin {"add", "stage", "create"}
    OBVIOUS
  <2>2. ~(Built(Parsed(channel, batch)) = <<>>
            \/ Rows(channel, Built(Parsed(channel, batch))) > MaxRows)
    BY <2>1, Zenon DEF Refused
  <2> QED BY <1>1, <1>6, <2>2, MaxRowsAssumption
<1>8. Len(AllRows(b)) \in Nat
  BY <1>0, <1>1, ImportRows
<1>9. m * Rows(channel, b) <= m * MaxRows
  BY <1>2, <1>6, <1>7, MaxRowsAssumption
<1> QED BY <1>1, <1>2, <1>5, <1>6, <1>8, <1>9, MaxRowsAssumption
=============================================================================
