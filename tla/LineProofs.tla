---------------------------- MODULE LineProofs ----------------------------
(***************************************************************************)
(* What keeps a line in order (Lines), and what the other proofs share:    *)
(* induction by the least number, recursive functions that are well        *)
(* founded, and the ranks that a strict order gives a finite set.          *)
(***************************************************************************)
EXTENDS Lines, Integers, WellFoundedInduction, FiniteSetTheorems, TLAPS

(* Every set of naturals has a least element.                              *)
LEMMA LeastNatural ==
  ASSUME NEW T, T \subseteq Nat, T # {}
  PROVE  \E x \in T : \A y \in T : x <= y
<1> DEFINE R == OpToRel(<, Nat)
<1>1. IsWellFoundedOn(R, Nat)
  BY NatLessThanWellFounded
<1>2. \A x, y \in Nat : y < x => <<y, x>> \in R
  BY DEF OpToRel
<1> HIDE DEF R
<1>3. \E x \in T : \A y \in T : ~ (<<y, x>> \in R)
  BY <1>1, WFMin
<1>4. PICK x \in T : \A y \in T : ~ (<<y, x>> \in R)
  BY <1>3, Zenon
<1>5. \A y \in T : ~ (y < x)
  BY <1>2, <1>4, Zenon
<1>6. \A y \in T : y \in Nat /\ x \in Nat
  BY <1>4
<1>7. \A y \in T : x <= y
  BY <1>5, <1>6
<1>8. QED BY <1>4, <1>7, Zenon
-----------------------------------------------------------------------------
(* Induction up to a number, for a set of numbers.                         *)
LEMMA Climb ==
  ASSUME NEW N \in Nat, NEW P, 0 \in P,
         \A n \in Nat : n < N /\ n \in P => n + 1 \in P
  PROVE  \A n \in 0..N : n \in P
<1> DEFINE T == {n \in Nat : n <= N /\ n \notin P}
<1>1. SUFFICES ASSUME T # {} PROVE FALSE
  OBVIOUS
<1>2. PICK n \in T : \A y \in T : n <= y
  <2>1. T \subseteq Nat
    OBVIOUS
  <2> HIDE DEF T
  <2>2. QED BY <1>1, <2>1, LeastNatural
<1>3. n \in Nat /\ n <= N /\ n \notin P
  OBVIOUS
<1>4. n # 0 /\ n - 1 \in Nat /\ n - 1 < N /\ (n - 1) + 1 = n
  BY <1>3
<1>5. n - 1 \in P
  <2>1. n - 1 \notin T
    BY <1>2, <1>3, <1>4
  <2>2. QED BY <1>3, <1>4, <2>1
<1>6. QED BY <1>3, <1>4, <1>5
-----------------------------------------------------------------------------
(* What the provers need to know of Append and Tail.                       *)
LEMMA AppendFacts ==
  ASSUME NEW S, NEW s \in Seq(S), NEW e \in S
  PROVE  /\ Append(s, e) \in Seq(S) /\ Len(s) \in Nat
         /\ Len(Append(s, e)) = Len(s) + 1
         /\ \A k \in 1..Len(s) : Append(s, e)[k] = s[k]
         /\ Append(s, e)[Len(s) + 1] = e
OBVIOUS

LEMMA TailFacts ==
  ASSUME NEW S, NEW s \in Seq(S), s # << >>
  PROVE  /\ Tail(s) \in Seq(S) /\ Len(s) \in Nat /\ Len(s) >= 1
         /\ Len(Tail(s)) = Len(s) - 1
         /\ Head(s) = s[1] /\ Head(s) \in S
         /\ \A k \in 1..(Len(s) - 1) : k + 1 \in 1..Len(s) /\ Tail(s)[k] = s[k + 1]
OBVIOUS

IsLine(L, K) == K \in Nat /\ L \in [1..K -> Seq(Nat)]

(* The head of a place moves to the place before it, or leaves the line, or*)
(* a packet enters a place.                                                *)
MovedOn(L, M, K, x, y) ==
  /\ x \in 2..K /\ y = x - 1 /\ L[x] # << >>
  /\ M[x] = Tail(L[x]) /\ M[y] = Append(L[y], Head(L[x]))
  /\ \A p \in 1..K : p \notin {x, y} => M[p] = L[p]

Left(L, M, K, x) ==
  /\ x \in 1..K /\ L[x] # << >> /\ M[x] = Tail(L[x])
  /\ \A p \in 1..K : p # x => M[p] = L[p]

Entered(L, M, K, x, i) ==
  /\ x \in 1..K /\ i \in Nat /\ M[x] = Append(L[x], i)
  /\ \A p \in 1..K : p # x => M[p] = L[p]

(* A line that does not change keeps its order.                            *)
LEMMA StaysInOrder ==
  ASSUME NEW K, NEW L, NEW M, IsLine(L, K), IsLine(M, K), NEW S, InOrder(L, S),
         \A p \in 1..K : M[p] = L[p]
  PROVE  InOrder(M, S)
<1>1. DOMAIN L = 1..K /\ DOMAIN M = 1..K
  BY DEF IsLine
<1>2. QED BY <1>1 DEF InOrder

(* The head of a place moves to the place before it: order is kept.        *)
LEMMA MovesOn ==
  ASSUME NEW K, NEW L, NEW M, IsLine(L, K), IsLine(M, K), NEW S, InOrder(L, S),
         NEW x, NEW y, MovedOn(L, M, K, x, y)
  PROVE  InOrder(M, S)
<1>0. /\ K \in Nat /\ L \in [1..K -> Seq(Nat)] /\ M \in [1..K -> Seq(Nat)]
      /\ x \in 2..K /\ L[x] # << >>
      /\ M[x] = Tail(L[x]) /\ M[x - 1] = Append(L[x - 1], Head(L[x]))
      /\ \A p \in 1..K : p \notin {x, x - 1} => M[p] = L[p]
  BY DEF IsLine, MovedOn
<1> DEFINE n == Len(L[x - 1])
           place(p, j) == IF p = x - 1 /\ j = n + 1 THEN x ELSE p
           index(p, j) == IF p = x - 1 /\ j = n + 1 THEN 1 ELSE IF p = x THEN j + 1 ELSE j
<1>1. x \in 1..K /\ x - 1 \in 1..K /\ x # x - 1
  BY <1>0
<1>2. /\ Len(L[x]) \in Nat /\ Len(L[x]) >= 1 /\ Len(M[x]) = Len(L[x]) - 1
      /\ Head(L[x]) = L[x][1] /\ Head(L[x]) \in Nat
      /\ \A k \in 1..(Len(L[x]) - 1) : k + 1 \in 1..Len(L[x]) /\ M[x][k] = L[x][k + 1]
  BY SMTT(60), <1>0, <1>1, TailFacts
<1>3. /\ n \in Nat /\ Len(M[x - 1]) = n + 1
      /\ \A k \in 1..n : M[x - 1][k] = L[x - 1][k]
      /\ M[x - 1][n + 1] = L[x][1]
  BY <1>0, <1>1, <1>2, AppendFacts
<1> HIDE DEF n
<1>4. ASSUME NEW p \in 1..K, NEW j \in 1..Len(M[p])
      PROVE  /\ place(p, j) \in 1..K /\ index(p, j) \in 1..Len(L[place(p, j)])
             /\ M[p][j] = L[place(p, j)][index(p, j)]
  <2>1. CASE p = x
    <3>1. p # x - 1 /\ j \in 1..(Len(L[x]) - 1)
      BY <1>1, <1>2, <2>1
    <3>2. QED BY <1>2, <2>1, <3>1
  <2>2. CASE p = x - 1 /\ j = n + 1
    BY <1>0, <1>1, <1>2, <1>3, <2>2
  <2>3. CASE p = x - 1 /\ j # n + 1
    <3>1. j \in 1..n
      BY <1>1, <1>3, <2>3
    <3>2. QED BY <1>1, <1>3, <2>3, <3>1 DEF n
  <2>4. CASE p \notin {x, x - 1}
    BY <1>0, <2>4
  <2>5. QED BY <2>1, <2>2, <2>3, <2>4
<1>5. ASSUME NEW p \in 1..K, NEW j \in 1..Len(M[p]),
             NEW q \in 1..K, NEW k \in 1..Len(M[q]), Ahead(p, j, q, k)
      PROVE  Ahead(place(p, j), index(p, j), place(q, k), index(q, k))
  <2>1. j \in Nat /\ k \in Nat /\ j >= 1 /\ k >= 1 /\ x \in Nat /\ p \in Nat /\ q \in Nat
    BY <1>0, <1>3, <1>4
  <2>2. p = x - 1 => j <= n + 1
    <3>1. SUFFICES ASSUME p = x - 1 PROVE j <= n + 1
      OBVIOUS
    <3>2. j \in 1..(n + 1)
      BY <1>3, <3>1
    <3>3. QED BY <1>3, <3>2
  <2>3. q = x - 1 => k <= n + 1
    <3>1. SUFFICES ASSUME q = x - 1 PROVE k <= n + 1
      OBVIOUS
    <3>2. k \in 1..(n + 1)
      BY <1>3, <3>1
    <3>3. QED BY <1>3, <3>2
  <2>4. n \in Nat
    BY <1>3
  <2>5. p < q \/ (p = q /\ j < k)
    BY <1>5 DEF Ahead
  <2>6. CASE p = x - 1 /\ j = n + 1
    <3>1. place(p, j) = x /\ index(p, j) = 1
      BY <2>6
    <3>2. q >= x
      BY <2>1, <2>3, <2>4, <2>5, <2>6
    <3>3. place(q, k) = q /\ index(q, k) = IF q = x THEN k + 1 ELSE k
      BY <2>1, <3>2
    <3> HIDE DEF place, index
    <3>5. CASE q = x
      BY <2>1, <3>1, <3>3, <3>5 DEF Ahead
    <3>6. CASE q > x
      BY <2>1, <3>1, <3>3, <3>6 DEF Ahead
    <3>7. QED BY <2>1, <3>2, <3>5, <3>6
  <2>7. CASE ~(p = x - 1 /\ j = n + 1)
    <3>1. place(p, j) = p /\ index(p, j) = IF p = x THEN j + 1 ELSE j
      BY <2>7
    <3>2. CASE q = x - 1 /\ k = n + 1
      <4>1. place(q, k) = x /\ index(q, k) = 1
        BY <3>2
      <4>2. p < x
        BY <2>1, <2>5, <3>2
      <4>3. QED BY <3>1, <4>1, <4>2 DEF Ahead
    <3>3. CASE ~(q = x - 1 /\ k = n + 1)
      <4>1. place(q, k) = q /\ index(q, k) = IF q = x THEN k + 1 ELSE k
        BY <3>3
      <4> HIDE DEF place, index
      <4>2. CASE p < q
        BY <3>1, <4>1, <4>2 DEF Ahead
      <4>3. CASE p = q /\ j < k
        BY <2>1, <3>1, <4>1, <4>3 DEF Ahead
      <4>4. QED BY <2>5, <4>2, <4>3
    <3>4. QED BY <3>2, <3>3
  <2>8. QED BY <2>6, <2>7
<1> HIDE DEF place, index
<1>6. ASSUME NEW p \in 1..K, NEW j \in 1..Len(M[p]),
             NEW q \in 1..K, NEW k \in 1..Len(M[q]), Ahead(p, j, q, k),
             M[p][j] \in S, M[q][k] \in S
      PROVE  M[p][j] < M[q][k]
  <2> DEFINE a == place(p, j)  b == index(p, j)  c == place(q, k)  d == index(q, k)
  <2>1. a \in 1..K /\ b \in 1..Len(L[a]) /\ M[p][j] = L[a][b]
    BY <1>4
  <2>2. c \in 1..K /\ d \in 1..Len(L[c]) /\ M[q][k] = L[c][d]
    BY <1>4
  <2>3. Ahead(a, b, c, d)
    BY <1>5, <1>6
  <2> HIDE DEF a, b, c, d
  <2>4. DOMAIN L = 1..K /\ L[a][b] \in S /\ L[c][d] \in S
    BY <1>0, <1>6, <2>1, <2>2
  <2>5. L[a][b] < L[c][d]
    BY <2>1, <2>2, <2>3, <2>4 DEF InOrder
  <2>6. QED BY <2>1, <2>2, <2>5
<1>7. DOMAIN M = 1..K
  BY <1>0
<1>8. QED BY <1>6, <1>7 DEF InOrder

(* The head of a place leaves the line: order is kept.                     *)
LEMMA LeavesLine ==
  ASSUME NEW K, NEW L, NEW M, IsLine(L, K), IsLine(M, K), NEW S, InOrder(L, S),
         NEW x, Left(L, M, K, x)
  PROVE  InOrder(M, S)
<1>0. /\ K \in Nat /\ L \in [1..K -> Seq(Nat)] /\ M \in [1..K -> Seq(Nat)]
      /\ x \in 1..K /\ L[x] # << >> /\ M[x] = Tail(L[x])
      /\ \A p \in 1..K : p # x => M[p] = L[p]
  BY DEF IsLine, Left
<1> DEFINE index(p, j) == IF p = x THEN j + 1 ELSE j
<1>2. /\ Len(L[x]) \in Nat /\ Len(M[x]) = Len(L[x]) - 1
      /\ \A k \in 1..(Len(L[x]) - 1) : k + 1 \in 1..Len(L[x]) /\ M[x][k] = L[x][k + 1]
  BY <1>0, TailFacts
<1>4. ASSUME NEW p \in 1..K, NEW j \in 1..Len(M[p])
      PROVE  index(p, j) \in 1..Len(L[p]) /\ M[p][j] = L[p][index(p, j)]
  <2>1. CASE p = x BY <1>0, <1>2, <2>1
  <2>2. CASE p # x BY <1>0, <2>2
  <2>3. QED BY <2>1, <2>2
<1>5. ASSUME NEW p \in 1..K, NEW j \in 1..Len(M[p]),
             NEW q \in 1..K, NEW k \in 1..Len(M[q]), Ahead(p, j, q, k)
      PROVE  Ahead(p, index(p, j), q, index(q, k))
  BY SMTT(60), <1>0, <1>5 DEF Ahead
<1> HIDE DEF index
<1>6. ASSUME NEW p \in 1..K, NEW j \in 1..Len(M[p]),
             NEW q \in 1..K, NEW k \in 1..Len(M[q]), Ahead(p, j, q, k),
             M[p][j] \in S, M[q][k] \in S
      PROVE  M[p][j] < M[q][k]
  <2> DEFINE b == index(p, j)  d == index(q, k)
  <2>1. b \in 1..Len(L[p]) /\ M[p][j] = L[p][b]
    BY <1>4
  <2>2. d \in 1..Len(L[q]) /\ M[q][k] = L[q][d]
    BY <1>4
  <2>3. Ahead(p, b, q, d)
    BY <1>5, <1>6
  <2> HIDE DEF b, d
  <2>4. DOMAIN L = 1..K /\ L[p][b] \in S /\ L[q][d] \in S
    BY <1>0, <1>6, <2>1, <2>2
  <2>5. L[p][b] < L[q][d]
    BY <2>1, <2>2, <2>3, <2>4 DEF InOrder
  <2>6. QED BY <2>1, <2>2, <2>5
<1>7. DOMAIN M = 1..K
  BY <1>0
<1>8. QED BY <1>6, <1>7 DEF InOrder

(* A packet of no concern enters a place of the line; or a packet enters   *)
(* at the last place that is greater than those of the set on the line.    *)
LEMMA EntersLine ==
  ASSUME NEW K, NEW L, NEW M, IsLine(L, K), IsLine(M, K), NEW S, InOrder(L, S),
         NEW x, NEW i, Entered(L, M, K, x, i),
         i \in S => /\ x = K
                    /\ \A p \in 1..K : \A j \in 1..Len(L[p]) : L[p][j] \in S => L[p][j] < i
  PROVE  InOrder(M, S)
<1>0. /\ K \in Nat /\ L \in [1..K -> Seq(Nat)] /\ M \in [1..K -> Seq(Nat)]
      /\ x \in 1..K /\ i \in Nat /\ M[x] = Append(L[x], i)
      /\ \A p \in 1..K : p # x => M[p] = L[p]
  BY DEF IsLine, Entered
<1> DEFINE n == Len(L[x])
<1>1. /\ n \in Nat /\ Len(M[x]) = n + 1 /\ M[x][n + 1] = i
      /\ \A k \in 1..n : M[x][k] = L[x][k]
  BY <1>0, AppendFacts
<1> HIDE DEF n
<1>2. ASSUME NEW p \in 1..K, NEW j \in 1..Len(M[p]), ~(p = x /\ j = n + 1)
      PROVE  j \in 1..Len(L[p]) /\ M[p][j] = L[p][j]
  <2>1. CASE p = x
    <3>1. j \in 1..n BY <1>1, <1>2, <2>1
    <3>2. QED BY <1>1, <2>1, <3>1 DEF n
  <2>2. CASE p # x BY <1>0, <2>2
  <2>3. QED BY <2>1, <2>2
<1>3. ASSUME NEW p \in 1..K, NEW j \in 1..Len(M[p]),
             NEW q \in 1..K, NEW k \in 1..Len(M[q]), Ahead(p, j, q, k),
             M[p][j] \in S, M[q][k] \in S
      PROVE  M[p][j] < M[q][k]
  <2>1. CASE p = x /\ j = n + 1
    <3>1. i \in S /\ x = K
      BY <1>1, <1>3, <2>1
    <3>2. q = K /\ k > n + 1
      BY <1>0, <1>1, <1>3, <2>1, <3>1 DEF Ahead
    <3>3. QED BY <1>0, <1>1, <2>1, <3>1, <3>2
  <2>2. CASE ~(p = x /\ j = n + 1) /\ q = x /\ k = n + 1
    <3>1. j \in 1..Len(L[p]) /\ M[p][j] = L[p][j]
      BY <1>2, <2>2
    <3>2. i \in S /\ M[q][k] = i
      BY <1>0, <1>1, <1>3, <2>2
    <3>3. QED BY <1>0, <1>3, <3>1, <3>2
  <2>3. CASE ~(p = x /\ j = n + 1) /\ ~(q = x /\ k = n + 1)
    <3>1. j \in 1..Len(L[p]) /\ M[p][j] = L[p][j]
      BY <1>2, <2>3
    <3>2. k \in 1..Len(L[q]) /\ M[q][k] = L[q][k]
      BY <1>2, <2>3
    <3>3. DOMAIN L = 1..K /\ L[p][j] \in S /\ L[q][k] \in S
      BY <1>0, <1>3, <3>1, <3>2
    <3>4. L[p][j] < L[q][k]
      BY <1>3, <3>1, <3>2, <3>3 DEF InOrder
    <3>5. QED BY <3>1, <3>2, <3>4
  <2>4. QED BY <2>1, <2>2, <2>3
<1>4. DOMAIN M = 1..K
  BY <1>0
<1>5. QED BY <1>3, <1>4 DEF InOrder

-----------------------------------------------------------------------------
(* Recursion along a chain.  Where each element that is no end has one it  *)
(* goes back to, of a smaller measure, a function may be defined by what   *)
(* it is there.  The folds of the library and the recursive functions of   *)
(* the models are of this form.                                            *)
Unrolled(D, ends, base, back, step, f) ==
  [d \in D |-> IF d \in ends THEN base[d] ELSE step[<<d, f[back[d]]>>]]

Chained(D, V, mu, ends, base, back, step) ==
  /\ mu \in [D -> Nat] /\ base \in [D -> V]
  /\ back \in [D -> D] /\ step \in [D \X V -> V]
  /\ \A d \in D \ ends : mu[back[d]] < mu[d]

LEMMA RecursionExists ==
  ASSUME NEW D, NEW V, NEW mu, NEW ends, NEW base, NEW back, NEW step,
         Chained(D, V, mu, ends, base, back, step)
  PROVE  \E f \in [D -> V] : f = Unrolled(D, ends, base, back, step, f)
<1>0. /\ mu \in [D -> Nat] /\ base \in [D -> V]
      /\ back \in [D -> D] /\ step \in [D \X V -> V]
      /\ \A d \in D \ ends : mu[back[d]] < mu[d]
  BY DEF Chained
<1> DEFINE E(f, d) == IF d \in ends THEN base[d] ELSE step[<<d, f[back[d]]>>]
           G(n) == {g \in [D -> V] : \A d \in D : mu[d] < n => g[d] = E(g, d)}
<1>1. \A d \in D : mu[d] \in Nat /\ back[d] \in D
  BY <1>0
<1>2. \A g \in [D -> V], d \in D : E(g, d) \in V
  BY <1>0
<1>3. \A n \in Nat : G(n) # {}
  <2> DEFINE T == {n \in Nat : G(n) = {}}
  <2>1. SUFFICES ASSUME T # {} PROVE FALSE
    OBVIOUS
  <2>2. PICK n \in T : \A y \in T : n <= y
    <3>1. T \subseteq Nat
      OBVIOUS
    <3> HIDE DEF T
    <3>2. QED BY <2>1, <3>1, LeastNatural
  <2>3. n \in Nat /\ G(n) = {}
    OBVIOUS
  <2>4. n # 0
    <3>1. \A d \in D : ~(mu[d] < 0)
      BY <1>1
    <3>2. base \in G(0)
      BY <1>0, <3>1
    <3>3. QED BY <2>3, <3>2
  <2>5. n - 1 \in Nat /\ ~(n <= n - 1)
    BY <2>3, <2>4
  <2>6. PICK g : g \in G(n - 1)
    BY <2>2, <2>5
  <2> DEFINE h == [d \in D |-> E(g, d)]
  <2>7. h \in [D -> V]
    BY <1>2, <2>6
  <2>8. ASSUME NEW d \in D, mu[d] < n PROVE h[d] = E(h, d)
    <3>1. CASE d \in ends
      BY <3>1
    <3>2. CASE d \notin ends
      <4>1. back[d] \in D /\ mu[back[d]] < n - 1
        BY <1>0, <1>1, <2>3, <2>8, <3>2
      <4>2. g[back[d]] = E(g, back[d])
        BY <2>6, <4>1
      <4>3. h[back[d]] = g[back[d]]
        BY <4>1, <4>2
      <4>4. QED BY <3>2, <4>3
    <3>3. QED BY <3>1, <3>2
  <2>9. h \in G(n)
    BY <2>7, <2>8
  <2>10. QED BY <2>3, <2>9
<1>4. ASSUME NEW n \in Nat, NEW o \in Nat, NEW g \in G(n), NEW h \in G(o)
      PROVE  \A d \in D : mu[d] < n /\ mu[d] < o => g[d] = h[d]
  <2> DEFINE U == {d \in D : mu[d] < n /\ mu[d] < o /\ g[d] # h[d]}
             T == {mu[d] : d \in U}
  <2>1. SUFFICES ASSUME T # {} PROVE FALSE
    <3>1. ASSUME NEW d \in D, mu[d] < n, mu[d] < o, g[d] # h[d] PROVE T # {}
      <4>1. d \in U
        BY <3>1
      <4> HIDE DEF U
      <4>2. mu[d] \in T
        BY <4>1
      <4>3. QED BY <4>2
    <3> HIDE DEF T
    <3>2. QED BY <3>1
  <2>2. PICK low \in T : \A y \in T : low <= y
    <3>1. T \subseteq Nat
      BY <1>1
    <3> HIDE DEF T
    <3>2. QED BY <2>1, <3>1, LeastNatural
  <2>3. PICK d \in D : mu[d] = low /\ mu[d] < n /\ mu[d] < o /\ g[d] # h[d]
    <3> HIDE DEF E, G, U
    <3>1. low \in {mu[d] : d \in U}
      BY <2>2
    <3>2. \E d \in U : mu[d] = low
      BY <3>1
    <3>3. QED BY <3>2 DEF U
  <2>4. g[d] = E(g, d) /\ h[d] = E(h, d)
    BY <2>3
  <2>5. d \notin ends
    BY <2>3, <2>4
  <2>6. back[d] \in D /\ mu[back[d]] < low /\ mu[back[d]] \in Nat /\ low \in Nat
    BY <1>0, <1>1, <2>3, <2>5
  <2>7. mu[back[d]] \notin T
    <3> HIDE DEF T
    <3>1. QED BY <2>2, <2>6
  <2>8. mu[back[d]] < n /\ mu[back[d]] < o
    BY <2>3, <2>6
  <2>9. g[back[d]] = h[back[d]]
    BY <2>6, <2>7, <2>8
  <2>10. QED BY <2>3, <2>4, <2>9
<1> DEFINE part(d) == CHOOSE g : g \in G(mu[d] + 1)
           f == [d \in D |-> part(d)[d]]
<1>5. ASSUME NEW d \in D PROVE part(d) \in G(mu[d] + 1) /\ mu[d] + 1 \in Nat /\ mu[d] < mu[d] + 1
  <2>1. mu[d] + 1 \in Nat /\ mu[d] < mu[d] + 1
    BY <1>1
  <2> HIDE DEF G
  <2>2. \E g : g \in G(mu[d] + 1)
    BY <1>3, <2>1
  <2>3. QED BY <2>1, <2>2
<1> HIDE DEF part
<1>6. \A d \in D : part(d) \in [D -> V] /\ part(d)[d] = E(part(d), d)
  BY <1>5
<1>7. f \in [D -> V]
  BY <1>6
<1>8. ASSUME NEW d \in D PROVE f[d] = E(f, d)
  <2>1. CASE d \in ends
    BY <1>6, <2>1
  <2>2. CASE d \notin ends
    <3> DEFINE b == back[d]
    <3>1. b \in D /\ mu[b] < mu[d]
      BY <1>0, <1>1, <2>2
    <3>2. mu[b] < mu[b] + 1 /\ mu[b] < mu[d] + 1
      BY <1>1, <3>1
    <3>3. part(b) \in G(mu[b] + 1) /\ part(d) \in G(mu[d] + 1) /\ mu[b] + 1 \in Nat /\ mu[d] + 1 \in Nat
      BY <1>5, <3>1
    <3> HIDE DEF G, b
    <3>4. part(b)[b] = part(d)[b]
      BY <1>4, <3>1, <3>2, <3>3
    <3>5. f[b] = part(d)[b]
      BY <3>1, <3>4
    <3>6. QED BY <1>6, <2>2, <3>5 DEF b
  <2>3. QED BY <2>1, <2>2
<1>9. f = [d \in D |-> f[d]]
  OBVIOUS
<1> HIDE DEF f
<1>10. f = [d \in D |-> E(f, d)]
  BY <1>8, <1>9
<1>11. QED BY <1>7, <1>10 DEF Unrolled

(* A function may be defined step by step.                                 *)
Stepwise(n, V, first, step) ==
  n \in Nat /\ first \in V /\ step \in [(1..n) \X V -> V]

Steps(n, first, step, f) ==
  f[0] = first /\ \A k \in 1..n : f[k] = step[<<k, f[k - 1]>>]

LEMMA StepsExist ==
  ASSUME NEW n, NEW V, NEW first, NEW step, Stepwise(n, V, first, step)
  PROVE  \E f \in [0..n -> V] : Steps(n, first, step, f)
<1>0. n \in Nat /\ first \in V /\ step \in [(1..n) \X V -> V]
  BY DEF Stepwise
<1> DEFINE D == 0..n
           mu == [d \in D |-> d]
           ends == {0}
           base == [d \in D |-> first]
           back == [d \in D |-> IF d = 0 THEN 0 ELSE d - 1]
           up == [p \in D \X V |-> IF p[1] = 0 THEN first ELSE step[p]]
<1>1. /\ mu \in [D -> Nat] /\ base \in [D -> V] /\ back \in [D -> D]
      /\ \A d \in D \ ends : mu[back[d]] < mu[d]
  BY <1>0
<1>2. up \in [D \X V -> V]
  <2>1. ASSUME NEW p \in D \X V, p[1] # 0 PROVE p \in (1..n) \X V
    <3>1. p = <<p[1], p[2]>> /\ p[1] \in 0..n /\ p[2] \in V
      BY <2>1
    <3>2. p[1] \in 1..n
      BY <2>1, <3>1
    <3>3. QED BY <3>1, <3>2
  <2>2. QED BY <1>0, <2>1
<1>3. PICK f \in [D -> V] : f = Unrolled(D, ends, base, back, up, f)
  <2>1. Chained(D, V, mu, ends, base, back, up)
    BY <1>1, <1>2 DEF Chained
  <2> HIDE DEF D, mu, ends, base, back, up
  <2>2. QED BY <2>1, RecursionExists, SMT
<1>4. \A d \in D : f[d] = IF d \in ends THEN base[d] ELSE up[<<d, f[back[d]]>>]
  BY <1>3 DEF Unrolled
<1>5. f[0] = first
  <2>1. 0 \in D /\ 0 \in ends /\ base[0] = first
    BY <1>0
  <2> HIDE DEF D, ends, base, back, up
  <2>2. QED BY <1>4, <2>1
<1>6. ASSUME NEW k \in 1..n PROVE f[k] = step[<<k, f[k - 1]>>]
  <2>1. k \in D /\ k \notin ends /\ k # 0 /\ back[k] = k - 1 /\ k - 1 \in D
    BY <1>0
  <2>2. <<k, f[k - 1]>> \in D \X V
    BY <2>1
  <2>3. up[<<k, f[k - 1]>>] = step[<<k, f[k - 1]>>]
    BY <2>1, <2>2
  <2>4. f[k] = up[<<k, f[back[k]]>>]
    BY <1>4, <2>1
  <2>5. QED BY <2>1, <2>3, <2>4
<1>7. QED BY <1>5, <1>6 DEF Steps
-----------------------------------------------------------------------------
(* Ranks.  In a finite set with a strict total order, each element is      *)
(* ranked by how many come before it: the ranks are 0, 1, 2 and so on      *)
(* without a gap, and the first n ranks are n elements, or all there are.  *)
StrictOrder(T, R) ==
  /\ \A i \in T : <<i, i>> \notin R
  /\ \A i, j, l \in T : <<i, j>> \in R /\ <<j, l>> \in R => <<i, l>> \in R
  /\ \A i, j \in T : i # j => <<i, j>> \in R \/ <<j, i>> \in R

RankIn(T, R) == [i \in T |-> Cardinality({j \in T : <<j, i>> \in R})]

LEMMA RankFacts ==
  ASSUME NEW T, NEW R, IsFiniteSet(T), StrictOrder(T, R)
  PROVE  /\ Cardinality(T) \in Nat
         /\ RankIn(T, R) \in [T -> 0..(Cardinality(T) - 1)]
         /\ \A i, j \in T : <<i, j>> \in R => RankIn(T, R)[i] < RankIn(T, R)[j]
         /\ \A i, j \in T : RankIn(T, R)[i] < RankIn(T, R)[j] => <<i, j>> \in R
         /\ \A n \in 0..(Cardinality(T) - 1) : \E i \in T : RankIn(T, R)[i] = n
<1> DEFINE before(i) == {j \in T : <<j, i>> \in R}
           rank == RankIn(T, R)
           top == Cardinality(T)
<1>1. top \in Nat
  BY FS_CardinalityType
<1>2. \A i \in T : /\ rank[i] = Cardinality(before(i)) /\ IsFiniteSet(before(i))
                   /\ Cardinality(before(i)) \in Nat
  <2>1. SUFFICES ASSUME NEW i \in T
                 PROVE  /\ rank[i] = Cardinality(before(i)) /\ IsFiniteSet(before(i))
                        /\ Cardinality(before(i)) \in Nat
    OBVIOUS
  <2>2. rank[i] = Cardinality(before(i))
    BY DEF RankIn
  <2>3. before(i) \in SUBSET T
    OBVIOUS
  <2>4. QED BY <2>2, <2>3, FS_Subset, FS_CardinalityType
<1>3. ASSUME NEW i \in T PROVE rank[i] \in 0..(top - 1)
  <2>1. before(i) \in SUBSET (T \ {i})
    BY DEF StrictOrder
  <2>2. IsFiniteSet(T \ {i}) /\ Cardinality(T \ {i}) = top - 1
    BY FS_RemoveElement
  <2> HIDE DEF before
  <2>3. Cardinality(before(i)) <= Cardinality(T \ {i})
    BY <2>1, <2>2, FS_Subset
  <2>4. QED BY <1>1, <1>2, <2>2, <2>3
<1>4. ASSUME NEW i \in T, NEW j \in T, <<i, j>> \in R PROVE rank[i] < rank[j]
  <2>1. before(i) \in SUBSET before(j)
    BY <1>4 DEF StrictOrder
  <2>2. i \in before(j) /\ i \notin before(i)
    BY <1>4 DEF StrictOrder
  <2>3. Cardinality(before(i)) <= Cardinality(before(j))
    BY <1>2, <2>1, FS_Subset
  <2>4. Cardinality(before(j)) # Cardinality(before(i))
    BY <1>2, <2>1, <2>2, FS_Subset
  <2>5. QED BY <1>2, <2>3, <2>4
<1>5. rank \in [T -> 0..(top - 1)]
  BY <1>3 DEF RankIn
<1>6. ASSUME NEW i \in T, NEW j \in T, rank[i] < rank[j] PROVE <<i, j>> \in R
  <2>1. rank[i] \in Int /\ rank[j] \in Int
    BY <1>3
  <2>2. i # j /\ ~ (<<j, i>> \in R)
    BY <1>4, <1>6, <2>1
  <2>3. QED BY <2>2 DEF StrictOrder
<1>7. rank \in Injection(T, 0..(top - 1))
  <2>1. ASSUME NEW i \in T, NEW j \in T, i # j PROVE rank[i] # rank[j]
    <3>1. rank[i] < rank[j] \/ rank[j] < rank[i]
      BY <1>4, <2>1 DEF StrictOrder
    <3>2. rank[i] \in Int /\ rank[j] \in Int
      BY <1>3
    <3>3. QED BY <3>1, <3>2
  <2>2. QED BY <1>5, <2>1 DEF Injection, IsInjective
<1>8. IsFiniteSet(0..(top - 1)) /\ Cardinality(0..(top - 1)) = top
  <2>1. top \in Nat
    BY <1>1
  <2> HIDE DEF top
  <2>2. 0 \in Int /\ top - 1 \in Int
        /\ (IF 0 > top - 1 THEN 0 ELSE (top - 1) - 0 + 1) = top
    BY <2>1
  <2>3. QED BY <2>2, FS_Interval
<1>9. rank \in Surjection(T, 0..(top - 1))
  BY <1>7, <1>8, FS_Injection
<1>10. QED BY <1>1, <1>4, <1>5, <1>6, <1>9 DEF Surjection

LEMMA FirstRanks ==
  ASSUME NEW T, NEW R, IsFiniteSet(T), StrictOrder(T, R), NEW n \in Nat
  PROVE  LET first == {i \in T : RankIn(T, R)[i] < n}
         IN /\ IsFiniteSet(first) /\ Cardinality(first) \in Nat
            /\ Cardinality(first) <= n
            /\ first # T => Cardinality(first) = n
            /\ {RankIn(T, R)[i] : i \in first} = 0..(Cardinality(first) - 1)
<1> DEFINE rank == RankIn(T, R)
           top == Cardinality(T)
           first == {i \in T : rank[i] < n}
           least == IF n <= top THEN n ELSE top
           f == [i \in first |-> rank[i]]
<1>1. /\ top \in Nat /\ rank \in [T -> 0..(top - 1)]
      /\ \A l \in 0..(top - 1) : \E i \in T : rank[i] = l
      /\ \A i, j \in T : i # j => rank[i] # rank[j]
  <2>1. /\ top \in Nat /\ rank \in [T -> 0..(top - 1)]
        /\ \A i, j \in T : <<i, j>> \in R => rank[i] < rank[j]
        /\ \A l \in 0..(top - 1) : \E i \in T : rank[i] = l
    BY RankFacts
  <2> HIDE DEF rank, top
  <2>2. \A i \in T : rank[i] \in Int
    BY <2>1
  <2>3. ASSUME NEW i \in T, NEW j \in T, i # j PROVE rank[i] # rank[j]
    <3>1. <<i, j>> \in R \/ <<j, i>> \in R
      BY <2>3 DEF StrictOrder
    <3>2. rank[i] < rank[j] \/ rank[j] < rank[i]
      BY <2>1, <3>1
    <3>3. QED BY <2>2, <3>2
  <2>4. QED BY <2>1, <2>3
<1> HIDE DEF rank
<1>2. least \in Nat /\ least <= n /\ least <= top
  BY <1>1
<1>3. \A i \in first : rank[i] \in 0..(least - 1)
  BY <1>1
<1>4. f \in [first -> 0..(least - 1)]
  BY <1>3
<1>5. \A l \in 0..(least - 1) : \E i \in first : f[i] = l
  <2>1. SUFFICES ASSUME NEW l \in 0..(least - 1) PROVE \E i \in first : f[i] = l
    OBVIOUS
  <2>2. l \in 0..(top - 1) /\ l < n
    BY <1>1
  <2>3. PICK i \in T : rank[i] = l
    BY <1>1, <2>2
  <2>4. QED BY <2>2, <2>3
<1>6. f \in Bijection(first, 0..(least - 1))
  BY <1>1, <1>4, <1>5 DEF Bijection, Injection, Surjection, IsInjective
<1>7. IsFiniteSet(first) /\ Cardinality(first) \in Nat
  <2>1. first \in SUBSET T
    OBVIOUS
  <2>2. QED BY <2>1, FS_Subset, FS_CardinalityType
<1>8. Cardinality(0..(least - 1)) = least
  <2> HIDE DEF least
  <2>1. QED BY <1>2, FS_Interval
<1>9. Cardinality(first) = least
  <2>1. ExistsBijection(first, 0..(least - 1))
    BY <1>6 DEF ExistsBijection
  <2>2. Cardinality(0..(least - 1)) = Cardinality(first)
    BY <1>7, <2>1, FS_Bijection
  <2>3. QED BY <1>8, <2>2
<1>10. first # T => least = n
  <2>1. SUFFICES ASSUME n > top PROVE first = T
    BY <1>1
  <2>2. \A i \in T : rank[i] < n
    BY <1>1, <2>1
  <2>3. QED BY <2>2
<1>11. {rank[i] : i \in first} = 0..(least - 1)
  BY <1>3, <1>5
<1>12. QED BY <1>2, <1>7, <1>9, <1>10, <1>11 DEF rank

(* The image of a finite set is finite.                                    *)
LEMMA FiniteImage ==
  ASSUME NEW D, IsFiniteSet(D), NEW f
  PROVE  IsFiniteSet({f[x] : x \in D}) /\ Cardinality({f[x] : x \in D}) \in Nat
<1> DEFINE T == {f[x] : x \in D}
           g == [x \in D |-> f[x]]
<1>1. g \in Surjection(D, T)
  BY DEF Surjection
<1> HIDE DEF T, g
<1>2. IsFiniteSet(T)
  BY <1>1, FS_Surjection
<1>3. QED BY <1>2, FS_CardinalityType DEF T
=============================================================================
