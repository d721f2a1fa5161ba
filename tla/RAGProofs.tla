----------------------------- MODULE RAGProofs -----------------------------
(***************************************************************************)
(* Proofs about Evaluation: the report and its redaction, retrieval and the*)
(* budget, and what a study recommends; for any snapshot, index, signals,  *)
(* limits, data set and plan.                                              *)
(***************************************************************************)
EXTENDS Evaluation, LineProofs, FiniteSetTheorems, TLAPS
-----------------------------------------------------------------------------
(* Retrieval and its place in Evaluation, for any index answers, plan of   *)
(* configurations and data set that the programs may be run with.  What    *)
(* the three loops build is described by operators of the values they      *)
(* read, so that a step of one loop is a fact about plain values.          *)

(* Hits, Tier and Precedes as operators of what they depend on: the scores *)
(* s, the configuration g, the fired signals f, the merged scores b.       *)
HitsOf(s, g, q) ==
  {c \in Chunks : /\ s[q][c] >= g.min_similarity
                  /\ Cardinality({d \in Chunks : Closer(s[q], d, c)}) < g.per_query_top_k}

Finders(Q, s, g, c) == {q \in Q : c \in HitsOf(s, g, q)}

(* b and p are the merge of the answers to the queries Q.                  *)
Merged(Q, s, g, b, p) ==
  /\ DOMAIN b \subseteq Chunks /\ b \in [DOMAIN b -> Nat] /\ DOMAIN p = DOMAIN b
  /\ \A c \in Chunks : c \in DOMAIN b <=> Finders(Q, s, g, c) # {}
  /\ \A c \in DOMAIN b :
       /\ p[c] = {<<q, s[q][c]>> : q \in Finders(Q, s, g, c)}
       /\ \A q \in Finders(Q, s, g, c) : b[c] >= s[q][c]
       /\ \E q \in Finders(Q, s, g, c) : b[c] = s[q][c]

(* One more query searched is one more query merged.                       *)
LEMMA MergeOne ==
  ASSUME NEW Q, NEW s, NEW g, NEW b, NEW p, NEW q, NEW b2, NEW p2,
         Merged(Q, s, g, b, p),
         \A r \in Q \cup {q} : s[r] \in [Chunks -> Nat],
         b2 = [c \in DOMAIN b \cup HitsOf(s, g, q) |->
                 IF c \in HitsOf(s, g, q)
                 THEN (IF c \notin DOMAIN b \/ s[q][c] > b[c] THEN s[q][c] ELSE b[c])
                 ELSE b[c]],
         p2 = [c \in DOMAIN b2 |->
                 (IF c \in DOMAIN b THEN p[c] ELSE {})
                   \cup (IF c \in HitsOf(s, g, q) THEN {<<q, s[q][c]>>} ELSE {})]
  PROVE  Merged(Q \cup {q}, s, g, b2, p2)
<1> DEFINE H == HitsOf(s, g, q)
           R == Q \cup {q}
<1>1. H \subseteq Chunks
  BY DEF HitsOf
<1>2. \A c : /\ c \in H => Finders(R, s, g, c) = Finders(Q, s, g, c) \cup {q}
             /\ c \notin H => Finders(R, s, g, c) = Finders(Q, s, g, c)
  BY DEF Finders
<1>3. DOMAIN b \subseteq Chunks /\ b \in [DOMAIN b -> Nat] /\ DOMAIN p = DOMAIN b
  BY DEF Merged
<1>4. DOMAIN b2 = DOMAIN b \cup H /\ DOMAIN p2 = DOMAIN b2
  OBVIOUS
<1>5. b2 \in [DOMAIN b2 -> Nat]
  <2>1. ASSUME NEW c \in DOMAIN b \cup H
        PROVE  (IF c \in H THEN (IF c \notin DOMAIN b \/ s[q][c] > b[c] THEN s[q][c] ELSE b[c])
                ELSE b[c]) \in Nat
    BY <1>1, <1>3
  <2>2. QED BY <2>1, <1>4
<1>6. \A c \in Chunks : c \in DOMAIN b2 <=> Finders(R, s, g, c) # {}
  BY <1>2, <1>4 DEF Merged
<1>7. ASSUME NEW c \in DOMAIN b2
      PROVE  /\ p2[c] = {<<r, s[r][c]>> : r \in Finders(R, s, g, c)}
             /\ \A r \in Finders(R, s, g, c) : b2[c] >= s[r][c]
             /\ \E r \in Finders(R, s, g, c) : b2[c] = s[r][c]
  <2>1. /\ b2[c] = (IF c \in H
                    THEN (IF c \notin DOMAIN b \/ s[q][c] > b[c] THEN s[q][c] ELSE b[c])
                    ELSE b[c])
        /\ p2[c] = (IF c \in DOMAIN b THEN p[c] ELSE {})
                     \cup (IF c \in H THEN {<<q, s[q][c]>>} ELSE {})
    BY <1>4
  <2>2. c \in Chunks
    BY <1>1, <1>3, <1>4
  <2>3. \A r \in R : s[r][c] \in Nat
    BY <2>2
  <2>4. /\ c \notin DOMAIN b => Finders(Q, s, g, c) = {}
        /\ c \in DOMAIN b =>
             /\ p[c] = {<<r, s[r][c]>> : r \in Finders(Q, s, g, c)}
             /\ \A r \in Finders(Q, s, g, c) : b[c] >= s[r][c]
             /\ \E r \in Finders(Q, s, g, c) : b[c] = s[r][c]
             /\ b[c] \in Nat
    BY <2>2, <1>3 DEF Merged
  <2>5. Finders(Q, s, g, c) \subseteq R
    BY DEF Finders
  <2>6. CASE c \in H
    <3>1. Finders(R, s, g, c) = Finders(Q, s, g, c) \cup {q}
      BY <2>6, <1>2
    <3>2. CASE c \notin DOMAIN b
      <4>1. p2[c] = {<<q, s[q][c]>>} /\ b2[c] = s[q][c] /\ Finders(R, s, g, c) = {q}
        BY <2>1, <2>4, <2>6, <3>1, <3>2
      <4>2. {<<r, s[r][c]>> : r \in {q}} = {<<q, s[q][c]>>}
        OBVIOUS
      <4>3. s[q][c] \in Nat
        BY <2>3
      <4>4. /\ p2[c] = {<<r, s[r][c]>> : r \in Finders(R, s, g, c)}
            /\ \A r \in Finders(R, s, g, c) : r = q
            /\ q \in Finders(R, s, g, c)
        BY <4>1, <4>2
      <4>5. \A r \in Finders(R, s, g, c) : b2[c] >= s[r][c]
        <5>1. TAKE r \in Finders(R, s, g, c)
        <5>2. r = q
          BY <4>4
        <5>3. QED BY <5>2, <4>1, <4>3
      <4>6. \E r \in Finders(R, s, g, c) : b2[c] = s[r][c]
        BY <4>1, <4>4
      <4>7. QED BY <4>4, <4>5, <4>6
    <3>3. CASE c \in DOMAIN b
      <4>1. p2[c] = {<<r, s[r][c]>> : r \in Finders(Q, s, g, c)} \cup {<<q, s[q][c]>>}
        BY <2>1, <2>4, <2>6, <3>3
      <4>2. {<<r, s[r][c]>> : r \in Finders(Q, s, g, c)} \cup {<<q, s[q][c]>>}
              = {<<r, s[r][c]>> : r \in Finders(R, s, g, c)}
        BY <3>1
      <4>3. b2[c] = IF s[q][c] > b[c] THEN s[q][c] ELSE b[c]
        BY <2>1, <2>6, <3>3
      <4>4. \A r \in Finders(R, s, g, c) : b2[c] >= s[r][c]
        BY <4>3, <3>1, <2>3, <2>4, <2>5, <3>3
      <4>5. \E r \in Finders(R, s, g, c) : b2[c] = s[r][c]
        BY <4>3, <3>1, <2>4, <3>3
      <4>6. QED BY <4>1, <4>2, <4>4, <4>5
    <3>4. QED BY <3>2, <3>3
  <2>7. CASE c \notin H
    <3>1. c \in DOMAIN b /\ Finders(R, s, g, c) = Finders(Q, s, g, c)
      BY <2>7, <1>2, <1>4
    <3>2. b2[c] = b[c] /\ p2[c] = p[c]
      BY <2>1, <2>7, <3>1
    <3>3. QED BY <3>1, <3>2, <2>4
  <2>8. QED BY <2>6, <2>7
<1>8. QED BY <1>1, <1>3, <1>4, <1>5, <1>6, <1>7 DEF Merged

TierOf(f, g, c) ==
  IF ~g.affinity \/ f = << >> \/ AppliesTo[c] = {} THEN 1
  ELSE IF AppliesTo[c] \cap DOMAIN f # {} THEN 0 ELSE 2

Earlier(f, g, b, c, d) ==
  \/ TierOf(f, g, c) < TierOf(f, g, d)
  \/ TierOf(f, g, c) = TierOf(f, g, d) /\ Closer(b, c, d)

(* The rank order is a strict order of the chunks found.                   *)
LEMMA EarlierOrders ==
  ASSUME NEW f, NEW g, NEW b, DOMAIN b \subseteq Nat, b \in [DOMAIN b -> Nat]
  PROVE  /\ \A c \in DOMAIN b : ~Earlier(f, g, b, c, c)
         /\ \A c, d \in DOMAIN b : Earlier(f, g, b, c, d) => ~Earlier(f, g, b, d, c)
         /\ \A c, d, e \in DOMAIN b :
              Earlier(f, g, b, c, d) /\ Earlier(f, g, b, d, e) => Earlier(f, g, b, c, e)
<1>1. \A c : TierOf(f, g, c) \in 0..2
  BY DEF TierOf
<1>2. \A c \in DOMAIN b : c \in Nat /\ b[c] \in Nat /\ TierOf(f, g, c) \in Int
  BY <1>1
<1>3. QED BY <1>2 DEF Earlier, Closer

ChunksOf(list) == {list[i] : i \in DOMAIN list}
OfDoc(list, doc) == {i \in DOMAIN list : Document[list[i]] = doc}
Sooner(f, g, b, list, c) ==
  {i \in OfDoc(list, Document[c]) : Earlier(f, g, b, list[i], c)}

(* list is a ranking of what b holds but W, which all comes later; what is *)
(* in neither was turned down when its document was full.                  *)
Ranked(f, g, b, W, list) ==
  /\ W \subseteq DOMAIN b
  /\ list \in Seq(DOMAIN b \ W) /\ Len(list) <= g.final_top_k
  /\ \A i \in 1..Len(list) : \A c \in W : Earlier(f, g, b, list[i], c)
  /\ \A i, j \in 1..Len(list) : i < j => Earlier(f, g, b, list[i], list[j])
  /\ \A doc : Cardinality(OfDoc(list, doc)) <= g.max_per_document
  /\ \A c \in DOMAIN b \ (W \cup ChunksOf(list)) :
       Cardinality(Sooner(f, g, b, list, c)) = g.max_per_document

(* Ranking the first chunk that waits, or turning it down.  A document     *)
(* that is full stays full, so those turned down before stay right.        *)
LEMMA SelectOne ==
  ASSUME NEW f, NEW g \in RetrievalConfigs, NEW b, NEW W, NEW list, NEW c \in W, NEW next,
         DOMAIN b \subseteq Nat, b \in [DOMAIN b -> Nat],
         Ranked(f, g, b, W, list), Len(list) < g.final_top_k,
         \A d \in W \ {c} : Earlier(f, g, b, c, d),
         next = IF Cardinality(OfDoc(list, Document[c])) >= g.max_per_document
                THEN list ELSE Append(list, c)
  PROVE  Ranked(f, g, b, W \ {c}, next)
<1> DEFINE top == g.max_per_document
           mine == OfDoc(list, Document[c])
           V == W \ {c}
<1>1. /\ W \subseteq DOMAIN b /\ list \in Seq(DOMAIN b \ W)
      /\ Len(list) \in Nat /\ DOMAIN list = 1..Len(list)
      /\ \A i \in 1..Len(list) : list[i] \in DOMAIN b \ W
  <2>1. W \subseteq DOMAIN b /\ list \in Seq(DOMAIN b \ W)
    BY DEF Ranked
  <2>2. QED BY <2>1
<1>2. top \in Nat /\ g.final_top_k \in Nat
  BY DEF RetrievalConfigs
<1>3. \A doc : /\ IsFiniteSet(OfDoc(list, doc)) /\ OfDoc(list, doc) \subseteq 1..Len(list)
               /\ Cardinality(OfDoc(list, doc)) \in Nat
  <2> TAKE doc
  <2>1. 1 \in Int /\ Len(list) \in Int
    BY <1>1
  <2>2. OfDoc(list, doc) \subseteq 1..Len(list) /\ IsFiniteSet(1..Len(list))
    BY <1>1, <2>1, FS_Interval DEF OfDoc
  <2>3. QED BY <2>2, FS_Subset, FS_CardinalityType
<1>4. CASE Cardinality(mine) >= top
  <2>1. next = list
    BY <1>4
  <2>2. Cardinality(mine) = top
    BY <1>2, <1>3, <1>4 DEF Ranked
  <2>3. Sooner(f, g, b, list, c) = mine
    BY <1>1 DEF Sooner, OfDoc, Ranked
  <2>4. list \in Seq(DOMAIN b \ V)
    BY <1>1
  <2>5. ASSUME NEW d \in DOMAIN b \ (V \cup ChunksOf(list))
        PROVE  Cardinality(Sooner(f, g, b, list, d)) = top
    <3>1. CASE d = c
      BY <3>1, <2>2, <2>3
    <3>2. CASE d # c
      BY <3>2 DEF Ranked
    <3>3. QED BY <3>1, <3>2
  <2>6. QED BY <2>1, <2>4, <2>5 DEF Ranked
<1>5. CASE ~(Cardinality(mine) >= top)
  <2> DEFINE n == Len(list) + 1
  <2>1. next = Append(list, c)
    BY <1>5
  <2>2. /\ next \in Seq(DOMAIN b \ V) /\ Len(next) = n /\ n \in Nat /\ n >= 1
        /\ DOMAIN next = 1..n /\ next[n] = c
        /\ \A i \in 1..Len(list) : next[i] = list[i]
    BY <1>1, <2>1
  <2>3. \A doc : OfDoc(next, doc) = OfDoc(list, doc) \cup (IF Document[c] = doc THEN {n} ELSE {})
    <3>1. TAKE doc
    <3>2. \A i : i \in 1..n <=> i \in 1..Len(list) \/ i = n
      BY <1>1
    <3>3. n \notin 1..Len(list)
      BY <1>1
    <3>4. \A i : i \in OfDoc(next, doc) <=> i \in 1..n /\ Document[next[i]] = doc
      BY <2>2 DEF OfDoc
    <3>5. \A i : i \in OfDoc(list, doc) <=> i \in 1..Len(list) /\ Document[list[i]] = doc
      BY <1>1 DEF OfDoc
    <3>6. ASSUME NEW i
          PROVE  i \in OfDoc(next, doc) <=> i \in OfDoc(list, doc) \/ (i = n /\ Document[c] = doc)
      <4>1. CASE i \in 1..Len(list)
        <5>1. next[i] = list[i] /\ i # n /\ i \in 1..n
          BY <4>1, <3>2, <3>3, <2>2
        <5>2. QED BY <4>1, <5>1, <3>4, <3>5
      <4>2. CASE i = n
        <5>1. next[i] = c /\ i \notin 1..Len(list) /\ i \in 1..n
          BY <4>2, <3>2, <3>3, <2>2
        <5>2. QED BY <4>2, <5>1, <3>4, <3>5
      <4>3. CASE i \notin 1..Len(list) /\ i # n
        BY <4>3, <3>2, <3>4, <3>5
      <4>4. QED BY <4>1, <4>2, <4>3
    <3>7. QED BY <3>6
  <2>4. \A doc : Cardinality(OfDoc(next, doc)) <= top
    <3>1. TAKE doc
    <3>2. CASE Document[c] = doc
      <4>1. OfDoc(next, doc) = mine \cup {n} /\ n \notin mine
        BY <3>2, <2>3, <1>3, <1>1
      <4>2. Cardinality(OfDoc(next, doc)) = Cardinality(mine) + 1
        BY <4>1, <1>3, FS_AddElement
      <4>3. QED BY <4>2, <1>2, <1>3, <1>5
    <3>3. CASE Document[c] # doc
      <4>1. OfDoc(next, doc) = OfDoc(list, doc)
        BY <3>3, <2>3
      <4>2. Cardinality(OfDoc(list, doc)) <= top
        BY DEF Ranked
      <4>3. QED BY <4>1, <4>2
    <3>4. QED BY <3>2, <3>3
  <2>5. ASSUME NEW i \in 1..n, NEW d \in V
        PROVE  Earlier(f, g, b, next[i], d)
    <3>1. CASE i = n
      BY <3>1, <2>2
    <3>2. CASE i # n
      <4>1. i \in 1..Len(list)
        BY <3>2, <1>1
      <4>2. QED BY <4>1, <2>2 DEF Ranked
    <3>3. QED BY <3>1, <3>2
  <2>6. ASSUME NEW i \in 1..n, NEW j \in 1..n, i < j
        PROVE  Earlier(f, g, b, next[i], next[j])
    <3>1. i \in 1..Len(list) /\ next[i] = list[i]
      BY <2>6, <2>2, <1>1
    <3>2. CASE j = n
      BY <3>1, <3>2, <2>2 DEF Ranked
    <3>3. CASE j # n
      <4>1. j \in 1..Len(list) /\ next[j] = list[j]
        BY <3>3, <2>2, <1>1
      <4>2. QED BY <4>1, <3>1, <2>6 DEF Ranked
    <3>4. QED BY <3>2, <3>3
  <2>7. ASSUME NEW d \in DOMAIN b \ (V \cup ChunksOf(next))
        PROVE  Cardinality(Sooner(f, g, b, next, d)) = top
    <3>1. ChunksOf(next) = ChunksOf(list) \cup {c}
      <4>1. \A i : i \in 1..n <=> i \in 1..Len(list) \/ i = n
        BY <1>1
      <4>2. QED BY <4>1, <2>2, <1>1 DEF ChunksOf
    <3>2. d # c /\ d \in DOMAIN b \ (W \cup ChunksOf(list))
      BY <3>1
    <3>3. Cardinality(Sooner(f, g, b, list, d)) = top
      BY <3>2 DEF Ranked
    <3>4. Sooner(f, g, b, list, d) \subseteq OfDoc(list, Document[d])
      BY DEF Sooner
    <3>5. Cardinality(OfDoc(list, Document[d])) >= top
      BY <3>3, <3>4, <1>3, FS_Subset
    <3>6. Document[c] # Document[d]
      BY <3>5, <1>5
    <3>7. OfDoc(next, Document[d]) = OfDoc(list, Document[d])
      <4>1. OfDoc(next, Document[d]) = OfDoc(list, Document[d])
              \cup (IF Document[c] = Document[d] THEN {n} ELSE {})
        BY <2>3
      <4>2. QED BY <3>6, <4>1
    <3>8. Sooner(f, g, b, next, d) = Sooner(f, g, b, list, d)
      BY <3>7, <2>2, <1>3 DEF Sooner
    <3>9. QED BY <3>3, <3>8
  <2>8. Len(next) <= g.final_top_k
    BY <2>2, <1>1, <1>2
  <2>9. V \subseteq DOMAIN b
    BY <1>1
  <2> HIDE DEF n, V
  <2>10. QED BY <2>2, <2>4, <2>5, <2>6, <2>7, <2>8, <2>9 DEF Ranked, V
<1>6. QED BY <1>4, <1>5

(* The texts of a list exist: a function that fails at no first place does *)
(* not fail.                                                               *)
Running(list, top, f) ==
  f = [n \in 0..top |-> IF n = 0 THEN 0 ELSE f[n - 1] + Size[list[n].chunk]]

(* Texts adds up what it says it adds up.                                  *)
LEMMA TextsFacts ==
  ASSUME NEW list, Len(list) \in Nat,
         \A i \in 1..Len(list) : Size[list[i].chunk] \in Nat
  PROVE  /\ Texts(list)[0] = 0
         /\ \A n \in 1..Len(list) : Texts(list)[n] = Texts(list)[n - 1] + Size[list[n].chunk]
         /\ \A n \in 0..Len(list) : Texts(list)[n] \in Nat
<1> DEFINE top == Len(list)
<1>1. \A n \in 0..top : \E f : Running(list, n, f) /\ f \in [0..n -> Nat]
  <2> DEFINE T == {n \in 0..top : ~\E f : Running(list, n, f) /\ f \in [0..n -> Nat]}
  <2>1. SUFFICES T = {}
    OBVIOUS
  <2>2. SUFFICES ASSUME T # {} PROVE FALSE
    OBVIOUS
  <2>3. PICK n \in T : \A y \in T : n <= y
    <3>1. T \subseteq Nat
      OBVIOUS
    <3> HIDE DEF T
    <3>2. QED BY <2>2, <3>1, LeastNatural
  <2>4. n \in 0..top
    OBVIOUS
  <2>5. CASE n = 0
    <3> DEFINE f == [i \in 0..0 |-> 0]
    <3>1. f \in [0..n -> Nat]
      BY <2>5
    <3>2. f = [i \in 0..n |-> IF i = 0 THEN 0 ELSE f[i - 1] + Size[list[i].chunk]]
      BY <2>5
    <3>3. QED BY <3>1, <3>2 DEF Running
  <2>6. CASE n # 0
    <3>1. n - 1 \in 0..top /\ ~(n <= n - 1)
      BY <2>4, <2>6
    <3>2. n - 1 \notin T
      BY <3>1, <2>3
    <3>3. PICK f : Running(list, n - 1, f) /\ f \in [0..(n - 1) -> Nat]
      BY <3>1, <3>2
    <3>4. \A i \in 0..(n - 1) : f[i] = IF i = 0 THEN 0 ELSE f[i - 1] + Size[list[i].chunk]
      BY <3>3 DEF Running
    <3> DEFINE h == [i \in 0..n |-> IF i = n THEN f[n - 1] + Size[list[n].chunk] ELSE f[i]]
    <3>5. \A i \in 0..n : i = n \/ i \in 0..(n - 1)
      BY <2>4
    <3>6. \A i \in 0..n : h[i] = IF i = n THEN f[n - 1] + Size[list[n].chunk] ELSE f[i]
      OBVIOUS
    <3>7. f[n - 1] + Size[list[n].chunk] \in Nat
      <4>1. n \in 1..Len(list) /\ n - 1 \in 0..(n - 1)
        BY <2>4, <2>6
      <4>2. QED BY <4>1, <3>3
    <3>8. h \in [0..n -> Nat]
      BY <3>3, <3>5, <3>7
    <3>9. ASSUME NEW i \in 0..n
          PROVE  h[i] = IF i = 0 THEN 0 ELSE h[i - 1] + Size[list[i].chunk]
      <4>1. CASE i = n
        <5>1. n - 1 \in 0..n /\ n - 1 # n
          BY <2>4, <2>6
        <5>2. h[n - 1] = f[n - 1]
          BY <5>1, <3>6
        <5>3. QED BY <4>1, <5>2, <3>6, <2>6
      <4>2. CASE i # n
        <5>1. i \in 0..(n - 1)
          BY <4>2, <3>5
        <5>2. CASE i = 0
          BY <5>1, <5>2, <4>2, <3>4, <3>6
        <5>3. CASE i # 0
          <6>1. i - 1 \in 0..n /\ i - 1 # n
            BY <5>1, <5>3, <2>4
          <6>2. h[i - 1] = f[i - 1] /\ h[i] = f[i]
            BY <6>1, <4>2, <3>6
          <6>3. QED BY <6>2, <5>1, <5>3, <3>4
        <5>4. QED BY <5>2, <5>3
      <4>3. QED BY <4>1, <4>2
    <3>10. h = [i \in 0..n |-> IF i = 0 THEN 0 ELSE h[i - 1] + Size[list[i].chunk]]
      <4> HIDE DEF h
      <4>1. h = [i \in 0..n |-> h[i]]
        BY <3>8
      <4>2. QED BY <4>1, <3>9
    <3>11. QED BY <3>8, <3>10, <2>4 DEF Running
  <2>7. QED BY <2>5, <2>6
<1>2. PICK f : Running(list, top, f)
  BY <1>1
<1>3. Texts(list) = CHOOSE g : Running(list, top, g)
  BY DEF Texts, Running
<1>4. Running(list, top, Texts(list))
  BY <1>2, <1>3
<1>5. \A n \in 0..top : Texts(list)[n] = IF n = 0 THEN 0 ELSE Texts(list)[n - 1] + Size[list[n].chunk]
  BY <1>4 DEF Running
<1>6. Texts(list)[0] = 0
  BY <1>5
<1>7. \A n \in 1..top : Texts(list)[n] = Texts(list)[n - 1] + Size[list[n].chunk]
  BY <1>5
<1>8. \A n \in 0..top : Texts(list)[n] \in Nat
  <2> DEFINE T == {n \in 0..top : Texts(list)[n] \notin Nat}
  <2>1. SUFFICES ASSUME T # {} PROVE FALSE
    OBVIOUS
  <2>2. PICK n \in T : \A y \in T : n <= y
    <3>1. T \subseteq Nat
      OBVIOUS
    <3> HIDE DEF T
    <3>2. QED BY <2>1, <3>1, LeastNatural
  <2>3. n \in 0..top /\ Texts(list)[n] \notin Nat
    OBVIOUS
  <2>4. n # 0
    BY <2>3, <1>6
  <2>5. n \in 1..top /\ n - 1 \in 0..top /\ ~(n <= n - 1)
    BY <2>3, <2>4
  <2>6. Texts(list)[n - 1] \in Nat
    BY <2>2, <2>5
  <2>7. QED BY <2>3, <2>5, <2>6, <1>7
<1>9. QED BY <1>6, <1>7, <1>8

(* Lists that begin alike have texts of the same length there.             *)
LEMMA SameBeginning ==
  ASSUME NEW a, NEW b, Len(a) \in Nat, Len(b) \in Nat, Len(a) <= Len(b),
         \A i \in 1..Len(b) : Size[b[i].chunk] \in Nat,
         \A i \in 1..Len(a) : a[i] = b[i]
  PROVE  \A n \in 0..Len(a) : Texts(a)[n] = Texts(b)[n]
<1> DEFINE T == {n \in 0..Len(a) : Texts(a)[n] # Texts(b)[n]}
<1>1. SUFFICES ASSUME T # {} PROVE FALSE
  OBVIOUS
<1>2. PICK n \in T : \A y \in T : n <= y
  <2>1. T \subseteq Nat
    OBVIOUS
  <2> HIDE DEF T
  <2>2. QED BY <1>1, <2>1, LeastNatural
<1>3. n \in 0..Len(a) /\ Texts(a)[n] # Texts(b)[n]
  OBVIOUS
<1>4. \A i \in 1..Len(a) : Size[a[i].chunk] \in Nat /\ i \in 1..Len(b)
  OBVIOUS
<1>5. n # 0
  BY <1>3, <1>4, TextsFacts
<1>6. n \in 1..Len(a) /\ n - 1 \in 0..Len(a) /\ ~(n <= n - 1)
  BY <1>3, <1>5
<1>7. Texts(a)[n - 1] = Texts(b)[n - 1]
  BY <1>2, <1>6
<1>8. Texts(a)[n] = Texts(a)[n - 1] + Size[a[n].chunk]
  BY <1>4, <1>6, TextsFacts
<1>9. Texts(b)[n] = Texts(b)[n - 1] + Size[b[n].chunk]
  BY <1>4, <1>6, TextsFacts
<1>10. QED BY <1>3, <1>4, <1>6, <1>7, <1>8, <1>9

Excerpt == [ref : Nat, rank : Nat, chunk : Chunks]
Reasons == {"max_items", "max_chars", "max_total_tokens"}
Exclusion == [chunk : Chunks, rank : Nat, reason : Reasons]

(* One more excerpt makes the block larger by its own size and a blank     *)
(* line, and leaves the size of the block before it as it was.             *)
LEMMA BlockFacts ==
  ASSUME NEW its \in Seq(Excerpt)
  PROVE  /\ Len(its) \in Nat /\ DOMAIN its = 1..Len(its)
         /\ \A n \in 0..Len(its) : BlockSize(its, n) \in Nat
         /\ BlockSize(its, 0) = Overhead
         /\ \A x \in Excerpt :
              /\ \A n \in 0..Len(its) : BlockSize(Append(its, x), n) = BlockSize(its, n)
              /\ BlockSize(Append(its, x), Len(its) + 1)
                   = BlockSize(its, Len(its)) + Size[x.chunk]
                       + (IF its = << >> THEN 0 ELSE Separator)
<1>1. Overhead \in Nat /\ Separator \in Nat /\ Size \in [Chunks -> Nat \ {0}]
  BY RetrievalAssumption
<1>2. Len(its) \in Nat /\ DOMAIN its = 1..Len(its)
  OBVIOUS
<1>3. \A i \in 1..Len(its) : its[i].chunk \in Chunks /\ Size[its[i].chunk] \in Nat
  <2>1. \A i \in 1..Len(its) : its[i] \in Excerpt
    OBVIOUS
  <2>2. QED BY <2>1, <1>1 DEF Excerpt
<1>4. /\ Texts(its)[0] = 0
      /\ \A n \in 0..Len(its) : Texts(its)[n] \in Nat
  BY <1>2, <1>3, TextsFacts
<1>5. Separator * 0 = 0
  BY <1>1
<1>6. BlockSize(its, 0) = Overhead
  BY <1>1, <1>4, <1>5 DEF BlockSize
<1>7. ASSUME NEW n \in 0..Len(its) PROVE BlockSize(its, n) \in Nat
  <2>1. (IF n = 0 THEN 0 ELSE n - 1) \in Nat
    BY <1>2
  <2>2. Separator * (IF n = 0 THEN 0 ELSE n - 1) \in Nat
    BY <2>1, <1>1
  <2>3. QED BY <2>2, <1>1, <1>4 DEF BlockSize
<1>8. ASSUME NEW x \in Excerpt
      PROVE  /\ \A n \in 0..Len(its) : BlockSize(Append(its, x), n) = BlockSize(its, n)
             /\ BlockSize(Append(its, x), Len(its) + 1)
                  = BlockSize(its, Len(its)) + Size[x.chunk]
                      + (IF its = << >> THEN 0 ELSE Separator)
  <2> DEFINE longer == Append(its, x)
             N == Len(its)
  <2>1. /\ longer \in Seq(Excerpt) /\ Len(longer) = N + 1 /\ longer[N + 1] = x
        /\ \A i \in 1..N : longer[i] = its[i]
    OBVIOUS
  <2>2. \A i \in 1..Len(longer) : Size[longer[i].chunk] \in Nat
    <3>1. \A i \in 1..Len(longer) : longer[i] \in Excerpt
      BY <2>1
    <3>2. QED BY <3>1, <1>1 DEF Excerpt
  <2> HIDE DEF longer
  <2>3. \A n \in 0..N : Texts(its)[n] = Texts(longer)[n]
    <3>1. Len(its) \in Nat /\ Len(longer) \in Nat /\ Len(its) <= Len(longer)
      BY <2>1, <1>2
    <3>2. \A i \in 1..Len(its) : its[i] = longer[i]
      BY <2>1
    <3> HIDE DEF N
    <3>3. \A n \in 0..Len(its) : Texts(its)[n] = Texts(longer)[n]
      BY <3>1, <3>2, <2>2, SameBeginning
    <3>4. QED BY <3>3 DEF N
  <2>4. Texts(longer)[N + 1] = Texts(longer)[N] + Size[x.chunk]
    <3>1. N + 1 \in 1..Len(longer) /\ (N + 1) - 1 = N /\ Len(longer) \in Nat
      BY <2>1, <1>2
    <3>2. Texts(longer)[N + 1] = Texts(longer)[(N + 1) - 1] + Size[longer[N + 1].chunk]
      BY <3>1, <2>2, TextsFacts
    <3>3. QED BY <3>1, <3>2, <2>1
  <2>5. \A n \in 0..N : BlockSize(longer, n) = BlockSize(its, n)
    BY <2>3 DEF BlockSize
  <2>6. BlockSize(longer, N + 1) = Overhead + (Texts(its)[N] + Size[x.chunk]) + Separator * N
    <3>1. N + 1 # 0 /\ (N + 1) - 1 = N /\ N \in 0..N
      BY <1>2
    <3>2. QED BY <3>1, <2>3, <2>4 DEF BlockSize
  <2>7. Size[x.chunk] \in Nat
    BY <1>1 DEF Excerpt
  <2>8. BlockSize(longer, N + 1)
          = BlockSize(its, N) + Size[x.chunk] + (IF its = << >> THEN 0 ELSE Separator)
    <3>1. CASE its = << >>
      <4>1. N = 0
        BY <3>1
      <4>2. QED BY <4>1, <3>1, <2>6, <2>7, <1>1, <1>4, <1>5, <1>6, <2>5
    <3>2. CASE its # << >>
      <4>1. N # 0 /\ N - 1 \in Nat
        BY <3>2, <1>2
      <4>2. Separator * N = Separator * (N - 1) + Separator /\ Separator * (N - 1) \in Nat
        BY <4>1, <1>1, <1>2
      <4>3. BlockSize(its, N) = Overhead + Texts(its)[N] + Separator * (N - 1)
        BY <4>1 DEF BlockSize
      <4>4. Texts(its)[N] \in Nat /\ N \in 0..N
        BY <1>2, <1>4
      <4> DEFINE gap == Separator * N
                 less == Separator * (N - 1)
      <4>5. gap = less + Separator /\ less \in Nat
        BY <4>2
      <4>6. /\ BlockSize(longer, N + 1) = Overhead + (Texts(its)[N] + Size[x.chunk]) + gap
            /\ BlockSize(its, N) = Overhead + Texts(its)[N] + less
        BY <2>6, <4>3
      <4> HIDE DEF gap, less, N
      <4>7. BlockSize(longer, N + 1) = BlockSize(its, N) + Size[x.chunk] + Separator
        <5> DEFINE t == Texts(its)[N]  c == Size[x.chunk]
        <5>1. /\ t \in Nat /\ c \in Nat /\ less \in Nat
              /\ Overhead \in Nat /\ Separator \in Nat
          BY <4>4, <4>5, <2>7, <1>1
        <5>2. gap = less + Separator
          BY <4>5
        <5>3. /\ BlockSize(longer, N + 1) = Overhead + (t + c) + gap
              /\ BlockSize(its, N) = Overhead + t + less
          BY <4>6
        <5> HIDE DEF t, c
        <5>4. Overhead + (t + c) + gap = (Overhead + t + less) + c + Separator
          BY <5>1, <5>2
        <5>5. BlockSize(longer, N + 1) = BlockSize(its, N) + c + Separator
          BY <5>3, <5>4, Zenon
        <5>6. QED BY <5>5 DEF c
      <4>8. QED BY <4>7, <3>2
    <3>3. QED BY <3>1, <3>2
  <2>9. QED BY <2>5, <2>8 DEF longer
<1>9. QED BY <1>2, <1>6, <1>7, <1>8

Distinct(list) == \A i, j \in DOMAIN list : list[i] = list[j] => i = j

BeforeIn(list, c) ==
  {list[i] : i \in {i \in DOMAIN list : \E j \in DOMAIN list : i < j /\ list[j] = c}}

(* In a report without repetitions, what is ranked before is what is       *)
(* earlier in it.                                                          *)
LEMMA BeforeIs ==
  ASSUME NEW list, Distinct(list), NEW q \in DOMAIN list, NEW j \in DOMAIN list
  PROVE  list[q] \in BeforeIn(list, list[j]) <=> q < j
BY DEF Distinct, BeforeIn

(* its and exc are the first at chunks of a report, in its order, each in  *)
(* one of the two.                                                         *)
Cut(list, at, its, exc) ==
  /\ at \in 0..Len(list)
  /\ its \in Seq(Excerpt) /\ exc \in Seq(Exclusion)
  /\ Len(its) + Len(exc) = at
  /\ \A i \in 1..Len(its) : /\ its[i].ref = i /\ its[i].rank = i - 1
                            /\ \E q \in 1..at : list[q] = its[i].chunk
  /\ \A i, j \in 1..Len(its) : i < j => its[i].chunk \in BeforeIn(list, its[j].chunk)
  /\ \A j \in 1..Len(exc) : /\ exc[j].rank \in 0..(at - 1)
                            /\ exc[j].chunk = list[exc[j].rank + 1]
  /\ \A q \in 1..at : \/ \E i \in 1..Len(its) : its[i].chunk = list[q]
                      \/ \E j \in 1..Len(exc) : exc[j].chunk = list[q]
  /\ \A i \in 1..Len(its), j \in 1..Len(exc) : its[i].chunk # exc[j].chunk

LEMMA CutFits ==
  ASSUME NEW list \in Seq(Chunks), Distinct(list), NEW at, NEW its, NEW exc,
         Cut(list, at, its, exc), at < Len(list), NEW x \in Excerpt,
         x.ref = Len(its) + 1, x.rank = Len(its), x.chunk = list[at + 1]
  PROVE  Cut(list, at + 1, Append(its, x), exc)
<1> DEFINE longer == Append(its, x)
           N == Len(its)
<1>0. /\ Len(its) + Len(exc) = at
      /\ \A i \in 1..Len(its) : \E q \in 1..at : list[q] = its[i].chunk
      /\ \A j \in 1..Len(exc) : /\ exc[j].rank \in 0..(at - 1)
                                /\ exc[j].chunk = list[exc[j].rank + 1]
      /\ \A q \in 1..at : \/ \E i \in 1..Len(its) : its[i].chunk = list[q]
                          \/ \E j \in 1..Len(exc) : exc[j].chunk = list[q]
      /\ \A i \in 1..Len(its), j \in 1..Len(exc) : its[i].chunk # exc[j].chunk
  BY DEF Cut
<1>1. /\ at \in 0..Len(list) /\ Len(list) \in Nat /\ DOMAIN list = 1..Len(list)
      /\ its \in Seq(Excerpt) /\ N \in Nat /\ exc \in Seq(Exclusion) /\ Len(exc) \in Nat
  BY DEF Cut
<1>2. /\ at + 1 \in 1..Len(list) /\ at \in Nat
      /\ \A q : q \in 1..(at + 1) <=> q \in 1..at \/ q = at + 1
      /\ \A q : q \in 1..(N + 1) <=> q \in 1..N \/ q = N + 1
  BY <1>1
<1>3. /\ longer \in Seq(Excerpt) /\ Len(longer) = N + 1 /\ longer[N + 1] = x
      /\ \A i \in 1..N : longer[i] = its[i]
  BY <1>1
<1> HIDE DEF longer
<1>4. \A i \in 1..(N + 1) : /\ longer[i].ref = i /\ longer[i].rank = i - 1
                            /\ \E q \in 1..(at + 1) : list[q] = longer[i].chunk
  <2>1. ASSUME NEW i \in 1..N
        PROVE  /\ longer[i].ref = i /\ longer[i].rank = i - 1
               /\ \E q \in 1..(at + 1) : list[q] = longer[i].chunk
    <3>1. its[i].ref = i /\ its[i].rank = i - 1 /\ longer[i] = its[i]
      BY <1>3 DEF Cut
    <3>2. PICK q \in 1..at : list[q] = its[i].chunk
      BY <1>0
    <3>3. q \in 1..(at + 1)
      BY <1>2
    <3>4. QED BY <3>1, <3>2, <3>3
  <2>2. /\ longer[N + 1].ref = N + 1 /\ longer[N + 1].rank = (N + 1) - 1
        /\ \E q \in 1..(at + 1) : list[q] = longer[N + 1].chunk
    BY <1>1, <1>2, <1>3
  <2>3. QED BY <2>1, <2>2, <1>2
<1>5. ASSUME NEW i \in 1..(N + 1), NEW j \in 1..(N + 1), i < j
      PROVE  longer[i].chunk \in BeforeIn(list, longer[j].chunk)
  <2>1. i \in 1..N /\ longer[i] = its[i]
    BY <1>1, <1>3, <1>5
  <2>2. CASE j = N + 1
    <3>1. PICK q \in 1..at : list[q] = its[i].chunk
      BY <2>1 DEF Cut
    <3>2. q \in DOMAIN list /\ q < at + 1
      BY <1>1
    <3>3. list[q] \in BeforeIn(list, list[at + 1])
      BY <3>2, <1>1, <1>2, BeforeIs
    <3>4. QED BY <3>1, <3>3, <2>1, <2>2, <1>3
  <2>3. CASE j # N + 1
    <3>1. j \in 1..N /\ longer[j] = its[j]
      BY <2>3, <1>2, <1>3
    <3>2. QED BY <3>1, <2>1, <1>5 DEF Cut
  <2>4. QED BY <2>2, <2>3
<1>6. ASSUME NEW j \in 1..Len(exc)
      PROVE  exc[j].rank \in 0..((at + 1) - 1) /\ exc[j].chunk = list[exc[j].rank + 1]
  <2>1. exc[j].rank \in 0..(at - 1) /\ exc[j].chunk = list[exc[j].rank + 1]
    BY DEF Cut
  <2>2. QED BY <2>1, <1>2
<1>7. ASSUME NEW q \in 1..(at + 1)
      PROVE  \/ \E i \in 1..(N + 1) : longer[i].chunk = list[q]
             \/ \E j \in 1..Len(exc) : exc[j].chunk = list[q]
  <2>1. CASE q = at + 1
    BY <2>1, <1>2, <1>3, <1>1
  <2>2. CASE q \in 1..at
    <3>1. CASE \E i \in 1..N : its[i].chunk = list[q]
      <4>1. PICK i \in 1..N : its[i].chunk = list[q]
        BY <3>1
      <4>2. i \in 1..(N + 1) /\ longer[i].chunk = list[q]
        BY <4>1, <1>2, <1>3
      <4>3. QED BY <4>2
    <3>2. CASE \E j \in 1..Len(exc) : exc[j].chunk = list[q]
      BY <3>2
    <3>3. QED BY <3>1, <3>2, <2>2, <1>0
  <2>3. QED BY <2>1, <2>2, <1>2
<1>8. ASSUME NEW i \in 1..(N + 1), NEW j \in 1..Len(exc)
      PROVE  longer[i].chunk # exc[j].chunk
  <2>1. CASE i \in 1..N
    <3>1. longer[i] = its[i]
      BY <2>1, <1>3
    <3>2. its[i].chunk # exc[j].chunk
      BY <2>1, <1>0
    <3>3. QED BY <3>1, <3>2
  <2>2. CASE i = N + 1
    <3>1. exc[j].rank \in 0..(at - 1) /\ exc[j].chunk = list[exc[j].rank + 1]
      BY DEF Cut
    <3> DEFINE r == exc[j].rank
    <3>a. r \in Int /\ 0 <= r /\ r < at /\ at \in Int /\ at <= Len(list)
      BY <3>1, <1>1
    <3> HIDE DEF r
    <3>b. r + 1 \in 1..Len(list) /\ r + 1 # at + 1
      BY <3>a, <1>1
    <3>2. exc[j].rank + 1 \in DOMAIN list /\ exc[j].rank + 1 # at + 1
      BY <3>b, <1>1 DEF r
    <3>3. QED BY <3>1, <3>2, <2>2, <1>1, <1>2, <1>3 DEF Distinct
  <2>3. QED BY <2>1, <2>2, <1>2
<1>9. at + 1 \in 0..Len(list) /\ Len(longer) + Len(exc) = at + 1
  <2>1. N + Len(exc) = at /\ Len(exc) \in Nat
    BY <1>0, <1>1
  <2>2. at + 1 \in 0..Len(list)
    BY <1>1, <1>2
  <2>3. Len(longer) = N + 1 /\ N \in Nat
    BY <1>1, <1>3
  <2> HIDE DEF N
  <2>4. QED BY <2>1, <2>2, <2>3
<1>10. Cut(list, at + 1, longer, exc)
  BY <1>1, <1>3, <1>4, <1>5, <1>6, <1>7, <1>8, <1>9 DEF Cut
<1>11. QED BY <1>10 DEF longer

LEMMA CutLeavesOut ==
  ASSUME NEW list \in Seq(Chunks), Distinct(list), NEW at, NEW its, NEW exc,
         Cut(list, at, its, exc), at < Len(list), NEW e \in Exclusion,
         e.rank = at, e.chunk = list[at + 1]
  PROVE  Cut(list, at + 1, its, Append(exc, e))
<1> DEFINE longer == Append(exc, e)
           N == Len(exc)
<1>0. /\ Len(its) + Len(exc) = at
      /\ \A i \in 1..Len(its) : \E q \in 1..at : list[q] = its[i].chunk
      /\ \A j \in 1..Len(exc) : /\ exc[j].rank \in 0..(at - 1)
                                /\ exc[j].chunk = list[exc[j].rank + 1]
      /\ \A q \in 1..at : \/ \E i \in 1..Len(its) : its[i].chunk = list[q]
                          \/ \E j \in 1..Len(exc) : exc[j].chunk = list[q]
      /\ \A i \in 1..Len(its), j \in 1..Len(exc) : its[i].chunk # exc[j].chunk
  BY DEF Cut
<1>1. /\ at \in 0..Len(list) /\ Len(list) \in Nat /\ DOMAIN list = 1..Len(list)
      /\ its \in Seq(Excerpt) /\ Len(its) \in Nat /\ exc \in Seq(Exclusion) /\ N \in Nat
  BY DEF Cut
<1>2. /\ at + 1 \in 1..Len(list) /\ at \in Nat
      /\ \A q : q \in 1..(at + 1) <=> q \in 1..at \/ q = at + 1
      /\ \A q : q \in 1..(N + 1) <=> q \in 1..N \/ q = N + 1
  BY <1>1
<1>3. /\ longer \in Seq(Exclusion) /\ Len(longer) = N + 1 /\ longer[N + 1] = e
      /\ \A j \in 1..N : longer[j] = exc[j]
  BY <1>1
<1> HIDE DEF longer
<1>4. \A i \in 1..Len(its) : /\ its[i].ref = i /\ its[i].rank = i - 1
                             /\ \E q \in 1..(at + 1) : list[q] = its[i].chunk
  BY <1>2 DEF Cut
<1>5. \A i, j \in 1..Len(its) : i < j => its[i].chunk \in BeforeIn(list, its[j].chunk)
  BY DEF Cut
<1>6. ASSUME NEW j \in 1..(N + 1)
      PROVE  longer[j].rank \in 0..((at + 1) - 1) /\ longer[j].chunk = list[longer[j].rank + 1]
  <2>1. CASE j = N + 1
    BY <2>1, <1>2, <1>3
  <2>2. CASE j \in 1..N
    <3>1. exc[j].rank \in 0..(at - 1) /\ exc[j].chunk = list[exc[j].rank + 1]
      BY <2>2 DEF Cut
    <3>2. QED BY <3>1, <2>2, <1>2, <1>3
  <2>3. QED BY <2>1, <2>2, <1>2
<1>7. ASSUME NEW q \in 1..(at + 1)
      PROVE  \/ \E i \in 1..Len(its) : its[i].chunk = list[q]
             \/ \E j \in 1..(N + 1) : longer[j].chunk = list[q]
  <2>1. CASE q = at + 1
    BY <2>1, <1>1, <1>2, <1>3
  <2>2. CASE q \in 1..at
    <3>1. CASE \E j \in 1..N : exc[j].chunk = list[q]
      <4>1. PICK j \in 1..N : exc[j].chunk = list[q]
        BY <3>1
      <4>2. j \in 1..(N + 1) /\ longer[j].chunk = list[q]
        BY <4>1, <1>2, <1>3
      <4>3. QED BY <4>2
    <3>2. CASE \E i \in 1..Len(its) : its[i].chunk = list[q]
      BY <3>2
    <3>3. QED BY <3>1, <3>2, <2>2, <1>0
  <2>3. QED BY <2>1, <2>2, <1>2
<1>8. ASSUME NEW i \in 1..Len(its), NEW j \in 1..(N + 1)
      PROVE  its[i].chunk # longer[j].chunk
  <2>1. CASE j \in 1..N
    BY <2>1, <1>0, <1>3
  <2>2. CASE j = N + 1
    <3>1. PICK q \in 1..at : list[q] = its[i].chunk
      BY DEF Cut
    <3>2. q \in DOMAIN list /\ q # at + 1
      BY <1>1, <1>2
    <3>3. QED BY <3>1, <3>2, <2>2, <1>1, <1>2, <1>3 DEF Distinct
  <2>3. QED BY <2>1, <2>2, <1>2
<1>9. at + 1 \in 0..Len(list) /\ Len(its) + Len(longer) = at + 1
  <2>1. N + Len(its) = at /\ Len(its) \in Nat
    BY <1>0, <1>1
  <2>2. at + 1 \in 0..Len(list)
    BY <1>1, <1>2
  <2>3. Len(longer) = N + 1 /\ N \in Nat
    BY <1>1, <1>3
  <2> HIDE DEF N
  <2>4. QED BY <2>1, <2>2, <2>3
<1> HIDE DEF N
<1>10. Cut(list, at + 1, its, longer)
  <2>1. longer \in Seq(Exclusion) /\ Len(longer) = N + 1
    BY <1>3
  <2>2. QED BY <2>1, <1>1, <1>3, <1>4, <1>5, <1>6, <1>7, <1>8, <1>9 DEF Cut
<1>11. QED BY <1>10 DEF longer

(* An excluded chunk with j - 1 exclusions before it has so many excerpts  *)
(* before it; with them it broke a limit.                                  *)
KeptBefore(exc, j) == exc[j].rank - (j - 1)

Full(its, e, n) ==
  BlockSize(its, n) + Size[e.chunk] + (IF n = 0 THEN 0 ELSE Separator)

Misfit(bud, its, e, n) ==
  /\ e.reason = "max_items" => n = bud.max_items
  /\ e.reason = "max_chars" => Full(its, e, n) > bud.max_chars
  /\ e.reason = "max_total_tokens" => Tokens(Full(its, e, n)) > bud.max_total_tokens

Within(bud, its) ==
  its # << >> => /\ BlockSize(its, Len(its)) <= bud.max_chars
                 /\ Tokens(BlockSize(its, Len(its))) <= bud.max_total_tokens
                 /\ Len(its) <= bud.max_items

(* The block is within the budget, and every exclusion was forced.         *)
Spent(bud, list, its, exc) ==
  /\ Within(bud, its)
  /\ \A j \in 1..Len(exc) :
       /\ KeptBefore(exc, j) \in 0..Len(its)
       /\ \A i \in 1..Len(its) :
            i <= KeptBefore(exc, j) <=> its[i].chunk \in BeforeIn(list, exc[j].chunk)
       /\ Misfit(bud, its, exc[j], KeptBefore(exc, j))

(* An excerpt added later changes nothing about the exclusions before it.  *)
LEMMA SpentFits ==
  ASSUME NEW bud, NEW list \in Seq(Chunks), Distinct(list), NEW at, NEW its, NEW exc,
         Cut(list, at, its, exc), Spent(bud, list, its, exc), at < Len(list),
         NEW x \in Excerpt, x.chunk = list[at + 1],
         BlockSize(Append(its, x), Len(its) + 1) <= bud.max_chars,
         Tokens(BlockSize(Append(its, x), Len(its) + 1)) <= bud.max_total_tokens,
         Len(its) + 1 <= bud.max_items
  PROVE  Spent(bud, list, Append(its, x), exc)
<1> DEFINE longer == Append(its, x)
           N == Len(its)
<1>1. /\ its \in Seq(Excerpt) /\ N \in Nat /\ at \in 0..Len(list) /\ Len(list) \in Nat
      /\ DOMAIN list = 1..Len(list) /\ Len(exc) \in Nat
  BY DEF Cut
<1>2. /\ Len(longer) = N + 1 /\ longer[N + 1] = x
      /\ \A i \in 1..N : longer[i] = its[i]
  BY <1>1
<1>3. \A n \in 0..N : BlockSize(longer, n) = BlockSize(its, n)
  BY <1>1, BlockFacts
<1>4. Within(bud, longer)
  BY <1>2 DEF Within
<1> HIDE DEF longer
<1>5. ASSUME NEW j \in 1..Len(exc)
      PROVE  /\ KeptBefore(exc, j) \in 0..(N + 1)
             /\ \A i \in 1..(N + 1) :
                  i <= KeptBefore(exc, j) <=> longer[i].chunk \in BeforeIn(list, exc[j].chunk)
             /\ Misfit(bud, longer, exc[j], KeptBefore(exc, j))
  <2>1. /\ KeptBefore(exc, j) \in 0..N
        /\ \A i \in 1..N :
             i <= KeptBefore(exc, j) <=> its[i].chunk \in BeforeIn(list, exc[j].chunk)
        /\ Misfit(bud, its, exc[j], KeptBefore(exc, j))
    BY DEF Spent
  <2>2. Misfit(bud, longer, exc[j], KeptBefore(exc, j))
    BY <2>1, <1>3 DEF Misfit, Full
  <2>3. exc[j].rank \in 0..(at - 1) /\ exc[j].chunk = list[exc[j].rank + 1]
    BY DEF Cut
  <2>4. /\ exc[j].rank + 1 \in DOMAIN list /\ at + 1 \in DOMAIN list
        /\ ~(at + 1 < exc[j].rank + 1)
    <3> DEFINE r == exc[j].rank
    <3>1. r \in Int /\ 0 <= r /\ r < at
      BY <2>3, <1>1
    <3> HIDE DEF r
    <3>2. r + 1 \in 1..Len(list) /\ at + 1 \in 1..Len(list) /\ ~(at + 1 < r + 1)
      BY <3>1, <1>1
    <3>3. QED BY <3>2, <1>1 DEF r
  <2>5. x.chunk \notin BeforeIn(list, exc[j].chunk)
    BY <2>3, <2>4, BeforeIs
  <2>6. ~(N + 1 <= KeptBefore(exc, j)) /\ KeptBefore(exc, j) \in 0..(N + 1)
    BY <2>1, <1>1
  <2>7. ASSUME NEW i \in 1..(N + 1)
        PROVE  i <= KeptBefore(exc, j) <=> longer[i].chunk \in BeforeIn(list, exc[j].chunk)
    <3>1. CASE i = N + 1
      BY <3>1, <2>5, <2>6, <1>2
    <3>2. CASE i # N + 1
      <4>1. i \in 1..N /\ longer[i] = its[i]
        BY <3>2, <1>1, <1>2
      <4>2. QED BY <4>1, <2>1
    <3>3. QED BY <3>1, <3>2
  <2>8. QED BY <2>2, <2>6, <2>7
<1>6. Spent(bud, list, longer, exc)
  <2> HIDE DEF N
  <2>1. Len(longer) = N + 1
    BY <1>2
  <2>2. QED BY <2>1, <1>4, <1>5 DEF Spent
<1>7. QED BY <1>6 DEF longer

LEMMA SpentLeavesOut ==
  ASSUME NEW bud, NEW list \in Seq(Chunks), Distinct(list), NEW at, NEW its, NEW exc,
         Cut(list, at, its, exc), Spent(bud, list, its, exc), at < Len(list),
         NEW e \in Exclusion, e.rank = at, e.chunk = list[at + 1],
         Misfit(bud, its, e, Len(its))
  PROVE  Spent(bud, list, its, Append(exc, e))
<1> DEFINE longer == Append(exc, e)
           N == Len(exc)
<1>1. /\ exc \in Seq(Exclusion) /\ N \in Nat /\ at \in 0..Len(list) /\ Len(list) \in Nat
      /\ DOMAIN list = 1..Len(list) /\ Len(its) \in Nat /\ Len(its) + N = at
  BY DEF Cut
<1>2. /\ Len(longer) = N + 1 /\ longer[N + 1] = e
      /\ \A j \in 1..N : longer[j] = exc[j]
  BY <1>1
<1> HIDE DEF longer
<1>3. ASSUME NEW j \in 1..(N + 1)
      PROVE  /\ KeptBefore(longer, j) \in 0..Len(its)
             /\ \A i \in 1..Len(its) :
                  i <= KeptBefore(longer, j) <=> its[i].chunk \in BeforeIn(list, longer[j].chunk)
             /\ Misfit(bud, its, longer[j], KeptBefore(longer, j))
  <2>1. CASE j \in 1..N
    <3>1. longer[j] = exc[j] /\ KeptBefore(longer, j) = KeptBefore(exc, j)
      BY <2>1, <1>2 DEF KeptBefore
    <3>2. QED BY <3>1, <2>1 DEF Spent
  <2>2. CASE j = N + 1
    <3>1. longer[j] = e /\ KeptBefore(longer, j) = Len(its)
      BY <2>2, <1>1, <1>2 DEF KeptBefore
    <3>2. ASSUME NEW i \in 1..Len(its)
          PROVE  its[i].chunk \in BeforeIn(list, e.chunk)
      <4>1. PICK q \in 1..at : list[q] = its[i].chunk
        BY DEF Cut
      <4>2. q \in DOMAIN list /\ at + 1 \in DOMAIN list /\ q < at + 1
        BY <1>1
      <4>3. QED BY <4>1, <4>2, BeforeIs
    <3>3. QED BY <3>1, <3>2, <1>1
  <2>3. j \in 1..N \/ j = N + 1
    BY <1>1
  <2>4. QED BY <2>1, <2>2, <2>3
<1>4. Within(bud, its)
  BY DEF Spent
<1>5. Spent(bud, list, its, longer)
  <2> HIDE DEF N
  <2>1. Len(longer) = N + 1
    BY <1>2
  <2>2. QED BY <2>1, <1>3, <1>4 DEF Spent
<1>6. QED BY <1>5 DEF longer

ChunksIn(its) == {its[i].chunk : i \in DOMAIN its}

(* The number counted is the number of excerpts ranked before.             *)
LEMMA CountsKept ==
  ASSUME NEW bud, NEW list \in Seq(Chunks), Distinct(list), NEW its, NEW exc, NEW at,
         Cut(list, at, its, exc), Spent(bud, list, its, exc), NEW j \in 1..Len(exc)
  PROVE  Cardinality(BeforeIn(list, exc[j].chunk) \cap ChunksIn(its))
           = KeptBefore(exc, j)
<1> DEFINE n == KeptBefore(exc, j)
           f == [i \in 1..n |-> its[i].chunk]
           Sent == BeforeIn(list, exc[j].chunk)
                     \cap ChunksIn(its)
<1>1. /\ Len(its) \in Nat /\ DOMAIN its = 1..Len(its) /\ DOMAIN list = 1..Len(list)
      /\ Len(list) \in Nat /\ at \in 0..Len(list)
  BY DEF Cut
<1>2. /\ n \in 0..Len(its)
      /\ \A i \in 1..Len(its) : i <= n <=> its[i].chunk \in BeforeIn(list, exc[j].chunk)
  BY DEF Spent
<1> HIDE DEF n
<1>3. Sent = {its[i].chunk : i \in 1..n}
  <2>1. ChunksIn(its) = {its[i].chunk : i \in 1..Len(its)}
    BY <1>1 DEF ChunksIn
  <2>2. \A i : i \in 1..n <=> i \in 1..Len(its) /\ i <= n
    BY <1>1, <1>2
  <2>3. QED BY <2>1, <2>2, <1>2
<1>4. ASSUME NEW a \in 1..Len(its), NEW c \in 1..Len(its), a < c
      PROVE  its[a].chunk # its[c].chunk
  <2>1. its[a].chunk \in BeforeIn(list, its[c].chunk)
    BY <1>4 DEF Cut
  <2>2. PICK q \in 1..at : list[q] = its[c].chunk
    BY DEF Cut
  <2>3. q \in DOMAIN list
    BY <1>1
  <2>4. list[q] \notin BeforeIn(list, list[q])
    <3>1. ~(q < q)
      BY <2>3, <1>1
    <3>2. QED BY <2>3, <3>1, BeforeIs
  <2>5. QED BY <2>1, <2>2, <2>4
<1>5. f \in Bijection(1..n, Sent)
  <2>1. \A i \in 1..n : i \in 1..Len(its) /\ f[i] = its[i].chunk
    BY <1>1, <1>2
  <2>2. f \in [1..n -> Sent] /\ \A y \in Sent : \E i \in 1..n : f[i] = y
    BY <1>3, <2>1
  <2>3. ASSUME NEW a \in 1..n, NEW c \in 1..n, f[a] = f[c]
        PROVE  a = c
    <3>1. a \in Int /\ c \in Int /\ a \in 1..Len(its) /\ c \in 1..Len(its)
      BY <2>1
    <3>2. ~(a < c) /\ ~(c < a)
      BY <3>1, <2>1, <2>3, <1>4
    <3>3. QED BY <3>1, <3>2
  <2> HIDE DEF f, Sent
  <2>4. QED BY <2>2, <2>3 DEF Bijection, Injection, Surjection, IsInjective
<1>6. IsFiniteSet(1..n) /\ Cardinality(1..n) = n
  <2>1. 1 \in Int /\ n \in Int /\ (IF 1 > n THEN 0 ELSE n - 1 + 1) = n
    BY <1>1, <1>2
  <2>2. QED BY <2>1, FS_Interval
<1>7. Cardinality(Sent) = n
  <2> HIDE DEF f, Sent
  <2>1. ExistsBijection(1..n, Sent)
    BY <1>5 DEF ExistsBijection
  <2>2. QED BY <2>1, <1>6, FS_Bijection
<1>8. QED BY <1>7 DEF n

(* The inductive invariant.  Control: where the evaluation is, with which  *)
(* case and candidate, and that nothing of an earlier case is left over;   *)
(* the others: what each loop has done by now.                             *)
Active == phase \in {"search", "rank", "budget", "done"}

Control ==
  /\ phase \in {"report", "signals", "analysed", "search", "rank", "budget", "done",
                "select", "selected"}
  /\ program \in Programs /\ answers \in Answers(program)
  /\ Active \/ phase \in {"report", "signals"} =>
       /\ k \in DOMAIN program.dataset
       /\ program.plan # << >> => m \in DOMAIN program.plan
  /\ phase = "signals" =>
       report = CR!BuildCaptureReport(Case.snapshot, program.mode, program.maxFlows)
  /\ Active => /\ program.plan # << >>
               /\ DOMAIN fired = SignalsOf(program, Case)
               /\ cfg = Candidate.retrieval /\ budget = Candidate.budget
               /\ score = answers[k]
  /\ ~Active => Clean

Asking == asked \subseteq Queries /\ Merged(asked, score, cfg, best, perQuery)

Choosing ==
  /\ phase = "search" => waiting = {} /\ selected = << >>
  /\ phase # "search" => asked = Queries /\ Ranked(fired, cfg, best, waiting, selected)
  /\ phase \in {"budget", "done"} => waiting = {} \/ Len(selected) >= cfg.final_top_k

Budgeting ==
  /\ phase \in {"search", "rank"} => pos = 0 /\ items = << >> /\ excluded = << >>
  /\ phase \in {"budget", "done"} => /\ Cut(selected, pos, items, excluded)
                                    /\ Spent(budget, selected, items, excluded)
  /\ phase = "done" => pos = Len(selected)
  /\ phase = "budget" => used = (IF selected = << >> THEN 0 ELSE BlockSize(items, Len(items)))
  /\ phase = "done" => used = (IF items = << >> THEN 0 ELSE BlockSize(items, Len(items)))

RInv == Control /\ (Active => Asking /\ Choosing /\ Budgeting)

(* The inputs of a retrieval are what the configurations promise.          *)
LEMMA Setting ==
  ASSUME Control, Active
  PROVE  /\ cfg \in RetrievalConfigs /\ budget \in KnowledgeContextConfigs
         /\ \A q \in Queries : score[q] \in [Chunks -> Nat]
<1>1. /\ program \in Programs /\ answers \in Answers(program) /\ program.plan # << >>
      /\ k \in DOMAIN program.dataset /\ m \in DOMAIN program.plan
      /\ DOMAIN fired = SignalsOf(program, program.dataset[k])
      /\ cfg = program.plan[m].retrieval /\ budget = program.plan[m].budget
      /\ score = answers[k]
  BY DEF Control, Active, Case, Candidate
<1>2. program.plan \in Seq(PlanRow)
  BY <1>1, ProgramAssumption
<1>3. program.plan[m] \in PlanRow
  BY <1>1, <1>2
<1>4. \A q \in SignalsOf(program, program.dataset[k]) \cup {Capture} :
        answers[k][q] \in [Chunks -> Nat]
  BY <1>1, ProgramAssumption
<1>5. Queries \subseteq DOMAIN fired \cup {Capture}
  BY DEF Queries
<1>6. QED BY <1>1, <1>3, <1>4, <1>5 DEF PlanRow

LEMMA EarlierIs ==
  \A c, d : Precedes(c, d) <=> Earlier(fired, cfg, best, c, d)
BY DEF Precedes, Earlier, Tier, TierOf

LEMMA HitsAre == \A q : Hits(q) = HitsOf(score, cfg, q)
BY DEF Hits, HitsOf

(* The loops of a retrieval leave the case and its inputs as they are.     *)
LEMMA ControlStays ==
  ASSUME Control, Active, UNCHANGED <<inputs, given, progress, report>>,
         phase' \in {"search", "rank", "budget", "done"}
  PROVE  Control' /\ Active'
BY DEF Control, Active, inputs, given, progress, Case, Candidate

LEMMA ControlStarts == Init => RInv
<1> SUFFICES ASSUME Init PROVE RInv
  OBVIOUS
<1>1. program \in Programs /\ answers \in Answers(program) /\ phase = "report" /\ Clean
      /\ k = 1 /\ m = 1
  BY DEF Init
<1>2. 1 \in DOMAIN program.dataset
  BY <1>1, ProgramAssumption
<1>3. program.plan # << >> => 1 \in DOMAIN program.plan
  <2>1. program.plan \in Seq(PlanRow)
    BY <1>1, ProgramAssumption
  <2>2. QED BY <2>1
<1>4. QED BY <1>1, <1>2, <1>3 DEF RInv, Control, Active

LEMMA BuildReportKeeps == RInv /\ BuildReport => RInv'
BY DEF RInv, Control, Active, BuildReport, Clean, inputs, search, block, given, progress, Case

LEMMA ExtractSignalsKeeps == RInv /\ ExtractSignals => RInv'
<1> SUFFICES ASSUME RInv, ExtractSignals PROVE RInv'
  OBVIOUS
<1>1. /\ phase = "signals" /\ Clean /\ ~Active
      /\ UNCHANGED <<search, waiting, selected, block, given, progress, report>>
  BY DEF RInv, Control, Active, ExtractSignals
<1>2. Clean'
  BY <1>1 DEF Clean, search, block
<1>3. CASE program.plan = << >>
  <2>1. phase' = "analysed"
    BY <1>3 DEF ExtractSignals
  <2>2. QED BY <2>1, <1>1, <1>2 DEF RInv, Control, Active, given
<1>4. CASE program.plan # << >>
  <2>1. /\ phase' = "search" /\ score' = answers[k]
        /\ cfg' = Candidate.retrieval /\ budget' = Candidate.budget
        /\ fired' = [t \in S!Extract(report) |-> S!Severity(t, report)]
    BY <1>4 DEF ExtractSignals
  <2>2. DOMAIN fired' = SignalsOf(program, Case)
    BY <2>1, <1>1 DEF RInv, Control, SignalsOf
  <2>3. Control' /\ Active'
    BY <2>1, <2>2, <1>1, <1>4 DEF RInv, Control, Active, given, progress, Case, Candidate
  <2>4. asked' = {} /\ best' = << >> /\ perQuery' = << >>
    BY <1>2 DEF Clean
  <2>5. Merged({}, score', cfg', << >>, << >>)
    BY DEF Merged, Finders
  <2>6. Asking'
    BY <2>4, <2>5 DEF Asking
  <2>7. Choosing' /\ Budgeting'
    BY <2>1, <1>2 DEF Choosing, Budgeting, Clean
  <2>8. QED BY <2>3, <2>6, <2>7 DEF RInv
<1>5. QED BY <1>3, <1>4

LEMMA AccountCaseKeeps == RInv /\ AccountCase => RInv'
<1> SUFFICES ASSUME RInv, AccountCase PROVE RInv'
  OBVIOUS
<1>1. /\ phase = "done" /\ CleanAgain /\ program' = program /\ answers' = answers
      /\ IF k < Len(program.dataset) THEN k' = k + 1 /\ m' = m ELSE k' = 1 /\ m' = m + 1
      /\ phase' = IF m' > Len(program.plan) THEN "select" ELSE "report"
  BY DEF AccountCase, given
<1>2. /\ program \in Programs /\ answers \in Answers(program) /\ program.plan # << >>
      /\ k \in DOMAIN program.dataset /\ m \in DOMAIN program.plan
  BY <1>1 DEF RInv, Control, Active
<1>3. Clean'
  BY <1>1 DEF Clean, CleanAgain
<1>4. /\ DOMAIN program.dataset = 1..Len(program.dataset)
      /\ Len(program.dataset) \in Nat \ {0}
  BY <1>2, ProgramAssumption
<1>5. k' \in DOMAIN program.dataset
  BY <1>1, <1>2, <1>4
<1>6. m' <= Len(program.plan) => m' \in DOMAIN program.plan
  <2>1. program.plan \in Seq(PlanRow)
    BY <1>2, ProgramAssumption
  <2>2. QED BY <2>1, <1>1, <1>2
<1>7. phase' = "report" => m' \in DOMAIN program.plan
  <2>1. program.plan \in Seq(PlanRow)
    BY <1>2, ProgramAssumption
  <2>2. Len(program.plan) \in Nat /\ m \in Nat /\ (m' = m \/ m' = m + 1)
    BY <2>1, <1>1, <1>2
  <2>3. QED BY <2>2, <1>1, <1>6
<1>8. phase' \in {"select", "report"}
  BY <1>1
<1>9. QED BY <1>1, <1>2, <1>3, <1>5, <1>7, <1>8 DEF RInv, Control, Active

LEMMA RecommendKeeps == RInv /\ Recommend => RInv'
BY DEF RInv, Control, Active, Recommend, Clean, inputs, search, block, given

LEMMA SearchQueryKeeps ==
  ASSUME RInv, NEW q, SearchQuery(q), UNCHANGED <<given, progress, report>>
  PROVE  RInv'
<1>1. /\ phase = "search" /\ phase' = "search" /\ q \in Queries /\ asked' = asked \cup {q}
      /\ UNCHANGED <<inputs, waiting, selected, block>>
  BY DEF SearchQuery, IsNext
<1>2. Control /\ Active /\ Asking /\ Choosing /\ Budgeting
  BY <1>1 DEF RInv, Active
<1>3. Control' /\ Active'
  BY <1>1, <1>2, ControlStays
<1>4. score' = score /\ cfg' = cfg /\ fired' = fired /\ flowCount' = flowCount
  BY <1>1 DEF inputs
<1>5. Merged(asked', score, cfg, best', perQuery')
  <2>1. Merged(asked, score, cfg, best, perQuery) /\ asked \subseteq Queries
    BY <1>2 DEF Asking
  <2>2. \A r \in asked \cup {q} : score[r] \in [Chunks -> Nat]
    BY <2>1, <1>1, <1>2, Setting
  <2>3. Hits(q) = HitsOf(score, cfg, q)
    BY HitsAre
  <2>4. best' = [c \in DOMAIN best \cup HitsOf(score, cfg, q) |->
                   IF c \in HitsOf(score, cfg, q)
                   THEN (IF c \notin DOMAIN best \/ score[q][c] > best[c]
                         THEN score[q][c] ELSE best[c])
                   ELSE best[c]]
    BY <2>3 DEF SearchQuery, BestScore
  <2>5. perQuery' = [c \in DOMAIN best' |->
                   (IF c \in DOMAIN best THEN perQuery[c] ELSE {})
                     \cup (IF c \in HitsOf(score, cfg, q) THEN {<<q, score[q][c]>>} ELSE {})]
    BY <2>3 DEF SearchQuery
  <2>6. Merged(asked \cup {q}, score, cfg, best', perQuery')
    BY <2>1, <2>2, <2>4, <2>5, MergeOne
  <2>7. QED BY <2>6, <1>1
<1>6. Queries' = Queries
  BY <1>4 DEF Queries
<1>7. Asking'
  BY <1>1, <1>2, <1>4, <1>5, <1>6 DEF Asking
<1>8. Choosing'
  BY <1>1, <1>2 DEF Choosing
<1>9. Budgeting'
  BY <1>1, <1>2 DEF Budgeting, block
<1>10. QED BY <1>3, <1>7, <1>8, <1>9 DEF RInv

(* The search loop is left as it is by the ones after it.                  *)
LEMMA AskingStays ==
  ASSUME Asking, UNCHANGED <<inputs, search>>
  PROVE  Asking' /\ Queries' = Queries
<1>1. /\ score' = score /\ cfg' = cfg /\ fired' = fired /\ flowCount' = flowCount
      /\ asked' = asked /\ best' = best /\ perQuery' = perQuery
  BY DEF inputs, search
<1>2. Queries' = Queries
  BY <1>1 DEF Queries
<1>3. QED BY <1>1, <1>2 DEF Asking

LEMMA MergeKeeps ==
  ASSUME RInv, Merge, UNCHANGED <<given, progress, report>>
  PROVE  RInv'
<1>1. /\ phase = "search" /\ phase' = "rank" /\ asked = Queries /\ waiting' = DOMAIN best
      /\ UNCHANGED <<inputs, search, selected, block>>
  BY DEF Merge
<1>2. Control /\ Active /\ Asking /\ Choosing /\ Budgeting
  BY <1>1 DEF RInv, Active
<1>3. Control' /\ Active'
  BY <1>1, <1>2, ControlStays
<1>4. Asking' /\ Queries' = Queries
  BY <1>1, <1>2, AskingStays
<1>5. selected' = << >>
  BY <1>1, <1>2 DEF Choosing
<1>6. cfg \in RetrievalConfigs
  BY <1>2, Setting
<1>7. Ranked(fired, cfg, best, DOMAIN best, << >>)
  <2>1. cfg.final_top_k \in Nat /\ cfg.max_per_document \in Nat
    BY <1>6 DEF RetrievalConfigs
  <2>2. \A doc : OfDoc(<< >>, doc) = {}
    BY DEF OfDoc
  <2>3. \A doc : Cardinality(OfDoc(<< >>, doc)) <= cfg.max_per_document
    <3>1. Cardinality({}) = 0
      BY FS_EmptySet
    <3>2. \A doc : Cardinality(OfDoc(<< >>, doc)) = 0
      BY <2>2, <3>1
    <3>3. 0 <= cfg.max_per_document
      BY <2>1
    <3>4. QED BY <3>2, <3>3
  <2>4. << >> \in Seq(DOMAIN best \ DOMAIN best) /\ Len(<< >>) = 0
    OBVIOUS
  <2>5. QED BY <2>1, <2>3, <2>4 DEF Ranked
<1>8. Choosing'
  BY <1>1, <1>4, <1>5, <1>7 DEF Choosing, inputs, search
<1>9. Budgeting'
  BY <1>1, <1>2 DEF Budgeting, block
<1>10. QED BY <1>3, <1>4, <1>8, <1>9 DEF RInv

(* The scores of the chunks found, as the ranking compares them.           *)
LEMMA BestFacts ==
  ASSUME Asking
  PROVE  /\ DOMAIN best \subseteq Chunks /\ DOMAIN best \subseteq Nat
         /\ best \in [DOMAIN best -> Nat]
BY RetrievalAssumption DEF Asking, Merged

LEMMA SelectKeeps ==
  ASSUME RInv, NEW c, Select(c), UNCHANGED <<given, progress, report>>
  PROVE  RInv'
<1>1. /\ phase = "rank" /\ phase' = "rank" /\ Len(selected) < cfg.final_top_k
      /\ FirstWaiting(c) /\ waiting' = waiting \ {c}
      /\ selected' = IF Capped(c) THEN selected ELSE Append(selected, c)
      /\ UNCHANGED <<inputs, search, block>>
  BY DEF Select
<1>2. Control /\ Active /\ Asking /\ Choosing /\ Budgeting
  BY <1>1 DEF RInv, Active
<1>3. Control' /\ Active'
  BY <1>1, <1>2, ControlStays
<1>4. Asking' /\ Queries' = Queries
  BY <1>1, <1>2, AskingStays
<1>5. cfg \in RetrievalConfigs
  BY <1>2, Setting
<1>6. Ranked(fired, cfg, best, waiting, selected) /\ asked = Queries
  BY <1>1, <1>2 DEF Choosing
<1>7. c \in waiting /\ \A d \in waiting \ {c} : Earlier(fired, cfg, best, c, d)
  BY <1>1, EarlierIs DEF FirstWaiting
<1>8. selected' = IF Cardinality(OfDoc(selected, Document[c])) >= cfg.max_per_document
                  THEN selected ELSE Append(selected, c)
  BY <1>1 DEF Capped, OfDocument, OfDoc
<1>9. Ranked(fired, cfg, best, waiting', selected')
  BY <1>1, <1>2, <1>5, <1>6, <1>7, <1>8, BestFacts, SelectOne
<1>10. Choosing'
  BY <1>1, <1>4, <1>6, <1>9 DEF Choosing, inputs, search
<1>11. Budgeting'
  BY <1>1, <1>2 DEF Budgeting, block
<1>12. QED BY <1>3, <1>4, <1>10, <1>11 DEF RInv

(* A report holds chunks that were found, each once.                       *)
LEMMA RankedFacts ==
  ASSUME Control, Active, Asking, Choosing, phase # "search"
  PROVE  /\ selected \in Seq(Chunks) /\ Len(selected) \in Nat
         /\ DOMAIN selected = 1..Len(selected)
         /\ \A i \in DOMAIN selected : selected[i] \in DOMAIN best
         /\ \A i, j \in DOMAIN selected : i < j => Precedes(selected[i], selected[j])
         /\ Distinct(selected)
<1>1. DOMAIN best \subseteq Chunks /\ DOMAIN best \subseteq Nat /\ best \in [DOMAIN best -> Nat]
  BY BestFacts
<1>2. selected \in Seq(DOMAIN best \ waiting)
  BY DEF Choosing, Ranked
<1>3. /\ selected \in Seq(Chunks) /\ Len(selected) \in Nat /\ DOMAIN selected = 1..Len(selected)
      /\ \A i \in DOMAIN selected : selected[i] \in DOMAIN best
  BY <1>1, <1>2
<1>4. \A i, j \in DOMAIN selected :
        i < j => Earlier(fired, cfg, best, selected[i], selected[j])
  BY <1>3 DEF Choosing, Ranked
<1>5. Distinct(selected)
  <2>1. SUFFICES ASSUME NEW i \in DOMAIN selected, NEW j \in DOMAIN selected, i < j
                 PROVE  selected[i] # selected[j]
    BY <1>3 DEF Distinct
  <2>2. Earlier(fired, cfg, best, selected[i], selected[j])
    BY <2>1, <1>4
  <2>3. ~Earlier(fired, cfg, best, selected[i], selected[i])
    BY <1>1, <1>3, EarlierOrders
  <2>4. QED BY <2>2, <2>3
<1>6. QED BY <1>3, <1>4, <1>5, EarlierIs

(* The retrieval report passes its own validators (_merge_is_coherent,     *)
(* _consistent).                                                           *)
LEMMA ReportIsConsistent ==
  ASSUME Control, Active, Asking, Choosing, phase = "rank"
  PROVE  ReportConsistent
<1>1. asked = Queries /\ Merged(Queries, score, cfg, best, perQuery)
  BY DEF Asking, Choosing
<1>2. \A i, j \in DOMAIN selected : i < j => Precedes(selected[i], selected[j])
  BY RankedFacts
<1>3. ASSUME NEW i \in DOMAIN selected
      PROVE  MergeIsCoherent(selected[i]) /\ {p[1] : p \in perQuery[selected[i]]} \subseteq Queries
  <2> DEFINE c == selected[i]
             those == Finders(Queries, score, cfg, c)
  <2>1. c \in DOMAIN best /\ c \in Chunks
    BY RankedFacts, BestFacts
  <2>2. /\ perQuery[c] = {<<q, score[q][c]>> : q \in those}
        /\ \A q \in those : best[c] >= score[q][c]
        /\ \E q \in those : best[c] = score[q][c]
    BY <2>1, <1>1 DEF Merged
  <2>3. those \subseteq Queries /\ \A q \in those : score[q][c] \in Nat
    <3>1. those \subseteq Queries
      BY DEF Finders
    <3>2. QED BY <3>1, <2>1, Setting
  <2> HIDE DEF those, c
  <2> DEFINE pair(q) == <<q, score[q][c]>>
  <2>4. \A q : pair(q)[1] = q /\ pair(q)[2] = score[q][c]
    OBVIOUS
  <2>5. perQuery[c] = {pair(q) : q \in those}
    BY <2>2
  <2> HIDE DEF pair
  <2>6. {p[1] : p \in perQuery[c]} = those
    BY <2>4, <2>5
  <2>7. {p[2] : p \in perQuery[c]} = {score[q][c] : q \in those}
    BY <2>4, <2>5
  <2>8. perQuery[c] # {} /\ \A p, q \in perQuery[c] : p[1] = q[1] => p = q
    BY <2>4, <2>5, <2>2
  <2>9. best[c] = Max({score[q][c] : q \in those})
    <3> DEFINE V == {score[q][c] : q \in those}
    <3>1. best[c] \in V /\ \A y \in V : best[c] >= y
      BY <2>2
    <3>2. \A x \in V : x \in Nat
      BY <2>3
    <3> HIDE DEF V
    <3>3. Max(V) \in V /\ \A y \in V : Max(V) >= y
      BY <3>1 DEF Max
    <3>4. Max(V) >= best[c] /\ best[c] >= Max(V) /\ Max(V) \in Nat /\ best[c] \in Nat
      BY <3>1, <3>2, <3>3
    <3>5. QED BY <3>4 DEF V
  <2>10. MergeIsCoherent(c)
    BY <2>7, <2>8, <2>9 DEF MergeIsCoherent
  <2>11. QED BY <2>3, <2>6, <2>10 DEF c
<1>4. QED BY <1>2, <1>3 DEF ReportConsistent

LEMMA ReportKeeps ==
  ASSUME RInv, Report, UNCHANGED <<given, progress, report>>
  PROVE  RInv'
<1>1. /\ phase = "rank" /\ (waiting = {} \/ Len(selected) >= cfg.final_top_k)
      /\ phase' = (IF ReportConsistent THEN "budget" ELSE "raised")
      /\ used' = (IF selected = << >> THEN 0 ELSE Overhead)
      /\ UNCHANGED <<inputs, search, waiting, selected, pos, items, excluded>>
  BY DEF Report
<1>2. Control /\ Active /\ Asking /\ Choosing /\ Budgeting
  BY <1>1 DEF RInv, Active
<1>3. phase' = "budget"
  BY <1>1, <1>2, ReportIsConsistent
<1>4. Control' /\ Active'
  BY <1>1, <1>2, <1>3, ControlStays
<1>5. Asking' /\ Queries' = Queries
  BY <1>1, <1>2, AskingStays
<1>6. Choosing'
  BY <1>1, <1>2, <1>3, <1>5 DEF Choosing, inputs, search
<1>7. pos' = 0 /\ items' = << >> /\ excluded' = << >> /\ selected' = selected /\ budget' = budget
  BY <1>1, <1>2 DEF Budgeting, inputs
<1>8. Len(selected) \in Nat
  BY <1>1, <1>2, RankedFacts
<1>9. Cut(selected, 0, << >>, << >>) /\ Spent(budget, selected, << >>, << >>)
  BY <1>8 DEF Cut, Spent, Within
<1>10. BlockSize(<< >>, Len(<< >>)) = Overhead
  <2>1. << >> \in Seq(Excerpt) /\ Len(<< >>) = 0
    OBVIOUS
  <2>2. QED BY <2>1, BlockFacts
<1>11. Budgeting'
  BY <1>1, <1>3, <1>7, <1>9, <1>10 DEF Budgeting
<1>12. QED BY <1>4, <1>5, <1>6, <1>11 DEF RInv

(* The rejection names a limit that is broken, and none if none is.        *)
LEMMA RejectionIs ==
  ASSUME NEW c, budget \in KnowledgeContextConfigs, Len(items) \in Nat,
         used + Rendered(c) \in Nat
  PROVE  /\ Rejection(c) \in Reasons \cup {"fits"}
         /\ Rejection(c) = "fits" =>
              /\ Len(items) + 1 <= budget.max_items
              /\ used + Rendered(c) <= budget.max_chars
              /\ Tokens(used + Rendered(c)) <= budget.max_total_tokens
         /\ Rejection(c) = "max_items" => Len(items) >= budget.max_items
         /\ Rejection(c) = "max_chars" => used + Rendered(c) > budget.max_chars
         /\ Rejection(c) = "max_total_tokens" =>
              Tokens(used + Rendered(c)) > budget.max_total_tokens
<1> DEFINE chars == used + Rendered(c)
<1>1. budget.max_items \in Nat /\ budget.max_chars \in Nat /\ budget.max_total_tokens \in Nat
  BY DEF KnowledgeContextConfigs
<1>2. Tokens(chars) \in Int
  <2>1. 2 * chars + 6 \in Nat
    OBVIOUS
  <2>2. QED BY <2>1 DEF Tokens
<1>3. chars \in Nat
  OBVIOUS
<1>4. Rejection(c) = CASE Len(items) >= budget.max_items -> "max_items"
    [] Len(items) < budget.max_items /\ chars > budget.max_chars -> "max_chars"
    [] /\ Len(items) < budget.max_items /\ chars <= budget.max_chars
       /\ Tokens(chars) > budget.max_total_tokens -> "max_total_tokens"
    [] OTHER -> "fits"
  BY DEF Rejection
<1> HIDE DEF chars
<1>5. CASE Len(items) >= budget.max_items
  <2>1. Rejection(c) = "max_items"
    BY <1>4, <1>5, <1>1
  <2>2. QED BY <2>1, <1>5 DEF Reasons
<1>6. CASE Len(items) < budget.max_items /\ chars > budget.max_chars
  <2>1. Rejection(c) = "max_chars"
    BY <1>4, <1>6, <1>1, <1>3
  <2>2. QED BY <2>1, <1>6 DEF Reasons, chars
<1>7. CASE Len(items) < budget.max_items /\ chars <= budget.max_chars
           /\ Tokens(chars) > budget.max_total_tokens
  <2>1. Rejection(c) = "max_total_tokens"
    BY <1>4, <1>7, <1>1, <1>3
  <2>2. QED BY <2>1, <1>7 DEF Reasons, chars
<1>8. CASE Len(items) < budget.max_items /\ chars <= budget.max_chars
           /\ Tokens(chars) <= budget.max_total_tokens
  <2>1. Rejection(c) = "fits"
    BY <1>4, <1>8, <1>1, <1>2, <1>3
  <2>2. QED BY <2>1, <1>8, <1>1 DEF chars
<1>9. QED BY <1>1, <1>2, <1>3, <1>5, <1>6, <1>7, <1>8

LEMMA ConsiderKeeps ==
  ASSUME RInv, Consider, UNCHANGED <<given, progress, report>>
  PROVE  RInv'
<1> DEFINE c == selected[pos + 1]
           N == Len(items)
           x == Renumbered(c, N)
           e == [chunk |-> c, rank |-> pos, reason |-> Rejection(c)]
<1>1. /\ phase = "budget" /\ phase' = "budget" /\ pos < Len(selected) /\ pos' = pos + 1
      /\ items' = IF Rejection(c) = "fits" THEN Append(items, x) ELSE items
      /\ used' = IF Rejection(c) = "fits" THEN used + Rendered(c) ELSE used
      /\ excluded' = IF Rejection(c) = "fits" THEN excluded ELSE Append(excluded, e)
      /\ UNCHANGED <<inputs, search, waiting, selected>>
  BY DEF Consider
<1>2. Control /\ Active /\ Asking /\ Choosing /\ Budgeting
  BY <1>1 DEF RInv, Active
<1>3. Control' /\ Active'
  BY <1>1, <1>2, ControlStays
<1>4. Asking' /\ Queries' = Queries
  BY <1>1, <1>2, AskingStays
<1>5. Choosing'
  BY <1>1, <1>2, <1>4 DEF Choosing, inputs, search
<1>6. /\ selected \in Seq(Chunks) /\ Len(selected) \in Nat /\ DOMAIN selected = 1..Len(selected)
      /\ Distinct(selected)
  BY <1>1, <1>2, RankedFacts
<1>7. /\ Cut(selected, pos, items, excluded) /\ Spent(budget, selected, items, excluded)
      /\ used = (IF selected = << >> THEN 0 ELSE BlockSize(items, N))
  BY <1>1, <1>2 DEF Budgeting
<1>8. /\ pos \in Nat /\ items \in Seq(Excerpt) /\ N \in Nat /\ c \in Chunks /\ selected # << >>
  <2>1. pos \in 0..Len(selected) /\ items \in Seq(Excerpt)
    BY <1>7 DEF Cut
  <2>2. pos + 1 \in 1..Len(selected)
    BY <2>1, <1>1, <1>6
  <2>3. QED BY <2>1, <2>2, <1>6
<1>9. budget \in KnowledgeContextConfigs /\ budget' = budget /\ selected' = selected
  BY <1>1, <1>2, Setting DEF inputs
<1>10. Size[c] \in Nat /\ Separator \in Nat /\ BlockSize(items, N) \in Nat
  <2>1. N \in 0..N
    BY <1>8
  <2>2. QED BY <2>1, <1>8, RetrievalAssumption, BlockFacts
<1>11. used + Rendered(c) = BlockSize(items, N) + Size[c] + (IF N = 0 THEN 0 ELSE Separator)
  <2>1. items = << >> <=> N = 0
    BY <1>8
  <2>2. used = BlockSize(items, N)
    BY <1>7, <1>8
  <2> HIDE DEF c, N
  <2>3. QED BY <2>1, <2>2, <1>10 DEF Rendered
<1>12. used + Rendered(c) \in Nat
  <2> HIDE DEF c, N
  <2>1. QED BY <1>10, <1>11
<1>13. CASE Rejection(c) = "fits"
  <2>1. /\ N + 1 <= budget.max_items /\ used + Rendered(c) <= budget.max_chars
        /\ Tokens(used + Rendered(c)) <= budget.max_total_tokens
    BY <1>8, <1>9, <1>12, <1>13, RejectionIs
  <2>2. x \in Excerpt /\ x.ref = N + 1 /\ x.rank = N /\ x.chunk = c
    BY <1>8 DEF Renumbered, Excerpt
  <2>3. BlockSize(Append(items, x), N + 1)
          = BlockSize(items, N) + Size[c] + (IF items = << >> THEN 0 ELSE Separator)
    BY <2>2, <1>8, BlockFacts
  <2>4. BlockSize(Append(items, x), N + 1) = used + Rendered(c)
    <3>1. items = << >> <=> N = 0
      BY <1>8
    <3>2. QED BY <3>1, <2>3, <1>11
  <2>5. Cut(selected, pos + 1, Append(items, x), excluded)
    BY <2>2, <1>1, <1>6, <1>7, CutFits
  <2>6. Spent(budget, selected, Append(items, x), excluded)
    BY <2>1, <2>2, <2>4, <1>1, <1>6, <1>7, SpentFits
  <2>7. Len(Append(items, x)) = N + 1
    BY <1>8
  <2>8. /\ items' = Append(items, x) /\ excluded' = excluded
        /\ used' = BlockSize(items', Len(items'))
    BY <2>4, <2>7, <1>1, <1>13
  <2>9. Budgeting'
    BY <2>5, <2>6, <2>8, <1>1, <1>8, <1>9 DEF Budgeting
  <2>10. QED BY <2>9, <1>3, <1>4, <1>5 DEF RInv
<1>14. CASE Rejection(c) # "fits"
  <2>1. /\ Rejection(c) \in Reasons
        /\ Rejection(c) = "max_items" => N >= budget.max_items
        /\ Rejection(c) = "max_chars" => used + Rendered(c) > budget.max_chars
        /\ Rejection(c) = "max_total_tokens" =>
             Tokens(used + Rendered(c)) > budget.max_total_tokens
    BY <1>8, <1>9, <1>12, <1>14, RejectionIs
  <2>2. e \in Exclusion /\ e.rank = pos /\ e.chunk = c /\ e.reason = Rejection(c)
    BY <2>1, <1>8 DEF Exclusion
  <2>3. N <= budget.max_items
    <3>1. budget.max_items \in Nat
      BY <1>9 DEF KnowledgeContextConfigs
    <3>2. items # << >> => N <= budget.max_items
      BY <1>7 DEF Spent, Within
    <3>3. items = << >> => N = 0
      OBVIOUS
    <3>4. QED BY <3>1, <3>2, <3>3, <1>8
  <2>4. Full(items, e, N) = used + Rendered(c)
    BY <2>2, <1>11 DEF Full
  <2>5. Misfit(budget, items, e, N)
    <3>1. e.reason = "max_items" => N = budget.max_items
      <4>1. budget.max_items \in Nat
        BY <1>9 DEF KnowledgeContextConfigs
      <4>2. QED BY <4>1, <2>1, <2>2, <2>3, <1>8
    <3>2. QED BY <3>1, <2>1, <2>2, <2>4 DEF Misfit
  <2>6. Cut(selected, pos + 1, items, Append(excluded, e))
    BY <2>2, <1>1, <1>6, <1>7, CutLeavesOut
  <2>7. Spent(budget, selected, items, Append(excluded, e))
    BY <2>2, <2>5, <1>1, <1>6, <1>7, SpentLeavesOut
  <2>8. items' = items /\ excluded' = Append(excluded, e) /\ used' = used
    BY <1>1, <1>14
  <2>9. Budgeting'
    BY <2>6, <2>7, <2>8, <1>1, <1>7, <1>8, <1>9 DEF Budgeting
  <2>10. QED BY <2>9, <1>3, <1>4, <1>5 DEF RInv
<1>15. QED BY <1>13, <1>14

(* The context passes its own validators.                                  *)
LEMMA ContextIsConsistent ==
  ASSUME NEW at, Distinct(selected), selected \in Seq(Chunks), Cut(selected, at, items, excluded)
  PROVE  ContextConsistent
<1>1. /\ DOMAIN items = 1..Len(items) /\ DOMAIN excluded = 1..Len(excluded)
      /\ Len(items) \in Nat /\ DOMAIN selected = 1..Len(selected)
      /\ at \in 0..Len(selected) /\ Len(selected) \in Nat
  BY DEF Cut
<1>2. ASSUME NEW i \in DOMAIN items
      PROVE  items[i].ref = i /\ items[i].ref = items[i].rank + 1
  <2>1. items[i].ref = i /\ items[i].rank = i - 1
    BY <1>1 DEF Cut
  <2>2. QED BY <2>1, <1>1
<1>3. ASSUME NEW i \in DOMAIN items, NEW j \in DOMAIN items, i < j
      PROVE  items[i].chunk # items[j].chunk
  <2>1. items[i].chunk \in BeforeIn(selected, items[j].chunk)
    BY <1>1, <1>3 DEF Cut
  <2>2. PICK q \in 1..at : selected[q] = items[j].chunk
    BY <1>1 DEF Cut
  <2>3. q \in DOMAIN selected /\ ~(q < q)
    BY <1>1
  <2>4. selected[q] \notin BeforeIn(selected, selected[q])
    BY <2>3, BeforeIs
  <2>5. QED BY <2>1, <2>2, <2>4
<1>4. \A i, j \in DOMAIN items : items[i].chunk = items[j].chunk => i = j
  <2>1. \A i, j \in DOMAIN items : i < j \/ j < i \/ i = j
    BY <1>1
  <2>2. QED BY <2>1, <1>3
<1>5. \A i \in DOMAIN items, j \in DOMAIN excluded : items[i].chunk # excluded[j].chunk
  BY <1>1 DEF Cut
<1>6. QED BY <1>2, <1>4, <1>5 DEF ContextConsistent

LEMMA FinishKeeps ==
  ASSUME RInv, Finish, UNCHANGED <<given, progress, report>>
  PROVE  RInv'
<1>1. /\ phase = "budget" /\ pos = Len(selected)
      /\ phase' = (IF ContextConsistent THEN "done" ELSE "raised")
      /\ used' = (IF items = << >> THEN 0 ELSE used)
      /\ UNCHANGED <<inputs, search, waiting, selected, pos, items, excluded>>
  BY DEF Finish
<1>2. Control /\ Active /\ Asking /\ Choosing /\ Budgeting
  BY <1>1 DEF RInv, Active
<1>3. selected \in Seq(Chunks) /\ Distinct(selected)
  BY <1>1, <1>2, RankedFacts
<1>4. /\ Cut(selected, pos, items, excluded) /\ Spent(budget, selected, items, excluded)
      /\ used = (IF selected = << >> THEN 0 ELSE BlockSize(items, Len(items)))
  BY <1>1, <1>2 DEF Budgeting
<1>5. phase' = "done"
  BY <1>1, <1>3, <1>4, ContextIsConsistent
<1>6. Control' /\ Active'
  BY <1>1, <1>2, <1>5, ControlStays
<1>7. Asking' /\ Queries' = Queries
  BY <1>1, <1>2, AskingStays
<1>8. Choosing'
  BY <1>1, <1>2, <1>5, <1>7 DEF Choosing, inputs, search
<1>9. items # << >> => selected # << >>
  <2>1. selected = << >> => Len(items) = 0
    <3>1. items \in Seq(Excerpt) /\ excluded \in Seq(Exclusion) /\ Len(items) + Len(excluded) = pos
      BY <1>4 DEF Cut
    <3>2. Len(items) \in Nat /\ Len(excluded) \in Nat
      BY <3>1
    <3>3. QED BY <3>1, <3>2, <1>1
  <2>2. items \in Seq(Excerpt)
    BY <1>4 DEF Cut
  <2>3. QED BY <2>1, <2>2
<1>10. Budgeting'
  BY <1>1, <1>4, <1>5, <1>9 DEF Budgeting, inputs
<1>11. QED BY <1>6, <1>7, <1>8, <1>10 DEF RInv

LEMMA RetrievalInductive == RInv /\ [Next]_vars => RInv'
<1> SUFFICES ASSUME RInv, [Next]_vars PROVE RInv'
  OBVIOUS
<1>1. CASE BuildReport
  BY <1>1, BuildReportKeeps
<1>2. CASE ExtractSignals
  BY <1>2, ExtractSignalsKeeps
<1>3. CASE Retrieve
  <2>1. UNCHANGED <<given, progress, report>> /\ RetrievalStep
    BY <1>3 DEF Retrieve
  <2>2. CASE \E q \in SignalTypes \cup {Capture} : SearchQuery(q)
    BY <2>1, <2>2, SearchQueryKeeps
  <2>3. CASE \E c \in Chunks : Select(c)
    BY <2>1, <2>3, SelectKeeps
  <2>4. CASE Merge
    BY <2>1, <2>4, MergeKeeps
  <2>5. CASE Report
    BY <2>1, <2>5, ReportKeeps
  <2>6. CASE Consider
    BY <2>1, <2>6, ConsiderKeeps
  <2>7. CASE Finish
    BY <2>1, <2>7, FinishKeeps
  <2>8. QED BY <2>1, <2>2, <2>3, <2>4, <2>5, <2>6, <2>7 DEF RetrievalStep
<1>4. CASE AccountCase
  BY <1>4, AccountCaseKeeps
<1>5. CASE Recommend
  BY <1>5, RecommendKeeps
<1>6. CASE UNCHANGED vars
  BY <1>6 DEF RInv, Control, Active, Asking, Choosing, Budgeting, Clean, Queries, Case, Candidate,
               vars, inputs, search, block, given, progress
<1>7. QED BY <1>1, <1>2, <1>3, <1>4, <1>5, <1>6 DEF Next

LEMMA RetrievalInvariant == Spec => []RInv
BY ControlStarts, RetrievalInductive, PTL DEF Spec

LEMMA MergeFollows == RInv => MergeSound
<1> SUFFICES ASSUME RInv, phase \in {"rank", "budget", "done"}, NEW c \in Chunks
             PROVE  LET finders == {q \in Queries : c \in Hits(q)}
                    IN /\ c \in DOMAIN best <=> finders # {}
                       /\ finders # {} =>
                            /\ perQuery[c] = {<<q, score[q][c]>> : q \in finders}
                            /\ \A q \in finders : best[c] >= score[q][c]
                            /\ \E q \in finders : best[c] = score[q][c]
  BY DEF MergeSound
<1>1. Merged(Queries, score, cfg, best, perQuery)
  BY DEF RInv, Active, Asking, Choosing
<1>2. {q \in Queries : c \in Hits(q)} = Finders(Queries, score, cfg, c)
  BY HitsAre DEF Finders
<1>3. QED BY <1>1, <1>2 DEF Merged

LEMMA SelectionFollows == RInv => SelectionRight
<1> SUFFICES ASSUME RInv, phase \in {"rank", "budget", "done"}
             PROVE  /\ \A i, j \in DOMAIN selected : i < j => Precedes(selected[i], selected[j])
                    /\ \A c \in Chunks :
                         Cardinality(OfDocument(Document[c])) <= cfg.max_per_document
                    /\ phase # "rank" =>
                         \A c \in DOMAIN best \ Chosen :
                           \/ /\ Len(selected) = cfg.final_top_k
                              /\ \A i \in DOMAIN selected : Precedes(selected[i], c)
                           \/ Cardinality({i \in OfDocument(Document[c]) :
                                            Precedes(selected[i], c)}) = cfg.max_per_document
  BY DEF SelectionRight
<1>1. Control /\ Active /\ Asking /\ Choosing
  BY DEF RInv, Active
<1>2. Ranked(fired, cfg, best, waiting, selected)
  BY <1>1 DEF Choosing
<1>3. \A i, j \in DOMAIN selected : i < j => Precedes(selected[i], selected[j])
  BY <1>1, RankedFacts
<1>4. \A doc : OfDocument(doc) = OfDoc(selected, doc)
  BY DEF OfDocument, OfDoc
<1>5. ASSUME phase # "rank", NEW c \in DOMAIN best \ Chosen
      PROVE  \/ /\ Len(selected) = cfg.final_top_k
                /\ \A i \in DOMAIN selected : Precedes(selected[i], c)
             \/ Cardinality({i \in OfDocument(Document[c]) : Precedes(selected[i], c)})
                  = cfg.max_per_document
  <2>1. CASE c \in waiting
    <3>1. Len(selected) >= cfg.final_top_k /\ Len(selected) <= cfg.final_top_k
      BY <2>1, <1>1, <1>2, <1>5 DEF Choosing, Ranked
    <3>2. Len(selected) \in Nat /\ cfg.final_top_k \in Nat /\ DOMAIN selected = 1..Len(selected)
      BY <1>1, RankedFacts, Setting DEF RetrievalConfigs
    <3>3. \A i \in DOMAIN selected : Precedes(selected[i], c)
      BY <2>1, <3>2, <1>2, EarlierIs DEF Ranked
    <3>4. QED BY <3>1, <3>2, <3>3
  <2>2. CASE c \notin waiting
    <3>1. Chosen = ChunksOf(selected)
      BY DEF Chosen, ChunksOf
    <3>2. Cardinality(Sooner(fired, cfg, best, selected, c)) = cfg.max_per_document
      BY <3>1, <2>2, <1>2, <1>5 DEF Ranked
    <3>3. {i \in OfDocument(Document[c]) : Precedes(selected[i], c)}
            = Sooner(fired, cfg, best, selected, c)
      BY <1>4, EarlierIs DEF Sooner
    <3>4. QED BY <3>2, <3>3
  <2>3. QED BY <2>1, <2>2
<1>6. QED BY <1>2, <1>3, <1>4, <1>5 DEF Ranked

(* In every evaluation the merged scores are the best of the queries that  *)
(* returned a chunk, the report is ranked and capped as it says it is, and *)
(* no validator turns it down (retrieval.py merge, rank and cap).          *)
THEOREM RetrievalIsSound == Spec => []RetrievalSound
<1>1. RInv => NothingRejected
  BY DEF RInv, Control, NothingRejected
<1>2. RInv => RetrievalSound
  BY <1>1, MergeFollows, SelectionFollows DEF RetrievalSound
<1> QED BY <1>2, RetrievalInvariant, PTL

LEMMA BudgetFollows == RInv => BudgetRight
<1> SUFFICES ASSUME RInv, phase = "done" PROVE BudgetRight
  BY DEF BudgetRight
<1>1. Control /\ Active /\ Asking /\ Choosing /\ Budgeting
  BY DEF RInv, Active
<1>2. /\ selected \in Seq(Chunks) /\ Distinct(selected) /\ Len(selected) \in Nat
      /\ DOMAIN selected = 1..Len(selected)
  BY <1>1, RankedFacts
<1>3. /\ Cut(selected, pos, items, excluded) /\ Spent(budget, selected, items, excluded)
      /\ pos = Len(selected)
      /\ used = (IF items = << >> THEN 0 ELSE BlockSize(items, Len(items)))
  BY <1>1 DEF Budgeting
<1>4. /\ items \in Seq(Excerpt) /\ excluded \in Seq(Exclusion)
      /\ DOMAIN items = 1..Len(items) /\ DOMAIN excluded = 1..Len(excluded)
      /\ Len(items) \in Nat /\ Len(items) + Len(excluded) = Len(selected)
  BY <1>3 DEF Cut
<1>5. \A d : RankedBefore(d) = BeforeIn(selected, d)
  BY DEF RankedBefore, BeforeIn
<1>6. \A i, j \in DOMAIN items : i < j => items[i].chunk \in RankedBefore(items[j].chunk)
  BY <1>3, <1>4, <1>5 DEF Cut
<1>7. Chosen = Supplied \cup Dropped
  <2>1. ASSUME NEW i \in DOMAIN items PROVE items[i].chunk \in Chosen
    <3>1. PICK q \in 1..pos : selected[q] = items[i].chunk
      BY <1>3, <1>4 DEF Cut
    <3>2. QED BY <3>1, <1>2, <1>3 DEF Chosen
  <2>2. ASSUME NEW j \in DOMAIN excluded PROVE excluded[j].chunk \in Chosen
    <3>1. excluded[j].rank \in 0..(pos - 1) /\ excluded[j].chunk = selected[excluded[j].rank + 1]
      BY <1>3, <1>4 DEF Cut
    <3>2. excluded[j].rank + 1 \in DOMAIN selected
      BY <3>1, <1>2, <1>3
    <3>3. QED BY <3>1, <3>2 DEF Chosen
  <2>3. ASSUME NEW q \in DOMAIN selected PROVE selected[q] \in Supplied \cup Dropped
    <3>1. \/ \E i \in 1..Len(items) : items[i].chunk = selected[q]
          \/ \E j \in 1..Len(excluded) : excluded[j].chunk = selected[q]
      BY <1>2, <1>3 DEF Cut
    <3>2. QED BY <3>1, <1>4 DEF Supplied, Dropped
  <2>4. QED BY <2>1, <2>2, <2>3 DEF Chosen, Supplied, Dropped
<1>8. items # << >> => /\ used = BlockSize(items, Len(items))
                       /\ used <= budget.max_chars
                       /\ Tokens(used) <= budget.max_total_tokens
                       /\ Len(items) <= budget.max_items
  BY <1>3 DEF Spent, Within
<1>9. ASSUME NEW j \in DOMAIN excluded
      PROVE  LET e == excluded[j]
                 before == Cardinality(RankedBefore(e.chunk) \cap Supplied)
                 full == BlockSize(items, before) + Size[e.chunk]
                           + IF before = 0 THEN 0 ELSE Separator
             IN CASE e.reason = "max_items" -> before = budget.max_items
                  [] e.reason = "max_chars" -> full > budget.max_chars
                  [] e.reason = "max_total_tokens" -> Tokens(full) > budget.max_total_tokens
  <2> DEFINE e == excluded[j]
             before == Cardinality(RankedBefore(e.chunk) \cap Supplied)
  <2>1. e \in Exclusion
    BY <1>4
  <2>2. e.reason \in Reasons
    BY <2>1 DEF Exclusion
  <2>3. Supplied = ChunksIn(items)
    BY DEF Supplied, ChunksIn
  <2>4. before = KeptBefore(excluded, j)
    <3>1. j \in 1..Len(excluded)
      BY <1>4
    <3>2. Cardinality(BeforeIn(selected, e.chunk) \cap ChunksIn(items))
            = KeptBefore(excluded, j)
      BY <3>1, <1>2, <1>3, CountsKept
    <3>3. RankedBefore(e.chunk) = BeforeIn(selected, e.chunk)
      BY <1>5
    <3>4. QED BY <3>2, <3>3, <2>3
  <2>5. Misfit(budget, items, e, before)
    BY <2>4, <1>3, <1>4 DEF Spent
  <2>6. Full(items, e, before) = BlockSize(items, before) + Size[e.chunk]
                                   + IF before = 0 THEN 0 ELSE Separator
    BY DEF Full
  <2> HIDE DEF before, e
  <2>7. CASE e.reason = "max_items"
    BY <2>5, <2>7 DEF Misfit, before, e
  <2>8. CASE e.reason = "max_chars"
    BY <2>5, <2>6, <2>8 DEF Misfit, before, e
  <2>9. CASE e.reason = "max_total_tokens"
    BY <2>5, <2>6, <2>9 DEF Misfit, before, e
  <2>10. QED BY <2>2, <2>7, <2>8, <2>9 DEF Reasons
<1>10. QED BY <1>4, <1>6, <1>7, <1>8, <1>9 DEF BudgetRight

(* In every evaluation the excerpts of the prompt are within every limit   *)
(* of the budget, in rank order, and each chunk left out would have broken *)
(* the limit named (context.py build_knowledge_context).                   *)
THEOREM BudgetIsRight == Spec => []BudgetRight
BY BudgetFollows, RetrievalInvariant, PTL

-----------------------------------------------------------------------------
(* Sorting.  To sort a list is to choose for each place the index that as  *)
(* many others come before: with a strict order on the indices, the places *)
(* and the indices correspond one to one.                                  *)
PlaceOf(T, R) ==
  [p \in T |-> CHOOSE i \in T : Cardinality({j \in T : <<j, i>> \in R}) = p - 1]

LEMMA PlaceFacts ==
  ASSUME NEW n \in Nat, NEW R, StrictOrder(1..n, R)
  PROVE  /\ PlaceOf(1..n, R) \in Bijection(1..n, 1..n)
         /\ \A p \in 1..n : RankIn(1..n, R)[PlaceOf(1..n, R)[p]] = p - 1
<1> DEFINE T == 1..n
           rank == RankIn(T, R)
           place == PlaceOf(T, R)
<1>1. IsFiniteSet(T) /\ Cardinality(T) = n
  BY FS_Interval
<1>2. /\ rank \in [T -> 0..(n - 1)]
      /\ \A i, j \in T : <<i, j>> \in R => rank[i] < rank[j]
      /\ \A l \in 0..(n - 1) : \E i \in T : rank[i] = l
  <2>1. StrictOrder(T, R)
    OBVIOUS
  <2> HIDE DEF T, place
  <2>2. /\ RankIn(T, R) \in [T -> 0..(Cardinality(T) - 1)]
        /\ \A i, j \in T : <<i, j>> \in R => RankIn(T, R)[i] < RankIn(T, R)[j]
        /\ \A l \in 0..(Cardinality(T) - 1) : \E i \in T : RankIn(T, R)[i] = l
    <3>1. IsFiniteSet(T)
      BY <1>1
    <3>2. QED BY <2>1, <3>1, RankFacts
  <2>3. Cardinality(T) - 1 = n - 1
    BY <1>1
  <2>4. QED BY <2>2, <2>3
<1>3. \A i \in T : rank[i] = Cardinality({j \in T : <<j, i>> \in R})
  BY DEF RankIn
<1> HIDE DEF rank
<1>4. ASSUME NEW p \in T PROVE place[p] \in T /\ rank[place[p]] = p - 1
  <2>1. p - 1 \in 0..(n - 1)
    OBVIOUS
  <2>2. PICK i \in T : rank[i] = p - 1
    BY <1>2, <2>1
  <2>3. \E l \in T : Cardinality({j \in T : <<j, l>> \in R}) = p - 1
    BY <1>3, <2>2
  <2>4. place[p] = CHOOSE l \in T : Cardinality({j \in T : <<j, l>> \in R}) = p - 1
    BY DEF PlaceOf
  <2>5. place[p] \in T /\ Cardinality({j \in T : <<j, place[p]>> \in R}) = p - 1
    BY <2>3, <2>4
  <2>6. QED BY <1>3, <2>5
<1>5. place \in [T -> T]
  <2>1. place = [p \in T |-> CHOOSE i \in T : Cardinality({j \in T : <<j, i>> \in R}) = p - 1]
    BY DEF PlaceOf
  <2>2. \A p \in T : (CHOOSE i \in T : Cardinality({j \in T : <<j, i>> \in R}) = p - 1) \in T
    BY <1>4 DEF PlaceOf
  <2>3. QED BY <2>1, <2>2
<1>6. \A i, j \in T : rank[i] = rank[j] => i = j
  <2>1. \A i, j \in T : i # j => <<i, j>> \in R \/ <<j, i>> \in R
    BY DEF StrictOrder
  <2>2. \A i \in T : rank[i] \in Int
    BY <1>2
  <2>3. ASSUME NEW i \in T, NEW j \in T, i # j PROVE rank[i] # rank[j]
    <3>1. rank[i] < rank[j] \/ rank[j] < rank[i]
      BY <1>2, <2>1, <2>3
    <3>2. QED BY <2>2, <3>1
  <2>4. QED BY <2>3
<1> HIDE DEF place
<1>7. \A p, q \in T : place[p] = place[q] => p = q
  <2>1. SUFFICES ASSUME NEW p \in T, NEW q \in T, place[p] = place[q] PROVE p = q
    OBVIOUS
  <2>2. p - 1 = q - 1
    BY <1>4, <2>1
  <2>3. QED BY <2>2
<1>8. \A i \in T : \E p \in T : place[p] = i
  <2>1. SUFFICES ASSUME NEW i \in T PROVE \E p \in T : place[p] = i
    OBVIOUS
  <2>2. rank[i] \in 0..(n - 1)
    BY <1>2
  <2>3. rank[i] + 1 \in T /\ (rank[i] + 1) - 1 = rank[i]
    BY <2>2
  <2>4. QED BY <1>4, <1>6, <2>3
<1>9. QED BY <1>4, <1>5, <1>7, <1>8 DEF Bijection, Injection, Surjection, IsInjective, rank, place
-----------------------------------------------------------------------------
(* The keys of both orders are of three numbers.                           *)
Numbered(s) ==
  /\ DOMAIN s = 1..Len(s) /\ Len(s) \in Nat
  /\ \A i \in DOMAIN s : /\ s[i].out \in Nat /\ s[i].in \in Nat
                         /\ s[i].dport \in Nat /\ s[i].sport \in Nat /\ s[i].src \in Nat

ByInterest(s) ==
  {p \in (DOMAIN s) \X (DOMAIN s) :
     \/ CR!Outranks(s[p[1]], s[p[2]])
     \/ ~CR!Outranks(s[p[2]], s[p[1]]) /\ p[1] < p[2]}

ByPort(s) ==
  {p \in (DOMAIN s) \X (DOMAIN s) :
     \/ CR!PrecedesByPort(s[p[1]], s[p[2]])
     \/ ~CR!PrecedesByPort(s[p[2]], s[p[1]]) /\ p[1] < p[2]}

Blocked(c) == c.state = "BLOCKED"
Named(c) == c.sni # NoName

LEMMA OutranksMeans ==
  ASSUME NEW c, NEW d, c.out \in Nat, c.in \in Nat, d.out \in Nat, d.in \in Nat
  PROVE  CR!Outranks(c, d) <=>
           \/ Blocked(c) /\ ~Blocked(d)
           \/ /\ Blocked(c) <=> Blocked(d)
              /\ \/ Named(c) /\ ~Named(d)
                 \/ /\ Named(c) <=> Named(d)
                    /\ c.out + c.in > d.out + d.in
<1> DEFINE key(x) == <<IF x.state = "BLOCKED" THEN 1 ELSE 0,
                       IF x.sni # NoName THEN 1 ELSE 0, x.out + x.in>>
<1>1. CR!Outranks(c, d) <=>
        \E i \in 1..3 : /\ key(c)[i] > key(d)[i]
                        /\ \A j \in 1..i-1 : key(c)[j] = key(d)[j]
  BY DEF CR!Outranks, CR!Volume
<1>2. /\ key(c)[1] = (IF Blocked(c) THEN 1 ELSE 0) /\ key(d)[1] = (IF Blocked(d) THEN 1 ELSE 0)
      /\ key(c)[2] = (IF Named(c) THEN 1 ELSE 0) /\ key(d)[2] = (IF Named(d) THEN 1 ELSE 0)
      /\ key(c)[3] = c.out + c.in /\ key(d)[3] = d.out + d.in
  BY DEF Blocked, Named
<1> HIDE DEF key
<1>3. CR!Outranks(c, d) <=>
        \/ key(c)[1] > key(d)[1]
        \/ key(c)[2] > key(d)[2] /\ key(c)[1] = key(d)[1]
        \/ key(c)[3] > key(d)[3] /\ key(c)[1] = key(d)[1] /\ key(c)[2] = key(d)[2]
  <2>1. (\A j \in 1..1-1 : key(c)[j] = key(d)[j])
    OBVIOUS
  <2>2. (\A j \in 1..2-1 : key(c)[j] = key(d)[j]) <=> key(c)[1] = key(d)[1]
    OBVIOUS
  <2>3. (\A j \in 1..3-1 : key(c)[j] = key(d)[j]) <=> key(c)[1] = key(d)[1] /\ key(c)[2] = key(d)[2]
    OBVIOUS
  <2>4. \A i \in 1..3 : i = 1 \/ i = 2 \/ i = 3
    OBVIOUS
  <2>5. 1 \in 1..3 /\ 2 \in 1..3 /\ 3 \in 1..3
    OBVIOUS
  <2>6. QED BY <1>1, <2>1, <2>2, <2>3, <2>4, <2>5
<1>4. QED BY <1>2, <1>3

LEMMA PrecedesMeans ==
  ASSUME NEW c, NEW d
  PROVE  CR!PrecedesByPort(c, d) <=>
           \/ c.dport < d.dport
           \/ c.dport = d.dport /\ c.sport < d.sport
           \/ c.dport = d.dport /\ c.sport = d.sport /\ c.src < d.src
<1> DEFINE key(x) == <<x.dport, x.sport, x.src>>
<1>1. CR!PrecedesByPort(c, d) <=>
        \E i \in 1..3 : /\ key(c)[i] < key(d)[i]
                        /\ \A j \in 1..i-1 : key(c)[j] = key(d)[j]
  BY DEF CR!PrecedesByPort
<1>2. \A x : key(x)[1] = x.dport /\ key(x)[2] = x.sport /\ key(x)[3] = x.src
  OBVIOUS
<1> HIDE DEF key
<1>3. CR!PrecedesByPort(c, d) <=>
        \/ key(c)[1] < key(d)[1]
        \/ key(c)[2] < key(d)[2] /\ key(c)[1] = key(d)[1]
        \/ key(c)[3] < key(d)[3] /\ key(c)[1] = key(d)[1] /\ key(c)[2] = key(d)[2]
  <2>1. (\A j \in 1..1-1 : key(c)[j] = key(d)[j])
    OBVIOUS
  <2>2. (\A j \in 1..2-1 : key(c)[j] = key(d)[j]) <=> key(c)[1] = key(d)[1]
    OBVIOUS
  <2>3. (\A j \in 1..3-1 : key(c)[j] = key(d)[j]) <=> key(c)[1] = key(d)[1] /\ key(c)[2] = key(d)[2]
    OBVIOUS
  <2>4. \A i \in 1..3 : i = 1 \/ i = 2 \/ i = 3
    OBVIOUS
  <2>5. 1 \in 1..3 /\ 2 \in 1..3 /\ 3 \in 1..3
    OBVIOUS
  <2>6. QED BY <1>1, <2>1, <2>2, <2>3, <2>4, <2>5
<1>4. QED BY <1>2, <1>3

LEMMA InterestOrders ==
  ASSUME NEW s, Numbered(s) PROVE StrictOrder(DOMAIN s, ByInterest(s))
<1>1. \A i \in DOMAIN s : i \in Nat /\ s[i].out + s[i].in \in Nat
  BY DEF Numbered
<1>2. \A i, j \in DOMAIN s : CR!Outranks(s[i], s[j]) <=>
           \/ Blocked(s[i]) /\ ~Blocked(s[j])
           \/ /\ Blocked(s[i]) <=> Blocked(s[j])
              /\ \/ Named(s[i]) /\ ~Named(s[j])
                 \/ /\ Named(s[i]) <=> Named(s[j])
                    /\ s[i].out + s[i].in > s[j].out + s[j].in
  BY OutranksMeans DEF Numbered
<1>3. \A i, j \in DOMAIN s : <<i, j>> \in ByInterest(s) <=>
         \/ CR!Outranks(s[i], s[j])
         \/ ~CR!Outranks(s[j], s[i]) /\ i < j
  BY DEF ByInterest
<1>4. \A i \in DOMAIN s : <<i, i>> \notin ByInterest(s)
  BY <1>1, <1>2, <1>3
<1>5. \A i, j \in DOMAIN s : i # j => <<i, j>> \in ByInterest(s) \/ <<j, i>> \in ByInterest(s)
  BY <1>1, <1>2, <1>3
<1>6. ASSUME NEW i \in DOMAIN s, NEW j \in DOMAIN s, NEW l \in DOMAIN s,
             <<i, j>> \in ByInterest(s), <<j, l>> \in ByInterest(s)
      PROVE  <<i, l>> \in ByInterest(s)
  BY <1>1, <1>2, <1>3, <1>6
<1>7. QED BY <1>4, <1>5, <1>6 DEF StrictOrder

LEMMA PortOrders ==
  ASSUME NEW s, Numbered(s) PROVE StrictOrder(DOMAIN s, ByPort(s))
<1>1. \A i \in DOMAIN s : i \in Nat /\ s[i].dport \in Nat /\ s[i].sport \in Nat /\ s[i].src \in Nat
  BY DEF Numbered
<1>2. \A i, j \in DOMAIN s : CR!PrecedesByPort(s[i], s[j]) <=>
           \/ s[i].dport < s[j].dport
           \/ s[i].dport = s[j].dport /\ s[i].sport < s[j].sport
           \/ s[i].dport = s[j].dport /\ s[i].sport = s[j].sport /\ s[i].src < s[j].src
  BY PrecedesMeans
<1>3. \A i, j \in DOMAIN s : <<i, j>> \in ByPort(s) <=>
         \/ CR!PrecedesByPort(s[i], s[j])
         \/ ~CR!PrecedesByPort(s[j], s[i]) /\ i < j
  BY DEF ByPort
<1>4. \A i \in DOMAIN s : <<i, i>> \notin ByPort(s)
  BY <1>1, <1>2, <1>3
<1>5. \A i, j \in DOMAIN s : i # j => <<i, j>> \in ByPort(s) \/ <<j, i>> \in ByPort(s)
  BY <1>1, <1>2, <1>3
<1>6. ASSUME NEW i \in DOMAIN s, NEW j \in DOMAIN s, NEW l \in DOMAIN s,
             <<i, j>> \in ByPort(s), <<j, l>> \in ByPort(s)
      PROVE  <<i, l>> \in ByPort(s)
  BY <1>1, <1>2, <1>3, <1>6
<1>7. QED BY <1>4, <1>5, <1>6 DEF StrictOrder

LEMMA SameCount == ASSUME NEW T PROVE CR!Cardinality(T) = Cardinality(T)
BY DEF CR!Cardinality, Cardinality

LEMMA ConnectionsNumbered == ASSUME NEW s \in Seq(Connection) PROVE Numbered(s)
<1>1. DOMAIN s = 1..Len(s) /\ Len(s) \in Nat /\ \A i \in DOMAIN s : s[i] \in Connection
  OBVIOUS
<1>2. QED BY <1>1 DEF Numbered, Connection

LEMMA SortedByInterest ==
  ASSUME NEW s \in Seq(Connection)
  PROVE  \E at \in Bijection(1..Len(s), 1..Len(s)) :
           /\ CR!Sorted(s, CR!Outranks) = [p \in 1..Len(s) |-> s[at[p]]]
           /\ \A p, q \in 1..Len(s) : p < q => <<at[p], at[q]>> \in ByInterest(s)
<1> DEFINE T == 1..Len(s)
           R == ByInterest(s)
           at == PlaceOf(T, R)
<1>1. Len(s) \in Nat /\ DOMAIN s = T
  OBVIOUS
<1>2. StrictOrder(T, R)
  BY <1>1, ConnectionsNumbered, InterestOrders
<1>3. \A i \in T : {j \in T : <<j, i>> \in R}
                    = {j \in T : \/ CR!Outranks(s[j], s[i])
                                 \/ ~CR!Outranks(s[i], s[j]) /\ j < i}
  BY <1>1 DEF ByInterest
<1>4. CR!Sorted(s, CR!Outranks) = [p \in T |-> s[at[p]]]
  <2>1. CR!Sorted(s, CR!Outranks)
          = [p \in T |-> s[CHOOSE i \in T :
               CR!Cardinality({j \in T : \/ CR!Outranks(s[j], s[i])
                                         \/ ~CR!Outranks(s[i], s[j]) /\ j < i}) = p - 1]]
    BY <1>1 DEF CR!Sorted
  <2>2. ASSUME NEW p \in T
        PROVE  (CHOOSE i \in T :
                  CR!Cardinality({j \in T : \/ CR!Outranks(s[j], s[i])
                                            \/ ~CR!Outranks(s[i], s[j]) /\ j < i}) = p - 1)
                 = at[p]
    <3>1. \A i \in T :
            CR!Cardinality({j \in T : \/ CR!Outranks(s[j], s[i])
                                      \/ ~CR!Outranks(s[i], s[j]) /\ j < i})
              = Cardinality({j \in T : <<j, i>> \in R})
      BY <1>3, SameCount
    <3>2. at[p] = CHOOSE i \in T : Cardinality({j \in T : <<j, i>> \in R}) = p - 1
      BY DEF PlaceOf
    <3> HIDE DEF T, R
    <3>3. QED BY <3>1, <3>2
  <2> HIDE DEF T, at
  <2>3. QED BY <2>1, <2>2
<1>5. /\ at \in Bijection(T, T)
      /\ \A p \in T : RankIn(T, R)[at[p]] = p - 1
  BY <1>1, <1>2, PlaceFacts
<1>6. \A i, j \in T : RankIn(T, R)[i] < RankIn(T, R)[j] => <<i, j>> \in R
  <2>1. IsFiniteSet(T)
    BY <1>1, FS_Interval
  <2> HIDE DEF T
  <2>2. QED BY <1>2, <2>1, RankFacts
<1>7. \A p \in T : at[p] \in T
  BY <1>5 DEF Bijection, Injection
<1> HIDE DEF at
<1>8. ASSUME NEW p \in T, NEW q \in T, p < q PROVE <<at[p], at[q]>> \in R
  <2>1. p \in Nat /\ q \in Nat
    OBVIOUS
  <2>2. p - 1 < q - 1
    BY <1>8, <2>1
  <2>3. RankIn(T, R)[at[p]] = p - 1 /\ RankIn(T, R)[at[q]] = q - 1
    BY <1>5
  <2>4. QED BY <1>6, <1>7, <2>2, <2>3
<1>9. QED BY <1>4, <1>5, <1>8

LEMMA SortedByPort ==
  ASSUME NEW s \in Seq(Connection)
  PROVE  \E at \in Bijection(1..Len(s), 1..Len(s)) :
           CR!Sorted(s, CR!PrecedesByPort) = [p \in 1..Len(s) |-> s[at[p]]]
<1> DEFINE T == 1..Len(s)
           R == ByPort(s)
           at == PlaceOf(T, R)
<1>1. Len(s) \in Nat /\ DOMAIN s = T
  OBVIOUS
<1>2. StrictOrder(T, R)
  BY <1>1, ConnectionsNumbered, PortOrders
<1>3. \A i \in T : {j \in T : <<j, i>> \in R}
                    = {j \in T : \/ CR!PrecedesByPort(s[j], s[i])
                                 \/ ~CR!PrecedesByPort(s[i], s[j]) /\ j < i}
  BY <1>1 DEF ByPort
<1>4. CR!Sorted(s, CR!PrecedesByPort) = [p \in T |-> s[at[p]]]
  <2>1. CR!Sorted(s, CR!PrecedesByPort)
          = [p \in T |-> s[CHOOSE i \in T :
               CR!Cardinality({j \in T : \/ CR!PrecedesByPort(s[j], s[i])
                                         \/ ~CR!PrecedesByPort(s[i], s[j]) /\ j < i}) = p - 1]]
    BY <1>1 DEF CR!Sorted
  <2>2. ASSUME NEW p \in T
        PROVE  (CHOOSE i \in T :
                  CR!Cardinality({j \in T : \/ CR!PrecedesByPort(s[j], s[i])
                                            \/ ~CR!PrecedesByPort(s[i], s[j]) /\ j < i}) = p - 1)
                 = at[p]
    <3>1. \A i \in T :
            CR!Cardinality({j \in T : \/ CR!PrecedesByPort(s[j], s[i])
                                      \/ ~CR!PrecedesByPort(s[i], s[j]) /\ j < i})
              = Cardinality({j \in T : <<j, i>> \in R})
      BY <1>3, SameCount
    <3>2. at[p] = CHOOSE i \in T : Cardinality({j \in T : <<j, i>> \in R}) = p - 1
      BY DEF PlaceOf
    <3> HIDE DEF T, R
    <3>3. QED BY <3>1, <3>2
  <2> HIDE DEF T, at
  <2>3. QED BY <2>1, <2>2
<1>5. at \in Bijection(T, T)
  BY <1>1, <1>2, PlaceFacts
<1>6. QED BY <1>4, <1>5

LEMMA LeastOfTwo ==
  ASSUME NEW a \in Nat, NEW b \in Nat
  PROVE  /\ CR!Min({a, b}) = (IF a <= b THEN a ELSE b)
         /\ Min({a, b}) = (IF a <= b THEN a ELSE b)
<1> DEFINE x == IF a <= b THEN a ELSE b
<1>1. x \in {a, b} /\ \A y \in {a, b} : x <= y
  OBVIOUS
<1>2. \A z \in {a, b} : (\A y \in {a, b} : z <= y) => z = x
  OBVIOUS
<1> HIDE DEF x
<1>3. (CHOOSE z \in {a, b} : \A y \in {a, b} : z <= y) = x
  BY <1>1, <1>2
<1>4. CR!Min({a, b}) = x /\ Min({a, b}) = x
  BY <1>3 DEF CR!Min, Min
<1>5. QED BY <1>4 DEF x

(* What is selected: the first of the ranking, each of them once.          *)
LEMMA SelectedFacts ==
  ASSUME NEW s \in Seq(Connection), NEW most \in Nat
  PROVE  LET n == IF Len(s) <= most THEN Len(s) ELSE most
             sel == CR!Selected(s, most)
         IN /\ DOMAIN sel = 1..n /\ sel \in Seq(Connection) /\ Len(sel) = n
            /\ \E at \in Bijection(1..Len(s), 1..Len(s)) :
                 /\ \A p, q \in 1..Len(s) : p < q => <<at[p], at[q]>> \in ByInterest(s)
                 /\ \E to \in Bijection(1..n, 1..n) : \A i \in 1..n : sel[i] = s[at[to[i]]]
<1> DEFINE n == IF Len(s) <= most THEN Len(s) ELSE most
           ranked == CR!Sorted(s, CR!Outranks)
           sub == SubSeq(ranked, 1, n)
<1>1. Len(s) \in Nat /\ n \in Nat /\ n <= Len(s) /\ DOMAIN s = 1..Len(s)
      /\ \A i \in 1..Len(s) : s[i] \in Connection
  OBVIOUS
<1>2. PICK at \in Bijection(1..Len(s), 1..Len(s)) :
        /\ ranked = [p \in 1..Len(s) |-> s[at[p]]]
        /\ \A p, q \in 1..Len(s) : p < q => <<at[p], at[q]>> \in ByInterest(s)
  BY SortedByInterest
<1>3. \A p \in 1..Len(s) : at[p] \in 1..Len(s)
  BY <1>2 DEF Bijection, Injection
<1>4. ranked \in Seq(Connection) /\ Len(ranked) = Len(s) /\ \A p \in 1..Len(s) : ranked[p] = s[at[p]]
  BY <1>1, <1>2, <1>3
<1>5. CR!Min({Len(ranked), most}) = n
  BY <1>1, <1>4, LeastOfTwo
<1> HIDE DEF ranked, n
<1>6. sub \in Seq(Connection) /\ Len(sub) = n /\ \A i \in 1..n : sub[i] = ranked[i]
  BY <1>1, <1>4
<1>7. CR!Selected(s, most) = CR!Sorted(sub, CR!PrecedesByPort)
  BY <1>5 DEF CR!Selected, ranked
<1> HIDE DEF sub
<1>8. PICK to \in Bijection(1..n, 1..n) :
        CR!Sorted(sub, CR!PrecedesByPort) = [p \in 1..n |-> sub[to[p]]]
  BY <1>6, SortedByPort
<1>9. \A i \in 1..n : to[i] \in 1..n
  BY <1>8 DEF Bijection, Injection
<1>10. DOMAIN CR!Selected(s, most) = 1..n
       /\ \A i \in 1..n : CR!Selected(s, most)[i] = s[at[to[i]]]
  <2>1. ASSUME NEW i \in 1..n PROVE CR!Selected(s, most)[i] = s[at[to[i]]]
    <3>1. CR!Selected(s, most)[i] = sub[to[i]] /\ to[i] \in 1..n
      BY <1>7, <1>8, <1>9
    <3>2. to[i] \in 1..Len(s)
      BY <1>1, <3>1
    <3>3. QED BY <1>4, <1>6, <3>1, <3>2
  <2>2. QED BY <1>7, <1>8, <2>1
<1>11. CR!Selected(s, most) \in Seq(Connection) /\ Len(CR!Selected(s, most)) = n
  <2>1. \A p \in 1..n : sub[to[p]] \in Connection
    BY <1>6, <1>9
  <2>2. [p \in 1..n |-> sub[to[p]]] \in Seq(Connection) /\ Len([p \in 1..n |-> sub[to[p]]]) = n
    BY <1>1, <2>1
  <2>3. QED BY <1>7, <1>8, <2>2
<1>12. QED BY <1>2, <1>8, <1>10, <1>11 DEF n

(* Therefore: those selected are as many as may be, and none that is left  *)
(* out outranks one of them.                                               *)
LEMMA SelectionHidesNothing ==
  ASSUME NEW s \in Seq(Connection), IsInjective(s), NEW most \in Nat
  PROVE  LET sel == CR!Selected(s, most)
             kept == {sel[i] : i \in DOMAIN sel}
             whole == {s[i] : i \in DOMAIN s}
         IN /\ Cardinality(kept) = Min({Cardinality(whole), most})
            /\ kept \subseteq whole
            /\ \A c \in kept, d \in whole \ kept : ~CR!Outranks(d, c)
<1> DEFINE n == IF Len(s) <= most THEN Len(s) ELSE most
           sel == CR!Selected(s, most)
           kept == {sel[i] : i \in DOMAIN sel}
           all == {s[i] : i \in DOMAIN s}
<1>1. Len(s) \in Nat /\ n \in Nat /\ n <= Len(s) /\ DOMAIN s = 1..Len(s)
  OBVIOUS
<1>2. \A i, j \in 1..Len(s) : s[i] = s[j] => i = j
  BY <1>1 DEF IsInjective
<1>3. PICK at \in Bijection(1..Len(s), 1..Len(s)), to \in Bijection(1..n, 1..n) :
        /\ DOMAIN sel = 1..n
        /\ \A p, q \in 1..Len(s) : p < q => <<at[p], at[q]>> \in ByInterest(s)
        /\ \A i \in 1..n : sel[i] = s[at[to[i]]]
  <2>1. /\ DOMAIN sel = 1..n
        /\ \E at \in Bijection(1..Len(s), 1..Len(s)) :
             /\ \A p, q \in 1..Len(s) : p < q => <<at[p], at[q]>> \in ByInterest(s)
             /\ \E to \in Bijection(1..n, 1..n) : \A i \in 1..n : sel[i] = s[at[to[i]]]
    BY SelectedFacts, Zenon
  <2> HIDE DEF n, sel
  <2>2. QED BY <2>1, Zenon
<1> HIDE DEF n, sel
<1>4. \A p \in 1..Len(s) : at[p] \in 1..Len(s)
  BY <1>3 DEF Bijection, Injection
<1>5. \A p, q \in 1..Len(s) : at[p] = at[q] => p = q
  BY <1>3 DEF Bijection, Injection, IsInjective
<1>6. \A i \in 1..Len(s) : \E p \in 1..Len(s) : at[p] = i
  BY <1>3 DEF Bijection, Surjection
<1>7. \A p \in 1..n : to[p] \in 1..n
  BY <1>3 DEF Bijection, Injection
<1>8. \A p, q \in 1..n : to[p] = to[q] => p = q
  BY <1>3 DEF Bijection, Injection, IsInjective
<1>9. \A i \in 1..n : \E p \in 1..n : to[p] = i
  BY <1>3 DEF Bijection, Surjection
<1>10. \A i \in 1..n : i \in 1..Len(s)
  BY <1>1
<1>11. \A i \in 1..n : to[i] \in 1..Len(s) /\ at[to[i]] \in 1..Len(s)
  BY <1>4, <1>7, <1>10
<1>12. \A i, j \in 1..n : sel[i] = sel[j] => i = j
  <2>1. SUFFICES ASSUME NEW i \in 1..n, NEW j \in 1..n, sel[i] = sel[j] PROVE i = j
    OBVIOUS
  <2>2. at[to[i]] = at[to[j]]
    BY <1>2, <1>3, <1>11, <2>1
  <2>3. to[i] = to[j]
    BY <1>5, <1>11, <2>2
  <2>4. QED BY <1>8, <2>3
<1>13. Cardinality(kept) = n /\ Cardinality(all) = Len(s)
  <2>1. [i \in 1..n |-> sel[i]] \in Bijection(1..n, kept)
    BY <1>3, <1>12 DEF Bijection, Injection, Surjection, IsInjective
  <2>2. [i \in 1..Len(s) |-> s[i]] \in Bijection(1..Len(s), all)
    BY <1>1, <1>2 DEF Bijection, Injection, Surjection, IsInjective
  <2> HIDE DEF kept, all
  <2>3. ExistsBijection(1..n, kept) /\ ExistsBijection(1..Len(s), all)
    BY <2>1, <2>2 DEF ExistsBijection
  <2>4. \A x \in Nat : IsFiniteSet(1..x) /\ Cardinality(1..x) = x
    BY FS_Interval
  <2>5. QED BY <1>1, <2>3, <2>4, FS_Bijection
<1>14. Min({Cardinality(all), most}) = n
  <2>1. Min({Len(s), most}) = IF Len(s) <= most THEN Len(s) ELSE most
    BY <1>1, LeastOfTwo
  <2>2. QED BY <1>13, <2>1 DEF n
<1>15. kept \subseteq all
  BY <1>1, <1>3, <1>11
<1>16. ASSUME NEW c \in kept, NEW d \in all \ kept PROVE ~CR!Outranks(d, c)
  <2>1. PICK i \in 1..n : c = s[at[to[i]]]
    BY <1>3
  <2>2. PICK l \in 1..Len(s) : d = s[l]
    BY <1>1
  <2>3. PICK q \in 1..Len(s) : at[q] = l
    BY <1>6
  <2>4. q > n
    <3>1. SUFFICES ASSUME q <= n PROVE d \in kept
      BY <1>1
    <3>2. q \in 1..n
      BY <1>1, <3>1
    <3>3. PICK j \in 1..n : to[j] = q
      BY <1>9, <3>2
    <3>4. d = sel[j]
      BY <1>3, <2>2, <2>3, <3>3
    <3>5. QED BY <1>3, <3>4
  <2>5. to[i] < q /\ to[i] \in 1..Len(s)
    BY <1>1, <1>7, <1>11, <2>4
  <2>6. <<at[to[i]], l>> \in ByInterest(s)
    BY <1>3, <2>3, <2>5
  <2>7. c \in Connection /\ d \in Connection
    BY <1>1, <1>11, <2>1, <2>2
  <2>8. CR!Outranks(c, d) \/ ~CR!Outranks(d, c)
    BY <2>1, <2>2, <2>6 DEF ByInterest
  <2>9. CR!Outranks(c, d) => ~CR!Outranks(d, c)
    <3>1. c.out \in Nat /\ c.in \in Nat /\ d.out \in Nat /\ d.in \in Nat
      BY <2>7 DEF Connection
    <3>2. c.out + c.in \in Int /\ d.out + d.in \in Int
      BY <3>1
    <3>3. CR!Outranks(c, d) <=>
            \/ Blocked(c) /\ ~Blocked(d)
            \/ /\ Blocked(c) <=> Blocked(d)
               /\ \/ Named(c) /\ ~Named(d)
                  \/ /\ Named(c) <=> Named(d)
                     /\ c.out + c.in > d.out + d.in
      BY <3>1, OutranksMeans
    <3>4. CR!Outranks(d, c) <=>
            \/ Blocked(d) /\ ~Blocked(c)
            \/ /\ Blocked(d) <=> Blocked(c)
               /\ \/ Named(d) /\ ~Named(c)
                  \/ /\ Named(d) <=> Named(c)
                     /\ d.out + d.in > c.out + c.in
      BY <3>1, OutranksMeans
    <3>5. QED BY <3>2, <3>3, <3>4
  <2>10. QED BY <2>8, <2>9
<1>17. QED BY <1>13, <1>14, <1>15, <1>16 DEF sel
-----------------------------------------------------------------------------
(* While a case is looked at, its report is the one build_capture_report   *)
(* makes of its snapshot, and what fired is what that report supports.     *)
Reporting ==
  phase \in {"signals", "analysed", "search"} =>
    /\ k \in DOMAIN program.dataset
    /\ report = CR!BuildCaptureReport(Case.snapshot, program.mode, program.maxFlows)
    /\ phase # "signals" => DOMAIN fired = S!Extract(report)

LEMMA ReportingInvariant == Spec => []Reporting
<1>1. Init => Reporting
  BY DEF Init, Reporting
<1>2. RInv /\ Reporting /\ [Next]_vars => Reporting'
  <2> SUFFICES ASSUME RInv, Reporting, [Next]_vars PROVE Reporting'
    OBVIOUS
  <2>1. CASE BuildReport
    <3>1. k \in DOMAIN program.dataset
      BY <2>1 DEF BuildReport, RInv, Control
    <3>2. QED BY <2>1, <3>1 DEF BuildReport, Reporting, given, progress, Case
  <2>2. CASE ExtractSignals
    BY <2>2 DEF ExtractSignals, Reporting, given, progress, Case
  <2>3. CASE Retrieve
    <3>1. /\ phase \in {"search", "rank", "budget"} /\ UNCHANGED <<given, progress, report, fired>>
          /\ phase' = phase \/ phase' \in {"rank", "budget", "done", "raised"}
      BY <2>3 DEF Retrieve, RetrievalStep, SearchQuery, Select, Merge, Report, Consider, Finish,
                  inputs
    <3>2. QED BY <3>1 DEF Reporting, given, progress, Case
  <2>4. CASE AccountCase
    BY <2>4 DEF AccountCase, Reporting
  <2>5. CASE Recommend
    BY <2>5 DEF Recommend, Reporting
  <2>6. CASE UNCHANGED vars
    BY <2>6 DEF vars, inputs, given, progress, Reporting, Case
  <2>7. QED BY <2>1, <2>2, <2>3, <2>4, <2>5, <2>6 DEF Next
<1>3. QED BY <1>1, <1>2, RetrievalInvariant, PTL DEF Spec

(* In every analysis the cap keeps as many flows as it may, gives up none  *)
(* that is of more interest than one it keeps, and takes no trace of       *)
(* blocked traffic from the signals (extractor.py build_capture_report,    *)
(* signals.py _detect_blocked_traffic).                                    *)
THEOREM TheCapHidesNothing == Spec => []CapHidesNothing
<1>1. RInv /\ Reporting => CapHidesNothing
  <2> SUFFICES ASSUME RInv, Reporting, phase \in {"signals", "analysed", "search"}
               PROVE  CapHidesNothing
    BY DEF CapHidesNothing
  <2> DEFINE s == Case.snapshot.connections
             sel == CR!Selected(s, program.maxFlows)
  <2>1. /\ program \in Programs /\ k \in DOMAIN program.dataset
        /\ report = CR!BuildCaptureReport(Case.snapshot, program.mode, program.maxFlows)
        /\ phase # "signals" => DOMAIN fired = S!Extract(report)
    BY DEF RInv, Control, Reporting
  <2>2. LabelledCase(Case) /\ program.maxFlows \in Nat
    BY <2>1, ProgramAssumption DEF Case
  <2>3. s \in Seq(Connection) /\ IsInjective(s) /\ Case.snapshot.dropped \in Nat
    BY <2>2 DEF LabelledCase
  <2>4. /\ report.flows = [i \in DOMAIN sel |-> CR!FlowRecord(sel[i], program.mode, sel)]
        /\ report.dropped = Case.snapshot.dropped
    BY <2>1 DEF CR!BuildCaptureReport
  <2>5. \A i \in DOMAIN sel : report.flows[i].about = sel[i]
    <3>1. \A c : CR!FlowRecord(c, program.mode, sel).about = c
      BY DEF CR!FlowRecord
    <3> HIDE DEF s, sel
    <3>2. \A i \in DOMAIN sel :
             report.flows[i] = CR!FlowRecord(sel[i], program.mode, sel)
      BY <2>4
    <3>3. QED BY <3>1, <3>2
  <2>6. Kept = {sel[i] : i \in DOMAIN sel} /\ Given = {s[i] : i \in DOMAIN s}
    BY <2>4, <2>5 DEF Kept, Given
  <2> HIDE DEF s, sel
  <2>7. /\ Cardinality(Kept) = Min({Cardinality(Given), program.maxFlows})
        /\ Kept \subseteq Given
        /\ \A c \in Kept, d \in Given \ Kept : ~CR!Outranks(d, c)
    BY <2>2, <2>3, <2>6, SelectionHidesNothing DEF sel
  <2>8. ASSUME NEW c \in Kept, NEW d \in Given \ Kept
        PROVE  \/ c.state = "BLOCKED" /\ d.state # "BLOCKED"
               \/ /\ c.state = "BLOCKED" <=> d.state = "BLOCKED"
                  /\ \/ c.sni # NoName /\ d.sni = NoName
                     \/ /\ c.sni # NoName <=> d.sni # NoName
                        /\ c.out + c.in >= d.out + d.in
    <3>1. c \in Connection /\ d \in Connection
      BY <2>3, <2>6, <2>7
    <3>2. c.out \in Nat /\ c.in \in Nat /\ d.out \in Nat /\ d.in \in Nat
      BY <3>1 DEF Connection
    <3>3. c.out + c.in \in Int /\ d.out + d.in \in Int
      BY <3>2
    <3>4. QED BY <2>7, <3>2, <3>3, OutranksMeans DEF Blocked, Named
  <2>9. ASSUME phase # "signals", Case.snapshot.dropped > 0
        PROVE  "blocked_traffic_present" \in DOMAIN fired
    <3>1. S!BlockedTrafficPresent(report)
      BY <2>4, <2>9 DEF S!BlockedTrafficPresent
    <3>2. QED BY <2>1, <2>9, <3>1 DEF S!Extract, S!Detected
  <2>10. QED BY <2>7, <2>8, <2>9 DEF CapHidesNothing
<1>2. QED BY <1>1, RetrievalInvariant, ReportingInvariant, PTL

-----------------------------------------------------------------------------
(* Pseudonyms.  Dividing by the alphabet leaves a quotient and a letter,   *)
(* which together give back the number; so no two numbers have one word.   *)
LEMMA Quotient ==
  ASSUME NEW n \in Nat, NEW a \in Nat \ {0}
  PROVE  /\ n \div a \in Nat /\ n % a \in Nat /\ n \div a <= n
         /\ n = a * (n \div a) + (n % a)
<1>1. n \div a \in Int /\ n % a \in 0..(a - 1) /\ n = a * (n \div a) + (n % a)
  OBVIOUS
<1>2. ASSUME n \div a < 0 PROVE FALSE
  <2> DEFINE q == n \div a
             r == n % a
  <2>1. q \in Int /\ r \in 0..(a - 1) /\ n = a * q + r /\ q <= -1
    BY <1>1, <1>2
  <2> HIDE DEF q, r
  <2>2. a * q <= a * (-1)
    BY <2>1
  <2>3. QED BY <2>1, <2>2
<1>3. n \div a <= n
  <2> DEFINE q == n \div a
             r == n % a
  <2>1. q \in Nat /\ r \in 0..(a - 1) /\ n = a * q + r
    BY <1>1, <1>2
  <2> HIDE DEF q, r
  <2>2. q <= a * q
    BY <2>1
  <2>3. QED BY <2>1, <2>2 DEF q
<1>4. QED BY <1>1, <1>2, <1>3

LEMMA LettersAre ==
  /\ CR!Letters \in [Nat -> Seq(Nat)]
  /\ \A n \in Nat :
       CR!Letters[n] = IF n \div Alphabet = 0 THEN <<n % Alphabet>>
                       ELSE Append(CR!Letters[n \div Alphabet - 1], n % Alphabet)
<1> DEFINE D == Nat
           V == Seq(Nat)
           q(n) == n \div Alphabet
           r(n) == n % Alphabet
           mu == [n \in Nat |-> n]
           ends == {n \in Nat : q(n) = 0}
           base == [n \in Nat |-> <<r(n)>>]
           back == [n \in Nat |-> IF q(n) = 0 THEN n ELSE q(n) - 1]
           step == [p \in Nat \X V |-> Append(p[2], r(p[1]))]
<1>1. Alphabet \in Nat \ {0}
  BY ReportAssumption
<1>2. \A n \in Nat : q(n) \in Nat /\ r(n) \in Nat /\ q(n) <= n
  BY <1>1, Quotient
<1> HIDE DEF q, r
<1>3. /\ mu \in [D -> Nat] /\ base \in [D -> V] /\ back \in [D -> D]
      /\ \A d \in D \ ends : mu[back[d]] < mu[d]
  BY <1>2
<1>4. step \in [D \X V -> V]
  <2>1. ASSUME NEW p \in Nat \X V PROVE Append(p[2], r(p[1])) \in V
    <3>1. p[2] \in Seq(Nat) /\ r(p[1]) \in Nat
      BY <1>2
    <3>2. QED BY <3>1, AppendFacts
  <2>2. QED BY <2>1
<1> DEFINE L(f) == f = [n \in Nat |-> IF q(n) = 0 THEN <<r(n)>>
                                      ELSE Append(f[q(n) - 1], r(n))]
<1>5. \E f \in [D -> V] : L(f)
  <2>1. PICK f \in [D -> V] : f = Unrolled(D, ends, base, back, step, f)
    <3>1. Chained(D, V, mu, ends, base, back, step)
      BY <1>3, <1>4 DEF Chained
    <3> HIDE DEF D, V, mu, ends, base, back, step
    <3>2. QED BY <3>1, RecursionExists, SMT
  <2>2. \A n \in Nat : f[n] = IF n \in ends THEN base[n] ELSE step[<<n, f[back[n]]>>]
    BY <2>1 DEF Unrolled
  <2>3. ASSUME NEW n \in Nat
        PROVE  f[n] = IF q(n) = 0 THEN <<r(n)>> ELSE Append(f[q(n) - 1], r(n))
    <3>1. CASE q(n) = 0
      BY <2>2, <3>1
    <3>2. CASE q(n) # 0
      <4>1. back[n] = q(n) - 1 /\ q(n) - 1 \in Nat /\ n \notin ends
        <5>1. q(n) \in Nat
          BY <1>2
        <5>2. back[n] = q(n) - 1 /\ n \notin ends
          BY <3>2
        <5>3. q(n) - 1 \in Nat
          <6>1. \A x \in Nat : x # 0 => x - 1 \in Nat
            OBVIOUS
          <6>2. QED BY <3>2, <5>1, <6>1, Zenon
        <5>4. QED BY <5>2, <5>3
      <4>2. f[q(n) - 1] \in V
        BY <4>1
      <4>3. <<n, f[q(n) - 1]>> \in Nat \X V
        BY <4>2
      <4>4. step[<<n, f[q(n) - 1]>>] = Append(f[q(n) - 1], r(n))
        BY <4>3
      <4>5. QED BY <2>2, <3>2, <4>1, <4>4
    <3>3. QED BY <3>1, <3>2
  <2>4. f = [n \in Nat |-> f[n]]
    OBVIOUS
  <2>5. L(f)
    <3> HIDE DEF V
    <3>1. QED BY <2>3, <2>4
  <2>6. QED BY <2>5
<1>6. CR!Letters = CHOOSE f : L(f)
  BY DEF CR!Letters, q, r
<1>7. L(CR!Letters)
  <2> HIDE DEF L
  <2>1. QED BY <1>5, <1>6
<1>8. \A n \in Nat :
       CR!Letters[n] = IF q(n) = 0 THEN <<r(n)>>
                       ELSE Append(CR!Letters[q(n) - 1], r(n))
  BY <1>7
<1>9. \A n \in Nat : CR!Letters[n] \in V
  <2> DEFINE T == {n \in Nat : CR!Letters[n] \notin V}
  <2>1. SUFFICES ASSUME T # {} PROVE FALSE
    OBVIOUS
  <2>2. PICK n \in T : \A y \in T : n <= y
    <3>1. T \subseteq Nat
      OBVIOUS
    <3> HIDE DEF T
    <3>2. QED BY <2>1, <3>1, LeastNatural
  <2>3. n \in Nat /\ CR!Letters[n] \notin V
    OBVIOUS
  <2> HIDE DEF T
  <2>a. q(n) \in Nat /\ r(n) \in Nat /\ q(n) <= n
    BY <1>2, <2>3
  <2>b. CR!Letters[n] = IF q(n) = 0 THEN <<r(n)>> ELSE Append(CR!Letters[q(n) - 1], r(n))
    BY <1>8, <2>3
  <2>4. q(n) # 0
    <3>1. <<r(n)>> \in V
      BY <2>a
    <3> HIDE DEF V
    <3>2. QED BY <2>3, <2>b, <3>1
  <2>5. q(n) - 1 \in Nat /\ ~(n <= q(n) - 1)
    BY <2>3, <2>4, <2>a
  <2>6. CR!Letters[q(n) - 1] \in V
    BY <2>2, <2>5 DEF T
  <2>7. Append(CR!Letters[q(n) - 1], r(n)) \in V
    BY <1>2, <2>3, <2>6
  <2>8. QED BY <1>8, <2>3, <2>4, <2>7
<1>10. CR!Letters = [n \in Nat |-> CR!Letters[n]]
  <2>1. L(CR!Letters) => CR!Letters = [n \in Nat |-> CR!Letters[n]]
    BY <1>8
  <2>2. QED BY <1>7, <2>1
<1>11. CR!Letters \in [Nat -> V]
  <2> HIDE DEF V
  <2>1. QED BY <1>9, <1>10
<1>12. QED BY <1>8, <1>11 DEF q, r

LEMMA AppendInjective ==
  ASSUME NEW v \in Seq(Nat), NEW w \in Seq(Nat), NEW a \in Nat, NEW b \in Nat,
         Append(v, a) = Append(w, b)
  PROVE  v = w /\ a = b
<1>0. \A x \in Seq(Nat), c \in Nat :
        /\ Len(x) \in Nat /\ Len(Append(x, c)) = Len(x) + 1 /\ Append(x, c)[Len(x) + 1] = c
        /\ \A p \in 1..Len(x) : Append(x, c)[p] = x[p]
  OBVIOUS
<1>1. /\ Len(v) \in Nat /\ Len(Append(v, a)) = Len(v) + 1 /\ Append(v, a)[Len(v) + 1] = a
      /\ \A p \in 1..Len(v) : Append(v, a)[p] = v[p]
  BY <1>0, Zenon
<1>2. /\ Len(w) \in Nat /\ Len(Append(w, b)) = Len(w) + 1 /\ Append(w, b)[Len(w) + 1] = b
      /\ \A p \in 1..Len(w) : Append(w, b)[p] = w[p]
  BY <1>0, Zenon
<1>3. Len(v) = Len(w) /\ a = b
  BY <1>1, <1>2
<1>4. \A p \in 1..Len(v) : v[p] = w[p]
  BY <1>1, <1>2, <1>3
<1>5. v = [p \in 1..Len(v) |-> v[p]] /\ w = [p \in 1..Len(w) |-> w[p]]
  OBVIOUS
<1>6. QED BY <1>3, <1>4, <1>5

LEMMA LabelsDiffer ==
  \A n, o \in Nat : CR!Letters[n] = CR!Letters[o] => n = o
<1> DEFINE A == Alphabet
           q(x) == x \div Alphabet
           r(x) == x % Alphabet
           T == {n \in Nat : \E o \in Nat : CR!Letters[n] = CR!Letters[o] /\ n # o}
<1>1. A \in Nat \ {0}
  BY ReportAssumption
<1>2. \A x \in Nat : q(x) \in Nat /\ r(x) \in Nat /\ q(x) <= x /\ x = A * q(x) + r(x)
  BY <1>1, Quotient
<1>3. \A x \in Nat : /\ CR!Letters[x] \in Seq(Nat)
                     /\ CR!Letters[x] = IF q(x) = 0 THEN <<r(x)>>
                                        ELSE Append(CR!Letters[q(x) - 1], r(x))
  BY LettersAre
<1> HIDE DEF q, r, A
<1>4. ASSUME NEW x \in Nat, q(x) = 0 PROVE Len(CR!Letters[x]) = 1
  <2>1. CR!Letters[x] = IF q(x) = 0 THEN <<r(x)>> ELSE Append(CR!Letters[q(x) - 1], r(x))
    BY <1>3
  <2>2. CR!Letters[x] = <<r(x)>>
    BY <1>4, <2>1
  <2>3. QED BY <2>2
<1>5. ASSUME NEW x \in Nat, q(x) # 0
      PROVE  /\ q(x) - 1 \in Nat /\ CR!Letters[q(x) - 1] \in Seq(Nat)
             /\ CR!Letters[x] = Append(CR!Letters[q(x) - 1], r(x))
  <2>1. q(x) \in Nat
    BY <1>2
  <2>2. q(x) - 1 \in Nat
    BY <1>5, <2>1
  <2>3. CR!Letters[q(x) - 1] \in Seq(Nat)
    BY <1>3, <2>2
  <2>4. CR!Letters[x] = IF q(x) = 0 THEN <<r(x)>> ELSE Append(CR!Letters[q(x) - 1], r(x))
    BY <1>3
  <2>5. QED BY <1>5, <2>2, <2>3, <2>4
<1>6. ASSUME NEW x \in Nat PROVE Len(CR!Letters[x]) > 0
  <2>1. CASE q(x) = 0
    BY <1>4, <2>1
  <2>2. CASE q(x) # 0
    <3>1. PICK w \in Seq(Nat) : CR!Letters[x] = Append(w, r(x))
      BY <1>5, <2>2
    <3>2. Len(Append(w, r(x))) = Len(w) + 1 /\ Len(w) \in Nat
      BY <1>2, AppendFacts
    <3>3. QED BY <3>1, <3>2
  <2>3. QED BY <2>1, <2>2
<1>7. ASSUME NEW x \in Nat, q(x) # 0 PROVE Len(CR!Letters[x]) > 1
  <2>1. PICK w \in Seq(Nat) : CR!Letters[x] = Append(w, r(x)) /\ Len(w) > 0
    BY <1>5, <1>6, <1>7
  <2>2. Len(Append(w, r(x))) = Len(w) + 1 /\ Len(w) \in Nat
    BY <1>2, AppendFacts
  <2>3. QED BY <2>1, <2>2
<1>8. SUFFICES ASSUME T # {} PROVE FALSE
  OBVIOUS
<1>9. PICK n \in T : \A y \in T : n <= y
  <2>1. T \subseteq Nat
    OBVIOUS
  <2> HIDE DEF T
  <2>2. QED BY <1>8, <2>1, LeastNatural
<1>10. n \in Nat
  OBVIOUS
<1>11. PICK o \in Nat : CR!Letters[n] = CR!Letters[o] /\ n # o
  OBVIOUS
<1>12. CASE q(n) = 0 /\ q(o) = 0
  <2>1. CR!Letters[n] = <<r(n)>> /\ CR!Letters[o] = <<r(o)>>
    BY <1>3, <1>10, <1>12
  <2>2. <<r(n)>>[1] = r(n) /\ <<r(o)>>[1] = r(o)
    OBVIOUS
  <2>3. r(n) = r(o)
    BY <1>11, <2>1, <2>2
  <2>4. n = A * q(n) + r(n) /\ o = A * q(o) + r(o)
    BY <1>2, <1>10
  <2>5. QED BY <1>11, <1>12, <2>3, <2>4
<1>13. CASE q(n) # 0 /\ q(o) # 0
  <2> DEFINE v == CR!Letters[q(n) - 1]
             w == CR!Letters[q(o) - 1]
  <2>1. /\ q(n) - 1 \in Nat /\ v \in Seq(Nat) /\ CR!Letters[n] = Append(v, r(n))
    BY <1>5, <1>10, <1>13
  <2>2. /\ q(o) - 1 \in Nat /\ w \in Seq(Nat) /\ CR!Letters[o] = Append(w, r(o))
    BY <1>5, <1>13
  <2>3. r(n) \in Nat /\ r(o) \in Nat /\ q(n) \in Nat /\ q(o) \in Nat /\ q(n) <= n
    BY <1>2, <1>10
  <2> HIDE DEF v, w, T
  <2>4. Append(v, r(n)) = Append(w, r(o))
    BY <1>11, <2>1, <2>2
  <2>5. v = w /\ r(n) = r(o)
    <3>1. v \in Seq(Nat) /\ w \in Seq(Nat)
      BY <2>1, <2>2
    <3>2. QED BY <3>1, <2>3, <2>4, AppendInjective
  <2>6. n = A * q(n) + r(n) /\ o = A * q(o) + r(o)
    BY <1>2, <1>10
  <2>7. q(n) # q(o)
    BY <1>11, <2>5, <2>6
  <2>8. q(n) - 1 # q(o) - 1 /\ ~(n <= q(n) - 1)
    BY <1>10, <2>3, <2>7
  <2>9. q(n) - 1 \in T
    BY <2>1, <2>2, <2>5, <2>8 DEF v, w, T
  <2>10. QED BY <1>9, <2>8, <2>9
<1>14. Len(CR!Letters[n]) = Len(CR!Letters[o])
  BY <1>11
<1>15. (q(n) = 0) <=> (q(o) = 0)
  <2>1. ASSUME NEW x \in Nat, NEW y \in Nat, q(x) = 0, q(y) # 0,
               Len(CR!Letters[x]) = Len(CR!Letters[y])
        PROVE  FALSE
    <3>1. Len(CR!Letters[x]) = 1 /\ Len(CR!Letters[y]) > 1
      BY <1>4, <1>7, <2>1
    <3>2. QED BY <2>1, <3>1
  <2>2. QED BY <1>10, <1>14, <2>1
<1>16. QED BY <1>12, <1>13, <1>15

LEMMA LeastOf ==
  ASSUME NEW T, T \subseteq Nat, T # {}
  PROVE  /\ CR!Min(T) \in T /\ \A y \in T : CR!Min(T) <= y
<1>1. \E x \in T : \A y \in T : x <= y
  BY LeastNatural
<1>2. QED BY <1>1 DEF CR!Min

(* The pseudonym of an address counts the internal addresses seen before   *)
(* it first was: of two addresses the one seen first is counted for the    *)
(* other, so they never get one number.                                    *)
SeenBefore(seen, a) ==
  {seen[i] : i \in 1..(CR!Min({i \in DOMAIN seen : seen[i] = a}) - 1)} \cap Internal

LEMMA CountsDiffer ==
  ASSUME NEW n \in Nat, NEW seen, DOMAIN seen = 1..n, NEW a \in Internal, NEW b \in Internal,
         \E i \in 1..n : seen[i] = a, \E i \in 1..n : seen[i] = b, a # b
  PROVE  /\ Cardinality(SeenBefore(seen, a)) \in Nat
         /\ Cardinality(SeenBefore(seen, b)) \in Nat
         /\ Cardinality(SeenBefore(seen, a)) # Cardinality(SeenBefore(seen, b))
<1> DEFINE at(x) == {i \in DOMAIN seen : seen[i] = x}
           first(x) == CR!Min(at(x))
<1>1. ASSUME NEW x, \E i \in 1..n : seen[i] = x
      PROVE  first(x) \in 1..n /\ seen[first(x)] = x /\ \A i \in 1..n : seen[i] = x => first(x) <= i
  <2>1. at(x) \subseteq Nat /\ at(x) # {}
    BY <1>1
  <2>2. first(x) \in at(x) /\ \A y \in at(x) : first(x) <= y
    <3> HIDE DEF at
    <3>1. QED BY <2>1, LeastOf
  <2> HIDE DEF first
  <2>3. QED BY <2>2
<1>2. ASSUME NEW x, \E i \in 1..n : seen[i] = x
      PROVE  IsFiniteSet(SeenBefore(seen, x)) /\ Cardinality(SeenBefore(seen, x)) \in Nat
  <2> DEFINE all == {seen[i] : i \in 1..(first(x) - 1)}
  <2>1. IsFiniteSet(1..(first(x) - 1))
    <3>1. first(x) \in 1..n
      BY <1>1, <1>2
    <3> HIDE DEF first
    <3>2. first(x) - 1 \in Int
      BY <3>1
    <3>3. QED BY <3>2, FS_Interval
  <2> HIDE DEF first
  <2>2. IsFiniteSet(all)
    BY <2>1, FiniteImage
  <2>3. SeenBefore(seen, x) \in SUBSET all
    BY DEF SeenBefore, first
  <2> HIDE DEF all
  <2>4. QED BY <2>2, <2>3, FS_Subset, FS_CardinalityType
<1>3. ASSUME NEW x \in Internal, NEW y \in Internal, \E i \in 1..n : seen[i] = x, \E i \in 1..n : seen[i] = y,
             first(x) < first(y)
      PROVE  Cardinality(SeenBefore(seen, x)) < Cardinality(SeenBefore(seen, y))
  <2>1. /\ first(x) \in 1..n /\ seen[first(x)] = x /\ \A i \in 1..n : seen[i] = x => first(x) <= i
        /\ first(y) \in 1..n
    BY <1>1, <1>3
  <2>2. /\ SeenBefore(seen, x) = {seen[i] : i \in 1..(first(x) - 1)} \cap Internal
        /\ SeenBefore(seen, y) = {seen[i] : i \in 1..(first(y) - 1)} \cap Internal
    BY DEF SeenBefore
  <2> HIDE DEF first
  <2>3. SeenBefore(seen, x) \in SUBSET SeenBefore(seen, y)
    <3>1. \A i \in 1..(first(x) - 1) : i \in 1..(first(y) - 1)
      BY <1>3, <2>1
    <3>2. QED BY <2>2, <3>1
  <2>4. x \in SeenBefore(seen, y)
    <3>1. first(x) \in 1..(first(y) - 1)
      BY <1>3, <2>1
    <3>2. QED BY <2>1, <2>2, <3>1
  <2>5. x \notin SeenBefore(seen, x)
    <3>1. \A i \in 1..(first(x) - 1) : i \in 1..n /\ ~(first(x) <= i)
      BY <2>1
    <3>2. QED BY <2>1, <2>2, <3>1
  <2>6. /\ IsFiniteSet(SeenBefore(seen, x)) /\ IsFiniteSet(SeenBefore(seen, y))
        /\ Cardinality(SeenBefore(seen, x)) \in Nat /\ Cardinality(SeenBefore(seen, y)) \in Nat
    BY <1>2, <1>3
  <2>7. /\ Cardinality(SeenBefore(seen, x)) <= Cardinality(SeenBefore(seen, y))
        /\ Cardinality(SeenBefore(seen, x)) = Cardinality(SeenBefore(seen, y))
             => SeenBefore(seen, x) = SeenBefore(seen, y)
    BY <2>3, <2>6, FS_Subset
  <2>8. QED BY <2>4, <2>5, <2>6, <2>7
<1>4. first(a) \in 1..n /\ first(b) \in 1..n /\ first(a) # first(b)
  BY <1>1
<1>5. Cardinality(SeenBefore(seen, a)) \in Nat /\ Cardinality(SeenBefore(seen, b)) \in Nat
  BY <1>2
<1> HIDE DEF first
<1>6. first(a) < first(b) \/ first(b) < first(a)
  BY <1>4
<1>7. QED BY <1>3, <1>5, <1>6

LEMMA PseudonymsDiffer ==
  ASSUME NEW n \in Nat, NEW flows, Len(flows) = n, NEW i \in 1..n, NEW j \in 1..n,
         flows[i].src \in Internal, flows[j].src \in Internal,
         CR!LabelFor(flows[i].src, flows) = CR!LabelFor(flows[j].src, flows)
  PROVE  flows[i].src = flows[j].src
<1> DEFINE seen == CR!Seen(flows)
           a == flows[i].src
           b == flows[j].src
<1>1. DOMAIN seen = 1..(2 * n) /\ 2 * n \in Nat
  BY DEF CR!Seen
<1>2. ASSUME NEW l \in 1..n PROVE \E p \in 1..(2 * n) : seen[p] = flows[l].src
  <2>1. 2 * l - 1 \in 1..(2 * n) /\ ((2 * l - 1) + 1) \div 2 = l /\ (2 * l - 1) % 2 = 1
    OBVIOUS
  <2>2. seen[2 * l - 1] = flows[l].src
    BY <2>1 DEF CR!Seen
  <2>3. QED BY <2>1, <2>2
<1>3. ASSUME NEW x PROVE CR!LabelFor(x, flows) = CR!Letters[Cardinality(SeenBefore(seen, x))]
  <2>1. CR!LabelFor(x, flows)
          = CR!Letters[CR!Cardinality({seen[p] : p \in 1..(CR!Min({p \in DOMAIN seen : seen[p] = x}) - 1)}
                                        \cap Internal)]
    BY DEF CR!LabelFor, CR!Label
  <2>2. QED BY <2>1, SameCount DEF SeenBefore
<1> HIDE DEF seen
<1>4. SUFFICES ASSUME a # b PROVE FALSE
  OBVIOUS
<1>5. a \in Internal /\ b \in Internal /\ CR!LabelFor(a, flows) = CR!LabelFor(b, flows)
      /\ (\E p \in 1..(2 * n) : seen[p] = a) /\ (\E p \in 1..(2 * n) : seen[p] = b)
  BY <1>2
<1> HIDE DEF a, b
<1>6. /\ Cardinality(SeenBefore(seen, a)) \in Nat
      /\ Cardinality(SeenBefore(seen, b)) \in Nat
      /\ Cardinality(SeenBefore(seen, a)) # Cardinality(SeenBefore(seen, b))
  BY <1>1, <1>4, <1>5, CountsDiffer
<1>7. CR!Letters[Cardinality(SeenBefore(seen, a))] = CR!Letters[Cardinality(SeenBefore(seen, b))]
  BY <1>3, <1>5
<1>8. QED BY <1>6, <1>7, LabelsDiffer

LEMMA RedactionKeepsApart ==
  ASSUME NEW n \in Nat, NEW flows, Len(flows) = n, NEW i \in 1..n, NEW j \in 1..n,
         NEW mode \in {"full", "redact_private"}
  PROVE  CR!RedactIP(flows[i].src, mode, flows) = CR!RedactIP(flows[j].src, mode, flows)
           <=> flows[i].src = flows[j].src
<1> DEFINE a == flows[i].src
           b == flows[j].src
<1>1. ASSUME NEW x
      PROVE  CR!RedactIP(x, mode, flows)
               = IF mode = "redact_private" /\ x \in Internal
                 THEN <<"host", CR!LabelFor(x, flows)>> ELSE <<"address", x>>
  BY DEF CR!RedactIP
<1>2. "host" # "address" /\ \A v, w, x, y : <<v, w>> = <<x, y>> => v = x /\ w = y
  OBVIOUS
<1>3. ASSUME CR!RedactIP(a, mode, flows) = CR!RedactIP(b, mode, flows) PROVE a = b
  <2>1. CASE mode = "redact_private" /\ a \in Internal /\ b \in Internal
    <3>1. CR!LabelFor(a, flows) = CR!LabelFor(b, flows)
      BY <1>1, <1>2, <1>3, <2>1
    <3>2. QED BY <2>1, <3>1, PseudonymsDiffer
  <2>2. CASE ~(mode = "redact_private" /\ a \in Internal) /\ ~(mode = "redact_private" /\ b \in Internal)
    <3> HIDE DEF a, b
    <3>1. QED BY <1>1, <1>2, <1>3, <2>2
  <2>3. CASE ~((mode = "redact_private" /\ a \in Internal) <=> (mode = "redact_private" /\ b \in Internal))
    <3> HIDE DEF a, b
    <3>1. QED BY <1>1, <1>2, <1>3, <2>3
  <2>4. QED BY <2>1, <2>2, <2>3
<1>4. QED BY <1>3

(* Two reports of the same flows, but for the addresses.                   *)
Alike(r, o) ==
  /\ DOMAIN r.flows = DOMAIN o.flows /\ Len(r.flows) = Len(o.flows)
  /\ r.flows = << >> <=> o.flows = << >>
  /\ r.dropped = o.dropped
  /\ \A i \in DOMAIN r.flows :
       /\ r.flows[i].proto = o.flows[i].proto /\ r.flows[i].dport = o.flows[i].dport
       /\ r.flows[i].name = o.flows[i].name /\ r.flows[i].known = o.flows[i].known
       /\ r.flows[i].state = o.flows[i].state /\ r.flows[i].verdict = o.flows[i].verdict
       /\ r.flows[i].out = o.flows[i].out /\ r.flows[i].in = o.flows[i].in
       /\ r.flows[i].syn = o.flows[i].syn /\ r.flows[i].synack = o.flows[i].synack

LEMMA DetectedAlike ==
  ASSUME NEW r, NEW o, Alike(r, o)
  PROVE  \A t \in DOMAIN S!Detected(r) \ {"scan_port_fanout"} :
           S!Detected(r)[t] = S!Detected(o)[t]
<1> USE DEF S!FlowsWith
<1>1. S!UnknownAppShare(r) = S!UnknownAppShare(o)
  <2>1. {i \in DOMAIN r.flows : ~r.flows[i].known} = {i \in DOMAIN o.flows : ~o.flows[i].known}
    BY DEF Alike
  <2>2. QED BY <2>1 DEF S!UnknownAppShare, Alike
<1>2. {i \in DOMAIN r.flows : S!IsDns(r.flows[i])} = {i \in DOMAIN o.flows : S!IsDns(o.flows[i])}
  BY DEF Alike, S!IsDns
<1>3. S!DnsHighVolume(r) = S!DnsHighVolume(o)
  BY <1>2 DEF S!DnsHighVolume, Alike
<1>4. {i \in DOMAIN r.flows : S!IsDns(r.flows[i]) /\ S!IsNamed(r.flows[i])}
        = {i \in DOMAIN o.flows : S!IsDns(o.flows[i]) /\ S!IsNamed(o.flows[i])}
  BY DEF Alike, S!IsDns, S!IsNamed
<1>5. S!DnsHighCardinality(r) = S!DnsHighCardinality(o)
  <2> DEFINE dns == {i \in DOMAIN r.flows : S!IsDns(r.flows[i]) /\ S!IsNamed(r.flows[i])}
  <2>1. {r.flows[i].name : i \in dns} = {o.flows[i].name : i \in dns}
    BY DEF Alike
  <2>2. QED BY <1>4, <2>1 DEF S!DnsHighCardinality
<1>6. S!DnsAnomalousLabel(r) = S!DnsAnomalousLabel(o)
  <2>1. {i \in DOMAIN r.flows : /\ S!IsDns(r.flows[i]) /\ S!IsNamed(r.flows[i])
                                /\ r.flows[i].name \in Irregular}
          = {i \in DOMAIN o.flows : /\ S!IsDns(o.flows[i]) /\ S!IsNamed(o.flows[i])
                                    /\ o.flows[i].name \in Irregular}
    BY DEF Alike, S!IsDns, S!IsNamed
  <2>2. QED BY <2>1 DEF S!DnsAnomalousLabel
<1>7. S!ScanHalfOpen(r) = S!ScanHalfOpen(o)
  <2> DEFINE tcp == {i \in DOMAIN r.flows : r.flows[i].proto = "TCP" /\ r.flows[i].syn}
  <2>1. tcp = {i \in DOMAIN o.flows : o.flows[i].proto = "TCP" /\ o.flows[i].syn}
    BY DEF Alike
  <2>2. {i \in tcp : ~r.flows[i].synack} = {i \in tcp : ~o.flows[i].synack}
    BY DEF Alike
  <2>3. QED BY <2>1, <2>2 DEF S!ScanHalfOpen
<1>8. S!TlsWithoutSni(r) = S!TlsWithoutSni(o)
  <2>1. {i \in DOMAIN r.flows : /\ r.flows[i].proto = "TCP" /\ r.flows[i].dport = 443
                                /\ ~S!IsNamed(r.flows[i])}
          = {i \in DOMAIN o.flows : /\ o.flows[i].proto = "TCP" /\ o.flows[i].dport = 443
                                    /\ ~S!IsNamed(o.flows[i])}
    BY DEF Alike, S!IsNamed
  <2>2. QED BY <2>1 DEF S!TlsWithoutSni
<1>9. S!PlaintextHttp(r) = S!PlaintextHttp(o)
  <2>1. {i \in DOMAIN r.flows : r.flows[i].proto = "TCP" /\ r.flows[i].dport = 80}
          = {i \in DOMAIN o.flows : o.flows[i].proto = "TCP" /\ o.flows[i].dport = 80}
    BY DEF Alike
  <2>2. QED BY <2>1 DEF S!PlaintextHttp
<1>10. S!QuicPresent(r) = S!QuicPresent(o)
  <2>1. {i \in DOMAIN r.flows : r.flows[i].proto = "UDP" /\ r.flows[i].dport = 443}
          = {i \in DOMAIN o.flows : o.flows[i].proto = "UDP" /\ o.flows[i].dport = 443}
    BY DEF Alike
  <2>2. QED BY <2>1 DEF S!QuicPresent
<1>11. S!UploadAsymmetry(r) = S!UploadAsymmetry(o)
  <2>1. {i \in DOMAIN r.flows : /\ r.flows[i].out >= Config.upload_min_bytes_out
                                /\ r.flows[i].out >= Config.upload_min_ratio * r.flows[i].in
                                /\ r.flows[i].out >= Config.upload_min_ratio}
          = {i \in DOMAIN o.flows : /\ o.flows[i].out >= Config.upload_min_bytes_out
                                    /\ o.flows[i].out >= Config.upload_min_ratio * o.flows[i].in
                                    /\ o.flows[i].out >= Config.upload_min_ratio}
    BY DEF Alike
  <2>2. QED BY <2>1 DEF S!UploadAsymmetry
<1>12. S!NonstandardPortEgress(r) = S!NonstandardPortEgress(o)
  <2>1. {i \in DOMAIN r.flows : /\ r.flows[i].dport \notin CommonPorts
                                /\ r.flows[i].out + r.flows[i].in >= Config.nonstandard_min_bytes}
          = {i \in DOMAIN o.flows : /\ o.flows[i].dport \notin CommonPorts
                                    /\ o.flows[i].out + o.flows[i].in >= Config.nonstandard_min_bytes}
    BY DEF Alike
  <2>2. QED BY <2>1 DEF S!NonstandardPortEgress
<1>13. S!BlockedTrafficPresent(r) = S!BlockedTrafficPresent(o)
  <2>1. {i \in DOMAIN r.flows : r.flows[i].verdict = "DROP" \/ r.flows[i].state = "BLOCKED"}
          = {i \in DOMAIN o.flows : o.flows[i].verdict = "DROP" \/ o.flows[i].state = "BLOCKED"}
    BY DEF Alike
  <2>2. QED BY <2>1 DEF S!BlockedTrafficPresent, Alike
<1>14. S!BaselineWebBrowsing(r) = S!BaselineWebBrowsing(o)
  BY DEF S!BaselineWebBrowsing, Alike
<1>15. QED BY <1>1, <1>3, <1>5, <1>6, <1>7, <1>8, <1>9, <1>10, <1>11, <1>12, <1>13, <1>14
       DEF S!Detected

LEMMA ExtractAlike ==
  ASSUME NEW r, NEW o, Alike(r, o)
  PROVE  /\ S!Extract(r) \ {"scan_port_fanout"} = S!Extract(o) \ {"scan_port_fanout"}
         /\ (S!ScanPortFanout(r) => S!ScanPortFanout(o)) => S!Extract(r) \subseteq S!Extract(o)
<1> DEFINE types == DOMAIN S!Detected(r)
<1>1. types = DOMAIN S!Detected(o)
  BY DEF S!Detected
<1>2. /\ S!Detected(r)["scan_port_fanout"] = S!ScanPortFanout(r)
      /\ S!Detected(o)["scan_port_fanout"] = S!ScanPortFanout(o)
  BY DEF S!Detected
<1>3. /\ S!Extract(r) = {t \in types : S!Detected(r)[t]}
      /\ S!Extract(o) = {t \in types : S!Detected(o)[t]}
  BY <1>1 DEF S!Extract
<1>4. \A t \in types \ {"scan_port_fanout"} : S!Detected(r)[t] = S!Detected(o)[t]
  BY DetectedAlike
<1> HIDE DEF types
<1>5. \A t \in types \ {"scan_port_fanout"} : t \in S!Extract(r) <=> t \in S!Extract(o)
  BY <1>3, <1>4, Zenon
<1>6. "scan_port_fanout" \in S!Extract(r) => S!ScanPortFanout(r)
  BY <1>2, <1>3, Zenon
<1>7. S!ScanPortFanout(o) => "scan_port_fanout" \in S!Extract(o)
  <2>1. "scan_port_fanout" \in types
    BY DEF types, S!Detected
  <2>2. QED BY <1>2, <1>3, <2>1, Zenon
<1>8. S!Extract(r) \subseteq types /\ S!Extract(o) \subseteq types
  BY <1>3
<1>9. QED BY <1>5, <1>6, <1>7, <1>8

LEMMA RedactionCostsNothing ==
  ASSUME NEW snapshot, snapshot.connections \in Seq(Connection), NEW most \in Nat
  PROVE  LET under(mode) == S!Extract(CR!BuildCaptureReport(snapshot, mode, most))
         IN /\ under("redact_private") = under("full")
            /\ under("none") \ {"scan_port_fanout"} = under("full") \ {"scan_port_fanout"}
            /\ under("full") \subseteq under("none")
<1> DEFINE sel == CR!Selected(snapshot.connections, most)
           n == Len(sel)
           R(mode) == CR!BuildCaptureReport(snapshot, mode, most)
<1>1. n \in Nat /\ DOMAIN sel = 1..n
  <2>1. sel \in Seq(Connection)
    BY SelectedFacts
  <2>2. QED BY <2>1
<1>2. ASSUME NEW mode
      PROVE  /\ R(mode).flows = [i \in 1..n |-> CR!FlowRecord(sel[i], mode, sel)]
             /\ R(mode).dropped = snapshot.dropped
  BY <1>1 DEF CR!BuildCaptureReport
<1> HIDE DEF n, sel, R
<1>3. ASSUME NEW mode
      PROVE  /\ DOMAIN R(mode).flows = 1..n
             /\ Len(R(mode).flows) = n
             /\ R(mode).flows = << >> <=> n = 0
  <2> DEFINE record(i) == CR!FlowRecord(sel[i], mode, sel)
             s == [i \in 1..n |-> record(i)]
  <2>1. R(mode).flows = s
    BY <1>2, Zenon
  <2> HIDE DEF record
  <2>2. DOMAIN s = 1..n /\ Len(s) = n
    BY <1>1
  <2>3. n = 0 => s = << >>
    BY <1>1
  <2> HIDE DEF s
  <2>4. s = << >> => n = 0
    BY <2>2
  <2>5. QED BY <2>1, <2>2, <2>3, <2>4
<1>flow. ASSUME NEW mode, NEW i \in 1..n
      PROVE  R(mode).flows[i] = CR!FlowRecord(sel[i], mode, sel)
  <2>1. ASSUME NEW f, f = [j \in 1..n |-> CR!FlowRecord(sel[j], mode, sel)]
        PROVE  f[i] = CR!FlowRecord(sel[i], mode, sel)
    BY <2>1
  <2>2. QED BY <1>2, <2>1, Zenon
<1>4. ASSUME NEW mode, NEW other PROVE Alike(R(mode), R(other))
  <2>1. ASSUME NEW i \in 1..n
        PROVE  /\ R(mode).flows[i] = CR!FlowRecord(sel[i], mode, sel)
               /\ R(other).flows[i] = CR!FlowRecord(sel[i], other, sel)
    BY <1>flow, Zenon
  <2>2. \A c : /\ CR!FlowRecord(c, mode, sel).proto = CR!FlowRecord(c, other, sel).proto
               /\ CR!FlowRecord(c, mode, sel).dport = CR!FlowRecord(c, other, sel).dport
               /\ CR!FlowRecord(c, mode, sel).name = CR!FlowRecord(c, other, sel).name
               /\ CR!FlowRecord(c, mode, sel).known = CR!FlowRecord(c, other, sel).known
               /\ CR!FlowRecord(c, mode, sel).state = CR!FlowRecord(c, other, sel).state
               /\ CR!FlowRecord(c, mode, sel).verdict = CR!FlowRecord(c, other, sel).verdict
               /\ CR!FlowRecord(c, mode, sel).out = CR!FlowRecord(c, other, sel).out
               /\ CR!FlowRecord(c, mode, sel).in = CR!FlowRecord(c, other, sel).in
               /\ CR!FlowRecord(c, mode, sel).syn = CR!FlowRecord(c, other, sel).syn
               /\ CR!FlowRecord(c, mode, sel).synack = CR!FlowRecord(c, other, sel).synack
    BY DEF CR!FlowRecord
  <2>3. R(mode).dropped = R(other).dropped
    BY <1>2, Zenon
  <2>4. DOMAIN R(mode).flows = 1..n /\ DOMAIN R(other).flows = 1..n
    BY <1>3
  <2>5. QED BY <2>1, <2>2, <2>3, <2>4 DEF Alike
<1>5. ASSUME NEW mode, NEW i \in 1..n
      PROVE  /\ R(mode).flows[i].src = CR!RedactIP(sel[i].src, mode, sel)
             /\ R(mode).flows[i].dport = sel[i].dport
  <2>1. R(mode).flows[i] = CR!FlowRecord(sel[i], mode, sel)
    BY <1>flow, Zenon
  <2>2. QED BY <2>1 DEF CR!FlowRecord
<1>6. ASSUME NEW mode, NEW i \in 1..n
      PROVE  S!Fanout(R(mode), R(mode).flows[i].src)
               = {sel[j].dport : j \in {j \in 1..n : CR!RedactIP(sel[j].src, mode, sel)
                                                      = CR!RedactIP(sel[i].src, mode, sel)}}
  <2>1. S!Fanout(R(mode), R(mode).flows[i].src)
          = {R(mode).flows[j].dport : j \in {j \in 1..n : R(mode).flows[j].src = R(mode).flows[i].src}}
    BY <1>3 DEF S!Fanout, S!FlowsWith
  <2>2. {j \in 1..n : R(mode).flows[j].src = R(mode).flows[i].src}
          = {j \in 1..n : CR!RedactIP(sel[j].src, mode, sel) = CR!RedactIP(sel[i].src, mode, sel)}
    BY <1>5
  <2>3. QED BY <1>5, <2>1, <2>2
<1>7. ASSUME NEW mode \in {"full", "redact_private"}, NEW i \in 1..n
      PROVE  S!Fanout(R(mode), R(mode).flows[i].src)
               = {sel[j].dport : j \in {j \in 1..n : sel[j].src = sel[i].src}}
  <2>1. \A j \in 1..n : CR!RedactIP(sel[j].src, mode, sel) = CR!RedactIP(sel[i].src, mode, sel)
                          <=> sel[j].src = sel[i].src
    <3>1. Len(sel) = n
      BY DEF n
    <3>2. QED BY <1>1, <3>1, RedactionKeepsApart
  <2>2. {j \in 1..n : CR!RedactIP(sel[j].src, mode, sel) = CR!RedactIP(sel[i].src, mode, sel)}
          = {j \in 1..n : sel[j].src = sel[i].src}
    BY <2>1
  <2>3. QED BY <1>6, <2>2
<1>8. ASSUME NEW mode
      PROVE  S!ScanPortFanout(R(mode)) <=>
               \E i \in 1..n : Cardinality(S!Fanout(R(mode), R(mode).flows[i].src))
                                 >= Config.scan_min_distinct_ports
  <2>1. \A T : S!Cardinality(T) = Cardinality(T)
    BY DEF S!Cardinality, Cardinality
  <2>2. QED BY <1>3, <2>1 DEF S!ScanPortFanout
<1>9. S!ScanPortFanout(R("full")) <=> S!ScanPortFanout(R("redact_private"))
  <2>1. \A i \in 1..n : S!Fanout(R("full"), R("full").flows[i].src)
                          = S!Fanout(R("redact_private"), R("redact_private").flows[i].src)
    BY <1>7
  <2>2. QED BY <1>8, <2>1
<1>10. S!ScanPortFanout(R("full")) => S!ScanPortFanout(R("none"))
  <2>1. SUFFICES ASSUME S!ScanPortFanout(R("full")) PROVE S!ScanPortFanout(R("none"))
    OBVIOUS
  <2>2. PICK i \in 1..n : Cardinality(S!Fanout(R("full"), R("full").flows[i].src))
                            >= Config.scan_min_distinct_ports
    BY <1>8, <2>1
  <2> DEFINE few == S!Fanout(R("full"), R("full").flows[i].src)
             all == S!Fanout(R("none"), R("none").flows[i].src)
  <2>3. all = {sel[j].dport : j \in 1..n}
    <3>1. \A j \in 1..n : CR!RedactIP(sel[j].src, "none", sel) = CR!RedactIP(sel[i].src, "none", sel)
      BY DEF CR!RedactIP
    <3>2. {j \in 1..n : CR!RedactIP(sel[j].src, "none", sel) = CR!RedactIP(sel[i].src, "none", sel)} = 1..n
      BY <3>1
    <3>3. QED BY <1>6, <3>2
  <2>4. few \in SUBSET all
    <3>1. few = {sel[j].dport : j \in {j \in 1..n : sel[j].src = sel[i].src}}
      BY <1>7
    <3>2. QED BY <2>3, <3>1
  <2>5. IsFiniteSet(all)
    <3> DEFINE f == [j \in 1..n |-> sel[j].dport]
    <3>1. {f[j] : j \in 1..n} = {sel[j].dport : j \in 1..n}
      OBVIOUS
    <3>2. IsFiniteSet(1..n)
      BY <1>1, FS_Interval
    <3>3. all = {f[j] : j \in 1..n}
      BY <2>3, <3>1
    <3> HIDE DEF f, all
    <3>4. IsFiniteSet({f[j] : j \in 1..n})
      BY <3>2, FiniteImage
    <3>5. QED BY <3>3, <3>4
  <2> HIDE DEF few, all
  <2>6. Cardinality(few) <= Cardinality(all) /\ Cardinality(few) \in Nat /\ Cardinality(all) \in Nat
    BY <2>4, <2>5, FS_Subset, FS_CardinalityType
  <2>7. Config.scan_min_distinct_ports \in Nat
    BY ConfigAssumption DEF S!SignalConfigs
  <2>8. Cardinality(all) >= Config.scan_min_distinct_ports
    BY <2>2, <2>6, <2>7 DEF few
  <2>9. QED BY <1>8, <2>8 DEF all
<1>11. S!Extract(R("redact_private")) \subseteq S!Extract(R("full"))
  BY <1>4, <1>9, ExtractAlike
<1>12. S!Extract(R("full")) \subseteq S!Extract(R("redact_private"))
  BY <1>4, <1>9, ExtractAlike
<1>13. S!Extract(R("full")) \subseteq S!Extract(R("none"))
  BY <1>4, <1>10, ExtractAlike
<1>14. S!Extract(R("none")) \ {"scan_port_fanout"} = S!Extract(R("full")) \ {"scan_port_fanout"}
  BY <1>4, ExtractAlike
<1>15. QED BY <1>11, <1>12, <1>13, <1>14 DEF R

(* In every analysis, whatever the capture: pseudonyms leave the signals   *)
(* of the full addresses, and no addresses at all add at most the fan-out  *)
(* (redaction.py label_for, signals.py _detect_scan_port_fanout).          *)
THEOREM RedactionIsNeutral == Spec => []RedactionNeutral
<1>1. RInv /\ Reporting => RedactionNeutral
  <2> SUFFICES ASSUME RInv, Reporting, phase = "analysed" PROVE RedactionNeutral
    BY DEF RedactionNeutral
  <2>1. program \in Programs /\ k \in DOMAIN program.dataset
    BY DEF RInv, Control, Reporting
  <2>2. Case.snapshot.connections \in Seq(Connection) /\ program.maxFlows \in Nat
    BY <2>1, ProgramAssumption DEF Case, LabelledCase
  <2>3. QED BY <2>2, RedactionCostsNothing DEF RedactionNeutral, SignalsUnder
<1>2. QED BY <1>1, RetrievalInvariant, ReportingInvariant, PTL

-----------------------------------------------------------------------------
(* Sums.  Total goes through the indices by way of the library's fold: it  *)
(* is what a recursion over the sets of indices finds for all of them.     *)
One(T) == CHOOSE x \in T : TRUE

Adds(D, counts, f) ==
  /\ f \in [SUBSET D -> Nat] /\ f[{}] = 0
  /\ \A T \in SUBSET D : T # {} => f[T] = counts[One(T)] + f[T \ {One(T)}]

LEMMA TotalIs ==
  ASSUME NEW D, IsFiniteSet(D), NEW counts \in [D -> Nat]
  PROVE  \E f : Adds(D, counts, f) /\ Total(counts) = f[D]
<1> DEFINE base == [T \in SUBSET D |-> 0]
           mu == [T \in SUBSET D |-> Cardinality(T)]
           ends == {{}}
           back == [T \in SUBSET D |-> T \ {One(T)}]
           step == [p \in (SUBSET D) \X Nat |->
                      IF p[1] = {} THEN 0 ELSE counts[One(p[1])] + p[2]]
           Sum(f) == [s \in SUBSET D |-> IF s = {} THEN 0 ELSE counts[One(s)] + f[s \ {One(s)}]]
<1>1. ASSUME NEW T \in SUBSET D, T # {} PROVE One(T) \in T /\ One(T) \in D
  <2>1. \E x : x \in T
    BY <1>1
  <2>2. One(T) \in T
    BY <2>1 DEF One
  <2>3. QED BY <2>2
<1>2. ASSUME NEW T \in SUBSET D
      PROVE  /\ Cardinality(T) \in Nat
             /\ T # {} => Cardinality(T \ {One(T)}) \in Nat /\ Cardinality(T \ {One(T)}) < Cardinality(T)
  <2>1. IsFiniteSet(T) /\ Cardinality(T) \in Nat
    BY FS_Subset, FS_CardinalityType
  <2>2. ASSUME T # {}
        PROVE  Cardinality(T \ {One(T)}) \in Nat /\ Cardinality(T \ {One(T)}) < Cardinality(T)
    <3>1. One(T) \in T
      BY <1>1, <2>2
    <3>2. Cardinality(T \ {One(T)}) = Cardinality(T) - 1 /\ IsFiniteSet(T \ {One(T)})
      BY <2>1, <3>1, FS_RemoveElement
    <3>3. Cardinality(T \ {One(T)}) \in Nat
      BY <3>2, FS_CardinalityType
    <3>4. QED BY <2>1, <3>2, <3>3
  <2>3. QED BY <2>1, <2>2
<1>3. Chained(SUBSET D, Nat, mu, ends, base, back, step)
  <2>1. mu \in [SUBSET D -> Nat] /\ base \in [SUBSET D -> Nat] /\ back \in [SUBSET D -> SUBSET D]
    BY <1>2
  <2>2. step \in [(SUBSET D) \X Nat -> Nat]
    <3>1. ASSUME NEW p \in (SUBSET D) \X Nat
          PROVE  (IF p[1] = {} THEN 0 ELSE counts[One(p[1])] + p[2]) \in Nat
      <4>1. p[1] # {} => counts[One(p[1])] \in Nat
        BY <1>1
      <4>2. QED BY <4>1
    <3>2. QED BY <3>1
  <2>3. \A T \in (SUBSET D) \ ends : mu[back[T]] < mu[T]
    BY <1>2
  <2> HIDE DEF mu, base, back, step, ends
  <2>4. QED BY <2>1, <2>2, <2>3 DEF Chained
<1>4. PICK f \in [SUBSET D -> Nat] : f = Unrolled(SUBSET D, ends, base, back, step, f)
  <2> DEFINE E == SUBSET D
  <2>1. Chained(E, Nat, mu, ends, base, back, step)
    BY <1>3
  <2> HIDE DEF E, mu, base, back, step, ends
  <2>2. \E f \in [E -> Nat] : f = Unrolled(E, ends, base, back, step, f)
    BY <2>1, RecursionExists
  <2>3. QED BY <2>2 DEF E
<1>5. f = Sum(f)
  <2>1. ASSUME NEW T \in SUBSET D
        PROVE  (IF T \in ends THEN base[T] ELSE step[<<T, f[back[T]]>>])
                 = IF T = {} THEN 0 ELSE counts[One(T)] + f[T \ {One(T)}]
    <3>1. f[back[T]] \in Nat /\ back[T] = T \ {One(T)}
      OBVIOUS
    <3>2. QED BY <3>1
  <2> HIDE DEF ends, base, back, step
  <2>2. QED BY <1>4, <2>1 DEF Unrolled
<1> DEFINE sum == CHOOSE g : g = Sum(g)
<1>6. sum = Sum(sum)
  <2> HIDE DEF Sum
  <2>1. QED BY <1>5
<1>7. Total(counts) = sum[D]
  <2>1. DOMAIN counts = D
    OBVIOUS
  <2>2. QED BY <2>1 DEF Total, MapThenSumSet, MapThenFoldSet, One
<1> HIDE DEF sum
<1>8. DOMAIN sum = SUBSET D /\ \A T \in SUBSET D :
        sum[T] = IF T = {} THEN 0 ELSE counts[One(T)] + sum[T \ {One(T)}]
  BY <1>6
<1>a. sum[{}] = 0
  <2>1. {} \in SUBSET D
    OBVIOUS
  <2>2. QED BY <1>8, <2>1
<1>9. \A T \in SUBSET D : sum[T] \in Nat
  <2> DEFINE U == {T \in SUBSET D : sum[T] \notin Nat}
             N == {Cardinality(T) : T \in U}
  <2>1. SUFFICES ASSUME N # {} PROVE FALSE
    OBVIOUS
  <2>2. N \subseteq Nat
    BY <1>2
  <2>3. PICK n \in N : \A y \in N : n <= y
    <3> HIDE DEF N
    <3>1. QED BY <2>1, <2>2, LeastNatural
  <2>4. PICK T \in U : n = Cardinality(T)
    OBVIOUS
  <2>5. T # {}
    <3>1. sum[T] \notin Nat
      OBVIOUS
    <3> HIDE DEF U, N
    <3>2. sum[{}] \in Nat
      BY <1>a
    <3>3. QED BY <3>1, <3>2, Zenon
  <2>6. T \ {One(T)} \notin U
    <3>1. Cardinality(T \ {One(T)}) < n /\ n \in Nat /\ Cardinality(T \ {One(T)}) \in Nat
      BY <1>2, <2>4, <2>5
    <3>2. Cardinality(T \ {One(T)}) \notin N
      <4> HIDE DEF N
      <4>1. QED BY <2>3, <3>1
    <3>3. QED BY <3>2
  <2>7. sum[T \ {One(T)}] \in Nat /\ counts[One(T)] \in Nat
    BY <1>1, <2>5, <2>6
  <2>8. QED BY <1>8, <2>5, <2>7
<1>10. Adds(D, counts, sum)
  <2>1. sum \in [SUBSET D -> Nat]
    <3>1. sum = [T \in SUBSET D |-> IF T = {} THEN 0 ELSE counts[One(T)] + sum[T \ {One(T)}]]
      BY <1>6
    <3>2. \A T \in SUBSET D : (IF T = {} THEN 0 ELSE counts[One(T)] + sum[T \ {One(T)}]) \in Nat
      BY <1>8, <1>9
    <3>3. QED BY <3>1, <3>2
  <2>2. \A T \in SUBSET D : T # {} => sum[T] = counts[One(T)] + sum[T \ {One(T)}]
    BY <1>8
  <2>3. QED BY <1>a, <2>1, <2>2 DEF Adds
<1>11. QED BY <1>7, <1>10

LEMMA TotalFacts ==
  ASSUME NEW D, IsFiniteSet(D), NEW a \in [D -> Nat], NEW b \in [D -> Nat]
  PROVE  /\ Total(a) \in Nat
         /\ D = {} => Total(a) = 0
         /\ (\A i \in D : a[i] <= b[i]) => Total(a) <= Total(b)
         /\ (\A i \in D : a[i] <= b[i]) /\ (\E i \in D : a[i] < b[i]) => Total(a) < Total(b)
<1>1. PICK f : Adds(D, a, f) /\ Total(a) = f[D]
  BY TotalIs
<1>2. PICK g : Adds(D, b, g) /\ Total(b) = g[D]
  BY TotalIs
<1>3. \A T \in SUBSET D : /\ f[T] \in Nat /\ g[T] \in Nat
                          /\ T # {} => /\ f[T] = a[One(T)] + f[T \ {One(T)}]
                                       /\ g[T] = b[One(T)] + g[T \ {One(T)}]
  BY <1>1, <1>2 DEF Adds
<1>4. f[{}] = 0 /\ g[{}] = 0
  BY <1>1, <1>2 DEF Adds
<1>5. ASSUME \A i \in D : a[i] <= b[i]
      PROVE  \A T \in SUBSET D : f[T] <= g[T] /\ ((\E i \in T : a[i] < b[i]) => f[T] < g[T])
  <2> DEFINE Good(T) == f[T] <= g[T] /\ ((\E i \in T : a[i] < b[i]) => f[T] < g[T])
             U == {T \in SUBSET D : ~Good(T)}
             N == {Cardinality(T) : T \in U}
  <2>1. SUFFICES ASSUME N # {} PROVE FALSE
    OBVIOUS
  <2>2. \A T \in SUBSET D : IsFiniteSet(T) /\ Cardinality(T) \in Nat
    BY FS_Subset, FS_CardinalityType
  <2>3. N \subseteq Nat
    BY <2>2
  <2>4. PICK n \in N : \A y \in N : n <= y
    <3> HIDE DEF N
    <3>1. QED BY <2>1, <2>3, LeastNatural
  <2>5. PICK T \in U : n = Cardinality(T)
    OBVIOUS
  <2>6. T # {}
    BY <1>4
  <2> DEFINE x == One(T)
             less == T \ {x}
  <2>7. x \in T /\ x \in D
    <3>1. \E y : y \in T
      BY <2>6
    <3>2. QED BY <3>1 DEF One
  <2>8. Good(less)
    <3>1. Cardinality(less) = n - 1
      BY <2>2, <2>5, <2>7, FS_RemoveElement
    <3>2. n \in Nat /\ ~(n <= n - 1)
      BY <2>3
    <3>3. Cardinality(less) \notin N
      <4> HIDE DEF N
      <4>1. QED BY <2>4, <3>1, <3>2
    <3>4. less \in SUBSET D
      OBVIOUS
    <3> HIDE DEF Good, less
    <3>5. QED BY <3>3, <3>4
  <2>9. /\ f[T] = a[x] + f[less] /\ g[T] = b[x] + g[less]
        /\ f[less] \in Nat /\ g[less] \in Nat /\ a[x] \in Nat /\ b[x] \in Nat /\ a[x] <= b[x]
    BY <1>3, <1>5, <2>6, <2>7
  <2>10. f[T] <= g[T]
    BY <2>8, <2>9
  <2>11. ASSUME NEW i \in T, a[i] < b[i] PROVE f[T] < g[T]
    <3>1. CASE i = x
      BY <2>8, <2>9, <2>11, <3>1
    <3>2. CASE i # x
      <4>1. i \in less
        BY <3>2
      <4>2. f[less] < g[less]
        BY <2>8, <2>11, <4>1
      <4>3. QED BY <2>9, <4>2
    <3>3. QED BY <3>1, <3>2
  <2>12. QED BY <2>10, <2>11
<1>6. D \in SUBSET D
  OBVIOUS
<1>7. QED BY <1>1, <1>2, <1>3, <1>4, <1>5, <1>6

-----------------------------------------------------------------------------
(* Orders.  A strict order on finitely many has a last.                    *)
LEMMA LastOf ==
  ASSUME NEW T, NEW R, IsFiniteSet(T), T # {}, StrictOrder(T, R)
  PROVE  \E l \in T : \A i \in T \ {l} : <<i, l>> \in R
<1> DEFINE top == Cardinality(T)
           rank == RankIn(T, R)
<1>1. /\ top \in Nat /\ rank \in [T -> 0..(top - 1)]
      /\ \A i, j \in T : <<i, j>> \in R => rank[i] < rank[j]
      /\ \A n \in 0..(top - 1) : \E i \in T : rank[i] = n
  BY RankFacts
<1>2. \A i \in T : rank[i] \in Nat /\ rank[i] <= top - 1
  BY <1>1
<1> HIDE DEF rank
<1>3. top - 1 \in 0..(top - 1)
  BY <1>1, <1>2
<1>4. PICK l \in T : rank[l] = top - 1
  BY <1>1, <1>3
<1>5. ASSUME NEW i \in T \ {l} PROVE <<i, l>> \in R
  <2>1. ~ (<<l, i>> \in R)
    BY <1>1, <1>2, <1>4
  <2>2. QED BY <2>1 DEF StrictOrder
<1>6. QED BY <1>5

LEMMA GreatestOf ==
  ASSUME NEW T, T \subseteq Nat, IsFiniteSet(T), T # {}
  PROVE  Max(T) \in T /\ \A y \in T : y <= Max(T)
<1> DEFINE R == {p \in T \X T : p[1] < p[2]}
<1>1. \A i, j \in T : <<i, j>> \in R <=> i < j
  OBVIOUS
<1>2. \A i \in T : i \in Nat
  OBVIOUS
<1> HIDE DEF R
<1>3. StrictOrder(T, R)
  BY <1>1, <1>2 DEF StrictOrder
<1>4. PICK l \in T : \A i \in T \ {l} : <<i, l>> \in R
  BY <1>3, LastOf
<1>5. ASSUME NEW y \in T PROVE l >= y /\ y <= l
  <2>1. y = l \/ y < l
    BY <1>1, <1>4
  <2>2. QED BY <1>2, <2>1
<1>6. Max(T) \in T /\ \A y \in T : Max(T) >= y
  BY <1>5 DEF Max
<1>7. QED BY <1>2, <1>6

(* Means are compared across their counts.                                 *)
Fraction(a) == a[1] \in Int /\ a[2] \in Nat \ {0}

LEMMA Scaled ==
  ASSUME NEW x \in Int, NEW y \in Int, NEW d \in Nat \ {0}
  PROVE  x <= y <=> x * d <= y * d
<1>1. x <= y => x * d <= y * d
  OBVIOUS
<1>2. x > y => x * d > y * d
  OBVIOUS
<1>3. QED BY <1>1, <1>2

LEMMA BelowFacts ==
  ASSUME NEW a, NEW b, NEW c, Fraction(a), Fraction(b), Fraction(c)
  PROVE  /\ Below(a, b) => ~Below(b, a)
         /\ ~Below(a, b) /\ ~Below(b, c) => ~Below(a, c)
<1> DEFINE p1 == a[1]  d1 == a[2]  p2 == b[1]  d2 == b[2]  p3 == c[1]  d3 == c[2]
<1>1. /\ p1 \in Int /\ p2 \in Int /\ p3 \in Int
      /\ d1 \in Nat \ {0} /\ d2 \in Nat \ {0} /\ d3 \in Nat \ {0}
  BY DEF Fraction
<1>2. /\ Below(a, b) <=> p1 * d2 < p2 * d1
      /\ Below(b, a) <=> p2 * d1 < p1 * d2
      /\ Below(b, c) <=> p2 * d3 < p3 * d2
      /\ Below(a, c) <=> p1 * d3 < p3 * d1
  BY DEF Below
<1> HIDE DEF p1, p2, p3, d1, d2, d3
<1>3. /\ p1 * d2 \in Int /\ p2 * d1 \in Int /\ p2 * d3 \in Int
      /\ p3 * d2 \in Int /\ p1 * d3 \in Int /\ p3 * d1 \in Int
  BY <1>1
<1>4. ASSUME p2 * d1 <= p1 * d2, p3 * d2 <= p2 * d3 PROVE p3 * d1 <= p1 * d3
  <2>1. (p3 * d2) * d1 <= (p2 * d3) * d1
    BY <1>1, <1>3, <1>4, Scaled
  <2>2. (p2 * d1) * d3 <= (p1 * d2) * d3
    BY <1>1, <1>3, <1>4, Scaled
  <2>3. /\ (p3 * d2) * d1 = (p3 * d1) * d2
        /\ (p2 * d3) * d1 = (p2 * d1) * d3
        /\ (p1 * d2) * d3 = (p1 * d3) * d2
    BY <1>1
  <2>4. /\ (p3 * d1) * d2 \in Int /\ (p2 * d1) * d3 \in Int /\ (p1 * d3) * d2 \in Int
    BY <1>1
  <2>5. (p3 * d1) * d2 <= (p1 * d3) * d2
    BY <2>1, <2>2, <2>3, <2>4
  <2>6. QED BY <1>1, <1>3, <2>5, Scaled
<1>5. QED BY <1>2, <1>3, <1>4

(* Four such keys in turn, the last of them different, order candidates.   *)
RanksIn(T) == {p \in T \X T : RanksBelow(p[1], p[2])}

LEMMA RankOrders ==
  ASSUME NEW T,
         \A n \in T : \A i \in 1..4 : Fraction(RankKey(n)[i]),
         \A n, o \in T : n # o => Below(RankKey(n)[4], RankKey(o)[4])
                                  \/ Below(RankKey(o)[4], RankKey(n)[4])
  PROVE  StrictOrder(T, RanksIn(T))
<1> DEFINE B(i, a, b) == Below(RankKey(a)[i], RankKey(b)[i])
<1>1. \A a, b, c \in T : \A i \in 1..4 : /\ B(i, a, b) => ~B(i, b, a)
                                         /\ ~B(i, a, b) /\ ~B(i, b, c) => ~B(i, a, c)
  BY BelowFacts
<1>2. \A a, b : RanksBelow(a, b) <=>
        \E i \in 1..4 : B(i, a, b) /\ \A j \in 1..i-1 : ~B(j, a, b) /\ ~B(j, b, a)
  BY DEF RanksBelow
<1>3. \A a, b \in T : a # b => B(4, a, b) \/ B(4, b, a)
  OBVIOUS
<1>4. \A a, b \in T : <<a, b>> \in RanksIn(T) <=> RanksBelow(a, b)
  BY DEF RanksIn
<1> DEFINE Even(i, a, b) == ~B(i, a, b) /\ ~B(i, b, a)
           First(a, b) == \/ B(1, a, b)
                          \/ Even(1, a, b) /\ B(2, a, b)
                          \/ Even(1, a, b) /\ Even(2, a, b) /\ B(3, a, b)
                          \/ Even(1, a, b) /\ Even(2, a, b) /\ Even(3, a, b) /\ B(4, a, b)
           Weak(i, a, b, c) ==
             /\ B(i, a, b) => ~B(i, b, a)
             /\ B(i, b, c) => ~B(i, c, b)
             /\ B(i, a, c) => ~B(i, c, a)
             /\ ~B(i, a, b) /\ ~B(i, b, c) => ~B(i, a, c)
             /\ ~B(i, c, b) /\ ~B(i, b, a) => ~B(i, c, a)
             /\ ~B(i, b, a) /\ ~B(i, a, c) => ~B(i, b, c)
             /\ ~B(i, c, a) /\ ~B(i, a, b) => ~B(i, c, b)
             /\ ~B(i, a, c) /\ ~B(i, c, b) => ~B(i, a, b)
             /\ ~B(i, b, c) /\ ~B(i, c, a) => ~B(i, b, a)
<1> HIDE DEF B
<1>5. ASSUME NEW a, NEW b PROVE RanksBelow(a, b) <=> First(a, b)
  <2> DEFINE Wins(i) == B(i, a, b) /\ \A j \in 1..i-1 : Even(j, a, b)
  <2>1. RanksBelow(a, b) <=> \E i \in 1..4 : Wins(i)
    BY <1>2
  <2>2. /\ Wins(1) <=> B(1, a, b)
        /\ Wins(2) <=> B(2, a, b) /\ Even(1, a, b)
        /\ Wins(3) <=> B(3, a, b) /\ Even(1, a, b) /\ Even(2, a, b)
        /\ Wins(4) <=> B(4, a, b) /\ Even(1, a, b) /\ Even(2, a, b) /\ Even(3, a, b)
    <3> HIDE DEF Even
    <3>1. 1..1-1 = {} /\ 1..2-1 = {1} /\ 1..3-1 = {1, 2} /\ 1..4-1 = {1, 2, 3}
      OBVIOUS
    <3>2. QED BY <3>1
  <2> HIDE DEF Wins
  <2>3. (\E i \in 1..4 : Wins(i)) <=> Wins(1) \/ Wins(2) \/ Wins(3) \/ Wins(4)
    <3>1. 1..4 = {1, 2, 3, 4}
      OBVIOUS
    <3>2. QED BY <3>1
  <2>4. QED BY <2>1, <2>2, <2>3
<1>6. ASSUME NEW a \in T, NEW b \in T, NEW c \in T
      PROVE  /\ ~RanksBelow(a, a)
             /\ RanksBelow(a, b) /\ RanksBelow(b, c) => RanksBelow(a, c)
             /\ a # b => RanksBelow(a, b) \/ RanksBelow(b, a)
  <2>1. ASSUME NEW i \in 1..4 PROVE ~B(i, a, a) /\ Weak(i, a, b, c)
    BY <1>1
  <2>2. 1 \in 1..4 /\ 2 \in 1..4 /\ 3 \in 1..4 /\ 4 \in 1..4
    OBVIOUS
  <2>3. ~RanksBelow(a, a)
    BY <1>5, <2>1, <2>2
  <2>4. a # b => RanksBelow(a, b) \/ RanksBelow(b, a)
    BY <1>3, <1>5
  <2>5. First(a, b) /\ First(b, c) => First(a, c)
    <3> HIDE DEF Weak
    <3>1. Weak(1, a, b, c) /\ Weak(2, a, b, c) /\ Weak(3, a, b, c) /\ Weak(4, a, b, c)
      BY <2>1, <2>2
    <3>2. QED BY <3>1 DEF Weak
  <2>6. QED BY <1>5, <2>3, <2>4, <2>5
<1>7. QED BY <1>4, <1>6 DEF StrictOrder

-----------------------------------------------------------------------------
(* The accounts.  Every candidate in hand so far has an account of every   *)
(* case that is done, so that what is recommended rests on all of them.    *)
Notes == {Document[c] : c \in Chunks}
AccountRecord ==
  [retrieved : SUBSET Notes, supplied : SUBSET Notes, request : Nat \ {0}]

Recommendation ==
  CASE program.study = "candidates"     -> Rank
    [] program.study = "variants"       -> Decide
    [] program.study = "budget"         -> SmallestKeeping
    [] program.study = "shape"          -> BestShape
    [] program.study = "min_similarity" -> BestMinSimilarity

Accounting ==
  /\ DOMAIN accounts = Candidates
  /\ \A n \in Candidates : accounts[n] \in Seq(AccountRecord)
  /\ phase \notin {"select", "selected"} =>
       /\ m \in Nat /\ k \in Cases
       /\ \A n \in Candidates :
            Len(accounts[n]) = (IF n < m THEN Len(program.dataset)
                                ELSE IF n = m THEN k - 1 ELSE 0)
  /\ phase \in {"select", "selected"} =>
       /\ program.plan # << >>
       /\ \A n \in Candidates : Len(accounts[n]) = Len(program.dataset)
  /\ phase = "selected" => recommended = Recommendation

LEMMA TokensFacts == ASSUME NEW chars \in Nat PROVE MessageTokens(chars) \in Nat \ {0}
BY DEF MessageTokens, Tokens

LEMMA AccountIsRecord ==
  ASSUME RInv, phase = "done" PROVE CaseAccount \in AccountRecord
<1>1. program \in Programs /\ k \in DOMAIN program.dataset
  BY DEF RInv, Control, Active
<1>2. Case.chars \in Nat
  BY <1>1, ProgramAssumption DEF Case, LabelledCase
<1>3. Cut(selected, pos, items, excluded) /\ used \in Nat
  <2>1. /\ Cut(selected, pos, items, excluded)
        /\ used = (IF items = << >> THEN 0 ELSE BlockSize(items, Len(items)))
    BY DEF RInv, Active, Budgeting
  <2>2. items \in Seq(Excerpt)
    BY <2>1 DEF Cut
  <2>3. BlockSize(items, Len(items)) \in Nat
    <3>1. Len(items) \in 0..Len(items)
      BY <2>2
    <3>2. QED BY <2>2, <3>1, BlockFacts
  <2>4. QED BY <2>1, <2>3
<1>4. Chosen \subseteq Chunks /\ Supplied \subseteq Chunks
  <2>1. Ranked(fired, cfg, best, waiting, selected)
    BY DEF RInv, Active, Choosing
  <2>2. selected \in Seq(Chunks) /\ items \in Seq(Excerpt)
    <3>1. DOMAIN best \subseteq Chunks
      BY BestFacts DEF RInv, Active
    <3>2. items \in Seq(Excerpt)
      BY <1>3 DEF Cut
    <3>3. selected \in Seq(DOMAIN best)
      BY <2>1 DEF Ranked
    <3>4. selected \in Seq(Chunks)
      BY <3>1, <3>3
    <3>5. QED BY <3>2, <3>4
  <2>3. \A i \in DOMAIN items : items[i] \in Excerpt
    BY <2>2
  <2>4. QED BY <2>2, <2>3 DEF Chosen, Supplied, Excerpt
<1>5. Documents(Chosen) \subseteq Notes /\ Documents(Supplied) \subseteq Notes
  BY <1>4 DEF Documents, Notes
<1>6. RequestTokens \in Nat \ {0}
  <2> DEFINE withNotes(chars) == IF items = << >> THEN 0 ELSE chars
             x == PromptChars + withNotes(RulesChars)
             y == Case.chars + withNotes(ReminderChars + used)
  <2>1. x \in Nat /\ y \in Nat /\ SchemaTokens \in Nat
    BY <1>2, <1>3, CostAssumption
  <2>2. RequestTokens = MessageTokens(x) + MessageTokens(y) + SchemaTokens
    BY DEF RequestTokens, PromptTokens
  <2> HIDE DEF x, y
  <2>3. MessageTokens(x) \in Nat \ {0} /\ MessageTokens(y) \in Nat \ {0}
    BY <2>1, TokensFacts
  <2>4. QED BY <2>1, <2>2, <2>3
<1>7. QED BY <1>5, <1>6 DEF CaseAccount, AccountRecord

LEMMA Rows ==
  ASSUME NEW p \in Programs
  PROVE  /\ DOMAIN p.dataset = 1..Len(p.dataset) /\ Len(p.dataset) \in Nat \ {0}
         /\ DOMAIN p.plan = 1..Len(p.plan) /\ Len(p.plan) \in Nat
         /\ p.plan # << >> => Len(p.plan) # 0
         /\ \A n \in DOMAIN p.plan : p.plan[n] \in PlanRow
<1>1. p.plan \in Seq(PlanRow)
  BY ProgramAssumption
<1>2. DOMAIN p.dataset = 1..Len(p.dataset) /\ Len(p.dataset) \in Nat \ {0}
  BY ProgramAssumption
<1>3. QED BY <1>1, <1>2

LEMMA AccountingStarts == Init => Accounting
<1> SUFFICES ASSUME Init PROVE Accounting
  OBVIOUS
<1>1. /\ program \in Programs /\ phase = "report" /\ m = 1 /\ k = 1
      /\ accounts = [n \in DOMAIN program.plan |-> << >>]
  BY DEF Init
<1>2. /\ DOMAIN program.dataset = 1..Len(program.dataset) /\ Len(program.dataset) \in Nat \ {0}
      /\ DOMAIN program.plan = 1..Len(program.plan) /\ Len(program.plan) \in Nat
  BY <1>1, Rows
<1>3. << >> \in Seq(AccountRecord) /\ Len(<< >>) = 0
  OBVIOUS
<1>4. k \in Cases
  BY <1>1, <1>2 DEF Cases
<1>5. \A n \in Candidates : ~(n < m) /\ k - 1 = 0
  BY <1>1, <1>2 DEF Candidates
<1>6. \A n \in Candidates : accounts[n] = << >>
  BY <1>1 DEF Candidates
<1>7. QED BY <1>1, <1>3, <1>4, <1>5, <1>6 DEF Accounting, Candidates

LEMMA AccountCaseCounts == RInv /\ Accounting /\ AccountCase => Accounting'
<1> SUFFICES ASSUME RInv, Accounting, AccountCase PROVE Accounting'
  OBVIOUS
<1>1. /\ phase = "done" /\ program' = program
      /\ accounts' = [accounts EXCEPT ![m] = Append(@, CaseAccount)]
      /\ IF k < Len(program.dataset) THEN k' = k + 1 /\ m' = m ELSE k' = 1 /\ m' = m + 1
      /\ phase' = IF m' > Len(program.plan) THEN "select" ELSE "report"
  BY DEF AccountCase, given
<1>2. /\ program \in Programs /\ program.plan # << >> /\ m \in Candidates /\ k \in Cases
  BY <1>1 DEF RInv, Control, Active, Candidates, Cases
<1>3. /\ Cases = 1..Len(program.dataset) /\ Len(program.dataset) \in Nat \ {0}
      /\ Candidates = 1..Len(program.plan) /\ Len(program.plan) \in Nat
  BY <1>2, Rows DEF Cases, Candidates
<1>4. /\ DOMAIN accounts = Candidates
      /\ \A n \in Candidates : accounts[n] \in Seq(AccountRecord)
      /\ \A n \in Candidates :
           Len(accounts[n]) = (IF n < m THEN Len(program.dataset)
                               ELSE IF n = m THEN k - 1 ELSE 0)
  BY <1>1 DEF Accounting
<1>5. Candidates' = Candidates /\ Cases' = Cases
  BY <1>1 DEF Candidates, Cases
<1>6. CaseAccount \in AccountRecord
  BY <1>1, AccountIsRecord
<1>7. /\ DOMAIN accounts' = Candidates
      /\ accounts'[m] = Append(accounts[m], CaseAccount)
      /\ \A n \in Candidates \ {m} : accounts'[n] = accounts[n]
  BY <1>1, <1>2, <1>4
<1>8. accounts'[m] \in Seq(AccountRecord) /\ Len(accounts'[m]) = k
  <2>1. accounts[m] \in Seq(AccountRecord) /\ Len(accounts[m]) = k - 1
    BY <1>2, <1>3, <1>4
  <2>2. /\ Append(accounts[m], CaseAccount) \in Seq(AccountRecord)
        /\ Len(Append(accounts[m], CaseAccount)) = (k - 1) + 1
    BY <1>6, <2>1, AppendFacts
  <2>3. QED BY <1>2, <1>3, <1>7, <2>2
<1>9. \A n \in Candidates : accounts'[n] \in Seq(AccountRecord)
  BY <1>4, <1>7, <1>8
<1>10. m' \in Nat /\ k' \in Cases
  BY <1>1, <1>2, <1>3
<1>11. \A n \in Candidates :
         Len(accounts'[n]) = (IF n < m' THEN Len(program.dataset)
                              ELSE IF n = m' THEN k' - 1 ELSE 0)
  <2>1. SUFFICES ASSUME NEW n \in Candidates
                 PROVE  Len(accounts'[n]) = (IF n < m' THEN Len(program.dataset)
                                             ELSE IF n = m' THEN k' - 1 ELSE 0)
    OBVIOUS
  <2>2. n \in Nat /\ m \in Nat /\ k \in Nat /\ k <= Len(program.dataset)
    BY <1>2, <1>3
  <2>3. Len(accounts[n]) = (IF n < m THEN Len(program.dataset)
                            ELSE IF n = m THEN k - 1 ELSE 0)
    BY <1>4
  <2>4. n = m => Len(accounts'[n]) = k
    BY <1>8
  <2>5. n # m => Len(accounts'[n]) = Len(accounts[n])
    BY <1>7
  <2>6. QED BY <1>1, <1>3, <2>2, <2>3, <2>4, <2>5
<1>12. phase' = "select" => \A n \in Candidates : n < m'
  BY <1>1, <1>2, <1>3
<1>13. phase' \in {"select", "report"}
  BY <1>1
<1>14. Accounting' <=>
         /\ DOMAIN accounts' = Candidates
         /\ \A n \in Candidates : accounts'[n] \in Seq(AccountRecord)
         /\ phase' \notin {"select", "selected"} =>
              /\ m' \in Nat /\ k' \in Cases
              /\ \A n \in Candidates :
                   Len(accounts'[n]) = (IF n < m' THEN Len(program.dataset)
                                        ELSE IF n = m' THEN k' - 1 ELSE 0)
         /\ phase' \in {"select", "selected"} =>
              /\ program.plan # << >>
              /\ \A n \in Candidates : Len(accounts'[n]) = Len(program.dataset)
         /\ phase' = "selected" => recommended' = Recommendation'
  BY <1>1, <1>5 DEF Accounting, AccountRecord, Notes
<1>15. QED BY <1>2, <1>7, <1>9, <1>10, <1>11, <1>12, <1>13, <1>14

(* What the studies recommend depends on the accounts alone.               *)
LEMMA RecommendationStays ==
  ASSUME program' = program, accounts' = accounts
  PROVE  Recommendation' = Recommendation
<1>1. /\ Labelled' = Labelled /\ Cases' = Cases /\ Candidates' = Candidates
      /\ \A n : Value(n)' = Value(n)
  BY DEF Labelled, Cases, Candidates, Value
<1>2. \A n, i : Found(n, i)' = Found(n, i) /\ Wrong(n, i)' = Wrong(n, i)
  BY DEF Found, Wrong
<1>3. \A n, i : RecallAtK(n, i)' = RecallAtK(n, i) /\ PrecisionAtK(n, i)' = PrecisionAtK(n, i)
  BY <1>2 DEF RecallAtK, PrecisionAtK
<1>4. \A n : SuppliedRecall(n)' = SuppliedRecall(n)
  BY <1>1, <1>3 DEF SuppliedRecall
<1>5. \A n : SuppliedPrecision(n)' = SuppliedPrecision(n)
  BY <1>1, <1>3 DEF SuppliedPrecision
<1>6. \A n : /\ IrrelevantSupplied(n)' = IrrelevantSupplied(n)
             /\ RelevantRetained(n)' = RelevantRetained(n)
  BY <1>1, <1>2 DEF IrrelevantSupplied, RelevantRetained
<1>7. \A n : /\ RetrievedRecall(n)' = RetrievedRecall(n)
             /\ MaxRequestTokens(n)' = MaxRequestTokens(n)
             /\ EmptyCases(n)' = EmptyCases(n)
  BY <1>1 DEF RetrievedRecall, MaxRequestTokens, EmptyCases
<1>8. \A n : EvidencePerToken(n)' = EvidencePerToken(n) /\ Headline(n)' = Headline(n)
  BY <1>4, <1>5, <1>6, <1>7 DEF EvidencePerToken, Headline
<1>9. \A n : RankKey(n)' = RankKey(n)
  BY <1>5, <1>7, <1>8 DEF RankKey
<1>10. \A a, b : RanksBelow(a, b)' <=> RanksBelow(a, b)
  BY <1>9 DEF RanksBelow
<1>11. \A n : Assess(n)' <=> Assess(n)
  BY <1>4, <1>6, <1>7 DEF Assess, AtRisk
<1>12. Rank' = Rank
  <2> DEFINE eligible == {n \in Candidates \ {1} : Assess(n)}
             last(T) == CHOOSE n \in T : \A o \in T \ {n} : RanksBelow(o, n)
  <2>1. eligible' = eligible
    BY <1>1, <1>11
  <2>2. ASSUME NEW T PROVE last(T)' = last(T)
    BY <1>10
  <2> DEFINE winner == last(eligible)
  <2>3. winner' = winner
    <3> HIDE DEF eligible
    <3>1. QED BY <2>1, <2>2
  <2> DEFINE best1 == IF eligible # {} /\ Below(EvidencePerToken(1), EvidencePerToken(winner))
                      THEN winner ELSE 0
  <2>4. Rank = best1 /\ Rank' = best1'
    BY DEF Rank
  <2>5. best1' = best1
    <3> HIDE DEF eligible, winner
    <3>1. QED BY <1>8, <2>1, <2>3
  <2> HIDE DEF best1
  <2>6. QED BY <2>4, <2>5
<1>13. Decide' = Decide
  BY <1>8 DEF Decide
<1>14. \A rows : SmallestOf(rows)' = SmallestOf(rows)
  BY <1>1 DEF SmallestOf
<1>15. SmallestKeeping' = SmallestKeeping /\ FullRecall' = FullRecall
  BY <1>1, <1>6, <1>7, <1>14 DEF SmallestKeeping, FullRecall
<1>16. BestShape' = BestShape /\ BestMinSimilarity' = BestMinSimilarity
  <2> DEFINE qualifying == {n \in FullRecall : EmptyCases(n) = {}}
             most(T) == CHOOSE n \in T : \A o \in T : Value(o) <= Value(n)
  <2>1. qualifying' = qualifying
    BY <1>7, <1>15
  <2> DEFINE highest == most(qualifying)
  <2>3. highest' = highest
    <3> HIDE DEF qualifying
    <3>1. QED BY <1>1, <2>1
  <2>4. BestMinSimilarity' = BestMinSimilarity
    <3>1. /\ BestMinSimilarity
               = IF Labelled = {} \/ qualifying = {} THEN 0 ELSE highest
          /\ BestMinSimilarity'
               = IF Labelled' = {} \/ qualifying' = {} THEN 0 ELSE highest'
      BY DEF BestMinSimilarity
    <3> HIDE DEF qualifying, highest
    <3>2. QED BY <1>1, <2>1, <2>3, <3>1
  <2>5. BestShape' = BestShape
    BY <1>1, <1>14, <1>15 DEF BestShape
  <2>6. QED BY <2>4, <2>5
<1>17. QED BY <1>12, <1>13, <1>15, <1>16 DEF Recommendation

LEMMA AccountingInvariant == Spec => []Accounting
<1>1. RInv /\ Accounting /\ [Next]_vars => Accounting'
  <2> SUFFICES ASSUME RInv, Accounting, [Next]_vars PROVE Accounting'
    OBVIOUS
  <2> USE DEF Accounting, Candidates, Cases
  <2>1. ASSUME UNCHANGED <<program, accounts, m, k, recommended>>,
               phase' \notin {"select", "selected"}, phase \notin {"select", "selected"}
        PROVE  Accounting'
    BY <2>1 DEF AccountRecord, Notes
  <2>2. CASE BuildReport
    BY <2>1, <2>2 DEF BuildReport, given, progress
  <2>3. CASE ExtractSignals
    BY <2>1, <2>3 DEF ExtractSignals, given, progress
  <2>4. CASE Retrieve
    <3>1. /\ phase \in {"search", "rank", "budget"} /\ UNCHANGED <<given, progress>>
          /\ phase' = phase \/ phase' \in {"rank", "budget", "done", "raised"}
      BY <2>4 DEF Retrieve, RetrievalStep, SearchQuery, Select, Merge, Report, Consider, Finish
    <3>2. QED BY <2>1, <3>1 DEF given, progress
  <2>5. CASE AccountCase
    BY <2>5, AccountCaseCounts
  <2>6. CASE Recommend
    <3>1. /\ phase = "select" /\ phase' = "selected" /\ recommended' = Recommendation
          /\ UNCHANGED <<program, accounts>>
      BY <2>6 DEF Recommend, Recommendation, given
    <3>2. Recommendation' = Recommendation
      BY <3>1, RecommendationStays
    <3>3. QED BY <3>1, <3>2 DEF AccountRecord, Notes
  <2>7. CASE UNCHANGED vars
    <3>1. UNCHANGED <<program, accounts, m, k, recommended, phase>>
      BY <2>7 DEF vars, given, progress
    <3>2. Recommendation' = Recommendation
      BY <3>1, RecommendationStays
    <3>3. QED BY <3>1, <3>2 DEF AccountRecord, Notes
  <2>8. QED BY <2>2, <2>3, <2>4, <2>5, <2>6, <2>7 DEF Next
<1>2. QED BY <1>1, AccountingStarts, RetrievalInvariant, PTL DEF Spec

-----------------------------------------------------------------------------
(* Shares of Scale.  As Scale is a multiple of what a share is of, nothing *)
(* is lost in the division: of two counts the greater has the greater one. *)
LEMMA DivisionFacts ==
  ASSUME NEW x \in Nat, NEW y \in Nat \ {0}
  PROVE  /\ x \div y \in Nat
         /\ x % y = 0 => x = y * (x \div y)
OBVIOUS

LEMMA QuotientOf ==
  ASSUME NEW q \in Nat, NEW y \in Nat \ {0}
  PROVE  (y * q) \div y = q
<1> DEFINE z == y * q
           d == z \div y
<1>1. z \in Nat
  OBVIOUS
<1>2. d \in Nat /\ y * d <= z /\ z < y * d + y
  <2> HIDE DEF z
  <2>1. z \div y \in Nat /\ y * (z \div y) <= z /\ z < y * (z \div y) + y
    BY <1>1
  <2>2. QED BY <2>1
<1> HIDE DEF d
<1>3. y * d <= y * q /\ y * q < y * d + y
  BY <1>2
<1>4. ~(q < d)
  <2>1. SUFFICES ASSUME q < d PROVE FALSE
    OBVIOUS
  <2>2. q * y < d * y
    BY <1>2, <2>1, Scaled
  <2>3. QED BY <1>2, <1>3, <2>2
<1>5. ~(d < q)
  <2>1. SUFFICES ASSUME d + 1 <= q PROVE FALSE
    BY <1>2
  <2>2. (d + 1) * y <= q * y
    BY <1>2, <2>1, Scaled
  <2>3. (d + 1) * y = y * d + y
    BY <1>2
  <2>4. QED BY <1>2, <1>3, <2>2, <2>3
<1>6. QED BY <1>2, <1>4, <1>5 DEF d

LEMMA ShareFacts ==
  ASSUME NEW y \in Nat \ {0}, Scale % y = 0, NEW s \in Nat, NEW t \in Nat
  PROVE  /\ (Scale * s) \div y \in Nat /\ (Scale * t) \div y \in Nat
         /\ s <= t => (Scale * s) \div y <= (Scale * t) \div y
         /\ s < t => (Scale * s) \div y < (Scale * t) \div y
<1> DEFINE q == Scale \div y
<1>1. Scale \in Nat /\ Scale # 0
  BY CostAssumption
<1>2. q \in Nat /\ Scale = y * q
  BY <1>1, DivisionFacts
<1> HIDE DEF q
<1>3. q # 0
  BY <1>1, <1>2
<1>4. q * s \in Nat /\ q * t \in Nat
  BY <1>2
<1>5. Scale * s = y * (q * s) /\ Scale * t = y * (q * t)
  BY <1>2
<1>6. (Scale * s) \div y = q * s /\ (Scale * t) \div y = q * t
  <2>1. \A x \in Nat : (y * x) \div y = x
    BY QuotientOf
  <2>2. (y * (q * s)) \div y = q * s /\ (y * (q * t)) \div y = q * t
    <3> DEFINE u == q * s  v == q * t
    <3>1. u \in Nat /\ v \in Nat
      BY <1>4
    <3> HIDE DEF u, v
    <3>2. (y * u) \div y = u /\ (y * v) \div y = v
      BY <3>1, QuotientOf
    <3>3. QED BY <3>2 DEF u, v
  <2>3. QED BY <1>5, <2>2
<1>7. s <= t => q * s <= q * t
  <2>1. s <= t <=> s * q <= t * q
    BY <1>2, <1>3, Scaled
  <2>2. QED BY <1>2, <2>1
<1>8. s < t => q * s < q * t
  <2>1. t <= s <=> t * q <= s * q
    BY <1>2, <1>3, Scaled
  <2>2. s * q = q * s /\ t * q = q * t
    BY <1>2
  <2>3. QED BY <1>4, <2>1, <2>2
<1>9. QED BY <1>4, <1>6, <1>7, <1>8
-----------------------------------------------------------------------------
(* What the studies measure, when all cases are in the accounts.           *)
Concluded == RInv /\ Accounting /\ phase = "selected"

LEMMA NotesFinite == IsFiniteSet(Notes)
<1>1. IsFiniteSet(Chunks)
  BY RetrievalAssumption
<1>2. QED BY <1>1, FiniteImage DEF Notes

LEMMA AccountFacts ==
  ASSUME Concluded
  PROVE  /\ program \in Programs
         /\ Candidates = 1..Len(program.plan) /\ Len(program.plan) \in Nat \ {0}
         /\ IsFiniteSet(Cases) /\ Cases # {} /\ Labelled \subseteq Cases
         /\ \A i \in Cases : LabelledCase(program.dataset[i])
         /\ \A n \in Candidates, i \in Cases : accounts[n][i] \in AccountRecord
         /\ \A n \in Candidates : program.plan[n].name \in Nat
<1>1. program \in Programs /\ program.plan # << >>
  BY DEF Concluded, RInv, Control, Accounting
<1>2. /\ Cases = 1..Len(program.dataset) /\ Len(program.dataset) \in Nat \ {0}
      /\ Candidates = 1..Len(program.plan) /\ Len(program.plan) \in Nat \ {0}
      /\ \A n \in Candidates : program.plan[n] \in PlanRow
  BY <1>1, Rows DEF Cases, Candidates
<1>3. IsFiniteSet(Cases) /\ Cases # {}
  <2>1. IsFiniteSet(1..Len(program.dataset))
    BY <1>2, FS_Interval
  <2>2. 1 \in Cases
    BY <1>2
  <2>3. QED BY <1>2, <2>1, <2>2
<1>4. \A n \in Candidates, i \in Cases : accounts[n][i] \in AccountRecord
  BY <1>2 DEF Concluded, Accounting
<1>5. \A i \in Cases : LabelledCase(program.dataset[i])
  BY <1>1, ProgramAssumption DEF Cases
<1>6. \A n \in Candidates : program.plan[n].name \in Nat
  BY <1>2 DEF PlanRow
<1>7. QED BY <1>1, <1>2, <1>3, <1>4, <1>5, <1>6 DEF Labelled, Cases

LEMMA CountFacts ==
  ASSUME Concluded, NEW n \in Candidates, NEW i \in Cases
  PROVE  /\ accounts[n][i].request \in Nat \ {0}
         /\ IsFiniteSet(accounts[n][i].supplied) /\ IsFiniteSet(accounts[n][i].retrieved)
         /\ \A T : /\ Cardinality(accounts[n][i].supplied \cap T) \in Nat
                   /\ Cardinality(T \cap accounts[n][i].supplied) \in Nat
                   /\ Cardinality(accounts[n][i].retrieved \cap T) \in Nat
                   /\ Cardinality(T \cap accounts[n][i].retrieved) \in Nat
         /\ i \in Labelled => /\ Cardinality(program.dataset[i].relevant) \in Nat \ {0}
                              /\ Scale % Cardinality(program.dataset[i].relevant) = 0
<1> DEFINE s == accounts[n][i].supplied
           r == accounts[n][i].retrieved
           wanted == program.dataset[i].relevant
<1>1. accounts[n][i] \in AccountRecord
  BY AccountFacts
<1>2. accounts[n][i].request \in Nat \ {0} /\ s \in SUBSET Notes /\ r \in SUBSET Notes
  BY <1>1 DEF AccountRecord
<1>3. IsFiniteSet(s) /\ IsFiniteSet(r)
  BY <1>2, NotesFinite, FS_Subset
<1>4. IsFiniteSet(wanted) /\ (wanted # {} => Scale % Cardinality(wanted) = 0)
  BY AccountFacts DEF LabelledCase
<1> HIDE DEF s, r, wanted
<1>5. ASSUME NEW T PROVE Cardinality(s \cap T) \in Nat /\ Cardinality(r \cap T) \in Nat
  <2>1. s \cap T \in SUBSET s /\ r \cap T \in SUBSET r
    OBVIOUS
  <2>2. IsFiniteSet(s \cap T) /\ IsFiniteSet(r \cap T)
    BY <1>3, <2>1, FS_Subset
  <2>3. QED BY <2>2, FS_CardinalityType
<1>6. ASSUME NEW T PROVE Cardinality(T \cap s) \in Nat /\ Cardinality(T \cap r) \in Nat
  <2>1. T \cap s = s \cap T /\ T \cap r = r \cap T
    OBVIOUS
  <2>2. QED BY <1>5, <2>1
<1>7. wanted # {} => Cardinality(wanted) \in Nat \ {0}
  BY <1>4, FS_CardinalityType, FS_EmptySet
<1>8. i \in Labelled => wanted # {}
  BY DEF Labelled, wanted
<1>9. QED BY <1>2, <1>3, <1>4, <1>5, <1>6, <1>7, <1>8 DEF s, r, wanted

LEMMA MeansFacts ==
  ASSUME NEW T, IsFiniteSet(T), NEW f \in [T -> Nat]
  PROVE  /\ Mean(f)[1] = Total(f) /\ Mean(f)[1] \in Nat
         /\ Mean(f)[2] = Cardinality(T) /\ Mean(f)[2] \in Nat
         /\ Defined(Mean(f)) <=> T # {}
         /\ T = {} => Mean(f)[1] = 0
<1>1. Total(f) \in Nat /\ (T = {} => Total(f) = 0)
  BY TotalFacts
<1>2. DOMAIN f = T /\ Cardinality(T) \in Nat /\ (Cardinality(T) = 0 <=> T = {})
  BY FS_CardinalityType, FS_EmptySet
<1>3. QED BY <1>1, <1>2 DEF Mean, Defined

LEMMA MeasureFacts ==
  ASSUME Concluded, NEW n \in Candidates
  PROVE  /\ SuppliedRecall(n)[1] \in Nat
         /\ SuppliedRecall(n)[2] = Cardinality(Labelled) /\ SuppliedRecall(n)[2] \in Nat
         /\ Defined(SuppliedRecall(n)) <=> Labelled # {}
         /\ Labelled = {} => SuppliedRecall(n)[1] = 0
         /\ SuppliedPrecision(n)[1] \in Nat /\ SuppliedPrecision(n)[2] \in Nat
         /\ Defined(SuppliedPrecision(n)) => Labelled # {}
         /\ IrrelevantSupplied(n) \in Nat
<1>1. IsFiniteSet(Cases) /\ Labelled \subseteq Cases /\ IsFiniteSet(Labelled)
  BY AccountFacts, FS_Subset
<1> DEFINE supplying == {j \in Labelled : accounts[n][j].supplied # {}}
           recall == [i \in Labelled |-> RecallAtK(n, i)]
           precision == [i \in supplying |-> PrecisionAtK(n, i)]
           wrong == [i \in Cases |-> Cardinality(Wrong(n, i))]
<1>2. IsFiniteSet(supplying)
  <2>1. supplying \in SUBSET Labelled
    OBVIOUS
  <2> HIDE DEF supplying
  <2>2. QED BY <1>1, <2>1, FS_Subset
<1>3. Scale \in Nat
  BY CostAssumption
<1>4. ASSUME NEW i \in Cases
      PROVE  Cardinality(Found(n, i)) \in Nat /\ Cardinality(Wrong(n, i)) \in Nat
  BY CountFacts DEF Found, Wrong
<1>5. recall \in [Labelled -> Nat]
  <2>1. ASSUME NEW i \in Labelled PROVE RecallAtK(n, i) \in Nat
    <3> DEFINE x == Scale * Cardinality(Found(n, i))
               y == Cardinality(program.dataset[i].relevant)
    <3>1. x \in Nat
      BY <1>1, <1>3, <1>4
    <3>2. y \in Nat \ {0}
      BY <1>1, CountFacts
    <3> HIDE DEF x, y
    <3>3. x \div y \in Nat
      BY <3>1, <3>2, DivisionFacts
    <3>4. QED BY <3>3 DEF RecallAtK, x, y
  <2>2. QED BY <2>1
<1>6. precision \in [supplying -> Nat]
  <2>1. ASSUME NEW i \in supplying PROVE PrecisionAtK(n, i) \in Nat
    <3> DEFINE x == Scale * Cardinality(Found(n, i))
               s == accounts[n][i].supplied
               y == Cardinality(s)
    <3>1. x \in Nat
      BY <1>1, <1>3, <1>4
    <3>2. IsFiniteSet(s) /\ s # {}
      BY <1>1, CountFacts
    <3> HIDE DEF x, s
    <3>3. y \in Nat \ {0}
      BY <3>2, FS_CardinalityType, FS_EmptySet
    <3> HIDE DEF y
    <3>4. x \div y \in Nat
      BY <3>1, <3>3, DivisionFacts
    <3>5. QED BY <3>4 DEF PrecisionAtK, x, y, s
  <2>2. QED BY <2>1
<1>7. wrong \in [Cases -> Nat]
  BY <1>4
<1>8. /\ SuppliedRecall(n) = Mean(recall) /\ SuppliedPrecision(n) = Mean(precision)
      /\ IrrelevantSupplied(n) = Total(wrong)
  BY DEF SuppliedRecall, SuppliedPrecision, IrrelevantSupplied
<1>9. supplying # {} => Labelled # {}
  OBVIOUS
<1> HIDE DEF supplying, recall, precision, wrong
<1>10. Total(wrong) \in Nat
  BY <1>1, <1>7, TotalFacts
<1>11. /\ Mean(recall)[1] \in Nat
       /\ Mean(recall)[2] = Cardinality(Labelled) /\ Mean(recall)[2] \in Nat
       /\ Defined(Mean(recall)) <=> Labelled # {}
       /\ Labelled = {} => Mean(recall)[1] = 0
  BY <1>1, <1>5, MeansFacts
<1>12. /\ Mean(precision)[1] \in Nat /\ Mean(precision)[2] \in Nat
       /\ Defined(Mean(precision)) <=> supplying # {}
  BY <1>2, <1>6, MeansFacts
<1>13. QED BY <1>8, <1>9, <1>10, <1>11, <1>12

LEMMA RequestFacts ==
  ASSUME Concluded, NEW n \in Candidates
  PROVE  /\ MaxRequestTokens(n) \in Nat \ {0}
         /\ \A i \in Cases : /\ accounts[n][i].request \in Nat
                             /\ accounts[n][i].request <= MaxRequestTokens(n)
         /\ \E i \in Cases : accounts[n][i].request = MaxRequestTokens(n)
<1> DEFINE request == [i \in Cases |-> accounts[n][i].request]
           T == {request[i] : i \in Cases}
<1>1. T = {accounts[n][i].request : i \in Cases}
  OBVIOUS
<1>2. \A i \in Cases : request[i] \in Nat \ {0} /\ request[i] = accounts[n][i].request
  BY CountFacts
<1> HIDE DEF request
<1>3. T \subseteq Nat \ {0}
  BY <1>2
<1>4. IsFiniteSet(T)
  BY AccountFacts, FiniteImage
<1>5. T # {}
  BY AccountFacts
<1>6. \A x \in T : \E i \in Cases : request[i] = x
  OBVIOUS
<1>7. \A i \in Cases : request[i] \in T
  OBVIOUS
<1> HIDE DEF T
<1>8. Max(T) \in T /\ \A y \in T : y <= Max(T)
  <2>1. T \subseteq Nat
    BY <1>3
  <2>2. QED BY <1>4, <1>5, <2>1, GreatestOf
<1>9. MaxRequestTokens(n) = Max(T)
  BY <1>1 DEF MaxRequestTokens
<1>10. QED BY <1>2, <1>3, <1>6, <1>7, <1>8, <1>9

(* An accepted change is better in some way and in no way worse.           *)
LEMMA DecisionFollows ==
  ASSUME Concluded, recommended = Decide PROVE DecisionSound
<1> DEFINE after == Len(program.plan)
<1>1. 1 \in Candidates /\ after \in Candidates /\ after \in Nat \ {0}
  BY AccountFacts
<1> HIDE DEF after
<1>2. SUFFICES ASSUME Defined(SuppliedPrecision(1)), Defined(SuppliedPrecision(after))
               PROVE  /\ AsGood(after, 1) /\ ~AsGood(1, after) => recommended = after
                      /\ AsGood(1, after) => recommended = 0
  BY DEF DecisionSound, after
<1> DEFINE r1 == SuppliedRecall(1)  r2 == SuppliedRecall(after)
           w1 == IrrelevantSupplied(1)  w2 == IrrelevantSupplied(after)
<1>3. Defined(r1)
  BY <1>1, <1>2, MeasureFacts
<1>4. r1[2] = r2[2] /\ r1[1] \in Nat /\ r2[1] \in Nat /\ r1[2] \in Nat \ {0}
  <2>1. r1[2] = Cardinality(Labelled) /\ r2[2] = Cardinality(Labelled)
        /\ r1[1] \in Nat /\ r2[1] \in Nat /\ r1[2] \in Nat
    BY <1>1, MeasureFacts
  <2>2. QED BY <1>3, <2>1 DEF Defined
<1>5. w1 \in Nat /\ w2 \in Nat
  BY <1>1, MeasureFacts
<1> DEFINE falls == Below(SuppliedPrecision(after), SuppliedPrecision(1)) \/ w2 > w1
           materially == 20 * (r1[1] - r2[1]) > Scale * r1[2]
           improves == \/ Below(r1, r2)
                       \/ Below(SuppliedPrecision(1), SuppliedPrecision(after))
                       \/ w2 # w1
<1>6. Decide = IF ~falls /\ ~materially /\ improves THEN after ELSE 0
  BY <1>2, <1>3 DEF Decide, Headline, after
<1>7. ~Below(r2, r1) => ~materially
  <2>1. Below(r2, r1) <=> r2[1] * r1[2] < r1[1] * r1[2]
    BY <1>4 DEF Below
  <2>2. r1[1] <= r2[1] <=> r1[1] * r1[2] <= r2[1] * r1[2]
    BY <1>4, Scaled
  <2>3. r1[1] * r1[2] \in Int /\ r2[1] * r1[2] \in Int
    BY <1>4
  <2>4. ~Below(r2, r1) => r1[1] <= r2[1]
    BY <2>1, <2>2, <2>3
  <2>5. Scale * r1[2] \in Nat
    BY <1>4, CostAssumption
  <2>6. r1[1] <= r2[1] => 20 * (r1[1] - r2[1]) <= 0
    BY <1>4
  <2>7. 20 * (r1[1] - r2[1]) \in Int
    BY <1>4
  <2>8. QED BY <2>4, <2>5, <2>6, <2>7
<1>8. /\ AsGood(after, 1) <=> /\ ~Below(r2, r1)
                              /\ ~Below(SuppliedPrecision(after), SuppliedPrecision(1))
                              /\ w2 <= w1
      /\ AsGood(1, after) <=> /\ ~Below(r1, r2)
                              /\ ~Below(SuppliedPrecision(1), SuppliedPrecision(after))
                              /\ w1 <= w2
  BY DEF AsGood
<1> HIDE DEF materially, r1, r2, w1, w2
<1>9. QED BY <1>5, <1>6, <1>7, <1>8

(* With a labelled case at hand, what may be recommended is what keeps to  *)
(* the baseline, and more for less shows in the evidence per token.        *)
LEMMA AssessMeans ==
  ASSUME Concluded, NEW n \in Candidates
  PROVE  /\ Assess(n) => Labelled # {}
         /\ Labelled # {} => (Assess(n) <=> Keeps(n))
<1>1. 1 \in Candidates
  BY AccountFacts
<1> DEFINE rn == SuppliedRecall(n)  r1 == SuppliedRecall(1)
<1>2. /\ rn[1] \in Nat /\ r1[1] \in Nat /\ rn[2] = r1[2] /\ r1[2] \in Nat
      /\ Defined(rn) <=> Labelled # {}
  <2>1. rn[1] \in Nat /\ rn[2] = Cardinality(Labelled) /\ (Defined(rn) <=> Labelled # {})
    BY MeasureFacts
  <2>2. r1[1] \in Nat /\ r1[2] = Cardinality(Labelled) /\ r1[2] \in Nat
    BY <1>1, MeasureFacts
  <2>3. QED BY <2>1, <2>2
<1> HIDE DEF rn, r1
<1>3. Assess(n) => Labelled # {}
  BY <1>2 DEF Assess, rn
<1>4. ASSUME Labelled # {} PROVE ~Below(rn, r1) <=> rn[1] >= r1[1]
  <2>1. r1[2] \in Nat \ {0}
    BY <1>2, <1>4 DEF Defined
  <2>2. r1[1] <= rn[1] <=> r1[1] * r1[2] <= rn[1] * r1[2]
    BY <1>2, <2>1, Scaled
  <2>3. Below(rn, r1) <=> rn[1] * r1[2] < r1[1] * r1[2]
    BY <1>2 DEF Below
  <2>4. r1[1] * r1[2] \in Int /\ rn[1] * r1[2] \in Int
    BY <1>2
  <2>5. QED BY <1>2, <2>2, <2>3, <2>4
<1>5. ~(AtRisk(n) /\ ~AtRisk(1)) <=>
        \A i \in Cases : accounts[n][i].request < RiskTokens
                         \/ \E j \in Cases : accounts[1][j].request >= RiskTokens
  <2>1. RiskTokens \in Nat
    BY CostAssumption
  <2>2. ASSUME NEW o \in Candidates
        PROVE  AtRisk(o) <=> \E j \in Cases : accounts[o][j].request >= RiskTokens
    <3>1. /\ MaxRequestTokens(o) \in Nat
          /\ \A i \in Cases : /\ accounts[o][i].request \in Nat
                              /\ accounts[o][i].request <= MaxRequestTokens(o)
          /\ \E i \in Cases : accounts[o][i].request = MaxRequestTokens(o)
      BY RequestFacts
    <3>2. QED BY <2>1, <3>1 DEF AtRisk
  <2>3. \A i \in Cases : accounts[n][i].request \in Nat
    BY RequestFacts
  <2>4. QED BY <1>1, <2>1, <2>2, <2>3
<1>6. ASSUME Labelled # {} PROVE Assess(n) <=> Keeps(n)
  BY <1>2, <1>4, <1>5, <1>6 DEF Assess, Keeps, rn, r1
<1>7. QED BY <1>3, <1>6

LEMMA EvidenceFacts ==
  ASSUME Concluded, NEW a \in Candidates, NEW b \in Candidates, Labelled # {}
  PROVE  /\ Fraction(EvidencePerToken(a))
         /\ Dominates(a, b) => Below(EvidencePerToken(b), EvidencePerToken(a))
         /\ Below(EvidencePerToken(b), EvidencePerToken(a))
              /\ SuppliedRecall(a)[1] >= SuppliedRecall(b)[1]
              => \/ SuppliedRecall(a)[1] > SuppliedRecall(b)[1]
                 \/ MaxRequestTokens(a) < MaxRequestTokens(b)
<1> DEFINE ra == SuppliedRecall(a)[1]  rb == SuppliedRecall(b)[1]
           c == Cardinality(Labelled)
           ma == MaxRequestTokens(a)  mb == MaxRequestTokens(b)
<1>1. /\ ra \in Nat /\ rb \in Nat /\ c \in Nat \ {0}
      /\ SuppliedRecall(a)[2] = c /\ SuppliedRecall(b)[2] = c
  <2>1. /\ ra \in Nat /\ rb \in Nat /\ SuppliedRecall(a)[2] \in Nat
        /\ SuppliedRecall(a)[2] = c /\ SuppliedRecall(b)[2] = c
    BY MeasureFacts
  <2>2. Defined(SuppliedRecall(a))
    BY MeasureFacts
  <2>3. QED BY <2>1, <2>2 DEF Defined
<1>2. ma \in Nat \ {0} /\ mb \in Nat \ {0}
  BY RequestFacts
<1>3. EvidencePerToken(a) = <<ra, c * ma>> /\ EvidencePerToken(b) = <<rb, c * mb>>
  BY <1>1 DEF EvidencePerToken
<1>4. Dominates(a, b) <=> /\ ra >= rb /\ ma <= mb
                          /\ ra > rb \/ (ma < mb /\ ra > 0)
  BY DEF Dominates
<1> HIDE DEF ra, rb, c, ma, mb
<1>5. c * ma \in Nat \ {0} /\ c * mb \in Nat \ {0}
  <2>1. c * ma \in Nat /\ c * mb \in Nat
    BY <1>1, <1>2
  <2>2. c * ma # 0 /\ c * mb # 0
    BY <1>1, <1>2
  <2>3. QED BY <2>1, <2>2
<1>6. Below(EvidencePerToken(b), EvidencePerToken(a)) <=> rb * ma < ra * mb
  <2>1. Below(EvidencePerToken(b), EvidencePerToken(a)) <=> rb * (c * ma) < ra * (c * mb)
    BY <1>3 DEF Below
  <2>2. rb * (c * ma) = (rb * ma) * c /\ ra * (c * mb) = (ra * mb) * c
    BY <1>1, <1>2
  <2>3. rb * ma \in Int /\ ra * mb \in Int
    BY <1>1, <1>2
  <2>4. ra * mb <= rb * ma <=> (ra * mb) * c <= (rb * ma) * c
    BY <1>1, <2>3, Scaled
  <2>5. (ra * mb) * c \in Int /\ (rb * ma) * c \in Int
    BY <1>1, <2>3
  <2>6. QED BY <2>1, <2>2, <2>3, <2>4, <2>5
<1>7. /\ rb * ma \in Int /\ rb * mb \in Int /\ ra * mb \in Int /\ ra * ma \in Int
      /\ ma * rb = rb * ma /\ mb * rb = rb * mb
  BY <1>1, <1>2
<1>8. ra > rb => rb * mb < ra * mb
  <2>1. ra <= rb <=> ra * mb <= rb * mb
    BY <1>1, <1>2, Scaled
  <2>2. QED BY <1>1, <1>7, <2>1
<1>9. rb # 0 => (ma <= mb <=> rb * ma <= rb * mb) /\ (mb <= ma <=> rb * mb <= rb * ma)
  <2>1. SUFFICES ASSUME rb \in Nat \ {0}
                 PROVE  (ma <= mb <=> rb * ma <= rb * mb) /\ (mb <= ma <=> rb * mb <= rb * ma)
    BY <1>1
  <2>2. (ma <= mb <=> ma * rb <= mb * rb) /\ (mb <= ma <=> mb * rb <= ma * rb)
    BY <1>2, <2>1, Scaled
  <2>3. QED BY <1>7, <2>2
<1>10. rb = 0 => rb * ma = 0 /\ rb * mb = 0
  BY <1>2
<1>11. ra >= rb => rb * mb <= ra * mb
  BY <1>1, <1>2, Scaled
<1>12. Dominates(a, b) => rb * ma < ra * mb
  <2>1. SUFFICES ASSUME ra >= rb, ma <= mb, ra > rb \/ (ma < mb /\ ra > 0)
                 PROVE  rb * ma < ra * mb
    BY <1>4
  <2>2. rb * ma <= rb * mb
    BY <1>7, <1>9, <1>10, <2>1
  <2>3. CASE ra > rb
    BY <1>7, <1>8, <2>2, <2>3
  <2>4. CASE ra = rb /\ ma < mb /\ ra > 0
    <3>1. ~(rb * mb <= rb * ma)
      BY <1>1, <1>2, <1>9, <2>4
    <3>2. QED BY <1>7, <2>4, <3>1
  <2>5. QED BY <1>1, <2>1, <2>3, <2>4
<1>13. rb * ma < ra * mb /\ ra >= rb => ra > rb \/ ma < mb
  <2>1. SUFFICES ASSUME rb * ma < ra * mb, ra = rb PROVE ma < mb
    BY <1>1
  <2>2. rb * ma < rb * mb
    BY <2>1
  <2>3. rb # 0
    BY <1>10, <2>2
  <2>4. ~(mb <= ma)
    BY <1>7, <1>9, <2>2, <2>3
  <2>5. QED BY <1>2, <2>4
<1>14. Fraction(EvidencePerToken(a))
  BY <1>1, <1>3, <1>5 DEF Fraction
<1>15. QED BY <1>6, <1>12, <1>13, <1>14 DEF ra, rb, ma, mb

LEMMA KeysOrder ==
  ASSUME Concluded, Labelled # {}, NEW T, T \subseteq Candidates
  PROVE  StrictOrder(T, RanksIn(T))
<1>1. ASSUME NEW n \in T
      PROVE  /\ RankKey(n)[1] = EvidencePerToken(n)
             /\ RankKey(n)[2] = IF Defined(SuppliedPrecision(n)) THEN SuppliedPrecision(n)
                                ELSE <<-1, 1>>
             /\ RankKey(n)[3] = <<-MaxRequestTokens(n), 1>>
             /\ RankKey(n)[4] = <<program.plan[n].name, 1>>
  BY DEF RankKey
<1>2. ASSUME NEW n \in T, NEW i \in 1..4 PROVE Fraction(RankKey(n)[i])
  <2>1. Fraction(RankKey(n)[1])
    BY <1>1, EvidenceFacts
  <2>2. Fraction(RankKey(n)[2])
    <3>1. SuppliedPrecision(n)[1] \in Nat /\ SuppliedPrecision(n)[2] \in Nat
      BY MeasureFacts
    <3>2. Defined(SuppliedPrecision(n)) => Fraction(SuppliedPrecision(n))
      BY <3>1 DEF Defined, Fraction
    <3>3. Fraction(<<-1, 1>>)
      BY DEF Fraction
    <3>4. QED BY <1>1, <3>2, <3>3
  <2>3. Fraction(RankKey(n)[3])
    <3>1. MaxRequestTokens(n) \in Nat
      BY RequestFacts
    <3>2. QED BY <1>1, <3>1 DEF Fraction
  <2>4. Fraction(RankKey(n)[4])
    <3>1. program.plan[n].name \in Nat
      BY AccountFacts
    <3>2. QED BY <1>1, <3>1 DEF Fraction
  <2>5. i = 1 \/ i = 2 \/ i = 3 \/ i = 4
    OBVIOUS
  <2>6. QED BY <2>1, <2>2, <2>3, <2>4, <2>5
<1>3. ASSUME NEW n \in T, NEW o \in T, n # o
      PROVE  Below(RankKey(n)[4], RankKey(o)[4]) \/ Below(RankKey(o)[4], RankKey(n)[4])
  <2>1. program.plan[n].name \in Nat /\ program.plan[o].name \in Nat
    BY AccountFacts
  <2>2. program.plan[n].name # program.plan[o].name
    BY <1>3, AccountFacts, ProgramAssumption DEF Candidates
  <2>3. QED BY <1>1, <2>1, <2>2 DEF Below
<1>4. QED BY <1>2, <1>3, RankOrders

(* The candidate recommended is admissible, beats the baseline, and no     *)
(* admissible one gives more for less.                                     *)
LEMMA RankFollows ==
  ASSUME Concluded, recommended = Rank PROVE CandidateSound
<1> DEFINE eligible == {n \in Candidates \ {1} : Assess(n)}
           last(n) == \A o \in eligible \ {n} : RanksBelow(o, n)
           winner == CHOOSE n \in eligible : last(n)
           per(n) == EvidencePerToken(n)
<1>1. Rank = IF eligible # {} /\ Below(per(1), per(winner)) THEN winner ELSE 0
  BY DEF Rank
<1>2. 1 \in Candidates /\ 0 \notin Candidates
  BY AccountFacts
<1>3. CASE Labelled = {}
  <2>1. eligible = {}
    BY <1>3, AssessMeans
  <2>2. recommended = 0
    BY <1>1, <2>1
  <2>3. ASSUME NEW n \in Candidates PROVE ~Dominates(n, 1)
    <3>1. SuppliedRecall(n)[1] = 0 /\ SuppliedRecall(1)[1] = 0
      BY <1>2, <1>3, MeasureFacts
    <3>2. QED BY <3>1 DEF Dominates
  <2>4. QED BY <2>2, <2>3 DEF CandidateSound
<1>4. CASE Labelled # {}
  <2>1. \A n \in Candidates : Assess(n) <=> Keeps(n)
    BY <1>4, AssessMeans
  <2>2. \A n \in eligible : n \in Candidates /\ n # 1 /\ Keeps(n)
    BY <2>1
  <2>3. \A n \in Candidates \ {1} : Keeps(n) => n \in eligible
    BY <2>1
  <2>4. \A a, b \in Candidates :
          /\ Fraction(per(a))
          /\ Dominates(a, b) => Below(per(b), per(a))
          /\ Below(per(b), per(a)) /\ SuppliedRecall(a)[1] >= SuppliedRecall(b)[1]
               => \/ SuppliedRecall(a)[1] > SuppliedRecall(b)[1]
                  \/ MaxRequestTokens(a) < MaxRequestTokens(b)
    BY <1>4, EvidenceFacts
  <2>5. eligible # {} => winner \in eligible /\ last(winner)
    <3>1. SUFFICES ASSUME eligible # {} PROVE \E n \in eligible : last(n)
      <4> HIDE DEF eligible, last
      <4>1. QED OBVIOUS
    <3>2. StrictOrder(eligible, RanksIn(eligible))
      BY <1>4, KeysOrder
    <3>3. IsFiniteSet(eligible)
      <4>1. IsFiniteSet(Candidates)
        <5>1. Candidates = 1..Len(program.plan) /\ Len(program.plan) \in Nat
          BY AccountFacts
        <5>2. QED BY <5>1, FS_Interval
      <4>2. eligible \in SUBSET Candidates
        OBVIOUS
      <4> HIDE DEF eligible
      <4>3. QED BY <4>1, <4>2, FS_Subset
    <3> HIDE DEF eligible
    <3>4. PICK l \in eligible : \A i \in eligible \ {l} : <<i, l>> \in RanksIn(eligible)
      BY <3>1, <3>2, <3>3, LastOf
    <3>5. last(l)
      BY <3>4 DEF RanksIn
    <3> HIDE DEF last
    <3>6. QED BY <3>5
  <2>6. \A a, b \in Candidates : Below(per(a), per(b)) => ~Below(per(b), per(a))
    <3> HIDE DEF per
    <3>1. QED BY <2>4, BelowFacts
  <2>7. \A a, b, c \in Candidates : ~Below(per(a), per(b)) /\ ~Below(per(b), per(c))
                                      => ~Below(per(a), per(c))
    <3> HIDE DEF per
    <3>1. QED BY <2>4, BelowFacts
  <2>8. ASSUME NEW a, NEW b, RanksBelow(a, b), Below(per(b), per(a)) PROVE Below(per(a), per(b))
    <3>1. RankKey(a)[1] = per(a) /\ RankKey(b)[1] = per(b)
      BY DEF RankKey
    <3>2. PICK i \in 1..4 : /\ Below(RankKey(a)[i], RankKey(b)[i])
                            /\ \A j \in 1..i-1 : ~Below(RankKey(b)[j], RankKey(a)[j])
      BY <2>8 DEF RanksBelow
    <3>3. i = 1
      <4>1. i # 1 => 1 \in 1..i-1
        OBVIOUS
      <4> HIDE DEF per
      <4>2. QED BY <2>8, <3>1, <3>2, <4>1
    <3> HIDE DEF per
    <3>4. QED BY <3>1, <3>2, <3>3
  <2> HIDE DEF eligible, winner, per
  <2>9. ASSUME NEW n \in eligible, eligible # {} PROVE ~Below(per(winner), per(n))
    <3>1. n \in Candidates /\ winner \in Candidates
      BY <2>2, <2>5, <2>9
    <3>2. n = winner \/ RanksBelow(n, winner)
      BY <2>5, <2>9
    <3>3. QED BY <2>6, <2>8, <3>1, <3>2
  <2>10. CASE eligible # {} /\ Below(per(1), per(winner))
    <3>1. recommended = winner
      BY <1>1, <2>10
    <3>2. winner \in Candidates /\ Keeps(winner)
      BY <2>2, <2>5, <2>10
    <3>3. \/ SuppliedRecall(winner)[1] > SuppliedRecall(1)[1]
          \/ MaxRequestTokens(winner) < MaxRequestTokens(1)
      <4>1. SuppliedRecall(winner)[1] >= SuppliedRecall(1)[1]
        BY <3>2 DEF Keeps
      <4>2. QED BY <1>2, <2>4, <2>10, <3>2, <4>1
    <3>4. \A n \in Candidates \ {1} : Keeps(n) => ~Dominates(n, winner)
      BY <2>3, <2>4, <2>9, <2>10, <3>2
    <3>5. recommended # 0
      BY <1>2, <3>1, <3>2
    <3>6. QED BY <3>1, <3>2, <3>3, <3>4, <3>5 DEF CandidateSound
  <2>11. CASE ~(eligible # {} /\ Below(per(1), per(winner)))
    <3>1. recommended = 0
      BY <1>1, <2>11
    <3>2. ASSUME NEW n \in Candidates \ {1}, Keeps(n) PROVE ~Dominates(n, 1)
      <4>1. n \in eligible
        BY <2>3, <3>2
      <4>2. ~Below(per(winner), per(n)) /\ winner \in Candidates
        BY <2>2, <2>5, <2>9, <4>1
      <4>3. ~Below(per(1), per(n))
        BY <1>2, <2>7, <2>11, <4>1, <4>2
      <4>4. QED BY <1>2, <2>4, <4>3
    <3>3. QED BY <3>1, <3>2 DEF CandidateSound
  <2>12. QED BY <2>10, <2>11
<1>5. QED BY <1>3, <1>4

-----------------------------------------------------------------------------
(* The sweeps.  A value is taken from those no other does better than, so  *)
(* one that finds more in some case must find less in another.             *)
LEMMA CandidatesFinite == ASSUME Concluded PROVE IsFiniteSet(Candidates) /\ Candidates # {}
<1>1. Candidates = 1..Len(program.plan) /\ Len(program.plan) \in Nat \ {0}
  BY AccountFacts
<1>2. IsFiniteSet(1..Len(program.plan)) /\ 1 \in 1..Len(program.plan)
  BY <1>1, FS_Interval
<1>3. QED BY <1>1, <1>2

LEMMA SmallestIsOne ==
  ASSUME Concluded, NEW rows, rows \subseteq Candidates, rows # {}
  PROVE  SmallestOf(rows) \in rows
<1> DEFINE T == {Value(n) : n \in rows}
<1>1. \A n \in rows : Value(n) \in Nat
  BY AccountFacts DEF Value
<1>2. T \subseteq Nat /\ T # {}
  BY <1>1
<1>3. PICK x \in T : \A y \in T : x <= y
  <2> HIDE DEF T
  <2>1. QED BY <1>2, LeastNatural
<1>4. \E n \in rows : \A o \in rows : Value(n) <= Value(o)
  BY <1>3
<1>5. QED BY <1>4 DEF SmallestOf

LEMMA BestExists ==
  ASSUME Concluded, NEW f \in [Candidates -> Nat]
  PROVE  \E n \in Candidates : \A o \in Candidates : f[o] <= f[n]
<1> DEFINE T == {f[n] : n \in Candidates}
<1>1. IsFiniteSet(T)
  BY CandidatesFinite, FiniteImage
<1>2. T \subseteq Nat /\ T # {} /\ \A n \in Candidates : f[n] \in T
  BY CandidatesFinite
<1>3. \A x \in T : \E n \in Candidates : f[n] = x
  OBVIOUS
<1> HIDE DEF T
<1>4. Max(T) \in T /\ \A y \in T : y <= Max(T)
  BY <1>1, <1>2, GreatestOf
<1>5. QED BY <1>2, <1>3, <1>4

LEMMA RetainedFacts ==
  ASSUME Concluded, NEW n \in Candidates, NEW o \in Candidates
  PROVE  /\ RelevantRetained(n) \in Nat
         /\ (\A i \in Cases : Cardinality(Found(n, i)) <= Cardinality(Found(o, i)))
              /\ (\E i \in Cases : Cardinality(Found(n, i)) < Cardinality(Found(o, i)))
              => RelevantRetained(n) < RelevantRetained(o)
<1> DEFINE a == [i \in Cases |-> Cardinality(Found(n, i))]
           b == [i \in Cases |-> Cardinality(Found(o, i))]
<1>1. a \in [Cases -> Nat] /\ b \in [Cases -> Nat]
  <2>1. \A i \in Cases : Cardinality(Found(n, i)) \in Nat /\ Cardinality(Found(o, i)) \in Nat
    BY CountFacts DEF Found
  <2>2. QED BY <2>1
<1>2. RelevantRetained(n) = Total(a) /\ RelevantRetained(o) = Total(b)
  BY DEF RelevantRetained
<1>3. \A i \in Cases : a[i] = Cardinality(Found(n, i)) /\ b[i] = Cardinality(Found(o, i))
  OBVIOUS
<1> HIDE DEF a, b
<1>4. /\ Total(a) \in Nat
      /\ (\A i \in Cases : a[i] <= b[i]) /\ (\E i \in Cases : a[i] < b[i]) => Total(a) < Total(b)
  BY <1>1, AccountFacts, TotalFacts
<1>5. QED BY <1>2, <1>3, <1>4

LEMMA BudgetSweep ==
  ASSUME Concluded, program.study = "budget", recommended = SmallestKeeping
  PROVE  SweepSound
<1> DEFINE rows == {n \in Candidates :
                      \A o \in Candidates : RelevantRetained(o) <= RelevantRetained(n)}
           f == [n \in Candidates |-> RelevantRetained(n)]
<1>1. \A n \in Candidates : RelevantRetained(n) \in Nat
  BY RetainedFacts
<1>2. rows # {}
  <2>1. f \in [Candidates -> Nat] /\ \A n \in Candidates : f[n] = RelevantRetained(n)
    BY <1>1
  <2> HIDE DEF f
  <2>2. PICK n \in Candidates : \A o \in Candidates : f[o] <= f[n]
    BY <2>1, BestExists
  <2>3. \A o \in Candidates : RelevantRetained(o) <= RelevantRetained(n)
    BY <2>1, <2>2
  <2>4. QED BY <2>3
<1>3. recommended \in rows
  <2>1. recommended = SmallestOf(rows) /\ rows \subseteq Candidates
    BY DEF SmallestKeeping
  <2> HIDE DEF rows
  <2>2. QED BY <1>2, <2>1, SmallestIsOne
<1>4. recommended \in Candidates
      /\ \A o \in Candidates : RelevantRetained(o) <= RelevantRetained(recommended)
  BY <1>3
<1>5. \A n \in Candidates, i \in Cases :
        /\ Reached(n, i) = Cardinality(Found(n, i))
        /\ Cardinality(Found(n, i)) \in Nat
  <2>1. ASSUME NEW n \in Candidates, NEW i \in Cases
        PROVE  Reached(n, i) = Cardinality(Found(n, i)) /\ Cardinality(Found(n, i)) \in Nat
    <3>1. Found(n, i) = program.dataset[i].relevant \cap accounts[n][i].supplied
      BY DEF Found
    <3>2. Reached(n, i) = Cardinality(Found(n, i))
      BY <3>1 DEF Reached
    <3>3. Cardinality(program.dataset[i].relevant \cap accounts[n][i].supplied) \in Nat
      BY CountFacts
    <3>4. QED BY <3>1, <3>2, <3>3
  <2>2. QED BY <2>1
<1> HIDE DEF rows, f
<1>6. ASSUME NEW n \in Candidates, NEW i \in Cases, Reached(n, i) > Reached(recommended, i),
             \A j \in Cases : ~(Reached(n, j) < Reached(recommended, j))
      PROVE  FALSE
  <2>1. /\ \A j \in Cases : Cardinality(Found(recommended, j)) <= Cardinality(Found(n, j))
        /\ Cardinality(Found(recommended, i)) < Cardinality(Found(n, i))
    BY <1>4, <1>5, <1>6
  <2>2. RelevantRetained(recommended) < RelevantRetained(n)
    BY <1>4, <2>1, RetainedFacts
  <2>3. QED BY <1>1, <1>4, <2>2
<1>7. QED BY <1>6 DEF SweepSound

LEMMA RecallFacts ==
  ASSUME Concluded, NEW n \in Candidates, NEW o \in Candidates
  PROVE  /\ RetrievedRecall(n)[1] \in Nat
         /\ Labelled # {} => (Below(RetrievedRecall(n), RetrievedRecall(o))
                                <=> RetrievedRecall(n)[1] < RetrievedRecall(o)[1])
         /\ /\ program.study # "budget"
            /\ \A i \in Cases : Reached(n, i) <= Reached(o, i)
            /\ \E i \in Cases : Reached(n, i) < Reached(o, i)
            => Labelled # {} /\ RetrievedRecall(n)[1] < RetrievedRecall(o)[1]
<1> DEFINE wanted(i) == program.dataset[i].relevant
           share(l, i) == Cardinality(accounts[l][i].retrieved \cap wanted(i))
           part(l, i) == (Scale * share(l, i)) \div Cardinality(wanted(i))
           a == [i \in Labelled |-> part(n, i)]
           b == [i \in Labelled |-> part(o, i)]
<1>1. IsFiniteSet(Labelled) /\ Labelled \subseteq Cases
  BY AccountFacts, FS_Subset
<1>2. ASSUME NEW l \in {n, o}, NEW i \in Cases PROVE share(l, i) \in Nat
  BY CountFacts
<1>3. ASSUME NEW i \in Labelled
      PROVE  /\ part(n, i) \in Nat /\ part(o, i) \in Nat
             /\ share(n, i) <= share(o, i) => part(n, i) <= part(o, i)
             /\ share(n, i) < share(o, i) => part(n, i) < part(o, i)
  <2> DEFINE y == Cardinality(wanted(i))  s == share(n, i)  t == share(o, i)
  <2>1. y \in Nat \ {0} /\ Scale % y = 0
    BY <1>1, CountFacts
  <2>2. s \in Nat /\ t \in Nat
    BY <1>1, <1>2
  <2>3. part(n, i) = (Scale * s) \div y /\ part(o, i) = (Scale * t) \div y
    OBVIOUS
  <2> HIDE DEF y, s, t, part
  <2>4. /\ (Scale * s) \div y \in Nat /\ (Scale * t) \div y \in Nat
        /\ s <= t => (Scale * s) \div y <= (Scale * t) \div y
        /\ s < t => (Scale * s) \div y < (Scale * t) \div y
    BY <2>1, <2>2, ShareFacts
  <2>5. QED BY <2>3, <2>4 DEF s, t
<1>4. RetrievedRecall(n) = Mean(a) /\ RetrievedRecall(o) = Mean(b)
  BY DEF RetrievedRecall
<1> HIDE DEF part
<1>5. a \in [Labelled -> Nat] /\ b \in [Labelled -> Nat]
  BY <1>3
<1>6. \A i \in Labelled : a[i] = part(n, i) /\ b[i] = part(o, i)
  OBVIOUS
<1> HIDE DEF a, b
<1>7. /\ Mean(a)[1] = Total(a) /\ Mean(b)[1] = Total(b) /\ Total(a) \in Nat /\ Total(b) \in Nat
      /\ Mean(a)[2] = Cardinality(Labelled) /\ Mean(b)[2] = Cardinality(Labelled)
      /\ Mean(a)[2] \in Nat /\ (Defined(Mean(a)) <=> Labelled # {})
  <2>1. /\ Mean(a)[1] = Total(a) /\ Mean(a)[1] \in Nat
        /\ Mean(a)[2] = Cardinality(Labelled) /\ Mean(a)[2] \in Nat
        /\ Defined(Mean(a)) <=> Labelled # {}
    BY <1>1, <1>5, MeansFacts
  <2>2. Mean(b)[1] = Total(b) /\ Mean(b)[1] \in Nat /\ Mean(b)[2] = Cardinality(Labelled)
    BY <1>1, <1>5, MeansFacts
  <2>3. QED BY <2>1, <2>2
<1>8. ASSUME Labelled # {} PROVE Below(Mean(a), Mean(b)) <=> Total(a) < Total(b)
  <2> DEFINE c == Cardinality(Labelled)
  <2>1. c \in Nat \ {0}
    BY <1>7, <1>8 DEF Defined
  <2>2. Below(Mean(a), Mean(b)) <=> Total(a) * c < Total(b) * c
    BY <1>7 DEF Below
  <2> HIDE DEF c
  <2>3. Total(b) <= Total(a) <=> Total(b) * c <= Total(a) * c
    BY <1>7, <2>1, Scaled
  <2>4. Total(a) * c \in Int /\ Total(b) * c \in Int
    BY <1>7, <2>1
  <2>5. QED BY <1>7, <2>2, <2>3, <2>4
<1>9. ASSUME program.study # "budget",
             \A i \in Cases : Reached(n, i) <= Reached(o, i),
             NEW j \in Cases, Reached(n, j) < Reached(o, j)
      PROVE  Labelled # {} /\ Total(a) < Total(b)
  <2>1. \A l, i : Reached(l, i) = share(l, i)
    <3>1. \A l, i : wanted(i) \cap accounts[l][i].retrieved = accounts[l][i].retrieved \cap wanted(i)
      OBVIOUS
    <3>2. \A l, i : Reached(l, i) = Cardinality(wanted(i) \cap accounts[l][i].retrieved)
      BY <1>9 DEF Reached
    <3>3. QED BY <3>1, <3>2
  <2>2. j \in Labelled
    <3>1. SUFFICES ASSUME wanted(j) = {} PROVE FALSE
      BY DEF Labelled, Cases
    <3>2. accounts[n][j].retrieved \cap wanted(j) = accounts[o][j].retrieved \cap wanted(j)
      BY <3>1
    <3>3. share(n, j) = share(o, j)
      BY <3>2
    <3>4. share(n, j) \in Nat /\ share(n, j) < share(o, j)
      BY <1>2, <1>9, <2>1
    <3> HIDE DEF share
    <3>5. QED BY <3>3, <3>4
  <2> HIDE DEF share
  <2>3. \A i \in Labelled : a[i] <= b[i]
    BY <1>1, <1>3, <1>6, <1>9, <2>1
  <2>4. a[j] < b[j]
    BY <1>3, <1>6, <1>9, <2>1, <2>2
  <2>5. Total(a) < Total(b)
    BY <1>1, <1>5, <2>2, <2>3, <2>4, TotalFacts
  <2>6. QED BY <2>2, <2>5
<1>10. QED BY <1>4, <1>7, <1>8, <1>9

LEMMA FullRecallFacts ==
  ASSUME Concluded, Labelled # {}
  PROVE  /\ FullRecall \subseteq Candidates /\ FullRecall # {}
         /\ \A n \in FullRecall, o \in Candidates :
              RetrievedRecall(o)[1] <= RetrievedRecall(n)[1]
<1> DEFINE f == [n \in Candidates |-> RetrievedRecall(n)[1]]
<1>1. \A n \in Candidates : RetrievedRecall(n)[1] \in Nat
  BY RecallFacts
<1>2. f \in [Candidates -> Nat] /\ \A n \in Candidates : f[n] = RetrievedRecall(n)[1]
  BY <1>1
<1> HIDE DEF f
<1>3. \A n, o \in Candidates : ~Below(RetrievedRecall(n), RetrievedRecall(o))
                                 <=> RetrievedRecall(o)[1] <= RetrievedRecall(n)[1]
  BY <1>1, RecallFacts
<1>4. PICK n \in Candidates : \A o \in Candidates : f[o] <= f[n]
  BY <1>2, BestExists
<1>5. n \in FullRecall
  BY <1>2, <1>3, <1>4 DEF FullRecall
<1>6. QED BY <1>3, <1>5 DEF FullRecall

LEMMA RecallSweep ==
  ASSUME Concluded, program.study # "budget",
         recommended # 0 => Labelled # {} /\ recommended \in FullRecall,
         recommended # 0 /\ program.study = "min_similarity" => EmptyCases(recommended) = {}
  PROVE  SweepSound
<1>1. SUFFICES ASSUME recommended # 0 PROVE SweepSound
  BY DEF SweepSound
<1>2. recommended \in Candidates /\ \A o \in Candidates :
        RetrievedRecall(o)[1] <= RetrievedRecall(recommended)[1]
  BY <1>1, FullRecallFacts
<1>3. \A n \in Candidates, i \in Cases : Reached(n, i) \in Nat
  BY CountFacts DEF Reached
<1>4. ASSUME NEW n \in Candidates, NEW i \in Cases, Reached(n, i) > Reached(recommended, i),
             \A j \in Cases : ~(Reached(n, j) < Reached(recommended, j))
      PROVE  FALSE
  <2>1. /\ \A j \in Cases : Reached(recommended, j) <= Reached(n, j)
        /\ Reached(recommended, i) < Reached(n, i)
    BY <1>2, <1>3, <1>4
  <2>2. RetrievedRecall(recommended)[1] < RetrievedRecall(n)[1]
    BY <1>2, <2>1, RecallFacts
  <2>3. RetrievedRecall(recommended)[1] \in Nat /\ RetrievedRecall(n)[1] \in Nat
    BY <1>2, RecallFacts
  <2>4. QED BY <1>2, <2>2, <2>3
<1>5. program.study = "min_similarity" =>
        \A i \in Cases : accounts[recommended][i].retrieved # {}
  BY <1>1 DEF EmptyCases
<1>6. QED BY <1>4, <1>5 DEF SweepSound

LEMMA ShapeSweep ==
  ASSUME Concluded, program.study = "shape", recommended = BestShape PROVE SweepSound
<1>1. Labelled # {} => SmallestOf(FullRecall) \in FullRecall
  BY FullRecallFacts, SmallestIsOne
<1>2. recommended # 0 => Labelled # {} /\ recommended \in FullRecall
  BY <1>1 DEF BestShape
<1>3. QED BY <1>2, RecallSweep

LEMMA MinSimilaritySweep ==
  ASSUME Concluded, program.study = "min_similarity", recommended = BestMinSimilarity
  PROVE  SweepSound
<1> DEFINE qualifying == {n \in FullRecall : EmptyCases(n) = {}}
           most(n) == \A o \in qualifying : Value(o) <= Value(n)
<1>1. recommended = IF Labelled = {} \/ qualifying = {} THEN 0 ELSE CHOOSE n \in qualifying : most(n)
  BY DEF BestMinSimilarity
<1>2. ASSUME Labelled # {}, qualifying # {} PROVE \E n \in qualifying : most(n)
  <2> DEFINE f == [n \in Candidates |-> IF n \in qualifying THEN Value(n) + 1 ELSE 0]
  <2>1. qualifying \subseteq Candidates
    BY <1>2, FullRecallFacts
  <2>2. \A n \in Candidates : Value(n) \in Nat
    BY AccountFacts DEF Value
  <2>3. /\ f \in [Candidates -> Nat]
        /\ \A n \in qualifying : f[n] = Value(n) + 1
        /\ \A n \in Candidates \ qualifying : f[n] = 0
    BY <2>1, <2>2
  <2> HIDE DEF f, qualifying
  <2>4. PICK n \in Candidates : \A o \in Candidates : f[o] <= f[n]
    BY <2>3, BestExists
  <2>5. n \in qualifying
    <3>1. PICK o \in qualifying : TRUE
      BY <1>2
    <3>2. f[o] = Value(o) + 1 /\ Value(o) \in Nat /\ f[o] <= f[n]
      BY <2>1, <2>2, <2>3, <2>4
    <3>3. f[n] # 0
      BY <3>2
    <3>4. QED BY <2>3, <3>3
  <2>6. most(n)
    BY <2>1, <2>2, <2>3, <2>4, <2>5
  <2>7. QED BY <2>5, <2>6
<1>3. recommended # 0 => Labelled # {} /\ recommended \in qualifying
  <2> HIDE DEF qualifying, most
  <2>1. QED BY <1>1, <1>2
<1>4. QED BY <1>3, RecallSweep

(* Whatever a study recommends is right in its own terms: a candidate that *)
(* keeps to the baseline and gives more for less, a change that is better  *)
(* and not worse, a value that costs no relevant note (candidates.py rank, *)
(* run_rag_evaluation.py _decide and recommend).                           *)
THEOREM RecommendationIsSound == Spec => []RecommendationSound
<1>1. RInv /\ Accounting => RecommendationSound
  <2> SUFFICES ASSUME RInv, Accounting, phase = "selected" PROVE RecommendationSound
    BY DEF RecommendationSound
  <2>1. Concluded
    BY DEF Concluded
  <2>2. recommended = Recommendation
    BY DEF Accounting
  <2>3. program.study \in {"candidates", "variants", "budget", "shape", "min_similarity"}
    BY <2>1, AccountFacts, ProgramAssumption
  <2>4. CASE program.study = "candidates"
    <3>1. recommended = Rank
      BY <2>2, <2>4 DEF Recommendation
    <3>2. QED BY <2>1, <2>4, <3>1, RankFollows DEF RecommendationSound
  <2>5. CASE program.study = "variants"
    <3>1. recommended = Decide
      BY <2>2, <2>5 DEF Recommendation
    <3>2. QED BY <2>1, <2>5, <3>1, DecisionFollows DEF RecommendationSound
  <2>6. CASE program.study = "budget"
    <3>1. recommended = SmallestKeeping
      BY <2>2, <2>6 DEF Recommendation
    <3>2. QED BY <2>1, <2>6, <3>1, BudgetSweep DEF RecommendationSound
  <2>7. CASE program.study = "shape"
    <3>1. recommended = BestShape
      BY <2>2, <2>7 DEF Recommendation
    <3>2. QED BY <2>1, <2>7, <3>1, ShapeSweep DEF RecommendationSound
  <2>8. CASE program.study = "min_similarity"
    <3>1. recommended = BestMinSimilarity
      BY <2>2, <2>8 DEF Recommendation
    <3>2. QED BY <2>1, <2>8, <3>1, MinSimilaritySweep DEF RecommendationSound
  <2>9. QED BY <2>3, <2>4, <2>5, <2>6, <2>7, <2>8
<1>2. QED BY <1>1, RetrievalInvariant, AccountingInvariant, PTL
=============================================================================
