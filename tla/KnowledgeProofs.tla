-------------------------- MODULE KnowledgeProofs --------------------------
(***************************************************************************)
(* The knowledge base and the analysis that asks it.                       *)
(*                                                                         *)
(* The vector store, on its own: the invariant of VectorStore is inductive *)
(* and a search ranks by a strict order, so that ranks have no gaps.       *)
(*                                                                         *)
(* KnowledgeIndex: a text is compared by its faces, what is left of it     *)
(* without white space, which concatenation respects; a cut makes progress,*)
(* stays within the limit and drops only white space; a corpus is put in   *)
(* order by a strict order of distinct ids.  The invariant (KInv) says for *)
(* every section of the corpus that its text is in the chunks once it is   *)
(* done and not before, and that every chunk is of a section that is done, *)
(* so that its id is unlike those that follow.                             *)
(*                                                                         *)
(* Analysis cites what was supplied, retries what may be retried, and      *)
(* prepares its index once; for any number of captures, excerpts and       *)
(* retries.  While a request is under way there is no outcome yet and      *)
(* every answer so far was worth a retry (Underway); when it ends, the     *)
(* outcome is made of that state in one step (RetriesSound,                *)
(* CitationsSupplied).  Separately, loads are counted against escapes      *)
(* along the path of a preparation (Preparation).                          *)
(***************************************************************************)
EXTENDS KnowledgeIndex, Analysis, LineProofs, Integers,
        FiniteSetTheorems, SequenceTheorems, TLAPS

(* The records one after the other, each id once.                          *)
LEMMA BatchFacts ==
  ASSUME NEW batch \in Batch
  PROVE  /\ batch \in Seq(Record) /\ Len(batch) \in Nat /\ Len(batch) >= 1
         /\ DOMAIN batch = 1..Len(batch)
         /\ batch[Len(batch)] \in Record
<1>1. PICK n \in 1..MaxBatch : batch \in [1..n -> Offered]
  BY DEF Batch
<1>2. MaxBatch \in Nat /\ Offered \subseteq Record
  BY StoreAssumption, OfferedAssumption
<1>3. n \in Nat /\ n >= 1 /\ batch \in [1..n -> Record]
  BY <1>1, <1>2
<1>4. batch \in Seq(Record) /\ Len(batch) = n
  BY <1>3
<1>5. QED BY <1>3, <1>4

(* A single record is a batch of one.                                      *)
LEMMA SingleFacts ==
  ASSUME NEW r \in Offered
  PROVE  /\ <<r>> \in Seq(Record) /\ Len(<<r>>) = 1 /\ <<r>>[1] = r
         /\ r \in Record
BY OfferedAssumption

(* A valid batch is of one width and one model, those of the store if it   *)
(* has any, and of ids that are new and distinct.                          *)
LEMMA ValidFacts ==
  ASSUME NEW batch \in Seq(Record), ValidBatch(batch)
  PROVE  /\ \A i \in 1..Len(batch) :
              /\ batch[i].chunk_id \notin DOMAIN index
              /\ batch[i].vector \notin Zero
         /\ \A i, j \in 1..Len(batch) :
              i # j => batch[i].chunk_id # batch[j].chunk_id
         /\ \A i \in 1..Len(batch) :
              i > 1 => /\ Width[batch[i].vector] = Width[batch[i - 1].vector]
                       /\ batch[i].model_name = batch[i - 1].model_name
         /\ Len(batch) >= 1 => /\ Meets(Width[batch[1].vector], dimension)
                               /\ Meets(batch[1].model_name, model_name)
<1>1. DOMAIN batch = 1..Len(batch) /\ Len(batch) \in Nat
  OBVIOUS
<1>2. \A i \in 1..Len(batch) : batch[i].chunk_id \notin DOMAIN index /\ batch[i].vector \notin Zero
  BY <1>1 DEF ValidBatch, Valid
<1>3. \A i, j \in 1..Len(batch) : i # j => batch[i].chunk_id # batch[j].chunk_id
  <2>1. SUFFICES ASSUME NEW i \in 1..Len(batch), NEW j \in 1..Len(batch), j < i
                 PROVE  batch[j].chunk_id # batch[i].chunk_id
    BY <1>1
  <2>2. j \in 1..(i - 1)
    BY <1>1, <2>1
  <2>3. QED BY <1>1, <2>2 DEF ValidBatch
<1>4. \A i \in 1..Len(batch) :
        i > 1 => /\ Meets(Width[batch[i].vector], Width[batch[i - 1].vector])
                 /\ Meets(batch[i].model_name, batch[i - 1].model_name)
  BY <1>1 DEF ValidBatch, Valid
<1>5. \A r \in Record : Width[r.vector] # None /\ r.model_name # None
  BY StoreAssumption DEF Record
<1>6. \A i \in 1..Len(batch) :
        i > 1 => /\ Width[batch[i].vector] = Width[batch[i - 1].vector]
                 /\ batch[i].model_name = batch[i - 1].model_name
  <2>1. SUFFICES ASSUME NEW i \in 1..Len(batch), i > 1
                 PROVE  /\ Width[batch[i].vector] = Width[batch[i - 1].vector]
                        /\ batch[i].model_name = batch[i - 1].model_name
    OBVIOUS
  <2>2. i - 1 \in 1..Len(batch)
    BY <1>1, <2>1
  <2>3. batch[i - 1] \in Record
    BY <2>2
  <2>4. QED BY <1>4, <1>5, <2>1, <2>3 DEF Meets
<1>7. Len(batch) >= 1 => /\ Meets(Width[batch[1].vector], dimension)
                         /\ Meets(batch[1].model_name, model_name)
  BY <1>1 DEF ValidBatch, Valid
<1>8. QED BY <1>2, <1>3, <1>6, <1>7

(* A batch is of one width and one model throughout.                       *)
LEMMA Uniform ==
  ASSUME NEW batch \in Seq(Record), ValidBatch(batch)
  PROVE  \A i \in 1..Len(batch) : /\ Width[batch[i].vector] = Width[batch[1].vector]
                                  /\ batch[i].model_name = batch[1].model_name
<1> DEFINE Same(i) == /\ Width[batch[i].vector] = Width[batch[1].vector]
                      /\ batch[i].model_name = batch[1].model_name
           T == {i \in 1..Len(batch) : ~Same(i)}
<1>1. Len(batch) \in Nat
  OBVIOUS
<1>2. SUFFICES ASSUME T # {} PROVE FALSE
  OBVIOUS
<1>3. T \subseteq Nat
  BY <1>1
<1>4. PICK x \in T : \A y \in T : x <= y
  BY <1>2, <1>3, LeastNatural
<1>5. x \in 1..Len(batch) /\ ~Same(x) /\ x # 1
  BY <1>4
<1>6. x - 1 \in 1..Len(batch) /\ x > 1 /\ ~(x <= x - 1)
  BY <1>1, <1>5
<1>7. Same(x - 1)
  BY <1>4, <1>6
<1>8. /\ Width[batch[x].vector] = Width[batch[x - 1].vector]
      /\ batch[x].model_name = batch[x - 1].model_name
  BY <1>5, <1>6, ValidFacts
<1>9. QED BY <1>5, <1>7, <1>8

(* What is at each position of a concatenation.                            *)
LEMMA Concat ==
  ASSUME NEW T, NEW s \in Seq(T), NEW t \in Seq(T)
  PROVE  /\ s \o t \in Seq(T) /\ Len(s \o t) = Len(s) + Len(t)
         /\ \A i \in 1..Len(s) : (s \o t)[i] = s[i]
         /\ \A i \in (Len(s) + 1)..(Len(s) + Len(t)) :
              i - Len(s) \in 1..Len(t) /\ (s \o t)[i] = t[i - Len(s)]
OBVIOUS

(* A function on 1..size is a sequence.                                    *)
LEMMA FunctionIsSeq ==
  ASSUME NEW T, NEW size \in Nat, NEW f \in [1..size -> T]
  PROVE  f \in Seq(T) /\ Len(f) = size
OBVIOUS

(* _insert keeps the parallel structures together.                         *)
LEMMA InsertKeeps ==
  ASSUME StoreConsistent, NEW batch \in Seq(Record), Len(batch) >= 1,
         ValidBatch(batch), InsertAll(batch), Invalidate
  PROVE  StoreConsistent'
<1> DEFINE n == Len(records)  size == Len(batch)
           ids == {batch[i].chunk_id : i \in 1..size}
           position(id) == CHOOSE i \in 1..size : batch[i].chunk_id = id
<1>1. /\ records \in Seq(Record) /\ n \in Nat /\ size \in Nat
      /\ DOMAIN batch = 1..size /\ DOMAIN records = 1..n
      /\ n = Len(records) /\ size = Len(batch) /\ size >= 1
  BY DEF StoreConsistent
<1>2. /\ records' = records \o batch
      /\ vectors' = vectors \o [i \in 1..size |-> batch[i].vector]
      /\ index' = [id \in DOMAIN index \cup ids |->
                     IF id \in DOMAIN index THEN index[id] ELSE n + position(id)]
      /\ dimension' = Width[batch[size].vector] /\ model_name' = batch[size].model_name
      /\ matrix' = None /\ norms' = None
  BY <1>1 DEF InsertAll, Invalidate
<1> HIDE DEF n, size
<1>3. /\ records' \in Seq(Record) /\ Len(records') = n + size
      /\ DOMAIN records' = 1..(n + size)
      /\ \A i \in 1..n : records'[i] = records[i]
      /\ \A i \in (n + 1)..(n + size) : i - n \in 1..size /\ records'[i] = batch[i - n]
  BY <1>1, <1>2, Concat
<1>4. /\ \A i \in 1..size : batch[i].chunk_id \notin DOMAIN index /\ batch[i].vector \notin Zero
      /\ \A i, j \in 1..size : i # j => batch[i].chunk_id # batch[j].chunk_id
      /\ Meets(Width[batch[1].vector], dimension) /\ Meets(batch[1].model_name, model_name)
  BY <1>1, ValidFacts
<1>5. \A i \in 1..size : position(batch[i].chunk_id) = i
  BY <1>4
<1> HIDE DEF position
<1>6. vectors' = [i \in DOMAIN records' |-> records'[i].vector]
  <2>1. vectors = [i \in 1..n |-> records[i].vector]
    BY <1>1 DEF StoreConsistent
  <2>2. vectors \in Seq(Vectors) /\ Len(vectors) = n
    <3>0. \A i \in 1..n : records[i] \in Record
      BY <1>1
    <3>1. vectors \in [1..n -> Vectors]
      BY <2>1, <3>0 DEF Record
    <3>2. QED BY <1>1, <3>1, FunctionIsSeq
  <2> DEFINE more == [i \in 1..size |-> batch[i].vector]
  <2>3. more \in Seq(Vectors) /\ Len(more) = size
    <3>1. \A i \in 1..size : batch[i] \in Record
      BY <1>1
    <3>2. more \in [1..size -> Vectors]
      BY <3>1 DEF Record
    <3> HIDE DEF more
    <3>3. QED BY <1>1, <3>2, FunctionIsSeq
  <2>4. vectors' = vectors \o more
    BY <1>2
  <2>5. \A i \in 1..size : more[i] = batch[i].vector
    OBVIOUS
  <2> HIDE DEF more
  <2>6. /\ vectors' \in Seq(Vectors) /\ Len(vectors') = n + size
        /\ \A i \in 1..n : vectors'[i] = vectors[i]
        /\ \A i \in (n + 1)..(n + size) : vectors'[i] = more[i - n]
    <3>1. /\ vectors \o more \in Seq(Vectors)
          /\ Len(vectors \o more) = Len(vectors) + Len(more)
          /\ \A i \in 1..Len(vectors) : (vectors \o more)[i] = vectors[i]
          /\ \A i \in (Len(vectors) + 1)..(Len(vectors) + Len(more)) :
               (vectors \o more)[i] = more[i - Len(vectors)]
      BY <2>2, <2>3, Concat
    <3>2. QED BY <2>2, <2>3, <2>4, <3>1
  <2>7. \A i \in 1..(n + size) : vectors'[i] = records'[i].vector
    <3>1. SUFFICES ASSUME NEW i \in 1..(n + size) PROVE vectors'[i] = records'[i].vector
      OBVIOUS
    <3>2. CASE i \in 1..n
      BY <1>3, <2>1, <2>6, <3>2
    <3>3. CASE i \in (n + 1)..(n + size)
      BY <1>3, <2>5, <2>6, <3>3
    <3>4. QED BY <1>1, <3>1, <3>2, <3>3
  <2>8. DOMAIN vectors' = 1..(n + size) /\ vectors' = [i \in DOMAIN vectors' |-> vectors'[i]]
    BY <1>1, <2>6
  <2>9. QED BY <1>3, <2>7, <2>8
<1>7. /\ DOMAIN index' = DOMAIN index \cup ids
      /\ \A id \in DOMAIN index : index'[id] = index[id]
      /\ \A i \in 1..size : index'[batch[i].chunk_id] = n + i
  <2>1. DOMAIN index' = DOMAIN index \cup ids
    BY <1>2
  <2>2. \A id \in DOMAIN index : index'[id] = index[id]
    BY <1>2
  <2>3. \A i \in 1..size : index'[batch[i].chunk_id] = n + position(batch[i].chunk_id)
    BY <1>2, <1>4
  <2>4. QED BY <1>5, <2>1, <2>2, <2>3
<1>8. \A i \in 1..(n + size) : /\ records'[i].chunk_id \in DOMAIN index'
                            /\ index'[records'[i].chunk_id] = i
  <2>1. SUFFICES ASSUME NEW i \in 1..(n + size)
                 PROVE  /\ records'[i].chunk_id \in DOMAIN index'
                        /\ index'[records'[i].chunk_id] = i
    OBVIOUS
  <2>2. CASE i \in 1..n
    <3>1. records[i].chunk_id \in DOMAIN index /\ index[records[i].chunk_id] = i
      BY <1>1, <2>2 DEF StoreConsistent
    <3>2. QED BY <1>3, <1>7, <2>2, <3>1
  <2>3. CASE i \in (n + 1)..(n + size)
    <3>1. i - n \in 1..size /\ records'[i] = batch[i - n] /\ n + (i - n) = i
      BY <1>1, <1>3, <2>3
    <3>2. QED BY <1>7, <3>1
  <2>4. QED BY <1>1, <2>1, <2>2, <2>3
<1>9. \A id \in DOMAIN index' : /\ index'[id] \in 1..(n + size)
                                /\ records'[index'[id]].chunk_id = id
  <2>1. SUFFICES ASSUME NEW id \in DOMAIN index'
                 PROVE  /\ index'[id] \in 1..(n + size)
                        /\ records'[index'[id]].chunk_id = id
    OBVIOUS
  <2>2. CASE id \in DOMAIN index
    <3>1. index'[id] = index[id] /\ index[id] \in 1..n /\ records[index[id]].chunk_id = id
      BY <1>1, <1>7, <2>2 DEF StoreConsistent
    <3>2. QED BY <1>1, <1>3, <3>1
  <2>3. CASE id \in ids
    <3>1. PICK i \in 1..size : id = batch[i].chunk_id
      BY <2>3
    <3>2. index'[id] = n + i
      BY <1>7, <3>1
    <3>3. n + i \in (n + 1)..(n + size) /\ (n + i) - n = i /\ n + i \in 1..(n + size)
      BY <1>1
    <3>4. QED BY <1>3, <3>1, <3>2, <3>3
  <2>4. QED BY <1>7, <2>1, <2>2, <2>3
<1>10. \A i \in 1..size : /\ Width[batch[i].vector] = dimension'
                       /\ batch[i].model_name = model_name'
  <2>1. size \in 1..size
    BY <1>1
  <2>2. \A i \in 1..size : /\ Width[batch[i].vector] = Width[batch[1].vector]
                        /\ batch[i].model_name = batch[1].model_name
    BY <1>1, Uniform
  <2>3. QED BY <1>2, <2>1, <2>2
<1>11. n # 0 => dimension' = dimension /\ model_name' = model_name
  <2>1. SUFFICES ASSUME n # 0 PROVE dimension' = dimension /\ model_name' = model_name
    OBVIOUS
  <2>2. 1 \in 1..n /\ 1 \in 1..size /\ records[1] \in Record
    BY <1>1, <2>1
  <2>3. dimension = Width[records[1].vector] /\ model_name = records[1].model_name
    BY <1>1, <2>2 DEF StoreConsistent
  <2>4. dimension # None /\ model_name # None
    BY <2>2, <2>3, StoreAssumption DEF Record
  <2>5. Width[batch[1].vector] = dimension /\ batch[1].model_name = model_name
    BY <1>4, <2>4 DEF Meets
  <2>6. QED BY <1>10, <2>2, <2>5
<1>12. \A i \in 1..(n + size) : /\ records'[i].vector \notin Zero
                             /\ Width[records'[i].vector] = dimension'
                             /\ records'[i].model_name = model_name'
  <2>1. SUFFICES ASSUME NEW i \in 1..(n + size)
                 PROVE  /\ records'[i].vector \notin Zero
                        /\ Width[records'[i].vector] = dimension'
                        /\ records'[i].model_name = model_name'
    OBVIOUS
  <2>2. CASE i \in 1..n
    <3>1. n # 0 BY <1>1, <2>2
    <3>2. /\ records[i].vector \notin Zero /\ Width[records[i].vector] = dimension
          /\ records[i].model_name = model_name
      BY <1>1, <2>2 DEF StoreConsistent
    <3>3. QED BY <1>3, <1>11, <2>2, <3>1, <3>2
  <2>3. CASE i \in (n + 1)..(n + size)
    BY <1>3, <1>4, <1>10, <2>3
  <2>4. QED BY <1>1, <2>1, <2>2, <2>3
<1>13. records' # << >>
  BY <1>1, <1>3
<1>14. QED
  BY <1>2, <1>3, <1>6, <1>8, <1>9, <1>12, <1>13 DEF StoreConsistent
-----------------------------------------------------------------------------
(* An empty store is consistent.                                           *)
THEOREM ConsistentInit == StoreInit => StoreConsistent
BY DEF StoreInit, StoreConsistent

(* add.                                                                    *)
LEMMA AddKeeps ==
  ASSUME StoreConsistent, NEW r \in Offered, Add(r)
  PROVE  StoreConsistent'
<1>1. <<r>> \in Seq(Record) /\ Len(<<r>>) = 1 /\ <<r>>[1] = r /\ DOMAIN <<r>> = {1}
  BY OfferedAssumption
<1>2. Valid(r, dimension, model_name) /\ InsertAll(<<r>>) /\ Invalidate
  BY DEF Add
<1>3. ValidBatch(<<r>>)
  BY <1>1, <1>2 DEF ValidBatch
<1> DEFINE batch == <<r>>
<1>4. batch \in Seq(Record) /\ Len(batch) >= 1 /\ ValidBatch(batch) /\ InsertAll(batch)
  BY <1>1, <1>2, <1>3
<1> HIDE DEF batch
<1>5. QED BY <1>2, <1>4, InsertKeeps

(* add_many.                                                               *)
LEMMA AddManyKeeps ==
  ASSUME StoreConsistent, NEW batch \in Batch, AddMany(batch)
  PROVE  StoreConsistent'
BY BatchFacts, InsertKeeps DEF AddMany

(* A search or an inspection fills caches from the vectors there are.      *)
LEMMA CachesFilled ==
  ASSUME StoreConsistent, UNCHANGED contents,
         matrix' \in {matrix, Built(matrix)},
         norms' \in {norms, matrix'}, norms = None \/ norms' = norms
  PROVE  StoreConsistent'
<1>1. matrix \in {None, vectors} /\ norms \in {None, matrix}
  BY DEF StoreConsistent
<1>2. matrix' \in {None, vectors'}
  BY <1>1 DEF Built, contents
<1>3. norms' \in {None, matrix'}
  BY <1>1 DEF Built
<1>4. QED BY <1>2, <1>3 DEF StoreConsistent, contents

(* search.                                                                 *)
LEMMA SearchKeeps ==
  ASSUME StoreConsistent, NEW query, NEW top_k, NEW floor, Search(query, top_k, floor)
  PROVE  StoreConsistent'
<1>1. UNCHANGED contents
  BY DEF Search
<1>2. \/ UNCHANGED <<matrix, norms>>
      \/ /\ matrix' = Built(matrix)
         /\ norms' = IF norms = None THEN Built(matrix) ELSE norms
  BY DEF Search
<1>3. QED BY <1>1, <1>2, CachesFilled

(* Every call keeps the store consistent, one that is refused included.    *)
THEOREM ConsistentStep == StoreConsistent /\ [StoreNext]_store => StoreConsistent'
<1> SUFFICES ASSUME StoreConsistent, [StoreNext]_store PROVE StoreConsistent'
  OBVIOUS
<1>1. CASE \E r \in Offered : Add(r)
  BY <1>1, AddKeeps
<1>2. CASE \E batch \in Batch : AddMany(batch)
  BY <1>2, AddManyKeeps
<1>3. CASE Clear
  BY <1>3 DEF Clear, Emptied, Invalidate, StoreConsistent
<1>4. CASE Inspect
  BY <1>4, CachesFilled DEF Inspect
<1>5. CASE \E query \in Vectors, top_k \in 0..MaxTopK, floor \in Floors :
             Search(query, top_k, floor)
  BY <1>5, SearchKeeps
<1>6. CASE UNCHANGED store
  BY <1>6 DEF store, StoreConsistent
<1>7. QED BY <1>1, <1>2, <1>3, <1>4, <1>5, <1>6 DEF StoreNext

(* Records, vectors, ids, width, model and both caches agree after any     *)
(* sequence of calls, for any embedding and batches of any size.           *)
THEOREM StoreAlwaysConsistent == StoreSpec => []StoreConsistent
BY ConsistentInit, ConsistentStep, PTL DEF StoreSpec
-----------------------------------------------------------------------------
(* What search takes its ranks from: the records at or above the floor,    *)
(* in the order of similarity and then of id.                              *)
Above(row, floor) == {i \in DOMAIN row : row[i] >= floor}
NearerIn(row, floor) ==
  {p \in Above(row, floor) \X Above(row, floor) : Nearer(row, p[1], p[2])}

Scores(query) == [i \in DOMAIN records |-> Similarity[query, records[i].vector]]

(* The scores are those of the records, each with an id of its own.        *)
LEMMA ScoreFacts ==
  ASSUME StoreConsistent, NEW query \in Vectors
  PROVE  /\ DOMAIN records = 1..Len(records) /\ Len(records) \in Nat
         /\ Scores(query) \in [DOMAIN records -> Nat]
         /\ \A i \in DOMAIN records : records[i] \in Record /\ records[i].chunk_id \in Nat
         /\ \A i, j \in DOMAIN records :
              i # j => records[i].chunk_id # records[j].chunk_id
<1>1. records \in Seq(Record)
  BY DEF StoreConsistent
<1>2. DOMAIN records = 1..Len(records) /\ Len(records) \in Nat
  BY <1>1
<1>3. \A i \in DOMAIN records : records[i] \in Record
  BY <1>1, <1>2
<1>4. \A i \in DOMAIN records : records[i].chunk_id \in Nat /\ records[i].vector \in Vectors
  BY <1>3, StoreAssumption DEF Record
<1>5. \A i \in DOMAIN records : Similarity[query, records[i].vector] \in Nat
  BY <1>4, StoreAssumption
<1>6. \A i, j \in DOMAIN records : i # j => records[i].chunk_id # records[j].chunk_id
  BY DEF StoreConsistent
<1>7. QED BY <1>2, <1>3, <1>4, <1>5, <1>6 DEF Scores

(* No two records tie: their ids differ.                                   *)
LEMMA NearerOrders ==
  ASSUME StoreConsistent, NEW query \in Vectors, NEW floor \in Nat
  PROVE  LET row == Scores(query)
         IN /\ IsFiniteSet(Above(row, floor))
            /\ StrictOrder(Above(row, floor), NearerIn(row, floor))
<1> DEFINE row == Scores(query)
           T == Above(row, floor)
           R == NearerIn(row, floor)
<1>1. /\ DOMAIN records = 1..Len(records) /\ Len(records) \in Nat
      /\ row \in [DOMAIN records -> Nat]
      /\ \A i \in DOMAIN records : records[i].chunk_id \in Nat
      /\ \A i, j \in DOMAIN records :
              i # j => records[i].chunk_id # records[j].chunk_id
  BY ScoreFacts
<1>2. T \subseteq DOMAIN records
  BY <1>1 DEF Above
<1>3. IsFiniteSet(T)
  <2> HIDE DEF row, T, R
  <2>1. IsFiniteSet(1..Len(records))
    BY <1>1, FS_Interval
  <2>2. QED BY <1>1, <1>2, <2>1, FS_Subset
<1> HIDE DEF row
<1>4. \A i, j \in T : <<i, j>> \in R <=> Nearer(row, i, j)
  BY DEF NearerIn
<1> HIDE DEF R
<1>5. \A i \in T : row[i] \in Nat /\ records[i].chunk_id \in Nat
  BY <1>1, <1>2
<1> HIDE DEF T
<1>6. \A i \in T : ~ Nearer(row, i, i)
  BY <1>5 DEF Nearer
<1>7. \A i, j, l \in T : Nearer(row, i, j) /\ Nearer(row, j, l) => Nearer(row, i, l)
  BY <1>5 DEF Nearer
<1>8. \A i, j \in T : i # j => Nearer(row, i, j) \/ Nearer(row, j, i)
  BY <1>1, <1>2, <1>5 DEF Nearer
<1>9. StrictOrder(T, R)
  BY <1>4, <1>6, <1>7, <1>8 DEF StrictOrder
<1>10. QED BY <1>3, <1>9 DEF T, R, row

(* The rank of a result is its rank among all records above the floor.     *)
LEMMA ResultsFacts ==
  ASSUME StoreConsistent, NEW query \in Vectors, NEW floor \in Nat, NEW top_k \in Nat
  PROVE  LET row == Scores(query)
             T == Above(row, floor)
             rank == RankIn(T, NearerIn(row, floor))
         IN Results(row, top_k, floor)
              = {[record |-> records[i], similarity |-> row[i], rank |-> rank[i]] :
                   i \in {i \in T : rank[i] < top_k}}
<1> DEFINE row == Scores(query)
           T == Above(row, floor)
           rank == RankIn(T, NearerIn(row, floor))
           count(i) == Cardinality({j \in T : Nearer(row, j, i)})
<1>1. ASSUME NEW i \in T PROVE rank[i] = count(i)
  <2>1. {j \in T : <<j, i>> \in NearerIn(row, floor)} = {j \in T : Nearer(row, j, i)}
    BY DEF NearerIn
  <2>2. QED BY <2>1 DEF RankIn
<1>2. Results(row, top_k, floor)
        = {[record |-> records[i], similarity |-> row[i], rank |-> count(i)] :
              i \in {i \in T : count(i) < top_k}}
  BY DEF Results, Above
<1> HIDE DEF row, T, rank, count
<1>3. {i \in T : count(i) < top_k} = {i \in T : rank[i] < top_k}
  BY <1>1
<1>4. {[record |-> records[i], similarity |-> row[i], rank |-> count(i)] :
              i \in {i \in T : count(i) < top_k}}
       = {[record |-> records[i], similarity |-> row[i], rank |-> rank[i]] :
              i \in {i \in T : rank[i] < top_k}}
  BY <1>1, <1>3
<1>5. QED BY <1>2, <1>4 DEF row, T, rank

(* search on a store with records.                                         *)
LEMMA SearchTopK ==
  ASSUME StoreConsistent, NEW query \in Vectors, NEW floor \in Nat, NEW top_k \in 0..MaxTopK
  PROVE  TopK([query |-> query, top_k |-> top_k, floor |-> floor,
               results |-> Results(Scores(query), top_k, floor)], Stored)
<1> DEFINE row == Scores(query)
           T == Above(row, floor)
           R == NearerIn(row, floor)
           rank == RankIn(T, R)
           first == {i \in T : rank[i] < top_k}
           result(i) == [record |-> records[i], similarity |-> row[i], rank |-> rank[i]]
           results == {result(i) : i \in first}
           similarity(r) == Similarity[query, r.vector]
           before(r, s) == \/ similarity(r) > similarity(s)
                           \/ similarity(r) = similarity(s) /\ r.chunk_id < s.chunk_id
           all == Stored
           found == {x.record : x \in results}
           missed == {r \in all \ found : similarity(r) >= floor}
<1>0. top_k \in Nat /\ MaxTopK \in Nat /\ top_k <= MaxTopK
  BY StoreAssumption
<1>1. Results(Scores(query), top_k, floor) = results
  BY <1>0, ResultsFacts
<1>2. IsFiniteSet(T) /\ StrictOrder(T, R)
  BY NearerOrders
<1>3. /\ rank \in [T -> 0..(Cardinality(T) - 1)] /\ Cardinality(T) \in Nat
      /\ \A i, j \in T : <<i, j>> \in R => rank[i] < rank[j]
      /\ \A i, j \in T : rank[i] < rank[j] => <<i, j>> \in R
  BY <1>2, RankFacts
<1>4. /\ IsFiniteSet(first) /\ Cardinality(first) \in Nat
      /\ Cardinality(first) <= top_k
      /\ first # T => Cardinality(first) = top_k
      /\ {rank[i] : i \in first} = 0..(Cardinality(first) - 1)
  BY <1>0, <1>2, FirstRanks
<1>5. /\ row \in [DOMAIN records -> Nat]
      /\ \A i \in DOMAIN records : records[i].chunk_id \in Nat
      /\ \A i, j \in DOMAIN records :
              i # j => records[i].chunk_id # records[j].chunk_id
  BY ScoreFacts
<1>6. \A i \in DOMAIN records : row[i] = similarity(records[i])
  BY DEF Scores
<1>7. T = {i \in DOMAIN records : row[i] >= floor}
  BY <1>5 DEF Above
<1> HIDE DEF row, rank
<1>8. \A i, j \in T : <<i, j>> \in R <=> before(records[i], records[j])
  <2>1. \A i, j \in T : <<i, j>> \in R <=> Nearer(row, i, j)
    BY DEF NearerIn, row
  <2>2. \A i, j \in T : Nearer(row, i, j) <=> before(records[i], records[j])
    BY <1>6, <1>7 DEF Nearer
  <2>3. QED BY <2>1, <2>2
<1> HIDE DEF T, R
<1>9. found = {records[i] : i \in first}
  <2>1. \A i \in first : result(i).record = records[i]
    OBVIOUS
  <2> HIDE DEF first, result
  <2>2. QED BY <2>1
<1>10. Cardinality(found) = Cardinality(first)
  <2> DEFINE f == [i \in first |-> records[i]]
  <2>1. f \in [first -> found]
    BY <1>9
  <2>2. \A i, j \in first : i # j => f[i] # f[j]
    BY <1>5, <1>7
  <2>3. f \in Bijection(first, found)
    BY <1>9, <2>1, <2>2 DEF Bijection, Injection, Surjection, IsInjective
  <2>4. ExistsBijection(first, found)
    BY <2>3 DEF ExistsBijection
  <2> HIDE DEF first, found
  <2>5. QED BY <1>4, <2>4, FS_Bijection
<1>11. found \subseteq all
  BY <1>7, <1>9 DEF Stored
<1>12. ASSUME NEW x \in results
       PROVE  /\ x.similarity = similarity(x.record) /\ x.similarity >= floor
              /\ \A y \in results : before(x.record, y.record) => x.rank < y.rank
  <2>1. PICK i \in first : x = result(i)
    OBVIOUS
  <2>2. x.record = records[i] /\ x.similarity = row[i] /\ x.rank = rank[i]
    BY <2>1
  <2>3. x.similarity = similarity(x.record) /\ x.similarity >= floor
    BY <1>6, <1>7, <2>1, <2>2
  <2>4. ASSUME NEW y \in results, before(x.record, y.record) PROVE x.rank < y.rank
    <3>1. PICK j \in first : y = result(j)
      OBVIOUS
    <3>2. y.record = records[j] /\ y.rank = rank[j]
      BY <3>1
    <3>3. before(records[i], records[j])
      BY <2>2, <2>4, <3>2
    <3>4. <<i, j>> \in R
      BY <1>8, <3>3
    <3>5. QED BY <1>3, <2>2, <3>2, <3>4
  <2>5. QED BY <2>3, <2>4
<1>13. {x.rank : x \in results} = {n \in 0..MaxTopK : n < Cardinality(found)}
  <2>1. \A i \in first : result(i).rank = rank[i]
    OBVIOUS
  <2> HIDE DEF first, result, found
  <2>2. {x.rank : x \in results} = {rank[i] : i \in first}
    BY <2>1
  <2>3. QED BY <1>0, <1>4, <1>10, <2>2
<1>14. Cardinality(found) <= top_k
  BY <1>4, <1>10
<1>a. ASSUME NEW i \in first, NEW j \in T, j \notin first PROVE rank[i] < rank[j]
  <2>1. rank[i] \in Int /\ rank[j] \in Int
    BY <1>3
  <2>2. rank[i] < top_k /\ ~ (rank[j] < top_k)
    BY <1>a
  <2> HIDE DEF first, results, missed
  <2>3. QED BY <1>0, <2>1, <2>2
<1>15. ASSUME NEW s \in missed
       PROVE  Cardinality(found) = top_k /\ \A r \in found : before(r, s)
  <2>1. PICK j \in DOMAIN records : s = records[j] /\ similarity(records[j]) >= floor
    BY DEF Stored
  <2>2. j \in T
    BY <1>6, <1>7, <2>1
  <2>3. j \notin first
    BY <1>9, <1>15, <2>1
  <2>4. Cardinality(found) = top_k
    BY <1>4, <1>10, <2>2, <2>3
  <2>5. ASSUME NEW r \in found PROVE before(r, s)
    <3>1. PICK i \in first : r = records[i]
      BY <1>9
    <3>2. rank[i] < rank[j]
      BY <1>a, <2>2, <2>3
    <3>3. <<i, j>> \in R
      BY <1>3, <2>2, <3>2
    <3>4. before(records[i], records[j])
      BY <1>8, <2>2, <3>3
    <3>5. QED BY <2>1, <3>1, <3>4
  <2>6. QED BY <2>4, <2>5
<1> DEFINE a == [query |-> query, top_k |-> top_k, floor |-> floor, results |-> results]
<1>16. a.query = query /\ a.top_k = top_k /\ a.floor = floor /\ a.results = results
  OBVIOUS
<1>17. TopK(a, all)
  <2> HIDE DEF a, results
  <2>1. QED BY <1>11, <1>12, <1>13, <1>14, <1>15, <1>16 DEF TopK
<1>18. QED BY <1>1, <1>17

(* search that finds nothing to row, or is asked for nothing.            *)
LEMMA EmptyTopK ==
  ASSUME NEW query \in Vectors, NEW floor \in Nat, NEW top_k \in 0..MaxTopK,
         records = << >> \/ top_k = 0
  PROVE  TopK([query |-> query, top_k |-> top_k, floor |-> floor, results |-> {}], Stored)
<1> DEFINE a == [query |-> query, top_k |-> top_k, floor |-> floor, results |-> {}]
<1>1. a.query = query /\ a.top_k = top_k /\ a.floor = floor /\ a.results = {}
  OBVIOUS
<1> HIDE DEF a
<1>2. {x.record : x \in a.results} = {} /\ {x.rank : x \in a.results} = {}
  BY <1>1
<1>3. Cardinality({}) = 0
  BY FS_EmptySet
<1>4. records = << >> => Stored = {}
  BY DEF Stored
<1>5. {n \in 0..MaxTopK : n < 0} = {} /\ top_k >= 0
  BY StoreAssumption
<1>6. TopK(a, Stored)
  BY <1>1, <1>2, <1>3, <1>4, <1>5 DEF TopK
<1>7. QED BY <1>6 DEF a

(* Every call leaves a right answer, or none.                              *)
LEMMA AnswerStep ==
  ASSUME StoreConsistent, AnswerIsTopK, [StoreNext]_store
  PROVE  AnswerIsTopK'
<1>1. CASE UNCHANGED <<records, answer>>
  <2>1. Stored' = Stored
    BY <1>1 DEF Stored
  <2>2. QED BY <1>1, <2>1 DEF AnswerIsTopK
<1>2. CASE answer' = None
  BY <1>2 DEF AnswerIsTopK
<1>3. ASSUME NEW query \in Vectors, NEW top_k \in 0..MaxTopK, NEW floor \in Floors,
             Search(query, top_k, floor)
      PROVE  AnswerIsTopK'
  <2> DEFINE a(r) == [query |-> query, top_k |-> top_k, floor |-> floor, results |-> r]
  <2>1. floor \in Nat
    BY StoreAssumption DEF Floors
  <2>2. Stored' = Stored
    BY <1>3 DEF Search, contents, Stored
  <2>3. TopK(answer', Stored)
    <3>1. CASE records = << >> \/ top_k = 0
      BY <1>3, <2>1, <3>1, EmptyTopK DEF Search
    <3>2. CASE records # << >> /\ top_k # 0
      <4> DEFINE rows == Built(matrix)
                 row == [i \in DOMAIN rows |-> Similarity[query, rows[i]]]
      <4>1. answer' = a(Results(row, top_k, floor))
        BY <1>3, <3>2 DEF Search
      <4>2. rows = [i \in DOMAIN records |-> records[i].vector]
        BY DEF Built, StoreConsistent
      <4>3. row = Scores(query)
        BY <4>2 DEF Scores
      <4>4. QED BY <2>1, <4>1, <4>3, SearchTopK
    <3>3. QED BY <3>1, <3>2
  <2>4. QED BY <2>2, <2>3 DEF AnswerIsTopK
<1>4. QED BY <1>1, <1>2, <1>3 DEF StoreNext, store, Add, AddMany, Clear, Invalidate, Inspect, contents

(* search returns the best there are, ranked without a gap, for any store, *)
(* similarity and limit, and its last answer holds until the store changes.*)
THEOREM SearchIsTopK == StoreSpec => []AnswerIsTopK
<1>1. StoreInit => AnswerIsTopK
  BY DEF StoreInit, AnswerIsTopK
<1>2. QED BY <1>1, ConsistentInit, ConsistentStep, AnswerStep, PTL DEF StoreSpec
-----------------------------------------------------------------------------
(* The faces of a text, by the characters gone through.                    *)
FacesIn(t) ==
  CHOOSE f : f = [n \in 0..Len(t) |->
                    IF n = 0 THEN << >>
                    ELSE IF t[n] \in White THEN f[n - 1] ELSE Append(f[n - 1], t[n])]

(* The recursion of Faces is well founded and does what it says.           *)
LEMMA FacesGrow ==
  ASSUME NEW A, NEW t \in Seq(A)
  PROVE  /\ Faces(t) = FacesIn(t)[Len(t)]
         /\ FacesIn(t)[0] = << >>
         /\ \A n \in 1..Len(t) :
              FacesIn(t)[n] = IF t[n] \in White THEN FacesIn(t)[n - 1]
                              ELSE Append(FacesIn(t)[n - 1], t[n])
         /\ \A n \in 0..Len(t) : FacesIn(t)[n] \in Seq(A)
<1> DEFINE N == Len(t)
           V == Seq(A)
           step == [p \in (1..N) \X V |-> IF t[p[1]] \in White THEN p[2] ELSE Append(p[2], t[p[1]])]
           L(f) == f = [n \in 0..N |->
                          IF n = 0 THEN << >>
                          ELSE IF t[n] \in White THEN f[n - 1] ELSE Append(f[n - 1], t[n])]
<1>1. N \in Nat /\ \A n \in 1..N : t[n] \in A
  BY LenProperties, ElementOfSeq
<1>2. << >> \in V
  OBVIOUS
<1>3. step \in [(1..N) \X V -> V]
  <2>1. ASSUME NEW p \in (1..N) \X V PROVE Append(p[2], t[p[1]]) \in V /\ p[2] \in V
    <3>1. p[1] \in 1..N /\ p[2] \in Seq(A)
      OBVIOUS
    <3>2. t[p[1]] \in A
      BY <1>1, <3>1
    <3>3. QED BY <3>1, <3>2, AppendProperties
  <2> HIDE DEF V
  <2>2. QED BY <2>1
<1>4. \E f : L(f)
  <2>1. PICK f \in [0..N -> V] :
          f[0] = << >> /\ \A k \in 1..N : f[k] = step[<<k, f[k - 1]>>]
    <3>1. Stepwise(N, V, << >>, step)
      BY <1>1, <1>2, <1>3 DEF Stepwise
    <3> HIDE DEF N, V, step
    <3>2. \E f \in [0..N -> V] : Steps(N, << >>, step, f)
      BY <3>1, StepsExist
    <3>3. QED BY <3>2 DEF Steps
  <2>2. ASSUME NEW k \in 0..N, k # 0
        PROVE  f[k] = IF t[k] \in White THEN f[k - 1] ELSE Append(f[k - 1], t[k])
    <3>1. k \in 1..N /\ k - 1 \in 0..N
      BY <1>1, <2>2
    <3>2. <<k, f[k - 1]>> \in (1..N) \X V
      BY <3>1, <2>1
    <3>3. QED BY <2>1, <3>1, <3>2
  <2>3. f = [n \in 0..N |-> f[n]]
    OBVIOUS
  <2> HIDE DEF N, V
  <2>4. L(f)
    BY <2>1, <2>2, <2>3
  <2>5. QED BY <2>4
<1>5. L(FacesIn(t))
  <2>1. FacesIn(t) = CHOOSE f : L(f)
    BY DEF FacesIn
  <2> HIDE DEF L
  <2>2. QED BY <1>4, <2>1
<1>6. /\ FacesIn(t)[0] = << >>
      /\ \A n \in 1..N : FacesIn(t)[n] = IF t[n] \in White THEN FacesIn(t)[n - 1]
                                         ELSE Append(FacesIn(t)[n - 1], t[n])
  <2>1. 0 \in 0..N /\ \A n \in 1..N : n \in 0..N /\ n # 0
    BY <1>1
  <2> DEFINE g == FacesIn(t)
  <2>2. L(g)
    BY <1>5
  <2> HIDE DEF g, N
  <2>3. \A n \in 0..N : g[n] = IF n = 0 THEN << >>
                               ELSE IF t[n] \in White THEN g[n - 1] ELSE Append(g[n - 1], t[n])
    BY <2>2
  <2>4. g[0] = << >> /\ \A n \in 1..N : g[n] = IF t[n] \in White THEN g[n - 1]
                                               ELSE Append(g[n - 1], t[n])
    BY <2>1, <2>3
  <2>5. QED BY <2>4 DEF g
<1>7. \A n \in 0..N : FacesIn(t)[n] \in V
  <2> DEFINE P == {n \in 0..N : FacesIn(t)[n] \in V}
  <2>1. 0 \in P
    <3>1. 0 \in 0..N
      BY <1>1
    <3>2. FacesIn(t)[0] \in V
      <4> HIDE DEF V
      <4>1. QED BY <1>2, <1>6, Zenon
    <3>3. QED BY <3>1, <3>2
  <2>2. ASSUME NEW n \in Nat, n < N, n \in P PROVE n + 1 \in P
    <3>1. n + 1 \in 1..N /\ (n + 1) - 1 = n /\ n + 1 \in 0..N
      BY <1>1, <2>2
    <3>2. FacesIn(t)[n] \in Seq(A) /\ t[n + 1] \in A
      BY <1>1, <2>2, <3>1
    <3>3. Append(FacesIn(t)[n], t[n + 1]) \in Seq(A)
      BY <3>2, AppendProperties
    <3>4. FacesIn(t)[n + 1] = IF t[n + 1] \in White THEN FacesIn(t)[n]
                              ELSE Append(FacesIn(t)[n], t[n + 1])
      BY <1>6, <3>1
    <3>5. FacesIn(t)[n + 1] \in Seq(A)
      BY <3>2, <3>3, <3>4
    <3>6. QED BY <3>1, <3>5
  <2> HIDE DEF P
  <2>3. \A n \in 0..N : n \in P
    BY <1>1, <2>1, <2>2, Climb
  <2>4. QED BY <2>3 DEF P
<1>8. Faces(t) = FacesIn(t)[N]
  BY DEF Faces, FacesIn
<1>9. QED BY <1>6, <1>7, <1>8
-----------------------------------------------------------------------------
(* Min and Max are the least and the greatest.                             *)
LEMMA LeastFacts ==
  ASSUME NEW S, S \subseteq Nat, S # {}
  PROVE  Min(S) \in S /\ \A y \in S : Min(S) <= y
<1>1. \E x \in S : \A y \in S : x <= y
  BY LeastNatural
<1>2. QED BY <1>1 DEF Min

(* The same of Max.                                                        *)
LEMMA GreatestFacts ==
  ASSUME NEW N \in Nat, NEW S, S \subseteq 0..N, S # {}
  PROVE  Max(S) \in S /\ \A y \in S : y <= Max(S)
<1> DEFINE T == {n \in Nat : \E x \in S : n = N - x}
<1>1. T \subseteq Nat /\ T # {}
  <2>1. PICK x \in S : TRUE
    OBVIOUS
  <2>2. x \in 0..N /\ N - x \in Nat
    BY <2>1
  <2>3. N - x \in T
    BY <2>2
  <2>4. QED BY <2>3
<1>2. PICK n \in T : \A y \in T : n <= y
  <2> HIDE DEF T
  <2>1. QED BY <1>1, LeastNatural
<1>3. PICK x \in S : n = N - x
  BY <1>2
<1>4. ASSUME NEW y \in S PROVE y <= x
  <2>1. y \in 0..N /\ x \in 0..N
    BY <1>3
  <2>2. N - y \in T
    BY <2>1
  <2>3. n <= N - y
    BY <1>2, <2>2
  <2>4. QED BY <1>3, <2>1, <2>3
<1>5. \A y \in S : y \in Int
  OBVIOUS
<1>6. \E z \in S : \A y \in S : z >= y
  BY <1>3, <1>4, <1>5
<1>7. Max(S) \in S /\ \A y \in S : Max(S) >= y
  BY <1>6 DEF Max
<1>8. QED BY <1>5, <1>7

(* The faces of a text are characters of it.                               *)
LEMMA FacesAreText ==
  ASSUME NEW A, NEW t \in Seq(A)
  PROVE  Faces(t) \in Seq(A)
<1>1. Len(t) \in 0..Len(t)
  BY LenProperties
<1>2. QED BY <1>1, FacesGrow

(* Text by text.                                                           *)
LEMMA FacesConcat ==
  ASSUME NEW A, NEW s \in Seq(A), NEW t \in Seq(A)
  PROVE  Faces(s \o t) = Faces(s) \o Faces(t)
<1> DEFINE u == s \o t
           f == FacesIn(u)  g == FacesIn(s)  h == FacesIn(t)
           m == Len(s)  n == Len(t)
<1>1. /\ u \in Seq(A) /\ Len(u) = m + n /\ m \in Nat /\ n \in Nat
      /\ \A i \in 1..(m + n) : u[i] = IF i <= m THEN s[i] ELSE t[i - m]
  BY ConcatProperties, LenProperties
<1>2. /\ Faces(u) = f[m + n] /\ f[0] = << >>
      /\ \A i \in 1..(m + n) : f[i] = IF u[i] \in White THEN f[i - 1] ELSE Append(f[i - 1], u[i])
  BY <1>1, FacesGrow
<1>3. /\ Faces(s) = g[m] /\ g[0] = << >>
      /\ \A i \in 1..m : g[i] = IF s[i] \in White THEN g[i - 1] ELSE Append(g[i - 1], s[i])
      /\ \A i \in 0..m : g[i] \in Seq(A)
  BY FacesGrow
<1>4. /\ Faces(t) = h[n] /\ h[0] = << >>
      /\ \A i \in 1..n : h[i] = IF t[i] \in White THEN h[i - 1] ELSE Append(h[i - 1], t[i])
      /\ \A i \in 0..n : h[i] \in Seq(A)
  BY FacesGrow
<1> HIDE DEF u, f, g, h, m, n
<1>5. \A i \in 0..m : f[i] = g[i]
  <2> DEFINE P == {i \in Nat : f[i] = g[i]}
  <2>1. 0 \in P
    BY <1>2, <1>3
  <2>2. ASSUME NEW i \in Nat, i < m, i \in P PROVE i + 1 \in P
    <3>1. i + 1 \in 1..(m + n) /\ i + 1 \in 1..m /\ (i + 1) - 1 = i /\ i + 1 <= m
      BY <1>1, <2>2
    <3>2. u[i + 1] = s[i + 1]
      BY <1>1, <3>1
    <3>3. f[i + 1] = IF u[i + 1] \in White THEN f[i] ELSE Append(f[i], u[i + 1])
      BY <1>2, <3>1
    <3>4. g[i + 1] = IF s[i + 1] \in White THEN g[i] ELSE Append(g[i], s[i + 1])
      BY <1>3, <3>1
    <3>5. f[i + 1] = g[i + 1]
      BY <2>2, <3>2, <3>3, <3>4
    <3>6. QED BY <3>5
  <2> HIDE DEF P
  <2>3. \A i \in 0..m : i \in P
    BY <1>1, <2>1, <2>2, Climb
  <2>4. QED BY <2>3 DEF P
<1>6. \A i \in 0..n : f[m + i] = g[m] \o h[i]
  <2> DEFINE P == {i \in Nat : f[m + i] = g[m] \o h[i]}
  <2>1. g[m] \in Seq(A) /\ m \in 0..m /\ m + 0 = m
    BY <1>1, <1>3
  <2>2. 0 \in P
    <3>1. g[m] \o << >> = g[m]
      BY <2>1, ConcatEmptySeq
    <3>2. f[m] = g[m]
      BY <1>5, <2>1
    <3>3. f[m + 0] = g[m] \o h[0]
      BY <1>4, <2>1, <3>1, <3>2
    <3>4. QED BY <3>3
  <2>3. ASSUME NEW i \in Nat, i < n, i \in P PROVE i + 1 \in P
    <3>1. /\ m + (i + 1) \in 1..(m + n) /\ i + 1 \in 1..n /\ (i + 1) - 1 = i /\ i \in 0..n
          /\ (m + (i + 1)) - 1 = m + i /\ ~(m + (i + 1) <= m) /\ (m + (i + 1)) - m = i + 1
      <4>1. m \in Nat /\ n \in Nat /\ i \in Nat /\ i < n
        BY <1>1, <2>3
      <4> HIDE DEF P, m, n
      <4>2. QED BY <4>1
    <3>2. u[m + (i + 1)] = t[i + 1]
      BY <1>1, <3>1
    <3>3. f[m + (i + 1)] = IF u[m + (i + 1)] \in White THEN f[m + i]
                           ELSE Append(f[m + i], u[m + (i + 1)])
      BY <1>2, <3>1
    <3>4. h[i + 1] = IF t[i + 1] \in White THEN h[i] ELSE Append(h[i], t[i + 1])
      BY <1>4, <3>1
    <3>5. t[i + 1] \in A /\ h[i] \in Seq(A)
      BY <1>4, <3>1, ElementOfSeq DEF n
    <3>6. (g[m] \o h[i]) \o <<t[i + 1]>> = g[m] \o (h[i] \o <<t[i + 1]>>)
      <4> DEFINE a == g[m]  b == h[i]  c == <<t[i + 1]>>
      <4>1. a \in Seq(A) /\ b \in Seq(A) /\ c \in Seq(A)
        BY <2>1, <3>5
      <4> HIDE DEF a, b, c
      <4>2. (a \o b) \o c = a \o (b \o c)
        BY <4>1, ConcatAssociative, SMTT(30)
      <4>3. QED BY <4>2 DEF a, b, c
    <3>7. /\ Append(h[i], t[i + 1]) = h[i] \o <<t[i + 1]>>
          /\ Append(g[m] \o h[i], t[i + 1]) = (g[m] \o h[i]) \o <<t[i + 1]>>
      <4>1. g[m] \o h[i] \in Seq(A)
        BY <2>1, <3>5, ConcatProperties
      <4>2. Append(g[m] \o h[i], t[i + 1]) = (g[m] \o h[i]) \o <<t[i + 1]>>
        BY <3>5, <4>1, AppendIsConcat
      <4>3. Append(h[i], t[i + 1]) = h[i] \o <<t[i + 1]>>
        BY <3>5, AppendIsConcat
      <4>4. QED BY <4>2, <4>3
    <3>8. f[m + i] = g[m] \o h[i]
      BY <2>3
    <3>9. f[m + (i + 1)] = g[m] \o h[i + 1]
      BY <3>2, <3>3, <3>4, <3>6, <3>7, <3>8
    <3>10. i + 1 \in Nat
      BY <2>3
    <3>11. QED BY <3>9, <3>10
  <2> HIDE DEF P
  <2>4. \A i \in 0..n : i \in P
    BY <1>1, <2>2, <2>3, Climb
  <2>5. QED BY <2>4 DEF P
<1>7. n \in 0..n
  BY <1>1
<1>8. f[m + n] = g[m] \o h[n]
  BY <1>6, <1>7
<1>9. QED BY <1>2, <1>3, <1>4, <1>8 DEF u

(* White space has no faces.                                               *)
LEMMA FacesOfBlank ==
  ASSUME NEW A, NEW t \in Seq(A), \A k \in 1..Len(t) : t[k] \in White
  PROVE  Faces(t) = << >>
<1> DEFINE f == FacesIn(t)  n == Len(t)
           P == {i \in Nat : f[i] = << >>}
<1>1. n \in Nat /\ n \in 0..n
  BY LenProperties
<1>2. /\ Faces(t) = f[n] /\ f[0] = << >>
      /\ \A i \in 1..n : f[i] = f[i - 1]
  BY FacesGrow
<1>3. 0 \in P
  BY <1>2
<1>4. ASSUME NEW i \in Nat, i < n, i \in P PROVE i + 1 \in P
  <2> HIDE DEF f, n
  <2>1. i + 1 \in 1..n /\ (i + 1) - 1 = i
    BY <1>1, <1>4
  <2>2. f[i + 1] = f[(i + 1) - 1]
    BY <1>2, <2>1
  <2>3. QED BY <1>4, <2>1, <2>2
<1> HIDE DEF P
<1>5. \A i \in 0..n : i \in P
  BY <1>1, <1>3, <1>4, Climb
<1>6. QED BY <1>1, <1>2, <1>5 DEF P
-----------------------------------------------------------------------------
(* Slices.                                                                 *)
LEMMA SliceFacts ==
  ASSUME NEW A, NEW t \in Seq(A), NEW to \in 0..Len(t), NEW from \in 0..to
  PROVE  /\ Slice(t, from, to) \in Seq(A)
         /\ Len(Slice(t, from, to)) = to - from
         /\ \A i \in 1..(to - from) : Slice(t, from, to)[i] = t[from + i]
<1>1. Len(t) \in Nat /\ \A i \in 1..Len(t) : t[i] \in A
  BY LenProperties, ElementOfSeq
<1>2. from + 1 \in Int /\ to \in Int /\ \A i \in (from + 1)..to : t[i] \in A
  BY <1>1
<1>3. /\ SubSeq(t, from + 1, to) \in Seq(A)
      /\ Len(SubSeq(t, from + 1, to)) = IF from + 1 <= to THEN to - (from + 1) + 1 ELSE 0
      /\ \A i \in 1..(to - (from + 1) + 1) : SubSeq(t, from + 1, to)[i] = t[(from + 1) + i - 1]
  BY <1>2, SubSeqProperties
<1>4. /\ (IF from + 1 <= to THEN to - (from + 1) + 1 ELSE 0) = to - from
      /\ to - (from + 1) + 1 = to - from
      /\ \A i \in 1..(to - from) : (from + 1) + i - 1 = from + i
  BY <1>1
<1>5. QED BY <1>3, <1>4 DEF Slice

(* Two slices that meet are one.                                           *)
LEMMA SliceJoins ==
  ASSUME NEW A, NEW t \in Seq(A),
         NEW to \in 0..Len(t), NEW mid \in 0..to, NEW from \in 0..mid
  PROVE  Slice(t, from, to) = Slice(t, from, mid) \o Slice(t, mid, to)
<1>1. Len(t) \in Nat
  BY LenProperties
<1>2. from + 1 \in 1..(Len(t) + 1) /\ mid \in ((from + 1) - 1)..Len(t) /\ to \in mid..Len(t)
  BY <1>1
<1>3. SubSeq(t, from + 1, mid) \o SubSeq(t, mid + 1, to) = SubSeq(t, from + 1, to)
  BY <1>2, ConcatAdjacentSubSeq
<1>4. QED BY <1>3 DEF Slice

(* So are their faces.                                                     *)
LEMMA FacesOfSlices ==
  ASSUME NEW A, NEW t \in Seq(A),
         NEW to \in 0..Len(t), NEW mid \in 0..to, NEW from \in 0..mid
  PROVE  Faces(Slice(t, from, to)) = Faces(Slice(t, from, mid)) \o Faces(Slice(t, mid, to))
<1>1. mid \in 0..Len(t) /\ from \in 0..to
  BY LenProperties
<1>2. Slice(t, from, mid) \in Seq(A) /\ Slice(t, mid, to) \in Seq(A)
  BY <1>1, SliceFacts
<1>3. QED BY <1>2, SliceJoins, FacesConcat

(* A slice of white space has no faces.                                    *)
LEMMA BlankSlice ==
  ASSUME NEW A, NEW t \in Seq(A), NEW to \in 0..Len(t), NEW from \in 0..to,
         \A k \in (from + 1)..to : t[k] \in White
  PROVE  Faces(Slice(t, from, to)) = << >>
<1> DEFINE s == Slice(t, from, to)
<1>1. s \in Seq(A) /\ Len(s) = to - from /\ \A i \in 1..(to - from) : s[i] = t[from + i]
  BY SliceFacts
<1> HIDE DEF s
<1>2. ASSUME NEW i \in 1..Len(s) PROVE s[i] \in White
  <2>1. i \in 1..(to - from) /\ from + i \in (from + 1)..to
    BY <1>1
  <2>2. QED BY <1>1, <2>1
<1>3. Faces(s) = << >>
  BY <1>1, <1>2, FacesOfBlank
<1>4. QED BY <1>3 DEF s

(* What strip keeps of a slice.                                            *)
LEMMA StrippedFacts ==
  ASSUME NEW A, NEW t \in Seq(A), NEW to \in 0..Len(t), NEW from \in 0..to
  PROVE  LET s == Stripped(t, from, to)
         IN /\ s \in Seq(A)
            /\ Len(s) <= to - from
            /\ Faces(s) = Faces(Slice(t, from, to))
            /\ s # << >> => s[1] \notin White /\ s[Len(s)] \notin White
            /\ (to = Len(t) /\ (to > 0 => t[to] \notin White)) =>
                 \E m \in from..to : s = Slice(t, m, to)
            /\ (\E k \in (from + 1)..to : t[k] \notin White) => s # << >>
<1> DEFINE s == Stripped(t, from, to)
           solid == {k \in (from + 1)..to : t[k] \notin White}
<1>1. Len(t) \in Nat /\ to \in Nat /\ from \in Nat /\ from <= to /\ to <= Len(t)
  BY LenProperties
<1>2. CASE solid = {}
  <2>1. s = << >>
    BY <1>2 DEF Stripped
  <2>2. Faces(Slice(t, from, to)) = << >>
    <3>1. \A k \in (from + 1)..to : t[k] \in White
      BY <1>2
    <3>2. QED BY <3>1, BlankSlice
  <2>3. << >> \in Seq(A) /\ Len(<< >>) = 0
    OBVIOUS
  <2>4. Faces(<< >>) = << >>
    <3> DEFINE none == << >>
    <3>1. none \in Seq(A) /\ \A k \in 1..Len(none) : none[k] \in White
      BY <2>3
    <3> HIDE DEF none
    <3>2. Faces(none) = << >>
      BY <3>1, FacesOfBlank
    <3>3. QED BY <3>2 DEF none
  <2>5. (to = Len(t) /\ (to > 0 => t[to] \notin White)) => \E m \in from..to : s = Slice(t, m, to)
    <3>1. SUFFICES ASSUME to = Len(t), to > 0 => t[to] \notin White
                   PROVE  \E m \in from..to : s = Slice(t, m, to)
      OBVIOUS
    <3>2. from = to
      BY <1>1, <1>2, <3>1
    <3>3. SubSeq(t, to + 1, to) = << >>
      BY <1>1, SubSeqEmpty
    <3>4. to \in from..to
      BY <1>1
    <3>5. QED BY <2>1, <3>3, <3>4 DEF Slice
  <2> HIDE DEF s
  <2>6. 0 <= to - from /\ ~ \E k \in (from + 1)..to : t[k] \notin White
    BY <1>1, <1>2
  <2>7. QED BY <2>1, <2>2, <2>3, <2>4, <2>5, <2>6 DEF s
<1>3. CASE solid # {}
  <2> DEFINE a == Min(solid)  b == Max(solid)
  <2>1. solid \subseteq Nat /\ solid \subseteq 0..to
    BY <1>1
  <2>2. a \in solid /\ \A k \in solid : a <= k
    <3> HIDE DEF solid
    <3>1. QED BY <1>3, <2>1, LeastFacts
  <2>3. b \in solid /\ \A k \in solid : k <= b
    <3> HIDE DEF solid
    <3>1. QED BY <1>1, <1>3, <2>1, GreatestFacts
  <2> HIDE DEF a, b
  <2>4. /\ a \in (from + 1)..to /\ b \in a..to /\ t[a] \notin White /\ t[b] \notin White
        /\ \A k \in (from + 1)..(a - 1) : t[k] \in White
        /\ \A k \in (b + 1)..to : t[k] \in White
    <3>1. a \in (from + 1)..to /\ b \in (from + 1)..to /\ a <= b
          /\ t[a] \notin White /\ t[b] \notin White
      BY <2>2, <2>3
    <3>2. ASSUME NEW k \in (from + 1)..(a - 1) PROVE t[k] \in White
      <4>1. k \in (from + 1)..to /\ ~(a <= k)
        BY <1>1, <3>1
      <4>2. QED BY <2>2, <4>1
    <3>3. ASSUME NEW k \in (b + 1)..to PROVE t[k] \in White
      <4>1. k \in (from + 1)..to /\ ~(k <= b)
        BY <1>1, <3>1
      <4>2. QED BY <2>3, <4>1
    <3>4. QED BY <3>1, <3>2, <3>3
  <2> HIDE DEF solid
  <2>5. s = Slice(t, a - 1, b)
    <3>1. s = SubSeq(t, a, b)
      BY <1>3 DEF Stripped, solid, a, b
    <3>2. (a - 1) + 1 = a
      BY <2>4
    <3>3. QED BY <3>1, <3>2 DEF Slice
  <2>6. /\ a - 1 \in from..to /\ a - 1 \in 0..b /\ b \in 0..Len(t) /\ b \in 0..to
        /\ a - 1 \in 0..to /\ a - 1 \in 0..Len(t) /\ from \in 0..(a - 1)
    BY <1>1, <2>4
  <2>7. /\ s \in Seq(A) /\ Len(s) = b - (a - 1)
        /\ \A i \in 1..(b - (a - 1)) : s[i] = t[(a - 1) + i]
    <3> DEFINE c == a - 1
    <3>1. b \in 0..Len(t) /\ c \in 0..b
      BY <2>6
    <3> HIDE DEF a, b, c
    <3>2. /\ Slice(t, c, b) \in Seq(A) /\ Len(Slice(t, c, b)) = b - c
          /\ \A i \in 1..(b - c) : Slice(t, c, b)[i] = t[c + i]
      BY <3>1, SliceFacts
    <3>3. QED BY <2>5, <3>2 DEF c
  <2> HIDE DEF s
  <2>8. s[1] = t[a] /\ s[Len(s)] = t[b] /\ s # << >> /\ Len(s) <= to - from
    <3>1. /\ 1 \in 1..(b - (a - 1)) /\ (a - 1) + 1 = a
          /\ b - (a - 1) \in 1..(b - (a - 1)) /\ (a - 1) + (b - (a - 1)) = b
          /\ b - (a - 1) <= to - from /\ b - (a - 1) # 0
      BY <1>1, <2>4
    <3>2. QED BY <2>7, <3>1, EmptySeq
  <2>9. Faces(s) = Faces(Slice(t, from, to))
    <3>1. Faces(Slice(t, from, to)) = Faces(Slice(t, from, a - 1)) \o Faces(Slice(t, a - 1, to))
      BY <2>6, FacesOfSlices
    <3>2. Faces(Slice(t, a - 1, to)) = Faces(Slice(t, a - 1, b)) \o Faces(Slice(t, b, to))
      BY <2>6, FacesOfSlices
    <3>3. Faces(Slice(t, from, a - 1)) = << >>
      BY <2>4, <2>6, BlankSlice
    <3>4. Faces(Slice(t, b, to)) = << >>
      BY <2>4, <2>6, BlankSlice
    <3>5. Faces(s) \in Seq(A)
      BY <2>7, FacesAreText
    <3>6. Faces(s) \o << >> = Faces(s) /\ << >> \o Faces(s) = Faces(s)
      BY <3>5, ConcatEmptySeq
    <3>7. QED BY <2>5, <3>1, <3>2, <3>3, <3>4, <3>6
  <2>10. (to = Len(t) /\ (to > 0 => t[to] \notin White)) => \E m \in from..to : s = Slice(t, m, to)
    <3>1. SUFFICES ASSUME to = Len(t), to > 0 => t[to] \notin White PROVE b = to
      BY <2>5, <2>6
    <3>2. to > 0
      BY <1>1, <2>4
    <3>3. ~(to \in (b + 1)..to)
      BY <2>4, <3>1, <3>2
    <3>4. QED BY <1>1, <2>4, <3>3
  <2>11. QED BY <2>4, <2>7, <2>8, <2>9, <2>10 DEF s
<1>4. QED BY <1>2, <1>3
-----------------------------------------------------------------------------
(* Every cut makes progress and stays within the limit.                    *)
LEMMA CutFacts ==
  ASSUME NEW A, NEW t \in Seq(A), NEW begin \in Nat, NEW limit \in 1..Len(t), begin < limit
  PROVE  CutAt(t, begin, limit) \in (begin + 1)..limit
<1> DEFINE boundaries == Boundaries(t)
           Within(from) == [r \in 1..3 |-> {o \in boundaries[r] : from <= o /\ o <= limit /\ o < Len(t)}]
           Strongest(w) == {Max(w[r]) : r \in {r \in 1..3 : w[r] # {} /\ \A q \in 1..(r - 1) : w[q] = {}}}
           far == Max({begin + 1, begin + MinFill})
           filled == Strongest(Within(far))
<1>1. Len(t) \in Nat /\ DOMAIN t = 1..Len(t) /\ limit \in Nat /\ MinFill \in Nat
  BY LenProperties, ChunkAssumption
<1>2. \A r \in 1..3 : boundaries[r] \subseteq Nat
  <2>1. ParagraphBreaks(t) \subseteq Nat
    BY <1>1 DEF ParagraphBreaks
  <2>2. ListItemStarts(t) \subseteq Nat
    BY <1>1 DEF ListItemStarts
  <2>3. SentenceEnds(t) \subseteq Nat
    BY <1>1 DEF SentenceEnds
  <2>4. boundaries = <<ParagraphBreaks(t), ListItemStarts(t) \ ParagraphBreaks(t),
                       SentenceEnds(t) \ (ParagraphBreaks(t) \cup ListItemStarts(t))>>
    BY DEF Boundaries
  <2> HIDE DEF boundaries
  <2>5. QED BY <2>1, <2>2, <2>3, <2>4
<1> HIDE DEF boundaries
<1>3. far \in Nat /\ far >= begin + 1
  <2> DEFINE two == {begin + 1, begin + MinFill}
  <2>1. two \subseteq 0..(begin + 1 + MinFill) /\ two # {} /\ begin + 1 + MinFill \in Nat
    BY <1>1
  <2>2. begin + 1 \in two
    OBVIOUS
  <2> HIDE DEF two
  <2>3. Max(two) \in two /\ begin + 1 <= Max(two)
    BY <2>1, <2>2, GreatestFacts
  <2>4. QED BY <2>1, <2>3 DEF two
<1>4. ASSUME NEW from \in Nat, from >= begin + 1
      PROVE  Strongest(Within(from)) \subseteq (begin + 1)..limit
  <2>1. ASSUME NEW r \in 1..3, Within(from)[r] # {} PROVE Max(Within(from)[r]) \in (begin + 1)..limit
    <3> DEFINE w == Within(from)[r]
    <3>1. w \subseteq (begin + 1)..limit
      BY <1>1, <1>2, <1>4
    <3>2. w # {}
      BY <2>1
    <3> HIDE DEF w
    <3>5. w \subseteq 0..limit
      BY <1>1, <3>1
    <3>3. Max(w) \in w
      BY <1>1, <3>2, <3>5, GreatestFacts
    <3>4. QED BY <3>1, <3>3 DEF w
  <2> HIDE DEF Within
  <2>2. QED BY <2>1
<1>5. BestCuts(t, begin, limit) = IF filled # {} THEN filled ELSE Strongest(Within(begin + 1))
  BY DEF BestCuts, boundaries
<1>6. BestCuts(t, begin, limit) \subseteq (begin + 1)..limit
  <2>1. begin + 1 \in Nat /\ begin + 1 >= begin + 1
    OBVIOUS
  <2> HIDE DEF Within, Strongest, far
  <2>2. QED BY <1>3, <1>4, <1>5, <2>1
<1>7. HardCut(t, begin, limit) \in (begin + 1)..limit
  <2> DEFINE white == {k \in (begin + 1)..limit : t[k] \in White}
  <2>1. white \subseteq 0..limit /\ white \subseteq (begin + 1)..limit
    BY <1>1
  <2>2. limit \in (begin + 1)..limit
    BY <1>1
  <2>3. HardCut(t, begin, limit) = IF white = {} THEN limit ELSE Max(white)
    BY DEF HardCut
  <2> HIDE DEF white
  <2>4. white # {} => Max(white) \in white
    BY <1>1, <2>1, GreatestFacts
  <2>5. QED BY <2>1, <2>2, <2>3, <2>4
<1>8. BestCuts(t, begin, limit) # {} => Max(BestCuts(t, begin, limit)) \in (begin + 1)..limit
  <2> DEFINE best == BestCuts(t, begin, limit)
  <2>1. best \subseteq 0..limit
    BY <1>1, <1>6
  <2> HIDE DEF best
  <2>2. best # {} => Max(best) \in best
    BY <1>1, <2>1, GreatestFacts
  <2>3. QED BY <1>6, <2>2 DEF best
<1>9. QED BY <1>7, <1>8 DEF CutAt

(* A piece ends after it starts, within its budget and the text.           *)
LEMMA PieceEndFacts ==
  ASSUME NEW A, NEW t \in Seq(A), NEW begin \in Nat, begin < Len(t),
         NEW budget \in Nat, budget >= 1
  PROVE  /\ PieceEnd(t, begin, budget) \in (begin + 1)..Len(t)
         /\ PieceEnd(t, begin, budget) <= begin + budget
<1>1. Len(t) \in Nat
  BY LenProperties
<1>2. CASE Len(t) - begin <= budget
  <2>1. Len(t) > begin
    OBVIOUS
  <2>2. PieceEnd(t, begin, budget) = Len(t)
    BY <1>1, <1>2, <2>1 DEF PieceEnd
  <2>3. QED BY <1>1, <1>2, <2>2
<1>3. CASE ~(Len(t) - begin <= budget)
  <2> DEFINE limit == begin + budget
  <2>1. limit \in 1..Len(t) /\ begin < limit
    BY <1>1, <1>3
  <2> HIDE DEF limit
  <2>2. CutAt(t, begin, limit) \in (begin + 1)..limit
    BY <2>1, CutFacts
  <2>3. ~(CutAt(t, begin, limit) <= begin)
    BY <2>1, <2>2
  <2>4. PieceEnd(t, begin, budget) = CutAt(t, begin, limit)
    BY <1>3, <2>3 DEF PieceEnd, limit
  <2>5. limit = begin + budget
    BY DEF limit
  <2>6. QED BY <1>1, <2>1, <2>2, <2>4, <2>5
<1>4. QED BY <1>2, <1>3

(* What is repeated: the end of a piece, not more than the overlap.        *)
LEMMA TailOfPiece ==
  ASSUME NEW A, NEW t \in Seq(A), t # << >>, t[Len(t)] \notin White
  PROVE  /\ OverlapTail(t) \in Seq(A) /\ Len(OverlapTail(t)) <= OverlapChars
         /\ \E m \in 0..Len(t) : OverlapTail(t) = Slice(t, m, Len(t))
<1> DEFINE n == Len(t)
           allowance == Min({OverlapChars, n \div 2})
           floor == n - allowance
           sentences == {e \in SentenceEnds(t) : e >= floor}
           words == {k \in (floor + 1)..n : t[k] \in White /\ (k = n \/ t[k + 1] \notin White)}
<1>1. n \in Nat /\ DOMAIN t = 1..n /\ n \in 0..n
  BY LenProperties
<1>2. allowance \in Nat /\ allowance <= OverlapChars /\ allowance <= n /\ OverlapChars \in Nat
  <2> DEFINE half == n \div 2
  <2>1. half \in Nat /\ half <= n
    BY <1>1
  <2>2. OverlapChars \in Nat
    BY ChunkAssumption
  <2> HIDE DEF half, n
  <2> DEFINE two == {OverlapChars, half}
  <2>3. two \subseteq Nat /\ two # {} /\ OverlapChars \in two /\ half \in two
    BY <2>1, <2>2
  <2> HIDE DEF two
  <2>4. Min(two) \in two /\ Min(two) <= OverlapChars /\ Min(two) <= half
    BY <2>3, LeastFacts
  <2>5. Min(two) \in Nat
    BY <2>3, <2>4, Zenon
  <2>7. Min(two) <= n
    <3>1. n \in Nat
      BY <1>1
    <3>2. QED BY <2>1, <2>4, <2>5, <3>1
  <2>8. QED BY <2>2, <2>4, <2>5, <2>7 DEF two, half
<1> HIDE DEF allowance
<1>3. floor \in 0..n /\ n - floor <= OverlapChars
  BY <1>1, <1>2
<1>4. OverlapTail(t) = IF allowance = 0 THEN << >>
                       ELSE IF sentences # {} THEN Stripped(t, Min(sentences), n)
                       ELSE IF words # {} THEN Stripped(t, Min(words), n)
                       ELSE Rest(t, floor)
  BY DEF OverlapTail, allowance
<1>5. ASSUME NEW from \in floor..n
      PROVE  /\ Stripped(t, from, n) \in Seq(A) /\ Len(Stripped(t, from, n)) <= OverlapChars
             /\ \E m \in 0..n : Stripped(t, from, n) = Slice(t, m, n)
  <2>1. from \in 0..n /\ n - from <= OverlapChars /\ n \in 0..Len(t)
    BY <1>1, <1>2, <1>3
  <2>2. /\ Stripped(t, from, n) \in Seq(A) /\ Len(Stripped(t, from, n)) <= n - from
        /\ \E m \in from..n : Stripped(t, from, n) = Slice(t, m, n)
    BY <2>1, StrippedFacts
  <2>3. Len(Stripped(t, from, n)) \in Nat
    BY <2>2, LenProperties
  <2> HIDE DEF n, floor
  <2>4. QED BY <1>1, <1>2, <2>1, <2>2, <2>3
<1>6. sentences \subseteq floor..n /\ words \subseteq floor..n
  <2>1. SentenceEnds(t) \subseteq 1..n
    BY <1>1 DEF SentenceEnds
  <2> HIDE DEF n
  <2>2. QED BY <1>1, <1>3, <2>1
<1> HIDE DEF sentences, words, floor
<1>7. /\ sentences # {} => Min(sentences) \in floor..n
      /\ words # {} => Min(words) \in floor..n
  <2>1. \A S : S \subseteq floor..n => S \subseteq Nat
    BY <1>3
  <2> HIDE DEF n
  <2>2. QED BY <1>6, <2>1, LeastFacts
<1>8. << >> \in Seq(A) /\ Len(<< >>) <= OverlapChars /\ << >> = Slice(t, n, n)
  <2>1. SubSeq(t, n + 1, n) = << >>
    BY <1>1, SubSeqEmpty
  <2>2. QED BY <1>2, <2>1 DEF Slice
<1>9. /\ Rest(t, floor) \in Seq(A) /\ Len(Rest(t, floor)) <= OverlapChars
      /\ Rest(t, floor) = Slice(t, floor, n)
  <2>1. Rest(t, floor) = Slice(t, floor, n)
    BY DEF Rest
  <2>2. n \in 0..Len(t) /\ floor \in 0..n
    BY <1>1, <1>3
  <2>3. Slice(t, floor, n) \in Seq(A) /\ Len(Slice(t, floor, n)) = n - floor
    <3> DEFINE from == floor  to == n
    <3>1. to \in 0..Len(t) /\ from \in 0..to
      BY <2>2
    <3> HIDE DEF from, to, n, floor
    <3>2. Slice(t, from, to) \in Seq(A) /\ Len(Slice(t, from, to)) = to - from
      BY <3>1, SliceFacts
    <3>3. QED BY <3>2 DEF from, to
  <2>4. QED BY <1>3, <2>1, <2>3
<1>10. CASE allowance = 0
  BY <1>1, <1>4, <1>8, <1>10
<1>11. CASE allowance # 0 /\ sentences # {}
  <2>1. OverlapTail(t) = Stripped(t, Min(sentences), n)
    BY <1>4, <1>11
  <2>2. QED BY <1>5, <1>7, <1>11, <2>1
<1>12. CASE allowance # 0 /\ sentences = {} /\ words # {}
  <2>1. OverlapTail(t) = Stripped(t, Min(words), n)
    BY <1>4, <1>12
  <2>2. QED BY <1>5, <1>7, <1>12, <2>1
<1>13. CASE allowance # 0 /\ sentences = {} /\ words = {}
  BY <1>3, <1>4, <1>9, <1>13
<1>14. QED BY <1>10, <1>11, <1>12, <1>13
-----------------------------------------------------------------------------
(* Texts put together, by the number of them.                              *)
JoinedIn(S) ==
  CHOOSE f : f = [i \in 1..Len(S) |-> IF i = 1 THEN S[i] ELSE f[i - 1] \o S[i]]

Joined(S, i) == IF i = 0 THEN << >> ELSE JoinedIn(S)[i]

(* FlattenSeq joins them one by one.                                       *)
LEMMA JoinedGrow ==
  ASSUME NEW A, NEW S \in Seq(Seq(A))
  PROVE  /\ FlattenSeq(S) = Joined(S, Len(S))
         /\ Joined(S, 0) = << >>
         /\ \A i \in 1..Len(S) : Joined(S, i) = Joined(S, i - 1) \o S[i]
         /\ \A i \in 0..Len(S) : Joined(S, i) \in Seq(A)
<1> DEFINE N == Len(S)
           V == Seq(A)
           step == [p \in (1..N) \X V |-> p[2] \o S[p[1]]]
           L(f) == f = [i \in 1..N |-> IF i = 1 THEN S[i] ELSE f[i - 1] \o S[i]]
<1>1. N \in Nat /\ \A n \in 1..N : S[n] \in V
  BY LenProperties, ElementOfSeq
<1>2. << >> \in V
  OBVIOUS
<1>3. step \in [(1..N) \X V -> V]
  <2>1. ASSUME NEW p \in (1..N) \X V PROVE p[2] \o S[p[1]] \in V
    <3>1. p[1] \in 1..N /\ p[2] \in Seq(A) /\ S[p[1]] \in Seq(A)
      BY <1>1
    <3>2. QED BY <3>1, ConcatProperties
  <2> HIDE DEF V
  <2>2. QED BY <2>1
<1>4. PICK g \in [0..N -> V] :
        g[0] = << >> /\ \A k \in 1..N : g[k] = g[k - 1] \o S[k]
  <2>1. Stepwise(N, V, << >>, step)
    BY <1>1, <1>2, <1>3 DEF Stepwise
  <2>2. PICK g \in [0..N -> V] : Steps(N, << >>, step, g)
    <3> HIDE DEF N, V, step
    <3>1. QED BY <2>1, StepsExist
  <2>3. ASSUME NEW k \in 1..N PROVE g[k] = g[k - 1] \o S[k]
    <3>1. k - 1 \in 0..N
      BY <1>1
    <3>2. <<k, g[k - 1]>> \in (1..N) \X V
      BY <3>1
    <3>3. g[k] = step[<<k, g[k - 1]>>]
      BY <2>2 DEF Steps
    <3>4. QED BY <3>2, <3>3
  <2>4. QED BY <2>2, <2>3 DEF Steps
<1>5. \E f : L(f)
  <2> DEFINE f == [i \in 1..N |-> g[i]]
  <2>1. ASSUME NEW i \in 1..N PROVE f[i] = IF i = 1 THEN S[i] ELSE f[i - 1] \o S[i]
    <3>1. f[i] = g[i - 1] \o S[i]
      BY <1>4
    <3>2. CASE i = 1
      <4>1. g[i - 1] = << >> /\ S[i] \in Seq(A)
        BY <1>1, <1>4, <3>2
      <4>2. << >> \o S[i] = S[i]
        BY <4>1, ConcatEmptySeq
      <4>3. QED BY <3>1, <3>2, <4>1, <4>2
    <3>3. CASE i # 1
      <4>1. i - 1 \in 1..N
        BY <1>1, <3>3
      <4>2. QED BY <3>1, <3>3, <4>1
    <3>4. QED BY <3>2, <3>3
  <2>2. f = [i \in 1..N |-> f[i]]
    OBVIOUS
  <2> HIDE DEF f, N
  <2>3. L(f)
    BY <2>1, <2>2
  <2>4. QED BY <2>3
<1>6. L(JoinedIn(S))
  <2>1. JoinedIn(S) = CHOOSE f : L(f)
    BY DEF JoinedIn
  <2> HIDE DEF L
  <2>2. QED BY <1>5, <2>1
<1> DEFINE h == JoinedIn(S)
<1>7. \A i \in 1..N : h[i] = IF i = 1 THEN S[i] ELSE h[i - 1] \o S[i]
  <2>1. L(h)
    BY <1>6
  <2> HIDE DEF h, N
  <2>2. QED BY <2>1
<1>8. \A i \in 0..N : Joined(S, i) = g[i]
  <2> DEFINE P == {i \in Nat : Joined(S, i) = g[i]}
  <2>1. 0 \in P
    BY <1>4 DEF Joined
  <2>2. ASSUME NEW i \in Nat, i < N, i \in P PROVE i + 1 \in P
    <3>1. i + 1 \in 1..N /\ (i + 1) - 1 = i /\ i \in 0..N /\ i + 1 # 0
      BY <1>1, <2>2
    <3>2. g[i + 1] = g[i] \o S[i + 1]
      BY <1>4, <3>1
    <3>3. h[i + 1] = IF i + 1 = 1 THEN S[i + 1] ELSE h[i] \o S[i + 1]
      BY <1>7, <3>1
    <3>4. S[i + 1] \in Seq(A) /\ Joined(S, i) = g[i]
      BY <1>1, <2>2, <3>1
    <3>5. << >> \o S[i + 1] = S[i + 1]
      BY <3>4, ConcatEmptySeq
    <3>6. Joined(S, i + 1) = h[i + 1]
      BY <3>1 DEF Joined
    <3>7. CASE i = 0
      <4>1. i + 1 = 1 /\ g[i] = << >>
        BY <1>4, <3>7
      <4>2. h[i + 1] = S[i + 1]
        BY <3>3, <4>1
      <4>3. g[i + 1] = S[i + 1]
        BY <3>2, <3>5, <4>1
      <4> HIDE DEF h
      <4>4. QED BY <3>1, <3>6, <4>2, <4>3
    <3>8. CASE i # 0
      <4>1. Joined(S, i) = h[i]
        BY <3>8 DEF Joined
      <4>2. i + 1 # 1
        BY <3>8
      <4>3. h[i + 1] = h[i] \o S[i + 1]
        BY <3>3, <4>2
      <4> HIDE DEF h
      <4>4. h[i] = g[i]
        BY <3>4, <4>1
      <4>5. Joined(S, i + 1) = g[i + 1]
        BY <3>2, <3>6, <4>3, <4>4
      <4>6. QED BY <4>5
    <3>9. QED BY <3>7, <3>8
  <2> HIDE DEF P
  <2>3. \A i \in 0..N : i \in P
    BY <1>1, <2>1, <2>2, Climb
  <2>4. QED BY <2>3 DEF P
<1>9. FlattenSeq(S) = Joined(S, N)
  <2>1. CASE N = 0
    <3>1. S = << >>
      BY <2>1, EmptySeq
    <3>2. QED BY <2>1, <3>1 DEF FlattenSeq, Joined
  <2>2. CASE N # 0
    BY <2>2 DEF FlattenSeq, Joined, JoinedIn
  <2>3. QED BY <2>1, <2>2
<1>10. \A i \in 1..N : Joined(S, i) = Joined(S, i - 1) \o S[i]
  <2>1. \A i \in 1..N : i \in 0..N /\ i - 1 \in 0..N
    BY <1>1
  <2>2. QED BY <1>4, <1>8, <2>1
<1>11. Joined(S, 0) = << >>
  BY DEF Joined
<1> HIDE DEF h, L, step
<1>12. QED BY <1>4, <1>8, <1>9, <1>10, <1>11

(* Texts put together are a text.                                          *)
LEMMA FlattenIsText ==
  ASSUME NEW A, NEW S \in Seq(Seq(A))
  PROVE  FlattenSeq(S) \in Seq(A)
<1>1. Len(S) \in 0..Len(S)
  BY LenProperties
<1>2. QED BY <1>1, JoinedGrow

(* Two lists of texts put together are the two texts together.             *)
LEMMA FlattenConcat ==
  ASSUME NEW A, NEW S \in Seq(Seq(A)), NEW T \in Seq(Seq(A))
  PROVE  FlattenSeq(S \o T) = FlattenSeq(S) \o FlattenSeq(T)
<1> DEFINE U == S \o T
           f(i) == Joined(U, i)  g(i) == Joined(S, i)  h(i) == Joined(T, i)
           m == Len(S)  n == Len(T)
<1>1. /\ U \in Seq(Seq(A)) /\ Len(U) = m + n /\ m \in Nat /\ n \in Nat
      /\ \A i \in 1..(m + n) : U[i] = IF i <= m THEN S[i] ELSE T[i - m]
  BY ConcatProperties, LenProperties
<1>2. /\ FlattenSeq(U) = f(m + n) /\ f(0) = << >>
      /\ \A i \in 1..(m + n) : f(i) = f(i - 1) \o U[i]
  BY <1>1, JoinedGrow
<1>3. /\ FlattenSeq(S) = g(m) /\ g(0) = << >>
      /\ \A i \in 1..m : g(i) = g(i - 1) \o S[i]
      /\ \A i \in 0..m : g(i) \in Seq(A)
  BY JoinedGrow
<1>4. /\ FlattenSeq(T) = h(n) /\ h(0) = << >>
      /\ \A i \in 1..n : h(i) = h(i - 1) \o T[i]
      /\ \A i \in 0..n : h(i) \in Seq(A)
  BY JoinedGrow
<1>5. \A i \in 1..n : T[i] \in Seq(A)
  BY ElementOfSeq
<1> HIDE DEF U, f, g, h, m, n
<1>6. \A i \in 0..m : f(i) = g(i)
  <2> DEFINE P == {i \in Nat : f(i) = g(i)}
  <2>1. 0 \in P
    BY <1>2, <1>3
  <2>2. ASSUME NEW i \in Nat, i < m, i \in P PROVE i + 1 \in P
    <3>1. i + 1 \in 1..(m + n) /\ i + 1 \in 1..m /\ (i + 1) - 1 = i /\ i + 1 <= m
      BY <1>1, <2>2
    <3>2. U[i + 1] = S[i + 1]
      BY <1>1, <3>1
    <3>3. f(i + 1) = f(i) \o U[i + 1]
      BY <1>2, <3>1
    <3>4. g(i + 1) = g(i) \o S[i + 1]
      BY <1>3, <3>1
    <3>5. f(i) = g(i)
      BY <2>2
    <3>6. f(i + 1) = g(i + 1)
      BY <3>2, <3>3, <3>4, <3>5
    <3>7. QED BY <3>6
  <2> HIDE DEF P
  <2>3. \A i \in 0..m : i \in P
    BY <1>1, <2>1, <2>2, Climb
  <2>4. QED BY <2>3 DEF P
<1>7. \A i \in 0..n : f(m + i) = g(m) \o h(i)
  <2> DEFINE P == {i \in Nat : f(m + i) = g(m) \o h(i)}
  <2>1. g(m) \in Seq(A) /\ m \in 0..m /\ m + 0 = m
    BY <1>1, <1>3
  <2>2. 0 \in P
    <3>1. g(m) \o << >> = g(m)
      BY <2>1, ConcatEmptySeq
    <3>2. f(m) = g(m)
      BY <1>6, <2>1
    <3>3. f(m + 0) = g(m) \o h(0)
      BY <1>4, <2>1, <3>1, <3>2
    <3>4. QED BY <3>3
  <2>3. ASSUME NEW i \in Nat, i < n, i \in P PROVE i + 1 \in P
    <3>1. /\ m + (i + 1) \in 1..(m + n) /\ i + 1 \in 1..n /\ (i + 1) - 1 = i /\ i \in 0..n
          /\ (m + (i + 1)) - 1 = m + i /\ ~(m + (i + 1) <= m) /\ (m + (i + 1)) - m = i + 1
      BY <1>1, <2>3
    <3>2. U[m + (i + 1)] = T[i + 1]
      BY <1>1, <3>1
    <3>3. f(m + (i + 1)) = f(m + i) \o U[m + (i + 1)]
      BY <1>2, <3>1
    <3>4. h(i + 1) = h(i) \o T[i + 1]
      BY <1>4, <3>1
    <3>5. T[i + 1] \in Seq(A) /\ h(i) \in Seq(A)
      BY <1>4, <1>5, <3>1
    <3>6. (g(m) \o h(i)) \o T[i + 1] = g(m) \o (h(i) \o T[i + 1])
      <4> DEFINE a == g(m)  b == h(i)  c == T[i + 1]
      <4>1. a \in Seq(A) /\ b \in Seq(A) /\ c \in Seq(A)
        BY <2>1, <3>5
      <4> HIDE DEF a, b, c
      <4>2. \A x, y, z \in Seq(A) : (x \o y) \o z = x \o (y \o z)
        BY ConcatAssociative, SMTT(30)
      <4>3. (a \o b) \o c = a \o (b \o c)
        BY <4>1, <4>2
      <4>4. QED BY <4>3 DEF a, b, c
    <3>7. f(m + i) = g(m) \o h(i)
      BY <2>3
    <3>8. f(m + (i + 1)) = g(m) \o h(i + 1)
      BY <3>2, <3>3, <3>4, <3>6, <3>7
    <3>9. i + 1 \in Nat
      BY <2>3
    <3>10. QED BY <3>8, <3>9
  <2> HIDE DEF P
  <2>4. \A i \in 0..n : i \in P
    BY <1>1, <2>2, <2>3, Climb
  <2>5. QED BY <2>4 DEF P
<1>8. n \in 0..n
  BY <1>1
<1>9. f(m + n) = g(m) \o h(n)
  BY <1>7, <1>8
<1>10. QED BY <1>2, <1>3, <1>4, <1>9 DEF U

(* One text alone is itself.                                               *)
LEMMA FlattenOne ==
  ASSUME NEW A, NEW x \in Seq(A)
  PROVE  FlattenSeq(<<x>>) = x
<1> DEFINE S == <<x>>
<1>1. S \in Seq(Seq(A)) /\ Len(S) = 1 /\ S[1] = x
  OBVIOUS
<1> HIDE DEF S
<1>2. 1 \in 1..Len(S) /\ 1 - 1 = 0
  BY <1>1
<1>3. FlattenSeq(S) = Joined(S, 0) \o x /\ Joined(S, 0) = << >>
  BY <1>1, <1>2, JoinedGrow
<1>4. << >> \o x = x
  BY ConcatEmptySeq
<1>5. QED BY <1>3, <1>4 DEF S

(* Empty texts put together are empty.                                     *)
LEMMA FlattenEmpty ==
  ASSUME NEW A, NEW S \in Seq(Seq(A)), \A i \in 1..Len(S) : S[i] = << >>
  PROVE  FlattenSeq(S) = << >>
<1> DEFINE f(i) == Joined(S, i)  n == Len(S)
           P == {i \in Nat : f(i) = << >>}
<1>1. n \in Nat /\ n \in 0..n
  BY LenProperties
<1>2. /\ FlattenSeq(S) = f(n) /\ f(0) = << >>
      /\ \A i \in 1..n : f(i) = f(i - 1) \o << >>
  BY JoinedGrow
<1>3. 0 \in P
  BY <1>2
<1>4. ASSUME NEW i \in Nat, i < n, i \in P PROVE i + 1 \in P
  <2> HIDE DEF f, n
  <2>1. i + 1 \in 1..n /\ (i + 1) - 1 = i /\ i + 1 \in Nat
    BY <1>1, <1>4
  <2>2. f(i + 1) = f(i) \o << >> /\ f(i) = << >>
    BY <1>2, <1>4, <2>1
  <2>3. f(i + 1) = << >>
    BY <2>2
  <2>4. QED BY <2>1, <2>3
<1> HIDE DEF P
<1>5. \A i \in 0..n : i \in P
  BY <1>1, <1>3, <1>4, Climb
<1>6. QED BY <1>1, <1>2, <1>5 DEF P
-----------------------------------------------------------------------------
(* A slice to the end is a suffix.                                         *)
LEMMA SuffixOfText ==
  ASSUME NEW A, NEW t \in Seq(A), NEW m \in 0..Len(t)
  PROVE  IsSuffix(Slice(t, m, Len(t)), t)
<1> DEFINE s == Slice(t, m, Len(t))
           r == Reverse(s)  q == Reverse(t)  n == Len(t) - m
<1>1. Len(t) \in Nat /\ m \in Nat /\ m <= Len(t) /\ n \in Nat /\ n <= Len(t)
      /\ Len(t) \in 0..Len(t) /\ m \in 0..Len(t)
  BY LenProperties
<1>2. s \in Seq(A) /\ Len(s) = n /\ \A i \in 1..n : s[i] = t[m + i]
  BY <1>1, SliceFacts
<1> HIDE DEF s
<1>3. r \in Seq(A) /\ Len(r) = n /\ \A i \in 1..n : r[i] = s[(n - i) + 1]
  <2> DEFINE e(i) == s[(n - i) + 1]
  <2>1. \A i \in 1..n : (n - i) + 1 \in 1..n
    BY <1>1
  <2>2. \A i \in 1..n : e(i) \in A
    BY <1>2, <2>1, ElementOfSeq
  <2>3. r = [i \in 1..n |-> e(i)]
    BY <1>2 DEF Reverse
  <2> HIDE DEF r, e, n
  <2>4. [i \in 1..n |-> e(i)] \in Seq(A)
    BY <1>1, <2>2, IsASeq
  <2>5. Len(r) = n
    BY <1>1, <2>3, <2>4
  <2>6. QED BY <2>3, <2>4, <2>5 DEF e
<1>4. q \in Seq(A) /\ Len(q) = Len(t) /\ \A i \in 1..Len(t) : q[i] = t[(Len(t) - i) + 1]
  <2> DEFINE N == Len(t)
             e(i) == t[(N - i) + 1]
  <2>1. \A i \in 1..N : (N - i) + 1 \in 1..N
    BY <1>1
  <2>2. \A i \in 1..N : e(i) \in A
    BY <2>1, ElementOfSeq
  <2>3. q = [i \in 1..N |-> e(i)]
    BY DEF Reverse
  <2>4. N \in Nat
    BY <1>1
  <2> HIDE DEF q, e, N
  <2>5. [i \in 1..N |-> e(i)] \in Seq(A)
    BY <2>2, <2>4, IsASeq
  <2>6. Len(q) = N
    BY <2>3, <2>4, <2>5
  <2>7. QED BY <2>3, <2>5, <2>6 DEF e, N
<1> HIDE DEF r, q
<1>5. \A i \in 1..n : r[i] = q[i]
  <2>1. TAKE i \in 1..n
  <2>2. (n - i) + 1 \in 1..n /\ i \in 1..Len(t) /\ m + ((n - i) + 1) = (Len(t) - i) + 1
    BY <1>1
  <2>3. QED BY <1>2, <1>3, <1>4, <2>2
<1>6. SubSeq(r, 1, n) = SubSeq(q, 1, n)
  <2>1. SubSeq(r, 1, n) = [i \in 1..n |-> r[i]] /\ SubSeq(q, 1, n) = [i \in 1..n |-> q[i]]
    BY <1>1, <1>3, <1>4
  <2> HIDE DEF n
  <2>2. QED BY <1>5, <2>1
<1>7. IsPrefix(r, q)
  BY <1>1, <1>3, <1>4, <1>6 DEF IsPrefix
<1>8. QED BY <1>7 DEF IsSuffix, r, q, s

(* What is true of a piece, and of the pieces of a section together.       *)
PieceOK(piece) ==
  /\ Len(piece.text) \in 1..MaxChars
  /\ piece.text[Len(piece.text)] \notin White
  /\ piece.overlap <= OverlapChars
  /\ BodyOf(piece) \in Seq(Characters)
  /\ Strip(BodyOf(piece)) # << >>

Cut == [text : Seq(Characters), overlap : Nat]

Overlap(piece) == Slice(piece.text, 0, piece.overlap)

PiecesOK(ps) ==
  /\ ps \in Seq(Cut)
  /\ \A k \in DOMAIN ps :
       /\ PieceOK(ps[k])
       /\ k = 1 => Overlap(ps[k]) = << >>
       /\ k > 1 => IsSuffix(Overlap(ps[k]), ps[k - 1].text)

(* The end of the piece before, if there is one and it has words.          *)
Repeats(prefix, ps) ==
  \/ prefix = << >>
  \/ \E tail \in Seq(Characters) :
       /\ prefix = tail \o OVERLAP_SEPARATOR /\ tail # << >> /\ Len(tail) <= OverlapChars
       /\ ps # << >> /\ IsSuffix(tail, ps[Len(ps)].text)

(* The separator is two characters.                                        *)
LEMMA SeparatorFacts ==
  OVERLAP_SEPARATOR \in Seq(Characters) /\ Len(OVERLAP_SEPARATOR) = 2
BY DEF OVERLAP_SEPARATOR, Characters, White, NewLine

(* What is repeated leaves room in the chunk, and is of the piece before.  *)
LEMMA PrefixFacts ==
  ASSUME NEW ps, PiecesOK(ps)
  PROVE  /\ Prefix(ps) \in Seq(Characters)
         /\ Len(Prefix(ps)) \in 0..(MaxChars - 1)
         /\ Repeats(Prefix(ps), ps)
<1>1. MaxChars \in Nat /\ OverlapChars \in Nat /\ 2 * OverlapChars < MaxChars /\ MaxChars >= 4
  BY ChunkAssumption
<1>2. ps \in Seq(Cut)
  BY DEF PiecesOK
<1> DEFINE tail == IF ps = << >> THEN << >> ELSE OverlapTail(Last(ps).text)
<1>3. Prefix(ps) = IF tail = << >> THEN << >> ELSE tail \o OVERLAP_SEPARATOR
  BY DEF Prefix
<1>4. CASE tail = << >>
  <2>1. Prefix(ps) = << >>
    BY <1>3, <1>4
  <2>2. << >> \in Seq(Characters) /\ Len(<< >>) = 0 /\ 0 \in 0..(MaxChars - 1)
    BY <1>1
  <2>3. QED BY <2>1, <2>2 DEF Repeats
<1>5. CASE tail # << >>
  <2>1. ps # << >> /\ tail = OverlapTail(ps[Len(ps)].text)
    BY <1>5 DEF Last
  <2> DEFINE t == ps[Len(ps)].text
  <2>2. Len(ps) \in 1..Len(ps) /\ DOMAIN ps = 1..Len(ps)
    BY <1>2, <2>1, EmptySeq, LenProperties
  <2>3. ps[Len(ps)] \in Cut /\ PieceOK(ps[Len(ps)])
    BY <1>2, <2>2, ElementOfSeq DEF PiecesOK
  <2>4. t \in Seq(Characters) /\ Len(t) \in 1..MaxChars /\ t[Len(t)] \notin White
    BY <2>3 DEF Cut, PieceOK
  <2>5. t # << >>
    BY <2>4, EmptySeq
  <2> HIDE DEF t, tail
  <2>6. /\ tail \in Seq(Characters) /\ Len(tail) <= OverlapChars
        /\ \E m \in 0..Len(t) : tail = Slice(t, m, Len(t))
    <3>1. tail = OverlapTail(t)
      BY <2>1 DEF t
    <3>2. QED BY <2>4, <2>5, <3>1, TailOfPiece
  <2>7. IsSuffix(tail, t)
    BY <2>4, <2>6, SuffixOfText
  <2>8. Prefix(ps) = tail \o OVERLAP_SEPARATOR
    BY <1>3, <1>5
  <2>9. Len(tail) \in Nat
    BY <2>6, LenProperties
  <2>10. Prefix(ps) \in Seq(Characters) /\ Len(Prefix(ps)) = Len(tail) + 2
    <3> DEFINE b == OVERLAP_SEPARATOR
    <3>1. b \in Seq(Characters) /\ Len(b) = 2
      BY SeparatorFacts
    <3> HIDE DEF b
    <3>2. tail \o b \in Seq(Characters) /\ Len(tail \o b) = Len(tail) + Len(b)
      BY <2>6, <3>1, ConcatProperties
    <3>3. QED BY <2>8, <3>1, <3>2 DEF b
  <2>11. Repeats(Prefix(ps), ps)
    BY <1>5, <2>1, <2>6, <2>7, <2>8 DEF Repeats, t
  <2>12. Len(Prefix(ps)) \in 0..(MaxChars - 1)
    BY <1>1, <2>6, <2>9, <2>10
  <2>13. QED BY <2>10, <2>11, <2>12
<1>6. QED BY <1>4, <1>5

(* WithPiece: the new piece, and the pieces with it.                       *)
LEMMA NewPiece ==
  ASSUME NEW ps, PiecesOK(ps), NEW x \in Seq(Characters), x # << >>,
         x[1] \notin White, x[Len(x)] \notin White,
         Len(x) + Len(Prefix(ps)) <= MaxChars
  PROVE  \E piece \in Cut :
           /\ WithPiece(ps, Prefix(ps), x) = Append(ps, piece)
           /\ BodyOf(piece) = x /\ PieceOK(piece)
           /\ \/ Overlap(piece) = << >>
              \/ ps # << >> /\ IsSuffix(Overlap(piece), ps[Len(ps)].text)
<1> DEFINE prefix == Prefix(ps)
           text == prefix \o x
           overlap == IF prefix = << >> THEN 0 ELSE Len(prefix) - Len(OVERLAP_SEPARATOR)
           piece == Piece(text, overlap)
<1>1. /\ prefix \in Seq(Characters) /\ Len(prefix) \in 0..(MaxChars - 1)
      /\ Repeats(prefix, ps) /\ Len(x) + Len(prefix) <= MaxChars
  BY PrefixFacts
<1>2. MaxChars \in Nat /\ OverlapChars \in Nat
  BY ChunkAssumption
<1>3. WithPiece(ps, Prefix(ps), x) = Append(ps, piece)
  BY DEF WithPiece
<1> HIDE DEF prefix
<1>4. Len(x) \in Nat /\ Len(x) >= 1
  BY EmptySeq, LenProperties
<1>5. /\ text \in Seq(Characters) /\ Len(text) = Len(prefix) + Len(x)
      /\ \A i \in 1..(Len(prefix) + Len(x)) :
           text[i] = IF i <= Len(prefix) THEN prefix[i] ELSE x[i - Len(prefix)]
  BY <1>1, ConcatProperties
<1>6. text[Len(text)] = x[Len(x)] /\ Len(text) \in 1..MaxChars
  <2>1. /\ Len(prefix) + Len(x) \in 1..(Len(prefix) + Len(x))
        /\ ~(Len(prefix) + Len(x) <= Len(prefix))
        /\ (Len(prefix) + Len(x)) - Len(prefix) = Len(x)
        /\ Len(prefix) + Len(x) \in 1..MaxChars
    BY <1>1, <1>2, <1>4
  <2> HIDE DEF text
  <2>2. QED BY <1>5, <2>1
<1>7. Strip(x) # << >>
  <2>1. /\ Len(x) \in 0..Len(x) /\ 0 \in 0..Len(x) /\ 1 \in (0 + 1)..Len(x)
    BY <1>4
  <2>2. \E k \in (0 + 1)..Len(x) : x[k] \notin White
    BY <2>1
  <2>3. QED BY <2>1, <2>2, StrippedFacts DEF Strip
<1>8. piece.text = text /\ piece.overlap = overlap
  BY DEF Piece
<1>9. CASE prefix = << >>
  <2>1. overlap = 0 /\ text = x
    BY <1>9, ConcatEmptySeq
  <2>2. BodyOf(piece) = x
    BY <1>8, <2>1 DEF BodyOf
  <2>3. Overlap(piece) = << >>
    <3>1. SubSeq(x, 1, 0) = << >>
      BY SubSeqEmpty
    <3>2. QED BY <1>8, <2>1, <3>1 DEF Overlap, Slice
  <2>4. piece \in Cut
    BY <2>1 DEF Cut, Piece
  <2> HIDE DEF piece, text, overlap
  <2>5. PieceOK(piece)
    BY <1>2, <1>6, <1>7, <1>8, <2>1, <2>2 DEF PieceOK
  <2>6. QED BY <1>3, <2>2, <2>3, <2>4, <2>5
<1>10. CASE prefix # << >>
  <2>1. PICK tail \in Seq(Characters) :
          /\ prefix = tail \o OVERLAP_SEPARATOR /\ tail # << >> /\ Len(tail) <= OverlapChars
          /\ ps # << >> /\ IsSuffix(tail, ps[Len(ps)].text)
    BY <1>1, <1>10 DEF Repeats
  <2>2. Len(tail) \in Nat \ {0}
    BY <2>1, EmptySeq
  <2>3. Len(prefix) = Len(tail) + 2 /\ \A i \in 1..Len(tail) : prefix[i] = tail[i]
    <3> DEFINE b == OVERLAP_SEPARATOR
    <3>1. b \in Seq(Characters) /\ Len(b) = 2
      BY SeparatorFacts
    <3> HIDE DEF b
    <3>2. /\ Len(tail \o b) = Len(tail) + Len(b)
          /\ \A i \in 1..(Len(tail) + Len(b)) : (tail \o b)[i] = IF i <= Len(tail) THEN tail[i] ELSE b[i - Len(tail)]
      BY <3>1, ConcatProperties
    <3>3. prefix = tail \o b
      BY <2>1 DEF b
    <3>4. \A i \in 1..Len(tail) : i \in 1..(Len(tail) + Len(b)) /\ i <= Len(tail)
      BY <2>2, <3>1
    <3>5. QED BY <3>1, <3>2, <3>3, <3>4
  <2>4. overlap = Len(tail)
    BY <1>10, <2>2, <2>3, SeparatorFacts
  <2> HIDE DEF overlap, text, piece
  <2>5. /\ Len(text) \in 0..Len(text) /\ Len(tail) \in 0..Len(text) /\ 0 \in 0..Len(tail)
        /\ Len(tail) + 2 \in 0..Len(text) /\ Len(text) - (Len(tail) + 2) = Len(x)
        /\ Len(tail) - 0 = Len(tail)
    BY <1>4, <1>5, <2>2, <2>3
  <2>6. Slice(text, 0, Len(tail)) = tail
    <3> DEFINE s == Slice(text, 0, Len(tail))
    <3>1. /\ s \in Seq(Characters) /\ Len(s) = Len(tail) - 0
          /\ \A i \in 1..(Len(tail) - 0) : s[i] = text[0 + i]
      <4> DEFINE c == Len(tail)
      <4>1. c \in 0..Len(text) /\ 0 \in 0..c /\ text \in Seq(Characters)
        BY <1>5, <2>5
      <4> HIDE DEF c, s
      <4>2. /\ Slice(text, 0, c) \in Seq(Characters) /\ Len(Slice(text, 0, c)) = c - 0
            /\ \A i \in 1..(c - 0) : Slice(text, 0, c)[i] = text[0 + i]
        BY <4>1, SliceFacts
      <4>3. QED BY <4>2 DEF c, s
    <3> HIDE DEF s
    <3>2. ASSUME NEW i \in 1..Len(tail) PROVE s[i] = tail[i]
      <4>1. i \in 1..(Len(tail) - 0) /\ 0 + i = i /\ i \in 1..(Len(prefix) + Len(x)) /\ i <= Len(prefix)
        BY <1>4, <2>2, <2>3
      <4>2. QED BY <1>5, <2>3, <3>1, <4>1
    <3>3. Len(s) = Len(tail)
      BY <2>5, <3>1
    <3>4. s = tail
      BY <3>1, <3>2, <3>3, SeqEqual
    <3>5. QED BY <3>4 DEF s
  <2>7. Rest(text, Len(tail) + 2) = x
    <3> DEFINE s == Slice(text, Len(tail) + 2, Len(text))
               m == Len(tail) + 2
    <3>1. m \in 0..Len(text) /\ Len(text) \in 0..Len(text) /\ m = Len(prefix) /\ Len(text) - m = Len(x)
      BY <2>3, <2>5
    <3> HIDE DEF m
    <3>2. /\ s \in Seq(Characters) /\ Len(s) = Len(x)
          /\ \A i \in 1..Len(x) : s[i] = text[m + i]
      <4> DEFINE c == Len(text)
      <4>1. s = Slice(text, m, c)
        BY DEF m
      <4>2. c \in 0..Len(text) /\ m \in 0..c /\ text \in Seq(Characters)
        BY <1>5, <3>1
      <4> HIDE DEF s, c
      <4>3. /\ Slice(text, m, c) \in Seq(Characters) /\ Len(Slice(text, m, c)) = c - m
            /\ \A i \in 1..(c - m) : Slice(text, m, c)[i] = text[m + i]
        BY <4>2, SliceFacts
      <4>4. QED BY <3>1, <4>1, <4>3 DEF c
    <3> HIDE DEF s
    <3>3. ASSUME NEW i \in 1..Len(x) PROVE s[i] = x[i]
      <4>1. /\ m + i \in 1..(Len(prefix) + Len(x)) /\ ~(m + i <= Len(prefix))
            /\ (m + i) - Len(prefix) = i
        BY <1>1, <1>4, <3>1
      <4>2. QED BY <1>5, <3>2, <4>1
    <3>4. s = x
      BY <3>2, <3>3, SeqEqual
    <3>5. QED BY <3>4 DEF s, Rest, m
  <2>8. BodyOf(piece) = x
    <3>1. piece.overlap # 0
      BY <1>8, <2>2, <2>4
    <3>2. piece.overlap + Len(OVERLAP_SEPARATOR) = Len(tail) + 2
      BY <1>8, <2>4, SeparatorFacts
    <3>3. QED BY <1>8, <2>7, <3>1, <3>2 DEF BodyOf
  <2>9. Overlap(piece) = tail
    BY <1>8, <2>4, <2>6 DEF Overlap
  <2>10. piece \in Cut
    BY <1>5, <2>2, <2>4 DEF Cut, Piece, piece
  <2>11. PieceOK(piece)
    BY <1>2, <1>6, <1>7, <1>8, <2>1, <2>2, <2>4, <2>8 DEF PieceOK
  <2>12. QED BY <1>3, <2>1, <2>8, <2>9, <2>10, <2>11
<1>11. QED BY <1>9, <1>10
-----------------------------------------------------------------------------
(* split_sections, line by line.                                           *)
LineOfText == [kind : STRING, key : STRING, value : STRING, chars : Seq(Characters)]

Split == {s \in [found : Seq(STRING), bodies : Seq(Seq(Characters))] : Len(s.found) = Len(s.bodies)}

(* A heading opens a section and a line goes to the last one opened.       *)
LEMMA BodyLineKeeps ==
  ASSUME NEW split \in Split, NEW line \in LineOfText
  PROVE  BodyLine(split, line) \in Split
<1>1. /\ split.found \in Seq(STRING) /\ split.bodies \in Seq(Seq(Characters))
      /\ Len(split.found) = Len(split.bodies) /\ Len(split.found) \in Nat
      /\ split \in [found : Seq(STRING), bodies : Seq(Seq(Characters))]
      /\ line.value \in STRING /\ line.chars \in Seq(Characters)
  BY DEF Split, LineOfText
<1>2. CASE line.kind = "heading"
  <2> DEFINE f == Append(split.found, line.value)
             b == Append(split.bodies, << >>)
  <2>1. << >> \in Seq(Characters)
    OBVIOUS
  <2>2. f \in Seq(STRING) /\ Len(f) = Len(split.found) + 1
    BY <1>1, AppendProperties
  <2>3. b \in Seq(Seq(Characters)) /\ Len(b) = Len(split.bodies) + 1
    BY <1>1, <2>1, AppendProperties
  <2>4. BodyLine(split, line) = [found |-> f, bodies |-> b]
    BY <1>2 DEF BodyLine
  <2> HIDE DEF f, b
  <2>5. QED BY <1>1, <2>2, <2>3, <2>4 DEF Split
<1>3. CASE line.kind # "heading" /\ split.found = << >>
  BY <1>3 DEF BodyLine
<1>4. CASE line.kind # "heading" /\ split.found # << >>
  <2> DEFINE n == Len(split.found)
             new == split.bodies[n] \o line.chars \o <<NewLine>>
             b == [split.bodies EXCEPT ![n] = new]
  <2>1. n \in 1..Len(split.bodies)
    BY <1>1, <1>4, EmptySeq
  <2>2. new \in Seq(Characters)
    <3>1. split.bodies[n] \in Seq(Characters)
      BY <1>1, <2>1, ElementOfSeq
    <3>2. <<NewLine>> \in Seq(Characters)
      BY DEF Characters, White, NewLine
    <3> DEFINE x == split.bodies[n]  y == line.chars  z == <<NewLine>>
    <3>3. x \in Seq(Characters) /\ y \in Seq(Characters) /\ z \in Seq(Characters)
      BY <1>1, <3>1, <3>2
    <3> HIDE DEF x, y, z
    <3>4. x \o y \in Seq(Characters)
      BY <3>3, ConcatProperties
    <3>5. (x \o y) \o z \in Seq(Characters)
      BY <3>3, <3>4, ConcatProperties
    <3>6. QED BY <3>5 DEF x, y, z
  <2>3. BodyLine(split, line) = [split EXCEPT !.bodies = b]
    BY <1>4 DEF BodyLine
  <2> HIDE DEF new
  <2>4. b \in Seq(Seq(Characters)) /\ Len(b) = Len(split.bodies)
    <3> HIDE DEF n
    <3>1. QED BY <1>1, <2>1, <2>2, ExceptSeq
  <2> HIDE DEF b, n
  <2>5. QED BY <1>1, <2>3, <2>4 DEF Split
<1>5. QED BY <1>2, <1>3, <1>4

(* The library's fold goes through the sets of line numbers, the greatest  *)
(* number last.                                                            *)
LEMMA FoldIsSplit ==
  ASSUME NEW text \in Seq(LineOfText)
  PROVE  FoldLeft(BodyLine, [found |-> << >>, bodies |-> << >>], text) \in Split
<1> DEFINE N == Len(text)
           D == 1..N
           none == [found |-> << >>, bodies |-> << >>]
           base == [T \in SUBSET D |-> none]
           mu == [T \in SUBSET D |-> Cardinality(T)]
           ends == {{}}
           back == [T \in SUBSET D |-> T \ {Max(T)}]
           step == [p \in (SUBSET D) \X Split |->
                      IF p[1] = {} THEN none ELSE BodyLine(p[2], text[Max(p[1])])]
           Fold(f) == [s \in SUBSET D |-> IF s = {} THEN none
                                          ELSE BodyLine(f[s \ {Max(s)}], text[Max(s)])]
<1>0. none \in Split
  BY DEF Split
<1>1. N \in Nat /\ DOMAIN text = D /\ \A i \in D : text[i] \in LineOfText
  BY LenProperties, ElementOfSeq
<1>2. ASSUME NEW T \in SUBSET D, T # {} PROVE Max(T) \in T /\ Max(T) \in D /\ \A y \in T : y <= Max(T)
  <2>1. T \subseteq 0..N
    BY <1>1
  <2>2. Max(T) \in T /\ \A y \in T : y <= Max(T)
    BY <1>1, <1>2, <2>1, GreatestFacts
  <2>3. QED BY <2>2
<1>3. ASSUME NEW T \in SUBSET D
      PROVE  /\ Cardinality(T) \in Nat
             /\ T # {} => Cardinality(T \ {Max(T)}) \in Nat /\ Cardinality(T \ {Max(T)}) < Cardinality(T)
  <2>1. IsFiniteSet(T) /\ Cardinality(T) \in Nat
    <3>1. 1 \in Int /\ N \in Int
      BY <1>1
    <3>2. IsFiniteSet(D)
      BY <3>1, FS_Interval
    <3> HIDE DEF D
    <3>3. IsFiniteSet(T)
      BY <3>2, FS_Subset
    <3>4. QED BY <3>3, FS_CardinalityType
  <2>2. ASSUME T # {}
        PROVE  Cardinality(T \ {Max(T)}) \in Nat /\ Cardinality(T \ {Max(T)}) < Cardinality(T)
    <3>1. Max(T) \in T
      BY <1>2, <2>2
    <3>2. Cardinality(T \ {Max(T)}) = Cardinality(T) - 1 /\ IsFiniteSet(T \ {Max(T)})
      BY <2>1, <3>1, FS_RemoveElement
    <3>3. Cardinality(T \ {Max(T)}) \in Nat
      BY <3>2, FS_CardinalityType
    <3>4. QED BY <2>1, <3>2, <3>3
  <2>3. QED BY <2>1, <2>2
<1>4. Chained(SUBSET D, Split, mu, ends, base, back, step)
  <2>1. mu \in [SUBSET D -> Nat] /\ base \in [SUBSET D -> Split] /\ back \in [SUBSET D -> SUBSET D]
    BY <1>0, <1>3
  <2>2. step \in [(SUBSET D) \X Split -> Split]
    <3>1. ASSUME NEW p \in (SUBSET D) \X Split
          PROVE  (IF p[1] = {} THEN none ELSE BodyLine(p[2], text[Max(p[1])])) \in Split
      <4>1. p[1] # {} => text[Max(p[1])] \in LineOfText
        BY <1>1, <1>2
      <4>2. p[2] \in Split
        OBVIOUS
      <4>3. QED BY <1>0, <4>1, <4>2, BodyLineKeeps
    <3>2. QED BY <3>1
  <2>3. \A T \in (SUBSET D) \ ends : mu[back[T]] < mu[T]
    BY <1>3
  <2> HIDE DEF mu, base, back, step, ends
  <2>4. QED BY <2>1, <2>2, <2>3 DEF Chained
<1>5. PICK f \in [SUBSET D -> Split] : f = Unrolled(SUBSET D, ends, base, back, step, f)
  <2> DEFINE E == SUBSET D
  <2>1. Chained(E, Split, mu, ends, base, back, step)
    BY <1>4
  <2> HIDE DEF E, mu, base, back, step, ends
  <2>2. \E f \in [E -> Split] : f = Unrolled(E, ends, base, back, step, f)
    BY <2>1, RecursionExists
  <2>3. QED BY <2>2 DEF E
<1>6. f = Fold(f)
  <2>1. ASSUME NEW T \in SUBSET D
        PROVE  (IF T \in ends THEN base[T] ELSE step[<<T, f[back[T]]>>])
                 = IF T = {} THEN none ELSE BodyLine(f[T \ {Max(T)}], text[Max(T)])
    <3> HIDE DEF none
    <3>1. f[back[T]] \in Split /\ back[T] = T \ {Max(T)}
      OBVIOUS
    <3>2. QED BY <3>1
  <2> HIDE DEF ends, base, back, step, none
  <2>2. QED BY <1>5, <2>1 DEF Unrolled
<1> DEFINE fold == CHOOSE g : g = Fold(g)
<1>7. fold = Fold(fold)
  <2> HIDE DEF Fold
  <2>1. QED BY <1>6
<1>8. FoldLeft(BodyLine, none, text) = fold[D]
  BY <1>1 DEF FoldLeft, MapThenFoldSet
<1> HIDE DEF fold
<1>9. \A T \in SUBSET D : fold[T] = IF T = {} THEN none ELSE BodyLine(fold[T \ {Max(T)}], text[Max(T)])
  <2> HIDE DEF none, D
  <2>1. QED BY <1>7
<1> DEFINE P == {n \in Nat : fold[1..n] \in Split}
<1>10. 0 \in P
  <2>1. 1..0 = {} /\ {} \in SUBSET D
    OBVIOUS
  <2>2. fold[{}] = none
    BY <1>9, <2>1
  <2> HIDE DEF none
  <2>3. QED BY <1>0, <2>1, <2>2
<1>11. ASSUME NEW n \in Nat, n < N, n \in P PROVE n + 1 \in P
  <2> DEFINE T == 1..(n + 1)
  <2>1. T \in SUBSET D /\ T # {} /\ n + 1 \in T /\ n + 1 \in D /\ \A y \in T : y \in Nat /\ y <= n + 1
    BY <1>1, <1>11
  <2>2. Max(T) \in T /\ n + 1 <= Max(T)
    <3> HIDE DEF T, D
    <3>1. QED BY <1>2, <2>1
  <2>3. Max(T) = n + 1
    BY <2>1, <2>2
  <2>4. T \ {n + 1} = 1..n
    OBVIOUS
  <2>5. fold[T] = BodyLine(fold[1..n], text[n + 1])
    <3> HIDE DEF T, D, none
    <3>1. QED BY <1>9, <2>1, <2>3, <2>4
  <2>6. fold[1..n] \in Split /\ text[n + 1] \in LineOfText
    BY <1>1, <1>11, <2>1
  <2>7. fold[T] \in Split
    BY <2>5, <2>6, BodyLineKeeps
  <2>8. QED BY <2>7
<1> HIDE DEF P
<1>12. \A n \in 0..N : n \in P
  BY <1>1, <1>10, <1>11, Climb
<1>13. N \in 0..N
  BY <1>1
<1>14. fold[D] \in Split
  BY <1>12, <1>13 DEF P
<1>15. QED BY <1>8, <1>14
-----------------------------------------------------------------------------
(* What the sections of an accepted file are.                              *)
LEMMA SectionFacts ==
  ASSUME NEW file, file.lines \in Seq(LineOfText), Accepted(file),
         NEW s \in DOMAIN REQUIRED_SECTIONS
  PROVE  /\ Contents(file.lines)[s] \in Seq(Characters)
         /\ Contents(file.lines)[s] # << >>
         /\ Contents(file.lines)[s][1] \notin White
<1> DEFINE lines == file.lines
           after == SubSeq(lines, Min(Closings(lines)) + 1, Len(lines))
           split == Sections(lines)
           body == split.bodies[s]
           n == Len(body)
<1>1. Closings(lines) # {} /\ split.found = REQUIRED_SECTIONS
      /\ \A k \in DOMAIN REQUIRED_SECTIONS : Contents(lines)[k] # << >>
  BY DEF Accepted, HasFrontMatter, ValidSections
<1>2. Len(lines) \in Nat /\ DOMAIN lines = 1..Len(lines) /\ lines \in Seq(LineOfText)
  BY LenProperties
<1>3. after \in Seq(LineOfText)
  <2>1. Closings(lines) \subseteq Nat /\ Closings(lines) \subseteq 1..Len(lines)
    BY <1>2 DEF Closings
  <2>2. Min(Closings(lines)) \in Closings(lines)
    BY <1>1, <2>1, LeastFacts
  <2> DEFINE m == Min(Closings(lines)) + 1  k == Len(lines)
  <2>3. m \in Int /\ k \in Int /\ m >= 1
    BY <1>2, <2>1, <2>2
  <2> HIDE DEF m, k
  <2>4. \A i \in m..k : lines[i] \in LineOfText
    <3>1. \A i \in m..k : i \in 1..Len(lines)
      BY <2>3 DEF k
    <3>2. QED BY <1>2, <3>1, ElementOfSeq
  <2>5. SubSeq(lines, m, k) \in Seq(LineOfText)
    BY <2>3, <2>4, SubSeqProperties
  <2>6. QED BY <2>5 DEF m, k
<1>4. split \in Split
  <2>1. split = FoldLeft(BodyLine, [found |-> << >>, bodies |-> << >>], after)
    BY DEF Sections
  <2> HIDE DEF split, after
  <2>2. FoldLeft(BodyLine, [found |-> << >>, bodies |-> << >>], after) \in Split
    BY <1>3, FoldIsSplit
  <2>3. QED BY <2>1, <2>2
<1> HIDE DEF split
<1>5. split.bodies \in Seq(Seq(Characters)) /\ Len(split.bodies) = Len(REQUIRED_SECTIONS)
  BY <1>1, <1>4 DEF Split
<1>6. DOMAIN REQUIRED_SECTIONS = 1..Len(REQUIRED_SECTIONS)
  <2>1. REQUIRED_SECTIONS \in Seq(STRING)
    BY DocumentsAssumption
  <2>2. QED BY <2>1, LenProperties
<1>7. body \in Seq(Characters)
  BY <1>5, <1>6, ElementOfSeq
<1>8. Contents(lines)[s] = Strip(body)
  BY DEF Contents, split
<1> HIDE DEF body
<1>9. n \in 0..n /\ 0 \in 0..n
  BY <1>7, LenProperties
<1>10. /\ Strip(body) \in Seq(Characters)
       /\ Strip(body) # << >> => Strip(body)[1] \notin White
  <2>1. Strip(body) = Stripped(body, 0, n)
    BY DEF Strip
  <2> HIDE DEF n
  <2>2. n \in 0..Len(body)
    BY <1>9 DEF n
  <2>3. QED BY <1>7, <1>9, <2>1, <2>2, StrippedFacts
<1>11. QED BY <1>1, <1>8, <1>10
-----------------------------------------------------------------------------
(* Every corpus that loads.                                                *)
Name == ToSet(Slugs)

(* The rank of what is listed is a position of it.                         *)
LEMMA OrderFacts ==
  ASSUME NEW order \in Seq(STRING), NEW x \in ToSet(order)
  PROVE  Rank(order, x) \in Nat /\ order[Rank(order, x)] = x
<1>1. DOMAIN order = 1..Len(order) /\ Len(order) \in Nat
  BY LenProperties
<1>2. \E k \in DOMAIN order : order[k] = x
  BY DEF ToSet
<1>3. Rank(order, x) \in DOMAIN order /\ order[Rank(order, x)] = x
  BY <1>2 DEF Rank
<1>4. QED BY <1>1, <1>3

\* Of a file that is accepted.
DocumentOK(d) ==
  /\ d.id \in Name /\ d.category \in ToSet(Categories)
  /\ DOMAIN d.sections = DOMAIN REQUIRED_SECTIONS
  /\ \A s \in DOMAIN REQUIRED_SECTIONS :
       /\ d.sections[s] \in Seq(Characters)
       /\ d.sections[s] # << >>
       /\ d.sections[s][1] \notin White

Shelved(fs) == {Document(file) : file \in Discovered(fs)}

(* Its documents are well formed and have ids of their own.                *)
LEMMA ShelvedFacts ==
  ASSUME NEW fs \in Corpora, Loads(fs)
  PROVE  /\ IsFiniteSet(Shelved(fs))
         /\ \A d \in Shelved(fs) : DocumentOK(d)
         /\ \A d, e \in Shelved(fs) : d # e => d.id # e.id
         /\ \A file \in Discovered(fs) :
              Document(file).id = file.stem /\ Document(file).sections = Contents(file.lines)
<1>1. /\ IsFiniteSet(fs)
      /\ \A file \in fs : file.stem \in Name /\ file.lines \in Seq(LineOfText)
  BY CorporaAssumption DEF Name, LineOfText
<1>2. Discovered(fs) \subseteq fs /\ \A file \in Discovered(fs) : file.directory \in ToSet(Categories)
  BY DEF Discovered
<1>3. /\ \A file \in Discovered(fs) : Accepted(file)
      /\ DistinctIds(fs)
  BY DEF Loads
<1>4. IsFiniteSet(Shelved(fs))
  <2> DEFINE D == Discovered(fs)
             f == [file \in D |-> Document(file)]
  <2>1. IsFiniteSet(D)
    BY <1>1, <1>2, FS_Subset
  <2>2. Shelved(fs) = {f[file] : file \in D}
    BY DEF Shelved
  <2> HIDE DEF D, f
  <2>3. QED BY <2>1, <2>2, FiniteImage
<1>5. \A file \in Discovered(fs) :
        /\ Document(file).id = IdOf(file) /\ IdOf(file) = file.stem
        /\ Document(file).sections = Contents(file.lines)
        /\ Document(file).category = file.directory
  BY <1>3 DEF Document, Accepted
<1>6. ASSUME NEW d \in Shelved(fs) PROVE DocumentOK(d)
  <2>1. PICK file \in Discovered(fs) : d = Document(file)
    BY DEF Shelved
  <2>2. file.stem \in Name /\ file.lines \in Seq(LineOfText) /\ Accepted(file)
    BY <1>1, <1>2, <1>3
  <2>3. d.id \in Name /\ d.category \in ToSet(Categories)
    BY <1>2, <1>5, <2>1, <2>2
  <2>4. DOMAIN d.sections = DOMAIN REQUIRED_SECTIONS
    BY <1>5, <2>1 DEF Contents
  <2>5. ASSUME NEW s \in DOMAIN REQUIRED_SECTIONS
        PROVE  d.sections[s] \in Seq(Characters) /\ d.sections[s] # << >> /\ d.sections[s][1] \notin White
    BY <1>5, <2>1, <2>2, SectionFacts
  <2>6. QED BY <2>3, <2>4, <2>5 DEF DocumentOK
<1>7. ASSUME NEW d \in Shelved(fs), NEW e \in Shelved(fs), d # e PROVE d.id # e.id
  <2>1. PICK f \in Discovered(fs), g \in Discovered(fs) : d = Document(f) /\ e = Document(g)
    BY DEF Shelved
  <2>2. f # g
    BY <1>7, <2>1
  <2>3. QED BY <1>3, <1>5, <2>1, <2>2 DEF DistinctIds
<1>8. QED BY <1>4, <1>5, <1>6, <1>7

(* Categories and names order the documents strictly, so that each has a   *)
(* place of its own.                                                       *)
Earlier(D) == {p \in D \X D : Before(p[1], p[2])}

(* So their order by category and id is strict and total.                  *)
LEMMA BeforeOrders ==
  ASSUME NEW D, \A d \in D : DocumentOK(d), \A d, e \in D : d # e => d.id # e.id
  PROVE  StrictOrder(D, Earlier(D))
<1> DEFINE R == Earlier(D)
           c(d) == Rank(Categories, d.category)  i(d) == Rank(Slugs, d.id)
<1>1. Categories \in Seq(STRING) /\ Slugs \in Seq(STRING)
  BY DocumentsAssumption
<1>2. ASSUME NEW d \in D
      PROVE  /\ c(d) \in Nat /\ Categories[c(d)] = d.category
             /\ i(d) \in Nat /\ Slugs[i(d)] = d.id
  BY <1>1, OrderFacts DEF DocumentOK, Name
<1>3. \A d, e \in D : <<d, e>> \in R <=> (c(d) < c(e) \/ (d.category = e.category /\ i(d) < i(e)))
  <2>1. TAKE d, e \in D
  <2>2. <<d, e>> \in R <=> Before(d, e)
    <3>1. <<d, e>> \in D \X D /\ <<d, e>>[1] = d /\ <<d, e>>[2] = e
      OBVIOUS
    <3>2. QED BY <3>1 DEF Earlier
  <2>3. Before(d, e) <=> (c(d) < c(e) \/ (d.category = e.category /\ i(d) < i(e)))
    BY DEF Before
  <2>4. QED BY <2>2, <2>3
<1> HIDE DEF R
<1>4. \A d, e \in D : d.category = e.category => c(d) = c(e)
  OBVIOUS
<1>5. \A d, e \in D : c(d) = c(e) => d.category = e.category
  BY <1>2
<1>6. \A d, e \in D : i(d) = i(e) => d = e
  BY <1>2
<1> HIDE DEF c, i
<1>7. \A d \in D : <<d, d>> \notin R
  BY <1>2, <1>3
<1>8. ASSUME NEW d \in D, NEW e \in D, NEW f \in D, <<d, e>> \in R, <<e, f>> \in R PROVE <<d, f>> \in R
  BY <1>2, <1>3, <1>4, <1>8
<1>9. ASSUME NEW d \in D, NEW e \in D, d # e PROVE <<d, e>> \in R \/ <<e, d>> \in R
  <2>1. c(d) \in Nat /\ c(e) \in Nat /\ i(d) \in Nat /\ i(e) \in Nat /\ i(d) # i(e)
    BY <1>2, <1>6, <1>9
  <2>2. CASE c(d) = c(e)
    <3>1. d.category = e.category /\ (i(d) < i(e) \/ i(e) < i(d))
      BY <1>5, <2>1, <2>2
    <3>2. QED BY <1>3, <3>1
  <2>3. CASE c(d) # c(e)
    <3>1. c(d) < c(e) \/ c(e) < c(d)
      BY <2>1, <2>3
    <3>2. QED BY <1>3, <3>1
  <2>4. QED BY <2>2, <2>3
<1>10. QED BY <1>7, <1>8, <1>9 DEF StrictOrder, R

(* The corpus is the documents, each once.                                 *)
LEMMA CorpusFacts ==
  ASSUME NEW fs \in Corpora, Loads(fs)
  PROVE  /\ Corpus(fs) \in Seq(Shelved(fs))
         /\ \A j, k \in DOMAIN Corpus(fs) : j # k => Corpus(fs)[j] # Corpus(fs)[k]
         /\ \A d \in Shelved(fs) : \E k \in DOMAIN Corpus(fs) : Corpus(fs)[k] = d
<1> DEFINE D == Shelved(fs)
           n == Cardinality(D)
           R == Earlier(D)
           rank == RankIn(D, R)
           e(k) == CHOOSE d \in D : Cardinality({x \in D : Before(x, d)}) = k - 1
           corpus == [k \in 1..n |-> e(k)]
<1>1. Corpus(fs) = corpus
  BY DEF Corpus, Shelved
<1>2. IsFiniteSet(D) /\ StrictOrder(D, R)
  <2> HIDE DEF D
  <2>1. IsFiniteSet(D) /\ (\A d \in D : DocumentOK(d)) /\ (\A d, x \in D : d # x => d.id # x.id)
    BY ShelvedFacts DEF D
  <2>2. QED BY <2>1, BeforeOrders
<1>3. /\ n \in Nat /\ rank \in [D -> 0..(n - 1)]
      /\ \A i, j \in D : <<i, j>> \in R => rank[i] < rank[j]
      /\ \A k \in 0..(n - 1) : \E i \in D : rank[i] = k
  <2> HIDE DEF D, R
  <2>1. QED BY <1>2, RankFacts
<1> HIDE DEF D
<1>4. \A d \in D : rank[d] = Cardinality({x \in D : Before(x, d)})
  <2>1. TAKE d \in D
  <2>2. {x \in D : <<x, d>> \in R} = {x \in D : Before(x, d)}
    BY DEF Earlier
  <2>3. QED BY <2>2 DEF RankIn
<1> HIDE DEF rank, R
<1>5. ASSUME NEW k \in 1..n PROVE e(k) \in D /\ rank[e(k)] = k - 1
  <2>1. k - 1 \in 0..(n - 1)
    BY <1>3
  <2>2. PICK d \in D : rank[d] = k - 1
    BY <1>3, <2>1
  <2>3. \E x \in D : Cardinality({y \in D : Before(y, x)}) = k - 1
    BY <1>4, <2>2
  <2>4. e(k) \in D /\ Cardinality({y \in D : Before(y, e(k))}) = k - 1
    BY <2>3
  <2> HIDE DEF e
  <2>5. QED BY <1>4, <2>4
<1>6. \A d, x \in D : rank[d] = rank[x] => d = x
  <2>1. SUFFICES ASSUME NEW d \in D, NEW x \in D, d # x PROVE rank[d] # rank[x]
    OBVIOUS
  <2>2. <<d, x>> \in R \/ <<x, d>> \in R
    BY <1>2, <2>1 DEF StrictOrder
  <2>3. rank[d] \in Nat /\ rank[x] \in Nat
    BY <1>3
  <2>4. QED BY <1>3, <2>2, <2>3
<1> HIDE DEF e
<1>7. corpus \in Seq(D) /\ DOMAIN corpus = 1..n
  <2>1. \A k \in 1..n : e(k) \in D
    BY <1>5
  <2>2. [k \in 1..n |-> e(k)] \in Seq(D)
    BY <1>3, <2>1, IsASeq
  <2>3. QED BY <2>2
<1>8. ASSUME NEW j \in 1..n, NEW k \in 1..n, j # k PROVE corpus[j] # corpus[k]
  <2>1. rank[e(j)] # rank[e(k)]
    BY <1>3, <1>5, <1>8
  <2>2. QED BY <2>1
<1>9. ASSUME NEW d \in D PROVE \E k \in 1..n : corpus[k] = d
  <2>1. rank[d] \in 0..(n - 1)
    BY <1>3
  <2>2. rank[d] + 1 \in 1..n /\ (rank[d] + 1) - 1 = rank[d]
    BY <1>3, <2>1
  <2>3. e(rank[d] + 1) = d
    BY <1>5, <1>6, <2>2
  <2>4. QED BY <2>2, <2>3
<1> HIDE DEF corpus
<1>10. QED BY <1>1, <1>7, <1>8, <1>9 DEF D
-----------------------------------------------------------------------------
(* One turn of the loop that cuts a section.                               *)
BodiesOf(ps) == [k \in DOMAIN ps |-> BodyOf(ps[k])]

(* The bodies of pieces are texts.                                         *)
LEMMA BodiesAreTexts ==
  ASSUME NEW ps, PiecesOK(ps)
  PROVE  /\ BodiesOf(ps) \in Seq(Seq(Characters)) /\ Len(BodiesOf(ps)) = Len(ps)
         /\ Len(ps) \in Nat /\ DOMAIN ps = 1..Len(ps)
<1> DEFINE n == Len(ps)
           e(k) == BodyOf(ps[k])
<1>1. n \in Nat /\ DOMAIN ps = 1..n
  BY LenProperties DEF PiecesOK
<1>2. \A k \in 1..n : e(k) \in Seq(Characters)
  BY <1>1 DEF PiecesOK, PieceOK
<1>3. BodiesOf(ps) = [k \in 1..n |-> e(k)]
  BY <1>1 DEF BodiesOf
<1> HIDE DEF n, e
<1>4. BodiesOf(ps) \in Seq(Seq(Characters))
  BY <1>1, <1>2, <1>3, IsASeq
<1>5. DOMAIN BodiesOf(ps) = 1..n /\ DOMAIN BodiesOf(ps) = 1..Len(BodiesOf(ps))
  BY <1>3, <1>4, LenProperties
<1>6. Len(BodiesOf(ps)) \in Nat
  BY <1>4, LenProperties
<1>7. Len(BodiesOf(ps)) = n
  BY <1>1, <1>5, <1>6
<1>8. QED BY <1>1, <1>4, <1>7 DEF n

(* A piece that repeats the one before, or nothing, may follow it.         *)
LEMMA OneMorePiece ==
  ASSUME NEW ps, PiecesOK(ps), NEW piece \in Cut, PieceOK(piece),
         \/ Overlap(piece) = << >>
         \/ ps # << >> /\ IsSuffix(Overlap(piece), ps[Len(ps)].text)
  PROVE  /\ PiecesOK(Append(ps, piece))
         /\ BodiesOf(Append(ps, piece)) = BodiesOf(ps) \o <<BodyOf(piece)>>
<1> DEFINE n == Len(ps)
           qs == Append(ps, piece)
<1>1. ps \in Seq(Cut) /\ n \in Nat /\ DOMAIN ps = 1..n
  BY LenProperties DEF PiecesOK
<1>2. /\ qs \in Seq(Cut) /\ Len(qs) = n + 1 /\ DOMAIN qs = 1..(n + 1)
      /\ \A k \in 1..n : qs[k] = ps[k]
      /\ qs[n + 1] = piece
  <2>1. qs \in Seq(Cut) /\ Len(qs) = n + 1 /\ (\A k \in 1..n : qs[k] = ps[k]) /\ qs[n + 1] = piece
    BY <1>1, AppendProperties
  <2>2. DOMAIN qs = 1..Len(qs)
    BY <2>1, LenProperties
  <2>3. QED BY <2>1, <2>2
<1> HIDE DEF qs
<1>3. ASSUME NEW k \in 1..(n + 1)
      PROVE  /\ PieceOK(qs[k])
             /\ k = 1 => Overlap(qs[k]) = << >>
             /\ k > 1 => IsSuffix(Overlap(qs[k]), qs[k - 1].text)
  <2>1. CASE k \in 1..n
    <3>1. qs[k] = ps[k] /\ (k > 1 => k - 1 \in 1..n /\ qs[k - 1] = ps[k - 1])
      BY <1>1, <1>2, <2>1
    <3>2. QED BY <1>1, <2>1, <3>1 DEF PiecesOK
  <2>2. CASE k = n + 1
    <3>1. qs[k] = piece
      BY <1>2, <2>2
    <3>2. CASE k = 1
      <4>1. n = 0
        BY <1>1, <2>2, <3>2
      <4>2. ps = << >>
        BY <1>1, <4>1, EmptySeq
      <4>3. QED BY <3>1, <3>2, <4>2
    <3>3. CASE k # 1
      <4>1. n \in 1..n /\ k - 1 = n
        BY <1>1, <2>2, <3>3
      <4>2. qs[k - 1] = ps[n] /\ ps[n] \in Cut
        BY <1>1, <1>2, <4>1, ElementOfSeq
      <4>3. IsSuffix(Overlap(piece), ps[n].text)
        <5>1. CASE Overlap(piece) = << >>
          <6> DEFINE t == ps[n].text
          <6>1. t \in Seq(Characters) /\ Len(t) \in Nat
            BY <4>2, LenProperties DEF Cut
          <6>2. Len(t) \in 0..Len(t) /\ Len(t) + 1 \in Int /\ Len(t) \in Int /\ Len(t) < Len(t) + 1
            BY <6>1
          <6> HIDE DEF t
          <6>3. Slice(t, Len(t), Len(t)) = << >>
            BY <6>2, SubSeqEmpty DEF Slice
          <6>4. IsSuffix(Slice(t, Len(t), Len(t)), t)
            BY <6>1, <6>2, SuffixOfText
          <6>5. QED BY <5>1, <6>3, <6>4 DEF t
        <5>2. CASE Overlap(piece) # << >>
          BY <5>2
        <5>3. QED BY <5>1, <5>2
      <4>4. QED BY <3>1, <3>3, <4>2, <4>3
    <3>4. QED BY <3>2, <3>3
  <2>3. QED BY <1>1, <2>1, <2>2
<1>4. PiecesOK(qs)
  BY <1>2, <1>3 DEF PiecesOK
<1>5. BodiesOf(qs) = BodiesOf(ps) \o <<BodyOf(piece)>>
  <2> DEFINE a == BodiesOf(ps)  b == <<BodyOf(piece)>>  c == BodiesOf(qs)
  <2>1. a \in Seq(Seq(Characters)) /\ Len(a) = n /\ \A k \in 1..n : a[k] = BodyOf(ps[k])
    BY <1>1, BodiesAreTexts DEF BodiesOf
  <2>2. b \in Seq(Seq(Characters)) /\ Len(b) = 1 /\ b[1] = BodyOf(piece)
    BY DEF PieceOK
  <2>3. c \in Seq(Seq(Characters)) /\ Len(c) = n + 1 /\ \A k \in 1..(n + 1) : c[k] = BodyOf(qs[k])
    BY <1>2, <1>4, BodiesAreTexts DEF BodiesOf
  <2> HIDE DEF a, b, c
  <2>4. /\ a \o b \in Seq(Seq(Characters)) /\ Len(a \o b) = n + 1
        /\ \A k \in 1..(n + 1) : (a \o b)[k] = IF k <= n THEN a[k] ELSE b[k - n]
    <3>1. /\ a \o b \in Seq(Seq(Characters)) /\ Len(a \o b) = Len(a) + Len(b)
          /\ \A k \in 1..(Len(a) + Len(b)) : (a \o b)[k] = IF k <= Len(a) THEN a[k] ELSE b[k - Len(a)]
      <4>1. a \in Seq(Seq(Characters)) /\ b \in Seq(Seq(Characters))
        BY <2>1, <2>2
      <4>2. QED BY <4>1, ConcatProperties
    <3>2. Len(a) = n /\ Len(a) + Len(b) = n + 1
      BY <2>1, <2>2
    <3>3. QED BY <3>1, <3>2
  <2>5. \A k \in 1..(n + 1) : c[k] = (a \o b)[k]
    <3>1. TAKE k \in 1..(n + 1)
    <3>2. CASE k <= n
      <4>1. k \in 1..n
        BY <1>1, <3>2
      <4>2. QED BY <1>2, <2>1, <2>3, <2>4, <3>2, <4>1
    <3>3. CASE ~(k <= n)
      <4>1. k = n + 1 /\ k - n = 1
        BY <1>1, <3>3
      <4>2. QED BY <1>2, <2>2, <2>3, <2>4, <3>3, <4>1
    <3>4. QED BY <3>2, <3>3
  <2>6. c = a \o b
    BY <2>3, <2>4, <2>5, SeqEqual
  <2>7. QED BY <2>6 DEF a, b, c
<1>6. QED BY <1>4, <1>5 DEF qs

(* One turn keeps what is true of the pieces and moves on.                 *)
LEMMA CutTurn ==
  ASSUME NEW t \in Seq(Characters), NEW begin \in Nat, begin < Len(t), NEW ps, PiecesOK(ps),
         Faces(FlattenSeq(BodiesOf(ps))) = Faces(Slice(t, 0, begin))
  PROVE  LET end == PieceEnd(t, begin, MaxChars - Len(Prefix(ps)))
             qs == WithPiece(ps, Prefix(ps), Stripped(t, begin, end))
         IN /\ end \in (begin + 1)..Len(t)
            /\ PiecesOK(qs)
            /\ Faces(FlattenSeq(BodiesOf(qs))) = Faces(Slice(t, 0, end))
<1> DEFINE prefix == Prefix(ps)
           budget == MaxChars - Len(prefix)
           end == PieceEnd(t, begin, budget)
           x == Stripped(t, begin, end)
           qs == WithPiece(ps, prefix, x)
<1>1. /\ prefix \in Seq(Characters) /\ Len(prefix) \in 0..(MaxChars - 1) /\ MaxChars \in Nat
      /\ Len(t) \in Nat
  BY PrefixFacts, ChunkAssumption, LenProperties
<1>2. budget \in Nat /\ budget >= 1 /\ budget + Len(prefix) = MaxChars /\ Len(prefix) \in Nat
  BY <1>1
<1> HIDE DEF budget, prefix
<1>3. end \in (begin + 1)..Len(t) /\ end <= begin + budget
  BY <1>2, PieceEndFacts
<1> HIDE DEF end
<1>4. /\ end \in 0..Len(t) /\ begin \in 0..end /\ 0 \in 0..begin /\ end - begin <= budget
  BY <1>1, <1>2, <1>3
<1>5. /\ x \in Seq(Characters) /\ Len(x) <= end - begin
      /\ Faces(x) = Faces(Slice(t, begin, end))
      /\ x # << >> => x[1] \notin White /\ x[Len(x)] \notin White
  BY <1>4, StrippedFacts
<1> HIDE DEF x
<1>6. Faces(Slice(t, 0, end)) = Faces(Slice(t, 0, begin)) \o Faces(Slice(t, begin, end))
  BY <1>4, FacesOfSlices
<1>7. PiecesOK(qs) /\ Faces(FlattenSeq(BodiesOf(qs))) = Faces(Slice(t, 0, end))
  <2>1. CASE x = << >>
    <3>1. qs = ps
      BY <2>1 DEF WithPiece
    <3>2. Faces(x) = << >>
      <4>1. x \in Seq(Characters) /\ \A k \in 1..Len(x) : x[k] \in White
        BY <2>1, <1>5, EmptySeq
      <4>2. QED BY <4>1, FacesOfBlank
    <3>3. Faces(Slice(t, 0, begin)) \in Seq(Characters)
      <4>1. begin \in 0..Len(t)
        BY <1>1, <1>4
      <4>2. Slice(t, 0, begin) \in Seq(Characters)
        BY <1>4, <4>1, SliceFacts
      <4>3. QED BY <4>2, FacesAreText
    <3>4. Faces(Slice(t, 0, end)) = Faces(Slice(t, 0, begin))
      BY <1>5, <1>6, <3>2, <3>3, ConcatEmptySeq
    <3> HIDE DEF qs
    <3>5. QED BY <3>1, <3>4
  <2>2. CASE x # << >>
    <3>1. Len(x) + Len(prefix) <= MaxChars
      <4>1. Len(x) \in Nat
        BY <1>5, LenProperties
      <4>2. QED BY <1>1, <1>2, <1>4, <1>5, <4>1
    <3>2. PICK piece \in Cut :
            /\ WithPiece(ps, Prefix(ps), x) = Append(ps, piece)
            /\ BodyOf(piece) = x /\ PieceOK(piece)
            /\ \/ Overlap(piece) = << >>
               \/ ps # << >> /\ IsSuffix(Overlap(piece), ps[Len(ps)].text)
      <4>1. Len(x) + Len(Prefix(ps)) <= MaxChars
        BY <3>1 DEF prefix
      <4>2. QED BY <1>5, <2>2, <4>1, NewPiece
    <3>3. qs = Append(ps, piece)
      BY <3>2 DEF prefix
    <3> HIDE DEF qs
    <3>4. PiecesOK(qs) /\ BodiesOf(qs) = BodiesOf(ps) \o <<x>>
      BY <3>2, <3>3, OneMorePiece
    <3>5. FlattenSeq(BodiesOf(qs)) = FlattenSeq(BodiesOf(ps)) \o x
      <4> DEFINE a == BodiesOf(ps)  b == <<x>>
      <4>1. a \in Seq(Seq(Characters)) /\ b \in Seq(Seq(Characters))
        BY <1>5, BodiesAreTexts
      <4>2. FlattenSeq(b) = x
        BY <1>5, FlattenOne
      <4> HIDE DEF a, b
      <4>3. FlattenSeq(a \o b) = FlattenSeq(a) \o FlattenSeq(b)
        BY <4>1, FlattenConcat
      <4>4. QED BY <3>4, <4>2, <4>3 DEF a, b
    <3>6. FlattenSeq(BodiesOf(ps)) \in Seq(Characters)
      BY BodiesAreTexts, FlattenIsText
    <3>7. Faces(FlattenSeq(BodiesOf(ps)) \o x) = Faces(FlattenSeq(BodiesOf(ps))) \o Faces(x)
      BY <1>5, <3>6, FacesConcat
    <3>8. QED BY <1>5, <1>6, <3>4, <3>5, <3>7
  <2>3. QED BY <2>1, <2>2
<1>8. QED BY <1>3, <1>7 DEF end, x, budget, prefix
-----------------------------------------------------------------------------
(* prepare.  Begun: it has a corpus and may still come to an index; a      *)
(* section is Done once its pieces have become chunks.                     *)
Begun == stage \in {"chunk", "model", "embed", "used"}

Done(d, s) == stage = "chunk" => d < doc \/ (d = doc /\ s < sec)

InCorpus(d, s) == d \in DOMAIN documents /\ s \in DOMAIN REQUIRED_SECTIONS

Stages ==
  {"by_hand", "load", "chunk", "model", "embed", "used",
   "dependency_missing", "corpus_unavailable", "model_unavailable", "index_failed"}

(* Where prepare is, and what it has not touched.                          *)
Control ==
  /\ stage \in Stages
  /\ stage # "by_hand" => files \in Corpora
  /\ stage \notin {"by_hand", "used"} => records = << >> /\ index = << >>
                                         /\ dimension = None /\ model_name = None
  /\ stage \in {"by_hand", "load"} => /\ doc = 1 /\ sec = 1 /\ start = 0
                                      /\ pieces = << >> /\ chunks = << >>
  /\ stage \in {"by_hand", "load", "chunk", "model"} => encoded = << >>
  /\ Begun => Loads(files) /\ documents = Corpus(files) /\ documents # << >>

(* Where it is in the corpus, and what it has cut of the section there.    *)
CutOK ==
  stage = "chunk" =>
    /\ InCorpus(doc, sec) /\ start \in 0..Len(Body)
    /\ PiecesOK(pieces)
    /\ Faces(FlattenSeq(BodiesOf(pieces))) = Faces(Slice(Body, 0, start))

Chunk ==
  [chunk_id : Ids, document : Name, section : DOMAIN REQUIRED_SECTIONS,
   text : Seq(Characters), overlap : Nat]

ChunkOK(chunk) ==
  /\ chunk \in Chunk /\ Len(chunk.text) \in 1..MaxChars
  /\ BodyOf(chunk) \in Seq(Characters)

DistinctChunkIds == \A i, j \in DOMAIN chunks : i # j => chunks[i].chunk_id # chunks[j].chunk_id

ChunksOK ==
  /\ chunks \in Seq(Chunk) /\ \A i \in DOMAIN chunks : ChunkOK(chunks[i])
  /\ DistinctChunkIds

(* Each chunk is of a section that is done, with the index it has there.   *)
ComesFrom(chunk, d, s, k) ==
  /\ chunk.document = documents[d].id /\ chunk.section = s
  /\ chunk.chunk_id = ChunkId(documents[d].id, s, k)

Placed ==
  Begun => \A i \in DOMAIN chunks :
             \E d \in DOMAIN documents, s \in DOMAIN REQUIRED_SECTIONS, k \in 0..(IndexLimit - 1) :
               Done(d, s) /\ ComesFrom(chunks[i], d, s, k)

(* The text of a section is there once it is done, and not before.         *)
Within(cs, document, s) == [k \in DOMAIN cs |-> BodyWithin(cs[k], document, s)]

TextIs(d, s, text) == Faces(FlattenSeq(Within(chunks, documents[d].id, s))) = text

Covered ==
  Begun => \A d \in DOMAIN documents, s \in DOMAIN REQUIRED_SECTIONS :
             TextIs(d, s, IF Done(d, s) THEN Faces(documents[d].sections[s]) ELSE << >>)

Embedded ==
  Begun => /\ encoded \in Seq(Vectors) /\ Len(encoded) <= Len(chunks)
           /\ \A k \in 1..Len(encoded) : encoded[k] = Encode(Input(chunks[k]))

Filled ==
  stage = "used" =>
    records = [k \in DOMAIN chunks |->
                 [chunk_id |-> chunks[k].chunk_id, model_name |-> Model,
                  vector |-> Encode(Input(chunks[k]))]]

KInv == Control /\ CutOK /\ ChunksOK /\ Placed /\ Covered /\ Embedded /\ Filled

(* What holds of the documents of a corpus that loaded.                    *)
LEMMA LoadedFacts ==
  ASSUME Control, Begun
  PROVE  /\ documents \in Seq(Shelved(files)) /\ Len(documents) \in Nat
         /\ DOMAIN documents = 1..Len(documents) /\ Len(documents) >= 1
         /\ \A d \in DOMAIN documents : DocumentOK(documents[d])
         /\ \A d, e \in DOMAIN documents : d # e => documents[d].id # documents[e].id
<1>1. files \in Corpora /\ Loads(files) /\ documents = Corpus(files) /\ documents # << >>
  BY DEF Control, Begun
<1>2. documents \in Seq(Shelved(files))
  BY <1>1, CorpusFacts
<1>3. Len(documents) \in Nat /\ DOMAIN documents = 1..Len(documents) /\ Len(documents) >= 1
  BY <1>1, <1>2, EmptySeq, LenProperties
<1>4. \A d \in DOMAIN documents : documents[d] \in Shelved(files)
  BY <1>2, <1>3, ElementOfSeq
<1>5. /\ \A d \in Shelved(files) : DocumentOK(d)
      /\ \A d, e \in Shelved(files) : d # e => d.id # e.id
  BY <1>1, ShelvedFacts
<1>6. \A d, e \in DOMAIN documents : d # e => documents[d] # documents[e]
  BY <1>1, CorpusFacts
<1>7. QED BY <1>2, <1>3, <1>4, <1>5, <1>6

(* There is a section.                                                     *)
LEMMA SectionsAre ==
  /\ Len(REQUIRED_SECTIONS) \in Nat /\ Len(REQUIRED_SECTIONS) >= 1
  /\ DOMAIN REQUIRED_SECTIONS = 1..Len(REQUIRED_SECTIONS)
<1>1. REQUIRED_SECTIONS \in Seq(STRING) /\ REQUIRED_SECTIONS # << >>
  BY DocumentsAssumption
<1>2. QED BY <1>1, EmptySeq, LenProperties

(* The section that is being cut is of a document of the corpus.           *)
LEMMA BodyFacts ==
  ASSUME Control, CutOK, stage = "chunk"
  PROVE  /\ Body \in Seq(Characters) /\ Len(Body) \in Nat /\ start \in 0..Len(Body)
         /\ Body = documents[doc].sections[sec] /\ DocumentOK(documents[doc])
         /\ doc \in 1..Len(documents) /\ sec \in 1..Len(REQUIRED_SECTIONS)
<1>1. Begun
  BY DEF Begun
<1>2. doc \in DOMAIN documents /\ sec \in DOMAIN REQUIRED_SECTIONS /\ start \in 0..Len(Body)
  BY DEF CutOK, InCorpus
<1>3. DocumentOK(documents[doc]) /\ doc \in 1..Len(documents) /\ sec \in 1..Len(REQUIRED_SECTIONS)
  BY <1>1, <1>2, LoadedFacts, SectionsAre
<1>4. Body \in Seq(Characters)
  BY <1>2, <1>3 DEF Body, DocumentOK
<1>5. Len(Body) \in Nat
  BY <1>4, LenProperties
<1>6. QED BY <1>2, <1>3, <1>4, <1>5 DEF Body
-----------------------------------------------------------------------------
(* Nothing has no faces.                                                   *)
LEMMA NoText ==
  Faces(<< >>) = << >> /\ FlattenSeq(<< >>) = << >>
<1> DEFINE none == << >>
<1>1. none \in Seq(Characters) /\ \A k \in 1..Len(none) : none[k] \in White
  OBVIOUS
<1>2. none \in Seq(Seq(Characters)) /\ \A k \in 1..Len(none) : none[k] = << >>
  OBVIOUS
<1> HIDE DEF none
<1>3. Faces(none) = << >>
  BY <1>1, FacesOfBlank
<1>4. FlattenSeq(none) = << >>
  BY <1>2, FlattenEmpty
<1>5. QED BY <1>3, <1>4 DEF none

(* Without chunks there is no text.                                        *)
LEMMA NoChunks ==
  ASSUME NEW cs, cs = << >>, NEW d, NEW s
  PROVE  Faces(FlattenSeq(Within(cs, d, s))) = << >>
<1>1. Within(cs, d, s) = << >>
  BY DEF Within
<1>2. QED BY <1>1, NoText

(* Before prepare is called.                                               *)
LEMMA KInvStarts == KInit => KInv
<1> SUFFICES ASSUME KInit PROVE KInv
  OBVIOUS
<1>1. /\ stage \in {"by_hand", "load"} /\ files \in IF stage = "load" THEN Corpora ELSE {{}}
      /\ documents = << >> /\ chunks = << >> /\ encoded = << >>
      /\ doc = 1 /\ sec = 1 /\ start = 0 /\ pieces = << >>
      /\ records = << >> /\ index = << >> /\ dimension = None /\ model_name = None
  BY DEF KInit, Prepare, StoreInit
<1>2. ~Begun /\ stage # "chunk" /\ stage # "used"
  BY <1>1 DEF Begun
<1>3. Control
  BY <1>1, <1>2 DEF Control, Stages
<1>4. ChunksOK
  BY <1>1 DEF ChunksOK, DistinctChunkIds
<1>5. QED BY <1>2, <1>3, <1>4 DEF KInv, CutOK, Placed, Covered, Embedded, Filled
-----------------------------------------------------------------------------
Ended == {"dependency_missing", "corpus_unavailable", "model_unavailable", "index_failed"}

\* What records the index, and it does not depend on the cached matrix.
Kept == UNCHANGED <<records, index, dimension, model_name>>

(* A step that leaves the store alone leaves the index alone.              *)
LEMMA StoreKept == UNCHANGED store => Kept
BY DEF store, Kept

(* A search fills caches, which the invariant does not read.               *)
LEMMA NothingChanges == KInv /\ Kept /\ UNCHANGED knowledge => KInv'
<1> SUFFICES ASSUME KInv, Kept, UNCHANGED knowledge PROVE KInv'
  OBVIOUS
<1>1. /\ records' = records /\ index' = index /\ dimension' = dimension /\ model_name' = model_name
      /\ stage' = stage /\ files' = files /\ documents' = documents /\ doc' = doc /\ sec' = sec
      /\ start' = start /\ pieces' = pieces /\ chunks' = chunks /\ encoded' = encoded
  BY DEF Kept, knowledge, cutting
<1>2. Control' /\ ChunksOK' /\ Filled'
  BY <1>1 DEF KInv, Control, ChunksOK, Filled, Begun, DistinctChunkIds
<1>3. CutOK'
  BY <1>1 DEF KInv, CutOK, InCorpus, Body
<1>4. Placed' /\ Covered' /\ Embedded'
  BY <1>1 DEF KInv, Placed, Covered, Embedded, Begun, Done, ComesFrom, TextIs
<1>5. QED BY <1>2, <1>3, <1>4 DEF KInv

(* prepare ends with a status that says why: the store is empty still.     *)
LEMMA EndKeeps ==
  ASSUME KInv, stage # "by_hand", stage # "used", NEW status \in Ended, EndsWith(status)
  PROVE  KInv'
<1>1. /\ stage' = status /\ status \in Ended /\ files' = files /\ chunks' = chunks
      /\ records' = records /\ index' = index /\ dimension' = dimension /\ model_name' = model_name
  BY DEF EndsWith, store
<1>2. /\ ~Begun' /\ stage' \notin {"by_hand", "load", "chunk", "model", "embed", "used"}
      /\ stage' \in Stages
  BY <1>1 DEF Begun, Ended, Stages
<1>3. Control'
  BY <1>1, <1>2 DEF KInv, Control
<1>4. ChunksOK'
  BY <1>1 DEF KInv, ChunksOK, DistinctChunkIds
<1>5. CutOK' /\ Placed' /\ Covered' /\ Embedded' /\ Filled'
  BY <1>2 DEF CutOK, Placed, Covered, Embedded, Filled
<1>6. QED BY <1>3, <1>4, <1>5 DEF KInv

(* A section of which nothing is cut yet.                                  *)
LEMMA NothingCut ==
  ASSUME NEW t \in Seq(Characters)
  PROVE  /\ PiecesOK(<< >>)
         /\ Faces(FlattenSeq(BodiesOf(<< >>))) = Faces(Slice(t, 0, 0))
<1> DEFINE none == << >>
<1>1. none \in Seq(Cut) /\ DOMAIN none = {} /\ \A k \in DOMAIN none : FALSE
  OBVIOUS
<1>2. BodiesOf(<< >>) = << >>
  BY DEF BodiesOf
<1>3. Slice(t, 0, 0) = << >>
  <2>1. SubSeq(t, 1, 0) = << >>
    BY SubSeqEmpty
  <2>2. QED BY <2>1 DEF Slice
<1> HIDE DEF none
<1>4. PiecesOK(none)
  BY <1>1 DEF PiecesOK
<1>5. QED BY <1>2, <1>3, <1>4, NoText DEF none

(* The corpus is loaded: nothing of it is done.                            *)
LEMMA LoadCorpusKeeps == KInv /\ LoadCorpus => KInv'
<1> SUFFICES ASSUME KInv, LoadCorpus PROVE KInv'
  OBVIOUS
<1>1. stage = "load"
  BY DEF LoadCorpus
<1>2. CASE ~(Loads(files) /\ Corpus(files) # << >>)
  <2>1. EndsWith("corpus_unavailable")
    BY <1>2 DEF LoadCorpus
  <2>2. "corpus_unavailable" \in Ended
    BY DEF Ended
  <2>3. QED BY <1>1, <2>1, <2>2, EndKeeps
<1>3. CASE Loads(files) /\ Corpus(files) # << >>
  <2>1. /\ stage' = "chunk" /\ documents' = Corpus(files) /\ files' = files
        /\ records' = records /\ index' = index /\ dimension' = dimension /\ model_name' = model_name
        /\ doc' = doc /\ sec' = sec /\ start' = start /\ pieces' = pieces
        /\ chunks' = chunks /\ encoded' = encoded
    BY <1>3 DEF LoadCorpus, store, cutting
  <2>2. /\ doc' = 1 /\ sec' = 1 /\ start' = 0 /\ pieces' = << >> /\ chunks' = << >> /\ encoded' = << >>
    BY <1>1, <2>1 DEF KInv, Control
  <2>3. Control'
    BY <1>1, <1>3, <2>1, <2>2 DEF KInv, Control, Begun, Stages
  <2>4. Begun' /\ stage' # "used"
    BY <2>1 DEF Begun
  <2>5. /\ documents' \in Seq(Shelved(files')) /\ DOMAIN documents' = 1..Len(documents')
        /\ Len(documents') \in Nat /\ Len(documents') >= 1
        /\ \A d \in DOMAIN documents' : DocumentOK(documents'[d])
    <3>1. files \in Corpora /\ documents' = Corpus(files) /\ documents' # << >>
      BY <1>1, <1>3, <2>1 DEF KInv, Control
    <3>2. documents' \in Seq(Shelved(files))
      BY <1>3, <3>1, CorpusFacts
    <3>3. Len(documents') \in Nat /\ DOMAIN documents' = 1..Len(documents') /\ Len(documents') >= 1
      BY <3>1, <3>2, EmptySeq, LenProperties
    <3>4. \A d \in DOMAIN documents' : documents'[d] \in Shelved(files)
      BY <3>2, <3>3, ElementOfSeq
    <3>5. \A d \in Shelved(files) : DocumentOK(d)
      BY <1>3, <3>1, ShelvedFacts
    <3>6. QED BY <2>1, <3>2, <3>3, <3>4, <3>5
  <2>6. 1 \in DOMAIN documents' /\ 1 \in DOMAIN REQUIRED_SECTIONS
    BY <2>5, SectionsAre
  <2>7. CutOK'
    <3>1. Body' = documents'[1].sections[1]
      BY <2>2 DEF Body
    <3>2. Body' \in Seq(Characters)
      BY <2>5, <2>6, <3>1 DEF DocumentOK
    <3>3. 0 \in 0..Len(Body')
      BY <3>2, LenProperties
    <3>4. PiecesOK(pieces') /\ Faces(FlattenSeq(BodiesOf(pieces'))) = Faces(Slice(Body', 0, 0))
      BY <2>2, <3>2, NothingCut
    <3>5. QED BY <2>2, <2>6, <3>3, <3>4 DEF CutOK, InCorpus
  <2>8. ChunksOK' /\ Placed'
    BY <2>2 DEF ChunksOK, DistinctChunkIds, Placed
  <2>9. Covered'
    <3>1. ASSUME NEW d \in DOMAIN documents', NEW s \in DOMAIN REQUIRED_SECTIONS
          PROVE  TextIs(d, s, << >>)' /\ ~Done(d, s)'
      <4>1. d \in Nat /\ s \in Nat /\ d >= 1 /\ s >= 1
        BY <2>5, SectionsAre
      <4>2. ~Done(d, s)'
        BY <2>1, <2>2, <4>1 DEF Done
      <4>3. Faces(FlattenSeq(Within(chunks', documents'[d].id, s))) = << >>
        BY <2>2, NoChunks
      <4>4. QED BY <4>2, <4>3 DEF TextIs
    <3>2. QED BY <3>1 DEF Covered
  <2>10. Embedded'
    BY <2>2 DEF Embedded
  <2>11. QED BY <2>3, <2>4, <2>7, <2>8, <2>9, <2>10 DEF KInv, Filled
<1>4. QED BY <1>2, <1>3

(* A piece is cut, by CutTurn.                                             *)
LEMMA CutPieceKeeps == KInv /\ CutPiece => KInv'
<1> SUFFICES ASSUME KInv, CutPiece PROVE KInv'
  OBVIOUS
<1>1. /\ stage = "chunk" /\ start < Len(Body)
      /\ start' = PieceEnd(Body, start, MaxChars - Len(Prefix(pieces)))
      /\ pieces' = WithPiece(pieces, Prefix(pieces), Stripped(Body, start, start'))
      /\ stage' = stage /\ files' = files /\ documents' = documents /\ doc' = doc /\ sec' = sec
      /\ chunks' = chunks /\ encoded' = encoded
      /\ records' = records /\ index' = index /\ dimension' = dimension /\ model_name' = model_name
  <2>1. PICK prefix \in {Prefix(pieces)} :
          /\ start' = PieceEnd(Body, start, MaxChars - Len(prefix))
          /\ pieces' = WithPiece(pieces, prefix, Stripped(Body, start, start'))
    BY DEF CutPiece
  <2>2. QED BY <2>1 DEF CutPiece, store
<1>2. /\ Body \in Seq(Characters) /\ Len(Body) \in Nat /\ start \in 0..Len(Body)
  BY <1>1, BodyFacts DEF KInv
<1>3. Body' = Body
  BY <1>1 DEF Body
<1>4. CutOK'
  <2> DEFINE t == Body  begin == start  ps == pieces
  <2>1. /\ t \in Seq(Characters) /\ begin \in Nat /\ begin < Len(t) /\ PiecesOK(ps)
        /\ Faces(FlattenSeq(BodiesOf(ps))) = Faces(Slice(t, 0, begin))
        /\ InCorpus(doc, sec)
    BY <1>1, <1>2 DEF KInv, CutOK
  <2>2. /\ start' = PieceEnd(t, begin, MaxChars - Len(Prefix(ps)))
        /\ pieces' = WithPiece(ps, Prefix(ps), Stripped(t, begin, start'))
    BY <1>1
  <2> HIDE DEF t, begin, ps
  <2>3. /\ start' \in (begin + 1)..Len(t) /\ PiecesOK(pieces')
        /\ Faces(FlattenSeq(BodiesOf(pieces'))) = Faces(Slice(t, 0, start'))
    BY <2>1, <2>2, CutTurn
  <2>4. start' \in 0..Len(t)
    BY <2>1, <2>3
  <2>5. InCorpus(doc, sec)'
    BY <1>1, <2>1 DEF InCorpus
  <2>6. QED BY <1>3, <2>3, <2>4, <2>5 DEF CutOK, t
<1>5. Control'
  BY <1>1 DEF KInv, Control, Begun
<1>6. ChunksOK' /\ Filled'
  BY <1>1 DEF KInv, ChunksOK, DistinctChunkIds, Filled
<1>7. Placed' /\ Covered' /\ Embedded'
  BY <1>1 DEF KInv, Placed, Covered, Embedded, Begun, Done, ComesFrom, TextIs
<1>8. QED BY <1>4, <1>5, <1>6, <1>7 DEF KInv
-----------------------------------------------------------------------------
(* The text of a section in a list of chunks.                              *)
AreChunks(cs) == cs \in Seq(Chunk) /\ \A i \in DOMAIN cs : ChunkOK(cs[i])

(* The bodies of the chunks of a section, nothing for the others.          *)
LEMMA WithinFacts ==
  ASSUME NEW cs, AreChunks(cs), NEW d, NEW s
  PROVE  /\ Within(cs, d, s) \in Seq(Seq(Characters))
         /\ Len(Within(cs, d, s)) = Len(cs) /\ Len(cs) \in Nat
         /\ DOMAIN cs = 1..Len(cs)
         /\ \A k \in 1..Len(cs) : Within(cs, d, s)[k] = BodyWithin(cs[k], d, s)
<1> DEFINE n == Len(cs)
           e(k) == BodyWithin(cs[k], d, s)
<1>1. n \in Nat /\ DOMAIN cs = 1..n
  BY LenProperties DEF AreChunks
<1>2. ASSUME NEW k \in 1..n PROVE e(k) \in Seq(Characters)
  <2>1. BodyOf(cs[k]) \in Seq(Characters)
    BY <1>1, <1>2 DEF AreChunks, ChunkOK
  <2>2. << >> \in Seq(Characters)
    BY EmptySeq
  <2>3. QED BY <2>1, <2>2 DEF BodyWithin
<1>3. Within(cs, d, s) = [k \in 1..n |-> e(k)]
  BY <1>1 DEF Within
<1> HIDE DEF e, n
<1>4. [k \in 1..n |-> e(k)] \in [1..n -> Seq(Characters)]
  BY <1>2
<1>5. Within(cs, d, s) \in Seq(Seq(Characters)) /\ Len(Within(cs, d, s)) = n
  BY <1>1, <1>3, <1>4, FunctionIsSeq
<1>6. \A k \in 1..n : Within(cs, d, s)[k] = e(k)
  BY <1>3
<1>7. QED BY <1>1, <1>5, <1>6 DEF e, n

(* Chunks after chunks are chunks.                                         *)
LEMMA JoinedChunks ==
  ASSUME NEW cs, AreChunks(cs), NEW ds, AreChunks(ds)
  PROVE  AreChunks(cs \o ds)
<1>1. cs \in Seq(Chunk) /\ ds \in Seq(Chunk) /\ Len(cs) \in Nat /\ Len(ds) \in Nat
      /\ DOMAIN cs = 1..Len(cs) /\ DOMAIN ds = 1..Len(ds)
  BY LenProperties DEF AreChunks
<1>2. /\ cs \o ds \in Seq(Chunk) /\ Len(cs \o ds) = Len(cs) + Len(ds)
      /\ \A i \in 1..(Len(cs) + Len(ds)) :
           (cs \o ds)[i] = IF i <= Len(cs) THEN cs[i] ELSE ds[i - Len(cs)]
  BY <1>1, ConcatProperties
<1>3. DOMAIN (cs \o ds) = 1..(Len(cs) + Len(ds))
  BY <1>2, LenProperties
<1>4. ASSUME NEW i \in 1..(Len(cs) + Len(ds)) PROVE ChunkOK((cs \o ds)[i])
  <2>1. CASE i <= Len(cs)
    <3>1. i \in DOMAIN cs /\ (cs \o ds)[i] = cs[i]
      BY <1>1, <1>2, <2>1
    <3>2. QED BY <3>1 DEF AreChunks
  <2>2. CASE ~(i <= Len(cs))
    <3>1. i - Len(cs) \in DOMAIN ds /\ (cs \o ds)[i] = ds[i - Len(cs)]
      BY <1>1, <1>2, <2>2
    <3>2. QED BY <3>1 DEF AreChunks
  <2>3. QED BY <2>1, <2>2
<1>5. QED BY <1>2, <1>3, <1>4 DEF AreChunks

(* The text of chunks after chunks is text after text.                     *)
LEMMA WithinConcat ==
  ASSUME NEW cs, AreChunks(cs), NEW ds, AreChunks(ds), NEW d, NEW s
  PROVE  Faces(FlattenSeq(Within(cs \o ds, d, s)))
           = Faces(FlattenSeq(Within(cs, d, s))) \o Faces(FlattenSeq(Within(ds, d, s)))
<1> DEFINE es == cs \o ds
           S == Within(cs, d, s)  T == Within(ds, d, s)  U == Within(es, d, s)
           m == Len(cs)  n == Len(ds)
<1>1. AreChunks(es)
  BY JoinedChunks
<1>2. m \in Nat /\ n \in Nat /\ Len(es) = m + n
      /\ \A i \in 1..(m + n) : es[i] = IF i <= m THEN cs[i] ELSE ds[i - m]
  BY LenProperties, ConcatProperties DEF AreChunks
<1> HIDE DEF es
<1>3. /\ S \in Seq(Seq(Characters)) /\ Len(S) = m
      /\ T \in Seq(Seq(Characters)) /\ Len(T) = n
      /\ \A k \in 1..m : S[k] = BodyWithin(cs[k], d, s)
      /\ \A k \in 1..n : T[k] = BodyWithin(ds[k], d, s)
  BY WithinFacts
<1>4. /\ U \in Seq(Seq(Characters)) /\ Len(U) = m + n
      /\ \A k \in 1..(m + n) : U[k] = BodyWithin(es[k], d, s)
  BY <1>1, <1>2, WithinFacts
<1> HIDE DEF S, T, U, m, n
<1>5. /\ S \o T \in Seq(Seq(Characters)) /\ Len(S \o T) = m + n
      /\ \A i \in 1..(m + n) : (S \o T)[i] = IF i <= m THEN S[i] ELSE T[i - m]
  BY <1>3, ConcatProperties
<1>6. ASSUME NEW i \in 1..(m + n) PROVE U[i] = (S \o T)[i]
  <2>1. CASE i <= m
    <3>1. i \in 1..m
      BY <1>2, <2>1
    <3>2. es[i] = cs[i] /\ (S \o T)[i] = S[i]
      BY <1>2, <1>5, <2>1
    <3>3. S[i] = BodyWithin(cs[i], d, s) /\ U[i] = BodyWithin(es[i], d, s)
      BY <1>3, <1>4, <3>1
    <3>4. QED BY <3>2, <3>3
  <2>2. CASE ~(i <= m)
    <3>1. i - m \in 1..n
      BY <1>2, <2>2
    <3>2. es[i] = ds[i - m] /\ (S \o T)[i] = T[i - m]
      BY <1>2, <1>5, <2>2
    <3>3. T[i - m] = BodyWithin(ds[i - m], d, s) /\ U[i] = BodyWithin(es[i], d, s)
      BY <1>3, <1>4, <3>1
    <3>4. QED BY <3>2, <3>3
  <2>3. QED BY <2>1, <2>2
<1>7. U = S \o T
  BY <1>4, <1>5, <1>6, SeqEqual
<1>8. FlattenSeq(S \o T) = FlattenSeq(S) \o FlattenSeq(T)
      /\ FlattenSeq(S) \in Seq(Characters) /\ FlattenSeq(T) \in Seq(Characters)
  BY <1>3, FlattenConcat, FlattenIsText
<1>9. Faces(FlattenSeq(S \o T)) = Faces(FlattenSeq(S)) \o Faces(FlattenSeq(T))
  BY <1>8, FacesConcat
<1>10. QED BY <1>7, <1>9 DEF S, T, U, es

(* Chunks of other sections add nothing.                                   *)
LEMMA WithinOthers ==
  ASSUME NEW cs, AreChunks(cs), NEW d, NEW s,
         \A k \in DOMAIN cs : ~(cs[k].document = d /\ cs[k].section = s)
  PROVE  Faces(FlattenSeq(Within(cs, d, s))) = << >>
<1>1. /\ Within(cs, d, s) \in Seq(Seq(Characters)) /\ DOMAIN cs = 1..Len(cs)
      /\ Len(Within(cs, d, s)) = Len(cs)
      /\ \A k \in 1..Len(cs) : Within(cs, d, s)[k] = BodyWithin(cs[k], d, s)
  BY WithinFacts
<1>2. \A k \in 1..Len(Within(cs, d, s)) : Within(cs, d, s)[k] = << >>
  BY <1>1 DEF BodyWithin
<1>3. FlattenSeq(Within(cs, d, s)) = << >>
  BY <1>1, <1>2, FlattenEmpty
<1>4. QED BY <1>3, NoText
-----------------------------------------------------------------------------
(* The chunks of the section that has been cut.                            *)
LEMMA NewChunks ==
  ASSUME KInv, stage = "chunk", ~(Len(pieces) > IndexLimit)
  PROVE  LET cs == ChunksOf(doc, sec)
         IN /\ AreChunks(cs) /\ Len(cs) \in Nat /\ DOMAIN cs = 1..Len(cs)
            /\ \A k \in 1..Len(cs) :
                 /\ k - 1 \in 0..(IndexLimit - 1)
                 /\ ComesFrom(cs[k], doc, sec, k - 1)
            /\ Within(cs, documents[doc].id, sec) = BodiesOf(pieces)
<1> DEFINE cs == ChunksOf(doc, sec)
           n == Len(pieces)
           d == documents[doc].id
           e(k) == [chunk_id |-> ChunkId(d, sec, k - 1), document |-> d,
                    section |-> sec, text |-> pieces[k].text, overlap |-> pieces[k].overlap]
<1>1. PiecesOK(pieces) /\ sec \in DOMAIN REQUIRED_SECTIONS
  BY DEF KInv, CutOK, InCorpus
<1>2. pieces \in Seq(Cut) /\ n \in Nat /\ DOMAIN pieces = 1..n
  BY <1>1, LenProperties DEF PiecesOK
<1>3. DocumentOK(documents[doc])
  BY BodyFacts DEF KInv
<1>4. d \in Name
  BY <1>3 DEF DocumentOK
<1>5. IndexLimit \in Nat /\ n <= IndexLimit
  BY <1>2, ChunkIdAssumption
<1>6. cs = [k \in 1..n |-> e(k)]
  BY <1>2 DEF ChunksOf
<1>7. ASSUME NEW k \in 1..n
      PROVE  /\ k - 1 \in 0..(IndexLimit - 1)
             /\ e(k) \in Chunk /\ Len(e(k).text) \in 1..MaxChars
             /\ BodyOf(e(k)) = BodyOf(pieces[k]) /\ BodyOf(pieces[k]) \in Seq(Characters)
  <2>1. pieces[k] \in Cut /\ PieceOK(pieces[k])
    BY <1>1, <1>2, <1>7, ElementOfSeq DEF PiecesOK
  <2>2. k - 1 \in 0..(IndexLimit - 1)
    BY <1>2, <1>5, <1>7
  <2>3. ChunkId(d, sec, k - 1) \in Ids
    BY <1>1, <1>4, <2>2, ChunkIdAssumption DEF Name
  <2>4. e(k) \in Chunk
    BY <1>1, <1>4, <2>1, <2>3 DEF Chunk, Cut
  <2>5. BodyOf(e(k)) = BodyOf(pieces[k])
    BY DEF BodyOf
  <2>6. Len(e(k).text) \in 1..MaxChars /\ BodyOf(pieces[k]) \in Seq(Characters)
    BY <2>1 DEF PieceOK
  <2>7. QED BY <2>2, <2>4, <2>5, <2>6
<1> HIDE DEF cs, n, e
<1>8. [k \in 1..n |-> e(k)] \in [1..n -> Chunk]
  BY <1>7
<1>9. cs \in Seq(Chunk) /\ Len(cs) = n
  BY <1>2, <1>6, <1>8, FunctionIsSeq
<1>10. DOMAIN cs = 1..n /\ \A k \in 1..n : cs[k] = e(k)
  BY <1>6
<1>11. \A k \in DOMAIN cs : ChunkOK(cs[k])
  BY <1>7, <1>10 DEF ChunkOK
<1>12. AreChunks(cs)
  BY <1>9, <1>11 DEF AreChunks
<1>13. \A k \in 1..n : ComesFrom(cs[k], doc, sec, k - 1)
  BY <1>10 DEF ComesFrom, e
<1>14. \A k \in 1..n : cs[k].document = d /\ cs[k].section = sec /\ BodyOf(cs[k]) = BodyOf(pieces[k])
  <2>1. \A k \in 1..n : cs[k].document = d /\ cs[k].section = sec
    BY <1>10 DEF e
  <2>2. \A k \in 1..n : BodyOf(cs[k]) = BodyOf(pieces[k])
    BY <1>7, <1>10
  <2>3. QED BY <2>1, <2>2
<1>15. Within(cs, d, sec) = BodiesOf(pieces)
  <2>1. Within(cs, d, sec) = [k \in 1..n |-> BodyWithin(cs[k], d, sec)]
    BY <1>10 DEF Within
  <2>2. BodiesOf(pieces) = [k \in 1..n |-> BodyOf(pieces[k])]
    BY <1>2 DEF BodiesOf
  <2>3. \A k \in 1..n : BodyWithin(cs[k], d, sec) = BodyOf(pieces[k])
    BY <1>14 DEF BodyWithin
  <2>4. QED BY <2>1, <2>2, <2>3
<1>16. QED BY <1>2, <1>7, <1>9, <1>10, <1>12, <1>13, <1>15 DEF cs
-----------------------------------------------------------------------------
(* A section ends: it is done, and the next one begins.                    *)
SectionEnds ==
  /\ stage = "chunk" /\ start = Len(Body) /\ ~(Len(pieces) > IndexLimit)
  /\ chunks' = chunks \o ChunksOf(doc, sec)
  /\ start' = 0 /\ pieces' = << >>
  /\ \/ sec # Len(REQUIRED_SECTIONS) /\ stage' = stage /\ doc' = doc /\ sec' = sec + 1
     \/ /\ sec = Len(REQUIRED_SECTIONS) /\ doc < Len(documents)
        /\ stage' = stage /\ doc' = doc + 1 /\ sec' = 1
     \/ sec = Len(REQUIRED_SECTIONS) /\ doc = Len(documents) /\ stage' = "model"
  /\ files' = files /\ documents' = documents /\ encoded' = encoded
  /\ records' = records /\ index' = index /\ dimension' = dimension /\ model_name' = model_name

(* The next section is in the corpus, and one more is done.                *)
LEMMA WhereTo ==
  ASSUME KInv, SectionEnds
  PROVE  /\ ~Done(doc, sec) /\ Begun /\ Begun'
         /\ doc \in DOMAIN documents /\ sec \in DOMAIN REQUIRED_SECTIONS
         /\ stage' = "chunk" => InCorpus(doc, sec)'
         /\ \A d \in DOMAIN documents, s \in DOMAIN REQUIRED_SECTIONS :
              Done(d, s)' <=> Done(d, s) \/ (d = doc /\ s = sec)
<1> DEFINE m == Len(documents)  n == Len(REQUIRED_SECTIONS)
<1>1. stage = "chunk" /\ documents' = documents /\ stage' \in {"chunk", "model"}
  BY DEF SectionEnds
<1>2. Begun /\ Begun'
  BY <1>1 DEF Begun
<1>3. /\ m \in Nat /\ n \in Nat /\ m >= 1 /\ n >= 1
      /\ DOMAIN documents = 1..m /\ DOMAIN REQUIRED_SECTIONS = 1..n
  BY <1>2, LoadedFacts, SectionsAre DEF KInv
<1>4. doc \in 1..m /\ sec \in 1..n
  BY <1>1, <1>3 DEF KInv, CutOK, InCorpus
<1>5. \/ sec # n /\ stage' = "chunk" /\ doc' = doc /\ sec' = sec + 1
      \/ sec = n /\ doc < m /\ stage' = "chunk" /\ doc' = doc + 1 /\ sec' = 1
      \/ sec = n /\ doc = m /\ stage' = "model"
  BY <1>1 DEF SectionEnds
<1> HIDE DEF m, n
<1>6. ~Done(doc, sec)
  BY <1>1, <1>4 DEF Done
<1>7. ASSUME stage' = "chunk" PROVE doc' \in 1..m /\ sec' \in 1..n
  BY <1>3, <1>4, <1>5, <1>7
<1>8. stage' = "chunk" => InCorpus(doc, sec)'
  BY <1>1, <1>3, <1>7 DEF InCorpus
<1>9. ASSUME NEW d \in 1..m, NEW s \in 1..n
      PROVE  Done(d, s)' <=> Done(d, s) \/ (d = doc /\ s = sec)
  <2>1. Done(d, s) <=> d < doc \/ (d = doc /\ s < sec)
    BY <1>1 DEF Done
  <2>2. Done(d, s)' <=> (stage' = "chunk" => d < doc' \/ (d = doc' /\ s < sec'))
    BY DEF Done
  <2>3. QED BY <1>3, <1>4, <1>5, <2>1, <2>2
<1>10. QED BY <1>2, <1>3, <1>4, <1>6, <1>8, <1>9
-----------------------------------------------------------------------------
(* Nothing of the next section is cut, and no vector is there yet.         *)
LEMMA NextCut ==
  ASSUME KInv, SectionEnds
  PROVE  Control' /\ CutOK' /\ Embedded' /\ Filled'
<1>1. /\ stage = "chunk" /\ stage' \in {"chunk", "model"} /\ start' = 0 /\ pieces' = << >>
      /\ documents' = documents /\ files' = files /\ encoded' = encoded
      /\ records' = records /\ index' = index /\ dimension' = dimension /\ model_name' = model_name
  BY DEF SectionEnds
<1>2. Begun /\ Begun'
  BY <1>1 DEF Begun
<1>3. Control'
  BY <1>1, <1>2 DEF KInv, Control, Stages
<1>4. encoded' = << >>
  BY <1>1 DEF KInv, Control
<1>5. chunks' \in Seq(Chunk)
  <2>1. chunks' = chunks \o ChunksOf(doc, sec) /\ ~(Len(pieces) > IndexLimit)
    BY DEF SectionEnds
  <2>2. chunks \in Seq(Chunk) /\ ChunksOf(doc, sec) \in Seq(Chunk)
    BY <1>1, <2>1, NewChunks DEF KInv, ChunksOK, AreChunks
  <2>3. QED BY <2>1, <2>2, ConcatProperties
<1>6. Embedded'
  <2>1. Len(chunks') \in Nat
    BY <1>5, LenProperties
  <2>2. encoded' \in Seq(Vectors) /\ Len(encoded') = 0
    BY <1>4, EmptySeq
  <2>3. \A k \in 1..Len(encoded') : FALSE
    BY <2>2
  <2>4. QED BY <2>1, <2>2, <2>3 DEF Embedded
<1>7. CutOK'
  <2> SUFFICES ASSUME stage' = "chunk" PROVE CutOK'
    BY DEF CutOK
  <2>1. InCorpus(doc, sec)'
    BY WhereTo
  <2>2. doc' \in DOMAIN documents /\ sec' \in DOMAIN REQUIRED_SECTIONS
    BY <1>1, <2>1 DEF InCorpus
  <2>3. DocumentOK(documents[doc'])
    BY <1>2, <2>2, LoadedFacts DEF KInv
  <2>4. Body' = documents[doc'].sections[sec']
    BY <1>1 DEF Body
  <2>5. Body' \in Seq(Characters)
    BY <2>2, <2>3, <2>4 DEF DocumentOK
  <2>6. 0 \in 0..Len(Body')
    BY <2>5, LenProperties
  <2>7. PiecesOK(pieces') /\ Faces(FlattenSeq(BodiesOf(pieces'))) = Faces(Slice(Body', 0, 0))
    BY <1>1, <2>5, NothingCut
  <2>8. QED BY <1>1, <2>1, <2>6, <2>7 DEF CutOK
<1>8. QED BY <1>1, <1>3, <1>6, <1>7 DEF Filled

(* The ids of two chunks of different sections differ, as do those of two  *)
(* chunks of one section.                                                  *)
LEMMA SectionIds ==
  ASSUME KInv, SectionEnds
  PROVE  ChunksOK' /\ Placed'
<1> DEFINE cs == chunks  ds == ChunksOf(doc, sec)  es == cs \o ds
           m == Len(cs)  n == Len(ds)
<1>1. /\ stage = "chunk" /\ ~(Len(pieces) > IndexLimit) /\ chunks' = es /\ documents' = documents
  BY DEF SectionEnds
<1>2. /\ AreChunks(cs) /\ \A i, j \in DOMAIN cs : i # j => cs[i].chunk_id # cs[j].chunk_id
  BY DEF KInv, ChunksOK, AreChunks, DistinctChunkIds
<1>3. /\ AreChunks(ds) /\ n \in Nat /\ DOMAIN ds = 1..n
      /\ \A k \in 1..n : k - 1 \in 0..(IndexLimit - 1) /\ ComesFrom(ds[k], doc, sec, k - 1)
  BY <1>1, NewChunks
<1>4. /\ ~Done(doc, sec) /\ Begun /\ Begun'
      /\ doc \in DOMAIN documents /\ sec \in DOMAIN REQUIRED_SECTIONS
      /\ \A d \in DOMAIN documents, s \in DOMAIN REQUIRED_SECTIONS :
           Done(d, s)' <=> Done(d, s) \/ (d = doc /\ s = sec)
  BY WhereTo
<1>5. /\ \A d \in DOMAIN documents : documents[d].id \in Name
      /\ \A d, e \in DOMAIN documents : d # e => documents[d].id # documents[e].id
  BY <1>4, LoadedFacts DEF KInv, DocumentOK
<1>6. \A i \in DOMAIN cs :
        \E d \in DOMAIN documents, s \in DOMAIN REQUIRED_SECTIONS, k \in 0..(IndexLimit - 1) :
          Done(d, s) /\ ComesFrom(cs[i], d, s, k)
  BY <1>4 DEF KInv, Placed
<1> HIDE DEF cs, ds
<1>7. /\ m \in Nat /\ DOMAIN cs = 1..m /\ es \in Seq(Chunk) /\ DOMAIN es = 1..(m + n)
      /\ \A i \in 1..(m + n) : es[i] = IF i <= m THEN cs[i] ELSE ds[i - m]
  <2>1. cs \in Seq(Chunk) /\ ds \in Seq(Chunk)
    BY <1>2, <1>3 DEF AreChunks
  <2>2. m \in Nat /\ DOMAIN cs = 1..m
    BY <2>1, LenProperties
  <2>3. es \in Seq(Chunk) /\ Len(es) = m + n
        /\ \A i \in 1..(m + n) : es[i] = IF i <= m THEN cs[i] ELSE ds[i - m]
    BY <2>1, ConcatProperties
  <2>4. DOMAIN es = 1..(m + n)
    BY <2>3, LenProperties
  <2>5. QED BY <2>2, <2>3, <2>4
<1>8. AreChunks(es)
  BY <1>2, <1>3, JoinedChunks
<1> HIDE DEF es, m, n
<1>9. ASSUME NEW i \in 1..m, NEW j \in 1..n PROVE cs[i].chunk_id # ds[j].chunk_id
  <2>1. PICK d \in DOMAIN documents, s \in DOMAIN REQUIRED_SECTIONS, k \in 0..(IndexLimit - 1) :
          Done(d, s) /\ ComesFrom(cs[i], d, s, k)
    BY <1>6, <1>7
  <2>2. d # doc \/ s # sec
    BY <1>4, <2>1
  <2>3. documents[d].id # documents[doc].id \/ s # sec
    BY <1>4, <1>5, <2>2
  <2>4. <<documents[d].id, s, k>> # <<documents[doc].id, sec, j - 1>>
    BY <2>3
  <2>5. j - 1 \in 0..(IndexLimit - 1) /\ ds[j].chunk_id = ChunkId(documents[doc].id, sec, j - 1)
    BY <1>3 DEF ComesFrom
  <2>6. cs[i].chunk_id = ChunkId(documents[d].id, s, k)
    BY <2>1 DEF ComesFrom
  <2>7. documents[d].id \in ToSet(Slugs) /\ documents[doc].id \in ToSet(Slugs)
    BY <1>4, <1>5 DEF Name
  <2>8. QED BY <1>4, <2>1, <2>4, <2>5, <2>6, <2>7, ChunkIdAssumption
<1>10. ASSUME NEW i \in 1..n, NEW j \in 1..n, i # j PROVE ds[i].chunk_id # ds[j].chunk_id
  <2>1. /\ i - 1 \in 0..(IndexLimit - 1) /\ ds[i].chunk_id = ChunkId(documents[doc].id, sec, i - 1)
        /\ j - 1 \in 0..(IndexLimit - 1) /\ ds[j].chunk_id = ChunkId(documents[doc].id, sec, j - 1)
    BY <1>3 DEF ComesFrom
  <2>2. documents[doc].id \in ToSet(Slugs)
    BY <1>4, <1>5 DEF Name
  <2>3. i - 1 # j - 1
    BY <1>3, <1>10
  <2>4. <<documents[doc].id, sec, i - 1>> # <<documents[doc].id, sec, j - 1>>
    BY <2>3
  <2>5. QED BY <1>4, <2>1, <2>2, <2>4, ChunkIdAssumption
<1>11. ASSUME NEW i \in 1..(m + n), NEW j \in 1..(m + n), i # j
       PROVE  es[i].chunk_id # es[j].chunk_id
  <2>1. CASE i <= m /\ j <= m
    <3>1. i \in DOMAIN cs /\ j \in DOMAIN cs /\ es[i] = cs[i] /\ es[j] = cs[j]
      BY <1>7, <2>1
    <3>2. QED BY <1>2, <1>11, <3>1
  <2>2. CASE i <= m /\ ~(j <= m)
    <3>1. i \in 1..m /\ j - m \in 1..n /\ es[i] = cs[i] /\ es[j] = ds[j - m]
      BY <1>3, <1>7, <2>2
    <3>2. QED BY <1>9, <3>1
  <2>3. CASE ~(i <= m) /\ j <= m
    <3>1. j \in 1..m /\ i - m \in 1..n /\ es[j] = cs[j] /\ es[i] = ds[i - m]
      BY <1>3, <1>7, <2>3
    <3>2. QED BY <1>9, <3>1
  <2>4. CASE ~(i <= m) /\ ~(j <= m)
    <3>1. i - m \in 1..n /\ j - m \in 1..n /\ es[i] = ds[i - m] /\ es[j] = ds[j - m]
      BY <1>3, <1>7, <2>4
    <3>2. i - m # j - m
      BY <1>3, <1>7, <1>11
    <3>3. QED BY <1>10, <3>1, <3>2
  <2>5. QED BY <2>1, <2>2, <2>3, <2>4
<1>12. ChunksOK'
  BY <1>1, <1>7, <1>8, <1>11 DEF ChunksOK, AreChunks, DistinctChunkIds
<1>13. ASSUME NEW i \in 1..(m + n)
       PROVE  \E d \in DOMAIN documents, s \in DOMAIN REQUIRED_SECTIONS, k \in 0..(IndexLimit - 1) :
                Done(d, s)' /\ ComesFrom(es[i], d, s, k)
  <2>1. CASE i <= m
    <3>1. i \in DOMAIN cs /\ es[i] = cs[i]
      BY <1>7, <2>1
    <3>2. PICK d \in DOMAIN documents, s \in DOMAIN REQUIRED_SECTIONS, k \in 0..(IndexLimit - 1) :
            Done(d, s) /\ ComesFrom(cs[i], d, s, k)
      BY <1>6, <3>1
    <3>3. Done(d, s)'
      BY <1>4, <3>2
    <3>4. QED BY <3>1, <3>2, <3>3
  <2>2. CASE ~(i <= m)
    <3>1. i - m \in 1..n /\ es[i] = ds[i - m]
      BY <1>3, <1>7, <2>2
    <3>2. (i - m) - 1 \in 0..(IndexLimit - 1) /\ ComesFrom(ds[i - m], doc, sec, (i - m) - 1)
      BY <1>3, <3>1
    <3>3. \A a \in DOMAIN documents, b \in DOMAIN REQUIRED_SECTIONS : a = doc /\ b = sec => Done(a, b)'
      BY <1>4
    <3>4. \E a \in DOMAIN documents, b \in DOMAIN REQUIRED_SECTIONS : a = doc /\ b = sec
      BY <1>4
    <3>5. PICK a \in DOMAIN documents, b \in DOMAIN REQUIRED_SECTIONS : a = doc /\ b = sec
      BY <3>4
    <3>6. Done(a, b)' /\ ComesFrom(es[i], a, b, (i - m) - 1)
      BY <3>1, <3>2, <3>3, <3>5
    <3>7. QED BY <3>2, <3>6
  <2>3. QED BY <2>1, <2>2
<1>14. Placed'
  BY <1>1, <1>7, <1>13 DEF Placed, ComesFrom
<1>15. QED BY <1>12, <1>14
-----------------------------------------------------------------------------
(* The section's text is now in the chunks, and the other texts are as     *)
(* they were.                                                              *)
LEMMA SectionTexts ==
  ASSUME KInv, SectionEnds
  PROVE  Covered'
<1> DEFINE cs == chunks  ds == ChunksOf(doc, sec)  es == cs \o ds
           text(list, d, s) == Faces(FlattenSeq(Within(list, documents[d].id, s)))
           had(d, s) == IF Done(d, s) THEN Faces(documents[d].sections[s]) ELSE << >>
<1>1. /\ stage = "chunk" /\ ~(Len(pieces) > IndexLimit) /\ start = Len(Body)
      /\ chunks' = es /\ documents' = documents
  BY DEF SectionEnds
<1>2. /\ AreChunks(cs)
      /\ AreChunks(ds) /\ DOMAIN ds = 1..Len(ds)
      /\ \A k \in 1..Len(ds) : ComesFrom(ds[k], doc, sec, k - 1)
      /\ Within(ds, documents[doc].id, sec) = BodiesOf(pieces)
  BY <1>1, NewChunks DEF KInv, ChunksOK, AreChunks
<1>3. /\ ~Done(doc, sec) /\ Begun /\ Begun'
      /\ doc \in DOMAIN documents /\ sec \in DOMAIN REQUIRED_SECTIONS
      /\ \A d \in DOMAIN documents, s \in DOMAIN REQUIRED_SECTIONS :
           Done(d, s)' <=> Done(d, s) \/ (d = doc /\ s = sec)
  BY WhereTo
<1>4. /\ \A d \in DOMAIN documents : DocumentOK(documents[d])
      /\ \A d, e \in DOMAIN documents : d # e => documents[d].id # documents[e].id
  BY <1>3, LoadedFacts DEF KInv
<1>5. \A d \in DOMAIN documents, s \in DOMAIN REQUIRED_SECTIONS : text(cs, d, s) = had(d, s)
  BY <1>3 DEF KInv, Covered, TextIs
<1>6. \A d, s : text(es, d, s) = text(cs, d, s) \o text(ds, d, s)
  BY <1>2, WithinConcat
<1>7. text(ds, doc, sec) = Faces(documents[doc].sections[sec])
  <2>1. text(ds, doc, sec) = Faces(FlattenSeq(BodiesOf(pieces)))
    BY <1>2
  <2>2. Faces(FlattenSeq(BodiesOf(pieces))) = Faces(Slice(Body, 0, Len(Body)))
    BY <1>1 DEF KInv, CutOK
  <2>3. Body \in Seq(Characters) /\ Body = documents[doc].sections[sec]
    BY <1>1, BodyFacts DEF KInv
  <2>4. Slice(Body, 0, Len(Body)) = Body
    <3>1. SubSeq(Body, 1, Len(Body)) = Body
      BY <2>3, SubSeqFull
    <3>2. QED BY <3>1 DEF Slice
  <2>5. QED BY <2>1, <2>2, <2>3, <2>4
<1>8. ASSUME NEW d \in DOMAIN documents, NEW s \in DOMAIN REQUIRED_SECTIONS, ~(d = doc /\ s = sec)
      PROVE  text(ds, d, s) = << >>
  <2>1. documents[d].id # documents[doc].id \/ s # sec
    BY <1>3, <1>4, <1>8
  <2>2. \A k \in DOMAIN ds : ds[k].document = documents[doc].id /\ ds[k].section = sec
    BY <1>2 DEF ComesFrom
  <2>3. \A k \in DOMAIN ds : ~(ds[k].document = documents[d].id /\ ds[k].section = s)
    BY <2>1, <2>2
  <2>4. QED BY <1>2, <2>3, WithinOthers
<1>9. \A d \in DOMAIN documents, s \in DOMAIN REQUIRED_SECTIONS :
        Faces(documents[d].sections[s]) \in Seq(Characters)
  <2>1. \A d \in DOMAIN documents, s \in DOMAIN REQUIRED_SECTIONS :
          documents[d].sections[s] \in Seq(Characters)
    BY <1>4 DEF DocumentOK
  <2>2. ASSUME NEW t \in Seq(Characters) PROVE Faces(t) \in Seq(Characters)
    <3>1. Len(t) \in 0..Len(t)
      BY LenProperties
    <3>2. Faces(t) = FacesIn(t)[Len(t)] /\ \A k \in 0..Len(t) : FacesIn(t)[k] \in Seq(Characters)
      BY FacesGrow
    <3>3. QED BY <3>1, <3>2
  <2>3. QED BY <2>1, <2>2
<1> HIDE DEF cs, ds, es, text
<1>10. ASSUME NEW d \in DOMAIN documents, NEW s \in DOMAIN REQUIRED_SECTIONS
       PROVE  text(es, d, s) = IF Done(d, s)' THEN Faces(documents[d].sections[s]) ELSE << >>
  <2>1. Faces(documents[d].sections[s]) \in Seq(Characters) /\ << >> \in Seq(Characters)
    BY <1>9, EmptySeq
  <2>2. CASE d = doc /\ s = sec
    <3>1. text(es, d, s) = << >> \o Faces(documents[d].sections[s])
      <4>1. text(cs, d, s) = << >>
        BY <1>3, <1>5, <2>2
      <4>2. text(ds, d, s) = Faces(documents[d].sections[s])
        BY <1>7, <2>2
      <4>3. QED BY <1>6, <4>1, <4>2
    <3>2. text(es, d, s) = Faces(documents[d].sections[s])
      BY <2>1, <3>1, ConcatEmptySeq
    <3>3. Done(d, s)'
      BY <1>3, <2>2
    <3>4. QED BY <3>2, <3>3
  <2>3. CASE ~(d = doc /\ s = sec)
    <3>1. Done(d, s)' <=> Done(d, s)
      BY <1>3, <2>3
    <3>2. had(d, s) \in Seq(Characters)
      BY <2>1
    <3> HIDE DEF had
    <3>3. text(es, d, s) = had(d, s) \o << >>
      <4>1. text(cs, d, s) = had(d, s)
        BY <1>5
      <4>2. text(ds, d, s) = << >>
        BY <1>8, <2>3
      <4>3. QED BY <1>6, <4>1, <4>2
    <3>4. text(es, d, s) = had(d, s)
      BY <3>2, <3>3, ConcatEmptySeq
    <3>5. QED BY <3>1, <3>4 DEF had
  <2>4. QED BY <2>2, <2>3
<1>11. ASSUME NEW d \in DOMAIN documents, NEW s \in DOMAIN REQUIRED_SECTIONS
       PROVE  TextIs(d, s, IF Done(d, s) THEN Faces(documents[d].sections[s]) ELSE << >>)'
  <2>1. Faces(FlattenSeq(Within(es, documents[d].id, s)))
          = IF Done(d, s)' THEN Faces(documents[d].sections[s]) ELSE << >>
    BY <1>10 DEF text
  <2>2. QED BY <1>1, <2>1 DEF TextIs
<1>12. QED BY <1>1, <1>11 DEF Covered

(* The end of a section, with the indices its chunks may carry or beyond.  *)
LEMMA EndSectionKeeps == KInv /\ EndSection => KInv'
<1> SUFFICES ASSUME KInv, EndSection PROVE KInv'
  OBVIOUS
<1>1. stage = "chunk"
  BY DEF EndSection
<1>2. CASE Len(pieces) > IndexLimit
  <2>1. EndsWith("corpus_unavailable") /\ "corpus_unavailable" \in Ended
    BY <1>2 DEF EndSection, Ended
  <2>2. QED BY <1>1, <2>1, EndKeeps
<1>3. CASE ~(Len(pieces) > IndexLimit)
  <2>1. SectionEnds
    <3> DEFINE m == Len(documents)  n == Len(REQUIRED_SECTIONS)
    <3>1. Begun
      BY <1>1 DEF Begun
    <3>2. m \in Nat /\ doc \in 1..m
      BY <1>1, <3>1, LoadedFacts, BodyFacts DEF KInv
    <3>3. /\ stage = "chunk" /\ start = Len(Body)
          /\ chunks' = chunks \o ChunksOf(doc, sec) /\ start' = 0 /\ pieces' = << >>
          /\ stage' = (IF sec = n /\ doc = m THEN "model" ELSE stage)
          /\ doc' = (IF sec = n /\ doc < m THEN doc + 1 ELSE doc)
          /\ sec' = (IF ~(sec = n) THEN sec + 1 ELSE IF doc < m THEN 1 ELSE sec)
      BY <1>3 DEF EndSection
    <3>4. /\ files' = files /\ documents' = documents /\ encoded' = encoded
          /\ records' = records /\ index' = index
          /\ dimension' = dimension /\ model_name' = model_name
      BY <1>3 DEF EndSection, store
    <3> HIDE DEF m, n
    <3>5. \/ sec # n /\ stage' = stage /\ doc' = doc /\ sec' = sec + 1
          \/ sec = n /\ doc < m /\ stage' = stage /\ doc' = doc + 1 /\ sec' = 1
          \/ sec = n /\ doc = m /\ stage' = "model"
      BY <3>2, <3>3
    <3>6. QED BY <1>3, <3>3, <3>4, <3>5 DEF SectionEnds, m, n
  <2>2. QED BY <2>1, NextCut, SectionIds, SectionTexts DEF KInv
<1>4. QED BY <1>2, <1>3
-----------------------------------------------------------------------------
(* Once the corpus is cut.                                                 *)
MovesOnward ==
  /\ stage \in {"model", "embed"} /\ stage' \in {"embed", "used"}
  /\ files' = files /\ documents' = documents /\ chunks' = chunks

(* The corpus and its chunks stay as they are.                             *)
LEMMA CorpusStays ==
  ASSUME KInv, MovesOnward
  PROVE  CutOK' /\ ChunksOK' /\ Placed' /\ Covered'
<1>1. /\ stage # "chunk" /\ stage' # "chunk" /\ Begun /\ Begun'
      /\ documents' = documents /\ chunks' = chunks
  BY DEF MovesOnward, Begun
<1>2. \A d, s : Done(d, s) /\ Done(d, s)'
  BY <1>1 DEF Done
<1>3. CutOK' /\ ChunksOK'
  BY <1>1 DEF KInv, CutOK, ChunksOK, DistinctChunkIds
<1>4. Placed'
  <2>1. \A i \in DOMAIN chunks :
          \E d \in DOMAIN documents, s \in DOMAIN REQUIRED_SECTIONS, k \in 0..(IndexLimit - 1) :
            ComesFrom(chunks[i], d, s, k)
    BY <1>1 DEF KInv, Placed
  <2>2. QED BY <1>1, <1>2, <2>1 DEF Placed, ComesFrom
<1>5. Covered'
  <2>1. \A d \in DOMAIN documents, s \in DOMAIN REQUIRED_SECTIONS :
          Faces(FlattenSeq(Within(chunks, documents[d].id, s))) = Faces(documents[d].sections[s])
    BY <1>1, <1>2 DEF KInv, Covered, TextIs
  <2>2. QED BY <1>1, <1>2, <2>1 DEF Covered, TextIs
<1>6. QED BY <1>3, <1>4, <1>5

(* The model is loaded, or is unavailable.                                 *)
LEMMA LoadModelKeeps == KInv /\ LoadModel => KInv'
<1> SUFFICES ASSUME KInv, LoadModel PROVE KInv'
  OBVIOUS
<1>1. stage = "model"
  BY DEF LoadModel
<1>2. PICK status \in {"embed", "model_unavailable"} : EndsWith(status)
  BY DEF LoadModel
<1>3. CASE status = "model_unavailable"
  <2>1. status \in Ended
    BY <1>3 DEF Ended
  <2>2. QED BY <1>1, <1>2, <2>1, EndKeeps
<1>4. CASE status = "embed"
  <2>1. /\ stage' = "embed" /\ files' = files /\ documents' = documents /\ chunks' = chunks
        /\ encoded' = encoded /\ records' = records /\ index' = index
        /\ dimension' = dimension /\ model_name' = model_name
    BY <1>2, <1>4 DEF EndsWith, store
  <2>2. MovesOnward /\ Begun /\ Begun'
    BY <1>1, <2>1 DEF MovesOnward, Begun
  <2>3. Control'
    BY <1>1, <2>1, <2>2 DEF KInv, Control, Stages
  <2>4. Embedded' /\ Filled'
    BY <2>1, <2>2 DEF KInv, Embedded, Filled
  <2>5. QED BY <2>2, <2>3, <2>4, CorpusStays DEF KInv
<1>5. QED BY <1>2, <1>3, <1>4
-----------------------------------------------------------------------------
(* The vectors.                                                            *)
LEMMA EncodedChunk ==
  ASSUME NEW chunk, ChunkOK(chunk)
  PROVE  Encode(Input(chunk)) \in Vectors
<1> DEFINE n == Len(chunk.text)
<1>1. /\ chunk.document \in ToSet(Slugs) /\ chunk.section \in DOMAIN REQUIRED_SECTIONS
      /\ chunk.text \in Seq(Characters) /\ n \in 1..MaxChars
  BY DEF ChunkOK, Chunk, Name
<1>2. chunk.text \in [1..n -> Characters]
  BY <1>1, LenProperties
<1>3. Input(chunk) = <<chunk.document, chunk.section, chunk.text>>
  BY DEF Input
<1> HIDE DEF n
<1>4. Encode(<<chunk.document, chunk.section, chunk.text>>) \in Vectors
  BY <1>1, <1>2, EncoderAssumption
<1>5. QED BY <1>3, <1>4

(* A batch of vectors: those of the next chunks, in their order.           *)
LEMMA EmbedBatchKeeps == KInv /\ EmbedBatch => KInv'
<1> SUFFICES ASSUME KInv, EmbedBatch PROVE KInv'
  OBVIOUS
<1> DEFINE a == Len(encoded)
           n == Len(chunks)
           b == Min({n, a + BatchSize})
           batch == Slice(chunks, a, b)
           more == [k \in DOMAIN batch |-> Encode(Input(batch[k]))]
<1>1. /\ stage = "embed" /\ stage' = stage /\ a < n /\ encoded' = encoded \o more
      /\ files' = files /\ documents' = documents /\ chunks' = chunks
      /\ records' = records /\ index' = index
      /\ dimension' = dimension /\ model_name' = model_name
  BY DEF EmbedBatch, MoreToEmbed, NextBatch, Slice, store
<1>2. MovesOnward /\ Begun /\ Begun'
  BY <1>1 DEF MovesOnward, Begun
<1>3. Control' /\ Filled'
  BY <1>1, <1>2 DEF KInv, Control, Filled
<1>4. /\ encoded \in Seq(Vectors)
      /\ \A k \in 1..a : encoded[k] = Encode(Input(chunks[k]))
  BY <1>2 DEF KInv, Embedded
<1>5. /\ chunks \in Seq(Chunk) /\ n \in Nat /\ DOMAIN chunks = 1..n /\ a \in Nat
      /\ \A k \in 1..n : ChunkOK(chunks[k])
  BY <1>4, LenProperties DEF KInv, ChunksOK
<1>6. b \in 0..n /\ a \in 0..b
  <2> DEFINE c == a + BatchSize
  <2>1. BatchSize \in Nat \ {0}
    BY EncoderAssumption
  <2>2. c \in Nat /\ a < c
    BY <1>5, <2>1
  <2> HIDE DEF a, n, c
  <2>3. {n, c} \subseteq Nat /\ {n, c} # {}
    BY <1>5, <2>2
  <2>4. Min({n, c}) \in {n, c} /\ \A x \in {n, c} : Min({n, c}) <= x
    BY <2>3, LeastFacts
  <2>5. Min({n, c}) \in 0..n /\ a \in 0..Min({n, c})
    BY <1>1, <1>5, <2>2, <2>4
  <2>6. QED BY <2>5 DEF a, n, c
<1> HIDE DEF b, n
<1>7. /\ batch \in Seq(Chunk) /\ Len(batch) = b - a
      /\ \A i \in 1..(b - a) : batch[i] = chunks[a + i]
  <2> HIDE DEF a
  <2>1. b \in 0..Len(chunks) /\ a \in 0..b
    BY <1>6 DEF n
  <2>2. QED BY <1>5, <2>1, SliceFacts
<1>8. b - a \in Nat /\ DOMAIN batch = 1..(b - a)
  BY <1>7, LenProperties
<1> HIDE DEF a, batch
<1>9. \A i \in 1..(b - a) : a + i \in 1..n
  BY <1>5, <1>6
<1>10. \A i \in 1..(b - a) : Encode(Input(batch[i])) \in Vectors
  BY <1>5, <1>7, <1>9, EncodedChunk
<1>11. more \in [1..(b - a) -> Vectors] /\ \A i \in 1..(b - a) : more[i] = Encode(Input(chunks[a + i]))
  BY <1>7, <1>8, <1>10
<1> HIDE DEF more
<1>12. more \in Seq(Vectors) /\ Len(more) = b - a
  BY <1>8, <1>11, FunctionIsSeq
<1>13. /\ encoded' \in Seq(Vectors) /\ Len(encoded') = a + (b - a)
       /\ \A i \in 1..(a + (b - a)) : encoded'[i] = IF i <= a THEN encoded[i] ELSE more[i - a]
  <2> DEFINE s == encoded
  <2>1. s \in Seq(Vectors) /\ Len(s) = a /\ encoded' = s \o more
    BY <1>1, <1>4 DEF a
  <2> HIDE DEF s
  <2>2. /\ s \o more \in Seq(Vectors) /\ Len(s \o more) = Len(s) + Len(more)
        /\ \A i \in 1..(Len(s) + Len(more)) :
             (s \o more)[i] = IF i <= Len(s) THEN s[i] ELSE more[i - Len(s)]
    BY <1>12, <2>1, ConcatProperties
  <2>3. /\ s \o more \in Seq(Vectors) /\ Len(s \o more) = a + (b - a)
        /\ \A i \in 1..(a + (b - a)) : (s \o more)[i] = IF i <= a THEN s[i] ELSE more[i - a]
    BY <1>12, <2>1, <2>2
  <2>4. QED BY <2>1, <2>3 DEF s
<1>14. a + (b - a) = b /\ b <= n
  BY <1>5, <1>6
<1>15. ASSUME NEW k \in 1..b PROVE encoded'[k] = Encode(Input(chunks[k]))
  <2>1. CASE k <= a
    <3>1. k \in 1..a
      BY <1>5, <1>6, <2>1
    <3>2. encoded'[k] = encoded[k]
      BY <1>13, <1>14, <2>1
    <3>3. QED BY <1>4, <3>1, <3>2 DEF a
  <2>2. CASE ~(k <= a)
    <3>1. k - a \in 1..(b - a) /\ a + (k - a) = k
      BY <1>5, <1>6, <2>2
    <3>2. encoded'[k] = more[k - a]
      BY <1>13, <1>14, <2>2
    <3>3. more[k - a] = Encode(Input(chunks[a + (k - a)]))
      BY <1>11, <3>1
    <3>4. QED BY <3>1, <3>2, <3>3
  <2>3. QED BY <2>1, <2>2
<1>16. Embedded'
  <2>1. Len(encoded') = b
    BY <1>13, <1>14
  <2>2. b <= Len(chunks')
    BY <1>1, <1>14 DEF n
  <2>3. \A k \in 1..Len(encoded') : encoded'[k] = Encode(Input(chunks'[k]))
    BY <1>1, <1>15, <2>1
  <2>4. QED BY <1>13, <2>1, <2>2, <2>3 DEF Embedded
<1>17. QED BY <1>2, <1>3, <1>16, CorpusStays DEF KInv
-----------------------------------------------------------------------------
(* All chunks have their vector: the records.                              *)
LEMMA EntriesAre ==
  ASSUME KInv, stage = "embed", ~MoreToEmbed
  PROVE  /\ Entries = [k \in DOMAIN chunks |->
                         [chunk_id |-> chunks[k].chunk_id, model_name |-> Model,
                          vector |-> Encode(Input(chunks[k]))]]
         /\ Entries \in Seq(Record) /\ Len(Entries) = Len(chunks)
<1> DEFINE n == Len(chunks)
           e(k) == [chunk_id |-> chunks[k].chunk_id, model_name |-> Model,
                    vector |-> Encode(Input(chunks[k]))]
<1>1. Begun
  BY DEF Begun
<1>2. /\ chunks \in Seq(Chunk) /\ n \in Nat /\ DOMAIN chunks = 1..n
      /\ \A k \in 1..n : ChunkOK(chunks[k])
  BY LenProperties DEF KInv, ChunksOK
<1>3. /\ encoded \in Seq(Vectors) /\ Len(encoded) <= n
      /\ \A k \in 1..Len(encoded) : encoded[k] = Encode(Input(chunks[k]))
  BY <1>1 DEF KInv, Embedded
<1>4. Len(encoded) = n
  BY <1>2, <1>3, LenProperties DEF MoreToEmbed
<1>5. Min({n, n}) = n
  <2>1. {n, n} \subseteq Nat /\ {n, n} # {}
    BY <1>2
  <2>2. Min({n, n}) \in {n, n}
    BY <2>1, LeastFacts
  <2>3. QED BY <2>2
<1> HIDE DEF n
<1>6. Entries = [k \in 1..n |-> [chunk_id |-> chunks[k].chunk_id, model_name |-> Model,
                                 vector |-> encoded[k]]]
  BY <1>4, <1>5 DEF Entries, n
<1>7. Entries = [k \in 1..n |-> e(k)]
  BY <1>3, <1>4, <1>6
<1>8. ASSUME NEW k \in 1..n PROVE e(k) \in Record
  <2>1. chunks[k].chunk_id \in Ids
    BY <1>2, <1>8 DEF ChunkOK, Chunk
  <2>2. Encode(Input(chunks[k])) \in Vectors
    BY <1>2, <1>8, EncodedChunk
  <2>3. Model \in Models
    BY EncoderAssumption
  <2>4. QED BY <2>1, <2>2, <2>3 DEF Record
<1>9. [k \in 1..n |-> e(k)] = [k \in DOMAIN chunks |-> e(k)]
  BY <1>2
<1> HIDE DEF e
<1>10. [k \in 1..n |-> e(k)] \in [1..n -> Record]
  BY <1>8
<1>11. Entries \in Seq(Record) /\ Len(Entries) = n
  BY <1>2, <1>7, <1>10, FunctionIsSeq
<1>12. QED BY <1>7, <1>9, <1>11 DEF n, e

(* The store was empty, so its records are the entries.                    *)
LEMMA BuildIndexKeeps == KInv /\ BuildIndex => KInv'
<1> SUFFICES ASSUME KInv, BuildIndex PROVE KInv'
  OBVIOUS
<1>1. stage = "embed" /\ ~MoreToEmbed
  BY DEF BuildIndex
<1>2. CASE ~ValidBatch(Entries)
  <2>1. EndsWith("index_failed") /\ "index_failed" \in Ended
    BY <1>2 DEF BuildIndex, Ended
  <2>2. QED BY <1>1, <2>1, EndKeeps
<1>3. CASE ValidBatch(Entries)
  <2>1. /\ stage' = "used" /\ files' = files /\ documents' = documents /\ chunks' = chunks
        /\ encoded' = encoded /\ records' = records \o Entries
    BY <1>3 DEF BuildIndex, AddMany, InsertAll
  <2>2. MovesOnward /\ Begun /\ Begun'
    BY <1>1, <2>1 DEF MovesOnward, Begun
  <2>3. Control'
    BY <1>1, <2>1, <2>2 DEF KInv, Control, Stages
  <2>4. Embedded'
    BY <2>1, <2>2 DEF KInv, Embedded
  <2>5. records = << >>
    BY <1>1 DEF KInv, Control
  <2>6. records' = Entries
    BY <1>1, <2>1, <2>5, EntriesAre, ConcatEmptySeq
  <2>7. Filled'
    BY <1>1, <2>1, <2>6, EntriesAre DEF Filled
  <2>8. QED BY <2>2, <2>3, <2>4, <2>7, CorpusStays DEF KInv
<1>4. QED BY <1>2, <1>3

(* A store used by hand is nothing to do with a corpus.                    *)
LEMMA ByHandKeeps ==
  ASSUME KInv, stage = "by_hand", UNCHANGED knowledge
  PROVE  KInv'
<1>1. /\ stage' = "by_hand" /\ doc' = doc /\ sec' = sec /\ start' = start
      /\ pieces' = pieces /\ chunks' = chunks /\ encoded' = encoded
  BY DEF knowledge, cutting
<1>2. ~Begun' /\ stage' \notin {"chunk", "used"}
  BY <1>1 DEF Begun
<1>3. Control' /\ ChunksOK'
  BY <1>1, <1>2 DEF KInv, Control, ChunksOK, DistinctChunkIds, Stages
<1>4. QED BY <1>2, <1>3 DEF KInv, CutOK, Placed, Covered, Embedded, Filled

(* Every step.                                                             *)
LEMMA KInvStep == KInv /\ [KNext]_allVars => KInv'
<1> SUFFICES ASSUME KInv, [KNext]_allVars PROVE KInv'
  OBVIOUS
<1>1. CASE DependencyMissing
  <2>1. stage = "load" /\ EndsWith("dependency_missing") /\ "dependency_missing" \in Ended
    BY <1>1 DEF DependencyMissing, Ended
  <2>2. QED BY <2>1, EndKeeps
<1>2. CASE LoadCorpus
  BY <1>2, LoadCorpusKeeps
<1>3. CASE CutPiece
  BY <1>3, CutPieceKeeps
<1>4. CASE EndSection
  BY <1>4, EndSectionKeeps
<1>5. CASE LoadModel
  BY <1>5, LoadModelKeeps
<1>6. CASE EmbedBatch
  BY <1>6, EmbedBatchKeeps
<1>7. CASE BuildIndex
  BY <1>7, BuildIndexKeeps
<1>8. CASE EncoderFails
  <2>1. stage = "embed" /\ EndsWith("index_failed") /\ "index_failed" \in Ended
    BY <1>8 DEF EncoderFails, Ended
  <2>2. QED BY <2>1, EndKeeps
<1>9. CASE Answering
  <2>1. UNCHANGED contents /\ UNCHANGED knowledge
    BY <1>9 DEF Answering, Search
  <2>2. Kept
    BY <2>1 DEF contents, Kept
  <2>3. QED BY <2>1, <2>2, NothingChanges
<1>10. CASE ByHand
  BY <1>10, ByHandKeeps DEF ByHand
<1>11. CASE UNCHANGED allVars
  <2>1. UNCHANGED store /\ UNCHANGED knowledge
    BY <1>11 DEF allVars
  <2>2. QED BY <2>1, StoreKept, NothingChanges
<1>12. QED BY <1>1, <1>2, <1>3, <1>4, <1>5, <1>6, <1>7, <1>8, <1>9, <1>10, <1>11
           DEF KNext, Preparing

(* The invariant holds throughout.                                         *)
LEMMA KInvHolds == KSpec => []KInv
BY KInvStarts, KInvStep, PTL DEF KSpec
-----------------------------------------------------------------------------
(* What the invariant says of the section being cut.                       *)
LEMMA KInvGivesCover == KInv => ChunksCover
<1> SUFFICES ASSUME KInv, stage = "chunk" PROVE ChunksCover
  BY DEF ChunksCover
<1>1. PiecesOK(pieces) /\ Faces(FlattenSeq(BodiesOf(pieces))) = Faces(Slice(Body, 0, start))
  BY DEF KInv, CutOK
<1>2. Faces(FlattenSeq([k \in DOMAIN pieces |-> BodyOf(pieces[k])])) = Faces(Slice(Body, 0, start))
  BY <1>1 DEF BodiesOf
<1>3. ASSUME NEW k \in DOMAIN pieces
      PROVE  LET overlap == Slice(pieces[k].text, 0, pieces[k].overlap)
             IN /\ Len(pieces[k].text) \in 1..MaxChars
                /\ pieces[k].overlap <= OverlapChars
                /\ Strip(BodyOf(pieces[k])) # << >>
                /\ k = 1 => overlap = << >>
                /\ k > 1 => IsSuffix(overlap, pieces[k - 1].text)
  BY <1>1 DEF PiecesOK, PieceOK, Overlap
<1>4. QED BY <1>2, <1>3 DEF ChunksCover

(* What it says of a pipeline that is ready.                               *)
LEMMA KInvGivesFaithful == KInv => IndexFaithful
<1> SUFFICES ASSUME KInv PROVE IndexFaithful
  OBVIOUS
<1>1. \A i, j \in DOMAIN chunks : i # j => chunks[i].chunk_id # chunks[j].chunk_id
  BY DEF KInv, ChunksOK, DistinctChunkIds
<1>2. stage \notin {"used", "by_hand"} => records = << >>
  BY DEF KInv, Control
<1>3. ASSUME stage = "used"
      PROVE  /\ records = [k \in DOMAIN chunks |->
                  [chunk_id |-> chunks[k].chunk_id, model_name |-> Model,
                   vector |-> Encode(Input(chunks[k]))]]
             /\ \A file \in Discovered(files), s \in DOMAIN REQUIRED_SECTIONS :
                  Faces(FlattenSeq([k \in DOMAIN chunks |-> BodyWithin(chunks[k], file.stem, s)]))
                    = Faces(Contents(file.lines)[s])
  <2>1. Begun /\ stage # "chunk" /\ stage # "by_hand"
    BY <1>3 DEF Begun
  <2>2. records = [k \in DOMAIN chunks |->
           [chunk_id |-> chunks[k].chunk_id, model_name |-> Model,
            vector |-> Encode(Input(chunks[k]))]]
    BY <1>3 DEF KInv, Filled
  <2>3. files \in Corpora /\ Loads(files) /\ documents = Corpus(files)
    BY <2>1 DEF KInv, Control
  <2>4. ASSUME NEW file \in Discovered(files), NEW s \in DOMAIN REQUIRED_SECTIONS
        PROVE  Faces(FlattenSeq(Within(chunks, file.stem, s))) = Faces(Contents(file.lines)[s])
    <3>1. /\ Document(file) \in Shelved(files) /\ Document(file).id = file.stem
          /\ Document(file).sections = Contents(file.lines)
      BY <2>3, ShelvedFacts DEF Shelved
    <3>2. PICK d \in DOMAIN documents : documents[d] = Document(file)
      BY <2>3, <3>1, CorpusFacts
    <3>3. Done(d, s)
      BY <2>1 DEF Done
    <3>4. TextIs(d, s, Faces(documents[d].sections[s]))
      BY <2>1, <3>3 DEF KInv, Covered
    <3>5. QED BY <3>1, <3>2, <3>4 DEF TextIs
  <2>5. QED BY <2>2, <2>4 DEF Within
<1>4. QED BY <1>1, <1>2, <1>3 DEF IndexFaithful

(* Of each section cut so far nothing is lost and only what is marked is   *)
(* repeated, for texts of any length and any admissible ChunkConfig.       *)
THEOREM CuttingLosesNothing == KSpec => []ChunksCover
BY KInvHolds, KInvGivesCover, PTL

(* A pipeline that is ready holds every chunk of the corpus, once, under   *)
(* an id of its own and with the vector of its own text, and the chunks    *)
(* have all the text there is; one that failed holds nothing.              *)
THEOREM IndexIsFaithful == KSpec => []IndexFaithful
BY KInvHolds, KInvGivesFaithful, PTL
-----------------------------------------------------------------------------
(* A text that starts with a character that shows.                         *)
LEMMA FacesNotEmpty ==
  ASSUME NEW t \in Seq(Characters), t # << >>, t[1] \notin White
  PROVE  Faces(t) # << >>
<1> DEFINE n == Len(t)  f == FacesIn(t)
           P == {k \in Nat : k = 0 \/ f[k] # << >>}
<1>1. n \in Nat /\ n >= 1
  BY EmptySeq
<1>2. /\ Faces(t) = f[n] /\ f[0] = << >>
      /\ \A k \in 1..n : f[k] = IF t[k] \in White THEN f[k - 1] ELSE Append(f[k - 1], t[k])
      /\ \A k \in 0..n : f[k] \in Seq(Characters)
  BY FacesGrow
<1> HIDE DEF f, n
<1>3. ASSUME NEW k \in Nat, k < n, k = 0 \/ f[k] # << >> PROVE f[k + 1] # << >>
  <2>1. k + 1 \in 1..n /\ k \in 0..n /\ (k + 1) - 1 = k
    BY <1>1, <1>3
  <2>2. f[k + 1] = IF t[k + 1] \in White THEN f[k] ELSE Append(f[k], t[k + 1])
    BY <1>2, <2>1
  <2>3. f[k] \in Seq(Characters)
    BY <1>2, <2>1
  <2>4. Append(f[k], t[k + 1]) # << >>
    <3>1. Len(Append(f[k], t[k + 1])) = Len(f[k]) + 1 /\ Len(f[k]) \in Nat
      BY <2>3
    <3>2. Len(<< >>) = 0
      BY EmptySeq
    <3>3. Len(Append(f[k], t[k + 1])) # Len(<< >>)
      BY <3>1, <3>2
    <3>4. QED BY <3>3, Zenon
  <2>5. CASE k = 0
    BY <2>2, <2>4, <2>5
  <2>6. CASE k # 0
    BY <1>3, <2>2, <2>4, <2>6
  <2>7. QED BY <2>5, <2>6
<1>4. 0 \in P /\ \A k \in Nat : k < n /\ k \in P => k + 1 \in P
  BY <1>3
<1> HIDE DEF P
<1>5. \A k \in 0..n : k \in P
  BY <1>1, <1>4, Climb
<1>6. n \in P
  BY <1>1, <1>5
<1>7. QED BY <1>1, <1>2, <1>6 DEF P

(* A corpus that has been cut has a chunk.                                 *)
LEMMA SomeChunks ==
  ASSUME KInv, stage = "embed"
  PROVE  chunks # << >>
<1>1. Begun
  BY DEF Begun
<1>2. 1 \in DOMAIN documents /\ 1 \in DOMAIN REQUIRED_SECTIONS /\ DocumentOK(documents[1])
  BY <1>1, LoadedFacts, SectionsAre DEF KInv
<1>3. Done(1, 1)
  BY DEF Done
<1>4. Faces(FlattenSeq(Within(chunks, documents[1].id, 1))) = Faces(documents[1].sections[1])
  BY <1>1, <1>2, <1>3 DEF KInv, Covered, TextIs
<1>5. Faces(documents[1].sections[1]) # << >>
  BY <1>2, FacesNotEmpty DEF DocumentOK
<1>6. QED BY <1>4, <1>5, NoChunks

StoreOK == StoreConsistent /\ AnswerIsTopK

(* Any call of the store.                                                  *)
LEMMA StoreStep == StoreOK /\ [StoreNext]_store => StoreOK'
BY ConsistentStep, AnswerStep DEF StoreOK

(* The steps of the pipeline: its one batch is not empty.                  *)
LEMMA StoreInPipeline == KInv /\ StoreOK /\ [KNext]_allVars => StoreOK'
<1> SUFFICES ASSUME KInv, StoreOK, [KNext]_allVars PROVE StoreOK'
  OBVIOUS
<1>1. CASE UNCHANGED store
  BY <1>1, StoreStep
<1>2. CASE BuildIndex /\ ValidBatch(Entries)
  <2>1. stage = "embed" /\ ~MoreToEmbed /\ InsertAll(Entries) /\ Invalidate
    BY <1>2 DEF BuildIndex, AddMany
  <2>2. Entries \in Seq(Record) /\ Len(Entries) = Len(chunks)
    BY <2>1, EntriesAre
  <2>3. Len(chunks) >= 1
    <3>1. chunks \in Seq(Chunk) /\ chunks # << >>
      BY <2>1, SomeChunks DEF KInv, ChunksOK
    <3>2. QED BY <3>1, EmptySeq
  <2>4. StoreConsistent'
    BY <1>2, <2>1, <2>2, <2>3, InsertKeeps DEF StoreOK
  <2>5. AnswerIsTopK'
    BY <2>1 DEF Invalidate, AnswerIsTopK
  <2>6. QED BY <2>4, <2>5 DEF StoreOK
<1>3. CASE Answering
  BY <1>3, StoreStep DEF Answering, StoreNext
<1>4. CASE ByHand
  BY <1>4, StoreStep DEF ByHand
<1>5. CASE BuildIndex /\ ~ValidBatch(Entries)
  <2>1. UNCHANGED store
    BY <1>5 DEF BuildIndex, EndsWith
  <2>2. QED BY <1>1, <2>1
<1>6. CASE DependencyMissing \/ LoadCorpus \/ CutPiece \/ EndSection \/ LoadModel
           \/ EmbedBatch \/ EncoderFails \/ UNCHANGED allVars
  <2>1. UNCHANGED store
    BY <1>6 DEF DependencyMissing, LoadCorpus, CutPiece, EndSection, LoadModel,
                EmbedBatch, EncoderFails, EndsWith, allVars
  <2>2. QED BY <1>1, <2>1
<1>7. QED BY <1>2, <1>3, <1>4, <1>5, <1>6 DEF KNext, Preparing

(* In the pipeline as on its own.                                          *)
LEMMA StoreHolds == KSpec => []StoreOK
<1>1. KInit => StoreOK
  BY ConsistentInit DEF KInit, StoreOK, StoreInit, AnswerIsTopK
<1>2. QED BY <1>1, KInvHolds, StoreInPipeline, PTL DEF KSpec

(* The same of the store that prepare fills: the records of a corpus are a *)
(* batch that add_many accepts or refuses whole, and never an empty one.   *)
THEOREM PipelineStoreConsistent == KSpec => []StoreConsistent
<1>1. StoreOK => StoreConsistent
  BY DEF StoreOK
<1>2. QED BY <1>1, StoreHolds, PTL

(* The pipeline, once ready, answers with the best there are.              *)
THEOREM PipelineSearchIsTopK == KSpec => []AnswerIsTopK
<1>1. StoreOK => AnswerIsTopK
  BY DEF StoreOK
<1>2. QED BY <1>1, StoreHolds, PTL
-----------------------------------------------------------------------------
(* The analysis.                                                           *)
Underway ==
  /\ phase # "idle" => outcome = Nothing
  /\ phase \notin {"idle", "call"} => answers = << >>
  /\ phase = "call" => Len(answers) <= MaxRetries
  /\ rag.status # "used" => rag.supplied = 0

Preparation ==
  /\ phase \in {"load", "index"} => ~ready /\ remembered = Nothing
  /\ phase = "retrieve" => ready
  /\ ~ready /\ remembered = Nothing => loads = escapes + (IF phase = "index" THEN 1 ELSE 0)
  /\ ~ready /\ remembered # Nothing => loads <= escapes + 1
  /\ ready => remembered = Nothing /\ loads = escapes + 1

IInv == TypeOK /\ Underway /\ CitationsSupplied /\ RetriesSound

(* The lengths a request's answers can have.                               *)
LEMMA AppendAnswer ==
  ASSUME TypeOK, NEW reply \in Answer, answers' = Append(answers, reply)
  PROVE  /\ answers' \in Seq(Answer) /\ Len(answers') = Len(answers) + 1
         /\ answers'[Len(answers')] = reply
         /\ \A i \in DOMAIN answers' : i < Len(answers') => answers'[i] = answers[i]
         /\ \A i \in DOMAIN answers' : i < Len(answers') => i \in DOMAIN answers
BY DEF TypeOK

(* Whatever failure an answer stands for has a reason.                     *)
LEMMA EveryKindHasAReason ==
  ASSUME NEW kind \in Retryable \cup Fatal PROVE ReasonOf(kind) \in Reasons
BY DEF Retryable, Fatal, ReasonOf, Reasons

(* What holds of the state before a request is sent.                       *)
Unanswered ==
  /\ answers = << >> /\ outcome = Nothing
  /\ rag \in RagOutcome /\ (rag.status # "used" => rag.supplied = 0)
  /\ ready \in BOOLEAN /\ remembered \in Unprepared \cup {Nothing}
  /\ loads \in Nat /\ escapes \in Nat /\ captures \in 0..MaxCaptures
  /\ phase \in {"idle", "signals", "prepare", "load", "index", "retrieve", "client", "call"}

(* Before the first answer there is little to say.                         *)
LEMMA UnansweredSuffices == Unanswered => IInv
<1> SUFFICES ASSUME Unanswered PROVE IInv
  OBVIOUS
<1>1. answers \in Seq(Answer) /\ Len(answers) = 0 /\ DOMAIN answers = {}
  BY DEF Unanswered
<1> QED
  BY <1>1, AnalysisAssumption
     DEF Unanswered, IInv, TypeOK, Underway, CitationsSupplied, RetriesSound

(* The same of the next state.                                             *)
LEMMA UnansweredSufficesNext == Unanswered' => IInv'
BY UnansweredSuffices, PTL

(* What that is before a request.                                          *)
LEMMA NothingAnswered == IInv /\ phase \notin {"idle", "call"} => Unanswered
BY DEF IInv, TypeOK, Underway, Unanswered

(* What is known of the pipeline keeps its type.                           *)
LEMMA KnowledgeTyped ==
  ASSUME NEW status \in Statuses, NEW n \in 0..MaxItems, status = "used" \/ n = 0
  PROVE  /\ Knowledge(status, n) \in RagOutcome
         /\ Knowledge(status, n).status # "used" => Knowledge(status, n).supplied = 0
BY DEF Knowledge, RagOutcome

(* Without retrieval nothing is supplied.                                  *)
LEMMA NoKnowledge ==
  ASSUME NEW status \in Statuses
  PROVE  /\ Knowledge(status, 0) \in RagOutcome
         /\ Knowledge(status, 0).supplied = 0
BY AnalysisAssumption DEF Knowledge, RagOutcome

(* Before the first capture.                                               *)
LEMMA StartsRight == Init => IInv
<1> SUFFICES ASSUME Init PROVE IInv
  OBVIOUS
<1>1. rag \in RagOutcome /\ rag.supplied = 0
  <2>1. \E status \in Statuses : rag = Knowledge(status, 0)
    BY DEF Init, Statuses
  <2> QED BY <2>1, NoKnowledge
<1>2. /\ answers = << >> /\ outcome = Nothing /\ phase = "idle"
      /\ ready = FALSE /\ remembered = Nothing
      /\ loads = 0 /\ escapes = 0 /\ captures = 0
  BY DEF Init
<1>3. /\ ready \in BOOLEAN /\ captures \in 0..MaxCaptures
      /\ loads \in Nat /\ escapes \in Nat
  <2>1. ready \in BOOLEAN
    BY <1>2, Zenon
  <2>2. captures \in 0..MaxCaptures /\ loads \in Nat /\ escapes \in Nat
    <3>1. captures = 0 /\ loads = 0 /\ escapes = 0
      BY <1>2
    <3> QED BY <3>1, AnalysisAssumption
  <2> QED BY <2>1, <2>2
<1>4. Unanswered
  <2>1. /\ answers = << >> /\ outcome = Nothing
        /\ rag \in RagOutcome /\ (rag.status # "used" => rag.supplied = 0)
    BY <1>1, <1>2
  <2>2. remembered \in Unprepared \cup {Nothing}
    BY <1>2
  <2>3. phase \in {"idle", "signals", "prepare", "load", "index", "retrieve", "client", "call"}
    BY <1>2
  <2> QED BY <1>3, <2>1, <2>2, <2>3 DEF Unanswered
<1> QED BY <1>4, UnansweredSuffices

(* The preparation and the retrieval, and the steps between.               *)
LEMMA PipelineSteps ==
  ASSUME IInv,
         Begin \/ ExtractSignals \/ Prepared \/ PrepareCorpus \/ PrepareModel
           \/ PrepareIndex \/ Retrieve \/ Send
  PROVE  IInv'
<1> SUFFICES Unanswered'
  BY UnansweredSufficesNext
<1>1. CASE Begin
  <2>1. rag' \in RagOutcome /\ rag'.supplied = 0
    <3>1. \E status \in Statuses : rag' = Knowledge(status, 0)
      BY <1>1 DEF Begin, Statuses
    <3> QED BY <3>1, NoKnowledge
  <2>2. /\ answers' = << >> /\ outcome' = Nothing /\ phase' \in {"signals", "client"}
        /\ captures < MaxCaptures /\ captures' = captures + 1
        /\ UNCHANGED <<ready, remembered, loads, escapes>>
    BY <1>1 DEF Begin, pipeline
  <2>3. captures' \in 0..MaxCaptures
    BY <2>2, AnalysisAssumption DEF IInv, TypeOK
  <2> QED BY <2>1, <2>2, <2>3 DEF IInv, TypeOK, Unanswered
<1>2. ASSUME phase \notin {"idle", "call"} PROVE Unanswered
  BY <1>2, NothingAnswered
<1>3. CASE ExtractSignals
  <2>1. Unanswered
    BY <1>2, <1>3 DEF ExtractSignals
  <2>2. rag' \in {rag, Knowledge("retrieval_failed", 0)}
    BY <1>3 DEF ExtractSignals, WithKnowledge
  <2>3. rag' \in RagOutcome /\ (rag'.status # "used" => rag'.supplied = 0)
    BY <2>1, <2>2, NoKnowledge DEF Unanswered, Statuses
  <2> QED BY <1>3, <2>1, <2>3 DEF ExtractSignals, WithKnowledge, Unanswered, pipeline
<1>4. CASE Prepared
  <2>1. Unanswered
    BY <1>2, <1>4 DEF Prepared
  <2>2. \/ rag' = rag
        \/ rag' = Knowledge(remembered, 0) /\ remembered \in Statuses
    BY <1>4, <2>1 DEF Prepared, WithKnowledge, Unanswered, Statuses
  <2>3. rag' \in RagOutcome /\ (rag'.status # "used" => rag'.supplied = 0)
    BY <2>1, <2>2, NoKnowledge DEF Unanswered
  <2> QED BY <1>4, <2>1, <2>3 DEF Prepared, WithKnowledge, Unanswered, pipeline
<1>5. ASSUME NEW status \in Unprepared, Fail(status) PROVE
        /\ rag' \in RagOutcome /\ rag'.supplied = 0 /\ phase' = "client"
        /\ remembered' \in Unprepared
        /\ UNCHANGED <<captures, answers, outcome, escapes>>
  BY <1>5, NoKnowledge DEF Fail, WithKnowledge, Statuses
<1>6. CASE PrepareCorpus
  <2>1. Unanswered
    BY <1>2, <1>6 DEF PrepareCorpus
  <2>2. CASE \E status \in {"dependency_missing", "corpus_unavailable"} : Fail(status)
    BY <1>5, <1>6, <2>1, <2>2 DEF PrepareCorpus, Unanswered, Unprepared
  <2>3. CASE phase' = "load" /\ UNCHANGED <<pipeline, escapes, captures, rag, answers, outcome>>
    BY <2>1, <2>3 DEF Unanswered, pipeline
  <2> QED BY <1>6, <2>2, <2>3 DEF PrepareCorpus, Fail
<1>7. CASE PrepareModel
  <2>1. Unanswered
    BY <1>2, <1>7 DEF PrepareModel
  <2>2. loads' \in Nat /\ ready' \in BOOLEAN
    BY <1>7, <2>1 DEF PrepareModel, Unanswered
  <2>3. CASE Fail("model_unavailable")
    BY <1>5, <2>1, <2>2, <2>3 DEF Unanswered, Unprepared
  <2>4. CASE ~Fail("model_unavailable")
    BY <1>7, <2>1, <2>2, <2>4 DEF PrepareModel, Unanswered
  <2> QED BY <2>3, <2>4
<1>8. CASE PrepareIndex
  <2>1. Unanswered
    BY <1>2, <1>8 DEF PrepareIndex
  <2>2. CASE Fail("index_failed") /\ UNCHANGED ready
    BY <1>5, <1>8, <2>1, <2>2 DEF PrepareIndex, Unanswered, Unprepared
  <2>3. CASE ready' = TRUE /\ remembered' = Nothing /\ phase' = "retrieve"
               /\ UNCHANGED <<escapes, captures, rag, answers, outcome>>
    BY <1>8, <2>1, <2>3 DEF PrepareIndex, Unanswered
  <2> QED BY <1>8, <2>2, <2>3 DEF PrepareIndex, Fail
<1>9. CASE Retrieve
  <2>1. Unanswered
    BY <1>2, <1>9 DEF Retrieve
  <2>2. /\ phase' = "client"
        /\ UNCHANGED <<ready, remembered, loads, escapes, captures, answers, outcome>>
    BY <1>9 DEF Retrieve, WithKnowledge, pipeline
  <2>3. rag' \in RagOutcome /\ (rag'.status # "used" => rag'.supplied = 0)
    <3>1. CASE \E status \in {"retrieval_failed", "no_knowledge"} : rag' = Knowledge(status, 0)
      BY <3>1, NoKnowledge DEF Statuses
    <3>2. CASE \E n \in Labels : rag' = Knowledge("used", n)
      BY <3>2, KnowledgeTyped, AnalysisAssumption DEF Labels, Statuses
    <3> QED BY <1>9, <3>1, <3>2 DEF Retrieve, WithKnowledge
  <2> QED BY <2>1, <2>2, <2>3 DEF Unanswered
<1>10. CASE Send
  <2>1. Unanswered
    BY <1>2, <1>10 DEF Send
  <2> QED BY <1>10, <2>1 DEF Send, Unanswered, pipeline
<1> QED BY <1>1, <1>3, <1>4, <1>6, <1>7, <1>8, <1>9, <1>10

(* An outcome without a request.                                           *)
LEMMA UnsentStep == IInv /\ Unsent => IInv'
<1> SUFFICES ASSUME IInv, Unsent PROVE IInv'
  OBVIOUS
<1>1. PICK reason \in Unsendable : Finish(Failed(reason, 0))
  BY DEF Unsent
<1>2. /\ outcome' = [ok |-> FALSE, failure |-> reason, cited |-> {}, attempts |-> 0,
                     rag |-> rag]
      /\ phase' = "idle" /\ answers' = << >>
      /\ UNCHANGED <<ready, remembered, loads, escapes, captures, rag>>
  BY <1>1 DEF Unsent, Finish, Failed, pipeline, IInv, Underway
<1>3. TypeOK'
  BY <1>2, AnalysisAssumption DEF IInv, TypeOK, Outcome, Reasons, Unsendable, Labels
<1>4. Underway'
  BY <1>2 DEF IInv, Underway
<1>5. CitationsSupplied' /\ RetriesSound'
  BY <1>2 DEF CitationsSupplied, RetriesSound
<1> QED BY <1>3, <1>4, <1>5 DEF IInv

(* An answer: tried again, or the outcome.                                 *)
LEMMA AttemptStep ==
  ASSUME IInv, NEW reply \in Answer, Attempt(reply)
  PROVE  IInv'
<1> DEFINE n == Len(answers')
<1>1. /\ phase = "call" /\ outcome = Nothing /\ Len(answers) \in Nat
      /\ Len(answers) <= MaxRetries
      /\ UNCHANGED <<ready, remembered, loads, escapes, captures, rag>>
  BY DEF Attempt, Finish, pipeline, IInv, TypeOK, Underway
<1>2. /\ answers' \in Seq(Answer) /\ n = Len(answers) + 1 /\ answers'[n] = reply
      /\ \A i \in DOMAIN answers' : i < n => answers'[i].kind \in Retryable
  <2>1. answers' = Append(answers, reply)
    BY DEF Attempt
  <2>2. \A i \in DOMAIN answers : answers[i].kind \in Retryable
    BY <1>1 DEF IInv, RetriesSound
  <2> QED BY <2>1, <2>2, AppendAnswer DEF IInv
<1>3. \/ reply.kind = "parsed" /\ reply.cited \subseteq Labels
      \/ reply.kind \in Retryable \cup Fatal /\ reply.kind # "parsed"
  BY DEF Answer, Retryable, Fatal
<1>4. CASE reply.kind = "parsed" /\ Unknown(reply.cited) = {}
  <2>1. /\ outcome' = [ok |-> TRUE, failure |-> Nothing, cited |-> reply.cited,
                       attempts |-> n, rag |-> rag]
        /\ phase' = "idle"
    BY <1>4 DEF Attempt, Finish
  <2>2. reply.cited \subseteq Labels
    BY <1>4 DEF Answer, Retryable, Fatal
  <2>3. reply.cited \subseteq 1..rag.supplied
    BY <1>4 DEF Unknown
  <2>4. TypeOK'
    BY <1>1, <1>2, <2>1, <2>2, AnalysisAssumption DEF IInv, TypeOK, Outcome
  <2>5. Underway'
    BY <1>1, <2>1 DEF IInv, Underway
  <2>6. CitationsSupplied'
    BY <1>1, <2>1, <2>3 DEF IInv, Underway, CitationsSupplied
  <2>7. RetriesSound'
    BY <1>1, <1>2, <1>4, <2>1 DEF RetriesSound, Retryable
  <2> QED BY <2>4, <2>5, <2>6, <2>7 DEF IInv
<1>5. CASE reply.kind = "parsed" /\ Unknown(reply.cited) # {}
  <2>1. /\ outcome' = [ok |-> FALSE, failure |-> "invalid_response", cited |-> {},
                       attempts |-> n, rag |-> rag]
        /\ phase' = "idle"
    BY <1>5 DEF Attempt, Finish, Failed
  <2>2. reply.cited # {}
    BY <1>5 DEF Unknown
  <2>3. TypeOK'
    BY <1>1, <1>2, <2>1, AnalysisAssumption DEF IInv, TypeOK, Outcome, Reasons, Labels
  <2>4. Underway' /\ CitationsSupplied'
    BY <1>1, <2>1 DEF IInv, Underway, CitationsSupplied
  <2>5. RetriesSound'
    BY <1>1, <1>2, <1>5, <2>1, <2>2 DEF RetriesSound, Retryable
  <2> QED BY <2>3, <2>4, <2>5 DEF IInv
<1>6. CASE reply.kind # "parsed" /\ Retries(reply.kind)
  <2>1. phase' = "call" /\ outcome' = Nothing
    BY <1>1, <1>6 DEF Attempt
  <2>2. reply.kind \in Retryable /\ n <= MaxRetries
    BY <1>1, <1>2, <1>6, AnalysisAssumption DEF Retries
  <2>3. TypeOK'
    BY <1>1, <1>2, <2>1, <2>2, AnalysisAssumption DEF IInv, TypeOK
  <2>4. Underway' /\ CitationsSupplied'
    BY <1>1, <2>1, <2>2 DEF IInv, Underway, CitationsSupplied
  <2>5. RetriesSound'
    BY <1>1, <1>2, <2>1, <2>2 DEF RetriesSound
  <2> QED BY <2>3, <2>4, <2>5 DEF IInv
<1>7. CASE reply.kind # "parsed" /\ ~Retries(reply.kind)
  <2>1. /\ outcome' = [ok |-> FALSE, failure |-> ReasonOf(reply.kind), cited |-> {},
                       attempts |-> n, rag |-> rag]
        /\ phase' = "idle"
    BY <1>7 DEF Attempt, Finish, Failed
  <2>2. ReasonOf(reply.kind) \in Reasons
    BY <1>3, <1>7, EveryKindHasAReason
  <2>3. n <= MaxRetries => reply.kind \notin Retryable
    BY <1>1, <1>2, <1>7, AnalysisAssumption DEF Retries
  <2>4. TypeOK'
    BY <1>1, <1>2, <2>1, <2>2, AnalysisAssumption DEF IInv, TypeOK, Outcome, Labels
  <2>5. Underway' /\ CitationsSupplied'
    BY <1>1, <2>1 DEF IInv, Underway, CitationsSupplied
  <2>6. RetriesSound'
    BY <1>1, <1>2, <1>7, <2>1, <2>3 DEF RetriesSound
  <2> QED BY <2>4, <2>5, <2>6 DEF IInv
<1> QED BY <1>4, <1>5, <1>6, <1>7

(* Nothing happens.                                                        *)
LEMMA Stuttering == IInv /\ UNCHANGED vars => IInv'
BY DEF IInv, TypeOK, Underway, CitationsSupplied, RetriesSound, vars, pipeline

(* Every step of an analysis.                                              *)
LEMMA Inductive == IInv /\ [Next]_vars => IInv'
BY PipelineSteps, UnsentStep, AttemptStep, Stuttering DEF Next

(* The invariant holds throughout.                                         *)
LEMMA InvariantHolds == Spec => []IInv
BY StartsRight, Inductive, PTL DEF Spec

(* The variables of an analysis keep their types, and no request is sent   *)
(* more than max_retries + 1 times.                                        *)
THEOREM TypeCorrect == Spec => []TypeOK
<1>1. IInv => TypeOK
  BY DEF IInv
<1> QED BY <1>1, InvariantHolds, PTL

(* complete_structured retries only what is worth it and reports the last  *)
(* attempt.                                                                *)
THEOREM RetriesAreSound == Spec => []RetriesSound
<1>1. IInv => RetriesSound
  BY DEF IInv
<1> QED BY <1>1, InvariantHolds, PTL

(* analyze_capture never passes on a citation of an excerpt that its own   *)
(* request did not carry.                                                  *)
THEOREM CitationsAreSupplied == Spec => []CitationsSupplied
<1>1. IInv => CitationsSupplied
  BY DEF IInv
<1> QED BY <1>1, InvariantHolds, PTL

(* Every step counts its load or its escape.                               *)
LEMMA PreparationKept == TypeOK /\ Preparation /\ [Next]_vars => Preparation'
<1> SUFFICES ASSUME TypeOK, Preparation, [Next]_vars PROVE Preparation'
  OBVIOUS
<1>1. loads \in Nat /\ escapes \in Nat
  BY DEF TypeOK
<1>2. ASSUME Begin \/ Unsent \/ Send \/ Retrieve \/ ExtractSignals PROVE Preparation'
  BY <1>1, <1>2 DEF Begin, Unsent, Send, Retrieve, ExtractSignals, Finish, WithKnowledge,
     pipeline, Preparation
<1>3. ASSUME NEW reply \in Answer, Attempt(reply) PROVE Preparation'
  <2>1. UNCHANGED <<ready, remembered, loads, escapes>> /\ phase = "call"
    BY <1>3 DEF Attempt, Finish, pipeline
  <2>2. phase' \in {"idle", "call"}
    BY <1>3 DEF Attempt, Finish
  <2> QED BY <1>1, <2>1, <2>2 DEF Preparation
<1>4. CASE Prepared
  BY <1>1, <1>4 DEF Prepared, WithKnowledge, pipeline, Preparation
<1>5. CASE PrepareCorpus
  BY <1>1, <1>5, AnalysisAssumption DEF PrepareCorpus, Fail, WithKnowledge, pipeline, Preparation
<1>6. CASE PrepareModel
  <2>1. ~ready /\ remembered = Nothing /\ loads = escapes
    BY <1>1, <1>6 DEF PrepareModel, Preparation
  <2>2. ready' = FALSE /\ loads' = escapes + 1
    BY <1>6, <2>1 DEF PrepareModel
  <2>3. CASE Fail("model_unavailable")
    <3>1. remembered' # Nothing /\ phase' = "client" /\ escapes' = escapes
      BY <2>3, NoneAssumption DEF Fail, WithKnowledge, Unprepared
    <3> QED BY <1>1, <2>2, <3>1 DEF Preparation
  <2>4. CASE phase' = "index" /\ UNCHANGED <<remembered, escapes>>
    BY <1>1, <2>1, <2>2, <2>4 DEF Preparation
  <2>5. CASE phase' = "idle" /\ escapes' = escapes + 1 /\ UNCHANGED remembered
    BY <1>1, <2>1, <2>2, <2>5 DEF Preparation
  <2> QED BY <1>6, <2>3, <2>4, <2>5 DEF PrepareModel
<1>7. CASE PrepareIndex
  <2>1. ~ready /\ loads = escapes + 1 /\ loads' = loads
    BY <1>1, <1>7 DEF PrepareIndex, Preparation
  <2>2. CASE Fail("index_failed") /\ UNCHANGED ready
    <3>1. remembered' # Nothing /\ phase' = "client" /\ escapes' = escapes
      BY <2>2, NoneAssumption DEF Fail, WithKnowledge, Unprepared
    <3> QED BY <1>1, <2>1, <2>2, <3>1 DEF Preparation
  <2>3. CASE ready' = TRUE /\ remembered' = Nothing /\ phase' = "retrieve" /\ escapes' = escapes
    BY <1>1, <2>1, <2>3 DEF Preparation
  <2> QED BY <1>7, <2>2, <2>3 DEF PrepareIndex
<1>8. CASE UNCHANGED vars
  BY <1>8 DEF vars, pipeline, Preparation
<1> QED BY <1>2, <1>3, <1>4, <1>5, <1>6, <1>7, <1>8 DEF Next

(* prepare loads the embedding model once for all captures, or finds out   *)
(* once that it cannot; an exception alone makes it try again.             *)
THEOREM PreparesOnce == Spec => []PreparedOnce
<1>1. Init => Preparation
  BY DEF Init, Preparation
<1>2. TypeOK /\ Preparation => PreparedOnce
  BY DEF TypeOK, Preparation, PreparedOnce
<1> QED BY <1>1, <1>2, PreparationKept, TypeCorrect, PTL DEF Spec
=============================================================================
