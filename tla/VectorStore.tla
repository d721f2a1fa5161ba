---------------------------- MODULE VectorStore ----------------------------
(***************************************************************************)
(* ai/rag/vector_store.py: the in-memory index of the knowledge chunks.    *)
(* Records, their vectors and an id index grow together; the matrix and the*)
(* row norms are built from the vectors when a search needs them and kept  *)
(* until the next mutation.  All records share one width and one model.    *)
(*                                                                         *)
(* A vector is an element of Vectors, known by its width and by its        *)
(* similarity to a query; floating point and formatting are left out.  A   *)
(* rejected call changes nothing, so it is no step.                        *)
(***************************************************************************)
EXTENDS Naturals, Sequences, FiniteSets

CONSTANTS Ids,        \* chunk ids, as numbers: ties are broken by their order
          Models,     \* names of embedding models
          Vectors,    \* vectors that occur, as embedding or as query
          Width,      \* their dimensions
          Zero,       \* those without a direction
          Similarity, \* cosine of two vectors, shifted to a natural number
          Offered,    \* records that callers add one by one or in batches
          MaxBatch,   \* bound: records in one batch
          MaxTopK,    \* bound on top_k
          None        \* Python's None

ASSUME StoreAssumption ==
  /\ Ids \subseteq Nat
  /\ Zero \subseteq Vectors
  /\ Width \in [Vectors -> Nat \ {0}]
  /\ Similarity \in [Vectors \X Vectors -> Nat]
  /\ MaxBatch \in Nat /\ MaxTopK \in Nat
  /\ None \notin Models \cup Seq(Vectors) \cup Nat

VARIABLES records,     \* _records
          vectors,     \* _vectors
          index,       \* _index: chunk id -> position
          dimension,   \* _dimension
          model_name,  \* _model_name
          matrix,      \* _matrix, the vectors it was stacked from
          norms,       \* _norms, the vectors they were computed from
          answer       \* the last search and its results, until a mutation

contents == <<records, vectors, index, dimension, model_name>>
store == <<records, vectors, index, dimension, model_name, matrix, norms, answer>>

Record == [chunk_id : Ids, model_name : Models, vector : Vectors]
Batch == UNION {[1..n -> Offered] : n \in 1..MaxBatch}

ASSUME OfferedAssumption == Offered \subseteq Record

StoreInit ==
  /\ records = << >> /\ vectors = << >> /\ index = << >>
  /\ dimension = None /\ model_name = None
  /\ matrix = None /\ norms = None
  /\ answer = None
-----------------------------------------------------------------------------
(* _validate: what is wanted is None until there is a record.              *)
Meets(value, wanted) == wanted = None \/ value = wanted

Valid(r, dim, model) ==
  /\ r.chunk_id \notin DOMAIN index
  /\ r.vector \notin Zero
  /\ Meets(Width[r.vector], dim)
  /\ Meets(r.model_name, model)

ValidButForRepeats(batch) ==                                    \* mutant
  \A i \in DOMAIN batch :
    IF i = 1 THEN Valid(batch[i], dimension, model_name)
    ELSE Valid(batch[i], Width[batch[i - 1].vector], batch[i - 1].model_name)

(* add_many validates the whole batch before it inserts anything: each     *)
(* record against the store and against the batch before it.               *)
ValidBatch(batch) ==
  \A i \in DOMAIN batch :
    /\ IF i = 1 THEN Valid(batch[i], dimension, model_name)
       ELSE Valid(batch[i], Width[batch[i - 1].vector], batch[i - 1].model_name)
    /\ \A j \in 1..(i - 1) : batch[j].chunk_id # batch[i].chunk_id

Invalidate == matrix' = None /\ norms' = None /\ answer' = None

(* _insert, for each record of a batch in turn.                            *)
InsertAll(batch) ==
  LET n == Len(records)
      last == batch[Len(batch)]
      position(id) == CHOOSE i \in DOMAIN batch : batch[i].chunk_id = id
  IN /\ records' = records \o batch
     /\ vectors' = vectors \o [i \in DOMAIN batch |-> batch[i].vector]
     /\ index' = [id \in DOMAIN index \cup {batch[i].chunk_id : i \in DOMAIN batch} |->
                    IF id \in DOMAIN index THEN index[id] ELSE n + position(id)]
     /\ dimension' = Width[last.vector]
     /\ model_name' = last.model_name

Add(r) ==
  /\ Valid(r, dimension, model_name)
  /\ InsertAll(<<r>>)
  /\ Invalidate

AddMany(batch) ==
  /\ ValidBatch(batch)
  /\ InsertAll(batch)
  /\ Invalidate

Emptied ==
  /\ records' = << >> /\ vectors' = << >> /\ index' = << >>
  /\ dimension' = None /\ model_name' = None

Clear == Emptied /\ Invalidate
-----------------------------------------------------------------------------
Built(cache) == IF cache = None THEN vectors ELSE cache

\* matrix(): a copy for inspection; it fills the cache of the matrix only.
Inspect ==
  /\ records # << >>
  /\ matrix' = Built(matrix)
  /\ UNCHANGED <<contents, norms, answer>>

NearerByPosition(score, i, j) ==                                \* mutant
  \/ score[i] > score[j]
  \/ score[i] = score[j] /\ i < j

(* search: the rows of the cached matrix are scored, the ids come from the *)
(* records.  A result's rank is the number of results before it.           *)
Nearer(score, i, j) ==
  \/ score[i] > score[j]
  \/ score[i] = score[j] /\ records[i].chunk_id < records[j].chunk_id

Results(score, top_k, floor) ==
  LET ranked == {i \in DOMAIN score : score[i] >= floor}
      rank(i) == Cardinality({j \in ranked : Nearer(score, j, i)})
  IN {[record |-> records[i], similarity |-> score[i], rank |-> rank(i)] :
        i \in {i \in ranked : rank(i) < top_k}}

Search(query, top_k, floor) ==
  /\ query \notin Zero /\ Meets(Width[query], dimension)
  /\ IF records = << >> \/ top_k = 0
     THEN /\ answer' = [query |-> query, top_k |-> top_k, floor |-> floor,
                        results |-> {}]
          /\ UNCHANGED <<contents, matrix, norms>>
     ELSE LET rows == Built(matrix)
              score == [i \in DOMAIN rows |-> Similarity[query, rows[i]]]
          IN /\ matrix' = rows
             /\ norms' = IF norms = None THEN rows ELSE norms
             /\ answer' = [query |-> query, top_k |-> top_k, floor |-> floor,
                           results |-> Results(score, top_k, floor)]
             /\ UNCHANGED contents

Floors == {Similarity[p] : p \in Vectors \X Vectors} \cup {0}   \* 0: no floor

StoreNext ==
  \/ \E r \in Offered : Add(r)
  \/ \E batch \in Batch : AddMany(batch)
  \/ Clear \/ Inspect
  \/ \E query \in Vectors, top_k \in 0..MaxTopK, floor \in Floors :
       Search(query, top_k, floor)

StoreSpec == StoreInit /\ [][StoreNext]_store
-----------------------------------------------------------------------------
(* The parallel structures agree after any sequence of calls: the index    *)
(* finds every record and nothing else, the vectors are those of the       *)
(* records, all of one width and one model, and a cache that is kept is    *)
(* that of the vectors there are.                                          *)
StoreConsistent ==
  /\ records \in Seq(Record)
  /\ vectors = [i \in DOMAIN records |-> records[i].vector]
  /\ \A i \in DOMAIN records : /\ records[i].chunk_id \in DOMAIN index
                               /\ index[records[i].chunk_id] = i
  /\ \A id \in DOMAIN index : /\ index[id] \in DOMAIN records
                              /\ records[index[id]].chunk_id = id
  /\ \A i \in DOMAIN records : /\ records[i].vector \notin Zero
                               /\ Width[records[i].vector] = dimension
                               /\ records[i].model_name = model_name
  /\ records = << >> => dimension = None /\ model_name = None
  /\ matrix \in {None, vectors} /\ norms \in {None, matrix}

Stored == {records[i] : i \in DOMAIN records}

(* search answers for the store as it is: its results are records of the   *)
(* store with their own similarity, ranked by similarity and then by id    *)
(* whatever order they were added in, and no record it left out would have *)
(* come before one it returned.                                            *)
TopK(a, all) ==
  LET similarity(r) == Similarity[a.query, r.vector]
      before(r, s) == \/ similarity(r) > similarity(s)
                      \/ similarity(r) = similarity(s) /\ r.chunk_id < s.chunk_id
      found == {x.record : x \in a.results}
      missed == {r \in all \ found : similarity(r) >= a.floor}
  IN /\ found \subseteq all
     /\ \A x \in a.results :
          /\ x.similarity = similarity(x.record) /\ x.similarity >= a.floor
          /\ \A y \in a.results : before(x.record, y.record) => x.rank < y.rank
     /\ {x.rank : x \in a.results} = {n \in 0..MaxTopK : n < Cardinality(found)}
     /\ Cardinality(found) <= a.top_k
     /\ missed # {} => /\ Cardinality(found) = a.top_k
                       /\ \A r \in found, s \in missed : before(r, s)

AnswerIsTopK == answer # None => TopK(answer, Stored)
=============================================================================
