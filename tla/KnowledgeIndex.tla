--------------------------- MODULE KnowledgeIndex ---------------------------
(***************************************************************************)
(* KnowledgePipeline.prepare in ai/rag/pipeline.py: the corpus is loaded,  *)
(* its sections are cut into chunks, the chunks are embedded in batches and*)
(* the store is filled in one call; any failure becomes a status and       *)
(* leaves the pipeline without an index.  A turn of each loop is an action.*)
(*                                                                         *)
(* The same store can be filled by hand instead, which is the stage        *)
(* "by_hand": then every call of VectorStore is open to the caller.        *)
(***************************************************************************)
EXTENDS VectorStore, Documents

CONSTANTS
  Corpora,          \* what may be under the knowledge root: sets of files
  ChunkId(_, _, _), \* the id of a chunk of a document, section and index
  IndexLimit,       \* chunk indices a well-formed chunk id can carry
  BatchSize,        \* EmbeddingConfig.batch_size
  Model,            \* EmbeddingConfig.model_name
  Encode(_)         \* the encoder: the input it is given to a vector

\* A line is read as characters; Slugs sorts the names of the files.
ASSUME CorporaAssumption ==
  \A corpus \in Corpora :
    /\ IsFiniteSet(corpus)
    /\ \A file \in corpus :
         /\ file.stem \in ToSet(Slugs)
         /\ file.lines \in Seq([kind : STRING, key : STRING, value : STRING,
                               chars : Seq(Characters)])

\* An id is put together of the name, the section and the index.
ASSUME ChunkIdAssumption ==
  /\ IndexLimit \in Nat
  /\ \A d, e \in ToSet(Slugs), s, t \in DOMAIN REQUIRED_SECTIONS, k, l \in 0..(IndexLimit - 1) :
       /\ ChunkId(d, s, k) \in Ids
       /\ ChunkId(d, s, k) = ChunkId(e, t, l) => <<d, s, k>> = <<e, t, l>>

ASSUME EncoderAssumption ==
  /\ BatchSize \in Nat \ {0} /\ Model \in Models
  /\ \A d \in ToSet(Slugs), s \in DOMAIN REQUIRED_SECTIONS, n \in 1..MaxChars :
       \A text \in [1..n -> Characters] : Encode(<<d, s, text>>) \in Vectors

VARIABLES
  stage,      \* how far prepare is, or the RAGStatus it ended with
  files,      \* the files under the root
  documents,  \* the corpus
  doc, sec,   \* the document and the section that is being cut
  start,      \* _split_section: where the next piece starts
  pieces,     \* and what it has cut
  chunks,     \* the chunks so far
  encoded     \* embed_texts: the vectors so far

cutting == <<doc, sec, start, pieces>>
knowledge == <<stage, files, documents, cutting, chunks, encoded>>
allVars == <<store, knowledge>>

Prepare ==
  /\ stage \in {"by_hand", "load"}
  /\ files \in IF stage = "load" THEN Corpora ELSE {{}}
  /\ documents = << >> /\ chunks = << >> /\ encoded = << >>
  /\ doc = 1 /\ sec = 1 /\ start = 0 /\ pieces = << >>

KInit == StoreInit /\ Prepare

EndsWith(status) ==
  /\ stage' = status
  /\ UNCHANGED <<store, files, documents, cutting, chunks, encoded>>
-----------------------------------------------------------------------------
\* The optional dependencies are imported before anything is read.
DependencyMissing == stage = "load" /\ EndsWith("dependency_missing")

LoadCorpus ==
  /\ stage = "load"
  /\ IF Loads(files) /\ Corpus(files) # << >>
     THEN /\ stage' = "chunk" /\ documents' = Corpus(files)
          /\ UNCHANGED <<store, files, cutting, chunks, encoded>>
     ELSE EndsWith("corpus_unavailable")

Body == documents[doc].sections[sec]

CutPiece ==
  /\ stage = "chunk" /\ start < Len(Body)
  /\ \E prefix \in {Prefix(pieces)} :
       /\ start' = PieceEnd(Body, start, MaxChars - Len(prefix))
       /\ pieces' = WithPiece(pieces, prefix, Stripped(Body, start, start'))
  /\ UNCHANGED <<store, stage, files, documents, doc, sec, chunks, encoded>>

(* chunk_document: the pieces of a section become chunks once it is cut;   *)
(* an id that KnowledgeChunk rejects ends the whole corpus.                *)
ChunksOf(d, s) ==
  [k \in DOMAIN pieces |->
     [chunk_id |-> ChunkId(documents[d].id, s, k - 1), document |-> documents[d].id,
      section |-> s, text |-> pieces[k].text, overlap |-> pieces[k].overlap]]

EndSection ==
  /\ stage = "chunk" /\ start = Len(Body)
  /\ IF Len(pieces) > IndexLimit THEN EndsWith("corpus_unavailable")
     ELSE LET lastSection == sec = Len(REQUIRED_SECTIONS)
          IN /\ chunks' = chunks \o ChunksOf(doc, sec)
             /\ stage' = IF lastSection /\ doc = Len(documents) THEN "model" ELSE stage
             /\ doc' = IF lastSection /\ doc < Len(documents) THEN doc + 1 ELSE doc
             /\ sec' = IF ~lastSection THEN sec + 1
                       ELSE IF doc < Len(documents) THEN 1 ELSE sec
             /\ start' = 0 /\ pieces' = << >>
             /\ UNCHANGED <<store, files, documents, encoded>>

\* EmbeddingModel.load: the library, the cache or the network may fail it.
LoadModel ==
  /\ stage = "model"
  /\ \E status \in {"embed", "model_unavailable"} : EndsWith(status)
-----------------------------------------------------------------------------
Input(chunk) == <<chunk.document, chunk.section, chunk.text>>   \* build_embedding_input

\* _batches: the next batch; the last may be shorter.
NextBatch ==
  SubSeq(chunks, Len(encoded) + 1, Min({Len(chunks), Len(encoded) + BatchSize}))

AlwaysOneMore == Len(encoded) <= Len(chunks)                    \* mutant

MoreToEmbed == Len(encoded) < Len(chunks)

EmbedBatch ==
  /\ stage = "embed" /\ MoreToEmbed
  /\ encoded' = encoded \o [k \in DOMAIN NextBatch |-> Encode(Input(NextBatch[k]))]
  /\ UNCHANGED <<store, stage, files, documents, cutting, chunks>>

(* The encoder may raise, or answer with another number of vectors or with *)
(* vectors of another width; each of these ends prepare.                   *)
EncoderFails == stage = "embed" /\ MoreToEmbed /\ EndsWith("index_failed")

(* The rows become records, chunk by chunk, and then the store is filled.  *)
(* A vector without a direction is no EmbeddingResult.                     *)
Entries == [k \in 1..Min({Len(chunks), Len(encoded)}) |->
             [chunk_id |-> chunks[k].chunk_id, model_name |-> Model, vector |-> encoded[k]]]

BuildIndex ==
  /\ stage = "embed" /\ ~MoreToEmbed
  /\ IF ValidBatch(Entries)
     THEN /\ AddMany(Entries) /\ stage' = "used"
          /\ UNCHANGED <<files, documents, cutting, chunks, encoded>>
     ELSE EndsWith("index_failed")

\* Once it is ready the pipeline only searches.
Answering ==
  /\ stage = "used"
  /\ \E query \in Vectors, top_k \in 0..MaxTopK, floor \in Floors : Search(query, top_k, floor)
  /\ UNCHANGED knowledge

ByHand == stage = "by_hand" /\ StoreNext /\ UNCHANGED knowledge

Preparing ==
  \/ DependencyMissing \/ LoadCorpus \/ CutPiece \/ EndSection \/ LoadModel
  \/ EmbedBatch \/ BuildIndex

KNext == Preparing \/ EncoderFails \/ Answering \/ ByHand

\* prepare runs in the caller's thread and waits for nobody.
KSpec == KInit /\ [][KNext]_allVars /\ WF_allVars(Preparing)
-----------------------------------------------------------------------------
\* The text without its white space.
Faces(t) ==
  LET faces[n \in 0..Len(t)] ==
        IF n = 0 THEN << >>
        ELSE IF t[n] \in White THEN faces[n - 1] ELSE Append(faces[n - 1], t[n])
  IN faces[Len(t)]

BodyWithin(chunk, document, section) ==
  IF chunk.document = document /\ chunk.section = section THEN BodyOf(chunk) ELSE << >>

(* Cutting a section loses none of its text, repeats only what is marked   *)
(* as overlap, which is the end of the chunk before and at most the        *)
(* configured length, and no chunk is empty or exceeds the limit; this     *)
(* holds of every prefix of the section that has been cut so far.          *)
ChunksCover ==
  stage = "chunk" =>
    /\ Faces(FlattenSeq([k \in DOMAIN pieces |-> BodyOf(pieces[k])]))
         = Faces(Slice(Body, 0, start))
    /\ \A k \in DOMAIN pieces :
         LET overlap == Slice(pieces[k].text, 0, pieces[k].overlap)
         IN /\ Len(pieces[k].text) \in 1..MaxChars
            /\ pieces[k].overlap <= OverlapChars
            /\ Strip(BodyOf(pieces[k])) # << >>
            /\ k = 1 => overlap = << >>
            /\ k > 1 => IsSuffix(overlap, pieces[k - 1].text)

(* The index holds each chunk of the corpus once, in corpus order, with    *)
(* the vector of its own text; the chunks of each section of each file     *)
(* under a category directory are there with all of its text; a prepare    *)
(* that failed leaves nothing behind; and a corpus that loads can always   *)
(* be indexed, for ids never collide, whatever the directories.            *)
IndexFaithful ==
  /\ \A i, j \in DOMAIN chunks : i # j => chunks[i].chunk_id # chunks[j].chunk_id
  /\ stage = "used" =>
       /\ records = [k \in DOMAIN chunks |->
            [chunk_id |-> chunks[k].chunk_id, model_name |-> Model,
             vector |-> Encode(Input(chunks[k]))]]
       /\ \A file \in Discovered(files), s \in DOMAIN REQUIRED_SECTIONS :
            Faces(FlattenSeq([k \in DOMAIN chunks |-> BodyWithin(chunks[k], file.stem, s)]))
              = Faces(Contents(file.lines)[s])
  /\ stage \notin {"used", "by_hand"} => records = << >>

(* prepare ends, with an index or with a status that says why there is     *)
(* none: no section is cut for ever.                                       *)
PrepareEnds ==
  stage = "load" ~> stage \in {"used", "dependency_missing", "corpus_unavailable",
                               "model_unavailable", "index_failed"}
=============================================================================
