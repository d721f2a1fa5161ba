# A verification project for the DPI traffic analyzer

The repository holds a deep-packet-inspection engine (`src/dpi`), a stand-alone
multi-threaded variant (`src/dpi_mt.py`), a sequential one
(`src/main_working.py`), an analysis layer that describes a capture with a
language model and a small retrieval pipeline (`src/ai`), and an evaluation of
that pipeline (`src/evaluation`, `src/run_rag_evaluation.py`). This directory
holds TLA+ models of its core logic, the TLC configurations that check them,
and proofs for TLAPS.

    tlc -config MCFastPath.cfg MCFastPath     # check a model
    tlapm FastPathProofs.tla                  # check its proofs

Line numbers below refer to `src/`.

## 1. The system

### Components

| Component | State | Operations | Interacts with |
|---|---|---|---|
| Bounded queue, `dpi/thread_safe_queue.py` | deque, `max_size`, shutdown flag, a lock and two condition variables | `push`, `try_push`, `pop`, `pop_with_timeout`, `shutdown` | between every two threads of the engines |
| Connection tracker, `dpi/connection_tracker.py` | `OrderedDict` from five-tuple to `Connection`, oldest `last_seen` first | `get_or_create_connection`, `update_connection`, `classify_connection`, `block_connection`, `cleanup_stale` | owned by one fast path, no lock |
| Fast path, `dpi/fast_path.py` | its tracker, its input queue, TCP state within each connection | one packet at a time: state, short-circuit, inspection, rules, verdict; a timed sweep | reads the rule manager; emits to the output queue |
| Load balancer, `dpi/load_balancer.py` | its input queue | pops a job, hashes its flow, pushes to an FP | reader before it, its FPs after it |
| Engine, `dpi/dpi_engine.py` | running flag, reader and writer threads, output queue, totals | `process_file`: start, read, drain, stop; writer loop | starts and stops all of the above |
| Rule manager, `dpi/rule_manager.py` | four tables (addresses, ports, applications, domains and patterns), a lock each | block, unblock, `should_block`, `clear_all`, `save_rules`, `load_rules` | read by every FP, edited by others, a text file |
| Stand-alone engine, `dpi_mt.py` | its own rules, its own flow tables, one per FP | as the engine, with fixed sleeps and one-directional flows | queue, parsers, classification table |
| Sequential engine, `main_working.py` | rules, flow table, two files | one loop over a capture | reader, parser, extractors, classification table |
| Capture reader and packet parser, `dpi/pcap_reader.py`, `dpi/packet_parser.py` | file position | bytes to headers | called by every engine |
| Name extractors and applications, `dpi/sni_extractor.py`, `dpi/types.py` | none | bytes to a server name; a name to an application | called by every engine |
| Capture report and redaction, `ai/extractor.py`, `ai/redaction.py` | pseudonyms given out | ranks, cuts and copies the flows of a snapshot | engine snapshot before it, signals and prompt after it |
| Signals, `ai/rag/signals.py` | none | thirteen detectors over a report | report before it, retrieval after it |
| Documents and chunking, `ai/rag/documents.py`, `chunking.py` | none | front matter, sections, corpus; sections to overlapping chunks | called by the pipeline |
| Vector store and embeddings, `ai/rag/vector_store.py`, `embeddings.py` | records, vectors, id index, width, model, cached matrix and norms | `add`, `add_many`, `clear`, `search`, `matrix`; batches | filled by the pipeline, searched by retrieval |
| Retrieval and context, `ai/rag/retrieval.py`, `affinity.py`, `context.py` | none between calls | a search per signal, merge, rank, cap, truncate; budget of the prompt | store before it, prompt after it |
| Pipeline, `ai/rag/pipeline.py` | store, embedder, remembered failure | `prepare`, `build_context` | called once per capture by the analyzer |
| Analyzer and client, `ai/analyzer.py`, `ai/llm_client.py` | none between captures | `analyze_capture`; retry loop over the provider | pipeline, provider |
| Evaluation, `evaluation/*.py`, `run_rag_evaluation.py` | counts per case and candidate | candidates and sweeps over labelled cases, a recommendation | drives report, signals, retrieval and budget |
| Prompts, schemas, report text, providers, configuration, console, command lines | files and settings | formatting and look-ups | |

### What is hard in it, and what would be right

* **Queue.** Producers and consumers wait on two condition variables of one
  lock; each operation notifies one waiter. A notification may reach a thread
  that finds its item gone; a timer may fire as an item arrives; shutdown may
  find threads asleep on either side. Right: FIFO, nothing lost or duplicated
  but for a push caught by shutdown, nobody asleep beside work, everybody
  released by shutdown.
* **Engines.** A packet passes through five threads and three queues. The drain
  reads the queue depths one after another while packets move, gives up on
  time, and `stop` ends threads in an order on which the loss of packets
  depends; the stand-alone engine does not drain at all but sleeps. Right: a
  packet is in one place, those of a flow stay in order, stopping makes no push
  discard its packet, verdicts do not depend on the schedule, the call returns.
* **Fast path and tracker.** A conversation is one record under either of two
  tuples; TCP flags drive a state that also serves as "blocked" and
  "classified"; the table evicts the least recently used record; rules change
  between packets. Right: verdicts agree with the rules as they are now, blocks
  hold as long as the record is open, and one flow's block never hits another.
* **Rules.** No operation that visits several tables takes a snapshot. Right:
  what was in force throughout an operation is honoured by it, and what never
  was is not.
* **Bytes.** Lengths nested in lengths, in captures cut anywhere and written in
  either byte order; the offset of the payload is worked out in four places.
  Right: a name is found in a whole packet and in no broken one, the places
  agree, and the file written holds what no rule condemned.
* **Report and signals.** A capture is cut to a number of flows and its
  addresses are replaced before anything is observed in it. Right: neither
  hides what the signals are about.
* **Knowledge.** A corpus is loaded whole or not at all; a section is cut with
  overlap; chunks, vectors, ids and caches are parallel lists. Right: the index
  holds every text once with its own vector, cutting ends and loses nothing,
  merge, cap and truncation keep what they should, and the budget counts what
  is really sent.
* **Analysis.** Every stage may fail, captures share one pipeline, answers may
  cite anything. Right: failures are final or retried according to their kind,
  reported as they were, and remembered; no citation without an excerpt.
* **Evaluation.** Means leave out undefined cases, candidates tie, sweeps break
  ties by value. Right: what is recommended is no worse than the baseline where
  its rule says so, and nothing better is passed over.

`PROJECT.json` lists each hazard with its line and the properties that cover it.

## 2. The modules

| Module | Models | Used by |
|---|---|---|
| `BoundedChannel` | what the queue promises: send, receive in order, close | refined by `ThreadSafeQueue`; the queues of both threaded engines are of this kind |
| `ThreadSafeQueue` | the queue with its lock, wait sets and timers | `ThreadSafeQueueProofs` |
| `ConnectionTracker` | the flow table: operators on `connections` and `older` | extended by `FastPath` |
| `FastPath` | one FP thread over its table | `MCFastPath`, `FastPathProofs` |
| `Lines` | a pipeline as a line of places that hold packets in order | `DPIEngine`, `LineProofs` |
| `DPIEngine` | reader, LBs, FPs, writer and main thread of one `process_file` | `MCDPIEngine`, `DPIEngineProofs` |
| `StandaloneEngine` | one `process` of `dpi_mt.py`: routing, flow tables, verdicts, sleeps, stop, writer | `MCStandaloneEngine`, `StandaloneEngineProofs` |
| `RuleManager` | the four tables with their locks, and the rules file | `MCRuleManager`, `RuleProofs` |
| `PcapReader`, `PacketParser`, `SNIExtractor`, `AppTypes` | a capture file, the header chain, the four protocols' names, the pattern table: pure operators on bytes | `WorkingEngine` |
| `WorkingEngine` | `main_working.py` over all four | `MCWorkingEngine`, `RuleProofs` |
| `Chunking`, `Documents` | the cutting of a section; front matter, sections and the corpus: pure operators | `KnowledgeIndex` |
| `VectorStore` | the in-memory index and its caches | `KnowledgeIndex`, `KnowledgeProofs` |
| `KnowledgeIndex` | `prepare` from files to a filled store, and the store used by hand | `MCKnowledgeIndex`, `KnowledgeProofs` |
| `CaptureReport`, `Signals` | the sanitized report and the detectors: pure operators | `Evaluation` |
| `Retrieval` | from search results to the excerpts of a prompt | `Evaluation`, `RAGProofs` |
| `Evaluation` | report, signals, retrieval and budget for one capture, or for every candidate and case of a study, and its recommendation | `MCEvaluation`, `RAGProofs` |
| `Analysis` | `analyze_capture` with its pipeline and its provider | `KnowledgeProofs` |

`MC...` modules give the constants of the small instances. An operator marked
`\* mutant` is a plausible bug in the definition after it: no specification
uses it; with it in place of that definition, TLC finds the property named in
`PROJECT.json` violated. They document what each property is able to catch.

### Correspondence with the code

**ThreadSafeQueue.** A critical section is one action, since the lock makes it
so; a wait is a set of waiting threads that a notification takes a thread from,
chosen arbitrarily, as `threading.Condition` leaves it open. `Push` and
`PushWake` are the two ways into the same section. `Expire` is the timer of
`pop_with_timeout`, which may fire at any moment of the wait. The history
variables `accepted`, `delivered` and `discarded` record what was appended, what
was handed out and what a push dropped. Any consumer may call, or stop calling,
at any time; those in `Draining` pop on while there is something queued, as the
class's docstring says a caller may. The run loops of FPs and LBs are not of
that kind: `stop()` clears their flag before it shuts the queue down, and what
is queued then is never processed (`dpi/fast_path.py:187-191`). The writers are
only as long as they have not left (finding 2); `DPIEngine` has their loop.

**ConnectionTracker, FastPath.** `Process(p)` is `_process_packet` from look-up
to verdict in one action: an FP owns its table and nobody can observe the steps
between. `older` is the order of the records by `last_seen`; clocks themselves
are left out, and the sweep may call any set of records idle that respects that
order. Payloads are reduced to their kind (`tls`, `http`, `dns`, `opaque`,
`none`) and name. `EditRules` may come between any two packets. That
`should_block` is one step here is an abstraction; `RuleManager` models its
four locks one by one.

**DPIEngine.** The LBs and FPs are workers 1, 2, ..., each with the queue of
its number; queue 0 is the output queue. A worker's loop is test, pop, push,
each an action, so that `stop` can fall between any two. Hashing is an
arbitrary function `Route` of the flow, the only thing the properties need.
The main thread joins, scans the depths queue by queue (`ReadDepth`), gives up
on time at any moment (`GiveUp`), clears the flag and stops the threads in the
code's order. The verdict of a packet is a choice here: `Drop` or `Forward`.
One `process_file` per engine; the disk does not fail.

**StandaloneEngine.** The same workers, with the code's own two-level hashing
over an arbitrary `Hash` (an LB and its FPs use the same hash, so some FPs of an
LB may never get work), and here the verdict is computed: `Judge` is the flow
look-up, the classification, the rules and the latch of `blocked`, over a table
that knows a flow by one direction. `Sleep` is the half second after the last
packet: it may be over at any moment, with whatever is still queued. Domain
rules match by substring; `rules.domains` lists the names they match.

**RuleManager.** A rule is an element of `Rules` with a kind; a packet is the
set of rules that match it. An edit is one action (one lock); `should_block`
takes a step per table (`Consult`), and so do `clear_all`, `save_rules` and
`load_rules`. Pattern rules live in a list and may be there twice (`copies`);
sets hold a rule once. The text of the file is left out but for one thing the
code trips over: a domain rule that starts with a bracket is read back as a
section header. Lines of one section are read in any order. `SaveFails` is a
write error between sections; what is left then is a number of whole sections.
The history variables `before`, `added`, `removed` say what was in force during
an operation.

**WorkingEngine and the bytes.** A frame is a sequence of bytes, and the parser
and extractors do the code's arithmetic on it; a byte beyond the end has no
value, so that a missing bound check is an evaluation error as it is an
`IndexError` in Python. A capture holds its numbers as a native load gives them,
swapped when it was written in the other byte order, and a record may be cut in
its header or its data. `ProcessPacket` is one turn of the loop; `Die` is an
interruption, after which the file holds an initial segment and perhaps a cut
record. `Sent` says what the sender of each frame meant; the properties compare
with that and not with the bytes.

**KnowledgeIndex.** A line of a document is its kind, key and value to the front
matter, and its characters, of five kinds, to the section it is in. `CutPiece`
is a turn of `_split_section`, `EndSection` makes the pieces chunks, `EmbedBatch`
is a turn of `embed_texts`, `BuildIndex` fills the store by `add_many`. The
encoder is any function from the texts it is given. `stage = "by_hand"` is the
store without a pipeline, open to any call. In the store a vector is an abstract
value with a width and a similarity to each query; `InsertAll` is the loop of
`_insert`; a rejected call changes nothing and is no step. The caches hold the
vectors they were built from, so that a stale one can be told.

**Evaluation.** `BuildReport` and `ExtractSignals` are the analysis of a
snapshot up to its signals. `Retrieve` is a step of `Retrieval`: a turn of a
loop, one query searched, one chunk ranked and capped, one excerpt measured.
`AccountCase` notes what reached the prompt and what it costs in tokens, and
goes to the next case or candidate; `Recommend` applies the rule of the study:
candidates (`rank`), before and after (`_decide`), or a sweep of budget, shape
or similarity floor. Sizes are those of rendered excerpts and do not depend on
the label's number of digits (`K1` to `K9`). A mean is a sum and a count, so no
property rests on rounding.

**Analysis.** `Begin` to the next "idle" is one `analyze_capture`. Each stage
of `prepare` and `build_context` succeeds or fails as the code lets it; the
provider's answer is any of the kinds `_classify` and the loop tell apart. The
length of the back-off does not matter and is left out. `escapes` counts the
analyses that ended with an exception.

## 3. What the runs show

| Run | Instance | Shows |
|---|---|---|
| `queue` | 2 producers, 2 consumers, 2 slots, 2 items each | `NoLostWakeup`, refinement of the channel; what was accepted is delivered, after a shutdown to a caller that drains; shutdown releases everybody; 9,712 states |
| `fastpath` | 3 conversations for a table of 2, 11 packets, 3 rule sets; 41,097 states | one record per conversation, verdicts that follow the rules, blocks that hold, eviction of old flows only, closed flows that leave |
| `fastpath_blocked` | the same | *violated*: "once a flow is blocked, later packets are dropped" |
| `rules` | one checker, Admin, 4 rules (address, application, name, bracketed wildcard), 3 calls, any initial file; 1,451,285 states | what check, clear, save and load still guarantee without a snapshot |
| `engine` | 2 LBs with an FP each, 5 packets, one of them neither TCP nor UDP, queues of 1; 449,712 states | one place each, order within a flow, nothing discarded by `stop`, what an idle scan means for the packets on their way; `process_file` returns |
| `engine_flush` | 1 LB with an FP, 3 packets | *violated*: "the output thread stops last so it can flush" |
| `standalone` | 1 LB with 2 FPs, 7 packets of three tuples, all queues of 1, 3 rule sets; 49,714 states | verdicts are those of a single thread, the file holds all that was forwarded, `process` returns |
| `capture` | 13 frames, captures of up to 3, either byte order, cut anywhere, 3 rule sets; 148,011 states | flows are named by the first packet that can, the file holds the survivors, the offsets agree, the extractors find what was sent and nothing else |
| `store` | by hand: 3 ids, 2 models, 4 vectors, batches of 2; loaded: one document under every edit of a line, every text of a grammar to cut, pairs of documents; 65,182 states | consistency of store and caches, true top k, no text lost or repeated by cutting, each text indexed once with its vector; `prepare` ends |
| `retrieval` | captures of none, one and three different ones of 12 kinds of connection, 3 ways of redacting, caps of 2 and 3; 2 labelled cases, 4 candidates, 4 further studies, 4 chunks of 3 notes; 294,363 states | what the cap on flows and redaction may hide, what merge, selection and budget keep, what is recommended |
| `analysis` | 3 captures, 2 retries, 2 excerpts; 38,347 states | citations, retries, one preparation |
| `analysis_raises` | the same | *violated*: "every failure becomes a RAGStatus" |

**Why the bounds are enough.**

* *Queue:* a lost wake-up needs two waiters on one side and a third thread to
  take the slot, and two slots to tell "full" from "not empty"; four threads are
  the least with all three.
* *Fast path:* a table of two with three conversations evicts, and a fourth
  would repeat the third; the packets are a full handshake, close and reset, one
  per kind of payload, in both directions.
* *Engine:* capacities of one make every push wait; five packets over two flows
  exceed what the threads can hold. `OutCap` is 4, the number of packets that
  can be forwarded, because the writer may have left: the code's 10,000 is as
  large as that in practice, and a full output queue without a writer is a
  hazard listed as not covered. `IdleStreak` is 2 where the code has 5: a longer
  streak only removes behaviours. Several FPs to one LB are in `standalone` and,
  with every other shape, in the proofs.
* *Stand-alone:* the flow that matters has three packets, of which the second
  names it; its answers and another flow go to the other FP; a rule set each for
  a name that is found late, a guess by port that is later corrected, and an
  address with a domain.
* *Rules:* one edit during one operation, plus one more, is what distinguishes
  "in force throughout" from "at some time".
* *Capture:* three frames of one flow are a guess, a name and a packet after it;
  the frames are each protocol's whole packet, with options, trailing bytes and
  other extensions, and its damaged ones. Names are of four characters.
* *Store:* a batch of two repeats an id or mixes models within itself; chunks of
  8 characters with 2 of overlap are cut at every kind of boundary, `IndexLimit`
  4 and `BatchSize` 2 are exceeded by the longer texts and by the shorter batch
  at the end.
* *Retrieval:* two chunks of one note meet the cap of one; the limits on items,
  characters and tokens each bite for some ranking, as does `RiskTokens` for the
  prompts of some candidates; an alphabet of two letters gives labels of two; the
  two cases are the least for which a mean hides a loss, and one of them has
  signals that the other has not.
* *Analysis:* three captures let a failure be remembered across a success and an
  escape; `MaxCaptures` bounds nothing else.

Deadlock is not checked where the program, or the bound on its calls, comes to
an end (all but `queue`, `fastpath` and `fastpath_blocked`).

**Fairness.** *Queue:* a woken thread gets the lock, a timer fires, and a
consumer calls again as long as the queue is not shut down: a run loop goes on
while its flag is set, and whoever clears the flag shuts the queue down next.
After the shutdown nobody has to call but the consumers in `Draining`, one of
the two in the run, and they only while something is queued. So
`EveryItemDelivered` shows that what a shutdown finds in the queue reaches a
caller that drains, though the other one may have stopped; without such a
caller it promises delivery before the shutdown only. A thread that an exception ends is not covered. Nothing says that
`shutdown` is called, nor that a producer produces. *Fast path:* weak fairness
of the sweep, which takes every closed record whatever it finds idle: `_run`
sweeps by the clock, busy or not. *Engine, stand-alone:* every thread is
scheduled, and one that pops or pushes with the queue ready gets its turn; the
engine's main thread may give up but need not, so `Terminates` does not rest on
the sixty seconds, nor the stand-alone engine's on its sleeps. *Store:*
`prepare` runs in its caller's thread; the failure of the encoder is not
assumed. The others have safety properties only.

### Findings

1. `dpi/fast_path.py:439`. A reset, or FIN with ACK, on a blocked flow closes
   it before the blocked test; the packet is forwarded if no rule matches it by
   itself, and the flow is judged afresh. README.md:411 promises otherwise.
   What does hold is `BlockHoldsUntilClosed`, proved.
2. `dpi/dpi_engine.py:522`. The writer leaves once the flag is clear and its
   queue momentarily empty; packets an FP emits later are counted and not
   written. `dpi/dpi_engine.py:259` says it stops last to flush them. What does
   hold is proved (`NothingLostInHand`): such packets are still in the output
   queue, and nothing is lost in a thread's hands.
3. `ai/rag/pipeline.py:269`. A sentence-transformers that is installed but
   fails to import otherwise than with `ImportError` (a native library that
   does not load, say) ends `analyze_capture` with an exception that is not
   remembered either. The docstring at 225 says every failure becomes a status.

Also met, and modelled as the code has it; no run is about them:

* `dpi/fast_path.py:443`: a closed flow is inspected again and reclassified;
  `dpi/connection_tracker.py:236` says classification is sticky for the life of
  the flow. What does hold is `ClassificationHoldsUntilClosed`, proved.
* `evaluation/candidates.py:541-546` (rule 3 of `assess`): "a configuration
  already at risk may not get bigger". The code disqualifies only a candidate
  at risk beside a baseline that is not.
* `run_rag_evaluation.py`, `_decide`: accepting is worded as "precision and
  irrelevant-supply counts improved"; a change that improves only recall is
  accepted too.
* `ai/extractor.py:50`: "no ties are broken by dict or set ordering"; flows of
  equal interest keep the order of the snapshot, which is that of the tables.
* `dpi/dpi_engine.py:540-548`: the output header of a capture in the other byte
  order is half swapped, as the comment says; README.md:55 lists both orders as
  a feature. `SurvivorsWritten` is therefore about captures in the host's order.

## 4. What is proved

Every theorem is of the form `Spec => []P` or `Spec => [][A]_vars`, for all
values of the constants that satisfy the module's assumption; two about the
sequential engine have one hypothesis more (see below).

| Module | Assumption | Theorems |
|---|---|---|
| `ThreadSafeQueueProofs` | `QueueAssumption`: finitely many producers and consumers, none of them both, at least one slot | `TypeCorrect`, `NothingLostOrReordered`, `WakeupsSuffice`, `ShutdownStrandsNobody`, `QueueImplementsChannel` |
| `FastPathProofs` | `TrackerAssumption`, `FastPathAssumption`: well-formed tuples and packets, room for one record | `TypeCorrect`, `DirectionsShareARecord`, `NoForwardAgainstRules`, `NoDropWithoutCause`, `BlocksHold`, `ClassificationsHold`, `RecentFlowsStay` |
| `DPIEngineProofs` | `EngineAssumption`: at least one LB, FP and slot; `Route` any function to the FPs | `TypeCorrect`, `StopDiscardsNothing`, `NothingLostInHand`, `FlowsKeepOrder`, `PacketsNotCopied`, `IdleScansDrain` |
| `StandaloneEngineProofs` | `StandaloneAssumption`: at least one LB, FP and slot; `Hash` any function to the naturals | `TypeCorrect`, `OutputIsComplete`, `VerdictsSequential` |
| `RAGProofs` | `ReportAssumption`, `ConfigAssumption`, `CostAssumption`, `RetrievalAssumption`, `ProgramAssumption`: finitely many chunks, labelled cases and configurations that their validators let pass, an index that answers every query of a case, a scale that is not 0 | `RetrievalIsSound`, `BudgetIsRight`, `TheCapHidesNothing`, `RedactionIsNeutral`, `RecommendationIsSound` |
| `KnowledgeProofs` | `StoreAssumption`, `OfferedAssumption`: what is offered are records | `StoreAlwaysConsistent`, `SearchIsTopK` |
| `KnowledgeProofs` | also `ChunkAssumption`: a `ChunkConfig` its validator lets pass; `DocumentsAssumption`, `CorporaAssumption`: finitely many files, of lines; `ChunkIdAssumption`: the id of a chunk tells its document, section and index; `EncoderAssumption`: any function from texts to vectors | `CuttingLosesNothing`, `IndexIsFaithful`, `PipelineStoreConsistent`, `PipelineSearchIsTopK` |
| `RuleProofs` | `RuleAssumption`: rules have a kind, patterns are domain rules | `TypeCorrect`, `CoveredPacketsBlocked`, `ReasonsHold`, `ClearClears`, `SavesFaithfully`, `LoadsCompletely` |
| `RuleProofs` | `WorkingAssumption`, `PatternsAssumption`: frames are bytes, a whole record has the length it states, no pattern stands for "Unknown" | `OffsetsAlwaysAgree`; `FlowsNamedByFirst`, `OutputIsSurvivors`, if `FramesRight` |
| `KnowledgeProofs` | `AnalysisAssumption`, `NoneAssumption`: the bounds are naturals, `None` is no failure | `TypeCorrect`, `RetriesAreSound`, `CitationsAreSupplied`, `PreparesOnce` |

`LineProofs` has the lemmas that others share: what keeps a line of places in
order when a packet enters, moves on or leaves; the least-number principle;
that a recursion which descends defines a function; and the ranks a strict
order gives the members of a finite set.

**The invariants and why they are needed.**

* *Queue:* `NoLostWakeup` alone is not inductive: it counts the sleepers of one
  side against the threads already woken and the items there are, and so needs
  the type of the wait sets, that shutdown leaves nobody asleep, and
  `PendingOffer`, which says that a producer inside `push` has offered an item,
  so that the number of the item it appends is a legal one. The refinement maps
  each critical section that changes the deque to one step of the channel and
  every other step to a stutter.
* *Fast path:* `DropHasCause` speaks of a record that is blocked, so the
  invariant carries `BlockedMatched`: a record is BLOCKED only if a packet of
  its own flow matched a rule while it was tracked. That an eviction takes one
  record, and never that of the packet before, needs `last_seen` to order the
  records totally (`WellOrdered` in `TrackerInv`) with the last one handled on
  top (`HandledIsNewest`).
* *Engine:* `NothingDiscarded` needs `StopOrder`: the workers stopped are those
  below the cursor, a stopped worker holds nothing and the reader is done before
  any stops; so whoever may push to a queue has ended before it is shut down.
  `Conserved` counts each packet read in a queue, a hand, the file, the drops or
  the discards. `FlowOrder` is inductive once the places of a flow are seen as
  one line, from the file back to the reader's hand, and `Routed` says that no
  packet is with a thread its flow does not belong to: then every step moves one
  packet one place along the line, and `LineProofs` does the rest. On the line
  rests `OnePlaceEach` too: a packet that moves along it in order cannot be on
  it twice, and `Routed` puts every place of the engine on it; what is dropped
  has left it (`DroppedGone`).
  `IdleScanDrained` is about a scan that reads one depth after another while
  packets move past it. `ScanInv` says what a queue read empty still tells: an
  LB's stays empty, since the reader has ended; once all of those were seen, an
  FP can only get what an LB held at that moment, at most one packet each
  (`FedFew`); and when the output queue is read empty in a second scan,
  everything unsettled is among those and the FPs' hands (`FewLeft`).
* *Stand-alone engine:* the same two ideas for its own routing (`OnePool`: an FP
  serves the tuples of one LB). On them rest the verdicts. `Cut` says that of one
  tuple everything judged precedes everything that waits, and `InStep` that an
  FP's entry for a tuple is what a single thread would have after the packets
  judged so far. The single thread is the recursion `FlowAfter`, which is shown
  to be well founded first (`FlowAfterIs`).
* *Store:* `StoreConsistent` is inductive itself; the work is in `add_many`,
  where a batch that passed validation against the store and against itself is
  appended to four structures at once. `AnswerIsTopK` rests on it: ids are not
  repeated, so score and id order the records totally, the rank of a result is
  the number of records before it, and ranks below `top_k` are an initial
  segment of the naturals.
* *Retrieval and budget:* both properties speak of the end of a loop and neither
  is inductive; `RInv` says what each loop has done by now, over any set of
  signals, scores and configuration. `Merged`: a chunk has the best score of the
  queries searched, all on record. `Ranked`: what is selected is in rank order
  and ahead of all that waits, and each chunk passed over met the cap of its
  document among chunks ranked before it. `Cut` and `Spent`: the excerpts
  supplied and those left out are the report so far, in its order; the characters
  counted are those of the block rendered, which `Texts` defines by recursion
  (shown well founded first); a limit that turned an excerpt down is seen in what
  was supplied before it and stays broken. That no validator of the report or of
  the context ever rejects follows from these.
* *Report and redaction:* `Reporting` says that the report in hand is the one
  made of the case's snapshot, and what fired is what that report supports; the
  rest is about plain values. `Sorted` is only known as an injective sequence of
  positions without inversions; for the two orders in use, which are strict, that
  makes it the ranking, so that what the cap leaves out ranks below all it lists.
  That pseudonyms change no signal rests on the labels being injective (by the
  length and then the last letter of a label) and on each detector reading
  addresses only to tell them apart.
* *Recommendation:* `Accounting` says which accounts there are at each moment:
  those of every case, for every candidate that is done, up to the present case.
  Once a study has all of them, what it recommends is a function of the accounts
  (`Recommendation`). A mean over cases is compared across its counts, by
  cross-multiplication, so that no rounding enters; each rule picks the best of a
  strict order of keys over the candidates it admits, the baseline among them.
* *Knowledge index:* both properties speak of texts cut, joined and put in order
  by recursive and library definitions. What is compared is the text without its
  white space, `Faces`, shown to be well founded and to respect concatenation; so
  cutting loses nothing if a cut drops only white space, ends after it starts and
  leaves room for what is repeated (`CutTurn`; a chunk of at least four
  characters suffices, the code asks for 200). That the tail repeated ends the
  piece before, and that the front matter's fold yields one text per heading, are
  lemmas of their own (`PrefixFacts`, `FoldIsSplit`). The corpus is every document once,
  since categories and ids order them strictly (`CorpusFacts`). The invariant
  `KInv` then follows the loops: the text of a section is in the chunks if it is
  done and not before (`Covered`), every chunk is of a section that is done, with
  its index there (`Placed`), which is why ids do not repeat, and each vector so
  far is that of its own chunk (`Embedded`).
* *Rules:* the history variables make "in force throughout" a state predicate
  (`HistoryOK`); `ChecksOK` says what a half-done check has established about
  the tables it has passed, `AdminOK` the same for clear, save and load.
* *Sequential engine:* the two theorems about what `main_working.py` makes of a
  capture have the hypothesis `FramesRight`: each frame by itself is read as its
  sender meant it (`ReadRight`). That is a fact about pure functions of bytes,
  not about the program's states, and what the run checks for each frame of its
  catalogue (`ExtractorsRight`; every one of them is read whole in some capture).
  The proofs add everything that is not in one frame. `Reading` says the loop has read
  the records before `pos`; `FlowsRight` that an entry of the flow table is what
  these packets say of the flow (`Knowledge`) and is blocked if and only if a
  rule was against it after one of them; `OutputRight` that the file is the list
  of the survivors. What one more packet adds to the sets of packets they are
  stated with is in the `Turn` lemmas. That a name may appear once the flow has
  been guessed, and never on a flow seen on port 53 first, is where the order of
  naming and guessing matters. `ReadsBack` shows the output readable by
  the same reader: a survivor was within the limits of the input's header, which
  the output's repeats.
* *Analysis:* `Underway` says that a request in progress has no outcome and
  only answers worth a retry; the step that ends it builds the outcome from that
  state. `Preparation` follows the count of loads through the stages of
  `prepare` against the exceptions that escaped.

Induction over numbers is done by the least counterexample (`LeastNatural`, from
the library's theorem on well-founded relations), since the provers cannot
instantiate the library's induction theorems, which take an operator.

Some theorems state what no run checks, since a run would say less than the
proof: that the log is intact and shutdown strands nobody (the queue), that a
classification holds until the flow is closed, that nothing is lost in hand.

**Only model-checked.** `EveryItemDelivered`, `ShutdownReleases`, `ClosedFlowsLeave`, `PrepareEnds` and `Terminates` of both
engines are liveness, out of reach of the prover, as is ENABLED. One safety
property is not proved:

* `ExtractorsRight`: it compares what is read from bytes with what a sender meant
  (`Sent`), a table of the instance; for arbitrary frames there is no such table
  to quantify over, and the extractors are recursive. It is the hypothesis
  `FramesRight` of two theorems.

It is the only one: every other invariant and every action property of a passing
run is a theorem.

## 5. Not modelled, and why

* The output queue at its limit after the writer left, a failing disk, and a
  second `process_file` on one engine: listed as hazards. The first would need a
  model of how long the FPs go on; the programs never do the last.
* Statistics, snapshots as such and the text of reports: counters copied for
  display. What an analysis reads of a snapshot, its connections and drops, is
  the input of `CaptureReport`.
* Prompts, schemas, the rendered analysis: wording. Of the prompt, its size is
  modelled; of the schema, the check of citations.
* Providers, configuration, console, command lines, the generator of test
  captures: tables, environment look-ups and printing.
* Of the evaluation: the pricing of request sizes, the comparison of expected
  signals, the live run and the rendering of results.
* Floating point: similarities and shares are numbers that compare as they do;
  the rounding of shares to six digits (`signals.py:533`) is left out.
* Of a document's metadata, the upper limit of 20 keywords.
* Of the parsers: the text of addresses and the decoding of a name's bytes;
  `extract_extensions`, which no engine calls.

## 6. What is left

In this order:

1. `DPIEngine` with an output queue smaller than the capture, a writer that
   fails, and the FPs' verdicts from `FastPath` instead of a choice.
2. The queues of both engines as instances of `BoundedChannel`, by refinement.
3. `ExtractorsRight` for a grammar of packets instead of a catalogue: an encoder
   of each protocol, written from its standard, whose output the extractors read
   back. The provers could follow it for one header at a time at most.
