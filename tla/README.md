# TLA+ models of the colibri runtime

The repository runs a mixture-of-experts language model whose experts do not
fit in memory: they stay on disk and are read as the router asks for them.  It
holds two runtimes, one in Python (`src/colibri_runtime`, with the C extension
`native/rowio.c`) and one in C (`c/src`).  This directory models the parts of
both that decide *what is read, when, what is thrown away, and which state is
kept between calls*; the tensor arithmetic is not modelled.

Paths below are those of the repository.

## The system

| part | state | operations | hard part |
|---|---|---|---|
| I/O pool, `c/src/reader.c` | ring of jobs, worker threads, a mutex and condition variable per job | submit, wait, destroy | lost wakeups, ring wrap and growth, shutdown with work queued |
| row reading, `reader.c`, `rowio.c`, `storage.py` | scratch block, runs of rows | read rows | duplicates, unsorted requests, short reads |
| expert loading, `model.c` `experts_load`, `moe_forward` | outstanding jobs, raw block, expert cache | forward of one layer | many jobs in flight, one fails; experts evicted before use |
| byte cache, `c/src/cache.c` | recency list, hash table, counters | get, put, pin, unpin, mark_hot | policy, fair shares, back-shift deletion |
| expert cache, `expert_cache.py` | the same in Python, with rollback | get, put, pin, unpin, mark_hot | rejected put must change nothing |
| expert store, `streaming.py` | futures per expert, prefetch marks, cache | get, request, prepare, prefetch, close | completions, clients and close interleaved |
| PLE store, `streaming.py` | futures per embedding row, cache | get_rows, prefetch_rows, close | rows evicted between check and use |
| tensor index, `storage.py`, `safetensors.c` | descriptors, tensor table | open, find, read, close | header validation, unwinding, close during reads |
| decoder, `model.c`, `model.py` | key/value window, convolution, recurrent and n-gram context | forward, reset | the same result one token at a time as in one batch |
| sampling and generation, `main.c`, `generation.py` | tokens, phase of a run | sample, generate | nucleus boundary, stop tokens, the last step |
| tokenizer, `tokenizer.c` | symbols of a pre-token, ranks | encode, decode | merge order, added tokens, progress |
| JSON, `json.c`, and the scanner of `tokenizer.c` | parser's stack, allocations | parse, skip | unwinding, escapes, agreement of the two |
| selection, `kernel.c` | array of indices | top k | ties, the window of the quickselect |
| kernels, `kernel.c`, `model.py` | none | arithmetic | not modelled |

The generation loop encodes a prompt, calls the decoder and samples from its
logits.  The decoder's MoE layers select experts and ask the expert loader (C)
or the expert store (Python) for them; its PLE layer asks for embedding rows.
Both look in a byte-budgeted cache and read what is missing through a pool of
I/O threads, which read rows of the tensors that the index found in the files.
One thread generates; the only concurrency is between it and the I/O threads.

## Modules

### Loading weights

`JobQueue` says what the pool of the C runtime promises: a job submitted is
executed once, jobs start in order, and closing waits for all of them.

`IoPool` is that pool thread by thread.  A critical section of the pool mutex
is one action, because no other lock is taken in it; the job mutex is a
variable (`jlock`) because the correctness of the wait depends on it.  Workers
go through `check` (the loop test, `Take`, `Sleep`, `Exit`), `read`, `publish`
(about to lock the job), `locked`, `retire`.  The caller is `idle` or inside
`io_pool_submit` (`enqueue`), `io_job_wait` (`lock`, `check`, `enter`,
`asleep`) or `io_pool_destroy` (`join`).  Both kinds of sleeper may wake
spuriously.  `live` is a history variable: the jobs submitted whose wait has
not returned.

`ExpertsLoad` is `experts_load` and the fetch loop of `moe_forward`, with the
pool replaced by `JobQueue` (`INSTANCE`) and the cache by a set of experts of
equal size that evicts in any order, so that the properties do not depend on
the policy.  `raw` says which slices of the raw block hold what was read,
`alloc` whether the block and the jobs are allocated, `shape` how many rows each
tensor has: `SubmitFails` is `st_read_rows_async` refusing a row, `ForwardFails` a
tensor that is not found.

`RowRead` is one call of each of the three row readers.  A byte is represented
by its position in the tensor, so that the output says where it came from.

`ByteCache` is `cache.c` and `expert_cache.py` as their callers see them, a put
being one step per eviction; `cache` says which of the two, with which policy.
The Python cache also keeps the bytes of each partition (`usage`) and goes back
to what it had (`saved`) when a put is rejected.  The loop of `pick_victim` is a
recursive function over the list from its end (`BestOf`), and `BytesOf` counts
the bytes of a set of entries.  `OpenTable` is the hash table inside the C
cache, for all assignments of hashes to keys; its loops (`grow_table`, the
backward shift of a deletion) are recursive functions too.

`ExpertStore` is the class of that name in `streaming.py`: what a thread does
under one hold of the store's lock, or in one call of the cache or of a future,
is a step; `thread[t].pc` names the place in `get`, `request`, `request_many`,
`prepare` or `close`.  `futs` are the live `Future` objects (the code compares
them by identity), `tasks` the group reads of the executor with the futures
their callback `finish` has still to set; the check of `child.done()` and the
call that sets it are two steps, since `close` may cancel in between.
`PleStore` is the smaller store of embedding rows, used by one thread.  In both
the cache is a set with arbitrary victims.

`TensorIndex` is the index of both runtimes from open to close.  A header is
met entry by entry and may hold any names, offsets and element counts; the
checks of `parse_file` and of `storage.py` decide what enters `tensors`, and a
failure at any entry of any file goes through `Unwind`, which closes what is
open.  `header` remembers the accepted entries in file order, so that the
table (sorted and binary-searched in C, a dictionary in Python) can be compared
with it; `Sorting` is what `qsort` promises.  Offsets are the 64 bits a header can
hold, read as unsigned by C (`Word`), and `Sizes` the products of dimensions.
`job` is a read handed to the index's threads: in Python it may be
queued, started, or hold a descriptor when `close` comes.

### Using them

`Decoder` is what the model remembers between calls.  A row of activations is
the position of its token, so the output of a token is the record of the rows
it was computed from: which keys and values it attended to and how they were
rotated, the convolution windows folded into the recurrent state, the tokens
of its n-grams.  `AppendRows` moves the three arrays of the window exactly as
far as the code moves each, `Rotation` says which cosine and sine a token
really gets, `TopBlocks` which blocks the indexer keeps, `NextPrev` which
tokens the n-gram context keeps.  `ForwardFails` is a forward that returns an
error between layers, `Reset` is `model_reset_caches`.

`Generation` EXTENDS `Decoder` with the loops of `main` and `generate_tokens`:
`StartRun`, `Prefill`, `Sample`, `Decode`, `NextRun`, `PrintTokens`.  The logits
of a step are any integer weights, so the sums of `sample_token` are exact;
`Walk` and `WalkAll` are its two ways of turning a random number into a token,
with and without a nucleus.  `opts` is a command line of either runtime with what
follows from it (the stops of a chat).  `generated` is what the current run has
sampled, `cells` the array of `main.c`, which the next run overwrites from the
front; `PrintTokens` reads as many entries of it as tokens have been counted, and
any memory behind those written (`NoToken` is what is no token).

`TopK` is `kernel_topk_indices`, the selection by which the router picks its
experts and the indexer its blocks, one step per iteration of the inner loop.
`Decoder!TopBlocks` takes for granted that it selects the largest.

### Reading texts

`Tokenizer` is `tokenizer_encode`: `FindLimit` and `AddedToken` cut the text at
added tokens, `Pretoken` takes what `pretoken_end` finds, `Merge` applies the
pair of lowest rank and looks up only the ranks beside it.  Its specification
is independent of that: `RegexEnd` has the alternatives of the split regex,
`Bpe` starts again from all pairs after every merge.

`Json` steps `json_parse` and the tokenizer's `js_skip_value` through the same
text, the recursion being a stack of the callers of `jparse_value`.  The text
is chosen character by character, so every text of bounded length is met.
`live` counts allocations and `errors` the calls of `jfail`.  `ParsesAndFrees` has
two halves: the language (`ParsesTheLanguage`) and the memory
(`FreesAndReports`).  `JsonGrammar` is the language: values, members and what
stands between brackets and braces, as functions of the length, written without
looking at the parser.

### Instances

TLC runs several components in one run each: `MCPoolAndCaches`, `MCLoading` and
`MCAlgorithms` hold the variables of a few components and a variable `part`
that says which of them runs in the behaviour; the variables of the others are
`Off`, or stay as they were created.  The components of a run do not interact
there: the composition is by abstraction (below).  A property of such a module
is that of the component under `part = ...`.

| module | extends | instances |
|---|---|---|
| `MCPoolAndCaches` | `IoPool` | `ByteCache` |
| `MCLoading` | `ExpertsLoad`, `PleStore` | `ExpertStore` |
| `MCAlgorithms` | `TopK`, `OpenTable`, `RowRead`, `Json`, `Tokenizer` | `TensorIndex`, `Decoder`, `Generation` |

Modules that are extended together name their own specification and type
invariant (`ReadInit`, `TableNext`, `RowsSpec`, `EncodeInit`) and, where two
would clash, variables (`rowCache` and `rowFutures` are `self.cache` and
`self._futures` of `PLEStore`).  Constants get their values in the `.cfg`; those
of the tokenizer that are sequences are definitions of `MCAlgorithms`, which
also gives the index its engines.  The decoder is there twice: alone (`Cache`, more tokens, cut into calls in any way)
and under the loop (`Loop`, over the same variables).  `MCByteCacheLfu`,
`MCExpertsLoad`, `MCSampling` and `MCEncodeHangs` define the constants of five
runs that a `.cfg` cannot; the other runs take a module directly.

Proofs about an instanced component are in a module of its own that extends it:
`ByteCacheProof`, `ExpertStoreProof`, `TensorIndexProof`, `GenerationProof`
(which also has the proofs about `Decoder`).  What the runs instantiate is that
module, so that its lemmas hold of the instance.  Proofs about the components
that a composition extends are beside those about the composition, in
`MCPoolAndCachesProof`, `MCLoadingProof` and `MCAlgorithmsProof`, except those
about `Json` and `Tokenizer`, which are in `TextsProof`.

How the parts compose: `IoPool` implements `JobQueue`, `ExpertsLoad` uses
`JobQueue`; `ByteCache` justifies the arbitrary victims of `ExpertsLoad`,
`ExpertStore` and `PleStore` (a put of a value that fits evicts something or
fails only for pins), and `OpenTable` the set of listed keys of `ByteCache`;
`TopK` justifies `TopBlocks` of `Decoder` and the distinct experts of
`ExpertsLoad`; `Generation` runs on `Decoder` itself.

## Runs

| run | question | bounds |
|---|---|---|
| `pool_and_caches` | are jobs lost, run twice, used after their wait, or left behind by destroy? counters, budget, pins, fair shares and policy of both caches | pool: 2 workers, 3 jobs, ring of 3 slots, which holds 2; caches: 4 keys in 2 partitions, sizes 1 and 2, budget 3, 2 hits per entry |
| `io_pool_live` | is a wakeup lost? does the pool implement `JobQueue`? | 2 workers, 2 jobs, reads that fail, ring of 2 slots |
| `loading` | double reads, lost experts, counters, buffers of reads, calls that hang | expert store: 2 experts, cache of 1, 1 thread in 5 calls or 2 in 3; PLE store: 4 rows in 2 shards, cache of 2, 3 calls; expert loading: 3 experts of 2 parts, 2 pool threads, caches of 0, 1, 2, tensors with all rows, with one missing, or missing |
| `algorithms` | do the sequential parts compute what they should, on all small inputs, and end? | see below |
| `experts_load_fails` | do buffers outlive the reads when one fails? *no* | as in `loading`, cache of 2 |
| `row_read_short` | does `reader.c` return the rows when a read is short? *no* | lists of up to 2 of 3 rows |
| `byte_cache_lfu` | does lfu evict the least used when hot and cold are mixed? *no* | 4 keys of size 1 |
| `ple_store_evicts` | does get_rows return every row when no read fails? *no* | as in `loading`, lists of up to 3 rows |
| `decoder_window` | does a full window hold the last keys and values? *no* | window of 3, 5 tokens |
| `decoder_rope` | are long prefills rotated as their tokens one by one? *no* | 2 rows between the tables, 5 tokens |
| `sampling` | is a sampled token possible, without a nucleus? *no* | 3 tokens, weights 0 to 2 |
| `encode_hangs` | does encoding end on spaces of several bytes? *no* | texts of 3 characters |

`algorithms` covers: the three row readers on lists of up to 4 of 4 rows of 2
bytes; the hash table with 4 keys, 8 hashes and 4 slots that double; the index
with 3 entries in 2 files of 2 bytes and offsets from -1 to 3; the decoder with
6 tokens cut into calls in any way, at most 4 attended beyond which blocks of 2
compete; the generation loop with 3 tokens, all weights from 0 to 2, up to 3
tokens generated and nine command lines; the tokenizer on texts of 4 characters
with two merge tables and two added tokens, one a prefix of the other; both JSON
readers on texts of up to 7 characters; the selection from up to 5 scores of 3
values.

Why these bounds are enough for the interesting cases:

- A ring of three slots holds two jobs; the third makes it grow, with `head`
  anywhere, so that the copied jobs wrap.  Two workers are the least for which
  one signal can go to the wrong one.  More jobs repeat the same cases.
- The experts of a batch exceed every cache, two threads finish parts of one
  expert in either order, and a cache of none makes `moe_forward` use what it
  has just read.
- Four rows give two runs of two, runs that touch the last row, duplicates and
  every order; a read of two-byte rows can stop inside a row.
- In the caches a value of size two evicts two entries, or replaces one of size
  one; the share of a partition is one and a half, so one partition can be over
  it alone.  `MaxFreq` bounds the hits, of which only the order counts.
- The hash values reach the last slot of the table before and after it grows,
  so clusters wrap in both.
- `CallsAlone` is enough for a prefetch, its harvest, its eviction by another
  expert, and two calls after it; `CallsTogether` for two threads that get one
  expert while the third call closes the store, prefetches or gets the other.
  `FutureIds` bounds the identities of live futures; `MaxPrefetches` the count
  of prefetches, after which only demands are made.
- Three entries give a duplicate across files, overlaps of each kind and empty
  ranges; -1 is the offset that becomes 2^64 - 1 in C (`Word` is 64, beyond
  every size in the model as 2^64 is beyond every file).  No product of
  dimensions wraps there.
- Six tokens fill three blocks, of which the budget keeps two, and exceed the
  reach of the convolutions and n-grams; an end-of-sequence token may stand
  anywhere.  `MaxHistory` and `MaxPrefill` bound the tokens since a reset and of
  one call; `Cap` and `RopeRows` are not exceeded there: the two runs in which
  they are show what happens then.  `RopeRows` stands for the 64 rows that
  `QMODEL_KV_CAP` floats hold.  `MinPrefill` keeps to prompts of two tokens,
  because a prefill of one reads `tokens[-1]`.
- A tensor a row short refuses a submission behind one to five others, queued,
  being read or done; without it a call fails before it submits any.
- The command lines have both runtimes and commands, a chat of one run and of
  two, whose answer may be a stop alone, and two runs without a chat.
- Three tokens with weights from 0 to 2 have ties, impossible tokens, and a
  nucleus that ends at, before and behind a boundary.  `Draws` is 4; the draw 0
  is left out, which is possible in the code only with seed 0 or once in 2^53.
- Four characters hold a merge whose result merges on both sides, a contraction,
  an added token cut out of a pre-token, and each look-ahead of the regex.
- Seven characters hold `{"":[]}`, an object in an array, and every escape in a
  string that outgrows its first buffer of 4 bytes (16 in the code).
- Five scores need three windows of the quickselect, with every tie.

### Disagreements found

Each of the eight runs that expect a violation shows one property that the
repository states and the code does not keep; `PROJECT.json` quotes both.

1. `experts_load` frees jobs and buffers the pool still uses when a read fails
   (and when the submission of a row is refused, which `loading` reaches).
2. `reader.c` puts the rest of a short read over its beginning.
3. `cache.c` compares later cold entries with a score of zero.
4. `get_rows` indexes `_futures` with a row that its own puts evicted.
5. A full window drops the oldest values and index keys, but not the oldest keys.
6. Cosines of a prefill of more than 64 tokens overwrite its sines.
7. Without a nucleus `sample_token` multiplies the draw by a sum the
   probabilities were already divided by, and may return token 0 at
   probability zero.
8. `tokenizer_encode` does not end on a single space of several bytes (such as
   U+3000) before a digit or punctuation.

### Fairness

- `IoPool`: every thread runs (weak fairness of each worker and of the caller).
  Taking a job's mutex is strongly fair: a waiter that wakes spuriously again
  and again disables it again and again, and POSIX mutexes do not starve a
  thread in practice.  Nothing makes the caller submit, wait or destroy.
- `MCLoading`: weak fairness of `Progress`, that *some* part of what is under
  way goes on: a thread inside a call, a task of the executor, a read of the
  pool (which `io_pool_live` shows of `IoPool`).  It is weaker than fairness of
  every thread and suffices, since none of these waits for more than finitely
  many steps of the others.  No thread has to make a call.
- `MCAlgorithms`: what has begun goes on (one thread; each `pread` returns, and
  a short one is not empty; the index's threads and its close run).  The
  decoder and the hash table are only used, and need none.
- `encode_hangs`: the encoder runs.

`CHECK_DEADLOCK FALSE` is in the runs whose system stops: a call or a read that
has returned, callers that make no more calls, bounded histories.

## Proofs

Everything below holds for any values of the constants that meet the named
assumptions of the modules (`Parameters` of each, `TableParameters`,
`ParametersFit` of the compositions), which TLC evaluates for the instances of
the runs.  They say what the code needs of its arguments: sets of threads and
keys that are finite, sizes that are numbers, a ring of at least two slots, a
table of at least four.  A theorem that needs more says so in its statement;
there are five such hypotheses, explained where they occur.  Four leave out what
a run shows to be violated (`Orders`, `ShortReads` without `reader.c`, `Within`,
`WithNucleus`), one a hazard of `PROJECT.json` (`NoWrap`).

### The pool (`MCPoolAndCachesProof`)

- `TypeCorrect`: the ring indexes stay in the ring.
- `JobsInvariant`: the inductive invariant.  `JobAlive` and `NoJobLost` are not
  inductive alone: that a job taken from the ring is not also elsewhere needs
  the ring to hold each job once, and that a push does not duplicate one needs
  to know that a job about to be enqueued is in neither place.  `JobInv`
  therefore says that the ring and the workers together hold exactly the live
  jobs that are not done, each once, and where the caller is.
- `JobsStayAlive`, `NoJobIsLost`, `JobsRunOnce`: `JobAlive`, `NoJobLost` and
  `ExactlyOnce`, from `JobInv`.
- `DestroyLeavesNothing`: `DestroyDrains`, from a second inductive invariant,
  `DrainInv`, over `JobInv`.  When `io_pool_destroy` has joined its workers,
  that no job is left needs the meaning of the counter (`InflightCounts`:
  `inflight` is the jobs queued plus the workers busy with one) and the order
  of the shutdown (`ShutdownInTurn`: a worker leaves only a stopped, empty
  ring, no job comes after the stop, destroy returns when all have left).
- `ImplementsQueue`: the safety part of the refinement.  Every behaviour of
  `IoPool` is one of `JobQueue` under the mapping of `IoPool` (the queue is the
  window of the ring, an outcome is what a job holds).  Five steps map to
  steps of `JobQueue`, one lemma each (`TakeStarts`, `PublishFinishes`,
  `EnqueueSubmits`, `WaitReturnCollects`, `JoinCloses`), all others stutter.

The argument: the occupied slots are a window from `head` to `tail` that may
wrap (`OccupiedIsWindow`), on which position and slot are in bijection
(`AtInjective`).  `Take` shortens the window at one end, `PushInPlace` extends
it at the other, `PushGrowing` maps it to the front of a larger ring; lemmas
say what each does to `Occupied`, and one step per action says what that does
to `JobInv`.

### The caches (`ByteCacheProof`, `MCPoolAndCachesProof`)

`CacheInvariant` is the invariant between any two steps of a put, a get, a pin
or a mark, for any set of caches, sizes, partitions and limits:

- `EntriesInv`: the list holds each key once, `bytes` is what its entries add
  up to and, in Python, `usage` what those of each partition do; neither limit
  is exceeded.
- `PinnedInv`: the pins are counted.  `PuttingInv`: what is being put is not
  listed and fits the budget.
- `SavedInv`: what the Python cache goes back to satisfies `EntriesInv` itself
  and lacks no entry there is now.

Its lemmas on sums (`BytesAdd`, `BytesRemove`, `BytesSame`) rest on `BytesOf`
being the cardinality of a set.  From it follow the counters, the budget and the
four properties of the evictions, each for `ByteCache` alone and for the run's
composition (`CountersAlwaysExact`, `BudgetsHold`, `GivesUpOnlyForPins`,
`PinnedAreKept`, `SharesAreKept`, `LeastValuedIsEvicted`).  What a step does to
the victim comes from the loop of `pick_victim`, by induction over the entries
it has looked at (`LoopFinds`: an entry that may go is found if there is one;
`LoopFindsBest`: no other that may go is better).

The least valued entry goes only under the hypothesis `Orders` (`CachesFit` of
`MCPoolAndCaches`): `cache.c` with lfu or adaptive is given no hot entries.
That is what the C runtime does; with hot ones it is disagreement 3.  `HotInv`
carries that no entry is hot then.

### Loading experts and rows (`MCLoadingProof`, `ExpertStoreProof`)

`ExpertsLoad`, for any experts, parts, batch and budget.  `LoadInv` adds to the
types:

- `PoolInv`: a job is in one place of the pool and pending while it is there.
- `CallInv`: the pool knows only the jobs of the call under way that have been
  submitted and not collected, and while there are any its buffers are
  allocated; when the call has returned it has none and they are freed.  After a
  failed call it claims nothing: disagreement 1.
- `ReadInv`: a job that ended well has filled its slice.
- `AgainInv`: a second load is of the one expert that is missing.

`BuffersOutlive`, `CachedAreRead` and `VanishesIfNothingFits` are the run's
properties; `ImplementsPool` shows that `experts_load` keeps to the protocol of
`JobQueue`, so that with `ImplementsQueue` its loads run on the real pool.

`ExpertStore`, for any threads, experts, futures, cache and calls.  `StoreInv`
is where a thread is and what it refers to (`ThreadsInv`), that a future in use
is known and belongs to its expert (`FuturesInv`), that groups set disjoint
futures which, while they are read and the store is open, are pending and in
`_futures` (`TasksInv`), the bounds (`BoundsInv`), and what holds if one thread
uses the store (`AloneInv`).  That an expert is read once at a time
(`ExpertsAreReadOnce`) holds for any number of threads; that a demanded expert
is there when the thread looks again (`DemandedIsNotLost`) and that prefetches
are counted once (`CountedOnce`) are of one thread, as the properties say.

`PleStore`: `RowsInv` says that what a group has still to set is pending, that
a marked row has been counted and is not yet a hit, and its two properties
`RowsReadOnce` and `RowCachedOrPending`.

`LoadingInvariant` and the five theorems after it are the properties of the run
`loading`, for all three.

### Reading rows (`MCAlgorithmsProof`)

For tables, rows and request lists of any size.  `GapInv` is the crux: the rows
still to be served are behind those served and not adjacent to them, so the
first run of what is left is a run of all that was wanted, and the block, which
is as long as the longest of these, holds it (`RunsFitTheBlock`).  `RunInv` says
where the bytes of the current run are, `CountsInv` what has been read so far
(`DistinctRowsAreReadOnce`), `ServedInv` what has been delivered
(`RowsArriveAsRequested`).  The last has the hypothesis that short reads do not
meet `reader.c` (`ShortReads`, as in the run), which puts what follows a short
read over its beginning: disagreement 2.

### The indices (`TensorIndexProof`)

For any files, names, 64-bit offsets and sizes.  `IndexInv` says which files
are open in which phase, what an accepted entry is (`HeaderInv`) and that the
table of an open index holds the entries of the headers, sorted in C
(`TableInv`).  Read as unsigned, an offset that passes the checks of C is not
negative (`Unsigned`); comparing the neighbours of a sorted list, as Python
does, finds every overlap (`NoOverlap`, since the ranges accepted so far are
well-formed); the binary search finds every name of a sorted table
(`SearchFinds`, by induction over its steps).  `IndicesAreSound` has the
hypothesis `NoWrap`: no product of dimensions reaches 2^64 in C.
`DescriptorsStayOpen` needs none.

### The hash table (`MCAlgorithmsProof`)

`HashInvariant`, for any keys, hashes and initial size: each stored key is in
one slot, and no slot on the way from its home to that slot is empty
(`Holds`, `OnPath`); at most three quarters are used.  `PlaceHolds` is
insertion, `GrownHolds` the rehash into the doubled table, one key at a time.
`ShiftBackKeeps` is the backward shift of a deletion: at each of its steps the
table satisfies `Holds` but for the gap, which is on the way only of keys that
the loop has still to look at.  A free slot remains because
there are fewer keys than slots (`SomeEmpty`, by the pigeonhole principle), so probes end
(`ProbesEnd`), and then `FindsWhatIsStored` follows (`ProbesFindWhatIsStored`).

### The selection (`MCAlgorithmsProof`)

`ReturnsLargest`, that is `SelectsLargest` of `TopK`, for arrays of any length,
any number wanted from 1 to it and any integer scores.  The property speaks of
the end only.  The invariant, `Partitioned` (`StaysPartitioned`), says what
holds on the way: the array is a permutation of the indices; the window from
`lo` to `hi` holds the boundary and no score in front of either end is smaller
than one behind it (`Window`); during a scan the part before `store` is larger
than the pivot and the part between `store` and `scan` is not (`Scanned`).
`SwapPermutes` and `SwapInWindow` say that swapping two elements inside the
window disturbs neither the permutation nor the splits, which is all that
`Choose` and `Scan` do; `Narrow` puts the pivot where it splits the array itself.

### The decoder and the generation loop (`GenerationProof`)

`DecodesAsOnePrefill` is the claim of `test_model.c:319`, for any tokens, kernel
widths, blocks and budget of the indexer and any cut of the tokens into calls,
with resets and failed forwards in between.  `DecodeMatchesPrefill` speaks of
the outputs of the last call; the invariant behind it, `StateInv`, says that
everything the model keeps is a function of the history: the window holds row k
at place k, rotated for it; the convolutions hold the last rows
(`RowsTo(n, ConvKernel - 1)`), padded as at the start when there are fewer; the
recurrent state has absorbed one window of rows per token; the n-gram context
is the last two tokens with their places.  One lemma per cache says how a call
of m tokens moves it from n to n + m (`WindowGrows`, `RowsJoin`, `RecurrentGrows`,
`EmbeddingMoves`), and one per part of an output that it is what the position
demands (`AttendsAsExpected`, with the blocks the indexer keeps; `GramsAsExpected`;
`PleAsExpected`).  A failed forward leaves a state that claims nothing until the
reset that has to follow.

The hypothesis `Within` is of the C runtime only: its histories fit the window
(else disagreement 5), its prefills the rotation tables (else disagreement 6),
and a prefill has two tokens (a prefill of one reads `tokens[-1]`).

`FeedsAndPrintsTheGenerated` has two halves.  One is `FedWhatWasGenerated`, what
the decoder has been fed.  `LoopInv` adds to `DecInv` what that is in each phase
(`FedInv`: while a token is sampled all generated ones, afterwards all but the
last), that a stop token is the last of its run (`StopInv`), what `genTokens`
counts (`CountInv`: at least the tokens of this run, and no more in the first),
that the array begins with them (`CellsInv`), and that `cli.py` has printed them
(`PrintInv`).

The other half is `PrintsTheAnswer`: `generate` prints what the last run
generated, without the stop of a chat, and after one run nothing else.
`PrintsAnswer` is the lemma behind it: the last entry that is no stop is that of
the answer or comes later.  What several runs print after it is whatever the
array and the memory behind it hold (`main.c:362`), as the model has it.

`SampledStayLikely` is `SamplesLikely` for greedy sampling, the nucleus of both
runtimes and Python without one (`SampledAreLikely`), for any weights and
draws.  `Mass` counts the units of the weights of a set, so that it grows with
the set (`MassGrows`); the heavier tokens precede the sampled one
(`HeavierPrecede`), and the tokens before the first one that exceeds top_p do
not exceed it.  The hypothesis `WithNucleus` leaves out C without a nucleus,
disagreement 7.

### The JSON readers (`TextsProof`)

For texts of any length and depth and any characters that may stand in a
string, as long as quote and backslash are not among them.  `ParsesJson` and, for
the run, `TextsAreParsedAndFreed` state `ParsesAndFrees`: json.c accepts the values
of `JsonGrammar` and nothing else, rejects a text at the first character with which
none begins, the tree is the value, what is rejected is freed and reported once.
`ValuesAreSkippedWhole` states `SkipsWholeValues`.

`JsonInvariant` is about the places and the memory:

- `PlaceInv`: where a caller waits for the value that is parsed, and where none
  does any more.
- `SkipInv`: `js_skip_value`, which has no stack, has counted the containers on
  the parser's; the mode it is in is that of the string, escape or number the
  parser is in.  At the end of a value it has ended there too, or is in a scalar
  that the next character ends.  So brackets and quotes in strings and keys do
  not mislead it.
- `MemoryInv`: `live` is what the containers on the stack and their keys have
  allocated (`Owed`) and what the value or the string at hand holds (`Held`); a
  container has no key but between a colon and the element behind it; a buffer
  has a byte to spare.

A parse ends with an empty stack, so that a rejected text has left nothing and
an accepted one what its tree owns.  `Owed` is the
cardinality of a set with an element for each allocation: a sum over the stack
that pushing, popping and replacing the innermost container change by what that
container owes (`OwedPushed`, `OwedPopped`, `OwedReplaced`), without recursion.

`ParseInv` adds what the language needs:

- `ContinuesInv`.  `Remaining(text)` are the texts that make the text so far a
  value.  `Expected` says, for each place of the parser, what may follow there,
  given what may follow the containers on the stack, which is a function of the
  depth (`Chain`).  The two agree on everything that begins with the character at
  hand: reading a character takes the derivative of both (`Der`), so the parser
  never goes on with a text that no value begins with and never stops one short.
  The language of a list is that of its first element followed by the language of
  the rest, which is where `JsonGrammar` is compared with what the parser expects.
- `LookInv`: the length of the text and the character at hand.
- `ShowsInv`: what the containers on the stack show, one behind the other and
  with the keys they wait with, and then the value or string at hand, is the text
  so far; at the end that is the tree.

The sets `JsonValue`, `Phrase(...)` and `StringBody` are the grammar's without its
bound on the length, so that concatenation is total on them.

### The encoder (`TextsProof`)

`EncodingIsBpe` is `EncodesAsSpecified` for any vocabulary, merges, added tokens
and text.  `Reference` splits the text anew at every place and starts byte-pair
encoding again after every merge; the encoder finds pre-tokens by a cascade of
cases and keeps ranks beside its symbols.  `EncodeInv` relates the two:

- `SoFar`: the tokens so far, followed by the reference of the text that is left
  (`Enc[i]`), are the reference, and they spell the text up to `i`.  A step of
  the encoder takes the first piece of `Enc[i]`.
- `BeforeLimit`: no added token begins between `i` and the limit, so that the
  limit found once is the limit of every pre-token in front of it.
- `Merging`: the symbols are those of some number of rounds of byte-pair encoding
  on the pre-token (`Rounds(PreToken)[n]`), and every rank beside them is that of
  its pair, or `NoRank` where the pair has been found not to merge.  A merge
  changes the pairs to both sides of it and moves those behind it (`NewRanks`),
  and when no rank is left the rounds have reached their fixed point
  (a text of n symbols takes less than n rounds).

That the pre-tokens are those of the split regex (`PretokenIsRegex`) compares the
cascade of `pretoken_end` with the seven alternatives of the regex, each with the
longest match.  It needs `EncodeParameters`: the classes of characters are as in
`cls_at` (a blank is neither punctuation nor wide), and no contraction is the
beginning of another, since the code takes the first that matches and the model
any.  Where no alternative matches, the code takes one character and the regex
agrees; a single space of several bytes the code ends at the place it began,
so the encoder never gets on (disagreement 8): nothing is returned, and the
theorem holds of that too.

### The compositions

A component's invariant holds of the behaviours in which it runs (`part = ...`):
its `Init` and its steps are those of the component, and `part` never changes.
`CachesInvariant`, `LoadingInvariant`, `ReadsInvariant`, `IndexInvariant`,
`ProbingInvariant`, `SelectionInvariant`, `ParsingInvariant`, `EncodingInvariant` and
`DecodingInvariant` say so, and the theorems that name properties of the runs follow from these and the lemmas of the components.

### Induction

The induction theorems of the prover's library take a predicate as a parameter,
which the installed provers cannot instantiate.  Where a loop is a recursive
function over `0..n`, the proofs use its first-order form instead: a set of
naturals that holds zero and with n also n + 1 is all of them (`Induction`), a
set of naturals that is not empty has a least element (`LeastExists`), and the
function exists because it can be extended by one (`LoopExists`,
`GrowingExists`, `ShiftingExists`, `SearchExists`).  `RecursionExists` is that for
functions over all naturals, whose value may depend on those at all smaller ones:
the grammar and the bodies of strings.

### What is only model-checked

- Liveness and fairness, which are out of the prover's reach: `WaitReturns`,
  `DestroyReturns`, `JobsFinish`, `CallsReturn`, `Terminates`.
- That `qsort` sorts and that the library's folds compute what they say, which
  the models take as their contracts.

## Not modelled, and why

- Tensor arithmetic (kernels, MLX expressions): floating point.  Argument
  parsing, reports, the chat template's layout: no state.
- Memory exhaustion, everywhere but where the code frees what it holds.
- The scanning of `tokenizer.json` into tables (`tokenizer_load`): `Tokenizer`
  starts from the tables, and takes for granted that they have every byte, as
  those of a byte-level vocabulary do (`tokenizer.c:848` fails otherwise).  The hash constants of `ngram.c`: fixed arithmetic.
- `ple_rows_load`: one row at a time in one thread, get, read, put, copy; the
  row is copied before the next put can evict it.
- `load_model` and `model_load`: straight sequences of reads with one cleanup;
  of `load.py` the cleanup would be worth a module with the two closes of the
  stores in it.
- The n-gram disk cache: used by nothing else.

With several runs `generate` prints `gen_tokens` entries of `generated`, those of
all runs, so beyond the last run and beyond the array (`main.c:362`, 376).  The
model does that; the property speaks of what is printed first.

Hazards met in the code that no property covers, besides those so marked in
`PROJECT.json`: the product of the dimensions of a shape may wrap
(`safetensors.c:185`: no size in the runs does, and `IndicesAreSound` assumes
it); a call longer than the window writes past it (`model.c:817`); prompts over 4096 bytes without a
tokenizer (`main.c:300`); duplicate keys keep the first value (`json.c:311`);
`find_key` matches keys at any depth (`tokenizer.c:371`); added tokens that are
not ASCII are decoded through the byte table (`tokenizer.c:969`); the directory
is scanned a second time for files counted in the first (`safetensors.c:274`).  The comment of `main.c:166`, "smallest
set with mass >= top_p", describes a nucleus one token larger than the code's,
which keeps the tokens up to top_p and at least one; `SamplesLikely` holds of
both.

## Plan

What is left is a model of `load.py`: the lifecycle of the index and the stores
with a failure at every step.
