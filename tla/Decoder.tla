------------------------------ MODULE Decoder ------------------------------
(***************************************************************************)
(* What a model remembers between two calls of model_forward (c/src/       *)
(* model.c) or of Qwen4ExpModel (src/colibri_runtime/model.py): the window *)
(* of keys, values and index keys of attention, the convolution and        *)
(* recurrent states of the linear layers, and the last tokens for the      *)
(* n-grams of the embedding layer.  A row of activations stands for the    *)
(* position of its token, so an output is the record of the rows it was    *)
(* computed from.  Two layers are kept: full attention, then linear        *)
(* attention with the n-gram embedding.  Positions count from 1.           *)
(***************************************************************************)
EXTENDS Integers, Sequences, FiniteSets, FiniteSetsExt

CONSTANTS
  Engines,     \* which of the two implementations
  Tokens, Eos,
  Cap,         \* QMODEL_KV_CAP, the window of the C runtime
  RopeRows,    \* QMODEL_KV_CAP / (rot_dim / 2), 64: see Rotation
  Budget, Compress,  \* indexer_budget and indexer_compress_ratio
  ConvKernel,  \* linear_conv_kernel_dim
  PleKernel,   \* ple_conv_kernel_size
  MinPrefill, MaxPrefill,  \* bound: prefills of the C runtime
  MaxHistory   \* bound: tokens fed between two resets

C == "model.c"
Python == "model.py"

Parameters == /\ Engines \subseteq {C, Python}
              /\ Eos \in Tokens
              /\ {Cap, RopeRows, Compress, ConvKernel, PleKernel} \subseteq Nat \ {0}
              /\ {MinPrefill, MaxPrefill, MaxHistory} \subseteq Nat \ {0}
              /\ Budget \in Nat /\ Budget >= Compress

VARIABLES
  engine,
  blockScores,  \* which blocks the indexer prefers, the same for every query
  history,      \* tokens fed since the reset; no program variable
  keys,         \* k_cache: the row of each slot and how it was rotated
  vals, idx,    \* v_cache and idx_keys: the row of each slot
  conv, rec,    \* conv_state, and rec_state as the sequence of what was folded in
  ple,          \* ple_state
  prevCtx, hasPrev,
  outs,         \* what the last call computed for each of its tokens
  failed        \* the last call returned an error

vars == <<engine, blockScores, history, keys, vals, idx, conv, rec, ple, prevCtx,
          hasPrev, outs, failed>>

NGram == 3   \* ngram_size; prev_ctx has room for two tokens
PleStateLen == (PleKernel - 1) * NGram
Blocks == 1..(MaxHistory \div Compress)

NoRow == 0   \* a row of zeros
Zeros(n) == [i \in 1..n |-> NoRow]
LastOf(s, n) == SubSeq(s, Len(s) - n + 1, Len(s))

\* A token with where it came from; position 0 stands for the eos put in for a
\* token that is not there.
Entry(p, tok) == [at |-> p, tok |-> tok]
EosEntry == Entry(0, Eos)

-----------------------------------------------------------------------------
(* Attention *)

\* Slots that must go so that n rows fit; the Python caches grow instead.
Dropped(n) == IF engine = C THEN Max({0, Len(vals) + n - Cap}) ELSE 0

NewRows(n) == [t \in 1..n |-> Len(history) + t]

\* The angles of the cosine and the sine that the query and the key of token t
\* of n are rotated by.  The C runtime writes both into one array token by
\* token, the sines RopeRows rows behind the cosines, where the cosines of a
\* longer prefill overwrite them; then there is no sine of the position.
NoSine == 0
Rotation(t, n) ==
  LET p == Len(vals) + t
  IN [cos |-> p, sin |-> IF engine = C /\ t + RopeRows <= n THEN NoSine ELSE p]

\* Index keys and values move to the front of their arrays when the window is
\* full; k_cache is not moved, its last n slots are overwritten.
AppendRows(n) ==
  /\ idx' = SubSeq(idx, Dropped(n) + 1, Len(idx)) \o NewRows(n)
  /\ vals' = SubSeq(vals, Dropped(n) + 1, Len(vals)) \o NewRows(n)
  /\ keys' = SubSeq(keys, 1, Len(keys) - Dropped(n))
               \o [t \in 1..n |-> [row |-> Len(history) + t, rope |-> Rotation(t, n)]]

\* The score of a block, known by the row its pooled key starts with.
Score(b) == blockScores[((idx'[(b - 1) * Compress + 1] - 1) \div Compress) + 1]

\* kernel_topk_indices over the scores, those of invisible blocks being -inf.
TopBlocks(q, total) ==
  LET n == total \div Compress
      visible(b) == b * Compress <= q
      better(b) == {c \in 1..n : IF visible(b) = visible(c) THEN Score(c) > Score(b)
                                 ELSE visible(c)}
  IN {b \in 1..n : Cardinality(better(b)) < Budget \div Compress}

\* The slots a query at position q attends to, of total: causal, and above the
\* budget the best blocks and the incomplete block the query is in.
Attended(q, total) ==
  {k \in 1..total :
     /\ k <= q
     /\ total > Budget =>
          \/ ((k - 1) \div Compress) + 1 \in TopBlocks(q, total)
          \/ k > (q \div Compress) * Compress}

AttentionOut(t) ==
  {[key |-> keys'[k], value |-> vals'[k]] : k \in Attended(Len(vals) + t, Len(vals'))}

-----------------------------------------------------------------------------
(* Linear attention and the n-gram embedding *)

\* Each token convolves its row with the ConvKernel - 1 before it and folds the
\* result into the recurrent state.
ConvWindow(t, n) == SubSeq(conv \o NewRows(n), t, t + ConvKernel - 1)

DeltaNet(n) == /\ conv' = LastOf(conv \o NewRows(n), ConvKernel - 1)
               /\ rec' = rec \o [t \in 1..n |-> ConvWindow(t, n)]

\* ngram_indices: the token q before token t, or eos when there is none or an
\* eos lies between.
Context(hist, t, q) ==
  LET boundary == Max({0} \cup {s \in 1..(t - 1) : hist[s].tok = Eos})
  IN IF t - q >= 1 /\ t - boundary > q THEN hist[t - q] ELSE EosEntry

Prev == IF hasPrev THEN prevCtx ELSE <<EosEntry, EosEntry>>
Fed(toks) == [t \in DOMAIN toks |-> Entry(Len(history) + t, toks[t])]

GramsOut(toks, t) == [q \in 0..(NGram - 1) |-> Context(Prev \o Fed(toks), t + NGram - 1, q)]

\* The dilated convolution over the state and the rows of this call.
PleOut(t, n) == [i \in 0..(PleKernel - 1) |-> (ple \o NewRows(n))[PleStateLen + t - i * NGram]]

\* Mutant of NextPrev: a decode step keeps only its own token.
NextPrevOneToken(toks, decode) ==
  IF engine = C /\ decode THEN <<EosEntry, Fed(toks)[1]>> ELSE LastOf(Prev \o Fed(toks), 2)

\* What the next call finds before its tokens.  The C runtime copies the last
\* two tokens of a prefill, reading tokens[-1] when there is one.
NextPrev(toks, decode) ==
  IF engine = C /\ ~decode
  THEN IF Len(toks) = 1 THEN <<Entry(-1, Eos), Fed(toks)[1]>> ELSE LastOf(Fed(toks), 2)
  ELSE LastOf(Prev \o Fed(toks), 2)

Embedding(toks, decode) == /\ ple' = LastOf(ple \o NewRows(Len(toks)), PleStateLen)
                           /\ prevCtx' = NextPrev(toks, decode)
                           /\ hasPrev' = TRUE

-----------------------------------------------------------------------------
(* Calls *)

Output(toks, t) == [query |-> Rotation(t, Len(toks)),
                    attention |-> AttentionOut(t),
                    recurrent |-> SubSeq(rec', 1, Len(rec) + t),
                    grams |-> GramsOut(toks, t),
                    ple |-> PleOut(t, Len(toks))]

\* model_forward: the layers in order, then the outputs of every token.
Forward(toks, decode) ==
  /\ ~failed
  /\ Len(history) + Len(toks) <= MaxHistory
  /\ decode => Len(toks) = 1
  /\ AppendRows(Len(toks))
  /\ Embedding(toks, decode)
  /\ DeltaNet(Len(toks))
  /\ outs' = [t \in DOMAIN toks |-> Output(toks, t)]
  /\ history' = history \o toks
  /\ UNCHANGED <<engine, blockScores, failed>>

\* An unreadable embedding, a row or an expert that does not arrive: the layers
\* before it have been through, those behind it have not.
ForwardFails(toks, decode) ==
  /\ engine = C /\ ~failed
  /\ Len(history) + Len(toks) <= MaxHistory
  /\ \/ UNCHANGED <<keys, vals, idx, ple, prevCtx, hasPrev, conv, rec>>
     \/ AppendRows(Len(toks)) /\ UNCHANGED <<ple, prevCtx, hasPrev, conv, rec>>
     \/ AppendRows(Len(toks)) /\ Embedding(toks, decode) /\ DeltaNet(Len(toks))
  /\ failed' = TRUE
  /\ outs' = <<>>
  /\ UNCHANGED <<engine, blockScores, history>>

\* model_reset_caches; the Python runtime makes new caches.
Reset == /\ keys' = <<>> /\ vals' = <<>> /\ idx' = <<>>
         /\ conv' = Zeros(ConvKernel - 1) /\ rec' = <<>>
         /\ ple' = Zeros(PleStateLen)
         /\ prevCtx' = <<EosEntry, EosEntry>> /\ hasPrev' = FALSE
         /\ history' = <<>> /\ outs' = <<>> /\ failed' = FALSE
         /\ UNCHANGED <<engine, blockScores>>

Init == /\ engine \in Engines
        /\ blockScores \in {f \in [Blocks -> Blocks] : \A a, b \in Blocks : f[a] = f[b] => a = b}
        /\ keys = <<>> /\ vals = <<>> /\ idx = <<>>
        /\ conv = Zeros(ConvKernel - 1) /\ rec = <<>>
        /\ ple = Zeros(PleStateLen)
        /\ prevCtx = <<EosEntry, EosEntry>> /\ hasPrev = FALSE
        /\ history = <<>> /\ outs = <<>> /\ failed = FALSE

\* A prompt in one or several prefills, and tokens one at a time.
Prompts == UNION {[1..n -> Tokens] : n \in 1..MaxHistory}
Allowed(toks) == engine = C => Len(toks) \in MinPrefill..MaxPrefill

Next == \/ \E toks \in Prompts :
             Allowed(toks) /\ (Forward(toks, FALSE) \/ ForwardFails(toks, FALSE))
        \/ \E tok \in Tokens : /\ history # <<>>
                               /\ Forward(<<tok>>, TRUE) \/ ForwardFails(<<tok>>, TRUE)
        \/ Reset

Spec == Init /\ [][Next]_vars

-----------------------------------------------------------------------------
(* Correctness *)

\* The record a token at position p must have, from the whole history.
ExpectedRows(p) ==
  LET whole == 1..(p \div Compress)
      better(b) == {c \in whole : blockScores[c] > blockScores[b]}
      best == {b \in whole : Cardinality(better(b)) < Budget \div Compress}
  IN {k \in 1..p : k > (p \div Compress) * Compress \/ ((k - 1) \div Compress) + 1 \in best}

ExpectedGram(p, q) ==
  IF q < p /\ \A s \in (p - q)..(p - 1) : history[s] # Eos
  THEN Entry(p - q, history[p - q]) ELSE EosEntry

RowAt(p) == IF p >= 1 THEN p ELSE NoRow

RotatedTo(p) == [cos |-> p, sin |-> p]

Expected(p) ==
  [query |-> RotatedTo(p),
   attention |-> {[key |-> [row |-> k, rope |-> RotatedTo(k)], value |-> k] : k \in ExpectedRows(p)},
   recurrent |-> [s \in 1..p |-> [i \in 1..ConvKernel |-> RowAt(s - ConvKernel + i)]],
   grams |-> [q \in 0..(NGram - 1) |-> ExpectedGram(p, q)],
   ple |-> [i \in 0..(PleKernel - 1) |-> RowAt(p - i * NGram)]]

\* c/tests/test_model.c:319, "decode logits must match prefill logits per
\* position": however the tokens since the reset were cut into calls, the
\* output at a position is computed from the same rows, rotated to the same
\* positions, and the same n-grams.
DecodeMatchesPrefill ==
  \A t \in DOMAIN outs : outs[t] = Expected(Len(history) - Len(outs) + t)

\* model.c:816, "drop oldest": when the window is full it holds the key, the
\* value and the index key of each of the last tokens, side by side.
WindowHoldsTheLast ==
  ~failed => \A k \in DOMAIN vals : /\ vals[k] = Len(history) - Len(vals) + k
                                   /\ idx[k] = vals[k] /\ keys[k].row = vals[k]
=============================================================================
