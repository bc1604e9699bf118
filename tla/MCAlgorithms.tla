----------------------------- MODULE MCAlgorithms -----------------------------
(* Instances of the components that run in one thread, or whose threads only   *)
(* read: one of them in each behaviour, the one that part names.  They do not  *)
(* interact, keep their variables here, and those of the others are Off.  TopK *)
(* is extended, with up to five scores of three values, OpenTable, with four   *)
(* keys of which the fourth doubles the table, RowRead, with up to four        *)
(* requests of four rows, Json, with texts of up to MaxText characters, and    *)
(* Tokenizer, with texts of up to four; the others are instances.              *)
EXTENDS TopK, OpenTable, RowRead, Json, Tokenizer, Integers, Sequences, FiniteSets, FiniteSetsExt, Functions,
        TLC

CONSTANTS Off, j1
CONSTANTS Engines, Tokens, Eos, CutTokens, Cap, RopeRows, Budget, Compress, ConvKernel, PleKernel,
          MinPrefill, MaxPrefill, MaxHistory, CutHistory
CONSTANTS Options, PromptsFed, NoToken, MaxTokens, Weights, Draws
CONSTANTS NumFiles, Names, DataBytes, MaxEntries, Numbers, Sizes, Word, Jobs

VARIABLES part
VARIABLES indexEngine, header, tensors, file, fds, status, job
VARIABLES engine, blockScores, history, keys, vals, indexKeys, conv, rec, ple, prevCtx, hasPrev,
          outs, failed
VARIABLES opts, prompt, logits, generated, cells, genTokens, run, printed, stage

\* Three entries in two files of two bytes, offsets from -1 to 3.
Offsets == -1..3
Index == INSTANCE TensorIndexProof WITH
  engine <- indexEngine, Engines <- {"safetensors.c", "storage.py"}

\* Tokens cut into calls in any way, without the loop.
Cache == INSTANCE GenerationProof WITH
  Tokens <- CutTokens, MaxHistory <- CutHistory, idx <- indexKeys, phase <- stage

\* The loop over the decoder: some command lines, and all weights up to 2.  In a
\* chat token 1 is <|im_end|>.
CommandLine(e, command, greedy, topP, runs, chat, stops) ==
  [engine |-> e, command |-> command, greedy |-> greedy, topP |-> topP, runs |-> runs,
   chat |-> chat, stops |-> stops]
CommandLines ==
  {CommandLine("model.c", "generate", FALSE, 5, 1, TRUE, {0, 1}),
   CommandLine("model.c", "generate", FALSE, 8, 1, FALSE, {0}),
   CommandLine("model.c", "generate", TRUE, 10, 2, FALSE, {0}),
   CommandLine("model.c", "generate", TRUE, 10, 2, TRUE, {0, 1}),
   CommandLine("model.c", "benchmark", TRUE, 10, 2, FALSE, {0}),
   CommandLine("model.py", "generate", TRUE, 6, 1, FALSE, {0}),
   CommandLine("model.py", "generate", FALSE, 6, 1, FALSE, {0}),
   CommandLine("model.py", "generate", FALSE, 10, 1, FALSE, {0}),
   CommandLine("model.py", "benchmark", TRUE, 10, 2, FALSE, {0})}
AllWeights == [Tokens -> 0..2] \ {[t \in Tokens |-> 0]}
Prompt == {<<1, 2>>}
Loop == INSTANCE GenerationProof WITH idx <- indexKeys, phase <- stage

\* Two vocabularies for the tokenizer; wide spaces are left to EncodeHangs.
Vocabularies ==
  {[cap |-> 4,
    vocab |-> {<<"r", "e">>, <<"e", "s">>, <<"r", "e", "s">>, <<" ", "r">>},
    merges |-> << <<<<"e">>, <<"s">>>>, <<<<"r">>, <<"e", "s">>>>, <<<<" ">>, <<"r">>>> >>],
   [cap |-> 3,
    vocab |-> {<<" ", " ">>, <<"r", "e">>, <<"s", "s">>, <<"r", "r">>, <<"r", "r", "r">>},
    merges |-> << <<<<" ">>, <<" ">>>>, <<<<"r">>, <<"r">>>>, <<<<"e">>, <<"s">>>>,
                  <<<<"r">>, <<"e">>>>, <<<<"r", "r">>, <<"r">>>>, <<<<"s">>, <<"s">>>>,
                  <<<<"e", "e">>, <<"s">>>> >>]}
ContractionTails == {<<"s">>, <<"r", "e">>}
AddedTokens == {<<"!", "r">>, <<"!", "r", "e">>}

ASSUME ParametersFit == /\ ReadParameters /\ TableParameters /\ Index!Parameters
                        /\ Cache!Parameters /\ Loop!Parameters /\ Loop!GenParameters
                        /\ EncodeParameters /\ JsonParameters

\* What a component that does not run is in is no place of one that does.
ASSUME OffIsNoPlace ==
  Off \notin {"run", "pread", "scatter", "ok", "failed", "choose", "scan", "done",
              "string", "escape", "end", "accepted", "rejected"}

decoderVars == <<engine, blockScores, history, keys, vals, indexKeys, conv, rec, ple, prevCtx, hasPrev,
                 outs, failed>>
indexVars == <<indexEngine, header, tensors, file, fds, status, job>>
loopVars == <<opts, prompt, logits, generated, cells, genTokens, run, printed, stage>>
allVars == <<part, readVars, tableVars, indexVars, decoderVars, loopVars, encodeVars,
          jsonVars, vars>>

ReadsOff == /\ reader = Off /\ rows = Off /\ left = Off /\ block = Off /\ start = Off
            /\ expect = Off /\ off = Off /\ out = Off /\ calls = Off /\ total = Off /\ pc = Off
ProbingOff == hash = Off /\ slots = Off /\ nslots = Off /\ count = Off /\ stored = Off
IndexOff == /\ indexEngine = Off /\ header = Off /\ tensors = Off /\ file = Off /\ fds = Off
            /\ status = Off /\ job = Off
CacheOff == /\ engine = Off /\ blockScores = Off /\ history = Off /\ keys = Off /\ vals = Off
            /\ indexKeys = Off /\ conv = Off /\ rec = Off /\ ple = Off /\ prevCtx = Off /\ hasPrev = Off
            /\ outs = Off /\ failed = Off
LoopOff == /\ opts = Off /\ prompt = Off /\ logits = Off /\ generated = Off /\ cells = Off
           /\ genTokens = Off /\ run = Off /\ printed = Off /\ stage = Off
EncodeOff == /\ table = Off /\ input = Off /\ i = Off /\ lim = Off /\ cur = Off /\ rank = Off
             /\ next = Off /\ ids = Off /\ encoder = Off
ParseOff == /\ text = Off /\ ahead = Off /\ stack = Off /\ value = Off /\ buf = Off /\ live = Off
            /\ errors = Off /\ at = Off /\ skip = Off /\ valueEnd = Off
TopOff == /\ length = Off /\ score = Off /\ wanted = Off /\ idx = Off /\ lo = Off /\ hi = Off
          /\ pv = Off /\ store = Off /\ scan = Off /\ phase = Off

\* The keys of the hash table are alike, so their hashes may as well ascend.
Ascending == \A j, k \in Keys : j < k => hash[j] <= hash[k]

Parts == {"reads", "probing", "index", "cache", "loop", "encode", "parse", "top"}

\* The loop runs on the decoder, whose variables are off when neither runs.
AllInit == /\ part \in Parts
           /\ IF part = "reads" THEN ReadInit ELSE ReadsOff
           /\ IF part = "probing" THEN TableInit /\ Ascending ELSE ProbingOff
           /\ IF part = "index" THEN Index!Init ELSE IndexOff
           /\ \/ part = "loop" /\ Loop!GenInit
              \/ part = "cache" /\ Cache!Init /\ LoopOff
              \/ part \notin {"loop", "cache"} /\ CacheOff /\ LoopOff
           /\ IF part = "encode" THEN EncodeInit ELSE EncodeOff
           /\ IF part = "parse" THEN JsonInit ELSE ParseOff
           /\ IF part = "top" THEN Init ELSE TopOff

\* One of them steps; all of them leave the others' variables alone.
AllNext ==
  /\ UNCHANGED part
  /\ \/ /\ part = "reads" /\ ReadNext
        /\ UNCHANGED <<tableVars, indexVars, decoderVars, loopVars, encodeVars, jsonVars, vars>>
     \/ /\ part = "probing" /\ TableNext
        /\ UNCHANGED <<readVars, indexVars, decoderVars, loopVars, encodeVars, jsonVars, vars>>
     \/ /\ part = "index" /\ Index!Next
        /\ UNCHANGED <<readVars, tableVars, decoderVars, loopVars, encodeVars, jsonVars, vars>>
     \/ /\ part = "cache" /\ Cache!Next
        /\ UNCHANGED <<readVars, tableVars, indexVars, loopVars, encodeVars, jsonVars, vars>>
     \/ /\ part = "loop" /\ Loop!GenNext
        /\ UNCHANGED <<readVars, tableVars, indexVars, encodeVars, jsonVars, vars>>
     \/ /\ part = "encode" /\ EncodeNext
        /\ UNCHANGED <<readVars, tableVars, indexVars, decoderVars, loopVars, jsonVars, vars>>
     \/ /\ part = "parse" /\ JsonNext
        /\ UNCHANGED <<readVars, tableVars, indexVars, decoderVars, loopVars, encodeVars, vars>>
     \/ /\ part = "top" /\ Next
        /\ UNCHANGED <<readVars, tableVars, indexVars, decoderVars, loopVars, encodeVars,
                       jsonVars>>

AllSpec == AllInit /\ [][AllNext]_allVars

\* What has begun goes on; the decoder and the hash table are only used.
FairSpec == AllSpec /\ WF_allVars(part \notin {"cache", "probing"} /\ AllNext)

-----------------------------------------------------------------------------
(* What each promises, of the behaviours in which it runs; SelectsLargest of   *)
(* TopK, EncodesAsSpecified of Tokenizer and ParsesAndFrees and                *)
(* SkipsWholeValues of Json speak of an end that what is Off does not reach.   *)

\* The types of the row readers, the hash table and the selection, whose
\* counters and offsets stay within the block, the table and the array.
AllTypeOK == /\ part = "reads" => ReadTypeOK
             /\ part = "probing" => TableTypeOK
             /\ part = "top" => TypeOK

\* A free slot remains in the hash table (cache.c:80).
ProbingEnds == part = "probing" => SlotRemains

\* The table finds what it holds and nothing else (cache.c:52).
FindsWhatIsStored == part = "probing" => FindsExactly

\* An index that opens is sound (safetensors.c:189, storage.py:137).
IndexIsSound == part = "index" => Index!IndexIsSound

\* Descriptors are open while they are read from and closed in the end.
DescriptorsClosed == part = "index" => Index!DescriptorsClosed

\* Outputs do not depend on how the tokens were cut into calls (test_model.c:319).
DecodeMatchesPrefill == /\ part = "cache" => Cache!DecodeMatchesPrefill
                        /\ part = "loop" => Loop!DecodeMatchesPrefill

\* Only likely tokens are sampled (main.c:143, generation.py:86).
SamplesLikely == part = "loop" => Loop!SamplesLikely

\* The decoder is fed what was generated (main.c:325, generation.py:138), and
\* that is printed (main.c:361, cli.py:157).
GeneratedIsFedAndPrinted == part = "loop" => /\ Loop!FedWhatWasGenerated
                                             /\ Loop!PrintsTheAnswer

\* Reading, parsing, selecting, encoding, generating and closing an index end.
Ended == \/ part = "reads" /\ ReadReturned
         \/ part = "index" /\ Index!Ended
         \/ part = "loop" /\ Loop!Ended
         \/ part = "encode" /\ EncodeReturned
         \/ part = "parse" /\ Parsed
         \/ part = "top" /\ Returned
         \/ part \in {"probing", "cache"}
Terminates == <>Ended
=============================================================================
