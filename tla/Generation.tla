---------------------------- MODULE Generation ----------------------------
(***************************************************************************)
(* The generation loops over the decoder and what is printed of them: main *)
(* and sample_token of c/src/main.c, generate_tokens and _sample of        *)
(* src/colibri_runtime/generation.py, main of its cli.py.  Probabilities   *)
(* are integer weights; the logits of a step are any weights at all.       *)
(***************************************************************************)
EXTENDS Decoder, Functions

CONSTANTS
  Options,    \* command lines: [engine, command, greedy, topP, runs, chat, stops]
  PromptsFed, \* bound: the prompts
  NoToken,    \* what memory holds that is no token
  MaxTokens,  \* --max-tokens
  Weights,    \* of the tokens: exp((logit - max) / temperature), scaled
  Draws       \* the random number is one of the fractions u / Draws

\* chat: --chat to a C runtime with a tokenizer, which prints no stop at the end.
\* stops: what ends a run, eos_token_id and in such a chat <|im_end|>.  generate
\* of cli.py has no --runs; that of main.c takes it.
GenParameters == /\ Tokens \subseteq Nat /\ IsFiniteSet(Tokens)
                 /\ \A o \in Options :
                      /\ o.engine \in Engines /\ o.topP \in 1..10
                      /\ o.command \in {"generate", "benchmark"}
                      /\ o.runs \in Nat \ {0}
                      /\ {o.greedy, o.chat} \subseteq BOOLEAN
                      /\ o.stops \subseteq Tokens
                      /\ o.chat => o.engine = C /\ o.command = "generate"
                      /\ o.engine = Python /\ o.command = "generate" => o.runs = 1
                 /\ PromptsFed \subseteq {p \in Seq(Tokens) : Len(p) \in MinPrefill..MaxPrefill}
                 /\ Weights \subseteq {w \in [Tokens -> Nat] : \E t \in Tokens : w[t] > 0}
                 /\ {MaxTokens, Draws} \subseteq Nat \ {0}

VARIABLES
  opts, prompt,
  logits,     \* the weights the last token was sampled from
  generated,  \* what the current run has sampled
  cells,      \* generated[] of main.c as far as any run has written to it
  genTokens, run,
  printed,
  phase       \* "reset", "prefill", "sample", "decode", "printed", "failed"

loop == <<opts, prompt, logits, generated, cells, genTokens, run, printed, phase>>
gvars == <<vars, loop>>

-----------------------------------------------------------------------------
(* Sampling *)

\* The mass of a set of tokens: how many units their weights have.
Mass(w, S) == Cardinality(UNION {{t} \X (1..w[t]) : t \in S})
Total(w) == Mass(w, Tokens)

\* The order of the tokens by weight: the insertion sort of C is stable, the
\* reversed argsort of Python is not.
Precedes(w, s, t) == \/ w[s] > w[t]
                     \/ w[s] = w[t] /\ IF engine = C THEN s < t ELSE s > t
MassBefore(w, t) == Mass(w, {s \in Tokens : Precedes(w, s, t)})
MassTo(w, t) == MassBefore(w, t) + w[t]

\* Mutant of Nucleus: the boundary token always stays.
NucleusPlusOne(w) == {t \in Tokens : 10 * (MassBefore(w, t) - 1) <= opts.topP * Total(w)}

\* What top_p leaves: in C the longest prefix of mass top_p or less, and one
\* token at least; in Python every token with no more than top_p before it.
Nucleus(w) ==
  LET within == {t \in Tokens : 10 * MassTo(w, t) <= opts.topP * Total(w)}
  IN IF engine = Python \/ within = {}
     THEN {t \in Tokens : IF engine = C THEN MassBefore(w, t) = 0 /\ w[t] > 0
                          ELSE 10 * MassBefore(w, t) <= opts.topP * Total(w)}
     ELSE within

\* Walking the tokens of S in order, the first where the running sum reaches
\* the draw.
Walk(w, S, u) ==
  {t \in S : /\ u * Mass(w, S) <= Draws * MassTo(w, t)
             /\ \A s \in S : Precedes(w, s, t) => u * Mass(w, S) > Draws * MassTo(w, s)}

\* Without a nucleus C walks the tokens by number.  The weights have been
\* divided by their sum, but the draw is still multiplied by it; weights are in
\* units of the greatest, which counts as 1.  When none is reached: token 0.
WalkAll(w, u) ==
  LET upTo(t) == Mass(w, {s \in Tokens : s <= t})
      reached == {t \in Tokens :
                    u * Total(w) * Total(w) <= Draws * Max(Range(w)) * upTo(t)}
  IN IF reached = {} THEN {Min(Tokens)} ELSE {Min(reached)}

\* sample_token and _sample: the tokens that may come of the weights.
Sampled(w, u) ==
  IF opts.greedy THEN {Min({t \in Tokens : \A s \in Tokens : w[t] >= w[s]})}
  ELSE IF engine = Python
  THEN {t \in Tokens : w[t] > 0 /\ (opts.topP < 10 => t \in Nucleus(w))}
  ELSE IF opts.topP < 10 THEN Walk(w, Nucleus(w), u)
  ELSE WalkAll(w, u)

-----------------------------------------------------------------------------
(* The loop *)

NoLogits == [t \in Tokens |-> 0]

StartRun == /\ phase = "reset"
            /\ Reset
            /\ generated' = <<>>
            /\ phase' = "prefill"
            /\ UNCHANGED <<opts, prompt, logits, cells, genTokens, run, printed>>

Prefill == /\ phase = "prefill"
           /\ \/ Forward(prompt, FALSE) /\ phase' = "sample"
              \/ ForwardFails(prompt, FALSE) /\ phase' = "failed"
           /\ UNCHANGED <<opts, prompt, logits, generated, cells, genTokens, run, printed>>

\* generated[step] = token, and on_token of cli.py, which prints it at once.
Keep(token) ==
  /\ generated' = Append(generated, token)
  /\ cells' = IF Len(generated) < Len(cells)
              THEN [cells EXCEPT ![Len(generated) + 1] = token]
              ELSE Append(cells, token)
  /\ printed' = IF engine = Python /\ opts.command = "generate"
                THEN Append(printed, token) ELSE printed
  /\ genTokens' = genTokens + 1

\* Mutant of Sample: a stop token does not end the loop.
SampleOn == /\ phase = "sample"
            /\ \E w \in Weights, u \in 1..(Draws - 1) : \E token \in Sampled(w, u) :
                 /\ logits' = w
                 /\ Keep(token)
                 /\ phase' = IF Len(generated) + 1 = MaxTokens THEN "end" ELSE "decode"
            /\ UNCHANGED <<vars, opts, prompt, run>>

Sample == /\ phase = "sample"
          /\ \E w \in Weights, u \in 1..(Draws - 1) : \E token \in Sampled(w, u) :
               /\ logits' = w
               /\ Keep(token)
               /\ phase' = IF token \in opts.stops \/ Len(generated) + 1 = MaxTokens
                           THEN "end" ELSE "decode"
          /\ UNCHANGED <<vars, opts, prompt, run>>

Decode == /\ phase = "decode"
          /\ \/ Forward(<<generated[Len(generated)]>>, TRUE) /\ phase' = "sample"
             \/ ForwardFails(<<generated[Len(generated)]>>, TRUE) /\ phase' = "failed"
          /\ logits' = NoLogits
          /\ UNCHANGED <<opts, prompt, generated, cells, genTokens, run, printed>>

NextRun == /\ phase = "end"
           /\ run < opts.runs
           /\ run' = run + 1
           /\ phase' = "reset"
           /\ UNCHANGED <<vars, opts, prompt, logits, generated, cells, genTokens, printed>>

\* Mutant of WithoutStops: the first token is never left out.
WithoutLaterStops(s) ==
  IF opts.chat THEN SubSeq(s, 1, Max({1} \cup {i \in 1..Len(s) : s[i] \notin opts.stops}))
  ELSE s

\* A chat leaves out the stops at the end.
WithoutStops(s) ==
  IF opts.chat THEN SubSeq(s, 1, Max({0} \cup {i \in 1..Len(s) : s[i] \notin opts.stops}))
  ELSE s

\* generate of main.c reads as many entries of generated[] as tokens have been
\* counted in all runs: behind those that were written it reads whatever the
\* array, or what follows it, holds.  benchmark prints no tokens, and cli.py has
\* printed them.
PrintTokens ==
  /\ phase = "end"
  /\ run = opts.runs
  /\ IF engine = C /\ opts.command = "generate"
     THEN \E beyond \in [1..(genTokens - Len(cells)) -> Tokens \cup {NoToken}] :
            printed' = WithoutStops(cells \o beyond)
     ELSE UNCHANGED printed
  /\ phase' = "printed"
  /\ UNCHANGED <<vars, opts, prompt, logits, generated, cells, genTokens, run>>

GenInit == /\ Init
           /\ opts \in {o \in Options : o.engine = engine}
           /\ prompt \in PromptsFed
           /\ logits = NoLogits
           /\ generated = <<>> /\ cells = <<>> /\ genTokens = 0 /\ run = 1 /\ printed = <<>>
           /\ phase = "reset"

GenNext == StartRun \/ Prefill \/ Sample \/ Decode \/ NextRun \/ PrintTokens

GenSpec == GenInit /\ [][GenNext]_gvars
FairGenSpec == GenSpec /\ WF_gvars(GenNext)

-----------------------------------------------------------------------------
(* Correctness *)

\* main.c:143, "sample a token from logits": the token has positive
\* probability, and with a nucleus (main.c:166, generation.py:86) the tokens
\* likelier than it do not exceed top_p by themselves.
SamplesLikely ==
  phase \in {"decode", "end"} /\ genTokens > 0 /\ generated # <<>> =>
    LET token == generated[Len(generated)]
        likelier == Mass(logits, {s \in Tokens : logits[s] > logits[token]})
    IN /\ logits[token] > 0
       /\ 10 * likelier <= opts.topP * Total(logits)
       /\ opts.greedy => likelier = 0

\* The decoder has been fed the prompt and the tokens of this run, each once
\* and in order, but not the token that ended it; nothing follows a stop token.
FedWhatWasGenerated ==
  /\ phase = "sample" => history = prompt \o generated
  /\ phase \in {"decode", "end", "printed"} =>
       history = prompt \o SubSeq(generated, 1, Len(generated) - 1)
  /\ \A i \in 1..(Len(generated) - 1) : generated[i] \notin opts.stops

\* What the last run generated, in a chat without its stop.
Answer == IF opts.chat /\ generated # <<>> /\ generated[Len(generated)] \in opts.stops
          THEN SubSeq(generated, 1, Len(generated) - 1)
          ELSE generated

Answered == phase = "printed" /\ opts.command = "generate"

\* generate prints the answer: nothing else if it makes one run, and nothing
\* before it if it makes several, behind which it prints what the array held.
PrintsTheAnswer ==
  Answered => /\ Len(Answer) <= Len(printed)
              /\ \A i \in DOMAIN Answer : printed[i] = Answer[i]
              /\ opts.runs = 1 => printed = Answer

Ended == phase \in {"printed", "failed"}

\* The loop ends.
Ends == <>Ended
=============================================================================
