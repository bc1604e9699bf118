----------------------------- MODULE Tokenizer -----------------------------
(***************************************************************************)
(* tokenizer_encode and tokenizer_decode of c/src/tokenizer.c over the     *)
(* tables tokenizer_load makes: added tokens are cut out first, the text   *)
(* between them is split into pre-tokens, and each pre-token is merged     *)
(* pair by pair.  A character is a model value with classes and a width in *)
(* bytes; the byte-level vocabulary has one symbol for each character.  A  *)
(* token is the sequence of its characters.  Positions count from 1.       *)
(***************************************************************************)
EXTENDS Integers, Sequences, SequencesExt, FiniteSets, FiniteSetsExt

CONSTANTS
  Letters, Marks, Digits, Spaces, Newlines, \* the classes of characters
  Others,       \* punctuation, besides the apostrophe
  Blank, Quote, \* the space and the apostrophe
  Wide,         \* the characters of more than one byte
  Contractions, \* what an apostrophe takes along: s, t, re, ve, m, ll, d
  Tables,       \* [vocab, merges, cap]: the longer tokens, the pairs of tokens in
                \* the order of their lines, and the room for ids
  Added,        \* the contents of added_tokens
  MaxInput       \* bound: characters of the text

Characters == Letters \cup Marks \cup Digits \cup Spaces \cup Others \cup {Quote}

WordChars == Letters \cup Marks
Punctuation == Others \cup {Quote}

\* No contraction begins with another; a token is any sequence of characters.
EncodeParameters ==
  /\ Newlines \cup {Blank} \subseteq Spaces /\ Blank \notin Punctuation \cup Wide
  /\ Wide \subseteq Characters
  /\ Contractions \cup Added \subseteq Seq(Characters) /\ <<>> \notin Added
  /\ \A x, y \in Contractions : IsPrefix(x, y) => x = y
  /\ MaxInput \in Nat
  /\ Tables \subseteq [vocab : SUBSET Seq(Characters), cap : Nat,
                      merges : Seq(Seq(Characters) \X Seq(Characters))]

VARIABLES
  table, input,
  i, lim,     \* where the encoder is, and where the next added token begins
  cur, rank,  \* the symbols of a pre-token, and the rank of each with its right one
  next,       \* where the pre-token ends
  ids,        \* the tokens so far
  encoder     \* "outer", "inner", "merge", "done", "failed"

encodeVars == <<table, input, i, lim, cur, rank, next, ids, encoder>>

NoRank == -1

-----------------------------------------------------------------------------
(* Tables *)

Vocab == {<<c>> : c \in Characters} \cup table.vocab

\* The line of the last merge of two tokens, when both are in the vocabulary:
\* a later line replaces the rank of an earlier one.
RankOf(a, b) ==
  Max({NoRank} \cup {r \in DOMAIN table.merges : table.merges[r] = <<a, b>> /\ {a, b} \subseteq Vocab})

\* The longest added token at p.
AddedAt(p) ==
  LET here == {a \in Added : p + Len(a) - 1 <= Len(input) /\ SubSeq(input, p, p + Len(a) - 1) = a}
  IN {a \in here : \A b \in here : Len(b) <= Len(a)}

-----------------------------------------------------------------------------
(* Pre-tokens *)

\* The first position from p on, up to the limit l, that is not in S.
RunFrom(p, l, S) == Min({l} \cup {q \in p..(l - 1) : input[q] \notin S})

\* The contraction at p, its end.
ContractionEnds(p, l) ==
  {p + 1 + Len(x) : x \in {x \in Contractions : /\ input[p] = Quote
                                            /\ p + 1 + Len(x) <= l
                                            /\ SubSeq(input, p + 1, p + Len(x)) = x}}

PunctuationStart(p) == IF input[p] = Blank THEN p + 1 ELSE p

\* \s+(?!\S): all of a run of spaces that ends the text, else all but its last
\* character, or none when the run is one byte long; 0 is no match.
SpaceEnd(p, l) ==
  LET e == RunFrom(p, l, Spaces) IN
  IF e = l THEN e
  ELSE IF e - p > 1 \/ input[p] \in Wide THEN e - 1
  ELSE 0

\* pretoken_end: the alternatives in order.
PretokenEnd(p, l) ==
  LET c == input[p]
      afterPunct == RunFrom(PunctuationStart(p), l, Punctuation)
      newlines == {q \in p..(RunFrom(p, l, Spaces) - 1) : input[q] \in Newlines}
  IN IF ContractionEnds(p, l) # {} THEN Min(ContractionEnds(p, l))
     ELSE IF c \in WordChars THEN RunFrom(p, l, WordChars)
     ELSE IF c \notin Newlines \cup Digits /\ p + 1 < l /\ input[p + 1] \in WordChars
     THEN RunFrom(p + 1, l, WordChars)
     ELSE IF c \in Digits THEN p + 1
     ELSE IF afterPunct > PunctuationStart(p) THEN RunFrom(afterPunct, l, Newlines)
     ELSE IF newlines # {} THEN Max(newlines) + 1
     ELSE SpaceEnd(p, l)

-----------------------------------------------------------------------------
(* tokenizer_encode *)

\* An added token at i, or the way to the next one.
AddedToken == /\ encoder = "outer" /\ i <= Len(input) /\ AddedAt(i) # {}
              /\ IF Len(ids) + 1 > table.cap
                 THEN encoder' = "failed" /\ UNCHANGED <<i, ids>>
                 ELSE \E a \in AddedAt(i) : /\ ids' = Append(ids, a)
                                            /\ i' = i + Len(a)
                                            /\ UNCHANGED encoder
              /\ UNCHANGED <<table, input, lim, cur, rank, next>>

FindLimit == /\ encoder = "outer" /\ i <= Len(input) /\ AddedAt(i) = {}
             /\ lim' = Min({Len(input) + 1} \cup {p \in (i + 1)..Len(input) : AddedAt(p) # {}})
             /\ encoder' = "inner"
             /\ UNCHANGED <<table, input, i, cur, rank, next, ids>>

Symbols(s) == [k \in DOMAIN s |-> <<s[k]>>]

\* The next pre-token becomes symbols with the ranks of their pairs; where no
\* alternative matches it is one character, and so it is where the match ends
\* at the beginning of the text, which in the code is offset 0 as well.
Pretoken == /\ encoder = "inner" /\ i < lim
            /\ next' = LET e == PretokenEnd(i, lim) IN IF e <= 1 THEN i + 1 ELSE e
            /\ cur' = Symbols(SubSeq(input, i, next' - 1))
            /\ rank' = [k \in DOMAIN cur' |->
                          IF k < Len(cur') THEN RankOf(cur'[k], cur'[k + 1]) ELSE NoRank]
            /\ encoder' = "merge"
            /\ UNCHANGED <<table, input, i, lim, ids>>

Best == {k \in 1..(Len(cur) - 1) :
           /\ rank[k] # NoRank
           /\ \A j \in 1..(Len(cur) - 1) :
                rank[j] # NoRank => rank[k] < rank[j] \/ (rank[k] = rank[j] /\ k <= j)}

MergedAt(k) == [j \in 1..(Len(cur) - 1) |->
                  IF j < k THEN cur[j] ELSE IF j = k THEN cur[k] \o cur[k + 1] ELSE cur[j + 1]]

\* Mutant of NewRanks: the pair to the left keeps its rank.
NewRanksRightOnly(k, s) ==
  [j \in DOMAIN s |-> IF j = k /\ j < Len(s) THEN RankOf(s[j], s[j + 1])
                      ELSE IF j < k THEN rank[j] ELSE rank[j + 1]]

\* Only the pairs to both sides of a merge are looked up again; the ranks
\* behind it move up.
NewRanks(k, s) ==
  [j \in DOMAIN s |-> IF j \in {k - 1, k} /\ j < Len(s) THEN RankOf(s[j], s[j + 1])
                      ELSE IF j < k THEN rank[j] ELSE rank[j + 1]]

\* One round of encode_chunk: a pair whose merge is no token is passed over.
Merge == /\ encoder = "merge"
         /\ \E k \in Best :
              IF RankOf(cur[k], cur[k + 1]) # NoRank /\ cur[k] \o cur[k + 1] \in Vocab
              THEN /\ cur' = MergedAt(k)
                   /\ rank' = NewRanks(k, MergedAt(k))
              ELSE /\ rank' = [rank EXCEPT ![k] = NoRank]
                   /\ UNCHANGED cur
         /\ UNCHANGED <<table, input, i, lim, next, ids, encoder>>

ChunkDone == /\ encoder = "merge" /\ Best = {}
             /\ IF Len(ids) + Len(cur) > table.cap
                THEN encoder' = "failed" /\ UNCHANGED <<i, ids>>
                ELSE ids' = ids \o cur /\ i' = next /\ encoder' = "inner"
             /\ UNCHANGED <<table, input, lim, cur, rank, next>>

LimitReached == /\ encoder = "inner" /\ i >= lim
                /\ encoder' = "outer"
                /\ UNCHANGED <<table, input, i, lim, cur, rank, next, ids>>

Encoded == /\ encoder = "outer" /\ i > Len(input)
           /\ encoder' = "done"
           /\ UNCHANGED <<table, input, i, lim, cur, rank, next, ids>>

\* tokenizer_decode: the bytes of the tokens, one after the other.
Decode(s) == FlattenSeq(s)

EncodeInit == /\ table \in Tables
              /\ input \in UNION {[1..n -> Characters] : n \in 1..MaxInput}
              /\ i = 1 /\ lim = 1 /\ next = 1
              /\ cur = <<>> /\ rank = <<>> /\ ids = <<>>
              /\ encoder = "outer"

EncodeNext == AddedToken \/ FindLimit \/ Pretoken \/ Merge \/ ChunkDone \/ LimitReached \/ Encoded

EncodeSpec == EncodeInit /\ [][EncodeNext]_encodeVars
EncodeFairSpec == EncodeSpec /\ WF_encodeVars(EncodeNext)

-----------------------------------------------------------------------------
(* Correctness *)

\* The split regex, alternative by alternative: the ends of all matches at p.
All(p, e, S) == \A q \in p..(e - 1) : input[q] \in S
Matches(n, p, l) ==
  CASE n = 1 -> ContractionEnds(p, l)
    [] n = 2 -> {e \in (p + 1)..l : \E o \in {0, 1} :
                   /\ o = 1 => input[p] \notin Newlines \cup Letters \cup Digits
                   /\ p + o < e /\ All(p + o, e, WordChars)}
    [] n = 3 -> {e \in {p + 1} : input[p] \in Digits}
    [] n = 4 -> {e \in (p + 1)..l : \E o \in {0, 1} : \E m \in (p + o + 1)..e :
                   /\ o = 1 => input[p] = Blank
                   /\ All(p + o, m, Punctuation) /\ All(m, e, Newlines)}
    [] n = 5 -> {e \in (p + 1)..l : \E m \in p..(e - 1) : All(p, m, Spaces) /\ All(m, e, Newlines)}
    [] n = 6 -> {e \in (p + 1)..l : All(p, e, Spaces) /\ (e < l => input[e] \in Spaces)}
    [] n = 7 -> {e \in (p + 1)..l : All(p, e, Spaces)}

RegexEnd(p, l) == LET n == Min({n \in 1..7 : Matches(n, p, l) # {}}) IN Max(Matches(n, p, l))

\* Byte-pair encoding: the leftmost pair of lowest rank, again and again.
Mergeable(s) == {k \in 1..(Len(s) - 1) : RankOf(s[k], s[k + 1]) # NoRank /\ s[k] \o s[k + 1] \in Vocab}
Pairs(s) ==
  LET rk(k) == RankOf(s[k], s[k + 1])
      lowest == {k \in Mergeable(s) : \A j \in Mergeable(s) : rk(k) <= rk(j)}
  IN IF lowest = {} THEN s
     ELSE LET k == Min(lowest) IN
          SubSeq(s, 1, k - 1) \o <<s[k] \o s[k + 1]>> \o SubSeq(s, k + 2, Len(s))
Bpe(s) ==
  LET rounds[n \in 0..Len(s)] == IF n = 0 THEN Symbols(s) ELSE Pairs(rounds[n - 1])
  IN rounds[Len(s)]

\* Where the next added token begins, from p on.
Limit(p) == Min({Len(input) + 1} \cup {q \in p..Len(input) : AddedAt(q) # {}})

\* What the text has at p: an added token, or a pre-token, and where it ends.
Piece(p) == IF AddedAt(p) # {} THEN <<CHOOSE a \in AddedAt(p) : TRUE>>
            ELSE Bpe(SubSeq(input, p, RegexEnd(p, Limit(p)) - 1))
PieceEnd(p) == IF AddedAt(p) # {} THEN p + Len(CHOOSE a \in AddedAt(p) : TRUE)
               ELSE RegexEnd(p, Limit(p))

Reference ==
  LET enc[p \in 1..(Len(input) + 1)] ==
        IF p > Len(input) THEN <<>> ELSE Piece(p) \o enc[PieceEnd(p)]
  IN enc[1]

\* tokenizer.c:2, "encodes with the classic lowest-rank pair merge after qwen3
\* pre-tokenization": the tokens are those of the split regex that the comments
\* of pretoken_end spell out and of byte-pair encoding each piece anew, they
\* spell the text, and encoding fails only when they are too many.
EncodesAsSpecified ==
  /\ encoder = "done" => ids = Reference /\ Decode(ids) = input
  /\ encoder = "failed" => Len(Reference) > table.cap

EncodeReturned == encoder \in {"done", "failed"}

\* tokenizer_encode returns: every round takes some of the text or merges.
EncodeReturns == <>EncodeReturned
=============================================================================
