----------------------------- MODULE TextsProof -----------------------------
(***************************************************************************)
(* Proofs about the readers of texts, for texts of any length.             *)
(*                                                                         *)
(* The JSON readers (Json).                                                *)
(* The scanner of the tokenizer counts the containers on the stack of the  *)
(* parser, and what is live is what they, and the value at hand, have      *)
(* allocated (JsonInv).                                                    *)
(*                                                                         *)
(* The parser accepts the language of JsonGrammar.  JsonValue is that      *)
(* language without the bound on the length, Der(c, A) what remains of A   *)
(* behind c, and Then puts languages one behind the other.  At each place  *)
(* of the parser Expected says what may follow, given what may follow the  *)
(* containers on the stack; ContinuesInv says that this agrees, on what    *)
(* begins with the character at hand, with what makes the text a value.    *)
(* The grammar and the strings are recursive functions; that they satisfy  *)
(* their equations is proved from RecursionExists.  ShowsInv says that the *)
(* containers, the keys they wait with and the value at hand show the      *)
(* text, so the tree is the value.                                         *)
(*                                                                         *)
(* The encoder (Tokenizer): a pre-token ends where the split regex ends    *)
(* it, the ranks beside the symbols are those of their pairs, the tokens   *)
(* so far begin the reference and spell the text up to here, for any       *)
(* vocabulary, merges, added tokens and text.                              *)
(***************************************************************************)
EXTENDS Json, Tokenizer, FiniteSets, FiniteSetTheorems, SequenceTheorems, WellFoundedInduction, TLAPS

LEMMA LeastExists ==
  ASSUME NEW S, S \subseteq Nat, S # {}
  PROVE  \E m \in S : \A x \in S : m <= x
<1> DEFINE R == OpToRel(<, Nat)
<1>1. IsWellFoundedOn(R, Nat)
  BY NatLessThanWellFounded
<1>2. \A x, y \in Nat : x < y => <<x, y>> \in R
  BY DEF OpToRel
<1> HIDE DEF R
<1>3. PICK m \in S : \A x \in S : ~ (<<x, m>> \in R)
  BY <1>1, WFMin
<1>4. \A x \in S : m \in Nat /\ x \in Nat /\ ~ (x < m)
  BY <1>2, <1>3
<1> QED
  BY <1>4

LEMMA Induction ==
  ASSUME NEW S, 0 \in S, \A n \in Nat : n \in S => n + 1 \in S
  PROVE  Nat \subseteq S
<1> SUFFICES ASSUME Nat \ S # {}
             PROVE  FALSE
  OBVIOUS
<1>1. PICK m \in Nat \ S : \A x \in Nat \ S : m <= x
  BY LeastExists
<1>2. m # 0 /\ m - 1 \in Nat /\ ~ (m <= m - 1) /\ (m - 1) + 1 = m
  OBVIOUS
<1> QED
  BY <1>1, <1>2

LEMMA MinIsLeast ==
  ASSUME NEW S, S \subseteq Nat, S # {}
  PROVE  Min(S) \in S /\ \A x \in S : Min(S) <= x
BY LeastExists DEF Min

LEMMA MaxIsGreatest ==
  ASSUME NEW n \in Nat, NEW S, S \subseteq 0..n, S # {}
  PROVE  Max(S) \in S /\ \A x \in S : x <= Max(S)
<1> DEFINE T == {k \in Nat : n - k \in S}
<1>1. PICK s \in S : TRUE
  OBVIOUS
<1>2. s \in 0..n /\ n - (n - s) = s /\ n - s \in Nat
  BY <1>1
<1>3. T \subseteq Nat /\ T # {}
  BY <1>1, <1>2
<1>4. PICK k \in T : \A y \in T : k <= y
  <2> HIDE DEF T
  <2> QED
    BY <1>3, LeastExists
<1>5. \A x \in S : x \in 0..n /\ n - x \in T
  <2> SUFFICES ASSUME NEW x \in S
               PROVE  x \in 0..n /\ n - x \in T
    OBVIOUS
  <2>1. x \in 0..n /\ n - x \in Nat /\ n - (n - x) = x
    OBVIOUS
  <2> QED
    BY <2>1
<1>6. n - k \in S /\ k \in Nat
  OBVIOUS
<1>7. \A x \in S : n - k >= x
  BY <1>4, <1>5, <1>6
<1>8. Max(S) \in S /\ \A x \in S : Max(S) >= x
  BY <1>6, <1>7 DEF Max
<1>9. \A x \in S : x \in 0..n
  BY <1>5
<1> QED
  BY <1>8, <1>9

-----------------------------------------------------------------------------
(* Json: what holds while a text is read *)

Char == Chars \cup Plain \cup Escapes
Trees == [print : Seq(Char), allocs : Nat]
Frames == [open : Open, print : Seq(Char), allocs : Nat, key : Trees]
Buffers == [n : Nat, cap : Nat, print : Seq(Char), key : BOOLEAN]

JsonTypes ==
  /\ text \in Seq(Char) /\ ahead \in Char \cup {Eof}
  /\ stack \in Seq(Frames) /\ value \in Trees /\ buf \in Buffers
  /\ live \in Int /\ errors \in Nat
  /\ at \in {"value", "first", "after", "key", "colon", "string", "escape", "number", "add",
             "unwind", "end", "accepted", "rejected"}

\* Where a caller waits for what is parsed, and where none does any more.
PlaceInv ==
  /\ at \in {"first", "after", "key", "colon", "add"} => stack # <<>>
  /\ InString /\ buf.key => stack # <<>>
  /\ at \in {"end", "accepted", "rejected"} => stack = <<>>
  /\ at = "value" /\ stack = <<>> => text = <<>>

\* js_skip_value keeps the depth, and no more of what it is inside of.
Skipped(mode, depth) == skip = [mode |-> mode, depth |-> depth, len |-> Len(text)]
Inside(outer, inner) == IF stack = <<>> THEN Skipped(outer, 0) ELSE Skipped(inner, Len(stack))
SkipInv ==
  /\ at = "value" => Inside("start", "in")
  /\ at \in {"first", "after", "key", "colon", "add"} => Skipped("in", Len(stack))
  /\ at = "string" => Inside("string", "inner")
  /\ at = "escape" => Inside("escape", "innerEscape")
  /\ at = "number" => Inside("scalar", "in")
  /\ at = "end" => /\ valueEnd = Len(text)
                   /\ Skipped("done", 0) \/ Skipped("scalar", 0)

-----------------------------------------------------------------------------
(* Json: the stack *)

LEMMA Pushed ==
  ASSUME NEW S, NEW s \in Seq(S), NEW f \in S
  PROVE  /\ Append(s, f) \in Seq(S) /\ Append(s, f) # <<>>
         /\ Len(Append(s, f)) = Len(s) + 1 /\ Append(s, f)[Len(s) + 1] = f
         /\ \A k \in 1..Len(s) : Append(s, f)[k] = s[k]
OBVIOUS

LEMMA Popped ==
  ASSUME NEW S, NEW s \in Seq(S), s # <<>>
  PROVE  /\ Front(s) \in Seq(S) /\ Len(Front(s)) = Len(s) - 1 /\ s[Len(s)] \in S
         /\ \A k \in 1..Len(Front(s)) : Front(s)[k] = s[k]
         /\ Len(s) \in 1..Len(s) /\ Len(s) \in Nat
         /\ s = Append(Front(s), s[Len(s)])
         /\ Front(s) = <<>> <=> Len(s) = 1
<1>1. Len(s) \in Nat /\ Len(s) > 0
  BY EmptySeq
<1>2. /\ Front(s) \in Seq(S) /\ Len(Front(s)) = Len(s) - 1
      /\ \A k \in 1..Len(Front(s)) : Front(s)[k] = s[k]
  <2>1. \A k \in 1..(Len(s) - 1) : s[k] \in S
    BY <1>1, ElementOfSeq
  <2>2. 1 \in Int /\ Len(s) - 1 \in Int
    BY <1>1
  <2>3. /\ SubSeq(s, 1, Len(s) - 1) \in Seq(S)
        /\ Len(SubSeq(s, 1, Len(s) - 1)) = IF 1 <= Len(s) - 1 THEN Len(s) - 1 - 1 + 1 ELSE 0
        /\ \A k \in 1..(Len(s) - 1 - 1 + 1) : SubSeq(s, 1, Len(s) - 1)[k] = s[1 + k - 1]
    BY <2>1, <2>2, SubSeqProperties
  <2>4. PICK l \in Nat : l = Len(s) /\ l > 0
    BY <1>1
  <2>5. \A k \in 1..(Len(s) - 1) : SubSeq(s, 1, Len(s) - 1)[k] = s[k]
    <3> TAKE k \in 1..(Len(s) - 1)
    <3>1. k \in 1..(Len(s) - 1 - 1 + 1) /\ 1 + k - 1 = k
      BY <1>1
    <3> QED
      BY <2>3, <3>1
  <2>6. (IF 1 <= l - 1 THEN l - 1 - 1 + 1 ELSE 0) = l - 1
    BY <2>4
  <2> QED
    BY <2>3, <2>4, <2>5, <2>6 DEF Front
<1>3. s[Len(s)] \in S
  BY <1>1
<1>4. s = Append(Front(s), s[Len(s)])
  BY <1>1, <1>2, <1>3, SeqEqual, AppendProperties
<1>5. Front(s) = <<>> <=> Len(s) = 1
  BY <1>1, <1>2, EmptySeq
<1> QED
  BY <1>1, <1>2, <1>3, <1>4, <1>5

LEMMA TopReplaced ==
  ASSUME NEW S, NEW s \in Seq(S), s # <<>>, NEW f \in S
  PROVE  LET t == [s EXCEPT ![Len(s)] = f]
         IN /\ t \in Seq(S) /\ Len(t) = Len(s) /\ t # <<>> /\ t[Len(s)] = f
            /\ Front(t) = Front(s)
            /\ \A k \in 1..(Len(s) - 1) : t[k] = s[k]
<1> DEFINE t == [s EXCEPT ![Len(s)] = f]
<1>1. Len(s) \in 1..Len(s) /\ Len(s) \in Nat
  BY EmptySeq
<1>2. /\ t \in Seq(S) /\ Len(t) = Len(s) /\ t[Len(s)] = f
      /\ \A k \in 1..Len(s) : k # Len(s) => t[k] = s[k]
  BY <1>1, ExceptSeq
<1>3. \A k \in 1..(Len(s) - 1) : t[k] = s[k]
  <2> HIDE DEF t
  <2> QED
    BY <1>1, <1>2
<1>4. t # <<>>
  <2> HIDE DEF t
  <2> QED
    BY <1>1, <1>2, EmptySeq
<1>5. /\ Front(s) \in Seq(S) /\ Len(Front(s)) = Len(s) - 1
      /\ \A k \in 1..Len(Front(s)) : Front(s)[k] = s[k]
  BY Popped
<1>6. /\ Front(t) \in Seq(S) /\ Len(Front(t)) = Len(s) - 1
      /\ \A k \in 1..Len(Front(t)) : Front(t)[k] = t[k]
  <2>1. t \in Seq(S) /\ t # <<>>
    BY <1>2, <1>4
  <2> HIDE DEF t
  <2> QED
    BY <2>1, Popped, <1>2
<1>7. Front(t) = Front(s)
  <2> HIDE DEF t
  <2> QED
    BY <1>1, <1>3, <1>5, <1>6, SeqEqual
<1> QED
  BY <1>2, <1>3, <1>4, <1>7

-----------------------------------------------------------------------------
(* Json: the scanner *)

LEMMA SkipModes ==
  ASSUME NEW s, NEW c, c # Eof
  PROVE  LET to(mode, depth) == [mode |-> mode, depth |-> depth, len |-> s.len + 1]
         IN /\ s.mode = "scalar" /\ c \notin Close \cup {",", Eof} => SkipStep(s, c) = to("scalar", 0)
            /\ s.mode = "start" /\ c \notin Close \cup {","} =>
                 SkipStep(s, c) = IF c \in Open THEN to("in", 1)
                                  ELSE IF c = "\"" THEN to("string", 0) ELSE to("scalar", 0)
            /\ s.mode = "string" => SkipStep(s, c) = to(InQuotes(c, "string", "escape", "done"), 0)
            /\ s.mode = "escape" => SkipStep(s, c) = to("string", 0)
            /\ s.mode = "inner" => SkipStep(s, c) = to(InQuotes(c, "inner", "innerEscape", "in"), s.depth)
            /\ s.mode = "innerEscape" => SkipStep(s, c) = to("inner", s.depth)
            /\ s.mode = "in" =>
                 SkipStep(s, c) = IF c = "\"" THEN to("inner", s.depth)
                                  ELSE IF c \in Open THEN to("in", s.depth + 1)
                                  ELSE IF c \in Close
                                  THEN to(IF s.depth = 1 THEN "done" ELSE "in", s.depth - 1)
                                  ELSE to("in", s.depth)
BY Zenon DEF SkipStep

\* What the two readers do with a character, by the mode of the scanner.
LEMMA SkipMoves ==
  ASSUME JsonTypes, Advance, ahead # Eof, NEW d \in Nat
  PROVE  /\ text' \in Seq(Char) /\ Len(text') = Len(text) + 1 /\ text' # <<>>
         /\ text' = Append(text, ahead) /\ ahead' \in Char \cup {Eof}
         /\ Skipped("start", 0) /\ ahead \in Open => Skipped("in", 1)'
         /\ Skipped("start", 0) /\ ahead = "\"" => Skipped("string", 0)'
         /\ Skipped("start", 0) /\ ahead = "1" => Skipped("scalar", 0)'
         /\ Skipped("scalar", 0) /\ ahead = "1" => Skipped("scalar", 0)'
         /\ Skipped("string", 0) /\ ahead \notin {"\"", "\\"} => Skipped("string", 0)'
         /\ Skipped("string", 0) /\ ahead = "\"" => Skipped("done", 0)'
         /\ Skipped("string", 0) /\ ahead = "\\" => Skipped("escape", 0)'
         /\ Skipped("escape", 0) => Skipped("string", 0)'
         /\ Skipped("inner", d) /\ ahead \notin {"\"", "\\"} => Skipped("inner", d)'
         /\ Skipped("inner", d) /\ ahead = "\"" => Skipped("in", d)'
         /\ Skipped("inner", d) /\ ahead = "\\" => Skipped("innerEscape", d)'
         /\ Skipped("innerEscape", d) => Skipped("inner", d)'
         /\ Skipped("in", d) /\ ahead = "\"" => Skipped("inner", d)'
         /\ Skipped("in", d) /\ ahead \in Open => Skipped("in", d + 1)'
         /\ Skipped("in", d) /\ ahead \in Close => IF d = 1 THEN Skipped("done", 0)'
                                                  ELSE Skipped("in", d - 1)'
         /\ Skipped("in", d) /\ ahead \in {",", ":", "1"} => Skipped("in", d)'
<1>1. ahead \in Char
  BY DEF JsonTypes
<1>2. /\ text' \in Seq(Char) /\ Len(text') = Len(text) + 1 /\ text' # <<>>
      /\ text' = Append(text, ahead)
  BY <1>1, AppendProperties DEF JsonTypes, Advance
<1>3. ahead' \in Char \cup {Eof}
  <2>1. ahead' \in Chars \cup Plain \cup {"\"", "\\"} \cup Escapes \cup {Eof}
    BY DEF Advance, Following
  <2> QED
    BY <2>1 DEF Char, Chars
<1>4. PICK n \in Nat : n = Len(text)
  BY LenProperties DEF JsonTypes
<1>5. skip' = SkipStep(skip, ahead)
  BY DEF Advance
<1>6. ASSUME Skipped("start", 0)
      PROVE  /\ ahead \in Open => Skipped("in", 1)'
             /\ ahead = "\"" => Skipped("string", 0)'
             /\ ahead = "1" => Skipped("scalar", 0)'
  <2>1. skip.mode = "start" /\ skip.len = n /\ skip.depth = 0
    BY <1>4, <1>6 DEF Skipped
  <2>2. ahead \notin Close \cup {","} =>
       SkipStep(skip, ahead) = IF ahead \in Open THEN [mode |-> "in", depth |-> 1, len |-> skip.len + 1]
                        ELSE IF ahead = "\"" THEN [mode |-> "string", depth |-> 0, len |-> skip.len + 1]
                        ELSE [mode |-> "scalar", depth |-> 0, len |-> skip.len + 1]
    BY <2>1, SkipModes
  <2> QED
    BY <1>2, <1>4, <1>5, <2>1, <2>2 DEF Skipped, InQuotes, Open, Close, Eof
<1>7. ASSUME Skipped("scalar", 0)
      PROVE  ahead = "1" => Skipped("scalar", 0)'
  <2>1. skip.mode = "scalar" /\ skip.len = n /\ skip.depth = 0
    BY <1>4, <1>7 DEF Skipped
  <2>2. ahead \notin Close \cup {",", Eof} => SkipStep(skip, ahead) = [mode |-> "scalar", depth |-> 0, len |-> skip.len + 1]
    BY <2>1, SkipModes
  <2> QED
    BY <1>2, <1>4, <1>5, <2>1, <2>2 DEF Skipped, InQuotes, Open, Close, Eof
<1>8. ASSUME Skipped("string", 0)
      PROVE  /\ ahead \notin {"\"", "\\"} => Skipped("string", 0)'
             /\ ahead = "\"" => Skipped("done", 0)'
             /\ ahead = "\\" => Skipped("escape", 0)'
  <2>1. skip.mode = "string" /\ skip.len = n /\ skip.depth = 0
    BY <1>4, <1>8 DEF Skipped
  <2>2. SkipStep(skip, ahead) = [mode |-> InQuotes(ahead, "string", "escape", "done"), depth |-> 0, len |-> skip.len + 1]
    BY <2>1, SkipModes
  <2> QED
    BY <1>2, <1>4, <1>5, <2>1, <2>2 DEF Skipped, InQuotes, Open, Close, Eof
<1>9. ASSUME Skipped("escape", 0)
      PROVE  Skipped("string", 0)'
  <2>1. skip.mode = "escape" /\ skip.len = n /\ skip.depth = 0
    BY <1>4, <1>9 DEF Skipped
  <2>2. SkipStep(skip, ahead) = [mode |-> "string", depth |-> 0, len |-> skip.len + 1]
    BY <2>1, SkipModes
  <2> QED
    BY <1>2, <1>4, <1>5, <2>1, <2>2 DEF Skipped, InQuotes, Open, Close, Eof
<1>10. ASSUME Skipped("inner", d)
      PROVE  /\ ahead \notin {"\"", "\\"} => Skipped("inner", d)'
             /\ ahead = "\"" => Skipped("in", d)'
             /\ ahead = "\\" => Skipped("innerEscape", d)'
  <2>1. skip.mode = "inner" /\ skip.len = n /\ skip.depth = d
    BY <1>4, <1>10 DEF Skipped
  <2>2. SkipStep(skip, ahead) = [mode |-> InQuotes(ahead, "inner", "innerEscape", "in"), depth |-> skip.depth, len |-> skip.len + 1]
    BY <2>1, SkipModes
  <2> QED
    BY <1>2, <1>4, <1>5, <2>1, <2>2 DEF Skipped, InQuotes, Open, Close, Eof
<1>11. ASSUME Skipped("innerEscape", d)
      PROVE  Skipped("inner", d)'
  <2>1. skip.mode = "innerEscape" /\ skip.len = n /\ skip.depth = d
    BY <1>4, <1>11 DEF Skipped
  <2>2. SkipStep(skip, ahead) = [mode |-> "inner", depth |-> skip.depth, len |-> skip.len + 1]
    BY <2>1, SkipModes
  <2> QED
    BY <1>2, <1>4, <1>5, <2>1, <2>2 DEF Skipped, InQuotes, Open, Close, Eof
<1>12. ASSUME Skipped("in", d)
      PROVE  /\ ahead = "\"" => Skipped("inner", d)'
             /\ ahead \in Open => Skipped("in", d + 1)'
             /\ ahead \in Close => IF d = 1 THEN Skipped("done", 0)' ELSE Skipped("in", d - 1)'
             /\ ahead \in {",", ":", "1"} => Skipped("in", d)'
  <2>1. skip.mode = "in" /\ skip.len = n /\ skip.depth = d
    BY <1>4, <1>12 DEF Skipped
  <2>2. SkipStep(skip, ahead) = IF ahead = "\"" THEN [mode |-> "inner", depth |-> skip.depth, len |-> skip.len + 1]
                      ELSE IF ahead \in Open THEN [mode |-> "in", depth |-> skip.depth + 1, len |-> skip.len + 1]
                      ELSE IF ahead \in Close
                              THEN [mode |-> IF skip.depth = 1 THEN "done" ELSE "in",
                                    depth |-> skip.depth - 1, len |-> skip.len + 1]
                      ELSE [mode |-> "in", depth |-> skip.depth, len |-> skip.len + 1]
    BY <2>1, SkipModes
  <2>3. skip' = SkipStep(skip, ahead) /\ Len(text') = skip.len + 1
    BY <1>2, <1>4, <1>5, <2>1
  <2>4. CASE ahead \in Close
    <3>1. skip' = [mode |-> IF d = 1 THEN "done" ELSE "in", depth |-> d - 1, len |-> Len(text')]
      BY <2>1, <2>2, <2>3, <2>4 DEF Open, Close
    <3>2. ahead \notin Open \cup {"\"", ",", ":", "1"}
      BY <2>4 DEF Open, Close
    <3>3. d = 1 => Skipped("done", 0)'
      BY <3>1 DEF Skipped
    <3>4. d # 1 => Skipped("in", d - 1)'
      BY <3>1 DEF Skipped
    <3> QED
      BY <2>4, <3>2, <3>3, <3>4
  <2>5. CASE ahead \notin Close
    BY <2>1, <2>2, <2>3, <2>5 DEF Skipped, Open
  <2> QED
    BY <2>4, <2>5
<1>13. /\ Skipped("start", 0) /\ ahead \in Open => Skipped("in", 1)'
       /\ Skipped("start", 0) /\ ahead = "\"" => Skipped("string", 0)'
       /\ Skipped("start", 0) /\ ahead = "1" => Skipped("scalar", 0)'
       /\ Skipped("scalar", 0) /\ ahead = "1" => Skipped("scalar", 0)'
  BY <1>6, <1>7
<1>14. /\ Skipped("string", 0) /\ ahead \notin {"\"", "\\"} => Skipped("string", 0)'
       /\ Skipped("string", 0) /\ ahead = "\"" => Skipped("done", 0)'
       /\ Skipped("string", 0) /\ ahead = "\\" => Skipped("escape", 0)'
       /\ Skipped("escape", 0) => Skipped("string", 0)'
  BY <1>8, <1>9
<1>15. /\ Skipped("inner", d) /\ ahead \notin {"\"", "\\"} => Skipped("inner", d)'
       /\ Skipped("inner", d) /\ ahead = "\"" => Skipped("in", d)'
       /\ Skipped("inner", d) /\ ahead = "\\" => Skipped("innerEscape", d)'
       /\ Skipped("innerEscape", d) => Skipped("inner", d)'
  BY <1>10, <1>11
<1> HIDE DEF Skipped
<1> QED
  BY ONLY <1>2, <1>3, <1>12, <1>13, <1>14, <1>15

-----------------------------------------------------------------------------
(* Json: memory *)

Cost(f) == f.allocs + f.key.allocs
Units(s) == UNION {{k} \X (1..Cost(s[k])) : k \in 1..Len(s)}

\* What the containers on the stack have allocated.
Owed(s) == Cardinality(Units(s))

\* What the value at hand, or the string being read, has.
Held == IF at \in {"number", "add", "end", "accepted"} THEN value.allocs
        ELSE IF InString THEN 1 ELSE 0

MemoryInv ==
  /\ live = Owed(stack) + Held
  /\ \A k \in 1..Len(stack) : stack[k].key.allocs \in {0, 2}
  /\ at \in {"first", "after", "key"} \/ (InString /\ buf.key) => Top.key.allocs = 0
  /\ errors = IF at \in {"unwind", "rejected"} THEN 1 ELSE 0
  /\ InString => buf.n < buf.cap /\ buf.cap >= 4

JsonInv == JsonTypes /\ PlaceInv /\ SkipInv /\ MemoryInv

LEMMA CostType == ASSUME NEW f \in Frames PROVE Cost(f) \in Nat
BY DEF Cost, Frames, Trees

LEMMA UnitsAreFinite ==
  ASSUME NEW s \in Seq(Frames)
  PROVE  IsFiniteSet(Units(s)) /\ Owed(s) \in Nat
<1> DEFINE U(k) == {k} \X (1..Cost(s[k]))
           T == {U(k) : k \in 1..Len(s)}
           f == [k \in 1..Len(s) |-> U(k)]
<1>1. Len(s) \in Nat
  BY LenProperties
<1>2. \A k \in 1..Len(s) : Cost(s[k]) \in Nat
  BY <1>1, ElementOfSeq, CostType
<1>3. \A k \in 1..Len(s) : IsFiniteSet(U(k))
  <2> TAKE k \in 1..Len(s)
  <2>1. IsFiniteSet({k})
    BY FS_Singleton
  <2>2. 1 \in Int /\ Cost(s[k]) \in Int
    BY <1>2
  <2>3. IsFiniteSet(1..Cost(s[k]))
    BY <2>2, FS_Interval
  <2> QED
    BY <2>1, <2>3, FS_Product
<1>4. IsFiniteSet(T)
  <2>1. f \in Surjection(1..Len(s), T)
    BY DEF Surjection
  <2>2. 1 \in Int /\ Len(s) \in Int
    BY <1>1
  <2>3. IsFiniteSet(1..Len(s))
    BY <2>2, FS_Interval
  <2> HIDE DEF f, T
  <2> QED
    BY <2>1, <2>3, FS_Surjection
<1>5. \A t \in T : IsFiniteSet(t)
  BY <1>3
<1>6. IsFiniteSet(UNION T)
  <2> HIDE DEF T
  <2> QED
    BY <1>4, <1>5, FS_UNION
<1>7. Units(s) = UNION T
  BY DEF Units
<1> QED
  BY <1>6, <1>7, FS_CardinalityType DEF Owed

LEMMA OwedOfNone == Owed(<<>>) = 0
<1>1. Len(<<>>) = 0
  OBVIOUS
<1>2. Units(<<>>) = {}
  BY <1>1 DEF Units
<1> QED
  BY <1>2, FS_EmptySet DEF Owed

\* A container more owes what it has allocated.
LEMMA OwedPushed ==
  ASSUME NEW s \in Seq(Frames), NEW f \in Frames
  PROVE  Owed(Append(s, f)) = Owed(s) + Cost(f)
<1> DEFINE n == Len(s)
           new == {n + 1} \X (1..Cost(f))
<1>1. n \in Nat /\ Cost(f) \in Nat
  BY LenProperties DEF Cost, Frames, Trees
<1>2. /\ Append(s, f) \in Seq(Frames) /\ Len(Append(s, f)) = n + 1
      /\ Append(s, f)[n + 1] = f /\ \A k \in 1..n : Append(s, f)[k] = s[k]
  BY AppendProperties
<1>3. Units(Append(s, f)) = Units(s) \cup new
  <2>1. \A u : u \in Units(Append(s, f)) <=>
                 \E k \in 1..(n + 1) : u \in {k} \X (1..Cost(Append(s, f)[k]))
    BY <1>2 DEF Units
  <2>2. \A u : u \in Units(s) <=> \E k \in 1..n : u \in {k} \X (1..Cost(s[k]))
    BY DEF Units
  <2>3. \A k \in Nat : k \in 1..(n + 1) <=> k \in 1..n \/ k = n + 1
    BY <1>1
  <2> HIDE DEF n
  <2>4. ASSUME NEW u, u \in Units(Append(s, f)) PROVE u \in Units(s) \cup new
    <3>1. PICK k \in 1..(n + 1) : u \in {k} \X (1..Cost(Append(s, f)[k]))
      BY <2>1, <2>4
    <3>2. CASE k = n + 1
      BY <3>1, <3>2, <1>2
    <3>3. CASE k \in 1..n
      BY <3>1, <3>3, <1>2, <2>2
    <3> QED
      BY <1>1, <3>2, <3>3
  <2>5. ASSUME NEW u, u \in Units(s) PROVE u \in Units(Append(s, f))
    <3>1. PICK k \in 1..n : u \in {k} \X (1..Cost(s[k]))
      BY <2>2, <2>5
    <3>2. k \in 1..(n + 1) /\ Append(s, f)[k] = s[k]
      BY <1>1, <1>2
    <3> QED
      BY <3>1, <3>2, <2>1
  <2>6. ASSUME NEW u, u \in new PROVE u \in Units(Append(s, f))
    <3>1. n + 1 \in 1..(n + 1) /\ u \in {n + 1} \X (1..Cost(Append(s, f)[n + 1]))
      BY <1>1, <1>2, <2>6
    <3> QED
      BY <3>1, <2>1
  <2> QED
    BY <2>4, <2>5, <2>6
<1>4. Units(s) \cap new = {}
  <2>1. ASSUME NEW u, u \in Units(s), u \in new PROVE FALSE
    <3>1. PICK k \in 1..n : u \in {k} \X (1..Cost(s[k]))
      BY <2>1 DEF Units
    <3>2. u[1] = k /\ u[1] = n + 1
      BY <3>1, <2>1
    <3> QED
      BY <1>1, <3>2
  <2> QED
    BY <2>1
<1>5. IsFiniteSet(new) /\ Cardinality(new) = Cost(f)
  <2>1. IsFiniteSet({n + 1}) /\ Cardinality({n + 1}) = 1
    BY FS_Singleton
  <2>2. 1 \in Int /\ Cost(f) \in Int
    BY <1>1
  <2>3. IsFiniteSet(1..Cost(f)) /\ Cardinality(1..Cost(f)) = Cost(f)
    BY <1>1, <2>2, FS_Interval
  <2>4. Cardinality({n + 1} \X (1..Cost(f))) = 1 * Cost(f) /\ IsFiniteSet({n + 1} \X (1..Cost(f)))
    <3>1. PICK P, Q : P = {n + 1} /\ Q = 1..Cost(f)
      OBVIOUS
    <3>2. IsFiniteSet(P) /\ IsFiniteSet(Q) /\ Cardinality(P) = 1 /\ Cardinality(Q) = Cost(f)
      BY <2>1, <2>3, <3>1
    <3>3. IsFiniteSet(P \X Q) /\ Cardinality(P \X Q) = Cardinality(P) * Cardinality(Q)
      BY <3>2, FS_Product
    <3> QED
      BY <3>1, <3>2, <3>3
  <2> QED
    BY <1>1, <2>4
<1>6. IsFiniteSet(Units(s)) /\ Cardinality(Units(s)) \in Nat
  BY UnitsAreFinite DEF Owed
<1>7. Cardinality(Units(s) \cup new) = Cardinality(Units(s)) + Cardinality(new) - Cardinality({})
  BY <1>4, <1>5, <1>6, FS_Union
<1> HIDE DEF new
<1> QED
  BY <1>1, <1>3, <1>5, <1>6, <1>7, FS_EmptySet DEF Owed

\* Without its innermost container, and with another in its place.
LEMMA OwedPopped ==
  ASSUME NEW s \in Seq(Frames), s # <<>>
  PROVE  Owed(s) = Owed(Front(s)) + Cost(s[Len(s)])
<1>1. Front(s) \in Seq(Frames) /\ s[Len(s)] \in Frames /\ s = Append(Front(s), s[Len(s)])
  BY Popped
<1>2. Owed(Append(Front(s), s[Len(s)])) = Owed(Front(s)) + Cost(s[Len(s)])
  BY <1>1, OwedPushed
<1> QED
  BY <1>1, <1>2

LEMMA OwedReplaced ==
  ASSUME NEW s \in Seq(Frames), s # <<>>, NEW f \in Frames
  PROVE  Owed([s EXCEPT ![Len(s)] = f]) = Owed(s) - Cost(s[Len(s)]) + Cost(f)
<1>1. PICK t : t = [s EXCEPT ![Len(s)] = f]
  OBVIOUS
<1>2. t \in Seq(Frames) /\ t # <<>> /\ Len(t) = Len(s) /\ t[Len(s)] = f /\ Front(t) = Front(s)
  <2>1. LET u == [s EXCEPT ![Len(s)] = f]
        IN u \in Seq(Frames) /\ u # <<>> /\ Len(u) = Len(s) /\ u[Len(s)] = f /\ Front(u) = Front(s)
    BY TopReplaced
  <2> QED
    BY <1>1, <2>1
<1>3. Owed(t) = Owed(Front(s)) + Cost(f)
  BY <1>2, OwedPopped
<1>4. Owed(s) = Owed(Front(s)) + Cost(s[Len(s)])
  BY OwedPopped
<1>5. Front(s) \in Seq(Frames) /\ s[Len(s)] \in Frames
  BY Popped
<1>6. Owed(Front(s)) \in Nat /\ Cost(s[Len(s)]) \in Nat /\ Cost(f) \in Nat
  BY <1>5, UnitsAreFinite, CostType
<1> QED
  BY <1>1, <1>3, <1>4, <1>6

-----------------------------------------------------------------------------
(* Json: the steps of json_parse *)

LEMMA Depth ==
  ASSUME JsonTypes
  PROVE  /\ Len(stack) \in Nat /\ (stack = <<>> <=> Len(stack) = 0)
         /\ stack # <<>> => Top \in Frames /\ Len(stack) \in 1..Len(stack)
<1>1. stack \in Seq(Frames)
  BY DEF JsonTypes
<1>2. Len(stack) \in Nat /\ (stack = <<>> <=> Len(stack) = 0)
  BY <1>1, EmptySeq
<1>3. stack # <<>> => Len(stack) \in 1..Len(stack)
  BY <1>2
<1> QED
  BY <1>1, <1>2, <1>3, ElementOfSeq DEF Top

LEMMA InitJsonInv == ASSUME JsonParameters, JsonInit PROVE JsonInv
<1>1. JsonTypes
  <2>1. <<>> \in Seq(Char) /\ <<>> \in Seq(Frames)
    BY EmptySeq
  <2>2. InitBuf \in 4..16
    BY Zenon DEF JsonParameters
  <2>3. ahead \in Char \cup {Eof}
    BY DEF JsonInit, Char
  <2> QED
    BY <2>1, <2>2, <2>3 DEF JsonInit, JsonTypes, Nothing, Trees, Buffers
<1>2. Len(text) = 0 /\ Len(stack) = 0 /\ stack = <<>>
  BY DEF JsonInit
<1>3. PlaceInv /\ SkipInv
  BY <1>2 DEF JsonInit, PlaceInv, SkipInv, Inside, Skipped, InString
<1>4. MemoryInv
  BY <1>2, OwedOfNone DEF JsonInit, MemoryInv, Held, InString
<1> QED
  BY <1>1, <1>3, <1>4 DEF JsonInv

LEMMA OpenContainerKeeps == ASSUME JsonInv, OpenContainer PROVE JsonInv'
<1> DEFINE f == [open |-> ahead, print |-> <<ahead>>, allocs |-> 1, key |-> Nothing]
<1>1. PICK d \in Nat : d = Len(stack) /\ (stack = <<>> <=> d = 0)
  BY Depth DEF JsonInv
<1>2. /\ stack' = Append(stack, f) /\ live' = live + 1 /\ at = "value" /\ at' = "first"
      /\ Advance /\ ahead \in Open /\ ahead # Eof
      /\ UNCHANGED <<value, buf, errors, valueEnd>>
  BY DEF OpenContainer, Open, Eof
<1>3. f \in Frames /\ Cost(f) = 1 /\ f.key.allocs = 0
  <2>1. Nothing \in Trees /\ Nothing.allocs = 0
    BY EmptySeq DEF Nothing, Trees
  <2>2. ahead \in Char
    BY <1>2 DEF JsonInv, JsonTypes
  <2> QED
    BY <1>2, <2>1, <2>2 DEF Frames, Cost, Trees
<1>4. /\ stack' \in Seq(Frames) /\ stack' # <<>> /\ Len(stack') = d + 1 /\ Top' = f
      /\ \A k \in 1..d : stack'[k] = stack[k]
  <2> HIDE DEF f
  <2> QED
    BY <1>1, <1>2, <1>3, AppendProperties DEF JsonInv, JsonTypes, Top
<1> HIDE DEF f
<1>5. JsonTypes'
  <2>1. JsonTypes
    BY DEF JsonInv
  <2>2. text' \in Seq(Char) /\ ahead' \in Char \cup {Eof}
    BY <1>1, <1>2, <2>1, SkipMoves
  <2> QED
    BY <1>2, <1>4, <2>1, <2>2 DEF JsonTypes
<1>6. PlaceInv'
  BY <1>2, <1>4 DEF PlaceInv, InString
<1>7. SkipInv'
  <2>1. IF d = 0 THEN Skipped("start", 0) ELSE Skipped("in", d)
    BY <1>1, <1>2 DEF JsonInv, SkipInv, Inside
  <2>2. Skipped("in", d + 1)'
    <3>1. JsonTypes
      BY DEF JsonInv
    <3>2. /\ Skipped("start", 0) /\ ahead \in Open => Skipped("in", 1)'
          /\ Skipped("in", d) /\ ahead \in Open => Skipped("in", d + 1)'
      BY <1>1, <1>2, <3>1, SkipMoves
    <3>3. d = 0 => Skipped("in", 1)'
      BY <1>2, <2>1, <3>2
    <3>4. d = 0 => d + 1 = 1
      OBVIOUS
    <3> QED
      BY <1>2, <2>1, <3>2, <3>3, <3>4
  <2>3. Skipped("in", Len(stack))'
    BY <1>4, <2>2 DEF Skipped
  <2> QED
    BY <1>2, <2>3 DEF SkipInv
<1>8. MemoryInv'
  <2>1. Owed(stack') = Owed(stack) + 1 /\ Owed(stack) \in Nat
    BY <1>2, <1>3, OwedPushed, UnitsAreFinite DEF JsonInv, JsonTypes
  <2>2. Held = 0 /\ Held' = 0
    BY <1>2 DEF Held, InString
  <2>3. \A k \in 1..(d + 1) : stack'[k].key.allocs \in {0, 2}
    <3> TAKE k \in 1..(d + 1)
    <3>1. k \in 1..d \/ k = d + 1
      OBVIOUS
    <3>2. stack'[d + 1] = f
      BY <1>4 DEF Top
    <3> QED
      BY <1>1, <1>3, <1>4, <3>1, <3>2 DEF JsonInv, MemoryInv
  <2> QED
    BY <1>2, <1>3, <1>4, <2>1, <2>2, <2>3 DEF JsonInv, MemoryInv, InString
<1> QED
  BY <1>5, <1>6, <1>7, <1>8 DEF JsonInv

\* A step that takes no character leaves the scanner where it is.
LEMMA StayMoves ==
  ASSUME JsonTypes, Stay
  PROVE  /\ text' \in Seq(Char) /\ ahead' \in Char \cup {Eof} /\ text' = text
         /\ skip' = skip /\ Len(text') = Len(text)
BY DEF Stay, JsonTypes

LEMMA NotEmptyKeeps == ASSUME JsonInv, NotEmpty PROVE JsonInv'
<1>1. /\ at = "first" /\ at' \in {"key", "value"} /\ Stay
      /\ UNCHANGED <<stack, value, buf, live, errors, valueEnd>>
  BY DEF NotEmpty, Wanted
<1>2. JsonTypes /\ stack # <<>> /\ Top' = Top
  BY <1>1 DEF JsonInv, PlaceInv, Top
<1>3. JsonTypes'
  BY <1>1, <1>2 DEF JsonTypes, Stay
<1>4. PlaceInv'
  BY <1>1, <1>2 DEF PlaceInv, InString
<1>5. SkipInv'
  <2>1. Skipped("in", Len(stack))
    BY <1>1 DEF JsonInv, SkipInv
  <2>2. Skipped("in", Len(stack))'
    BY <1>1, <2>1 DEF Skipped, Stay
  <2> QED
    BY <1>1, <1>2, <2>2 DEF SkipInv, Inside
<1>6. MemoryInv'
  BY <1>1, <1>2 DEF JsonInv, MemoryInv, Held, InString
<1> QED
  BY <1>3, <1>4, <1>5, <1>6 DEF JsonInv

\* A rejection in a place that holds nothing, or in a string that is freed.
LEMMA FailKeeps ==
  ASSUME JsonInv, Fail, at \in {"value", "key", "colon", "after", "string", "escape"},
         live' = live - Held
  PROVE  JsonInv'
<1>1. /\ at' = "unwind" /\ errors' = errors + 1 /\ Stay
      /\ UNCHANGED <<stack, value, buf, valueEnd>>
  BY DEF Fail
<1>2. JsonTypes /\ Held \in Int /\ errors = 0 /\ live \in Int /\ live = Owed(stack) + Held
  BY DEF JsonInv, JsonTypes, MemoryInv, Held, InString
<1>3. JsonTypes'
  BY <1>1, <1>2 DEF JsonTypes, Stay
<1>4. PlaceInv' /\ SkipInv'
  BY <1>1 DEF PlaceInv, SkipInv, InString
<1>5. MemoryInv'
  <2>1. Owed(stack) \in Nat
    BY <1>2, UnitsAreFinite DEF JsonTypes
  <2>2. Held' = 0
    BY <1>1 DEF Held, InString
  <2>3. live' = Owed(stack') + Held'
    BY <1>1, <1>2, <2>1, <2>2
  <2>4. \A k \in 1..Len(stack') : stack'[k].key.allocs \in {0, 2}
    BY <1>1 DEF JsonInv, MemoryInv
  <2> QED
    BY <1>1, <1>2, <2>3, <2>4 DEF MemoryInv, InString
<1> QED
  BY <1>3, <1>4, <1>5 DEF JsonInv

LEMMA NeitherKeeps == ASSUME JsonInv, NeitherCommaNorCloser PROVE JsonInv'
<1>1. at = "after" /\ Fail /\ live' = live /\ Held = 0 /\ live \in Int
  BY DEF NeitherCommaNorCloser, Held, InString, JsonInv, JsonTypes
<1> QED
  BY <1>1, FailKeeps

LEMMA UnexpectedKeeps == ASSUME JsonInv, Unexpected PROVE JsonInv'
<1>1. at \in {"value", "key", "colon"} /\ Fail /\ live' = live /\ live \in Int
  BY DEF Unexpected, JsonInv, JsonTypes
<1>2. Held = 0
  BY <1>1 DEF Held, InString
<1>3. live' = live - Held
  BY <1>1, <1>2
<1> QED
  BY <1>1, <1>3, FailKeeps

LEMMA StringFailsKeeps == ASSUME JsonInv, StringFails PROVE JsonInv'
<1>1. at \in {"string", "escape"} /\ Fail /\ live' = live - 1
  BY DEF StringFails
<1>2. Held = 1
  BY <1>1 DEF Held, InString
<1> QED
  BY <1>1, <1>2, FailKeeps

LEMMA UnwindKeeps == ASSUME JsonInv, Unwind PROVE JsonInv'
<1>1. /\ at = "unwind" /\ at' = "unwind" /\ stack # <<>> /\ stack' = Front(stack) /\ Stay
      /\ live' = live - Top.allocs - Top.key.allocs
      /\ UNCHANGED <<value, buf, errors, valueEnd>>
  BY DEF Unwind
<1>2. JsonTypes /\ stack \in Seq(Frames) /\ live \in Int
  BY DEF JsonInv, JsonTypes
<1>3. /\ stack' \in Seq(Frames) /\ Len(stack') = Len(stack) - 1 /\ Top \in Frames
      /\ \A k \in 1..Len(stack') : stack'[k] = stack[k]
  BY <1>1, <1>2, Popped DEF Top
<1>4. JsonTypes'
  BY <1>1, <1>2, <1>3 DEF JsonTypes, Frames, Trees, Stay
<1>5. PlaceInv' /\ SkipInv'
  BY <1>1 DEF PlaceInv, SkipInv, InString
<1>6. MemoryInv'
  <2>1. Owed(stack) = Owed(stack') + Cost(Top) /\ Owed(stack') \in Nat /\ Owed(stack) \in Nat
    BY <1>1, <1>2, <1>3, OwedPopped, UnitsAreFinite DEF Top
  <2>2. Cost(Top) = Top.allocs + Top.key.allocs /\ Top.allocs \in Nat /\ Top.key.allocs \in Nat
    BY <1>3 DEF Cost, Frames, Trees
  <2>3. Held = 0 /\ Held' = 0
    BY <1>1 DEF Held, InString
  <2>4. live' = Owed(stack') + Held'
    BY <1>1, <2>1, <2>2, <2>3 DEF JsonInv, MemoryInv
  <2>5. \A k \in 1..Len(stack') : stack'[k].key.allocs \in {0, 2}
    <3>1. Len(stack) \in Nat
      BY <1>2
    <3> QED
      BY <1>3, <3>1 DEF JsonInv, MemoryInv
  <2> QED
    BY <1>1, <2>4, <2>5 DEF JsonInv, MemoryInv, InString
<1> QED
  BY <1>4, <1>5, <1>6 DEF JsonInv

LEMMA RejectedKeeps == ASSUME JsonInv, Rejected PROVE JsonInv'
<1>1. /\ at = "unwind" /\ at' = "rejected" /\ stack = <<>> /\ Stay
      /\ UNCHANGED <<stack, value, buf, live, errors, valueEnd>>
  BY DEF Rejected
<1> QED
  BY <1>1 DEF JsonInv, JsonTypes, PlaceInv, SkipInv, MemoryInv, Held, InString, Stay

LEMMA FinishKeeps == ASSUME JsonInv, Finish PROVE JsonInv'
<1>1. /\ at = "end" /\ at' \in {"accepted", "rejected"} /\ Stay
      /\ UNCHANGED <<stack, value, buf, valueEnd>>
      /\ at' = "accepted" => UNCHANGED <<live, errors>>
      /\ at' = "rejected" => live' = live - value.allocs /\ errors' = errors + 1
  BY DEF Finish
<1>2. stack = <<>> /\ Owed(stack) = 0 /\ value.allocs \in Nat /\ Held = value.allocs
  BY <1>1, OwedOfNone DEF JsonInv, PlaceInv, JsonTypes, Trees, Held
<1>3. live \in Int /\ live = value.allocs /\ errors = 0
  BY <1>1, <1>2 DEF JsonInv, JsonTypes, MemoryInv
<1>4. JsonTypes'
  BY <1>1, <1>2, <1>3 DEF JsonInv, JsonTypes, Stay
<1>5. PlaceInv' /\ SkipInv'
  BY <1>1, <1>2 DEF PlaceInv, SkipInv, InString
<1>6. MemoryInv'
  <2>1. live' = Owed(stack') + Held'
    BY <1>1, <1>2, <1>3 DEF Held, InString
  <2>2. \A k \in 1..Len(stack') : stack'[k].key.allocs \in {0, 2}
    BY <1>1 DEF JsonInv, MemoryInv
  <2> QED
    BY <1>1, <1>3, <2>1, <2>2 DEF MemoryInv, InString
<1> QED
  BY <1>4, <1>5, <1>6 DEF JsonInv

LEMMA CloseContainerKeeps == ASSUME JsonInv, CloseContainer PROVE JsonInv'
<1>1. PICK d \in Nat : d = Len(stack) /\ (stack = <<>> <=> d = 0)
  BY Depth DEF JsonInv
<1>2. /\ at \in {"first", "after"} /\ ahead = Closer(Top.open) /\ stack' = Front(stack) /\ Advance
      /\ value' = [print |-> Append(Top.print, ahead), allocs |-> Top.allocs]
      /\ at' = IF Front(stack) = <<>> THEN "end" ELSE "add"
      /\ valueEnd' = IF Front(stack) = <<>> THEN Len(text) + 1 ELSE valueEnd
      /\ UNCHANGED <<buf, live, errors>>
  BY DEF CloseContainer, Return
<1>3. JsonTypes /\ stack \in Seq(Frames) /\ stack # <<>> /\ Top.key.allocs = 0
  BY <1>2 DEF JsonInv, JsonTypes, PlaceInv, MemoryInv
<1>4. /\ stack' \in Seq(Frames) /\ Len(stack') = d - 1 /\ Top \in Frames
      /\ \A k \in 1..Len(stack') : stack'[k] = stack[k]
      /\ stack' = <<>> <=> d = 1
  BY <1>1, <1>2, <1>3, Popped DEF Top
<1>5. ahead \in Close /\ ahead # Eof /\ ahead \in Char
  BY <1>2, <1>3 DEF Closer, Close, Eof, JsonTypes
<1>6. /\ text' \in Seq(Char) /\ Len(text') = Len(text) + 1 /\ ahead' \in Char \cup {Eof}
      /\ Skipped("in", d) /\ ahead \in Close => IF d = 1 THEN Skipped("done", 0)'
                                               ELSE Skipped("in", d - 1)'
  BY <1>1, <1>2, <1>3, <1>5, SkipMoves
<1>7. JsonTypes'
  <2>1. value' \in Trees
    <3>1. Append(Top.print, ahead) \in Seq(Char) /\ Top.allocs \in Nat
      BY <1>4, <1>5, AppendProperties DEF Frames
    <3> QED
      BY <1>2, <3>1 DEF Trees
  <2>2. at' \in {"end", "add"}
    BY <1>2
  <2> QED
    BY <1>2, <1>3, <1>4, <1>6, <2>1, <2>2 DEF JsonTypes
<1>8. PlaceInv'
  BY <1>1, <1>2, <1>4 DEF PlaceInv, InString
<1>9. SkipInv'
  <2>1. Skipped("in", d)
    BY <1>1, <1>2 DEF JsonInv, SkipInv
  <2>2. CASE d = 1
    <3>1. at' = "end" /\ valueEnd' = Len(text') /\ Skipped("done", 0)'
      BY <1>2, <1>4, <1>5, <1>6, <2>1, <2>2
    <3> QED
      BY <3>1 DEF SkipInv
  <2>3. CASE d # 1
    <3>1. at' = "add" /\ Skipped("in", d - 1)'
      BY <1>2, <1>4, <1>5, <1>6, <2>1, <2>3
    <3>2. Skipped("in", Len(stack))'
      BY <1>4, <3>1 DEF Skipped
    <3> QED
      BY <3>1, <3>2 DEF SkipInv
  <2> QED
    BY <2>2, <2>3
<1>10. MemoryInv'
  <2>1. Owed(stack) = Owed(stack') + Cost(Top) /\ Owed(stack') \in Nat
    BY <1>2, <1>3, <1>4, OwedPopped, UnitsAreFinite DEF Top
  <2>2. Cost(Top) = Top.allocs /\ Top.allocs \in Nat
    BY <1>3, <1>4 DEF Cost, Frames, Trees
  <2>3. Held = 0 /\ Held' = Top.allocs
    BY <1>2 DEF Held, InString
  <2>4. live' = Owed(stack') + Held'
    BY <1>2, <2>1, <2>2, <2>3 DEF JsonInv, MemoryInv
  <2>5. \A k \in 1..Len(stack') : stack'[k].key.allocs \in {0, 2}
    BY <1>1, <1>4 DEF JsonInv, MemoryInv
  <2> QED
    BY <1>2, <2>4, <2>5 DEF JsonInv, MemoryInv, InString
<1> QED
  BY <1>7, <1>8, <1>9, <1>10 DEF JsonInv

\* The innermost container is another, with as much or more of its own.
LEMMA WithTopKeeps ==
  ASSUME JsonTypes, stack # <<>>, NEW g \in Frames, stack' = WithTop(g)
  PROVE  /\ stack' \in Seq(Frames) /\ stack' # <<>> /\ Len(stack') = Len(stack) /\ Top' = g
         /\ Owed(stack') = Owed(stack) - Cost(Top) + Cost(g)
         /\ Owed(stack) \in Nat /\ Cost(Top) \in Nat /\ Cost(g) \in Nat /\ Top \in Frames
         /\ (\A k \in 1..Len(stack) : stack[k].key.allocs \in {0, 2}) /\ g.key.allocs \in {0, 2} =>
              \A k \in 1..Len(stack') : stack'[k].key.allocs \in {0, 2}
<1>1. stack \in Seq(Frames) /\ stack' = [stack EXCEPT ![Len(stack)] = g]
  BY DEF JsonTypes, WithTop
<1>2. /\ stack' \in Seq(Frames) /\ Len(stack') = Len(stack) /\ stack' # <<>>
      /\ stack'[Len(stack)] = g /\ \A k \in 1..(Len(stack) - 1) : stack'[k] = stack[k]
  <2>1. LET t == [stack EXCEPT ![Len(stack)] = g]
        IN /\ t \in Seq(Frames) /\ Len(t) = Len(stack) /\ t # <<>> /\ t[Len(stack)] = g
           /\ Front(t) = Front(stack)
           /\ \A k \in 1..(Len(stack) - 1) : t[k] = stack[k]
    <3>1. stack \in Seq(Frames) /\ stack # <<>> /\ g \in Frames
      BY <1>1
    <3> QED
      BY ONLY <3>1, TopReplaced
  <2> QED
    BY <1>1, <2>1
<1>3. Owed(stack') = Owed(stack) - Cost(Top) + Cost(g)
  BY <1>1, OwedReplaced DEF Top
<1>4. Top \in Frames /\ Top' = g
  BY <1>2, Depth DEF Top
<1>5. Owed(stack) \in Nat /\ Cost(Top) \in Nat /\ Cost(g) \in Nat
  BY <1>1, <1>4, UnitsAreFinite, CostType
<1>6. ASSUME \A k \in 1..Len(stack) : stack[k].key.allocs \in {0, 2}, g.key.allocs \in {0, 2}
      PROVE  \A k \in 1..Len(stack') : stack'[k].key.allocs \in {0, 2}
  <2> TAKE k \in 1..Len(stack')
  <2>1. Len(stack) \in Nat
    BY <1>1
  <2>2. CASE k = Len(stack)
    BY <1>2, <1>6, <2>2
  <2>3. CASE k # Len(stack)
    <3>1. k \in 1..(Len(stack) - 1) /\ k \in 1..Len(stack)
      BY <1>2, <2>1, <2>3
    <3> QED
      BY <1>2, <1>6, <3>1
  <2> QED
    BY <2>2, <2>3
<1> QED
  BY <1>2, <1>3, <1>4, <1>5, <1>6

LEMMA CommaKeeps == ASSUME JsonInv, Comma PROVE JsonInv'
<1>1. PICK d \in Nat : d = Len(stack) /\ (stack = <<>> <=> d = 0)
  BY Depth DEF JsonInv
<1>2. /\ at = "after" /\ ahead = "," /\ at' \in {"key", "value"} /\ Advance
      /\ stack' = WithTop([Top EXCEPT !.print = Append(@, ",")])
      /\ UNCHANGED <<value, buf, live, errors, valueEnd>>
  BY DEF Comma, Wanted
<1>3. JsonTypes /\ stack # <<>> /\ Top \in Frames /\ Top.key.allocs = 0
  BY <1>2, Depth DEF JsonInv, PlaceInv, MemoryInv
<1>4. PICK g : g = [Top EXCEPT !.print = Append(@, ",")]
  OBVIOUS
<1>5. g \in Frames /\ g.key = Top.key /\ g.allocs = Top.allocs
  <2>1. Append(Top.print, ",") \in Seq(Char)
    BY <1>2, <1>3, AppendProperties DEF Frames, Char, Chars
  <2> QED
    BY <1>3, <1>4, <2>1 DEF Frames
<1>6. Cost(g) = Cost(Top) /\ g.key.allocs = 0
  BY <1>3, <1>5 DEF Cost
<1>7. /\ stack' \in Seq(Frames) /\ stack' # <<>> /\ Len(stack') = Len(stack) /\ Top' = g
      /\ Owed(stack') = Owed(stack)
      /\ \A k \in 1..Len(stack') : stack'[k].key.allocs \in {0, 2}
  <2>1. stack' = WithTop(g)
    BY <1>2, <1>4
  <2>2. \A k \in 1..Len(stack) : stack[k].key.allocs \in {0, 2}
    BY DEF JsonInv, MemoryInv
  <2> QED
    BY <1>3, <1>5, <1>6, <2>1, <2>2, WithTopKeeps
<1>8. /\ text' \in Seq(Char) /\ ahead' \in Char \cup {Eof}
      /\ Skipped("in", d) /\ ahead \in {",", ":", "1"} => Skipped("in", d)'
  <2>1. ahead # Eof
    BY <1>2 DEF Eof
  <2> QED
    BY <1>1, <1>2, <1>3, <2>1, SkipMoves
<1>9. JsonTypes'
  BY <1>2, <1>3, <1>7, <1>8 DEF JsonTypes
<1>10. PlaceInv'
  BY <1>2, <1>7 DEF PlaceInv, InString
<1>11. SkipInv'
  <2>1. Skipped("in", d)
    BY <1>1, <1>2 DEF JsonInv, SkipInv
  <2>2. Skipped("in", Len(stack))'
    BY <1>1, <1>2, <1>7, <1>8, <2>1 DEF Skipped
  <2> QED
    BY <1>2, <1>7, <2>2 DEF SkipInv, Inside
<1>12. MemoryInv'
  <2>1. Held = 0 /\ Held' = 0
    BY <1>2 DEF Held, InString
  <2> QED
    BY <1>2, <1>6, <1>7, <2>1 DEF JsonInv, MemoryInv, InString
<1> QED
  BY <1>9, <1>10, <1>11, <1>12 DEF JsonInv

LEMMA ColonKeeps == ASSUME JsonInv, Colon PROVE JsonInv'
<1>1. PICK d \in Nat : d = Len(stack) /\ (stack = <<>> <=> d = 0)
  BY Depth DEF JsonInv
<1>2. /\ at = "colon" /\ ahead = ":" /\ at' = "value" /\ Advance
      /\ UNCHANGED <<stack, value, buf, live, errors, valueEnd>>
  BY DEF Colon
<1>3. JsonTypes /\ stack # <<>> /\ ahead # Eof
  BY <1>2 DEF JsonInv, PlaceInv, Eof
<1>4. /\ text' \in Seq(Char) /\ ahead' \in Char \cup {Eof}
      /\ Skipped("in", d) /\ ahead \in {",", ":", "1"} => Skipped("in", d)'
  BY <1>1, <1>2, <1>3, SkipMoves
<1>5. JsonTypes'
  BY <1>2, <1>3, <1>4 DEF JsonTypes
<1>6. PlaceInv'
  BY <1>2, <1>3 DEF PlaceInv, InString
<1>7. SkipInv'
  <2>1. Skipped("in", d)
    BY <1>1, <1>2 DEF JsonInv, SkipInv
  <2>2. Skipped("in", Len(stack))'
    BY <1>1, <1>2, <1>4, <2>1 DEF Skipped
  <2> QED
    BY <1>2, <1>3, <2>2 DEF SkipInv, Inside
<1>8. MemoryInv'
  BY <1>2 DEF JsonInv, MemoryInv, Held, InString
<1> QED
  BY <1>5, <1>6, <1>7, <1>8 DEF JsonInv

LEMMA OpenStringKeeps == ASSUME JsonParameters, JsonInv, OpenString PROVE JsonInv'
<1>1. PICK d \in Nat : d = Len(stack) /\ (stack = <<>> <=> d = 0)
  BY Depth DEF JsonInv
<1>2. ahead = "\""
  BY Zenon DEF OpenString
<1>3. /\ at \in {"value", "key"} /\ at' = "string" /\ Advance
      /\ live' = live + 1
      /\ UNCHANGED <<stack, value, errors, valueEnd>>
  BY DEF OpenString
<1>4. JsonTypes /\ ahead # Eof /\ ahead \in Char
  BY <1>2 DEF JsonInv, JsonTypes, Eof
<1>5. /\ text' \in Seq(Char) /\ ahead' \in Char \cup {Eof}
      /\ Skipped("start", 0) /\ ahead = "\"" => Skipped("string", 0)'
      /\ Skipped("in", d) /\ ahead = "\"" => Skipped("inner", d)'
  BY <1>1, <1>3, <1>4, SkipMoves
<1>6. text' \in Seq(Char) /\ ahead' \in Char \cup {Eof}
  BY <1>5
<1>7. buf' \in Buffers /\ buf'.n < buf'.cap /\ buf'.cap >= 4
  <2>1. InitBuf \in 4..16
    BY Zenon DEF JsonParameters
  <2>2. PICK key : key = (at = "key")
    OBVIOUS
  <2>3. key \in BOOLEAN /\ (key <=> at = "key")
    BY Zenon, <2>2
  <2>4. buf' = [n |-> 0, cap |-> InitBuf, print |-> <<ahead>>, key |-> key]
    BY Zenon, <2>2 DEF OpenString
  <2>5. <<ahead>> \in Seq(Char)
    BY <1>4
  <2>6. InitBuf \in Nat /\ 0 < InitBuf /\ InitBuf >= 4
    BY <2>1
  <2>7. buf' \in Buffers
    BY <2>3, <2>4, <2>5, <2>6 DEF Buffers
  <2>8. buf'.n = 0 /\ buf'.cap = InitBuf /\ buf'.key = key
    BY <2>4
  <2> QED
    BY <2>6, <2>7, <2>8
<1>8. buf'.key => at = "key"
  BY Zenon DEF OpenString
<1>9. JsonTypes'
  BY <1>3, <1>4, <1>6, <1>7 DEF JsonTypes
<1>10. PlaceInv'
  BY Zenon, <1>3, <1>8 DEF JsonInv, PlaceInv, InString
<1>11. SkipInv'
  <2>1. IF d = 0 THEN Skipped("start", 0) ELSE Skipped("in", d)
    BY <1>1, <1>3 DEF JsonInv, PlaceInv, SkipInv, Inside
  <2>2. IF d = 0 THEN Skipped("string", 0)' ELSE Skipped("inner", d)'
    BY <1>5, <1>2, <2>1
  <2>3. d # 0 => Skipped("inner", Len(stack))'
    BY <1>1, <1>3, <2>2 DEF Skipped
  <2> QED
    BY <1>1, <1>3, <2>2, <2>3 DEF SkipInv, Inside
<1>12. MemoryInv'
  <2>1. Held = 0 /\ Held' = 1
    BY <1>3 DEF Held, InString
  <2>2. Owed(stack) \in Nat
    BY <1>4, UnitsAreFinite DEF JsonTypes
  <2>3. Top' = Top /\ (at = "key" => Top.key.allocs = 0)
    BY <1>3 DEF JsonInv, MemoryInv, Top
  <2>4. (at \in {"first", "after", "key"} \/ (InString /\ buf.key) => Top.key.allocs = 0)'
    <3>1. at' \notin {"first", "after", "key"}
      BY <1>3
    <3> QED
      BY Zenon, <1>8, <2>3, <3>1
  <2>5. /\ live' = Owed(stack') + Held'
        /\ \A k \in 1..Len(stack') : stack'[k].key.allocs \in {0, 2}
        /\ errors' = 0 /\ at' \notin {"unwind", "rejected"}
    BY <1>3, <2>1, <2>2 DEF JsonInv, MemoryInv
  <2> QED
    BY Zenon, <1>7, <2>4, <2>5 DEF MemoryInv
<1> QED
  BY <1>9, <1>10, <1>11, <1>12 DEF JsonInv

\* A character more, at most four bytes, and room for the terminator behind them.
LEMMA PutFits ==
  ASSUME JsonTypes, ahead \in Char, buf.n < buf.cap, buf.cap >= 4, NEW k \in 1..4, Put(k)
  PROVE  buf' \in Buffers /\ buf'.n < buf'.cap /\ buf'.cap >= 4 /\ buf'.key = buf.key
<1>1. /\ buf \in Buffers /\ buf.n \in Nat /\ buf.cap \in Nat /\ buf.print \in Seq(Char)
      /\ buf.key \in BOOLEAN
  BY DEF JsonTypes, Buffers
<1>2. buf' = [n |-> buf.n + k, cap |-> Grown(k), print |-> Append(buf.print, ahead), key |-> buf.key]
  BY <1>1 DEF Put, Buffers
<1>3. Grown(k) \in Nat /\ buf.n + k < Grown(k) /\ Grown(k) >= 4 /\ buf.n + k \in Nat
  BY <1>1 DEF Grown
<1>4. Append(buf.print, ahead) \in Seq(Char)
  BY <1>1, AppendProperties
<1> QED
  BY <1>1, <1>2, <1>3, <1>4 DEF Buffers

LEMMA InStringKeeps ==
  ASSUME JsonInv, at \in {"string", "escape"}, at' \in {"string", "escape"}, Advance, ahead # Eof,
         at = "string" => ahead # "\"" /\ (at' = "escape" <=> ahead = "\\"),
         at = "escape" => at' = "string",
         buf' \in Buffers, buf'.n < buf'.cap, buf'.cap >= 4, buf'.key = buf.key,
         UNCHANGED <<stack, value, live, errors, valueEnd>>
  PROVE  JsonInv'
<1>1. PICK d \in Nat : d = Len(stack) /\ (stack = <<>> <=> d = 0)
  BY Depth DEF JsonInv
<1>2. JsonTypes
  BY DEF JsonInv
<1>3. /\ text' \in Seq(Char) /\ ahead' \in Char \cup {Eof}
      /\ Skipped("string", 0) /\ ahead \notin {"\"", "\\"} => Skipped("string", 0)'
      /\ Skipped("string", 0) /\ ahead = "\\" => Skipped("escape", 0)'
      /\ Skipped("escape", 0) => Skipped("string", 0)'
      /\ Skipped("inner", d) /\ ahead \notin {"\"", "\\"} => Skipped("inner", d)'
      /\ Skipped("inner", d) /\ ahead = "\\" => Skipped("innerEscape", d)'
      /\ Skipped("innerEscape", d) => Skipped("inner", d)'
  BY <1>1, <1>2, SkipMoves
<1>4. JsonTypes'
  BY <1>2, <1>3 DEF JsonTypes
<1>5. PlaceInv'
  BY DEF JsonInv, PlaceInv, InString
<1>6. SkipInv'
  <2>1. /\ at = "string" => IF d = 0 THEN Skipped("string", 0) ELSE Skipped("inner", d)
        /\ at = "escape" => IF d = 0 THEN Skipped("escape", 0) ELSE Skipped("innerEscape", d)
    BY <1>1 DEF JsonInv, SkipInv, Inside
  <2>2. /\ at' = "string" => IF d = 0 THEN Skipped("string", 0)' ELSE Skipped("inner", d)'
        /\ at' = "escape" => IF d = 0 THEN Skipped("escape", 0)' ELSE Skipped("innerEscape", d)'
    <3>1. CASE at = "string"
      BY <1>3, <2>1, <3>1
    <3>2. CASE at = "escape"
      BY <1>3, <2>1, <3>2
    <3> QED
      BY <3>1, <3>2
  <2>3. /\ d # 0 /\ at' = "string" => Skipped("inner", Len(stack))'
        /\ d # 0 /\ at' = "escape" => Skipped("innerEscape", Len(stack))'
    BY <1>1, <2>2 DEF Skipped
  <2> QED
    BY <1>1, <2>2, <2>3 DEF SkipInv, Inside
<1>7. MemoryInv'
  <2>1. Held = 1 /\ Held' = 1
    BY DEF Held, InString
  <2>2. Top' = Top
    BY DEF Top
  <2> QED
    BY <2>1, <2>2 DEF JsonInv, MemoryInv, InString
<1> QED
  BY <1>4, <1>5, <1>6, <1>7 DEF JsonInv

LEMMA StringCharKeeps == ASSUME JsonInv, StringChar PROVE JsonInv'
<1>1. /\ at \in {"string", "escape"} /\ at' = "string" /\ Advance
      /\ at = "string" => ahead \notin {"\"", "\\", Eof}
      /\ at = "escape" => ahead \in Escapes
      /\ UNCHANGED <<stack, value, live, errors, valueEnd>>
  BY DEF StringChar
<1>2. PICK k \in 1..4 : Put(k)
  <2>1. 1 \in 1..4
    OBVIOUS
  <2> QED
    BY Zenon, <2>1 DEF StringChar
<1>3. ahead # Eof
  BY <1>1 DEF Escapes, Eof
<1>4. JsonTypes /\ ahead \in Char /\ buf.n < buf.cap /\ buf.cap >= 4
  BY <1>1, <1>3 DEF JsonInv, JsonTypes, MemoryInv, InString
<1>5. buf' \in Buffers /\ buf'.n < buf'.cap /\ buf'.cap >= 4 /\ buf'.key = buf.key
  BY <1>2, <1>4, PutFits
<1> QED
  BY <1>1, <1>3, <1>5, InStringKeeps

LEMMA BackslashKeeps == ASSUME JsonInv, Backslash PROVE JsonInv'
<1>1. /\ at = "string" /\ ahead = "\\" /\ at' = "escape" /\ Advance
      /\ buf' = [buf EXCEPT !.print = Append(@, ahead)]
      /\ UNCHANGED <<stack, value, live, errors, valueEnd>>
  BY DEF Backslash
<1>2. ahead # Eof /\ ahead # "\""
  BY <1>1 DEF Eof
<1>3. /\ ahead \in Char /\ buf \in Buffers /\ buf.print \in Seq(Char)
      /\ buf.n < buf.cap /\ buf.cap >= 4
  BY <1>1, <1>2 DEF JsonInv, JsonTypes, MemoryInv, InString, Buffers
<1>4. Append(buf.print, ahead) \in Seq(Char)
  BY <1>3, AppendProperties
<1>5. buf' \in Buffers /\ buf'.n < buf'.cap /\ buf'.cap >= 4 /\ buf'.key = buf.key
  BY <1>1, <1>3, <1>4 DEF Buffers
<1> QED
  BY <1>1, <1>2, <1>5, InStringKeeps

\* A value that is complete behind a string, or a number, whatever wants it.
LEMMA ReturnKeeps ==
  ASSUME JsonInv, at \in {"string", "number"}, NEW n \in Nat, NEW v \in Trees, Return(v, n, stack),
         text' \in Seq(Char), ahead' \in Char \cup {Eof}, n = Len(text'),
         stack = <<>> => Skipped("done", 0)' \/ Skipped("scalar", 0)',
         stack # <<>> => Skipped("in", Len(stack))',
         live' = live - Held + v.allocs, UNCHANGED <<stack, buf, errors>>
  PROVE  JsonInv'
<1>1. /\ value' = v /\ at' = IF stack = <<>> THEN "end" ELSE "add"
      /\ valueEnd' = IF stack = <<>> THEN n ELSE valueEnd
  BY DEF Return
<1>2. JsonTypes /\ Held \in Int /\ v.allocs \in Nat /\ Owed(stack) \in Nat
  <2>1. JsonTypes /\ stack \in Seq(Frames)
    BY DEF JsonInv, JsonTypes
  <2>2. Held \in Int
    BY <2>1 DEF Held, JsonTypes, Trees
  <2> QED
    BY <2>1, <2>2, UnitsAreFinite DEF Trees
<1>3. JsonTypes'
  <2>1. live' \in Int
    BY <1>2 DEF JsonTypes
  <2> QED
    BY <1>1, <1>2, <2>1 DEF JsonTypes
<1>4. PlaceInv'
  BY <1>1 DEF PlaceInv, InString
<1>5. SkipInv'
  BY <1>1 DEF SkipInv
<1>6. MemoryInv'
  <2>1. Held' = v.allocs
    BY <1>1 DEF Held
  <2>2. live' = Owed(stack') + Held'
    BY <1>1, <1>2, <2>1 DEF JsonInv, MemoryInv
  <2> QED
    BY <1>1, <2>2 DEF JsonInv, MemoryInv, InString
<1> QED
  BY <1>3, <1>4, <1>5, <1>6 DEF JsonInv

LEMMA NumberEndsKeeps == ASSUME JsonInv, NumberEnds PROVE JsonInv'
<1>1. /\ at = "number" /\ Stay /\ Return(value, Len(text), stack)
      /\ UNCHANGED <<stack, buf, live, errors>>
  BY DEF NumberEnds
<1>2. JsonTypes /\ value \in Trees /\ Len(text) \in Nat /\ live \in Int
  BY DEF JsonInv, JsonTypes
<1>3. /\ text' \in Seq(Char) /\ ahead' \in Char \cup {Eof} /\ Len(text) = Len(text')
  BY <1>1, <1>2, StayMoves
<1>4. Inside("scalar", "in")
  BY <1>1 DEF JsonInv, SkipInv
<1>5. /\ stack = <<>> => Skipped("scalar", 0)'
      /\ stack # <<>> => Skipped("in", Len(stack))'
  BY <1>1, <1>4 DEF Inside, Skipped, Stay
<1>6. Held = value.allocs /\ value.allocs \in Nat
  BY <1>1, <1>2 DEF Held, Trees
<1>7. live' = live - Held + value.allocs
  BY <1>1, <1>2, <1>6
<1>8. PICK n, v : n = Len(text) /\ v = value
  OBVIOUS
<1> QED
  BY <1>1, <1>2, <1>3, <1>5, <1>7, <1>8, ReturnKeeps

LEMMA DigitKeeps == ASSUME JsonInv, Digit PROVE JsonInv'
<1>1. PICK d \in Nat : d = Len(stack) /\ (stack = <<>> <=> d = 0)
  BY Depth DEF JsonInv
<1>2. /\ at \in {"value", "number"} /\ ahead = "1" /\ at' = "number" /\ Advance
      /\ UNCHANGED <<stack, buf, errors, valueEnd>>
      /\ at = "value" => live' = live + 1 /\ value' = [print |-> <<ahead>>, allocs |-> 1]
      /\ at = "number" => live' = live /\ value' = [value EXCEPT !.print = Append(@, ahead)]
  BY DEF Digit
<1>3. JsonTypes /\ ahead # Eof /\ ahead \in Char
  BY <1>2 DEF JsonInv, JsonTypes, Eof
<1>4. /\ text' \in Seq(Char) /\ ahead' \in Char \cup {Eof}
      /\ Skipped("start", 0) /\ ahead = "1" => Skipped("scalar", 0)'
      /\ Skipped("scalar", 0) /\ ahead = "1" => Skipped("scalar", 0)'
      /\ Skipped("in", d) /\ ahead \in {",", ":", "1"} => Skipped("in", d)'
  BY <1>1, <1>2, <1>3, SkipMoves
<1>5. value' \in Trees
      /\ (at = "value" => value'.allocs = 1) /\ (at = "number" => value'.allocs = value.allocs)
  <2>1. <<ahead>> \in Seq(Char) /\ value \in Trees
    BY <1>3 DEF JsonTypes
  <2>2. Append(value.print, ahead) \in Seq(Char)
    BY <1>3, <2>1, AppendProperties DEF Trees
  <2>3. CASE at = "value"
    <3>1. value' = [print |-> <<ahead>>, allocs |-> 1] /\ at # "number"
      BY <1>2, <2>3
    <3> QED
      BY <2>1, <2>3, <3>1 DEF Trees
  <2>4. CASE at = "number"
    BY <1>2, <2>1, <2>2, <2>4 DEF Trees
  <2> QED
    BY <1>2, <2>3, <2>4
<1>6. JsonTypes'
  <2>1. live' \in Int
    BY <1>2, <1>3 DEF JsonTypes
  <2> QED
    BY <1>2, <1>3, <1>4, <1>5, <2>1 DEF JsonTypes
<1>7. PlaceInv'
  BY <1>2 DEF PlaceInv, InString
<1>8. SkipInv'
  <2>1. /\ at = "value" => IF d = 0 THEN Skipped("start", 0) ELSE Skipped("in", d)
        /\ at = "number" => IF d = 0 THEN Skipped("scalar", 0) ELSE Skipped("in", d)
    BY <1>1, <1>2 DEF JsonInv, SkipInv, Inside
  <2>2. IF d = 0 THEN Skipped("scalar", 0)' ELSE Skipped("in", d)'
    BY <1>2, <1>4, <2>1
  <2>3. d # 0 => Skipped("in", Len(stack))'
    BY <1>1, <1>2, <2>2 DEF Skipped
  <2> QED
    BY <1>1, <1>2, <2>2, <2>3 DEF SkipInv, Inside
<1>9. MemoryInv'
  <2>1. /\ Held' = value'.allocs /\ value.allocs \in Nat
        /\ Held = IF at = "number" THEN value.allocs ELSE 0
    BY <1>2, <1>3 DEF Held, InString, JsonTypes, Trees
  <2>2. Owed(stack) \in Nat /\ live = Owed(stack) + Held
    BY <1>3, UnitsAreFinite DEF JsonTypes, JsonInv, MemoryInv
  <2>3. live' = Owed(stack') + Held'
    BY <1>2, <1>5, <2>1, <2>2
  <2> QED
    BY <1>2, <2>3 DEF JsonInv, MemoryInv, InString
<1> QED
  BY <1>6, <1>7, <1>8, <1>9 DEF JsonInv

LEMMA CloseStringKeeps == ASSUME JsonInv, CloseString PROVE JsonInv'
<1>1. PICK d \in Nat : d = Len(stack) /\ (stack = <<>> <=> d = 0)
  BY Depth DEF JsonInv
<1>2. ahead = "\""
  BY Zenon DEF CloseString
<1>3. at = "string" /\ Advance /\ live' = live + 1 /\ UNCHANGED <<buf, errors>>
  BY DEF CloseString
<1>4. JsonTypes /\ ahead # Eof /\ ahead \in Char /\ live \in Int
  BY <1>2 DEF JsonInv, JsonTypes, Eof
<1>5. /\ text' \in Seq(Char) /\ ahead' \in Char \cup {Eof} /\ Len(text') = Len(text) + 1
      /\ Skipped("string", 0) /\ ahead = "\"" => Skipped("done", 0)'
      /\ Skipped("inner", d) /\ ahead = "\"" => Skipped("in", d)'
  BY <1>1, <1>3, <1>4, SkipMoves
<1>6. IF d = 0 THEN Skipped("done", 0)' ELSE Skipped("in", d)'
  <2>1. IF d = 0 THEN Skipped("string", 0) ELSE Skipped("inner", d)
    BY <1>1, <1>3 DEF JsonInv, SkipInv, Inside
  <2> QED
    BY <1>2, <1>5, <2>1
<1>7. PICK s : s = [print |-> Append(buf.print, ahead), allocs |-> 2]
  OBVIOUS
<1>8. s \in Trees /\ s.allocs = 2
  <2>1. Append(buf.print, ahead) \in Seq(Char)
    BY <1>4, AppendProperties DEF JsonTypes, Buffers
  <2> QED
    BY <1>7, <2>1 DEF Trees
<1>9. Held = 1
  BY <1>3 DEF Held, InString
<1>10. PICK l \in Nat : l = Len(text) + 1 /\ l = Len(text')
  <2>1. text \in Seq(Char) /\ Len(text') = Len(text) + 1
    BY <1>4, <1>5 DEF JsonTypes
  <2> QED
    BY ONLY <2>1
<1>11. CASE ~buf.key
  <2>1. Return(s, l, stack) /\ UNCHANGED stack
    BY Zenon, <1>7, <1>10, <1>11 DEF CloseString
  <2>2. /\ stack = <<>> => Skipped("done", 0)'
        /\ stack # <<>> => Skipped("in", Len(stack))'
    BY <1>1, <1>6, <2>1 DEF Skipped
  <2>3. live' = live - Held + s.allocs
    BY <1>3, <1>4, <1>8, <1>9
  <2> QED
    BY <1>3, <1>5, <1>8, <1>10, <2>1, <2>2, <2>3, ReturnKeeps
<1>12. CASE buf.key
  <2>1. stack' = WithTop([Top EXCEPT !.key = s]) /\ at' = "colon" /\ UNCHANGED <<value, valueEnd>>
    BY Zenon, <1>7, <1>12 DEF CloseString
  <2>2. stack # <<>> /\ Top.key.allocs = 0 /\ Top \in Frames
    <3>1. InString
      BY <1>3 DEF InString
    <3> QED
      BY Zenon, <1>4, <1>12, <3>1, Depth DEF JsonInv, PlaceInv, MemoryInv
  <2>3. PICK g : g = [Top EXCEPT !.key = s]
    OBVIOUS
  <2>4. g \in Frames /\ g.key = s /\ g.allocs = Top.allocs
    BY <1>8, <2>2, <2>3 DEF Frames
  <2>5. Cost(g) = Cost(Top) + 2
    BY <1>8, <2>2, <2>4 DEF Cost, Frames, Trees
  <2>6. /\ stack' \in Seq(Frames) /\ stack' # <<>> /\ Len(stack') = Len(stack) /\ Top' = g
        /\ Owed(stack') = Owed(stack) + 2 /\ Owed(stack) \in Nat
        /\ \A k \in 1..Len(stack') : stack'[k].key.allocs \in {0, 2}
    <3>1. stack' = WithTop(g)
      BY <2>1, <2>3
    <3>2. \A k \in 1..Len(stack) : stack[k].key.allocs \in {0, 2}
      BY DEF JsonInv, MemoryInv
    <3>3. g.key.allocs \in {0, 2}
      BY <1>8, <2>4
    <3>4. /\ stack' \in Seq(Frames) /\ stack' # <<>> /\ Len(stack') = Len(stack) /\ Top' = g
          /\ Owed(stack') = Owed(stack) - Cost(Top) + Cost(g)
          /\ Owed(stack) \in Nat /\ Cost(Top) \in Nat
      BY <1>4, <2>2, <2>4, <3>1, WithTopKeeps
    <3>5. \A k \in 1..Len(stack') : stack'[k].key.allocs \in {0, 2}
      BY <1>4, <2>2, <2>4, <3>1, <3>2, <3>3, WithTopKeeps
    <3>6. Owed(stack') = Owed(stack) + 2
      BY ONLY <2>5, <3>4
    <3> QED
      BY ONLY <3>4, <3>5, <3>6
  <2>7. JsonTypes'
    <3>1. live' \in Int
      BY <1>3, <1>4
    <3> QED
      BY <1>3, <1>4, <1>5, <2>1, <2>6, <3>1 DEF JsonTypes
  <2>8. PlaceInv'
    BY <2>1, <2>6 DEF PlaceInv, InString
  <2>9. SkipInv'
    <3>1. Skipped("in", Len(stack))'
      BY <1>1, <1>6, <2>2, <2>6 DEF Skipped
    <3> QED
      BY <2>1, <3>1 DEF SkipInv
  <2>10. MemoryInv'
    <3>1. Held' = 0
      BY <2>1 DEF Held, InString
    <3>2. live' = Owed(stack') + Held'
      BY <1>3, <1>9, <2>6, <3>1 DEF JsonInv, MemoryInv
    <3> QED
      BY <1>3, <2>1, <2>6, <3>2 DEF JsonInv, MemoryInv, InString
  <2> QED
    BY <2>7, <2>8, <2>9, <2>10 DEF JsonInv
<1> QED
  BY Zenon, <1>11, <1>12

LEMMA AddKeeps == ASSUME JsonInv, Add PROVE JsonInv'
<1> DEFINE key == Top.key.allocs > 0
           colon == IF key THEN Append(Top.key.print, ":") ELSE <<>>
<1>1. /\ at = "add" /\ at' = "after" /\ value' = Nothing /\ Stay /\ UNCHANGED <<buf, errors, valueEnd>>
      /\ live' = IF key THEN live - 1 ELSE live
      /\ stack' = WithTop([Top EXCEPT !.print = @ \o colon \o value.print,
                                      !.allocs = @ + value.allocs + (IF key THEN 1 ELSE 0),
                                      !.key = Nothing])
  BY DEF Add
<1>2. /\ JsonTypes /\ stack # <<>> /\ Top \in Frames /\ value \in Trees /\ live \in Int
      /\ Len(stack) \in 1..Len(stack)
  BY <1>1, Depth DEF JsonInv, PlaceInv, JsonTypes
<1>3. Top.key.allocs \in {0, 2}
  BY <1>2 DEF JsonInv, MemoryInv, Top
<1>4. PICK g : g = [Top EXCEPT !.print = @ \o colon \o value.print,
                               !.allocs = @ + value.allocs + (IF key THEN 1 ELSE 0),
                               !.key = Nothing]
  OBVIOUS
<1>5. Nothing \in Trees /\ Nothing.allocs = 0
  BY EmptySeq DEF Nothing, Trees
<1>6. colon \in Seq(Char)
  <2>1. ":" \in Char
    BY DEF Char, Chars
  <2>2. Top.key.print \in Seq(Char)
    BY <1>2 DEF Frames, Trees
  <2>3. Append(Top.key.print, ":") \in Seq(Char)
    BY <2>1, <2>2, AppendProperties
  <2> QED
    BY <2>3
<1>7. PICK p : p = Top.print \o colon \o value.print
  OBVIOUS
<1>8. p \in Seq(Char)
  <2>1. Top.print \in Seq(Char) /\ value.print \in Seq(Char)
    BY <1>2 DEF Frames, Trees
  <2> HIDE DEF colon
  <2>2. Top.print \o colon \in Seq(Char)
    BY <1>6, <2>1, ConcatProperties
  <2> QED
    BY <1>7, <2>1, <2>2, ConcatProperties
<1>9. PICK extra \in {0, 1} : extra = IF key THEN 1 ELSE 0
  OBVIOUS
<1>10. /\ Top.key.allocs = 2 * extra /\ live' = live - extra
       /\ Top.allocs \in Nat /\ value.allocs \in Nat
  BY <1>1, <1>2, <1>3, <1>9 DEF Frames, Trees
<1>11. stack' = WithTop(g)
  BY <1>1, <1>4
<1>12. g = [open |-> Top.open, print |-> p, allocs |-> Top.allocs + value.allocs + extra, key |-> Nothing]
  <2> HIDE DEF colon, key
  <2> QED
    BY <1>2, <1>4, <1>7, <1>9 DEF Frames
<1> HIDE DEF colon, key
<1>13. g \in Frames /\ g.key.allocs = 0 /\ Cost(g) = Top.allocs + value.allocs + extra
  BY <1>2, <1>5, <1>8, <1>9, <1>10, <1>12 DEF Frames, Cost
<1>14. Cost(Top) = Top.allocs + 2 * extra
  BY <1>10 DEF Cost
<1>15. /\ stack' \in Seq(Frames) /\ stack' # <<>> /\ Len(stack') = Len(stack) /\ Top' = g
       /\ Owed(stack') = Owed(stack) - Cost(Top) + Cost(g) /\ Owed(stack) \in Nat
       /\ \A k \in 1..Len(stack') : stack'[k].key.allocs \in {0, 2}
  <2>1. \A k \in 1..Len(stack) : stack[k].key.allocs \in {0, 2}
    BY DEF JsonInv, MemoryInv
  <2> QED
    BY <1>2, <1>11, <1>13, <2>1, WithTopKeeps
<1>16. JsonTypes'
  <2>1. live' \in Int
    BY <1>2, <1>9, <1>10
  <2> QED
    BY <1>1, <1>2, <1>5, <1>15, <2>1 DEF JsonTypes, Stay
<1>17. PlaceInv'
  BY <1>1, <1>15 DEF PlaceInv, InString
<1>18. SkipInv'
  <2>1. Skipped("in", Len(stack))
    BY <1>1 DEF JsonInv, SkipInv
  <2>2. Skipped("in", Len(stack))'
    BY <1>1, <1>15, <2>1 DEF Skipped, Stay
  <2> QED
    BY <1>1, <2>2 DEF SkipInv
<1>19. MemoryInv'
  <2>1. Held = value.allocs /\ Held' = 0
    BY <1>1 DEF Held, InString
  <2>2. live' = Owed(stack') + Held'
    BY <1>9, <1>10, <1>13, <1>14, <1>15, <2>1 DEF JsonInv, MemoryInv
  <2> QED
    BY <1>1, <1>13, <1>15, <2>2 DEF JsonInv, MemoryInv, InString
<1> QED
  BY <1>16, <1>17, <1>18, <1>19 DEF JsonInv

LEMMA StutterKeepsJson == ASSUME JsonInv, UNCHANGED jsonVars PROVE JsonInv'
<1>1. /\ text' = text /\ ahead' = ahead /\ stack' = stack /\ value' = value /\ buf' = buf
      /\ live' = live /\ errors' = errors /\ at' = at /\ skip' = skip /\ valueEnd' = valueEnd
  BY DEF jsonVars
<1> QED
  BY <1>1 DEF JsonInv, JsonTypes, PlaceInv, SkipInv, MemoryInv, Inside, Skipped, Held, InString, Top

LEMMA NextJsonInv == ASSUME JsonParameters, JsonInv, [JsonNext]_jsonVars PROVE JsonInv'
<1>1. CASE UNCHANGED jsonVars
  BY <1>1, StutterKeepsJson
<1>2. CASE JsonNext
  BY <1>2, OpenContainerKeeps, CloseContainerKeeps, NotEmptyKeeps, CommaKeeps, NeitherKeeps,
     OpenStringKeeps, StringCharKeeps, BackslashKeeps, StringFailsKeeps, CloseStringKeeps,
     ColonKeeps, DigitKeeps, NumberEndsKeeps, AddKeeps, UnexpectedKeeps, UnwindKeeps,
     RejectedKeeps, FinishKeeps DEF JsonNext
<1> QED
  BY <1>1, <1>2

LEMMA JsonInvImplies ==
  ASSUME JsonInv
  PROVE  SkipsWholeValues /\ FreesAndReports
<1>1. FreesAndReports
  <2>1. ASSUME at \in {"accepted", "rejected"} PROVE Owed(stack) = 0
    BY <2>1, OwedOfNone DEF JsonInv, PlaceInv
  <2>2. JsonTypes /\ value.allocs \in Nat /\ live \in Int
    BY DEF JsonInv, JsonTypes, Trees
  <2> QED
    BY <2>1, <2>2 DEF FreesAndReports, JsonInv, MemoryInv, Held, InString
<1>2. SkipsWholeValues
  <2>1. SUFFICES ASSUME at = "end", ahead \in Close \cup {",", Eof}
                 PROVE  SkipStep(skip, ahead).mode = "done" /\ SkipStep(skip, ahead).len = valueEnd
    BY DEF SkipsWholeValues
  <2>2. valueEnd = Len(text) /\ (Skipped("done", 0) \/ Skipped("scalar", 0))
    BY <2>1 DEF JsonInv, SkipInv
  <2>3. skip = [mode |-> skip.mode, depth |-> 0, len |-> Len(text)] /\ skip.mode \in {"done", "scalar"}
    BY <2>2 DEF Skipped
  <2>4. CASE skip.mode = "done"
    <3>1. SkipStep(skip, ahead) = skip
      BY Zenon, <2>4 DEF SkipStep
    <3> QED
      BY <2>2, <2>3, <2>4, <3>1
  <2>5. CASE skip.mode = "scalar"
    <3>1. SkipStep(skip, ahead) = [skip EXCEPT !.mode = "done"]
      BY Zenon, <2>1, <2>5 DEF SkipStep
    <3> QED
      BY <2>2, <2>3, <3>1
  <2> QED
    BY <2>3, <2>4, <2>5
<1> QED
  BY <1>1, <1>2

\* json.c:147 for texts of any length: where the parser is, the scanner of the
\* tokenizer keeps the depth, and what is live is owned by the stack and the value.
THEOREM JsonInvariant == ASSUME JsonParameters PROVE JsonSpec => []JsonInv
<1>1. JsonInit => JsonInv
  BY InitJsonInv
<1>2. JsonInv /\ [JsonNext]_jsonVars => JsonInv'
  BY NextJsonInv
<1> QED
  BY <1>1, <1>2, PTL DEF JsonSpec

\* F says what a function is at n, and depends on what it is below n only.
Rules(S) ==
  {F \in [Nat \X [Nat -> S] -> S] :
     \A n \in Nat, g, h \in [Nat -> S] : (\A k \in 0..(n - 1) : g[k] = h[k]) => F[<<n, g>>] = F[<<n, h>>]}
Obeys(g, F) == \A n \in Nat : g[n] = F[<<n, g>>]

\* A definition by recursion over the naturals defines a function.
LEMMA RecursionExists ==
  ASSUME NEW S, NEW s \in S, NEW F \in Rules(S)
  PROVE  \E g \in [Nat -> S] : Obeys(g, F)
<1> USE DEF Rules, Obeys
<1> DEFINE Upto(n, g) == g \in [Nat -> S] /\ \A k \in 0..(n - 1) : g[k] = F[<<k, g>>]
<1>1. \A n \in Nat : \E g : Upto(n, g)
  <2> DEFINE A == {n \in Nat : \E g : Upto(n, g)}
  <2>1. 0 \in A
    <3>1. Upto(0, [n \in Nat |-> s])
      OBVIOUS
    <3> QED
      BY <3>1
  <2>2. ASSUME NEW n \in Nat, n \in A PROVE n + 1 \in A
    <3>1. PICK g : Upto(n, g)
      BY <2>2
    <3> DEFINE y == F[<<n, g>>]
               h == [g EXCEPT ![n] = y]
    <3>2. g \in [Nat -> S] /\ y \in S
      BY <3>1
    <3>3. h \in [Nat -> S] /\ h[n] = y /\ \A k \in 0..(n - 1) : h[k] = g[k]
      <4> HIDE DEF y
      <4> QED
        BY <3>2
    <3> HIDE DEF h
    <3>4. \A k \in 0..n : F[<<k, h>>] = F[<<k, g>>]
      <4> TAKE k \in 0..n
      <4>1. k \in Nat /\ \A j \in 0..(k - 1) : j \in 0..(n - 1)
        OBVIOUS
      <4>2. \A j \in 0..(k - 1) : h[j] = g[j]
        BY <3>3, <4>1
      <4> QED
        BY <3>2, <3>3, <4>1, <4>2
    <3>5. ASSUME NEW k \in 0..((n + 1) - 1) PROVE h[k] = F[<<k, h>>]
      <4>1. k \in 0..n /\ (k = n \/ k \in 0..(n - 1))
        OBVIOUS
      <4>2. F[<<k, h>>] = F[<<k, g>>]
        BY <3>4, <4>1
      <4>3. CASE k = n
        BY <3>3, <4>2, <4>3
      <4>4. CASE k \in 0..(n - 1)
        <5>1. g[k] = F[<<k, g>>]
          BY <3>1, <4>4
        <5> QED
          BY <3>3, <4>2, <4>4, <5>1
      <4> QED
        BY <4>1, <4>3, <4>4
    <3>6. Upto(n + 1, h)
      BY <3>3, <3>5
    <3> HIDE DEF Upto
    <3> QED
      BY <3>6
  <2> HIDE DEF A
  <2>3. Nat \subseteq A
    BY <2>1, <2>2, Induction
  <2> QED
    BY <2>3 DEF A
<1>2. ASSUME NEW n \in Nat, NEW g, NEW h, Upto(n, g), Upto(n, h)
      PROVE  \A k \in 0..(n - 1) : g[k] = h[k]
  <2> DEFINE D == {k \in Nat : k < n /\ g[k] # h[k]}
  <2>1. SUFFICES ASSUME D # {} PROVE FALSE
    OBVIOUS
  <2>2. PICK m \in D : \A x \in D : m <= x
    <3>1. D \subseteq Nat
      OBVIOUS
    <3> HIDE DEF D
    <3> QED
      BY <2>1, <3>1, LeastExists
  <2>3. m \in Nat /\ m < n /\ g[m] # h[m] /\ m \in 0..(n - 1)
    BY <2>2
  <2>4. \A k \in 0..(m - 1) : g[k] = h[k]
    <3> TAKE k \in 0..(m - 1)
    <3>1. k \in Nat /\ k < n /\ ~ (m <= k)
      BY <2>3
    <3> QED
      BY <2>2, <3>1
  <2>5. g \in [Nat -> S] /\ h \in [Nat -> S]
    BY <1>2
  <2>6. F[<<m, g>>] = F[<<m, h>>]
    BY <2>3, <2>4, <2>5
  <2>7. g[m] = F[<<m, g>>] /\ h[m] = F[<<m, h>>]
    BY <1>2, <2>3
  <2> QED
    BY <2>3, <2>6, <2>7
<1> DEFINE G(n) == CHOOSE g : Upto(n + 1, g)
           f == [n \in Nat |-> G(n)[n]]
<1>3. ASSUME NEW n \in Nat PROVE Upto(n + 1, G(n))
  <2>1. n + 1 \in Nat
    OBVIOUS
  <2>2. \E g : Upto(n + 1, g)
    BY <1>1, <2>1
  <2> HIDE DEF Upto
  <2> QED
    BY <2>2
<1>4. ASSUME NEW n \in Nat PROVE G(n) \in [Nat -> S] /\ G(n)[n] = F[<<n, G(n)>>]
  <2>1. n \in 0..((n + 1) - 1)
    OBVIOUS
  <2>2. Upto(n + 1, G(n))
    BY <1>3
  <2> HIDE DEF G
  <2> QED
    BY <2>1, <2>2
<1>5. ASSUME NEW n \in Nat, NEW k \in 0..(n - 1) PROVE G(n)[k] = G(k)[k]
  <2>1. k \in Nat /\ k + 1 \in Nat /\ k \in 0..((k + 1) - 1) /\ \A j \in 0..((k + 1) - 1) : j \in 0..((n + 1) - 1)
    OBVIOUS
  <2>2. Upto(n + 1, G(n)) /\ Upto(k + 1, G(k))
    BY <1>3, <2>1
  <2> HIDE DEF G
  <2>3. Upto(k + 1, G(n))
    BY <2>1, <2>2
  <2> HIDE DEF Upto
  <2> QED
    BY <1>2, <2>1, <2>2, <2>3
<1> HIDE DEF G, Upto
<1>6. f \in [Nat -> S]
  BY <1>4
<1>7. \A n \in Nat : f[n] = F[<<n, f>>]
  <2> TAKE n \in Nat
  <2>1. \A k \in 0..(n - 1) : f[k] = G(n)[k]
    BY <1>5
  <2>2. f[n] = G(n)[n]
    OBVIOUS
  <2> HIDE DEF f
  <2>3. F[<<n, f>>] = F[<<n, G(n)>>]
    BY <1>4, <1>6, <2>1
  <2> QED
    BY <1>4, <2>2, <2>3
<1> HIDE DEF f
<1> QED
  BY <1>6, <1>7

-----------------------------------------------------------------------------
(* Json: the language, for texts of any length *)

JsonTexts == Seq(Char)

LEMMA JoinedIn ==
  ASSUME NEW A \in SUBSET JsonTexts, NEW B \in SUBSET JsonTexts, NEW sep \in JsonTexts
  PROVE  Joined(A, sep, B) \in SUBSET JsonTexts
<1>1. \A a \in A, b \in B : a \o sep \o b \in JsonTexts
  <2> TAKE a \in A, b \in B
  <2>1. a \in Seq(Char) /\ b \in Seq(Char) /\ sep \in Seq(Char)
    BY DEF JsonTexts
  <2>2. a \o sep \in Seq(Char)
    BY <2>1, ConcatProperties
  <2> QED
    BY <2>1, <2>2, ConcatProperties DEF JsonTexts
<1>2. ASSUME NEW x \in Joined(A, sep, B) PROVE x \in JsonTexts
  <2>1. PICK a \in A, b \in B : x = a \o sep \o b
    BY DEF Joined
  <2> QED
    BY <1>1, <2>1
<1> QED
  BY <1>2

LEMMA Singles == ASSUME NEW c \in Char PROVE <<c>> \in JsonTexts /\ <<c>> # <<>> /\ Len(<<c>>) = 1
BY DEF JsonTexts

LEMMA BodiesDefined ==
  \A n \in Nat :
    /\ Bodies[n] \in SUBSET JsonTexts
    /\ Bodies[n] = IF n = 0 THEN {<<>>}
                   ELSE Joined({<<c>> : c \in Plain \cup {"u"}}, <<>>, Bodies[n - 1])
                        \cup (IF n = 1 THEN {}
                              ELSE Joined({<<"\\", c>> : c \in Escapes}, <<>>, Bodies[n - 2]))
<1> DEFINE S == SUBSET JsonTexts
           one == {<<c>> : c \in Plain \cup {"u"}}
           two == {<<"\\", c>> : c \in Escapes}
           body(n, g) == IF n = 0 THEN {<<>>}
                         ELSE Joined(one, <<>>, g[n - 1])
                              \cup (IF n = 1 THEN {} ELSE Joined(two, <<>>, g[n - 2]))
           F == [x \in Nat \X [Nat -> S] |-> body(x[1], x[2])]
<1>1. one \in S /\ two \in S /\ <<>> \in JsonTexts
  <2>1. \A c \in Plain \cup {"u"} : c \in Char
    BY DEF Char, Chars
  <2>2. "\\" \in Char /\ \A c \in Escapes : c \in Char
    BY DEF Char, Chars
  <2>3. \A c \in Char : <<c>> \in Seq(Char) /\ <<"\\", c>> \in Seq(Char)
    BY <2>2
  <2>4. \A c \in Plain \cup {"u"} : <<c>> \in JsonTexts
    BY <2>1, <2>3 DEF JsonTexts
  <2>5. \A c \in Escapes : <<"\\", c>> \in JsonTexts
    BY <2>2, <2>3 DEF JsonTexts
  <2>6. <<>> \in JsonTexts
    BY DEF JsonTexts
  <2> QED
    BY Zenon, <2>4, <2>5, <2>6
<1>2. ASSUME NEW n \in Nat, NEW g \in [Nat -> S] PROVE body(n, g) \in S
  <2>1. n # 0 => n - 1 \in Nat /\ g[n - 1] \in S
    OBVIOUS
  <2>2. n # 0 /\ n # 1 => n - 2 \in Nat /\ g[n - 2] \in S
    OBVIOUS
  <2> HIDE DEF one, two
  <2>3. n # 0 => Joined(one, <<>>, g[n - 1]) \in S
    BY <1>1, <2>1, JoinedIn
  <2>4. n # 0 /\ n # 1 => Joined(two, <<>>, g[n - 2]) \in S
    BY <1>1, <2>2, JoinedIn
  <2>5. {<<>>} \in S
    BY <1>1
  <2> QED
    BY <2>3, <2>4, <2>5
<1>3. ASSUME NEW n \in Nat, NEW g, NEW h,
             \A k \in 0..(n - 1) : g[k] = h[k]
      PROVE  body(n, g) = body(n, h)
  <2>1. n # 0 => g[n - 1] = h[n - 1]
    BY <1>3
  <2>2. n # 0 /\ n # 1 => g[n - 2] = h[n - 2]
    BY <1>3
  <2> HIDE DEF one, two
  <2> QED
    BY <2>1, <2>2
<1> HIDE DEF body
<1>4. F \in [Nat \X [Nat -> S] -> S]
  BY <1>2
<1>5. \A n \in Nat, g \in [Nat -> S] : F[<<n, g>>] = body(n, g)
  OBVIOUS
<1> HIDE DEF F
<1>6. PICK g \in [Nat -> S] : \A n \in Nat : g[n] = F[<<n, g>>]
  <2>1. {} \in S
    OBVIOUS
  <2> HIDE DEF S
  <2>2. \A n \in Nat, g, h \in [Nat -> S] :
           (\A k \in 0..(n - 1) : g[k] = h[k]) => F[<<n, g>>] = F[<<n, h>>]
    BY <1>3, <1>5
  <2>3. F \in Rules(S)
    BY <1>4, <2>2 DEF Rules
  <2>4. PICK g \in [Nat -> S] : Obeys(g, F)
    BY <2>1, <2>3, RecursionExists
  <2> QED
    BY <2>4 DEF Obeys
<1>7. g = [n \in Nat |-> body(n, g)]
  BY <1>5, <1>6
<1>8. Bodies = [n \in Nat |-> body(n, Bodies)]
  BY <1>7 DEF Bodies, body
<1>9. ASSUME NEW n \in Nat PROVE Bodies[n] = body(n, Bodies)
  BY <1>8
<1>10. \A n \in Nat : Bodies[n] = g[n]
  <2> DEFINE D == {n \in Nat : Bodies[n] # g[n]}
  <2>1. SUFFICES ASSUME D # {} PROVE FALSE
    OBVIOUS
  <2>2. PICK m \in D : \A x \in D : m <= x
    <3>1. D \subseteq Nat
      OBVIOUS
    <3> HIDE DEF D
    <3> QED
      BY <2>1, <3>1, LeastExists
  <2>3. m \in Nat /\ Bodies[m] # g[m]
    BY <2>2
  <2>4. \A k \in 0..(m - 1) : Bodies[k] = g[k]
    <3> TAKE k \in 0..(m - 1)
    <3>1. k \in Nat /\ ~ (m <= k)
      BY <2>3
    <3> QED
      BY <2>2, <3>1
  <2>5. body(m, Bodies) = body(m, g)
    BY <1>3, <2>3, <2>4
  <2>6. g[m] = body(m, g)
    BY <1>5, <1>6, <2>3
  <2> QED
    BY <1>9, <2>3, <2>5, <2>6
<1>11. \A n \in Nat : Bodies[n] \in S
  BY <1>6, <1>10
<1> QED
  BY <1>9, <1>11 DEF body

LEMMA JoinedLengths ==
  ASSUME NEW A \in SUBSET JsonTexts, NEW B \in SUBSET JsonTexts, NEW sep \in JsonTexts
  PROVE  \A x \in Joined(A, sep, B) : \E a \in A, b \in B : Len(x) = Len(a) + Len(sep) + Len(b)
<1> TAKE x \in Joined(A, sep, B)
<1>1. PICK a \in A, b \in B : x = a \o sep \o b
  BY DEF Joined
<1>2. a \in Seq(Char) /\ b \in Seq(Char) /\ sep \in Seq(Char)
  BY DEF JsonTexts
<1>3. a \o sep \in Seq(Char) /\ Len(a \o sep) = Len(a) + Len(sep)
  BY <1>2, ConcatProperties
<1>4. Len((a \o sep) \o b) = Len(a \o sep) + Len(b)
  BY <1>2, <1>3, ConcatProperties
<1> QED
  BY <1>1, <1>3, <1>4

LEMMA BodyLengths == \A n \in Nat : \A w \in Bodies[n] : Len(w) = n
<1> DEFINE D == {n \in Nat : \E w \in Bodies[n] : Len(w) # n}
<1>1. SUFFICES ASSUME D # {} PROVE FALSE
  OBVIOUS
<1>2. PICK m \in D : \A x \in D : m <= x
  <2>1. D \subseteq Nat
    OBVIOUS
  <2> HIDE DEF D
  <2> QED
    BY <1>1, <2>1, LeastExists
<1>3. m \in Nat /\ \E w \in Bodies[m] : Len(w) # m
  BY <1>2
<1>4. \A k \in Nat : k < m => \A w \in Bodies[k] : Len(w) = k
  <2> TAKE k \in Nat
  <2>1. k < m => k \notin D
    BY <1>2, <1>3
  <2> QED
    BY <2>1
<1> HIDE DEF D
<1> DEFINE one == {<<c>> : c \in Plain \cup {"u"}}
           two == {<<"\\", c>> : c \in Escapes}
<1>5. one \in SUBSET JsonTexts /\ two \in SUBSET JsonTexts /\ <<>> \in JsonTexts /\ Len(<<>>) = 0
      /\ (\A a \in one : Len(a) = 1) /\ (\A a \in two : Len(a) = 2)
  <2>1. \A c \in Plain \cup {"u"} : c \in Char
    BY DEF Char, Chars
  <2>2. "\\" \in Char /\ \A c \in Escapes : c \in Char
    BY DEF Char, Chars
  <2>3. \A c \in Char : <<c>> \in Seq(Char) /\ <<"\\", c>> \in Seq(Char)
    BY <2>2
  <2>4. \A c \in Plain \cup {"u"} : <<c>> \in JsonTexts /\ Len(<<c>>) = 1
    BY <2>1, <2>3 DEF JsonTexts
  <2>5. \A c \in Escapes : <<"\\", c>> \in JsonTexts /\ Len(<<"\\", c>>) = 2
    BY <2>2, <2>3 DEF JsonTexts
  <2>6. <<>> \in JsonTexts /\ Len(<<>>) = 0
    BY DEF JsonTexts
  <2> QED
    BY Zenon, <2>4, <2>5, <2>6
<1> HIDE DEF one, two
<1>6. \A w \in Bodies[0] : w = <<>>
  <2>1. 0 \in Nat
    OBVIOUS
  <2>2. Bodies[0] = {<<>>}
    BY Zenon, <2>1, BodiesDefined
  <2> QED
    BY <2>2
<1>7. m # 0
  BY <1>3, <1>5, <1>6
<1>8. m - 1 \in Nat /\ (m # 1 => m - 2 \in Nat)
  BY <1>3, <1>7
<1>9. Bodies[m - 1] \in SUBSET JsonTexts /\ \A w \in Bodies[m - 1] : Len(w) = m - 1
  <2>1. PICK k \in Nat : k = m - 1 /\ k < m
    BY <1>3, <1>8
  <2>2. Bodies[k] \in SUBSET JsonTexts /\ \A w \in Bodies[k] : Len(w) = k
    BY Zenon, <1>4, <2>1, BodiesDefined
  <2> QED
    BY <2>1, <2>2
<1>10. \A w \in Joined(one, <<>>, Bodies[m - 1]) : Len(w) = m
  <2> TAKE w \in Joined(one, <<>>, Bodies[m - 1])
  <2>1. \A x \in Joined(one, <<>>, Bodies[m - 1]) :
          \E a \in one, b \in Bodies[m - 1] : Len(x) = Len(a) + Len(<<>>) + Len(b)
    BY <1>5, <1>9, JoinedLengths
  <2>2. PICK a \in one, b \in Bodies[m - 1] : Len(w) = Len(a) + Len(<<>>) + Len(b)
    BY <2>1
  <2>3. Len(w) = 1 + 0 + (m - 1)
    BY <1>5, <1>9, <2>2
  <2> QED
    BY <1>3, <2>3
<1>11. m # 1 => \A w \in Joined(two, <<>>, Bodies[m - 2]) : Len(w) = m
  <2> SUFFICES ASSUME m # 1, NEW w \in Joined(two, <<>>, Bodies[m - 2]) PROVE Len(w) = m
    OBVIOUS
  <2>1. Bodies[m - 2] \in SUBSET JsonTexts /\ \A b \in Bodies[m - 2] : Len(b) = m - 2
    <3>1. PICK k \in Nat : k = m - 2 /\ k < m
      BY <1>3, <1>8
    <3>2. Bodies[k] \in SUBSET JsonTexts /\ \A b \in Bodies[k] : Len(b) = k
      BY Zenon, <1>4, <3>1, BodiesDefined
    <3> QED
      BY <3>1, <3>2
  <2>2. \A x \in Joined(two, <<>>, Bodies[m - 2]) :
          \E a \in two, b \in Bodies[m - 2] : Len(x) = Len(a) + Len(<<>>) + Len(b)
    BY <1>5, <2>1, JoinedLengths
  <2>3. PICK a \in two, b \in Bodies[m - 2] : Len(w) = Len(a) + Len(<<>>) + Len(b)
    BY <2>2
  <2>4. Len(w) = 2 + 0 + (m - 2)
    BY <1>5, <2>1, <2>3
  <2> QED
    BY <1>3, <2>4
<1>12. Bodies[m] = Joined(one, <<>>, Bodies[m - 1])
                   \cup (IF m = 1 THEN {} ELSE Joined(two, <<>>, Bodies[m - 2]))
  BY <1>3, <1>7, BodiesDefined DEF one, two
<1> QED
  BY <1>3, <1>10, <1>11, <1>12

-----------------------------------------------------------------------------
(* Json: texts *)

LEMMA ConsIs ==
  /\ \A c \in Char, u \in JsonTexts : <<c>> \o u \in JsonTexts /\ Len(<<c>> \o u) = Len(u) + 1
                                      /\ <<c>> \o u # <<>>
  /\ \A c, d \in Char, u, v \in JsonTexts : <<c>> \o u = <<d>> \o v <=> c = d /\ u = v
<1>1. ASSUME NEW c \in Char, NEW u \in JsonTexts
      PROVE  /\ <<c>> \o u \in JsonTexts /\ Len(<<c>> \o u) = Len(u) + 1 /\ <<c>> \o u # <<>>
             /\ (<<c>> \o u)[1] = c /\ \A k \in 1..Len(u) : (<<c>> \o u)[k + 1] = u[k]
  <2>1. u \in Seq(Char) /\ <<c>> \in Seq(Char) /\ Len(<<c>>) = 1 /\ <<c>>[1] = c /\ Len(u) \in Nat
    BY DEF JsonTexts
  <2>2. /\ <<c>> \o u \in Seq(Char) /\ Len(<<c>> \o u) = Len(<<c>>) + Len(u)
        /\ \A m \in 1..Len(<<c>>) + Len(u) :
             (<<c>> \o u)[m] = IF m <= Len(<<c>>) THEN <<c>>[m] ELSE u[m - Len(<<c>>)]
    BY <2>1, ConcatProperties
  <2>3. (<<c>> \o u)[1] = c
    BY <2>1, <2>2
  <2>4. \A k \in 1..Len(u) : (<<c>> \o u)[k + 1] = u[k]
    BY <2>1, <2>2
  <2>5. <<c>> \o u # <<>>
    BY <2>1, <2>2, EmptySeq
  <2> QED
    BY <2>1, <2>2, <2>3, <2>4, <2>5 DEF JsonTexts
<1>2. ASSUME NEW c \in Char, NEW d \in Char, NEW u \in JsonTexts, NEW v \in JsonTexts,
             <<c>> \o u = <<d>> \o v
      PROVE  c = d /\ u = v
  <2>1. c = d /\ Len(u) + 1 = Len(v) + 1
    BY <1>1, <1>2
  <2>2. u \in Seq(Char) /\ v \in Seq(Char) /\ Len(u) = Len(v) /\ \A k \in 1..Len(u) : u[k] = v[k]
    BY <1>1, <1>2, <2>1 DEF JsonTexts
  <2> QED
    BY <2>1, <2>2, SeqEqual
<1>3. \A c, d \in Char, u, v \in JsonTexts : <<c>> \o u = <<d>> \o v <=> c = d /\ u = v
  BY Zenon, <1>2
<1>4. \A c \in Char, u \in JsonTexts : <<c>> \o u \in JsonTexts /\ Len(<<c>> \o u) = Len(u) + 1
                                         /\ <<c>> \o u # <<>>
  BY <1>1
<1> QED
  BY Zenon, <1>3, <1>4

LEMMA ConsExists == \A w \in JsonTexts : w # <<>> => \E c \in Char, u \in JsonTexts : w = <<c>> \o u
<1> TAKE w \in JsonTexts
<1> HAVE w # <<>>
<1>1. w \in Seq(Char) /\ Head(w) \in Char /\ Tail(w) \in Seq(Char) /\ Len(w) \in Nat /\ Len(w) > 0
      /\ Len(Tail(w)) = Len(w) - 1
  BY HeadTailProperties, EmptySeq DEF JsonTexts
<1>2. Tail(w) \in JsonTexts
  BY <1>1 DEF JsonTexts
<1>3. w = <<Head(w)>> \o Tail(w)
  <2>1. \A k \in 1..Len(Tail(w)) : Tail(w)[k] = w[k + 1]
    BY <1>1, HeadTailProperties
  <2>2. Head(w) = w[1]
    BY <1>1
  <2>3. <<Head(w)>> \in Seq(Char) /\ Len(<<Head(w)>>) = 1 /\ <<Head(w)>>[1] = Head(w)
    BY <1>1
  <2>4. /\ <<Head(w)>> \o Tail(w) \in Seq(Char) /\ Len(<<Head(w)>> \o Tail(w)) = 1 + Len(Tail(w))
        /\ \A m \in 1..1 + Len(Tail(w)) :
             (<<Head(w)>> \o Tail(w))[m] = IF m <= 1 THEN <<Head(w)>>[m] ELSE Tail(w)[m - 1]
    BY <1>1, <2>3, ConcatProperties
  <2>5. \A m \in 1..Len(w) : w[m] = (<<Head(w)>> \o Tail(w))[m]
    <3> TAKE m \in 1..Len(w)
    <3>1. m = 1 \/ m - 1 \in 1..Len(Tail(w))
      BY <1>1
    <3> QED
      BY <1>1, <2>1, <2>2, <2>3, <2>4, <3>1
  <2> QED
    BY <1>1, <2>4, <2>5, SeqEqual
<1> QED
  BY <1>1, <1>2, <1>3

LEMMA CatIs ==
  /\ \A u, v \in JsonTexts : u \o v \in JsonTexts /\ Len(u \o v) = Len(u) + Len(v)
  /\ \A u, v, w \in JsonTexts : (u \o v) \o w = u \o (v \o w)
  /\ <<>> \in JsonTexts /\ Len(<<>>) = 0
  /\ \A u \in JsonTexts : u \o <<>> = u /\ <<>> \o u = u /\ Len(u) \in Nat
  /\ \A u \in JsonTexts : Len(u) = 0 => u = <<>>
  /\ \A u, v \in JsonTexts : u \o v = <<>> <=> u = <<>> /\ v = <<>>
<1>1. \A u, v \in JsonTexts : u \o v \in JsonTexts /\ Len(u \o v) = Len(u) + Len(v)
  BY ConcatProperties DEF JsonTexts
<1>2. \A u, v, w \in JsonTexts : (u \o v) \o w = u \o (v \o w)
  BY ConcatAssociative DEF JsonTexts
<1>3. <<>> \in JsonTexts /\ Len(<<>>) = 0
  BY DEF JsonTexts
<1>4. \A u \in JsonTexts : u \o <<>> = u /\ <<>> \o u = u
  BY ConcatEmptySeq DEF JsonTexts
<1>5. \A u \in JsonTexts : Len(u) \in Nat /\ (Len(u) = 0 => u = <<>>)
  BY EmptySeq DEF JsonTexts
<1>6. \A u, v \in JsonTexts : u \o v = <<>> <=> u = <<>> /\ v = <<>>
  BY <1>1, <1>3, <1>4, <1>5
<1> QED
  BY <1>1, <1>2, <1>3, <1>4, <1>5, <1>6

\* A name for \o, as Cons of SequencesExt is one for <<c>> \o u: under them the
\* provers see only the facts cited.
Cat(u, v) == u \o v

LEMMA CatAssociates ==
  \A u, v, w \in JsonTexts :
    Cat(Cat(u, v), w) = Cat(u, Cat(v, w)) /\ Cat(u, v) \in JsonTexts /\ Cat(v, w) \in JsonTexts
<1> TAKE u, v, w \in JsonTexts
<1>1. u \in Seq(Char) /\ v \in Seq(Char) /\ w \in Seq(Char)
  BY DEF JsonTexts
<1>2. (u \o v) \o w = u \o (v \o w)
  BY <1>1, ConcatAssociative
<1>3. u \o v \in Seq(Char) /\ v \o w \in Seq(Char)
  BY <1>1, ConcatProperties
<1> QED
  BY <1>2, <1>3 DEF JsonTexts, Cat

LEMMA CatLen ==
  \A u, v \in JsonTexts : u \o v \in JsonTexts /\ Len(u \o v) = Len(u) + Len(v) /\ Len(u) \in Nat
BY CatIs

LEMMA StringsIn == \A n \in Nat : Strings(n) \in SUBSET JsonTexts /\ \A w \in Strings(n) : Len(w) = n
<1> TAKE n \in Nat
<1>1. SUFFICES ASSUME NEW w \in Strings(n) PROVE w \in JsonTexts /\ Len(w) = n
  OBVIOUS
<1>2. ~ (n < 2) /\ n - 2 \in Nat
  <2>1. n < 2 => Strings(n) = {}
    BY DEF Strings
  <2> QED
    BY <1>1, <2>1
<1>3. PICK b \in Bodies[n - 2] : w = <<"\"">> \o b \o <<"\"">>
  BY <1>1, <1>2 DEF Strings
<1>4. b \in JsonTexts /\ Len(b) = n - 2
  <2>1. PICK k \in Nat : k = n - 2
    BY <1>2
  <2>2. Bodies[k] \in SUBSET JsonTexts /\ \A x \in Bodies[k] : Len(x) = k
    BY Zenon, BodiesDefined, BodyLengths
  <2> QED
    BY <2>1, <2>2
<1>5. PICK q \in JsonTexts : q = <<"\"">> /\ Len(q) = 1
  BY Singles DEF Char, Chars
<1>6. q \o b \in JsonTexts /\ Len(q \o b) = n - 1
  <2>1. q \o b \in JsonTexts /\ Len(q \o b) = Len(q) + Len(b)
    BY Zenon, <1>4, <1>5, CatLen
  <2>2. 1 + (n - 2) = n - 1
    OBVIOUS
  <2> QED
    BY <1>4, <1>5, <2>1, <2>2
<1>7. (q \o b) \o q \in JsonTexts /\ Len((q \o b) \o q) = n
  <2>1. (q \o b) \o q \in JsonTexts /\ Len((q \o b) \o q) = Len(q \o b) + Len(q)
    BY Zenon, <1>5, <1>6, CatLen
  <2>2. (n - 1) + 1 = n
    OBVIOUS
  <2> QED
    BY <1>5, <1>6, <2>1, <2>2
<1> QED
  BY <1>3, <1>5, <1>7

Phrases == [values : SUBSET JsonTexts, pairs : SUBSET JsonTexts,
            items : SUBSET JsonTexts, members : SUBSET JsonTexts]

\* The equations of Grammar, with g for what is shorter.
Within(n, g, what) == IF n < 2 THEN {} ELSE IF n = 2 THEN {<<>>} ELSE g[n - 2][what]
ValuesOf(n, g) == {[k \in 1..n |-> "1"]} \cup Strings(n)
                  \cup {<<"[">> \o b \o <<"]">> : b \in Within(n, g, "items")}
                  \cup {<<"{">> \o b \o <<"}">> : b \in Within(n, g, "members")}
PairsOf(n, g) == UNION {Joined(Strings(k), <<":">>, g[n - 1 - k].values) : k \in 2..(n - 2)}
ListOf(n, g, single, one, what) ==
  single \cup UNION {Joined(g[k][one], <<",">>, g[n - 1 - k][what]) : k \in 1..(n - 2)}
PhrasesOf(n, g) == [values |-> ValuesOf(n, g), pairs |-> PairsOf(n, g),
                    items |-> ListOf(n, g, ValuesOf(n, g), "values", "items"),
                    members |-> ListOf(n, g, PairsOf(n, g), "pairs", "members")]

LEMMA PhrasesIn ==
  ASSUME NEW n \in Nat, NEW g \in [Nat -> Phrases]
  PROVE  PhrasesOf(n, g) \in Phrases
<1>1. \A k \in Nat, what \in {"values", "pairs", "items", "members"} : g[k][what] \in SUBSET JsonTexts
  <2> TAKE k \in Nat, what \in {"values", "pairs", "items", "members"}
  <2>1. g[k] \in Phrases
    OBVIOUS
  <2> QED
    BY <2>1 DEF Phrases
<1>2. \A k \in Nat : g[k].values \in SUBSET JsonTexts
  <2> TAKE k \in Nat
  <2>1. g[k] \in Phrases
    OBVIOUS
  <2> QED
    BY <2>1 DEF Phrases
<1>3. /\ <<>> \in JsonTexts /\ <<":">> \in JsonTexts /\ <<",">> \in JsonTexts /\ <<"[">> \in JsonTexts
      /\ <<"]">> \in JsonTexts /\ <<"{">> \in JsonTexts /\ <<"}">> \in JsonTexts
  <2>1. {":", ",", "[", "]", "{", "}"} \subseteq Char
    BY DEF Char, Chars, Open, Close
  <2> QED
    BY <2>1, Singles, CatIs
<1>4. \A what \in {"items", "members"} : Within(n, g, what) \in SUBSET JsonTexts
  <2> TAKE what \in {"items", "members"}
  <2>1. CASE n < 2
    BY <2>1 DEF Within
  <2>2. CASE n = 2
    BY <1>3, <2>2 DEF Within
  <2>3. CASE n > 2
    <3>1. n - 2 \in Nat
      BY <2>3
    <3>2. Within(n, g, what) = g[n - 2][what]
      BY <2>3 DEF Within
    <3> QED
      BY <1>1, <3>1, <3>2
  <2> QED
    BY <2>1, <2>2, <2>3
<1>5. ValuesOf(n, g) \in SUBSET JsonTexts
  <2>1. SUFFICES ASSUME NEW x \in ValuesOf(n, g) PROVE x \in JsonTexts
    OBVIOUS
  <2>2. \/ x = [k \in 1..n |-> "1"]
        \/ x \in Strings(n)
        \/ \E b \in Within(n, g, "items") : x = <<"[">> \o b \o <<"]">>
        \/ \E b \in Within(n, g, "members") : x = <<"{">> \o b \o <<"}">>
    BY <2>1 DEF ValuesOf
  <2>3. CASE x = [k \in 1..n |-> "1"]
    <3>1. "1" \in Char
      BY DEF Char, Chars
    <3>2. \A k \in 1..n : "1" \in Char
      BY <3>1
    <3>3. [k \in 1..n |-> "1"] \in Seq(Char)
      BY <3>2, IsASeq
    <3> QED
      BY <2>3, <3>3 DEF JsonTexts
  <2>4. CASE x \in Strings(n)
    BY <2>4, StringsIn
  <2>5. CASE \E b \in Within(n, g, "items") : x = <<"[">> \o b \o <<"]">>
    <3>1. PICK b \in JsonTexts : x = <<"[">> \o b \o <<"]">>
      BY <1>4, <2>5
    <3> QED
      BY <1>3, <3>1, CatIs
  <2>6. CASE \E b \in Within(n, g, "members") : x = <<"{">> \o b \o <<"}">>
    <3>1. PICK b \in JsonTexts : x = <<"{">> \o b \o <<"}">>
      BY <1>4, <2>6
    <3> QED
      BY <1>3, <3>1, CatIs
  <2> QED
    BY <2>2, <2>3, <2>4, <2>5, <2>6
<1>6. PairsOf(n, g) \in SUBSET JsonTexts
  <2>1. \A k \in 2..(n - 2) : Joined(Strings(k), <<":">>, g[n - 1 - k].values) \in SUBSET JsonTexts
    <3> TAKE k \in 2..(n - 2)
    <3>1. k \in Nat /\ n - 1 - k \in Nat
      OBVIOUS
    <3>2. Strings(k) \in SUBSET JsonTexts /\ g[n - 1 - k].values \in SUBSET JsonTexts
      BY <1>2, <3>1, StringsIn
    <3> QED
      BY <1>3, <3>2, JoinedIn
  <2> QED
    BY <2>1 DEF PairsOf
<1>7. ASSUME NEW one \in {"values", "pairs", "items", "members"},
             NEW what \in {"values", "pairs", "items", "members"}, NEW single \in SUBSET JsonTexts
      PROVE  ListOf(n, g, single, one, what) \in SUBSET JsonTexts
  <2>1. \A k \in 1..(n - 2) : Joined(g[k][one], <<",">>, g[n - 1 - k][what]) \in SUBSET JsonTexts
    <3> TAKE k \in 1..(n - 2)
    <3>1. k \in Nat /\ n - 1 - k \in Nat
      OBVIOUS
    <3>2. g[k][one] \in SUBSET JsonTexts /\ g[n - 1 - k][what] \in SUBSET JsonTexts
      BY <1>1, <3>1
    <3> QED
      BY <1>3, <3>2, JoinedIn
  <2> QED
    BY <2>1 DEF ListOf
<1>8. /\ ListOf(n, g, ValuesOf(n, g), "values", "items") \in SUBSET JsonTexts
      /\ ListOf(n, g, PairsOf(n, g), "pairs", "members") \in SUBSET JsonTexts
  BY <1>5, <1>6, <1>7
<1> QED
  BY <1>5, <1>6, <1>8 DEF PhrasesOf, Phrases

LEMMA PhrasesAlike ==
  ASSUME NEW n \in Nat, NEW g, NEW h, \A k \in 0..(n - 1) : g[k] = h[k]
  PROVE  PhrasesOf(n, g) = PhrasesOf(n, h)
<1>1. \A what \in {"items", "members"} : Within(n, g, what) = Within(n, h, what)
  <2> TAKE what \in {"items", "members"}
  <2>1. n > 2 => n - 2 \in 0..(n - 1) /\ g[n - 2] = h[n - 2]
    OBVIOUS
  <2> QED
    BY <2>1 DEF Within
<1>2. ValuesOf(n, g) = ValuesOf(n, h)
  BY <1>1 DEF ValuesOf
<1>3. PairsOf(n, g) = PairsOf(n, h)
  <2>1. \A k \in 2..(n - 2) : g[n - 1 - k] = h[n - 1 - k]
    OBVIOUS
  <2>2. \A k \in 2..(n - 2) : Joined(Strings(k), <<":">>, g[n - 1 - k].values)
                              = Joined(Strings(k), <<":">>, h[n - 1 - k].values)
    BY <2>1
  <2> QED
    BY <2>2 DEF PairsOf
<1>4. ASSUME NEW single, NEW one, NEW what PROVE ListOf(n, g, single, one, what) = ListOf(n, h, single, one, what)
  <2>1. \A k \in 1..(n - 2) : g[k] = h[k] /\ g[n - 1 - k] = h[n - 1 - k]
    OBVIOUS
  <2>2. \A k \in 1..(n - 2) : Joined(g[k][one], <<",">>, g[n - 1 - k][what])
                              = Joined(h[k][one], <<",">>, h[n - 1 - k][what])
    BY <2>1
  <2> QED
    BY <2>2 DEF ListOf
<1> QED
  BY <1>2, <1>3, <1>4 DEF PhrasesOf

LEMMA GrammarDefined == \A n \in Nat : Grammar[n] \in Phrases /\ Grammar[n] = PhrasesOf(n, Grammar)
<1> DEFINE F == [x \in Nat \X [Nat -> Phrases] |-> PhrasesOf(x[1], x[2])]
<1>1. F \in [Nat \X [Nat -> Phrases] -> Phrases]
  BY PhrasesIn
<1>2. \A n \in Nat, g \in [Nat -> Phrases] : F[<<n, g>>] = PhrasesOf(n, g)
  OBVIOUS
<1> HIDE DEF F
<1>3. PICK g \in [Nat -> Phrases] : \A n \in Nat : g[n] = F[<<n, g>>]
  <2>1. PICK none : none \in Phrases
    <3>1. [values |-> {}, pairs |-> {}, items |-> {}, members |-> {}] \in Phrases
      BY DEF Phrases
    <3> QED
      BY <3>1
  <2>2. \A n \in Nat, h, j \in [Nat -> Phrases] :
           (\A k \in 0..(n - 1) : h[k] = j[k]) => F[<<n, h>>] = F[<<n, j>>]
    BY <1>2, PhrasesAlike
  <2>3. F \in Rules(Phrases)
    BY <1>1, <2>2 DEF Rules
  <2>4. PICK g \in [Nat -> Phrases] : Obeys(g, F)
    BY <2>1, <2>3, RecursionExists
  <2> QED
    BY <2>4 DEF Obeys
<1>4. g = [n \in Nat |-> PhrasesOf(n, g)]
  BY <1>2, <1>3
<1>5. Grammar = [n \in Nat |-> PhrasesOf(n, Grammar)]
  <2>1. Grammar = CHOOSE f : f = [n \in Nat |-> PhrasesOf(n, f)]
    BY Zenon DEF Grammar, PhrasesOf, ValuesOf, PairsOf, ListOf, Within
  <2> QED
    BY Zenon, <1>4, <2>1
<1>6. \A n \in Nat : Grammar[n] = PhrasesOf(n, Grammar)
  BY <1>5
<1>7. \A n \in Nat : Grammar[n] = g[n]
  <2> DEFINE D == {n \in Nat : Grammar[n] # g[n]}
  <2>1. SUFFICES ASSUME D # {} PROVE FALSE
    OBVIOUS
  <2>2. PICK m \in D : \A x \in D : m <= x
    <3>1. D \subseteq Nat
      OBVIOUS
    <3> HIDE DEF D
    <3> QED
      BY <2>1, <3>1, LeastExists
  <2>3. m \in Nat /\ Grammar[m] # g[m]
    BY <2>2
  <2>4. \A k \in 0..(m - 1) : Grammar[k] = g[k]
    <3> TAKE k \in 0..(m - 1)
    <3>1. k \in Nat /\ ~ (m <= k)
      BY <2>3
    <3> QED
      BY <2>2, <3>1
  <2>5. PhrasesOf(m, Grammar) = PhrasesOf(m, g)
    BY <2>3, <2>4, PhrasesAlike
  <2>6. g[m] = PhrasesOf(m, g)
    BY <1>2, <1>3, <2>3
  <2> QED
    BY <1>6, <2>3, <2>5, <2>6
<1> QED
  BY <1>3, <1>6, <1>7

Kinds == {"values", "pairs", "items", "members"}

\* Nothing of a list shorter than n is longer than it should be.
LEMMA JoinedLength ==
  ASSUME NEW A \in SUBSET JsonTexts, NEW B \in SUBSET JsonTexts, NEW sep \in JsonTexts, Len(sep) = 1,
         NEW n \in Nat, NEW k \in 1..(n - 2), \A a \in A : Len(a) = k, \A b \in B : Len(b) = n - 1 - k
  PROVE  \A w \in Joined(A, sep, B) : Len(w) = n
<1> TAKE w \in Joined(A, sep, B)
<1>1. PICK a \in A, b \in B : Len(w) = Len(a) + Len(sep) + Len(b)
  <2>1. \A x \in Joined(A, sep, B) : \E a \in A, b \in B : Len(x) = Len(a) + Len(sep) + Len(b)
    BY JoinedLengths
  <2> QED
    BY <2>1
<1>2. Len(w) = k + 1 + (n - 1 - k)
  BY <1>1
<1> QED
  BY <1>2

LEMMA Wrapped ==
  ASSUME NEW b \in JsonTexts, NEW c \in Char, NEW d \in Char
  PROVE  <<c>> \o b \o <<d>> \in JsonTexts /\ Len(<<c>> \o b \o <<d>>) = Len(b) + 2
<1>1. PICK x \in JsonTexts, y \in JsonTexts : x = <<c>> /\ y = <<d>> /\ Len(x) = 1 /\ Len(y) = 1
  BY Singles
<1>2. x \o b \in JsonTexts /\ Len(x \o b) = Len(x) + Len(b) /\ Len(b) \in Nat
  BY Zenon, <1>1, CatLen
<1>3. (x \o b) \o y \in JsonTexts /\ Len((x \o b) \o y) = Len(x \o b) + Len(y)
  BY Zenon, <1>1, <1>2, CatLen
<1> QED
  BY <1>1, <1>2, <1>3

LEMMA GrammarIn == \A n \in Nat : \A what \in Kinds : Grammar[n][what] \in SUBSET JsonTexts
<1> TAKE n \in Nat
<1>1. Grammar[n] \in Phrases
  BY GrammarDefined
<1> QED
  BY <1>1 DEF Phrases, Kinds

LEMMA GrammarFields ==
  \A n \in Nat : /\ Grammar[n].values = ValuesOf(n, Grammar) /\ Grammar[n].pairs = PairsOf(n, Grammar)
                 /\ Grammar[n].items = ListOf(n, Grammar, ValuesOf(n, Grammar), "values", "items")
                 /\ Grammar[n].members = ListOf(n, Grammar, PairsOf(n, Grammar), "pairs", "members")
<1> TAKE n \in Nat
<1>1. Grammar[n] = PhrasesOf(n, Grammar)
  BY GrammarDefined
<1> QED
  BY <1>1 DEF PhrasesOf

LEMMA GrammarLengths == \A n \in Nat : \A what \in Kinds : \A w \in Grammar[n][what] : Len(w) = n
<1> DEFINE D == {n \in Nat : \E what \in Kinds : \E w \in Grammar[n][what] : Len(w) # n}
<1>1. SUFFICES ASSUME D # {} PROVE FALSE
  OBVIOUS
<1>2. PICK m \in D : \A x \in D : m <= x
  <2>1. D \subseteq Nat
    OBVIOUS
  <2> HIDE DEF D
  <2> QED
    BY <1>1, <2>1, LeastExists
<1>3. m \in Nat /\ \E what \in Kinds : \E w \in Grammar[m][what] : Len(w) # m
  BY <1>2
<1>4. \A k \in Nat : k < m => \A what \in Kinds : \A w \in Grammar[k][what] : Len(w) = k
  <2> TAKE k \in Nat
  <2>1. k < m => k \notin D
    BY <1>2, <1>3
  <2> QED
    BY <2>1
<1> HIDE DEF D
<1>5. \A what \in {"items", "members"} : \A b \in Within(m, Grammar, what) : b \in JsonTexts /\ Len(b) = m - 2
  <2> TAKE what \in {"items", "members"}
  <2> TAKE b \in Within(m, Grammar, what)
  <2>1. ~ (m < 2)
    BY <1>3 DEF Within
  <2>2. CASE m = 2
    BY <2>2, CatIs DEF Within
  <2>3. CASE m > 2
    <3>1. PICK k \in Nat : k = m - 2 /\ k < m
      BY <1>3, <2>3
    <3>2. b \in Grammar[k][what] /\ what \in Kinds
      BY <1>3, <2>3, <3>1 DEF Within, Kinds
    <3> QED
      BY <1>4, <3>1, <3>2, GrammarIn
  <2> QED
    BY <1>3, <2>1, <2>2, <2>3
<1>6. \A w \in ValuesOf(m, Grammar) : Len(w) = m
  <2> TAKE x \in ValuesOf(m, Grammar)
  <2>2. \/ x = [k \in 1..m |-> "1"]
        \/ x \in Strings(m)
        \/ \E b \in Within(m, Grammar, "items") : x = <<"[">> \o b \o <<"]">>
        \/ \E b \in Within(m, Grammar, "members") : x = <<"{">> \o b \o <<"}">>
    BY DEF ValuesOf
  <2>3. CASE x = [k \in 1..m |-> "1"]
    <3>1. "1" \in Char
      BY DEF Char, Chars
    <3>2. \A k \in 1..m : "1" \in Char
      BY <3>1
    <3>3. x \in Seq(Char) /\ DOMAIN x = 1..m
      BY <1>3, <2>3, <3>2, IsASeq
    <3> QED
      BY <1>3, <3>3, LenProperties
  <2>4. CASE x \in Strings(m)
    BY <1>3, <2>4, StringsIn
  <2>5. "[" \in Char /\ "]" \in Char /\ "{" \in Char /\ "}" \in Char
    BY DEF Char, Chars, Open, Close
  <2>6. CASE \E b \in Within(m, Grammar, "items") : x = <<"[">> \o b \o <<"]">>
    <3>1. PICK b \in Within(m, Grammar, "items") : x = <<"[">> \o b \o <<"]">>
      BY <2>6
    <3>2. b \in JsonTexts /\ Len(b) = m - 2
      BY <1>5
    <3>3. Len(x) = Len(b) + 2
      BY <2>5, <3>1, <3>2, Wrapped
    <3> QED
      BY <1>3, <3>2, <3>3
  <2>7. CASE \E b \in Within(m, Grammar, "members") : x = <<"{">> \o b \o <<"}">>
    <3>1. PICK b \in Within(m, Grammar, "members") : x = <<"{">> \o b \o <<"}">>
      BY <2>7
    <3>2. b \in JsonTexts /\ Len(b) = m - 2
      BY <1>5
    <3>3. Len(x) = Len(b) + 2
      BY <2>5, <3>1, <3>2, Wrapped
    <3> QED
      BY <1>3, <3>2, <3>3
  <2> QED
    BY <2>2, <2>3, <2>4, <2>6, <2>7
<1>7. <<":">> \in JsonTexts /\ <<",">> \in JsonTexts /\ Len(<<":">>) = 1 /\ Len(<<",">>) = 1
  BY Singles DEF Char, Chars
<1>8. \A w \in PairsOf(m, Grammar) : Len(w) = m
  <2> TAKE w \in PairsOf(m, Grammar)
  <2>1. PICK k \in 2..(m - 2) : w \in Joined(Strings(k), <<":">>, Grammar[m - 1 - k].values)
    BY DEF PairsOf
  <2>2. k \in Nat /\ k \in 1..(m - 2) /\ Strings(k) \in SUBSET JsonTexts /\ \A a \in Strings(k) : Len(a) = k
    BY <1>3, StringsIn
  <2>3. PICK j \in Nat : j = m - 1 - k /\ j < m
    BY <1>3
  <2>4. Grammar[j].values \in SUBSET JsonTexts /\ \A b \in Grammar[j].values : Len(b) = j
    BY <1>4, <2>3, GrammarIn DEF Kinds
  <2> QED
    BY <1>3, <1>7, <2>1, <2>2, <2>3, <2>4, JoinedLength
<1>9. ASSUME NEW one \in Kinds, NEW what \in Kinds, NEW single, \A w \in single : Len(w) = m
      PROVE  \A w \in ListOf(m, Grammar, single, one, what) : Len(w) = m
  <2> TAKE w \in ListOf(m, Grammar, single, one, what)
  <2>1. CASE w \in single
    BY <1>9, <2>1
  <2>2. CASE w \notin single
    <3>1. PICK k \in 1..(m - 2) : w \in Joined(Grammar[k][one], <<",">>, Grammar[m - 1 - k][what])
      BY <2>2 DEF ListOf
    <3>2. k \in Nat /\ k < m
      BY <1>3
    <3>3. Grammar[k][one] \in SUBSET JsonTexts /\ \A a \in Grammar[k][one] : Len(a) = k
      BY <1>4, <3>2, GrammarIn
    <3>4. PICK j \in Nat : j = m - 1 - k /\ j < m
      BY <1>3
    <3>5. Grammar[j][what] \in SUBSET JsonTexts /\ \A b \in Grammar[j][what] : Len(b) = j
      BY <1>4, <3>4, GrammarIn
    <3> QED
      BY <1>3, <1>7, <3>1, <3>3, <3>4, <3>5, JoinedLength
  <2> QED
    BY <2>1, <2>2
<1>10. \A what \in Kinds : \A w \in Grammar[m][what] : Len(w) = m
  <2>1. \A w \in ListOf(m, Grammar, ValuesOf(m, Grammar), "values", "items") : Len(w) = m
    BY <1>6, <1>9 DEF Kinds
  <2>2. \A w \in ListOf(m, Grammar, PairsOf(m, Grammar), "pairs", "members") : Len(w) = m
    BY <1>8, <1>9 DEF Kinds
  <2>3. /\ Grammar[m].values = ValuesOf(m, Grammar) /\ Grammar[m].pairs = PairsOf(m, Grammar)
        /\ Grammar[m].items = ListOf(m, Grammar, ValuesOf(m, Grammar), "values", "items")
        /\ Grammar[m].members = ListOf(m, Grammar, PairsOf(m, Grammar), "pairs", "members")
    BY <1>3, GrammarFields
  <2> QED
    BY <1>6, <1>8, <2>1, <2>2, <2>3 DEF Kinds
<1> QED
  BY <1>3, <1>10

\* Phrases of a kind, of any length; the grammar has one without characters at 0 only.
Phrase(what) == {w \in JsonTexts : w # <<>> /\ w \in Grammar[Len(w)][what]}
JsonValue == Phrase("values")
Listed(open) == Phrase(IF open = "{" THEN "members" ELSE "items")
Element(open) == Phrase(IF open = "{" THEN "pairs" ELSE "values")
StringBody == {w \in JsonTexts : w \in Bodies[Len(w)]}
Ones == {w \in JsonTexts : \A k \in 1..Len(w) : w[k] = "1"}
StringText == {<<"\"">> \o b \o <<"\"">> : b \in StringBody}

LEMMA StringTextIs == \A w \in JsonTexts : w \in StringText <=> w \in Strings(Len(w))
<1> TAKE w \in JsonTexts
<1>1. PICK q \in Char : q = "\""
  BY DEF Char, Chars
<1>2. PICK n \in Nat : n = Len(w)
  BY CatLen
<1>3. ASSUME w \in StringText PROVE w \in Strings(n)
  <2>1. PICK b \in StringBody : w = <<q>> \o b \o <<q>>
    BY <1>1, <1>3 DEF StringText
  <2>2. b \in JsonTexts /\ b \in Bodies[Len(b)] /\ Len(b) \in Nat
    BY CatLen DEF StringBody
  <2>3. n = Len(b) + 2
    BY <1>1, <1>2, <2>1, <2>2, Wrapped
  <2>4. ~ (n < 2) /\ n - 2 = Len(b)
    BY <2>2, <2>3
  <2> QED
    BY <1>1, <2>1, <2>2, <2>4 DEF Strings
<1>4. ASSUME w \in Strings(n) PROVE w \in StringText
  <2>1. ~ (n < 2)
    <3>1. n < 2 => Strings(n) = {}
      BY DEF Strings
    <3> QED
      BY <1>4, <3>1
  <2>2. PICK b \in Bodies[n - 2] : w = <<q>> \o b \o <<q>>
    BY <1>1, <1>4, <2>1 DEF Strings
  <2>3. PICK k \in Nat : k = n - 2
    BY <2>1
  <2>4. b \in JsonTexts /\ Len(b) = k
    <3>1. Bodies[k] \in SUBSET JsonTexts /\ \A x \in Bodies[k] : Len(x) = k
      BY Zenon, BodiesDefined, BodyLengths
    <3> QED
      BY <2>2, <2>3, <3>1
  <2>5. b \in StringBody
    BY <2>2, <2>3, <2>4 DEF StringBody
  <2> QED
    BY <1>1, <2>2, <2>5 DEF StringText
<1> QED
  BY <1>2, <1>3, <1>4

LEMMA OnesAre ==
  ASSUME NEW w \in JsonTexts, NEW n \in Nat, n = Len(w)
  PROVE  w = [k \in 1..n |-> "1"] <=> w \in Ones
<1>1. w \in Seq(Char) /\ w = [k \in 1..n |-> w[k]]
  BY LenProperties DEF JsonTexts
<1> QED
  BY <1>1 DEF Ones

\* What stands between the brackets or the braces, of any length.
LEMMA WithinIs ==
  ASSUME NEW open \in Open, NEW b \in JsonTexts, NEW n \in Nat, n = Len(b) + 2
  PROVE  b \in Within(n, Grammar, IF open = "{" THEN "members" ELSE "items") <=> b = <<>> \/ b \in Listed(open)
<1> DEFINE what == IF open = "{" THEN "members" ELSE "items"
<1> HIDE DEF what
<1>1. Len(b) \in Nat /\ ~ (n < 2) /\ n - 2 = Len(b) /\ (n = 2 <=> Len(b) = 0) /\ (Len(b) = 0 <=> b = <<>>)
  BY CatIs
<1>2. Listed(open) = Phrase(what)
  BY DEF Listed, what
<1>3. b \in Phrase(what) <=> b # <<>> /\ b \in Grammar[Len(b)][what]
  BY DEF Phrase
<1>4. b \in Within(n, Grammar, what) <=> b = <<>> \/ b \in Phrase(what)
  <2>1. CASE n = 2
    BY <1>1, <1>3, <2>1 DEF Within
  <2>2. CASE n # 2
    <3>1. Within(n, Grammar, what) = Grammar[Len(b)][what]
      BY <1>1, <2>2 DEF Within
    <3> QED
      BY <1>1, <1>3, <2>2, <3>1
  <2> QED
    BY <2>1, <2>2
<1> QED
  BY <1>2, <1>4 DEF what

\* The value that a container is.
Contained(open) == {<<open>> \o b \o <<Closer(open)>> : b \in {<<>>} \cup Listed(open)}

LEMMA ContainedIs ==
  ASSUME NEW open \in Open, NEW w \in JsonTexts, NEW n \in Nat, n = Len(w)
  PROVE  w \in Contained(open) <=>
           \E b \in Within(n, Grammar, IF open = "{" THEN "members" ELSE "items") : w = <<open>> \o b \o <<Closer(open)>>
<1> DEFINE what == IF open = "{" THEN "members" ELSE "items"
<1>1. open \in Char /\ Closer(open) \in Char
  BY DEF Open, Closer, Char, Chars, Close
<1>2. what \in {"items", "members"}
  OBVIOUS
<1>3. \A b \in {<<>>} \cup Listed(open) : b \in JsonTexts
  BY CatIs DEF Listed, Phrase
<1>4. ASSUME NEW b \in Within(n, Grammar, what) PROVE b \in JsonTexts
  <2> HIDE DEF what
  <2>1. ~ (n < 2)
    BY DEF Within
  <2>2. CASE n = 2
    BY <2>2, CatIs DEF Within
  <2>3. CASE n > 2
    <3>1. PICK k \in Nat : k = n - 2
      BY <2>3
    <3>2. b \in Grammar[k][what] /\ what \in Kinds
      BY <1>2, <2>3, <3>1 DEF Within, Kinds
    <3> QED
      BY <3>2, GrammarIn
  <2> QED
    BY <2>1, <2>2, <2>3
<1>5. ASSUME NEW b \in JsonTexts, w = <<open>> \o b \o <<Closer(open)>>
      PROVE  b \in Within(n, Grammar, what) <=> b \in {<<>>} \cup Listed(open)
  <2>1. n = Len(b) + 2
    BY <1>1, <1>5, Wrapped
  <2> QED
    BY <2>1, WithinIs
<1> HIDE DEF what
<1>6. w \in Contained(open) <=> \E b \in Within(n, Grammar, what) : w = <<open>> \o b \o <<Closer(open)>>
  BY Zenon, <1>3, <1>4, <1>5 DEF Contained
<1> QED
  BY <1>6 DEF what

LEMMA ValuesAre ==
  \A w \in JsonTexts :
    w \in JsonValue <=> \/ w \in Ones /\ w # <<>>
                        \/ w \in StringText
                        \/ \E open \in Open : w \in Contained(open)
<1> TAKE w \in JsonTexts
<1>1. PICK n \in Nat : n = Len(w)
  BY CatLen
<1>2. w \in Grammar[n].values <=> w \in ValuesOf(n, Grammar)
  BY GrammarFields
<1>3. w \in ValuesOf(n, Grammar) <=>
        \/ w = [k \in 1..n |-> "1"]
        \/ w \in Strings(n)
        \/ \E b \in Within(n, Grammar, "items") : w = <<"[">> \o b \o <<"]">>
        \/ \E b \in Within(n, Grammar, "members") : w = <<"{">> \o b \o <<"}">>
  BY Zenon DEF ValuesOf
<1>4. /\ w \in Contained("[") <=> \E b \in Within(n, Grammar, "items") : w = <<"[">> \o b \o <<"]">>
      /\ w \in Contained("{") <=> \E b \in Within(n, Grammar, "members") : w = <<"{">> \o b \o <<"}">>
  <2>1. "[" \in Open /\ "{" \in Open /\ Closer("[") = "]" /\ Closer("{") = "}"
    BY DEF Open, Closer
  <2>2. (IF "[" = "{" THEN "members" ELSE "items") = "items"
    OBVIOUS
  <2>3. (IF "{" = "{" THEN "members" ELSE "items") = "members"
    OBVIOUS
  <2>4. w \in Contained("[") <=>
          \E b \in Within(n, Grammar, IF "[" = "{" THEN "members" ELSE "items") : w = <<"[">> \o b \o <<Closer("[")>>
    BY <1>1, <2>1, ContainedIs
  <2>5. w \in Contained("{") <=>
          \E b \in Within(n, Grammar, IF "{" = "{" THEN "members" ELSE "items") : w = <<"{">> \o b \o <<Closer("{")>>
    BY <1>1, <2>1, ContainedIs
  <2>6. w \in Contained("[") <=> \E b \in Within(n, Grammar, "items") : w = <<"[">> \o b \o <<"]">>
    BY <2>1, <2>2, <2>4
  <2>7. w \in Contained("{") <=> \E b \in Within(n, Grammar, "members") : w = <<"{">> \o b \o <<"}">>
    BY <2>1, <2>3, <2>5
  <2> QED
    BY <2>6, <2>7
<1>5. (\E open \in Open : w \in Contained(open)) <=> w \in Contained("[") \/ w \in Contained("{")
  BY DEF Open
<1>6. w # <<>> \/ (w \notin StringText /\ ~ \E open \in Open : w \in Contained(open))
  <2>1. n = 0 => Strings(n) = {} /\ \A what \in {"items", "members"} : Within(n, Grammar, what) = {}
    BY DEF Strings, Within
  <2>2. w = <<>> => n = 0
    BY <1>1, CatIs
  <2> QED
    BY <1>1, <1>4, <1>5, <2>1, <2>2, StringTextIs
<1>7. w \in JsonValue <=> w # <<>> /\ w \in Grammar[n].values
  BY <1>1 DEF JsonValue, Phrase
<1>8. w \in Strings(n) <=> w \in StringText
  BY <1>1, StringTextIs
<1>9. w = [k \in 1..n |-> "1"] <=> w \in Ones
  BY <1>1, OnesAre
<1> QED
  BY Zenon, <1>2, <1>3, <1>4, <1>5, <1>6, <1>7, <1>8, <1>9

LEMMA JoinedSplits ==
  ASSUME NEW A \in SUBSET JsonTexts, NEW B \in SUBSET JsonTexts, NEW c \in Char, NEW w \in Joined(A, <<c>>, B)
  PROVE  \E a \in A, b \in B : w = a \o (<<c>> \o b) /\ Len(w) = Len(a) + 1 + Len(b)
<1>1. PICK a \in A, b \in B : w = a \o <<c>> \o b
  BY DEF Joined
<1>2. PICK x \in JsonTexts : x = <<c>> /\ Len(x) = 1
  BY Singles
<1>3. (a \o x) \o b = a \o (x \o b)
  BY <1>2, CatIs
<1>4. x \o b \in JsonTexts /\ Len(x \o b) = 1 + Len(b) /\ Len(b) \in Nat /\ Len(a) \in Nat
  BY <1>2, CatLen
<1>5. Len(a \o (x \o b)) = Len(a) + Len(x \o b)
  BY <1>4, CatLen
<1>6. w = a \o (x \o b)
  BY <1>1, <1>2, <1>3
<1>7. Len(w) = Len(a) + 1 + Len(b)
  BY <1>4, <1>5, <1>6
<1> QED
  BY <1>2, <1>6, <1>7

LEMMA JoinedHolds ==
  ASSUME NEW A \in SUBSET JsonTexts, NEW B \in SUBSET JsonTexts, NEW c \in Char, NEW a \in A, NEW b \in B
  PROVE  a \o (<<c>> \o b) \in Joined(A, <<c>>, B)
<1>1. PICK x \in JsonTexts : x = <<c>>
  BY Singles
<1>2. (a \o x) \o b = a \o (x \o b)
  BY <1>1, CatIs
<1> QED
  BY <1>1, <1>2 DEF Joined

\* A phrase of n characters, one of k, the separator, and one of the rest.
LEMMA JoinedPhrases ==
  ASSUME NEW one \in Kinds, NEW what \in Kinds, NEW c \in Char, NEW w \in JsonTexts, NEW n \in Nat, n = Len(w)
  PROVE  (\E k \in 1..(n - 2) : w \in Joined(Grammar[k][one], <<c>>, Grammar[n - 1 - k][what]))
         <=> \E a \in Phrase(one), b \in Phrase(what) : w = a \o (<<c>> \o b)
<1>1. ASSUME NEW k \in 1..(n - 2), w \in Joined(Grammar[k][one], <<c>>, Grammar[n - 1 - k][what])
      PROVE  \E a \in Phrase(one), b \in Phrase(what) : w = a \o (<<c>> \o b)
  <2>1. PICK m \in Nat, j \in Nat : m = k /\ j = n - 1 - k /\ m > 0 /\ j > 0
    <3>1. k \in Nat /\ n - 1 - k \in Nat /\ k > 0 /\ n - 1 - k > 0
      OBVIOUS
    <3> QED
      BY Zenon, <3>1
  <2>2. /\ Grammar[m][one] \in SUBSET JsonTexts /\ Grammar[j][what] \in SUBSET JsonTexts
        /\ (\A a \in Grammar[m][one] : Len(a) = m) /\ (\A b \in Grammar[j][what] : Len(b) = j)
    BY GrammarIn, GrammarLengths
  <2>3. w \in Joined(Grammar[m][one], <<c>>, Grammar[j][what])
    BY <1>1, <2>1
  <2>4. PICK a \in Grammar[m][one], b \in Grammar[j][what] : w = a \o (<<c>> \o b)
    BY <2>2, <2>3, JoinedSplits
  <2>5. a \in JsonTexts /\ b \in JsonTexts /\ Len(a) = m /\ Len(b) = j /\ a # <<>> /\ b # <<>>
    BY <2>1, <2>2, CatIs
  <2>6. a \in Phrase(one) /\ b \in Phrase(what)
    BY <2>5 DEF Phrase
  <2> QED
    BY <2>4, <2>6
<1>2. ASSUME NEW a \in Phrase(one), NEW b \in Phrase(what), w = a \o (<<c>> \o b)
      PROVE  \E k \in 1..(n - 2) : w \in Joined(Grammar[k][one], <<c>>, Grammar[n - 1 - k][what])
  <2>1. /\ a \in JsonTexts /\ a # <<>> /\ a \in Grammar[Len(a)][one]
        /\ b \in JsonTexts /\ b # <<>> /\ b \in Grammar[Len(b)][what]
    BY DEF Phrase
  <2>2. PICK m \in Nat, j \in Nat : m = Len(a) /\ j = Len(b) /\ m > 0 /\ j > 0
    BY <2>1, CatIs
  <2>3. /\ Grammar[m][one] \in SUBSET JsonTexts /\ Grammar[j][what] \in SUBSET JsonTexts
        /\ a \in Grammar[m][one] /\ b \in Grammar[j][what]
    BY <2>1, <2>2, GrammarIn
  <2>4. w \in Joined(Grammar[m][one], <<c>>, Grammar[j][what])
    BY <1>2, <2>3, JoinedHolds
  <2>5. n = m + 1 + j
    <3>1. <<c>> \o b \in JsonTexts /\ Len(<<c>> \o b) = j + 1
      BY <2>1, <2>2, ConsIs
    <3>2. Len(a \o (<<c>> \o b)) = Len(a) + Len(<<c>> \o b)
      BY <2>1, <3>1, CatLen
    <3> QED
      BY <1>2, <2>2, <3>1, <3>2
  <2>6. m \in 1..(n - 2) /\ j = n - 1 - m
    BY <2>2, <2>5
  <2> QED
    BY <2>4, <2>6
<1> QED
  BY <1>1, <1>2

\* One of A and then one of B.
Then(A, B) == {a \o b : a \in A, b \in B}

LEMMA ThenIs == \A A, B, w : w \in Then(A, B) <=> \E a \in A : \E b \in B : w = a \o b
BY DEF Then

LEMMA AfterIt == \A c, B, w : w \in Then({<<c>>}, B) <=> \E b \in B : w = <<c>> \o b
BY DEF Then

LEMMA ThenHas ==
  ASSUME NEW A \in SUBSET JsonTexts, NEW B \in SUBSET JsonTexts, NEW c \in Char, NEW w
  PROVE  w \in Then(A, Then({<<c>>}, B)) <=> \E a \in A, b \in B : w = a \o (<<c>> \o b)
<1> DEFINE X == Then({<<c>>}, B)
<1>1. \A x : x \in X <=> \E b \in B : x = <<c>> \o b
  BY AfterIt
<1> HIDE DEF X
<1>2. w \in Then(A, X) <=> \E a \in A : \E x \in X : w = a \o x
  BY ThenIs
<1>3. ASSUME w \in Then(A, X) PROVE \E a \in A, b \in B : w = a \o (<<c>> \o b)
  <2>1. PICK a \in A, x \in X : w = a \o x
    BY <1>2, <1>3
  <2>2. PICK b \in B : x = <<c>> \o b
    BY <1>1
  <2> QED
    BY <2>1, <2>2
<1>4. ASSUME NEW a \in A, NEW b \in B, w = a \o (<<c>> \o b) PROVE w \in Then(A, X)
  <2>1. <<c>> \o b \in X
    BY <1>1
  <2> QED
    BY Zenon, <1>2, <1>4, <2>1
<1> QED
  BY <1>3, <1>4 DEF X

LEMMA PhraseIn == \A what \in Kinds : Phrase(what) \in SUBSET JsonTexts
BY DEF Phrase

LEMMA PairsAre == Phrase("pairs") = Then(StringText, Then({<<":">>}, JsonValue))
<1>1. ":" \in Char /\ "values" \in Kinds /\ "pairs" \in Kinds
  BY DEF Char, Chars, Kinds
<1>2. StringText \in SUBSET JsonTexts /\ \A s \in StringText : s # <<>> /\ s \in Strings(Len(s)) /\ Len(s) \in Nat /\ Len(s) >= 2
  <2>1. PICK q \in Char : q = "\""
    BY DEF Char, Chars
  <2> SUFFICES ASSUME NEW s \in StringText
               PROVE  s \in JsonTexts /\ s # <<>> /\ s \in Strings(Len(s)) /\ Len(s) \in Nat /\ Len(s) >= 2
    OBVIOUS
  <2>2. PICK b \in StringBody : s = <<q>> \o b \o <<q>>
    BY <2>1 DEF StringText
  <2>3. s \in JsonTexts /\ Len(s) = Len(b) + 2 /\ Len(b) \in Nat
    BY <2>1, <2>2, Wrapped, CatLen DEF StringBody
  <2> QED
    BY <2>3, StringTextIs, CatIs
<1>3. \A n \in Nat : \A k \in 2..(n - 2) : k \in Nat /\ Strings(k) \in SUBSET JsonTexts /\ \A s \in Strings(k) : s \in StringText /\ Len(s) = k
  <2> TAKE n \in Nat
  <2> TAKE k \in 2..(n - 2)
  <2>1. k \in Nat
    OBVIOUS
  <2>2. Strings(k) \in SUBSET JsonTexts /\ \A s \in Strings(k) : Len(s) = k
    BY <2>1, StringsIn
  <2> QED
    BY <2>1, <2>2, StringTextIs
<1>4. JsonValue \in SUBSET JsonTexts /\ \A v \in JsonValue : v # <<>> /\ v \in Grammar[Len(v)].values /\ Len(v) \in Nat
  BY CatLen DEF JsonValue, Phrase
<1>5. ASSUME NEW w \in Phrase("pairs") PROVE \E s \in StringText, v \in JsonValue : w = s \o (<<":">> \o v)
  <2>1. PICK n \in Nat : n = Len(w) /\ w \in Grammar[n].pairs /\ w \in JsonTexts
    BY CatLen DEF Phrase
  <2>2. w \in PairsOf(n, Grammar)
    BY <2>1, GrammarFields
  <2>3. PICK k \in 2..(n - 2) : w \in Joined(Strings(k), <<":">>, Grammar[n - 1 - k].values)
    BY <2>2 DEF PairsOf
  <2>4. PICK j \in Nat : j = n - 1 - k /\ j > 0
    OBVIOUS
  <2>5. Grammar[j].values \in SUBSET JsonTexts /\ \A v \in Grammar[j].values : Len(v) = j
    BY <1>1, GrammarIn, GrammarLengths
  <2>6. Strings(k) \in SUBSET JsonTexts /\ \A s \in Strings(k) : s \in StringText
    BY <1>3
  <2>7. PICK s \in Strings(k), v \in Grammar[j].values : w = s \o (<<":">> \o v)
    <3>1. w \in Joined(Strings(k), <<":">>, Grammar[j].values)
      BY <2>3, <2>4
    <3>2. ":" \in Char
      BY DEF Char, Chars
    <3> QED
      BY Zenon, <2>5, <2>6, <3>1, <3>2, JoinedSplits
  <2>8. v \in JsonValue
    BY <2>4, <2>5, CatIs DEF JsonValue, Phrase
  <2> QED
    BY <2>6, <2>7, <2>8
<1>6. ASSUME NEW s \in StringText, NEW v \in JsonValue PROVE s \o (<<":">> \o v) \in Phrase("pairs")
  <2>1. PICK m \in Nat, j \in Nat : m = Len(s) /\ j = Len(v) /\ m >= 2 /\ j > 0
    BY <1>2, <1>4, CatIs
  <2>2. <<":">> \o v \in JsonTexts /\ Len(<<":">> \o v) = j + 1
    BY <1>1, <1>4, <2>1, ConsIs
  <2>3. PICK w : w = s \o (<<":">> \o v)
    OBVIOUS
  <2>4. w \in JsonTexts /\ Len(w) = Len(s) + Len(<<":">> \o v)
    BY <1>2, <2>2, <2>3, CatLen
  <2>5. PICK n \in Nat : n = m + 1 + j /\ n = Len(w)
    BY <2>1, <2>2, <2>4
  <2>6. Strings(m) \in SUBSET JsonTexts /\ Grammar[j].values \in SUBSET JsonTexts /\ s \in Strings(m) /\ v \in Grammar[j].values
    BY <1>1, <1>2, <1>4, <2>1, GrammarIn, StringsIn
  <2>7. w \in Joined(Strings(m), <<":">>, Grammar[j].values)
    BY <1>1, <2>3, <2>6, JoinedHolds
  <2>8. m \in 2..(n - 2) /\ j = n - 1 - m
    BY <2>1, <2>5
  <2>9. w \in PairsOf(n, Grammar)
    BY <2>7, <2>8 DEF PairsOf
  <2>10. w \in Grammar[n].pairs
    BY <2>9, GrammarFields
  <2>11. w # <<>>
    BY <2>1, <2>5, CatIs
  <2> QED
    BY <2>3, <2>4, <2>5, <2>10, <2>11 DEF Phrase
<1>7. \A w : w \in Then(StringText, Then({<<":">>}, JsonValue)) <=> \E s \in StringText, v \in JsonValue : w = s \o (<<":">> \o v)
  BY <1>1, <1>2, <1>4, ThenHas
<1> QED
  <2>1. \A w \in Phrase("pairs") : w \in Then(StringText, Then({<<":">>}, JsonValue))
    BY Zenon, <1>5, <1>7
  <2>2. \A w \in Then(StringText, Then({<<":">>}, JsonValue)) : w \in Phrase("pairs")
    <3> TAKE w \in Then(StringText, Then({<<":">>}, JsonValue))
    <3>1. PICK s \in StringText, v \in JsonValue : w = s \o (<<":">> \o v)
      BY Zenon, <1>7
    <3> QED
      BY Zenon, <1>6, <3>1
  <2> QED
    BY Zenon, <2>1, <2>2

LEMMA ListedIs == \A open \in Open : Listed(open) = Element(open) \cup Then(Element(open), Then({<<",">>}, Listed(open)))
<1>1. "," \in Char
  BY DEF Char, Chars
<1>2. ASSUME NEW one \in Kinds, NEW what \in Kinds,
             \A n \in Nat : Grammar[n][what] = ListOf(n, Grammar, Grammar[n][one], one, what)
      PROVE  Phrase(what) = Phrase(one) \cup Then(Phrase(one), Then({<<",">>}, Phrase(what)))
  <2>1. \A w : w \in Then(Phrase(one), Then({<<",">>}, Phrase(what))) <=> \E a \in Phrase(one), b \in Phrase(what) : w = a \o (<<",">> \o b)
    BY <1>1, PhraseIn, ThenHas
  <2>2. ASSUME NEW w \in JsonTexts, w # <<>>
        PROVE  w \in Phrase(what) <=> w \in Phrase(one) \/ \E a \in Phrase(one), b \in Phrase(what) : w = a \o (<<",">> \o b)
    <3>1. PICK n \in Nat : n = Len(w)
      BY CatLen
    <3>2. w \in Grammar[n][what] <=> w \in ListOf(n, Grammar, Grammar[n][one], one, what)
      BY <1>2
    <3>3. w \in ListOf(n, Grammar, Grammar[n][one], one, what) <=>
            w \in Grammar[n][one] \/ \E k \in 1..(n - 2) : w \in Joined(Grammar[k][one], <<",">>, Grammar[n - 1 - k][what])
      BY Zenon DEF ListOf
    <3>4. (\E k \in 1..(n - 2) : w \in Joined(Grammar[k][one], <<",">>, Grammar[n - 1 - k][what]))
          <=> \E a \in Phrase(one), b \in Phrase(what) : w = a \o (<<",">> \o b)
      BY <1>1, <3>1, JoinedPhrases
    <3>5. (w \in Phrase(what) <=> w \in Grammar[n][what]) /\ (w \in Phrase(one) <=> w \in Grammar[n][one])
      BY <2>2, <3>1 DEF Phrase
    <3> QED
      BY Zenon, <3>2, <3>3, <3>4, <3>5
  <2>3. \A a \in Phrase(one), b \in Phrase(what) : a \o (<<",">> \o b) \in JsonTexts /\ a \o (<<",">> \o b) # <<>>
    <3> TAKE a \in Phrase(one), b \in Phrase(what)
    <3>1. a \in JsonTexts /\ a # <<>> /\ b \in JsonTexts
      BY DEF Phrase
    <3>2. <<",">> \o b \in JsonTexts
      BY <1>1, <3>1, ConsIs
    <3> QED
      BY <3>1, <3>2, CatIs
  <2>4. (\A w \in Phrase(what) : w \in JsonTexts /\ w # <<>>) /\ (\A w \in Phrase(one) : w \in JsonTexts /\ w # <<>>)
    BY DEF Phrase
  <2> QED
    BY Zenon, <2>1, <2>2, <2>3, <2>4
<1>3. \A n \in Nat : Grammar[n]["items"] = ListOf(n, Grammar, Grammar[n]["values"], "values", "items")
  BY GrammarFields
<1>4. \A n \in Nat : Grammar[n]["members"] = ListOf(n, Grammar, Grammar[n]["pairs"], "pairs", "members")
  BY GrammarFields
<1>5. /\ Phrase("items") = Phrase("values") \cup Then(Phrase("values"), Then({<<",">>}, Phrase("items")))
      /\ Phrase("members") = Phrase("pairs") \cup Then(Phrase("pairs"), Then({<<",">>}, Phrase("members")))
  BY <1>2, <1>3, <1>4 DEF Kinds
<1> TAKE open \in Open
<1>6. CASE open = "{"
  <2>1. Listed(open) = Phrase("members") /\ Element(open) = Phrase("pairs")
    BY <1>6 DEF Listed, Element
  <2> QED
    BY <1>5, <2>1
<1>7. CASE open # "{"
  <2>1. Listed(open) = Phrase("items") /\ Element(open) = Phrase("values")
    BY <1>7 DEF Listed, Element
  <2> QED
    BY <1>5, <2>1
<1> QED
  BY <1>6, <1>7

\* What may follow a character (Brzozowski's derivative).
Der(c, A) == {u \in JsonTexts : <<c>> \o u \in A}

LEMMA ThenSplits == \A A, B : \A w \in Then(A, B) : \E a \in A : \E b \in B : w = a \o b
BY ThenIs

LEMMA ConsSame == \A c, d \in Char, u, v \in JsonTexts : <<c>> \o u = <<d>> \o v => c = d /\ u = v
BY ConsIs

LEMMA ConsEqual == \A c, d \in Char, u, v \in JsonTexts : Cons(c, u) = Cons(d, v) => c = d /\ u = v
BY ConsSame DEF Cons

LEMMA ThenIn ==
  ASSUME NEW A \in SUBSET JsonTexts, NEW B \in SUBSET JsonTexts
  PROVE  Then(A, B) \in SUBSET JsonTexts
<1> SUFFICES ASSUME NEW w \in Then(A, B) PROVE w \in JsonTexts
  OBVIOUS
<1>1. PICK a \in A, b \in B : w = a \o b
  BY ThenIs
<1> QED
  BY <1>1, CatLen

LEMMA DerIn == \A c, A : Der(c, A) \in SUBSET JsonTexts
BY DEF Der

LEMMA ThenAssociates ==
  ASSUME NEW A \in SUBSET JsonTexts, NEW B \in SUBSET JsonTexts, NEW C \in SUBSET JsonTexts
  PROVE  Then(Then(A, B), C) = Then(A, Then(B, C))
<1>1. \A a \in A, b \in B, c \in C : (a \o b) \o c = a \o (b \o c)
  BY CatIs
<1>2. ASSUME NEW w \in Then(Then(A, B), C) PROVE w \in Then(A, Then(B, C))
  <2>1. PICK x \in Then(A, B), c \in C : w = x \o c
    BY ThenIs
  <2>2. PICK a \in A, b \in B : x = a \o b
    BY ThenIs
  <2>3. b \o c \in Then(B, C)
    BY ThenIs
  <2>4. w = a \o (b \o c)
    BY <1>1, <2>1, <2>2
  <2> QED
    BY <2>3, <2>4, ThenIs
<1>3. ASSUME NEW w \in Then(A, Then(B, C)) PROVE w \in Then(Then(A, B), C)
  <2>1. PICK a \in A, x \in Then(B, C) : w = a \o x
    BY ThenIs
  <2>2. PICK b \in B, c \in C : x = b \o c
    BY ThenIs
  <2>3. a \o b \in Then(A, B)
    BY ThenIs
  <2>4. w = (a \o b) \o c
    BY <1>1, <2>1, <2>2
  <2> QED
    BY <2>3, <2>4, ThenIs
<1> QED
  BY <1>2, <1>3

LEMMA ThenUnion == \A A, B, C : Then(A \cup B, C) = Then(A, C) \cup Then(B, C)
<1> TAKE A, B, C
<1>1. \A w : w \in Then(A \cup B, C) <=> \E a \in A \cup B : \E b \in C : w = a \o b
  BY ThenIs
<1>2. \A w : w \in Then(A, C) <=> \E a \in A : \E b \in C : w = a \o b
  BY ThenIs
<1>3. \A w : w \in Then(B, C) <=> \E a \in B : \E b \in C : w = a \o b
  BY ThenIs
<1> QED
  BY Zenon, <1>1, <1>2, <1>3

LEMMA ThenNothing ==
  ASSUME NEW B \in SUBSET JsonTexts
  PROVE  Then({}, B) = {} /\ Then({<<>>}, B) = B
<1>1. Then({}, B) = {}
  BY DEF Then
<1>2. \A w : w \in Then({<<>>}, B) <=> \E b \in B : w = <<>> \o b
  BY DEF Then
<1>3. \A b \in B : <<>> \o b = b
  BY CatIs
<1> QED
  BY <1>1, <1>2, <1>3

LEMMA EmptyInThen ==
  ASSUME NEW A \in SUBSET JsonTexts, NEW B \in SUBSET JsonTexts
  PROVE  <<>> \in Then(A, B) <=> <<>> \in A /\ <<>> \in B
<1>1. PICK e : e = <<>>
  OBVIOUS
<1>2. \A a \in A, b \in B : a \o b = e <=> a = e /\ b = e
  BY <1>1, CatIs
<1>3. e \in Then(A, B) => e \in A /\ e \in B
  <2> HAVE e \in Then(A, B)
  <2>1. PICK a \in A, b \in B : e = a \o b
    BY ThenIs
  <2> QED
    BY <1>2, <2>1
<1>4. e \in A /\ e \in B => e \in Then(A, B)
  <2> HAVE e \in A /\ e \in B
  <2>1. e \o e \in Then(A, B)
    BY ThenIs
  <2> QED
    BY <1>2, <2>1
<1> QED
  BY <1>1, <1>3, <1>4

LEMMA DerUnion == \A c, A, B : Der(c, A \cup B) = Der(c, A) \cup Der(c, B)
BY DEF Der

LEMMA DerThen ==
  ASSUME NEW c \in Char, NEW A \in SUBSET JsonTexts, NEW B \in SUBSET JsonTexts
  PROVE  Der(c, Then(A, B)) = Then(Der(c, A), B) \cup (IF <<>> \in A THEN Der(c, B) ELSE {})
<1>1. ASSUME NEW u \in Der(c, Then(A, B))
      PROVE  u \in Then(Der(c, A), B) \/ (<<>> \in A /\ u \in Der(c, B))
  <2>1. u \in JsonTexts /\ <<c>> \o u \in Then(A, B)
    BY DEF Der
  <2>2. PICK a \in A, b \in B : <<c>> \o u = a \o b
    <3>1. \A w : w \in Then(A, B) <=> \E a \in A : \E b \in B : w = a \o b
      BY ThenIs
    <3>2. \E a \in A : \E b \in B : <<c>> \o u = a \o b
      BY Zenon, <2>1, <3>1
    <3> QED
      BY Zenon, <3>2
  <2>3. CASE a = <<>>
    <3>1. a \o b = b
      BY <2>3, CatIs
    <3> QED
      BY <2>1, <2>2, <2>3, <3>1 DEF Der
  <2>4. CASE a # <<>>
    <3>1. PICK d \in Char, v \in JsonTexts : a = <<d>> \o v
      BY <2>4, ConsExists
    <3>2. PICK x \in JsonTexts : x = <<d>>
      BY Singles
    <3>3. (x \o v) \o b = x \o (v \o b) /\ v \o b \in JsonTexts
      <4>1. Cat(Cat(x, v), b) = Cat(x, Cat(v, b)) /\ Cat(x, v) \in JsonTexts /\ Cat(v, b) \in JsonTexts
        BY CatAssociates
      <4> QED
        BY <4>1 DEF Cat
    <3>4. <<c>> \o u = <<d>> \o (v \o b)
      BY <2>2, <3>1, <3>2, <3>3
    <3>5. c = d /\ u = v \o b
      <4>1. PICK y \in JsonTexts : y = v \o b
        BY <3>3
      <4>2. <<c>> \o u = <<d>> \o y
        BY <3>4, <4>1
      <4>3. Cons(c, u) = Cons(d, y)
        BY <4>2 DEF Cons
      <4>4. c = d /\ u = y
        BY <2>1, <4>3, ConsEqual
      <4> QED
        BY <4>1, <4>4
    <3>6. v \in Der(c, A)
      BY <3>1, <3>5 DEF Der
    <3> QED
      BY <3>5, <3>6, ThenIs
  <2> QED
    BY <2>3, <2>4
<1>2. ASSUME NEW u \in Then(Der(c, A), B) PROVE u \in Der(c, Then(A, B))
  <2>1. PICK v \in Der(c, A), b \in B : u = v \o b
    BY ThenIs
  <2>2. v \in JsonTexts /\ <<c>> \o v \in A
    BY DEF Der
  <2>3. PICK x \in JsonTexts : x = <<c>>
    BY Singles
  <2>4. (x \o v) \o b = x \o (v \o b) /\ v \o b \in JsonTexts
    <3>1. x \in JsonTexts /\ v \in JsonTexts /\ b \in JsonTexts
      BY <2>2, <2>3
    <3>2. \A y, z, t \in JsonTexts : (y \o z) \o t = y \o (z \o t)
      BY CatIs
    <3>3. \A y, z \in JsonTexts : y \o z \in JsonTexts
      BY CatIs
    <3> QED
      BY ONLY <3>1, <3>2, <3>3
  <2>5. (<<c>> \o v) \o b \in Then(A, B)
    BY <2>2, ThenIs
  <2> QED
    BY <2>1, <2>3, <2>4, <2>5 DEF Der
<1>3. ASSUME <<>> \in A, NEW u \in Der(c, B) PROVE u \in Der(c, Then(A, B))
  <2>1. u \in JsonTexts /\ <<c>> \o u \in B
    BY DEF Der
  <2>2. <<>> \o (<<c>> \o u) = <<c>> \o u
    BY <2>1, CatIs
  <2>3. <<>> \o (<<c>> \o u) \in Then(A, B)
    BY <1>3, <2>1, ThenIs
  <2> QED
    BY <2>1, <2>2, <2>3 DEF Der
<1>4. \A u : u \in Then(Der(c, A), B) \cup (IF <<>> \in A THEN Der(c, B) ELSE {})
             <=> u \in Then(Der(c, A), B) \/ (<<>> \in A /\ u \in Der(c, B))
  BY Zenon
<1>5. \A u : u \in Der(c, Then(A, B)) <=> u \in Then(Der(c, A), B) \/ (<<>> \in A /\ u \in Der(c, B))
  BY Zenon, <1>1, <1>2, <1>3
<1> QED
  BY Zenon, <1>4, <1>5

LEMMA DerMark ==
  ASSUME NEW c \in Char, NEW d \in Char, NEW B \in SUBSET JsonTexts
  PROVE  /\ Der(c, Then({<<d>>}, B)) = IF c = d THEN B ELSE {}
         /\ <<>> \notin Then({<<d>>}, B) /\ Then({<<d>>}, B) \in SUBSET JsonTexts
<1>1. \A w : w \in Then({<<d>>}, B) <=> \E b \in B : w = <<d>> \o b
  BY AfterIt
<1>2. \A u \in JsonTexts, b \in B : <<c>> \o u = <<d>> \o b <=> c = d /\ u = b
  BY ConsIs
<1>3. \A u : u \in Der(c, Then({<<d>>}, B)) <=> u \in JsonTexts /\ \E b \in B : c = d /\ u = b
  <2>1. \A u : u \in Der(c, Then({<<d>>}, B)) <=> u \in JsonTexts /\ <<c>> \o u \in Then({<<d>>}, B)
    BY Zenon DEF Der
  <2>2. B \subseteq JsonTexts
    OBVIOUS
  <2> QED
    <3>1. ASSUME NEW u \in JsonTexts, <<c>> \o u \in Then({<<d>>}, B) PROVE \E b \in B : c = d /\ u = b
      <4>1. PICK b \in B : <<c>> \o u = <<d>> \o b
        BY Zenon, <1>1, <3>1
      <4> QED
        BY Zenon, <1>2, <4>1
    <3>2. ASSUME c = d, NEW u \in B PROVE u \in JsonTexts /\ <<c>> \o u \in Then({<<d>>}, B)
      BY <1>1, <2>2, <3>2
    <3> QED
      BY Zenon, <2>1, <3>1, <3>2
<1>4. \A b \in B : <<d>> \o b # <<>> /\ <<d>> \o b \in JsonTexts /\ b \in JsonTexts
  BY ConsIs
<1>5. Der(c, Then({<<d>>}, B)) = IF c = d THEN B ELSE {}
  BY Zenon, <1>3, <1>4
<1> QED
  BY <1>1, <1>4, <1>5

Escaped == {<<e>> : e \in Escapes}
Quoted == Plain \cup {"u"}

LEMMA Alphabet ==
  /\ Quoted \subseteq Char /\ Escapes \subseteq Char /\ Open \subseteq Char
  /\ "\"" \in Char /\ "\\" \in Char /\ "1" \in Char /\ "," \in Char /\ ":" \in Char
  /\ \A open \in Open : Closer(open) \in Char
<1>1. Quoted \subseteq Char /\ Escapes \subseteq Char
  BY DEF Quoted, Char, Chars
<1>2. Open \subseteq Char /\ "\"" \in Char /\ "\\" \in Char /\ "1" \in Char /\ "," \in Char /\ ":" \in Char
  BY DEF Char, Chars, Open
<1>3. \A open \in Open : Closer(open) \in Char
  BY DEF Char, Chars, Open, Close, Closer
<1> QED
  BY <1>1, <1>2, <1>3

LEMMA EscapedIs ==
  ASSUME NEW B \in SUBSET JsonTexts
  PROVE  /\ \A c \in Char : Der(c, Then(Escaped, B)) = IF c \in Escapes THEN B ELSE {}
         /\ <<>> \notin Then(Escaped, B) /\ Then(Escaped, B) \in SUBSET JsonTexts
<1>1. ASSUME NEW w \in Then(Escaped, B) PROVE \E e \in Escapes, b \in B : w = <<e>> \o b
  <2>1. PICK a \in Escaped, b \in B : w = a \o b
    BY ThenIs
  <2> QED
    BY <2>1 DEF Escaped
<1>2. ASSUME NEW e \in Escapes, NEW b \in B
      PROVE  <<e>> \o b \in Then(Escaped, B) /\ <<e>> \o b # <<>> /\ <<e>> \o b \in JsonTexts
  <2>1. <<e>> \in Escaped /\ e \in Char /\ b \in JsonTexts
    BY Alphabet DEF Escaped
  <2>2. <<e>> \o b \in Then(Escaped, B)
    BY <2>1, ThenIs
  <2>3. <<e>> \o b # <<>> /\ <<e>> \o b \in JsonTexts
    BY <2>1, ConsIs
  <2> QED
    BY <2>2, <2>3
<1>3. ASSUME NEW c \in Char PROVE Der(c, Then(Escaped, B)) = IF c \in Escapes THEN B ELSE {}
  <2>1. ASSUME NEW u \in Der(c, Then(Escaped, B)) PROVE c \in Escapes /\ u \in B
    <3>1. u \in JsonTexts /\ <<c>> \o u \in Then(Escaped, B)
      BY DEF Der
    <3>2. PICK e \in Escapes, b \in B : <<c>> \o u = <<e>> \o b
      BY <1>1, <3>1
    <3>3. e \in Char /\ b \in JsonTexts
      BY Alphabet
    <3>4. c = e /\ u = b
      BY <3>1, <3>2, <3>3, ConsSame
    <3> QED
      BY <3>4
  <2>2. ASSUME c \in Escapes, NEW u \in B PROVE u \in Der(c, Then(Escaped, B))
    BY <1>2, <2>2 DEF Der
  <2> QED
    BY <2>1, <2>2
<1>4. ASSUME NEW w \in Then(Escaped, B) PROVE w # <<>> /\ w \in JsonTexts
  <2>1. PICK e \in Escapes, b \in B : w = <<e>> \o b
    BY <1>1
  <2> QED
    BY <1>2, <2>1
<1> QED
  BY <1>3, <1>4

LEMMA BodyIn == StringBody \in SUBSET JsonTexts /\ <<>> \in StringBody
<1>1. 0 \in Nat /\ <<>> \in JsonTexts /\ Len(<<>>) = 0
  BY CatIs
<1>2. Bodies[0] = {<<>>}
  BY Zenon, <1>1, BodiesDefined
<1> QED
  BY <1>1, <1>2 DEF StringBody

LEMMA BodyBegins ==
  ASSUME NEW c \in Char, NEW u \in JsonTexts
  PROVE  <<c>> \o u \in StringBody <=> \/ c \in Quoted /\ u \in StringBody
                                       \/ c = "\\" /\ u \in Then(Escaped, StringBody)
<1> DEFINE one == {<<d>> : d \in Plain \cup {"u"}}
           two == {<<"\\", d>> : d \in Escapes}
<1>a. \A A, B, x : x \in Joined(A, <<>>, B) <=> \E a \in A : \E b \in B : x = a \o <<>> \o b
  BY DEF Joined
<1>b. \A A, B : \A x \in Joined(A, <<>>, B) : \E a \in A : \E b \in B : x = a \o <<>> \o b
  BY <1>a
<1>1. PICK n \in Nat : n = Len(u) + 1
  BY CatLen
<1>2. PICK w \in JsonTexts : w = <<c>> \o u /\ Len(w) = n
  <2>1. <<c>> \o u \in JsonTexts /\ Len(<<c>> \o u) = Len(u) + 1
    BY ConsIs
  <2> QED
    BY Zenon, <1>1, <2>1
<1>3. n # 0 /\ n - 1 = Len(u) /\ n - 1 \in Nat
  BY <1>1
<1>4. Bodies[n] = Joined(one, <<>>, Bodies[n - 1]) \cup (IF n = 1 THEN {} ELSE Joined(two, <<>>, Bodies[n - 2]))
  BY <1>3, BodiesDefined
<1>5. \A k \in Nat : Bodies[k] \in SUBSET JsonTexts /\ \A x \in Bodies[k] : Len(x) = k
  BY BodiesDefined, BodyLengths
<1>6. \A x : <<x>> \o <<>> = <<x>>
  OBVIOUS
<1>7. ASSUME w \in Joined(one, <<>>, Bodies[n - 1]) PROVE c \in Quoted /\ u \in StringBody
  <2>1. PICK a \in one, b \in Bodies[n - 1] : w = a \o <<>> \o b
    <3> DEFINE A == one
               B == Bodies[n - 1]
    <3>1. w \in Joined(A, <<>>, B)
      BY <1>7
    <3> HIDE DEF A, B
    <3>2. \E a \in A : \E b \in B : w = a \o <<>> \o b
      BY <3>1, <1>b
    <3> QED
      BY <3>2 DEF A, B
  <2>2. PICK d \in Quoted : a = <<d>>
    BY DEF Quoted
  <2>3. d \in Char /\ b \in JsonTexts
    BY <1>3, <1>5, Alphabet
  <2>4. <<c>> \o u = <<d>> \o b
    BY <1>2, <1>6, <2>1, <2>2
  <2>5. c = d /\ u = b
    BY <2>3, <2>4, ConsSame
  <2> QED
    BY <1>3, <2>5 DEF StringBody
<1>8. ASSUME c \in Quoted, u \in StringBody PROVE w \in Joined(one, <<>>, Bodies[n - 1])
  <2>1. <<c>> \in one /\ u \in Bodies[n - 1]
    BY <1>3, <1>8 DEF StringBody, Quoted
  <2>2. <<c>> \o <<>> \o u \in Joined(one, <<>>, Bodies[n - 1])
    BY Zenon, <2>1, <1>a
  <2> QED
    BY <1>2, <1>6, <2>2
<1>9. \A d \in Char, b \in JsonTexts : <<"\\", d>> \o <<>> \o b = <<"\\">> \o (<<d>> \o b)
  <2> TAKE d \in Char, b \in JsonTexts
  <2>1. PICK x \in JsonTexts, y \in JsonTexts : x = <<"\\">> /\ y = <<d>>
    BY Singles, Alphabet
  <2>2. (x \o y) \o b = x \o (y \o b)
    <3>1. Cat(Cat(x, y), b) = Cat(x, Cat(y, b)) /\ Cat(x, y) \in JsonTexts /\ Cat(y, b) \in JsonTexts
      BY CatAssociates
    <3> QED
      BY <3>1 DEF Cat
  <2>3. <<"\\", d>> \o <<>> = <<"\\">> \o <<d>>
    OBVIOUS
  <2> QED
    BY <2>1, <2>2, <2>3
<1>10. ASSUME n # 1, w \in Joined(two, <<>>, Bodies[n - 2]) PROVE c = "\\" /\ u \in Then(Escaped, StringBody)
  <2>1. PICK a \in two, b \in Bodies[n - 2] : w = a \o <<>> \o b
    <3> DEFINE A == two
               B == Bodies[n - 2]
    <3>1. w \in Joined(A, <<>>, B)
      BY <1>10
    <3> HIDE DEF A, B
    <3>2. \E a \in A : \E b \in B : w = a \o <<>> \o b
      BY <3>1, <1>b
    <3> QED
      BY <3>2 DEF A, B
  <2>2. PICK d \in Escapes : a = <<"\\", d>>
    OBVIOUS
  <2>3. PICK k \in Nat : k = n - 2
    BY <1>3, <1>10
  <2>4. d \in Char /\ b \in JsonTexts /\ Len(b) = k /\ b \in Bodies[k]
    BY <1>5, <2>3, Alphabet
  <2>5. PICK x \in JsonTexts : x = <<d>> \o b
    BY <2>4, ConsIs
  <2>6. <<c>> \o u = <<"\\">> \o x
    BY <1>2, <1>9, <2>1, <2>2, <2>4, <2>5
  <2>7. c = "\\" /\ u = x
    <3>1. PICK e \in Char : e = "\\"
      BY Alphabet
    <3>2. <<c>> \o u = <<e>> \o x
      BY <2>6, <3>1
    <3>3. c = e /\ u = x
      BY <3>2, ConsSame
    <3> QED
      BY <3>1, <3>3
  <2>8. b \in StringBody /\ <<d>> \in Escaped
    BY <2>4 DEF StringBody, Escaped
  <2> QED
    BY <2>5, <2>7, <2>8, ThenIs
<1>11. ASSUME c = "\\", u \in Then(Escaped, StringBody) PROVE n # 1 /\ w \in Joined(two, <<>>, Bodies[n - 2])
  <2>1. PICK a \in Escaped, b \in StringBody : u = a \o b
    BY <1>11, ThenIs
  <2>2. PICK d \in Escapes : a = <<d>>
    BY DEF Escaped
  <2>3. d \in Char /\ b \in JsonTexts /\ b \in Bodies[Len(b)] /\ Len(b) \in Nat
    BY Alphabet, CatLen DEF StringBody
  <2>4. Len(u) = Len(b) + 1
    BY <2>1, <2>2, <2>3, ConsIs
  <2>5. n # 1 /\ n - 2 = Len(b)
    BY <1>1, <2>3, <2>4
  <2>6. <<"\\", d>> \o <<>> \o b \in Joined(two, <<>>, Bodies[n - 2])
    <3>1. <<"\\", d>> \in two /\ b \in Bodies[n - 2]
      BY <2>3, <2>5
    <3> HIDE DEF two
    <3> QED
      BY Zenon, <3>1, <1>a
  <2> QED
    BY <1>2, <1>9, <1>11, <2>1, <2>2, <2>3, <2>5, <2>6
<1> HIDE DEF one, two
<1>12. w \in StringBody <=> w \in Bodies[n]
  BY <1>2 DEF StringBody
<1> QED
  BY Zenon, <1>2, <1>4, <1>7, <1>8, <1>10, <1>11, <1>12

LEMMA BodyDer ==
  ASSUME NEW c \in Char, "\\" \notin Plain
  PROVE  Der(c, StringBody) = IF c \in Quoted THEN StringBody ELSE IF c = "\\" THEN Then(Escaped, StringBody) ELSE {}
<1>1. ASSUME NEW u \in JsonTexts
      PROVE  u \in Der(c, StringBody) <=> \/ c \in Quoted /\ u \in StringBody
                                          \/ c = "\\" /\ u \in Then(Escaped, StringBody)
  <2>1. u \in Der(c, StringBody) <=> <<c>> \o u \in StringBody
    BY DEF Der
  <2> QED
    BY <2>1, BodyBegins
<1>2. c = "\\" => c \notin Quoted
  BY DEF Quoted
<1>3. StringBody \in SUBSET JsonTexts /\ Then(Escaped, StringBody) \in SUBSET JsonTexts
  BY BodyIn, EscapedIs
<1>4. \A u \in Der(c, StringBody) : u \in JsonTexts
  BY DEF Der
<1>5. CASE c \in Quoted
  BY <1>1, <1>2, <1>3, <1>4, <1>5
<1>6. CASE c \notin Quoted /\ c = "\\"
  BY <1>1, <1>3, <1>4, <1>6
<1>7. CASE c \notin Quoted /\ c # "\\"
  BY <1>1, <1>4, <1>7
<1> QED
  BY <1>5, <1>6, <1>7

LEMMA OnesIs ==
  /\ Ones \in SUBSET JsonTexts /\ <<>> \in Ones
  /\ \A c \in Char : Der(c, Ones) = IF c = "1" THEN Ones ELSE {}
<1>1. Ones \in SUBSET JsonTexts /\ <<>> \in Ones
  BY CatIs DEF Ones
<1>2. ASSUME NEW c \in Char, NEW u \in JsonTexts PROVE <<c>> \o u \in Ones <=> c = "1" /\ u \in Ones
  <2>1. PICK w \in JsonTexts : w = <<c>> \o u /\ Len(w) = Len(u) + 1
    <3>1. <<c>> \o u \in JsonTexts /\ Len(<<c>> \o u) = Len(u) + 1
      BY ConsIs
    <3> QED
      BY Zenon, <3>1
  <2>2. <<c>> \in Seq(Char) /\ Len(<<c>>) = 1 /\ <<c>>[1] = c /\ u \in Seq(Char) /\ Len(u) \in Nat
    BY CatLen DEF JsonTexts
  <2>3. \A k \in 1..(Len(u) + 1) : w[k] = IF k <= 1 THEN <<c>>[k] ELSE u[k - 1]
    <3>1. \A m \in 1..Len(<<c>>) + Len(u) :
             (<<c>> \o u)[m] = IF m <= Len(<<c>>) THEN <<c>>[m] ELSE u[m - Len(<<c>>)]
      BY <2>2, ConcatProperties
    <3> QED
      BY <2>1, <2>2, <3>1
  <2>4. w[1] = c /\ \A k \in 1..Len(u) : w[k + 1] = u[k]
    BY <2>2, <2>3
  <2>5. (\A k \in 1..(Len(u) + 1) : w[k] = "1") <=> c = "1" /\ \A k \in 1..Len(u) : u[k] = "1"
    <3>1. ASSUME \A k \in 1..(Len(u) + 1) : w[k] = "1" PROVE c = "1" /\ \A k \in 1..Len(u) : u[k] = "1"
      <4>1. 1 \in 1..(Len(u) + 1) /\ \A k \in 1..Len(u) : k + 1 \in 1..(Len(u) + 1)
        BY <2>2
      <4> QED
        BY <2>4, <3>1, <4>1
    <3>2. ASSUME c = "1", \A k \in 1..Len(u) : u[k] = "1" PROVE \A k \in 1..(Len(u) + 1) : w[k] = "1"
      <4> TAKE k \in 1..(Len(u) + 1)
      <4>1. k = 1 \/ (k - 1 \in 1..Len(u) /\ (k - 1) + 1 = k)
        BY <2>2
      <4> QED
        BY <2>4, <3>2, <4>1
    <3> QED
      BY <3>1, <3>2
  <2>6. w \in Ones <=> \A k \in 1..(Len(u) + 1) : w[k] = "1"
    BY <2>1 DEF Ones
  <2>7. u \in Ones <=> \A k \in 1..Len(u) : u[k] = "1"
    BY DEF Ones
  <2> QED
    BY <2>1, <2>5, <2>6, <2>7
<1>3. ASSUME NEW c \in Char PROVE Der(c, Ones) = IF c = "1" THEN Ones ELSE {}
  <2>1. \A u \in JsonTexts : u \in Der(c, Ones) <=> <<c>> \o u \in Ones
    BY DEF Der
  <2>2. \A u \in JsonTexts : u \in Der(c, Ones) <=> c = "1" /\ u \in Ones
    BY Zenon, <1>2, <2>1
  <2> QED
    BY <1>1, <2>2, DerIn
<1> QED
  BY <1>1, <1>3

LEMMA StringTextShape ==
  /\ StringText = Then({<<"\"">>}, Then(StringBody, {<<"\"">>}))
  /\ Then(StringBody, {<<"\"">>}) \in SUBSET JsonTexts
<1>1. PICK q \in Char, x \in JsonTexts : q = "\"" /\ x = <<q>>
  BY Singles, Alphabet
<1>2. \A b \in StringBody : (x \o b) \o x = x \o (b \o x)
  <2> TAKE b \in StringBody
  <2>1. b \in JsonTexts
    BY BodyIn
  <2>2. x \in JsonTexts
    BY <1>1
  <2> QED
    BY ONLY <2>1, <2>2, CatIs
<1>3. \A w : w \in StringText <=> \E b \in StringBody : w = (x \o b) \o x
  BY <1>1 DEF StringText
<1>4. \A w : w \in Then(StringBody, {x}) <=> \E b \in StringBody : w = b \o x
  BY DEF Then
<1>5. \A B, w : w \in Then({x}, B) <=> \E b \in B : w = x \o b
  BY DEF Then
<1>6. StringText = Then({x}, Then(StringBody, {x}))
  <2>1. ASSUME NEW w \in StringText PROVE w \in Then({x}, Then(StringBody, {x}))
    <3>1. PICK b \in StringBody : w = x \o (b \o x)
      <4>1. PICK b \in StringBody : w = (x \o b) \o x
        BY Zenon, <1>3
      <4> QED
        BY Zenon, <1>2, <4>1
    <3>2. b \o x \in Then(StringBody, {x})
      BY <1>4
    <3> QED
      BY <1>5, <3>1, <3>2
  <2>2. ASSUME NEW w \in Then({x}, Then(StringBody, {x})) PROVE w \in StringText
    <3>1. PICK y \in Then(StringBody, {x}) : w = x \o y
      BY <1>5
    <3>2. PICK b \in StringBody : y = b \o x
      BY <1>4
    <3> QED
      BY <1>2, <1>3, <3>1, <3>2
  <2> QED
    BY <2>1, <2>2
<1>7. {x} \in SUBSET JsonTexts
  BY <1>1
<1>8. Then(StringBody, {x}) \in SUBSET JsonTexts
  BY <1>7, BodyIn, ThenIn
<1> QED
  BY <1>1, <1>6, <1>8

\* What stands between a bracket and what follows its partner.
Contents(open) == {<<>>} \cup Listed(open)

LEMMA ContentsIn ==
  \A open \in Open : /\ Listed(open) \in SUBSET JsonTexts /\ Contents(open) \in SUBSET JsonTexts
                     /\ Element(open) \in SUBSET JsonTexts /\ {<<Closer(open)>>} \in SUBSET JsonTexts
                     /\ <<>> \notin Listed(open) /\ <<>> \notin Element(open)
<1> TAKE open \in Open
<1>1. Listed(open) \in SUBSET JsonTexts /\ Element(open) \in SUBSET JsonTexts
      /\ <<>> \notin Listed(open) /\ <<>> \notin Element(open)
  BY DEF Listed, Element, Phrase
<1>2. Contents(open) \in SUBSET JsonTexts
  BY <1>1, CatIs DEF Contents
<1>3. <<Closer(open)>> \in JsonTexts
  BY Singles, Alphabet
<1> QED
  BY <1>1, <1>2, <1>3

LEMMA ContainedShape ==
  \A open \in Open : /\ Contained(open) = Then({<<open>>}, Then(Contents(open), {<<Closer(open)>>}))
                     /\ Then(Contents(open), {<<Closer(open)>>}) \in SUBSET JsonTexts
<1> TAKE open \in Open
<1>1. PICK x \in JsonTexts, y \in JsonTexts : x = <<open>> /\ y = <<Closer(open)>>
  <2>1. open \in Char /\ Closer(open) \in Char
    BY Alphabet
  <2> QED
    BY <2>1, Singles
<1>2. \A b \in Contents(open) : (x \o b) \o y = x \o (b \o y)
  BY <1>1, ContentsIn, CatIs
<1>3. \A w : w \in Contained(open) <=> \E b \in Contents(open) : w = (x \o b) \o y
  BY <1>1 DEF Contained, Contents
<1>4. \A w : w \in Then(Contents(open), {y}) <=> \E b \in Contents(open) : w = b \o y
  BY DEF Then
<1>5. \A B, w : w \in Then({x}, B) <=> \E b \in B : w = x \o b
  BY DEF Then
<1>6. Contained(open) = Then({x}, Then(Contents(open), {y}))
  <2>1. ASSUME NEW w \in Contained(open) PROVE w \in Then({x}, Then(Contents(open), {y}))
    <3>1. PICK b \in Contents(open) : w = x \o (b \o y)
      <4>1. PICK b \in Contents(open) : w = (x \o b) \o y
        BY Zenon, <1>3
      <4> QED
        BY Zenon, <1>2, <4>1
    <3>2. b \o y \in Then(Contents(open), {y})
      BY <1>4
    <3> QED
      BY <1>5, <3>1, <3>2
  <2>2. ASSUME NEW w \in Then({x}, Then(Contents(open), {y})) PROVE w \in Contained(open)
    <3>1. PICK z \in Then(Contents(open), {y}) : w = x \o z
      BY <1>5
    <3>2. PICK b \in Contents(open) : z = b \o y
      BY <1>4
    <3> QED
      BY <1>2, <1>3, <3>1, <3>2
  <2> QED
    BY <2>1, <2>2
<1>7. Then(Contents(open), {y}) \in SUBSET JsonTexts
  <2>1. {y} \in SUBSET JsonTexts
    BY <1>1
  <2> QED
    BY <2>1, ContentsIn, ThenIn
<1> QED
  BY <1>1, <1>6, <1>7

LEMMA ValueIn == JsonValue \in SUBSET JsonTexts /\ <<>> \notin JsonValue
BY DEF JsonValue, Phrase

LEMMA ValueDer ==
  ASSUME NEW c \in Char
  PROVE  Der(c, JsonValue) = IF c = "1" THEN Ones
                             ELSE IF c = "\"" THEN Then(StringBody, {<<"\"">>})
                             ELSE IF c \in Open THEN Then(Contents(c), {<<Closer(c)>>}) ELSE {}
<1>1. \A u \in JsonTexts : <<c>> \o u \in JsonTexts /\ <<c>> \o u # <<>>
  BY ConsIs
<1>2. \A u \in JsonTexts : u \in Der(c, JsonValue) <=>
        \/ u \in Der(c, Ones) \/ u \in Der(c, StringText) \/ \E open \in Open : u \in Der(c, Contained(open))
  <2> TAKE u \in JsonTexts
  <2>1. <<c>> \o u \in JsonValue <=> \/ <<c>> \o u \in Ones
                                     \/ <<c>> \o u \in StringText
                                     \/ \E open \in Open : <<c>> \o u \in Contained(open)
    <3>1. PICK w \in JsonTexts : w = <<c>> \o u /\ w # <<>>
      BY <1>1
    <3>2. w \in JsonValue <=> \/ w \in Ones \/ w \in StringText \/ \E open \in Open : w \in Contained(open)
      BY <3>1, ValuesAre
    <3> QED
      BY <3>1, <3>2
  <2>2. \A A : u \in Der(c, A) <=> <<c>> \o u \in A
    BY DEF Der
  <2> QED
    BY Zenon, <2>1, <2>2
<1>3. Der(c, Ones) = IF c = "1" THEN Ones ELSE {}
  BY OnesIs
<1>4. Der(c, StringText) = IF c = "\"" THEN Then(StringBody, {<<"\"">>}) ELSE {}
  BY StringTextShape, DerMark, Alphabet
<1>5. \A open \in Open : Der(c, Contained(open)) = IF c = open THEN Then(Contents(open), {<<Closer(open)>>}) ELSE {}
  <2> TAKE open \in Open
  <2>1. open \in Char
    BY Alphabet
  <2>2. Then(Contents(open), {<<Closer(open)>>}) \in SUBSET JsonTexts
    BY ContainedShape
  <2>3. Der(c, Then({<<open>>}, Then(Contents(open), {<<Closer(open)>>})))
          = IF c = open THEN Then(Contents(open), {<<Closer(open)>>}) ELSE {}
    BY <2>1, <2>2, DerMark
  <2> QED
    BY <2>3, ContainedShape
<1>6. "1" # "\"" /\ "1" \notin Open /\ "\"" \notin Open
  BY DEF Open
<1>7. Der(c, JsonValue) \subseteq JsonTexts /\ Ones \subseteq JsonTexts /\ Then(StringBody, {<<"\"">>}) \subseteq JsonTexts
      /\ \A open \in Open : Then(Contents(open), {<<Closer(open)>>}) \subseteq JsonTexts
  BY DerIn, OnesIs, StringTextShape, ContainedShape
<1>8. CASE c = "1"
  <2>1. \A open \in Open : Der(c, Contained(open)) = {}
    BY <1>5, <1>6, <1>8
  <2>2. Der(c, StringText) = {} /\ Der(c, Ones) = Ones
    BY <1>3, <1>4, <1>6, <1>8
  <2>3. \A u \in JsonTexts : u \in Der(c, JsonValue) <=> u \in Ones
    BY <1>2, <2>1, <2>2
  <2>4. Der(c, JsonValue) = Ones
    BY <1>7, <2>3
  <2> QED
    BY <1>8, <2>4
<1>9. CASE c = "\""
  <2>1. \A open \in Open : Der(c, Contained(open)) = {}
    BY <1>5, <1>6, <1>9
  <2>2. Der(c, StringText) = Then(StringBody, {<<"\"">>}) /\ Der(c, Ones) = {}
    BY <1>3, <1>4, <1>6, <1>9
  <2>3. \A u \in JsonTexts : u \in Der(c, JsonValue) <=> u \in Then(StringBody, {<<"\"">>})
    BY <1>2, <2>1, <2>2
  <2>4. Der(c, JsonValue) = Then(StringBody, {<<"\"">>})
    BY <1>7, <2>3
  <2> QED
    BY <1>6, <1>9, <2>4
<1>10. CASE c \in Open
  <2>1. Der(c, StringText) = {} /\ Der(c, Ones) = {}
    BY <1>3, <1>4, <1>6, <1>10
  <2>2. \A u \in JsonTexts : (\E open \in Open : u \in Der(c, Contained(open))) <=> u \in Then(Contents(c), {<<Closer(c)>>})
    BY <1>5, <1>10
  <2>3. \A u \in JsonTexts : u \in Der(c, JsonValue) <=> u \in Then(Contents(c), {<<Closer(c)>>})
    BY <1>2, <2>1, <2>2
  <2>4. Der(c, JsonValue) = Then(Contents(c), {<<Closer(c)>>})
    BY <1>7, <1>10, <2>3
  <2> QED
    BY <1>6, <1>10, <2>4
<1>11. CASE c # "1" /\ c # "\"" /\ c \notin Open
  <2>1. Der(c, StringText) = {} /\ Der(c, Ones) = {} /\ \A open \in Open : Der(c, Contained(open)) = {}
    BY <1>3, <1>4, <1>5, <1>11
  <2>2. Der(c, JsonValue) = {}
    BY <1>2, <1>7, <2>1
  <2> QED
    BY <1>11, <2>2
<1> QED
  BY <1>8, <1>9, <1>10, <1>11

-----------------------------------------------------------------------------
(* Json: what may follow, where the rest must be in K *)

InText(K) == Then(StringBody, Then({<<"\"">>}, K))
Ending(open, K) == Then({<<Closer(open)>>}, K)
Wanting(open, K) == Then(Listed(open), Ending(open, K))
Inner(open, K) == Ending(open, K) \cup Wanting(open, K)
More(open, K) == Ending(open, K) \cup Then({<<",">>}, Wanting(open, K))

LEMMA ThenUnionRight == \A A, B, C : Then(A, B \cup C) = Then(A, B) \cup Then(A, C)
<1> TAKE A, B, C
<1>1. \A w : w \in Then(A, B \cup C) <=> \E a \in A : \E b \in B \cup C : w = a \o b
  BY ThenIs
<1>2. \A w : w \in Then(A, B) <=> \E a \in A : \E b \in B : w = a \o b
  BY ThenIs
<1>3. \A w : w \in Then(A, C) <=> \E a \in A : \E b \in C : w = a \o b
  BY ThenIs
<1>4. \A w : w \in Then(A, B \cup C) <=> w \in Then(A, B) \/ w \in Then(A, C)
  <2> TAKE w
  <2>1. w \in Then(A, B \cup C) => w \in Then(A, B) \/ w \in Then(A, C)
    BY <1>1, <1>2, <1>3
  <2>2. w \in Then(A, B) => w \in Then(A, B \cup C)
    BY <1>1, <1>2
  <2>3. w \in Then(A, C) => w \in Then(A, B \cup C)
    BY <1>1, <1>3
  <2> QED
    BY <2>1, <2>2, <2>3
<1> QED
  BY ONLY <1>4

LEMMA EndingIs ==
  ASSUME NEW open \in Open, NEW K \in SUBSET JsonTexts
  PROVE  /\ Ending(open, K) \in SUBSET JsonTexts /\ <<>> \notin Ending(open, K)
         /\ \A c \in Char : Der(c, Ending(open, K)) = IF c = Closer(open) THEN K ELSE {}
<1>1. Closer(open) \in Char
  BY Alphabet
<1> QED
  BY <1>1, DerMark DEF Ending

LEMMA WantingIs ==
  ASSUME NEW open \in Open, NEW K \in SUBSET JsonTexts
  PROVE  /\ Wanting(open, K) \in SUBSET JsonTexts /\ <<>> \notin Wanting(open, K)
         /\ More(open, K) \in SUBSET JsonTexts /\ Inner(open, K) \in SUBSET JsonTexts
         /\ Wanting(open, K) = Then(Element(open), More(open, K))
<1> DEFINE C == Ending(open, K)
           L == Listed(open)
           E == Element(open)
           comma == {<<",">>}
<1>1. L \in SUBSET JsonTexts /\ E \in SUBSET JsonTexts /\ C \in SUBSET JsonTexts /\ <<>> \notin L
  BY ContentsIn, EndingIs
<1>2. comma \in SUBSET JsonTexts
  BY Singles, Alphabet
<1>3. L = E \cup Then(E, Then(comma, L))
  BY ListedIs
<1> HIDE DEF C, L, E, comma
<1>4. Then(L, C) = Then(E, C) \cup Then(Then(E, Then(comma, L)), C)
  BY <1>3, ThenUnion
<1>5. Then(comma, L) \in SUBSET JsonTexts /\ Then(L, C) \in SUBSET JsonTexts
  BY <1>1, <1>2, ThenIn
<1>6. Then(Then(E, Then(comma, L)), C) = Then(E, Then(Then(comma, L), C))
  BY <1>1, <1>5, ThenAssociates
<1>7. Then(Then(comma, L), C) = Then(comma, Then(L, C))
  BY <1>1, <1>2, ThenAssociates
<1>8. Then(L, C) = Then(E, C \cup Then(comma, Then(L, C)))
  <2>1. Then(L, C) = Then(E, C) \cup Then(E, Then(comma, Then(L, C)))
    BY ONLY <1>4, <1>6, <1>7
  <2>2. Then(E, C \cup Then(comma, Then(L, C))) = Then(E, C) \cup Then(E, Then(comma, Then(L, C)))
    BY ThenUnionRight
  <2> QED
    BY ONLY <2>1, <2>2
<1>9. Then(comma, Then(L, C)) \in SUBSET JsonTexts
  BY <1>2, <1>5, ThenIn
<1>10. <<>> \notin Then(L, C)
  BY <1>1, EmptyInThen
<1> QED
  BY <1>1, <1>5, <1>8, <1>9, <1>10 DEF Wanting, More, Inner, C, L, E, comma

LEMMA InTextIs ==
  ASSUME NEW K \in SUBSET JsonTexts, {"\"", "\\"} \cap Plain = {}
  PROVE  /\ InText(K) \in SUBSET JsonTexts /\ <<>> \notin InText(K)
         /\ \A c \in Char : Der(c, InText(K)) = IF c = "\"" THEN K
                                                 ELSE IF c \in Quoted THEN InText(K)
                                                 ELSE IF c = "\\" THEN Then(Escaped, InText(K)) ELSE {}
<1> DEFINE X == Then({<<"\"">>}, K)
<1>1. X \in SUBSET JsonTexts /\ <<>> \notin X /\ \A c \in Char : Der(c, X) = IF c = "\"" THEN K ELSE {}
  BY DerMark, Alphabet
<1> HIDE DEF X
<1>2. InText(K) = Then(StringBody, X)
  BY DEF InText, X
<1>3. StringBody \in SUBSET JsonTexts /\ <<>> \in StringBody
  BY BodyIn
<1>4. InText(K) \in SUBSET JsonTexts /\ <<>> \notin InText(K)
  <2>1. Then(StringBody, X) \in SUBSET JsonTexts
    BY <1>1, <1>3, ThenIn
  <2>2. <<>> \in Then(StringBody, X) <=> <<>> \in StringBody /\ <<>> \in X
    BY <1>1, <1>3, EmptyInThen
  <2> QED
    BY <1>1, <1>2, <2>1, <2>2
<1>5. "\\" \notin Plain /\ "\"" \notin Quoted /\ "\"" # "\\" /\ "\\" \notin Quoted
  BY DEF Quoted
<1>6. ASSUME NEW c \in Char
      PROVE  Der(c, InText(K)) = IF c = "\"" THEN K ELSE IF c \in Quoted THEN InText(K)
                                 ELSE IF c = "\\" THEN Then(Escaped, InText(K)) ELSE {}
  <2>1. Der(c, InText(K)) = Then(Der(c, StringBody), X) \cup Der(c, X)
    <3>1. Der(c, Then(StringBody, X))
          = Then(Der(c, StringBody), X) \cup (IF <<>> \in StringBody THEN Der(c, X) ELSE {})
      BY ONLY Zenon, c \in Char, <1>1, <1>3, DerThen
    <3> QED
      BY <1>2, <1>3, <3>1
  <2>2. Der(c, StringBody) = IF c \in Quoted THEN StringBody ELSE IF c = "\\" THEN Then(Escaped, StringBody) ELSE {}
    BY <1>5, BodyDer
  <2>3. Then({}, X) = {}
    BY <1>1, ThenNothing
  <2>4. CASE c = "\""
    <3>1. Der(c, StringBody) = {}
      BY <1>5, <2>2, <2>4
    <3> QED
      BY <1>1, <2>1, <2>3, <2>4, <3>1
  <2>5. CASE c \in Quoted
    <3>1. Der(c, StringBody) = StringBody /\ Der(c, X) = {}
      BY <1>1, <1>5, <2>2, <2>5
    <3> QED
      BY <1>2, <1>5, <2>1, <2>5, <3>1
  <2>6. CASE c = "\\"
    <3>1. Der(c, StringBody) = Then(Escaped, StringBody) /\ Der(c, X) = {}
      BY <1>1, <1>5, <2>2, <2>6
    <3>2. Escaped \in SUBSET JsonTexts
      BY Singles, Alphabet DEF Escaped
    <3>3. Then(Then(Escaped, StringBody), X) = Then(Escaped, Then(StringBody, X))
      BY ONLY Zenon, <1>1, <1>3, <3>2, ThenAssociates
    <3> QED
      BY <1>2, <1>5, <2>1, <2>6, <3>1, <3>3
  <2>7. CASE c # "\"" /\ c \notin Quoted /\ c # "\\"
    <3>1. Der(c, StringBody) = {} /\ Der(c, X) = {}
      BY <1>1, <2>2, <2>7
    <3> QED
      BY <2>1, <2>3, <2>7, <3>1
  <2> QED
    BY <2>4, <2>5, <2>6, <2>7
<1> QED
  BY <1>4, <1>6

LEMMA ValueCont ==
  ASSUME NEW K \in SUBSET JsonTexts
  PROVE  /\ Then(JsonValue, K) \in SUBSET JsonTexts /\ <<>> \notin Then(JsonValue, K)
         /\ \A c \in Char : Der(c, Then(JsonValue, K)) = IF c = "1" THEN Then(Ones, K)
                                                          ELSE IF c = "\"" THEN InText(K)
                                                          ELSE IF c \in Open THEN Inner(c, K) ELSE {}
<1>1. Then(JsonValue, K) \in SUBSET JsonTexts /\ <<>> \notin Then(JsonValue, K)
  BY ValueIn, ThenIn, EmptyInThen
<1>2. ASSUME NEW c \in Char
      PROVE  Der(c, Then(JsonValue, K)) = IF c = "1" THEN Then(Ones, K)
                                          ELSE IF c = "\"" THEN InText(K)
                                          ELSE IF c \in Open THEN Inner(c, K) ELSE {}
  <2>1. Der(c, Then(JsonValue, K)) = Then(Der(c, JsonValue), K)
    <3>1. Der(c, Then(JsonValue, K)) = Then(Der(c, JsonValue), K) \cup (IF <<>> \in JsonValue THEN Der(c, K) ELSE {})
      BY ValueIn, DerThen
    <3> QED
      BY <3>1, ValueIn
  <2>2. Then(Then(StringBody, {<<"\"">>}), K) = InText(K)
    <3>1. {<<"\"">>} \in SUBSET JsonTexts
      BY Singles, Alphabet
    <3> QED
      BY <3>1, BodyIn, ThenAssociates DEF InText
  <2>3. c \in Open => Then(Then(Contents(c), {<<Closer(c)>>}), K) = Inner(c, K)
    <3> HAVE c \in Open
    <3>1. Contents(c) \in SUBSET JsonTexts /\ {<<Closer(c)>>} \in SUBSET JsonTexts
      BY ContentsIn
    <3>2. Then(Then(Contents(c), {<<Closer(c)>>}), K) = Then(Contents(c), Ending(c, K))
      BY <3>1, ThenAssociates DEF Ending
    <3>3. Then(Contents(c), Ending(c, K)) = Then({<<>>}, Ending(c, K)) \cup Wanting(c, K)
      BY ThenUnion DEF Contents, Wanting
    <3>4. Then({<<>>}, Ending(c, K)) = Ending(c, K)
      BY EndingIs, ThenNothing
    <3> QED
      BY <3>2, <3>3, <3>4 DEF Inner
  <2>4. Then({}, K) = {}
    BY ThenNothing
  <2>5. "1" # "\"" /\ "1" \notin Open /\ "\"" \notin Open
    BY DEF Open
  <2>6. CASE c = "1"
    BY <2>1, <2>6, ValueDer
  <2>7. CASE c = "\""
    <3>1. Der(c, JsonValue) = Then(StringBody, {<<"\"">>})
      BY <2>5, <2>7, ValueDer
    <3> QED
      BY <2>1, <2>2, <2>5, <2>7, <3>1
  <2>8. CASE c \in Open
    <3>1. Der(c, JsonValue) = Then(Contents(c), {<<Closer(c)>>})
      BY <2>5, <2>8, ValueDer
    <3> QED
      BY <2>1, <2>3, <2>5, <2>8, <3>1
  <2>9. CASE c # "1" /\ c # "\"" /\ c \notin Open
    <3>1. Der(c, JsonValue) = {}
      BY <2>9, ValueDer
    <3> QED
      BY <2>1, <2>4, <2>9, <3>1
  <2> QED
    BY <2>6, <2>7, <2>8, <2>9
<1> QED
  BY <1>1, <1>2

\* A key, the colon and a value.
Pair(K) == Then({<<":">>}, Then(JsonValue, K))

LEMMA PairIs ==
  ASSUME NEW K \in SUBSET JsonTexts
  PROVE  /\ Pair(K) \in SUBSET JsonTexts /\ <<>> \notin Pair(K)
         /\ \A c \in Char : Der(c, Pair(K)) = IF c = ":" THEN Then(JsonValue, K) ELSE {}
<1>1. ":" \in Char
  BY Alphabet
<1>2. Then(JsonValue, K) \in SUBSET JsonTexts
  BY ValueCont
<1> DEFINE B == Then(JsonValue, K)
<1>3. Pair(K) = Then({<<":">>}, B)
  BY DEF Pair
<1>4. B \in SUBSET JsonTexts
  BY <1>2
<1> HIDE DEF B
<1>5. /\ Then({<<":">>}, B) \in SUBSET JsonTexts /\ <<>> \notin Then({<<":">>}, B)
      /\ \A c \in Char : Der(c, Then({<<":">>}, B)) = IF c = ":" THEN B ELSE {}
  BY ONLY <1>1, <1>4, DerMark
<1>6. /\ Pair(K) \in SUBSET JsonTexts /\ <<>> \notin Pair(K)
      /\ \A c \in Char : Der(c, Pair(K)) = IF c = ":" THEN B ELSE {}
  BY ONLY <1>3, <1>5
<1> QED
  BY <1>6 DEF B

LEMMA ElementCont ==
  ASSUME NEW K \in SUBSET JsonTexts
  PROVE  /\ Then(Element("["), K) = Then(JsonValue, K)
         /\ Then(Element("{"), K) \in SUBSET JsonTexts /\ <<>> \notin Then(Element("{"), K)
         /\ \A c \in Char : Der(c, Then(Element("{"), K)) = IF c = "\"" THEN InText(Pair(K)) ELSE {}
<1>1. Element("[") = JsonValue /\ Element("{") = Phrase("pairs")
  BY DEF Element, JsonValue
<1>2. Element("{") \in SUBSET JsonTexts /\ <<>> \notin Element("{")
  BY <1>1 DEF Phrase
<1>3. Then(Element("{"), K) \in SUBSET JsonTexts /\ <<>> \notin Then(Element("{"), K)
  BY <1>2, ThenIn, EmptyInThen
<1> DEFINE colon == {<<":">>}
           quote == {<<"\"">>}
           R == Then(StringBody, quote)
<1>4. colon \in SUBSET JsonTexts /\ quote \in SUBSET JsonTexts /\ StringBody \in SUBSET JsonTexts /\ JsonValue \in SUBSET JsonTexts
  BY Singles, Alphabet, BodyIn, ValueIn
<1>5. R \in SUBSET JsonTexts /\ StringText = Then(quote, R) /\ Element("{") = Then(StringText, Then(colon, JsonValue))
  BY <1>1, StringTextShape, PairsAre
<1> HIDE DEF colon, quote
<1>6. Then(colon, JsonValue) \in SUBSET JsonTexts /\ StringText \in SUBSET JsonTexts /\ Then(JsonValue, K) \in SUBSET JsonTexts
  BY <1>4, <1>5, ThenIn
<1>7. Then(Element("{"), K) = Then(StringText, Then(Then(colon, JsonValue), K))
  <2> DEFINE V == Then(colon, JsonValue)
  <2>1. V \in SUBSET JsonTexts /\ StringText \in SUBSET JsonTexts /\ Element("{") = Then(StringText, V)
    BY <1>5, <1>6
  <2> HIDE DEF V
  <2>2. Then(Then(StringText, V), K) = Then(StringText, Then(V, K))
    BY ONLY <2>1, ThenAssociates
  <2> QED
    BY <2>1, <2>2 DEF V
<1>8. Then(Then(colon, JsonValue), K) = Pair(K) /\ Pair(K) \in SUBSET JsonTexts
  <2>1. Then(Then(colon, JsonValue), K) = Then(colon, Then(JsonValue, K))
    BY <1>4, ThenAssociates
  <2> QED
    BY <2>1, PairIs DEF Pair, colon
<1>9. Then(StringText, Pair(K)) = Then(quote, Then(R, Pair(K)))
  <2>1. R \in SUBSET JsonTexts /\ StringText = Then(quote, R)
    BY <1>5
  <2> HIDE DEF R
  <2>2. Then(Then(quote, R), Pair(K)) = Then(quote, Then(R, Pair(K)))
    BY <1>4, <1>8, <2>1, ThenAssociates
  <2> QED
    BY <2>1, <2>2
<1>10. Then(R, Pair(K)) = InText(Pair(K))
  <2>1. Then(R, Pair(K)) = Then(StringBody, Then(quote, Pair(K)))
    BY <1>4, <1>8, ThenAssociates
  <2> QED
    BY <2>1 DEF InText, quote
<1>11. Then(R, Pair(K)) \in SUBSET JsonTexts
  BY <1>5, <1>8, ThenIn
<1>12. \A c \in Char : Der(c, Then(quote, Then(R, Pair(K)))) = IF c = "\"" THEN Then(R, Pair(K)) ELSE {}
  <2> HIDE DEF R
  <2> QED
    BY <1>11, DerMark, Alphabet DEF quote
<1> HIDE DEF R
<1> QED
  BY <1>1, <1>3, <1>7, <1>8, <1>9, <1>10, <1>12

LEMMA OnesCont ==
  ASSUME NEW K \in SUBSET JsonTexts
  PROVE  /\ Then(Ones, K) \in SUBSET JsonTexts /\ (<<>> \in Then(Ones, K) <=> <<>> \in K)
         /\ Der("1", K) = {} => Der("1", Then(Ones, K)) = Then(Ones, K)
         /\ \A c \in Char : c # "1" => Der(c, Then(Ones, K)) = Der(c, K)
<1>1. \A c \in Char : Der(c, Then(Ones, K)) = Then(Der(c, Ones), K) \cup Der(c, K)
  BY OnesIs, DerThen
<1>2. Then({}, K) = {}
  BY ThenNothing
<1>3. Then(Ones, K) \in SUBSET JsonTexts /\ (<<>> \in Then(Ones, K) <=> <<>> \in K)
  BY OnesIs, ThenIn, EmptyInThen
<1>4. \A c \in Char : Der(c, Ones) = IF c = "1" THEN Ones ELSE {}
  BY OnesIs
<1>5. Der("1", Then(Ones, K)) = Then(Ones, K) \cup Der("1", K)
  BY <1>1, <1>4, Alphabet
<1>6. \A c \in Char : c # "1" => Der(c, Then(Ones, K)) = Der(c, K)
  BY <1>1, <1>2, <1>4
<1> QED
  BY <1>3, <1>5, <1>6

LEMMA MoreIs ==
  ASSUME NEW open \in Open, NEW K \in SUBSET JsonTexts
  PROVE  /\ <<>> \notin More(open, K) /\ <<>> \notin Inner(open, K)
         /\ \A c \in Char : Der(c, More(open, K)) = IF c = Closer(open) THEN K
                                                     ELSE IF c = "," THEN Wanting(open, K) ELSE {}
         /\ \A c \in Char : c # Closer(open) => Der(c, Inner(open, K)) = Der(c, Wanting(open, K))
         /\ Der(Closer(open), Inner(open, K)) = K
<1>1. Closer(open) \in Char /\ Closer(open) # ","
  BY Alphabet DEF Closer
<1>2. Ending(open, K) \in SUBSET JsonTexts /\ <<>> \notin Ending(open, K)
      /\ \A c \in Char : Der(c, Ending(open, K)) = IF c = Closer(open) THEN K ELSE {}
  BY EndingIs
<1>3. Wanting(open, K) \in SUBSET JsonTexts /\ <<>> \notin Wanting(open, K)
      /\ More(open, K) \in SUBSET JsonTexts /\ Wanting(open, K) = Then(Element(open), More(open, K))
  BY WantingIs
<1> DEFINE Y == Then({<<",">>}, Wanting(open, K))
<1>4. <<>> \notin Y /\ \A c \in Char : Der(c, Y) = IF c = "," THEN Wanting(open, K) ELSE {}
  BY <1>3, DerMark, Alphabet
<1> HIDE DEF Y
<1>5. \A c : Der(c, More(open, K)) = Der(c, Ending(open, K)) \cup Der(c, Y)
  <2>1. More(open, K) = Ending(open, K) \cup Y
    BY DEF More, Y
  <2> QED
    BY <2>1, DerUnion
<1>6. \A c : Der(c, Inner(open, K)) = Der(c, Ending(open, K)) \cup Der(c, Wanting(open, K))
  BY DerUnion DEF Inner
<1>7. Der(Closer(open), Wanting(open, K)) = {}
  <2>1. CASE open = "{"
    <3>1. Closer(open) = "}"
      BY <2>1 DEF Closer
    <3>2. \A c \in Char : Der(c, Then(Element("{"), More(open, K))) = IF c = "\"" THEN InText(Pair(More(open, K))) ELSE {}
      BY <1>3, ElementCont
    <3> QED
      BY <1>1, <1>3, <2>1, <3>1, <3>2
  <2>2. CASE open = "["
    <3>1. Closer(open) = "]" /\ "]" \notin Open
      BY <2>2 DEF Closer, Open
    <3>2. Then(Element("["), More(open, K)) = Then(JsonValue, More(open, K))
      BY <1>3, ElementCont
    <3>3. \A c \in Char : c # "1" /\ c # "\"" /\ c \notin Open => Der(c, Then(JsonValue, More(open, K))) = {}
      BY <1>3, ValueCont
    <3> QED
      BY <1>1, <1>3, <2>2, <3>1, <3>2, <3>3
  <2> QED
    BY <2>1, <2>2 DEF Open
<1>8. <<>> \notin More(open, K) /\ <<>> \notin Inner(open, K)
  BY <1>2, <1>3, <1>4 DEF More, Inner, Y
<1>9. \A c \in Char : Der(c, More(open, K)) = IF c = Closer(open) THEN K ELSE IF c = "," THEN Wanting(open, K) ELSE {}
  BY <1>1, <1>2, <1>4, <1>5
<1>10. \A c \in Char : c # Closer(open) => Der(c, Inner(open, K)) = Der(c, Wanting(open, K))
  BY <1>2, <1>6
<1>11. Der(Closer(open), Inner(open, K)) = K
  BY <1>1, <1>2, <1>6, <1>7
<1> QED
  BY <1>8, <1>9, <1>10, <1>11

-----------------------------------------------------------------------------
(* Json: what is expected at every place of the parser *)

\* What makes the text a value.
Remaining(t) == {w \in JsonTexts : t \o w \in JsonValue}

\* Two languages that agree on what begins with c, or on the end of the text.
Alike(A, B, c) == IF c = Eof THEN <<>> \in A <=> <<>> \in B ELSE Der(c, A) = Der(c, B)

\* What may follow at a place, K being what may follow the innermost container and
\* outer what may follow the one around it.
Expected(place, open, key, K, outer) ==
  CASE place = "value" -> Then(JsonValue, K)
    [] place = "key" -> Then(Element("{"), K)
    [] place = "first" -> Inner(open, outer)
    [] place = "string" -> InText(IF key THEN Pair(K) ELSE K)
    [] place = "escape" -> Then(Escaped, InText(IF key THEN Pair(K) ELSE K))
    [] place = "colon" -> Pair(K)
    [] place = "number" -> Then(Ones, K)
    [] place \in {"after", "add", "end"} -> K
    [] place = "accepted" -> {<<>>}
    [] OTHER -> {}

\* What may follow the container at each depth.
Chain(K, S) == /\ K \in [0..Len(S) -> SUBSET JsonTexts] /\ K[0] = {<<>>}
               /\ \A k \in 1..Len(S) : K[k] = More(S[k].open, K[k - 1])

ExpectedNow(K) == Expected(at, Top.open, buf.key, K[Len(stack)], K[Len(stack) - 1])

\* What makes the text a value is what the parser expects, as far as the character
\* at hand tells.
ContinuesInv == \E K : Chain(K, stack) /\ Alike(Remaining(text), ExpectedNow(K), ahead)

\* How long the text is, and what a string may hold.
LookInv ==
  /\ Len(text) <= MaxText /\ (ahead # Eof => Len(text) < MaxText)
  /\ InString => ahead \in Quoted \cup {"\"", "\\", Eof} \cup Escapes
  /\ at = "accepted" => ahead = Eof

LEMMA RemainingIs ==
  /\ Remaining(<<>>) = JsonValue
  /\ \A t \in JsonTexts, c \in Char : Remaining(Append(t, c)) = Der(c, Remaining(t))
  /\ \A t : Remaining(t) \in SUBSET JsonTexts
<1>1. \A w \in JsonTexts : <<>> \o w = w
  BY CatIs
<1>2. Remaining(<<>>) = JsonValue
  BY <1>1, ValueIn DEF Remaining
<1>3. ASSUME NEW t \in JsonTexts, NEW c \in Char PROVE Remaining(Append(t, c)) = Der(c, Remaining(t))
  <2>1. PICK x \in JsonTexts : x = <<c>>
    BY Singles
  <2>2. Append(t, c) = t \o x
    BY <2>1, AppendIsConcat DEF JsonTexts
  <2>3. \A w \in JsonTexts : (t \o x) \o w = t \o (x \o w) /\ x \o w \in JsonTexts
    <3>1. \A w \in JsonTexts : Cat(Cat(t, x), w) = Cat(t, Cat(x, w)) /\ Cat(x, w) \in JsonTexts
      BY CatAssociates
    <3> QED
      BY <3>1 DEF Cat
  <2>4. \A w : w \in Remaining(Append(t, c)) <=> w \in JsonTexts /\ (t \o x) \o w \in JsonValue
    BY <2>2 DEF Remaining
  <2>5. \A w : w \in Der(c, Remaining(t)) <=> w \in JsonTexts /\ x \o w \in JsonTexts /\ t \o (x \o w) \in JsonValue
    BY <2>1 DEF Remaining, Der
  <2> QED
    BY <2>3, <2>4, <2>5
<1> QED
  BY <1>2, <1>3 DEF Remaining

LEMMA ChainTop ==
  ASSUME NEW S \in Seq(Frames), NEW K, Chain(K, S)
  PROVE  /\ K[Len(S)] \in SUBSET JsonTexts /\ Der("1", K[Len(S)]) = {}
         /\ S = <<>> => K[Len(S)] = {<<>>} /\ \A c \in Char : Der(c, K[Len(S)]) = {}
         /\ S # <<>> => /\ K[Len(S) - 1] \in SUBSET JsonTexts /\ S[Len(S)].open \in Open
                        /\ K[Len(S)] = More(S[Len(S)].open, K[Len(S) - 1])
<1>1. PICK n \in Nat : n = Len(S)
  BY LenProperties
<1>2. K[n] \in SUBSET JsonTexts
  BY <1>1 DEF Chain
<1>3. CASE S = <<>>
  <2>1. n = 0
    BY <1>1, <1>3
  <2>2. K[n] = {<<>>}
    BY <1>1, <2>1 DEF Chain
  <2>3. \A c \in Char, u \in JsonTexts : <<c>> \o u # <<>>
    BY ConsIs
  <2>4. \A c \in Char : Der(c, K[n]) = {}
    BY <2>2, <2>3 DEF Der
  <2> QED
    BY <1>1, <1>2, <1>3, <2>2, <2>4, Alphabet
<1>4. CASE S # <<>>
  <2>1. n \in 1..n /\ n - 1 \in 0..n
    BY <1>1, <1>4, EmptySeq
  <2>2. S[n] \in Frames
    BY <1>1, <2>1, ElementOfSeq
  <2>3. S[n].open \in Open
    BY <2>2 DEF Frames
  <2>4. K[n] = More(S[n].open, K[n - 1]) /\ K[n - 1] \in SUBSET JsonTexts
    BY <1>1, <2>1 DEF Chain
  <2>5. "1" # "," /\ "1" # Closer(S[n].open)
    BY DEF Closer
  <2>6. \A c \in Char : Der(c, More(S[n].open, K[n - 1])) = IF c = Closer(S[n].open) THEN K[n - 1]
                                                     ELSE IF c = "," THEN Wanting(S[n].open, K[n - 1]) ELSE {}
    BY <2>3, <2>4, MoreIs
  <2>7. Der("1", K[n]) = {}
    BY <2>4, <2>5, <2>6, Alphabet
  <2> QED
    BY <1>1, <1>2, <1>4, <2>3, <2>4, <2>7
<1> QED
  BY <1>3, <1>4

LEMMA ChainPushed ==
  ASSUME NEW S \in Seq(Frames), NEW K, Chain(K, S), NEW f \in Frames
  PROVE  \E L : /\ Chain(L, Append(S, f))
                /\ L[Len(S)] = K[Len(S)] /\ L[Len(S) + 1] = More(f.open, K[Len(S)])
<1>1. PICK n \in Nat : n = Len(S)
  BY LenProperties
<1>2. /\ Append(S, f) \in Seq(Frames) /\ Len(Append(S, f)) = n + 1 /\ Append(S, f)[n + 1] = f
      /\ \A k \in 1..n : Append(S, f)[k] = S[k]
  BY <1>1, Pushed
<1> DEFINE last == More(f.open, K[n])
           L == [m \in 0..(n + 1) |-> IF m = n + 1 THEN last ELSE K[m]]
<1>3. last \in SUBSET JsonTexts
  <2>1. f.open \in Open
    BY DEF Frames
  <2>2. K \in [0..n -> SUBSET JsonTexts] /\ n \in 0..n
    BY <1>1 DEF Chain
  <2> QED
    BY <2>1, <2>2, WantingIs
<1> HIDE DEF last
<1>4. L \in [0..(n + 1) -> SUBSET JsonTexts] /\ L[0] = {<<>>} /\ L[n + 1] = last /\ \A m \in 0..n : L[m] = K[m]
  <2>1. K \in [0..n -> SUBSET JsonTexts] /\ K[0] = {<<>>}
    BY <1>1 DEF Chain
  <2>2. \A m \in 0..(n + 1) : m = n + 1 \/ m \in 0..n
    OBVIOUS
  <2>3. \A m \in 0..n : m # n + 1
    OBVIOUS
  <2> QED
    BY <1>3, <2>1, <2>2, <2>3
<1> HIDE DEF L
<1>5. \A m \in 1..(n + 1) : L[m] = More(Append(S, f)[m].open, L[m - 1])
  <2> TAKE m \in 1..(n + 1)
  <2>1. CASE m = n + 1
    <3>1. m - 1 = n /\ n \in 0..n
      BY <2>1
    <3> QED
      BY <1>2, <1>4, <2>1, <3>1 DEF last
  <2>2. CASE m # n + 1
    <3>1. m \in 1..n /\ m \in 0..n /\ m - 1 \in 0..n
      BY <2>2
    <3>2. K[m] = More(S[m].open, K[m - 1])
      BY <1>1, <3>1 DEF Chain
    <3> QED
      BY <1>2, <1>4, <3>1, <3>2
  <2> QED
    BY <2>1, <2>2
<1>6. Chain(L, Append(S, f))
  BY <1>2, <1>4, <1>5 DEF Chain
<1>7. L[n] = K[n] /\ L[n + 1] = More(f.open, K[n])
  BY <1>4 DEF last
<1> QED
  BY <1>1, <1>6, <1>7

LEMMA ChainPopped ==
  ASSUME NEW S \in Seq(Frames), NEW K, Chain(K, S), S # <<>>
  PROVE  \E L : Chain(L, Front(S)) /\ L[Len(Front(S))] = K[Len(S) - 1]
<1>1. PICK n \in Nat : n = Len(S) /\ n > 0
  BY Popped, LenProperties, EmptySeq
<1>2. /\ Front(S) \in Seq(Frames) /\ Len(Front(S)) = n - 1
      /\ \A k \in 1..(n - 1) : Front(S)[k] = S[k]
  BY <1>1, Popped
<1> DEFINE L == [m \in 0..(n - 1) |-> K[m]]
<1>3. K \in [0..n -> SUBSET JsonTexts] /\ K[0] = {<<>>} /\ \A m \in 1..n : K[m] = More(S[m].open, K[m - 1])
  BY <1>1 DEF Chain
<1>4. L \in [0..(n - 1) -> SUBSET JsonTexts] /\ \A m \in 0..(n - 1) : L[m] = K[m]
  BY <1>1, <1>3
<1> HIDE DEF L
<1>5. L[0] = {<<>>} /\ L[n - 1] = K[n - 1]
  BY <1>1, <1>3, <1>4
<1>6. \A m \in 1..(n - 1) : L[m] = More(Front(S)[m].open, L[m - 1])
  <2> TAKE m \in 1..(n - 1)
  <2>1. m \in 1..n /\ m \in 0..(n - 1) /\ m - 1 \in 0..(n - 1)
    OBVIOUS
  <2> QED
    BY <1>2, <1>3, <1>4, <2>1
<1>7. Chain(L, Front(S))
  BY <1>2, <1>4, <1>5, <1>6 DEF Chain
<1> QED
  BY <1>1, <1>2, <1>5, <1>7

LEMMA ChainReplaced ==
  ASSUME NEW S \in Seq(Frames), NEW K, Chain(K, S), S # <<>>, NEW f \in Frames, f.open = S[Len(S)].open
  PROVE  Chain(K, [S EXCEPT ![Len(S)] = f])
<1> DEFINE T == [S EXCEPT ![Len(S)] = f]
<1>1. PICK n \in Nat : n = Len(S)
  BY LenProperties
<1>2. Len(T) = n /\ T[n] = f /\ \A k \in 1..(n - 1) : T[k] = S[k]
  BY <1>1, TopReplaced
<1> HIDE DEF T
<1>3. \A m \in 1..n : T[m].open = S[m].open
  <2> TAKE m \in 1..n
  <2>1. m = n \/ m \in 1..(n - 1)
    OBVIOUS
  <2> QED
    BY <1>1, <1>2, <2>1
<1>4. Chain(K, T)
  BY <1>1, <1>2, <1>3 DEF Chain
<1> QED
  BY <1>4 DEF T

LEMMA LookAdvances ==
  ASSUME JsonParameters, JsonTypes, LookInv, Advance, ahead # Eof, at' # "accepted"
  PROVE  LookInv'
<1>1. text \in Seq(Char) /\ ahead \in Char /\ text' = Append(text, ahead)
  BY DEF JsonTypes, Advance
<1>2. Len(text') = Len(text) + 1 /\ Len(text) \in Nat
  BY <1>1, AppendProperties
<1>3. ahead' \in Following(text')
  BY DEF Advance
<1>4. Len(text') = MaxText => ahead' = Eof
  BY <1>3 DEF Following
<1>5. InString' => ahead' \in Quoted \cup {"\"", "\\", Eof} \cup Escapes
  BY <1>3 DEF Following, InString, Quoted, Escapes
<1>6. Len(text) < MaxText
  BY DEF LookInv
<1>7. Len(text') <= MaxText /\ (ahead' # Eof => Len(text') < MaxText)
  <2>1. PICK l \in Nat : l = Len(text) /\ Len(text') = l + 1
    BY <1>2
  <2> QED
    <3>1. MaxText \in Nat
      BY Zenon DEF JsonParameters
    <3> QED
      BY <1>4, <1>6, <2>1, <3>1
<1> QED
  BY <1>5, <1>7 DEF LookInv

LEMMA LookStays ==
  ASSUME LookInv, Stay, at' \notin {"string", "escape"}, at' = "accepted" => ahead = Eof
  PROVE  LookInv'
BY DEF LookInv, Stay, InString

LEMMA AdvanceContinues ==
  ASSUME JsonTypes, Advance, ahead # Eof, NEW E, Alike(Remaining(text), E, ahead), NEW L,
         Chain(L, stack'),
         Expected(at', stack'[Len(stack')].open, buf'.key, L[Len(stack')], L[Len(stack') - 1]) = Der(ahead, E)
  PROVE  ContinuesInv'
<1>1. text \in JsonTexts /\ ahead \in Char /\ text' = Append(text, ahead)
  BY DEF JsonTypes, Advance, JsonTexts
<1>2. Remaining(text') = Der(ahead, Remaining(text))
  BY <1>1, RemainingIs
<1>3. Der(ahead, Remaining(text)) = Der(ahead, E)
  BY DEF Alike
<1>4. ExpectedNow(L)' = Der(ahead, E)
  BY DEF ExpectedNow, Top
<1>5. Alike(Remaining(text), ExpectedNow(L), ahead)'
  BY <1>2, <1>3, <1>4 DEF Alike
<1> QED
  BY <1>5 DEF ContinuesInv

LEMMA StayContinues ==
  ASSUME Stay, NEW E, Alike(Remaining(text), E, ahead), NEW L, Chain(L, stack'),
         Alike(E, Expected(at', stack'[Len(stack')].open, buf'.key, L[Len(stack')], L[Len(stack') - 1]), ahead)
  PROVE  ContinuesInv'
<1>1. text' = text /\ ahead' = ahead
  BY DEF Stay
<1>2. ExpectedNow(L)' = Expected(at', stack'[Len(stack')].open, buf'.key, L[Len(stack')], L[Len(stack') - 1])
  BY DEF ExpectedNow, Top
<1> DEFINE X == Expected(at', stack'[Len(stack')].open, buf'.key, L[Len(stack')], L[Len(stack') - 1])
<1>3. Alike(E, X, ahead)
  OBVIOUS
<1> HIDE DEF X
<1>4. Alike(Remaining(text), X, ahead)
  BY <1>3 DEF Alike
<1>5. Alike(Remaining(text), ExpectedNow(L), ahead)'
  <2>1. Remaining(text)' = Remaining(text)
    BY <1>1
  <2>2. ExpectedNow(L)' = X
    BY <1>2 DEF X
  <2> QED
    BY <1>1, <1>4, <2>1, <2>2 DEF Alike
<1> QED
  BY <1>5 DEF ContinuesInv

LEMMA NowIs ==
  ASSUME NEW K
  PROVE  LET A == K[Len(stack)]
         IN /\ at = "value" => ExpectedNow(K) = Then(JsonValue, A)
            /\ at = "key" => ExpectedNow(K) = Then(Element("{"), A)
            /\ at = "first" => ExpectedNow(K) = Inner(Top.open, K[Len(stack) - 1])
            /\ at = "string" => ExpectedNow(K) = InText(IF buf.key THEN Pair(A) ELSE A)
            /\ at = "escape" => ExpectedNow(K) = Then(Escaped, InText(IF buf.key THEN Pair(A) ELSE A))
            /\ at = "colon" => ExpectedNow(K) = Pair(A)
            /\ at = "number" => ExpectedNow(K) = Then(Ones, A)
            /\ at \in {"after", "add", "end"} => ExpectedNow(K) = A
            /\ at = "accepted" => ExpectedNow(K) = {<<>>}
            /\ at \in {"unwind", "rejected"} => ExpectedNow(K) = {}
<1> DEFINE E(p) == Expected(p, Top.open, buf.key, K[Len(stack)], K[Len(stack) - 1])
<1>1. ExpectedNow(K) = E(at)
  BY DEF ExpectedNow
<1>2. /\ E("value") = Then(JsonValue, K[Len(stack)])
      /\ E("key") = Then(Element("{"), K[Len(stack)])
      /\ E("first") = Inner(Top.open, K[Len(stack) - 1])
      /\ E("string") = InText(IF buf.key THEN Pair(K[Len(stack)]) ELSE K[Len(stack)])
      /\ E("escape") = Then(Escaped, InText(IF buf.key THEN Pair(K[Len(stack)]) ELSE K[Len(stack)]))
      /\ E("colon") = Pair(K[Len(stack)])
      /\ E("number") = Then(Ones, K[Len(stack)])
      /\ E("after") = K[Len(stack)] /\ E("add") = K[Len(stack)] /\ E("end") = K[Len(stack)]
      /\ E("accepted") = {<<>>} /\ E("unwind") = {} /\ E("rejected") = {}
  BY Zenon DEF Expected
<1> HIDE DEF E
<1> QED
  BY <1>1, <1>2

\* A value opens: a container, a string, or digits.
LEMMA OpenContainerContinues ==
  ASSUME JsonInv, ContinuesInv, OpenContainer
  PROVE  ContinuesInv'
<1>1. PICK K : Chain(K, stack) /\ Alike(Remaining(text), ExpectedNow(K), ahead)
  BY DEF ContinuesInv
<1>2. JsonTypes /\ stack \in Seq(Frames) /\ ahead \in Open /\ ahead # Eof /\ Advance /\ at = "value" /\ at' = "first"
  BY DEF OpenContainer, JsonInv, JsonTypes, Open, Eof
<1> DEFINE f == [open |-> ahead, print |-> <<ahead>>, allocs |-> 1, key |-> Nothing]
<1>3. stack' = Append(stack, f) /\ f.open = ahead
  BY DEF OpenContainer
<1>4. f \in Frames
  <2>1. ahead \in Char
    BY <1>2, Alphabet
  <2> QED
    BY <1>2, <2>1 DEF Frames, Trees, Nothing
<1> HIDE DEF f
<1>5. PICK L : Chain(L, Append(stack, f)) /\ L[Len(stack)] = K[Len(stack)]
  BY <1>1, <1>2, <1>4, ChainPushed
<1>6. Len(stack') = Len(stack) + 1 /\ stack'[Len(stack')].open = ahead /\ Len(stack') - 1 = Len(stack)
  BY <1>2, <1>3, <1>4, Pushed
<1>7. K[Len(stack)] \in SUBSET JsonTexts
  BY <1>1, <1>2, ChainTop
<1>8. ExpectedNow(K) = Then(JsonValue, K[Len(stack)])
  BY <1>2, NowIs
<1>9. Der(ahead, ExpectedNow(K)) = Inner(ahead, K[Len(stack)])
  BY <1>2, <1>7, <1>8, ValueCont, Alphabet DEF Open
<1>10. Expected(at', stack'[Len(stack')].open, buf'.key, L[Len(stack')], L[Len(stack') - 1]) = Inner(ahead, K[Len(stack)])
  <2>1. Expected("first", ahead, buf'.key, L[Len(stack')], L[Len(stack)]) = Inner(ahead, L[Len(stack)])
    BY Zenon DEF Expected
  <2> QED
    BY <1>2, <1>5, <1>6, <2>1
<1> QED
  BY <1>1, <1>2, <1>3, <1>5, <1>9, <1>10, AdvanceContinues

LEMMA ClosesTop ==
  ASSUME JsonInv, at \in {"first", "after"}, NEW K, Chain(K, stack)
  PROVE  /\ Top.open \in Open /\ K[Len(stack) - 1] \in SUBSET JsonTexts /\ stack # <<>>
         /\ K[Len(stack)] = More(Top.open, K[Len(stack) - 1])
         /\ ExpectedNow(K) = IF at = "first" THEN Inner(Top.open, K[Len(stack) - 1])
                             ELSE More(Top.open, K[Len(stack) - 1])
<1>1. stack # <<>> /\ stack \in Seq(Frames)
  BY DEF JsonInv, JsonTypes, PlaceInv
<1>2. /\ K[Len(stack) - 1] \in SUBSET JsonTexts /\ Top.open \in Open
      /\ K[Len(stack)] = More(Top.open, K[Len(stack) - 1])
  BY <1>1, ChainTop DEF Top
<1>3. at = "first" => ExpectedNow(K) = Inner(Top.open, K[Len(stack) - 1])
  BY NowIs
<1>4. at = "after" => ExpectedNow(K) = K[Len(stack)]
  BY NowIs
<1> QED
  BY <1>1, <1>2, <1>3, <1>4

LEMMA ReturnPlace ==
  ASSUME NEW v, NEW n, NEW callers, Return(v, n, callers)
  PROVE  at' \in {"add", "end"}
BY DEF Return

LEMMA CloseContainerContinues ==
  ASSUME JsonInv, ContinuesInv, CloseContainer
  PROVE  ContinuesInv'
<1>1. PICK K : Chain(K, stack) /\ Alike(Remaining(text), ExpectedNow(K), ahead)
  BY DEF ContinuesInv
<1>2. JsonTypes /\ stack \in Seq(Frames) /\ at \in {"first", "after"} /\ ahead = Closer(Top.open)
      /\ Advance /\ stack' = Front(stack)
  BY DEF CloseContainer, JsonInv, JsonTypes
<1>3. at' \in {"add", "end"}
  BY ReturnPlace DEF CloseContainer
<1>4. /\ Top.open \in Open /\ K[Len(stack) - 1] \in SUBSET JsonTexts /\ stack # <<>>
      /\ ExpectedNow(K) = IF at = "first" THEN Inner(Top.open, K[Len(stack) - 1])
                          ELSE More(Top.open, K[Len(stack) - 1])
  BY <1>1, <1>2, ClosesTop
<1>5. ahead \in Char /\ ahead # Eof
  BY <1>2, <1>4, Alphabet DEF Closer, Eof
<1>6. Der(ahead, ExpectedNow(K)) = K[Len(stack) - 1]
  <2>1. Der(ahead, Inner(Top.open, K[Len(stack) - 1])) = K[Len(stack) - 1]
    BY <1>2, <1>4, MoreIs
  <2>2. Der(ahead, More(Top.open, K[Len(stack) - 1])) = K[Len(stack) - 1]
    BY <1>2, <1>4, <1>5, MoreIs
  <2> QED
    BY <1>4, <2>1, <2>2
<1>7. PICK L : Chain(L, Front(stack)) /\ L[Len(Front(stack))] = K[Len(stack) - 1]
  BY <1>1, <1>2, <1>4, ChainPopped
<1>8. Expected(at', stack'[Len(stack')].open, buf'.key, L[Len(stack')], L[Len(stack') - 1]) = K[Len(stack) - 1]
  <2> DEFINE E(p) == Expected(p, stack'[Len(stack')].open, buf'.key, L[Len(stack')], L[Len(stack') - 1])
  <2>1. E("add") = L[Len(stack')] /\ E("end") = L[Len(stack')]
    BY Zenon DEF Expected
  <2>2. E(at') = L[Len(stack')]
    <3> HIDE DEF E
    <3> QED
      BY <1>3, <2>1
  <2> QED
    BY <1>2, <1>7, <2>2
<1> QED
  BY <1>1, <1>2, <1>5, <1>6, <1>7, <1>8, AdvanceContinues

LEMMA NotEmptyContinues ==
  ASSUME JsonInv, ContinuesInv, NotEmpty
  PROVE  ContinuesInv'
<1>1. PICK K : Chain(K, stack) /\ Alike(Remaining(text), ExpectedNow(K), ahead)
  BY DEF ContinuesInv
<1>2. /\ JsonTypes /\ at = "first" /\ ahead # Closer(Top.open) /\ Stay /\ stack' = stack
      /\ at' = IF Top.open = "{" THEN "key" ELSE "value"
  BY DEF NotEmpty, JsonInv, Wanted
<1> DEFINE A == K[Len(stack)]
           outer == K[Len(stack) - 1]
<1>3. /\ Top.open \in Open /\ outer \in SUBSET JsonTexts /\ A = More(Top.open, outer)
      /\ ExpectedNow(K) = Inner(Top.open, outer)
  BY <1>1, <1>2, ClosesTop
<1>4. Wanting(Top.open, outer) = Then(Element(Top.open), A) /\ A \in SUBSET JsonTexts
      /\ <<>> \notin Wanting(Top.open, outer) /\ <<>> \notin Inner(Top.open, outer)
  <2> HIDE DEF A, outer
  <2> QED
    BY <1>3, WantingIs, MoreIs
<1> DEFINE E(p) == Expected(p, stack'[Len(stack')].open, buf'.key, A, K[Len(stack') - 1])
<1>5. E("key") = Then(Element("{"), A) /\ E("value") = Then(JsonValue, A)
  BY Zenon DEF Expected
<1>6. E(at') = Wanting(Top.open, outer)
  <2> HIDE DEF E, A, outer
  <2>1. CASE Top.open = "{"
    BY <1>2, <1>4, <1>5, <2>1
  <2>2. CASE Top.open # "{"
    <3>1. Top.open = "["
      BY <1>3, <2>2 DEF Open
    <3>2. Then(Element("["), A) = Then(JsonValue, A)
      BY <1>4, ElementCont
    <3> QED
      BY <1>2, <1>4, <1>5, <2>2, <3>1, <3>2
  <2> QED
    BY <2>1, <2>2
<1>7. Alike(Inner(Top.open, outer), Wanting(Top.open, outer), ahead)
  <2> HIDE DEF A, outer
  <2>1. ahead # Eof => Der(ahead, Inner(Top.open, outer)) = Der(ahead, Wanting(Top.open, outer))
    <3>1. ahead # Eof => ahead \in Char
      BY <1>2 DEF JsonTypes
    <3>2. \A c \in Char : c # Closer(Top.open) => Der(c, Inner(Top.open, outer)) = Der(c, Wanting(Top.open, outer))
      BY <1>3, MoreIs
    <3> QED
      BY <1>2, <3>1, <3>2
  <2> QED
    BY <1>4, <2>1 DEF Alike
<1>8. Expected(at', stack'[Len(stack')].open, buf'.key, K[Len(stack')], K[Len(stack') - 1]) = Wanting(Top.open, outer)
  BY <1>2, <1>6
<1> QED
  <2> HIDE DEF A, outer
  <2>1. Alike(Remaining(text), Inner(Top.open, outer), ahead) /\ Chain(K, stack')
    BY <1>1, <1>2, <1>3
  <2> QED
    BY <1>2, <1>7, <1>8, <2>1, StayContinues

LEMMA CommaContinues ==
  ASSUME JsonInv, ContinuesInv, Comma
  PROVE  ContinuesInv'
<1>1. PICK K : Chain(K, stack) /\ Alike(Remaining(text), ExpectedNow(K), ahead)
  BY DEF ContinuesInv
<1> DEFINE f == [Top EXCEPT !.print = Append(@, ",")]
           A == K[Len(stack)]
           outer == K[Len(stack) - 1]
<1>2. /\ JsonTypes /\ stack \in Seq(Frames) /\ at = "after" /\ ahead = "," /\ Advance /\ stack' = WithTop(f)
      /\ at' = IF Top.open = "{" THEN "key" ELSE "value"
  BY DEF Comma, JsonInv, JsonTypes, Wanted
<1>3. /\ Top.open \in Open /\ outer \in SUBSET JsonTexts /\ A = More(Top.open, outer) /\ stack # <<>>
      /\ ExpectedNow(K) = More(Top.open, outer)
  BY <1>1, <1>2, ClosesTop
<1>4. Top \in Frames /\ f \in Frames /\ f.open = Top.open
  <2>1. Top \in Frames
    BY <1>2, <1>3, Popped DEF Top
  <2>2. Append(Top.print, ",") \in Seq(Char)
    BY <2>1, AppendProperties, Alphabet DEF Frames
  <2> QED
    BY <2>1, <2>2 DEF Frames
<1> HIDE DEF f, A, outer
<1>5. Chain(K, stack') /\ Len(stack') = Len(stack)
  <2>1. Chain(K, [stack EXCEPT ![Len(stack)] = f])
    BY <1>1, <1>2, <1>3, <1>4, ChainReplaced DEF Top
  <2>2. Len([stack EXCEPT ![Len(stack)] = f]) = Len(stack)
    BY <1>2, <1>3, <1>4, TopReplaced
  <2> QED
    BY <1>2, <2>1, <2>2 DEF WithTop
<1>6. Wanting(Top.open, outer) = Then(Element(Top.open), A) /\ A \in SUBSET JsonTexts
  BY <1>3, WantingIs
<1> DEFINE E(p) == Expected(p, stack'[Len(stack')].open, buf'.key, A, outer)
<1>7. E("key") = Then(Element("{"), A) /\ E("value") = Then(JsonValue, A)
  BY Zenon DEF Expected
<1>8. E(at') = Wanting(Top.open, outer)
  <2> HIDE DEF E
  <2>1. CASE Top.open = "{"
    BY <1>2, <1>6, <1>7, <2>1
  <2>2. CASE Top.open # "{"
    <3>1. Top.open = "["
      BY <1>3, <2>2 DEF Open
    <3>2. Then(Element("["), A) = Then(JsonValue, A)
      BY <1>6, ElementCont
    <3> QED
      BY <1>2, <1>6, <1>7, <2>2, <3>1, <3>2
  <2> QED
    BY <2>1, <2>2
<1>9. Der(ahead, ExpectedNow(K)) = Wanting(Top.open, outer)
  <2>1. "," # Closer(Top.open)
    BY DEF Closer
  <2>2. \A c \in Char : Der(c, More(Top.open, outer)) = IF c = Closer(Top.open) THEN outer
                                                       ELSE IF c = "," THEN Wanting(Top.open, outer) ELSE {}
    BY <1>3, MoreIs
  <2>3. "," \in Char
    BY Alphabet
  <2>4. Der(",", More(Top.open, outer)) = Wanting(Top.open, outer)
    BY <2>1, <2>2, <2>3
  <2> QED
    BY <1>2, <1>3, <2>4
<1>10. Expected(at', stack'[Len(stack')].open, buf'.key, K[Len(stack')], K[Len(stack') - 1]) = Wanting(Top.open, outer)
  BY <1>5, <1>8 DEF A, outer
<1>11. ahead # Eof
  BY <1>2 DEF Eof
<1> QED
  BY <1>1, <1>2, <1>5, <1>9, <1>10, <1>11, AdvanceContinues

LEMMA FailContinues ==
  ASSUME NEW K, Chain(K, stack), Alike(Remaining(text), ExpectedNow(K), ahead), Stay, stack' = stack,
         at' \in {"unwind", "rejected"},
         ahead = Eof => <<>> \notin ExpectedNow(K), ahead # Eof => Der(ahead, ExpectedNow(K)) = {}
  PROVE  ContinuesInv'
<1> DEFINE E(p) == Expected(p, stack'[Len(stack')].open, buf'.key, K[Len(stack')], K[Len(stack') - 1])
<1>1. E("unwind") = {} /\ E("rejected") = {}
  BY Zenon DEF Expected
<1>2. E(at') = {}
  <2> HIDE DEF E
  <2> QED
    BY <1>1
<1>3. \A c : Der(c, {}) = {}
  BY DEF Der
<1>4. Alike(ExpectedNow(K), {}, ahead)
  BY <1>3 DEF Alike
<1> QED
  BY <1>2, <1>4, StayContinues

LEMMA NeitherContinues ==
  ASSUME JsonInv, ContinuesInv, NeitherCommaNorCloser
  PROVE  ContinuesInv'
<1>1. PICK K : Chain(K, stack) /\ Alike(Remaining(text), ExpectedNow(K), ahead)
  BY DEF ContinuesInv
<1>2. /\ JsonTypes /\ at = "after" /\ ahead \notin {",", Closer(Top.open)} /\ Stay /\ stack' = stack
      /\ at' = "unwind"
  BY DEF NeitherCommaNorCloser, JsonInv, Fail
<1>3. /\ Top.open \in Open /\ K[Len(stack) - 1] \in SUBSET JsonTexts
      /\ ExpectedNow(K) = More(Top.open, K[Len(stack) - 1])
  BY <1>1, <1>2, ClosesTop
<1>4. ahead # Eof => ahead \in Char
  BY <1>2 DEF JsonTypes
<1>5. <<>> \notin ExpectedNow(K) /\ (ahead # Eof => Der(ahead, ExpectedNow(K)) = {})
  <2> DEFINE outer == K[Len(stack) - 1]
  <2>1. outer \in SUBSET JsonTexts /\ ExpectedNow(K) = More(Top.open, outer)
    BY <1>3
  <2> HIDE DEF outer
  <2>2. /\ <<>> \notin More(Top.open, outer)
        /\ \A c \in Char : Der(c, More(Top.open, outer)) = IF c = Closer(Top.open) THEN outer
                                                          ELSE IF c = "," THEN Wanting(Top.open, outer) ELSE {}
    BY <1>3, <2>1, MoreIs
  <2> QED
    BY <1>2, <1>4, <2>1, <2>2
<1> QED
  BY <1>1, <1>2, <1>5, FailContinues

LEMMA UnexpectedContinues ==
  ASSUME JsonInv, ContinuesInv, Unexpected
  PROVE  ContinuesInv'
<1>1. PICK K : Chain(K, stack) /\ Alike(Remaining(text), ExpectedNow(K), ahead)
  BY DEF ContinuesInv
<1>2. /\ JsonTypes /\ stack \in Seq(Frames) /\ Stay /\ stack' = stack /\ at' = "unwind"
      /\ (\/ at = "value" /\ ahead \notin Open \cup {"\"", "1"}
          \/ at = "key" /\ ahead # "\""
          \/ at = "colon" /\ ahead # ":")
  BY DEF Unexpected, JsonInv, JsonTypes, Fail
<1> DEFINE A == K[Len(stack)]
<1>3. A \in SUBSET JsonTexts
  BY <1>1, <1>2, ChainTop
<1>4. /\ at = "value" => ExpectedNow(K) = Then(JsonValue, A)
      /\ at = "key" => ExpectedNow(K) = Then(Element("{"), A)
      /\ at = "colon" => ExpectedNow(K) = Pair(A)
  BY NowIs
<1> HIDE DEF A
<1>5. ahead # Eof => ahead \in Char
  BY <1>2 DEF JsonTypes
<1>6. <<>> \notin ExpectedNow(K) /\ (ahead # Eof => Der(ahead, ExpectedNow(K)) = {})
  <2>1. CASE at = "value"
    BY <1>2, <1>3, <1>4, <1>5, <2>1, ValueCont
  <2>2. CASE at = "key"
    BY <1>2, <1>3, <1>4, <1>5, <2>2, ElementCont
  <2>3. CASE at = "colon"
    BY <1>2, <1>3, <1>4, <1>5, <2>3, PairIs
  <2> QED
    BY <1>2, <2>1, <2>2, <2>3
<1> QED
  BY <1>1, <1>2, <1>6, FailContinues

\* A string: what follows it depends on whether it is a key.
Follows(K) == IF buf.key THEN Pair(K[Len(stack)]) ELSE K[Len(stack)]

LEMMA FollowsIn ==
  ASSUME JsonTypes, NEW K, Chain(K, stack)
  PROVE  /\ Follows(K) \in SUBSET JsonTexts
         /\ at = "string" => ExpectedNow(K) = InText(Follows(K))
         /\ at = "escape" => ExpectedNow(K) = Then(Escaped, InText(Follows(K)))
<1>1. K[Len(stack)] \in SUBSET JsonTexts
  BY ChainTop DEF JsonTypes
<1> QED
  BY <1>1, PairIs, NowIs DEF Follows

LEMMA StringFailsContinues ==
  ASSUME JsonParameters, JsonInv, ContinuesInv, StringFails
  PROVE  ContinuesInv'
<1>1. PICK K : Chain(K, stack) /\ Alike(Remaining(text), ExpectedNow(K), ahead)
  BY DEF ContinuesInv
<1>2. /\ JsonTypes /\ Stay /\ stack' = stack /\ at' = "unwind"
      /\ ((at = "string" /\ ahead = Eof) \/ (at = "escape" /\ ahead \notin Escapes))
  BY DEF StringFails, JsonInv, Fail
<1>3. {"\"", "\\"} \cap Plain = {}
  BY Zenon DEF JsonParameters
<1>4. /\ Follows(K) \in SUBSET JsonTexts
      /\ at = "string" => ExpectedNow(K) = InText(Follows(K))
      /\ at = "escape" => ExpectedNow(K) = Then(Escaped, InText(Follows(K)))
  BY <1>1, <1>2, FollowsIn
<1>5. InText(Follows(K)) \in SUBSET JsonTexts /\ <<>> \notin InText(Follows(K))
  BY <1>3, <1>4, InTextIs
<1>6. ahead # Eof => ahead \in Char
  BY <1>2 DEF JsonTypes
<1>7. <<>> \notin ExpectedNow(K) /\ (ahead # Eof => Der(ahead, ExpectedNow(K)) = {})
  <2>1. CASE at = "string"
    BY <1>2, <1>4, <1>5, <2>1
  <2>2. CASE at = "escape"
    <3>1. ahead \notin Escapes
      BY <1>2, <2>2
    <3> QED
      BY <1>4, <1>5, <1>6, <2>2, <3>1, EscapedIs
  <2> QED
    BY <1>2, <2>1, <2>2
<1> QED
  BY <1>1, <1>2, <1>7, FailContinues

LEMMA PlaceIs ==
  ASSUME NEW place, NEW open, NEW key, NEW K, NEW outer
  PROVE  LET E == Expected(place, open, key, K, outer)
         IN /\ place = "value" => E = Then(JsonValue, K)
            /\ place = "string" => E = InText(IF key THEN Pair(K) ELSE K)
            /\ place = "escape" => E = Then(Escaped, InText(IF key THEN Pair(K) ELSE K))
            /\ place = "colon" => E = Pair(K)
            /\ place = "number" => E = Then(Ones, K)
            /\ place \in {"after", "add", "end"} => E = K
            /\ place = "accepted" => E = {<<>>}
            /\ place \in {"unwind", "rejected"} => E = {}
<1> DEFINE E(p) == Expected(p, open, key, K, outer)
<1>1. /\ E("value") = Then(JsonValue, K)
      /\ E("string") = InText(IF key THEN Pair(K) ELSE K)
      /\ E("escape") = Then(Escaped, InText(IF key THEN Pair(K) ELSE K))
      /\ E("colon") = Pair(K)
      /\ E("number") = Then(Ones, K)
      /\ E("after") = K /\ E("add") = K /\ E("end") = K
      /\ E("accepted") = {<<>>} /\ E("unwind") = {} /\ E("rejected") = {}
  BY Zenon DEF Expected
<1>2. E(place) = Expected(place, open, key, K, outer)
  OBVIOUS
<1> HIDE DEF E
<1> QED
  BY <1>1, <1>2

LEMMA TopIn ==
  ASSUME NEW s \in Seq(Frames), s # <<>>, NEW f, [s EXCEPT ![Len(s)] = f] \in Seq(Frames)
  PROVE  f \in Frames
<1>1. PICK n \in Nat : n = Len(s) /\ n \in 1..n
  BY Popped
<1>2. PICK T \in Seq(Frames) : T = [s EXCEPT ![n] = f]
  BY <1>1
<1>3. DOMAIN T = 1..n /\ T[n] = f
  BY <1>1, <1>2, LenProperties
<1>4. Len(T) = n
  BY <1>1, <1>3, LenProperties
<1> QED
  BY <1>1, <1>3, <1>4, ElementOfSeq

LEMMA OpenStringContinues ==
  ASSUME JsonInv, ContinuesInv, OpenString
  PROVE  ContinuesInv'
<1>1. PICK K : Chain(K, stack) /\ Alike(Remaining(text), ExpectedNow(K), ahead)
  BY DEF ContinuesInv
<1>2. /\ JsonTypes /\ at \in {"value", "key"} /\ ahead = "\"" /\ Advance /\ stack' = stack
      /\ at' = "string" /\ buf'.key = (at = "key") /\ ahead # Eof
  BY DEF OpenString, JsonInv, Eof
<1> DEFINE A == K[Len(stack)]
           X == Expected(at', stack'[Len(stack')].open, buf'.key, K[Len(stack')], K[Len(stack') - 1])
<1>3. A \in SUBSET JsonTexts
  BY <1>1, <1>2, ChainTop DEF JsonTypes
<1>4. /\ at = "value" => ExpectedNow(K) = Then(JsonValue, A)
      /\ at = "key" => ExpectedNow(K) = Then(Element("{"), A)
  BY NowIs
<1>5. X = InText(IF buf'.key THEN Pair(A) ELSE A)
  <2>1. at' = "string" => X = InText(IF buf'.key THEN Pair(K[Len(stack')]) ELSE K[Len(stack')])
    BY PlaceIs
  <2> HIDE DEF X
  <2> QED
    BY <1>2, <2>1
<1> HIDE DEF A, X
<1>6. "\"" \in Char /\ "\"" # "1" /\ "value" # "key"
  BY Alphabet
<1>7. Der("\"", ExpectedNow(K)) = X
  <2>1. CASE at = "value"
    <3>1. \A c \in Char : Der(c, Then(JsonValue, A)) = IF c = "1" THEN Then(Ones, A)
                                                       ELSE IF c = "\"" THEN InText(A)
                                                       ELSE IF c \in Open THEN Inner(c, A) ELSE {}
      BY <1>3, ValueCont
    <3>2. Der("\"", Then(JsonValue, A)) = InText(A)
      BY <1>6, <3>1
    <3> QED
      BY <1>2, <1>4, <1>5, <2>1, <3>2
  <2>2. CASE at = "key"
    <3>1. \A c \in Char : Der(c, Then(Element("{"), A)) = IF c = "\"" THEN InText(Pair(A)) ELSE {}
      BY <1>3, ElementCont
    <3>2. Der("\"", Then(Element("{"), A)) = InText(Pair(A))
      BY <1>6, <3>1
    <3> QED
      BY <1>2, <1>4, <1>5, <2>2, <3>2
  <2> QED
    BY <1>2, <2>1, <2>2
<1>8. Der(ahead, ExpectedNow(K)) = X
  BY <1>2, <1>7
<1>9. Chain(K, stack')
  BY <1>1, <1>2
<1> QED
  BY <1>1, <1>2, <1>8, <1>9, AdvanceContinues DEF X

\* What a string's characters lead to.
LEMMA InStringContinues ==
  ASSUME JsonTypes, Advance, ahead # Eof, stack' = stack, buf'.key = buf.key,
         NEW K, Chain(K, stack), Alike(Remaining(text), ExpectedNow(K), ahead),
         \/ at' = "string" /\ Der(ahead, ExpectedNow(K)) = InText(Follows(K))
         \/ at' = "escape" /\ Der(ahead, ExpectedNow(K)) = Then(Escaped, InText(Follows(K)))
  PROVE  ContinuesInv'
<1> DEFINE X == Expected(at', stack'[Len(stack')].open, buf'.key, K[Len(stack')], K[Len(stack') - 1])
<1>1. /\ at' = "string" => X = InText(Follows(K))
      /\ at' = "escape" => X = Then(Escaped, InText(Follows(K)))
  BY PlaceIs DEF Follows
<1>2. Der(ahead, ExpectedNow(K)) = X
  <2> HIDE DEF X
  <2> QED
    BY <1>1
<1> QED
  BY <1>2, AdvanceContinues

LEMMA StringCharContinues ==
  ASSUME JsonParameters, JsonInv, ContinuesInv, LookInv, StringChar
  PROVE  ContinuesInv'
<1>1. PICK K : Chain(K, stack) /\ Alike(Remaining(text), ExpectedNow(K), ahead)
  BY DEF ContinuesInv
<1>2. /\ JsonTypes /\ Advance /\ stack' = stack /\ at' = "string" /\ buf'.key = buf.key
      /\ ((at = "string" /\ ahead \notin {"\"", "\\", Eof}) \/ (at = "escape" /\ ahead \in Escapes))
  BY DEF StringChar, JsonInv, Put, JsonTypes, Buffers
<1>3. {"\"", "\\"} \cap Plain = {}
  BY Zenon DEF JsonParameters
<1>4. /\ Follows(K) \in SUBSET JsonTexts
      /\ at = "string" => ExpectedNow(K) = InText(Follows(K))
      /\ at = "escape" => ExpectedNow(K) = Then(Escaped, InText(Follows(K)))
  BY <1>1, <1>2, FollowsIn
<1>5. InText(Follows(K)) \in SUBSET JsonTexts
      /\ \A c \in Char : Der(c, InText(Follows(K))) = IF c = "\"" THEN Follows(K)
                                                      ELSE IF c \in Quoted THEN InText(Follows(K))
                                                      ELSE IF c = "\\" THEN Then(Escaped, InText(Follows(K))) ELSE {}
  BY <1>3, <1>4, InTextIs
<1>6. ahead # Eof
  BY <1>2 DEF Escapes, Eof
<1>7. ahead \in Char
  BY <1>2, <1>6 DEF JsonTypes
<1>8. Der(ahead, ExpectedNow(K)) = InText(Follows(K))
  <2>1. CASE at = "string"
    <3>1. ahead \in Quoted /\ ahead # "\""
      BY <1>2, <2>1 DEF LookInv, InString, Quoted, Escapes
    <3> QED
      BY <1>4, <1>5, <1>7, <2>1, <3>1
  <2>2. CASE at = "escape"
    <3>1. \A c \in Char : Der(c, Then(Escaped, InText(Follows(K)))) = IF c \in Escapes THEN InText(Follows(K)) ELSE {}
      BY <1>5, EscapedIs
    <3> QED
      BY <1>2, <1>4, <1>7, <2>2, <3>1
  <2> QED
    BY <1>2, <2>1, <2>2
<1> QED
  BY <1>1, <1>2, <1>6, <1>8, InStringContinues

LEMMA BackslashContinues ==
  ASSUME JsonParameters, JsonInv, ContinuesInv, Backslash
  PROVE  ContinuesInv'
<1>1. PICK K : Chain(K, stack) /\ Alike(Remaining(text), ExpectedNow(K), ahead)
  BY DEF ContinuesInv
<1>2. /\ JsonTypes /\ Advance /\ stack' = stack /\ at = "string" /\ at' = "escape" /\ buf'.key = buf.key
      /\ ahead = "\\" /\ ahead # Eof
  BY DEF Backslash, JsonInv, JsonTypes, Buffers, Eof
<1>3. {"\"", "\\"} \cap Plain = {}
  BY Zenon DEF JsonParameters
<1>4. Follows(K) \in SUBSET JsonTexts /\ ExpectedNow(K) = InText(Follows(K))
  BY <1>1, <1>2, FollowsIn
<1>5. \A c \in Char : Der(c, InText(Follows(K))) = IF c = "\"" THEN Follows(K)
                                                    ELSE IF c \in Quoted THEN InText(Follows(K))
                                                    ELSE IF c = "\\" THEN Then(Escaped, InText(Follows(K))) ELSE {}
  BY <1>3, <1>4, InTextIs
<1>6. ahead \in Char /\ ahead \notin Quoted /\ ahead # "\""
  BY <1>2, <1>3, Alphabet DEF Quoted, JsonTypes
<1>7. Der(ahead, ExpectedNow(K)) = Then(Escaped, InText(Follows(K)))
  BY <1>2, <1>4, <1>5, <1>6
<1> QED
  BY <1>1, <1>2, <1>7, InStringContinues

\* A character that leaves the depth alone.
LEMMA GoesOn ==
  ASSUME JsonTypes, Advance, ahead # Eof, NEW K, Alike(Remaining(text), ExpectedNow(K), ahead),
         Chain(K, stack'), Len(stack') = Len(stack),
         \/ at' = "value" /\ Der(ahead, ExpectedNow(K)) = Then(JsonValue, K[Len(stack)])
         \/ at' = "number" /\ Der(ahead, ExpectedNow(K)) = Then(Ones, K[Len(stack)])
         \/ at' = "colon" /\ Der(ahead, ExpectedNow(K)) = Pair(K[Len(stack)])
         \/ at' \in {"add", "end"} /\ Der(ahead, ExpectedNow(K)) = K[Len(stack)]
  PROVE  ContinuesInv'
<1> DEFINE X == Expected(at', stack'[Len(stack')].open, buf'.key, K[Len(stack')], K[Len(stack') - 1])
<1>1. /\ at' = "value" => X = Then(JsonValue, K[Len(stack')])
      /\ at' = "number" => X = Then(Ones, K[Len(stack')])
      /\ at' = "colon" => X = Pair(K[Len(stack')])
      /\ at' \in {"after", "add", "end"} => X = K[Len(stack')]
  BY PlaceIs
<1>2. Der(ahead, ExpectedNow(K)) = X
  <2> HIDE DEF X
  <2> QED
    BY <1>1
<1> QED
  BY <1>2, AdvanceContinues

LEMMA CloseStringContinues ==
  ASSUME JsonParameters, JsonInv, JsonTypes', ContinuesInv, CloseString
  PROVE  ContinuesInv'
<1>1. PICK K : Chain(K, stack) /\ Alike(Remaining(text), ExpectedNow(K), ahead)
  BY DEF ContinuesInv
<1> DEFINE s == [print |-> Append(buf.print, ahead), allocs |-> 2]
           f == [Top EXCEPT !.key = s]
<1>2. /\ JsonTypes /\ stack \in Seq(Frames) /\ Advance /\ at = "string" /\ ahead = "\"" /\ ahead # Eof
      /\ \/ buf.key /\ stack' = WithTop(f) /\ at' = "colon"
         \/ ~buf.key /\ Return(s, Len(text) + 1, stack) /\ stack' = stack
  BY DEF CloseString, JsonInv, JsonTypes, Eof
<1>3. {"\"", "\\"} \cap Plain = {}
  BY Zenon DEF JsonParameters
<1>4. Follows(K) \in SUBSET JsonTexts /\ ExpectedNow(K) = InText(Follows(K))
  BY <1>1, <1>2, FollowsIn
<1>5. \A c \in Char : Der(c, InText(Follows(K))) = IF c = "\"" THEN Follows(K)
                                                    ELSE IF c \in Quoted THEN InText(Follows(K))
                                                    ELSE IF c = "\\" THEN Then(Escaped, InText(Follows(K))) ELSE {}
  BY <1>3, <1>4, InTextIs
<1>6. Der(ahead, ExpectedNow(K)) = Follows(K)
  BY <1>2, <1>4, <1>5, Alphabet
<1>7. CASE buf.key
  <2>1. stack # <<>> /\ stack' = WithTop(f) /\ at' = "colon" /\ stack' \in Seq(Frames)
    BY <1>2, <1>7 DEF JsonInv, PlaceInv, InString, JsonTypes
  <2>2. Top \in Frames /\ f.open = Top.open
    <3>1. Top \in Frames
      BY <1>2, <2>1, Popped DEF Top
    <3> QED
      BY <3>1 DEF Frames
  <2> HIDE DEF f
  <2>3. f \in Frames
    BY <1>2, <2>1, TopIn DEF WithTop
  <2>4. Chain(K, stack') /\ Len(stack') = Len(stack)
    <3>1. Chain(K, [stack EXCEPT ![Len(stack)] = f])
      BY <1>1, <1>2, <2>1, <2>2, <2>3, ChainReplaced DEF Top
    <3>2. PICK g \in Frames : g = f
      BY <2>3
    <3>3. stack \in Seq(Frames) /\ stack # <<>>
      BY <1>2, <2>1
    <3>4. Len([stack EXCEPT ![Len(stack)] = g]) = Len(stack)
      BY ONLY <3>3, TopReplaced
    <3> QED
      BY <2>1, <3>1, <3>2, <3>4 DEF WithTop
  <2>5. Follows(K) = Pair(K[Len(stack)])
    BY <1>7 DEF Follows
  <2> QED
    BY <1>1, <1>2, <1>6, <2>1, <2>4, <2>5, GoesOn
<1>8. CASE ~buf.key
  <2> HIDE DEF s, f
  <2>1. at' \in {"add", "end"} /\ stack' = stack
    BY <1>2, <1>8, ReturnPlace
  <2>2. Follows(K) = K[Len(stack)]
    BY <1>8 DEF Follows
  <2> QED
    BY <1>1, <1>2, <1>6, <2>1, <2>2, GoesOn
<1> QED
  BY <1>7, <1>8

LEMMA ColonContinues ==
  ASSUME JsonInv, ContinuesInv, Colon
  PROVE  ContinuesInv'
<1>1. PICK K : Chain(K, stack) /\ Alike(Remaining(text), ExpectedNow(K), ahead)
  BY DEF ContinuesInv
<1>2. JsonTypes /\ at = "colon" /\ ahead = ":" /\ ahead # Eof /\ Advance /\ stack' = stack /\ at' = "value"
  BY DEF Colon, JsonInv, Eof
<1> DEFINE A == K[Len(stack)]
<1>3. A \in SUBSET JsonTexts
  BY <1>1, <1>2, ChainTop DEF JsonTypes
<1>4. ExpectedNow(K) = Pair(A)
  BY <1>2, NowIs
<1>5. \A c \in Char : Der(c, Pair(A)) = IF c = ":" THEN Then(JsonValue, A) ELSE {}
  BY <1>3, PairIs
<1>6. Der(ahead, ExpectedNow(K)) = Then(JsonValue, A)
  BY <1>2, <1>4, <1>5, Alphabet
<1> QED
  BY <1>1, <1>2, <1>6, GoesOn

LEMMA DigitContinues ==
  ASSUME JsonInv, ContinuesInv, Digit
  PROVE  ContinuesInv'
<1>1. PICK K : Chain(K, stack) /\ Alike(Remaining(text), ExpectedNow(K), ahead)
  BY DEF ContinuesInv
<1>2. JsonTypes /\ at \in {"value", "number"} /\ ahead = "1" /\ ahead # Eof /\ Advance /\ stack' = stack /\ at' = "number"
  BY DEF Digit, JsonInv, Eof
<1> DEFINE A == K[Len(stack)]
<1>3. A \in SUBSET JsonTexts /\ Der("1", A) = {}
  BY <1>1, <1>2, ChainTop DEF JsonTypes
<1>4. /\ at = "value" => ExpectedNow(K) = Then(JsonValue, A)
      /\ at = "number" => ExpectedNow(K) = Then(Ones, A)
  BY NowIs
<1>5. Der(ahead, ExpectedNow(K)) = Then(Ones, A)
  <2>1. CASE at = "value"
    <3>1. \A c \in Char : Der(c, Then(JsonValue, A)) = IF c = "1" THEN Then(Ones, A)
                                                       ELSE IF c = "\"" THEN InText(A)
                                                       ELSE IF c \in Open THEN Inner(c, A) ELSE {}
      BY <1>3, ValueCont
    <3> QED
      BY <1>2, <1>4, <2>1, <3>1, Alphabet
  <2>2. CASE at = "number"
    BY <1>2, <1>3, <1>4, <2>2, OnesCont
  <2> QED
    BY <1>2, <2>1, <2>2
<1> QED
  BY <1>1, <1>2, <1>5, GoesOn

\* A step that takes no character and leaves the depth alone.
LEMMA StandsStill ==
  ASSUME Stay, NEW K, Alike(Remaining(text), ExpectedNow(K), ahead),
         Chain(K, stack'), Len(stack') = Len(stack), at' \in {"after", "add", "end"},
         Alike(ExpectedNow(K), K[Len(stack)], ahead)
  PROVE  ContinuesInv'
<1> DEFINE X == Expected(at', stack'[Len(stack')].open, buf'.key, K[Len(stack')], K[Len(stack') - 1])
<1>1. X = K[Len(stack)]
  BY PlaceIs
<1> QED
  BY <1>1, StayContinues

LEMMA NumberEndsContinues ==
  ASSUME JsonInv, ContinuesInv, NumberEnds
  PROVE  ContinuesInv'
<1>1. PICK K : Chain(K, stack) /\ Alike(Remaining(text), ExpectedNow(K), ahead)
  BY DEF ContinuesInv
<1>2. JsonTypes /\ at = "number" /\ ahead # "1" /\ Stay /\ stack' = stack
  BY DEF NumberEnds, JsonInv
<1>3. at' \in {"add", "end"}
  BY ReturnPlace DEF NumberEnds
<1> DEFINE A == K[Len(stack)]
<1>4. A \in SUBSET JsonTexts
  BY <1>1, <1>2, ChainTop DEF JsonTypes
<1>5. ExpectedNow(K) = Then(Ones, A)
  BY <1>2, NowIs
<1>6. /\ <<>> \in Then(Ones, A) <=> <<>> \in A
      /\ \A c \in Char : c # "1" => Der(c, Then(Ones, A)) = Der(c, A)
  BY <1>4, OnesCont
<1>7. ahead # Eof => ahead \in Char
  BY <1>2 DEF JsonTypes
<1>8. Alike(ExpectedNow(K), A, ahead)
  <2> HIDE DEF A
  <2> QED
    BY <1>2, <1>5, <1>6, <1>7 DEF Alike
<1> QED
  BY <1>1, <1>2, <1>3, <1>8, StandsStill

LEMMA AddContinues ==
  ASSUME JsonInv, JsonTypes', ContinuesInv, Add
  PROVE  ContinuesInv'
<1>1. PICK K : Chain(K, stack) /\ Alike(Remaining(text), ExpectedNow(K), ahead)
  BY DEF ContinuesInv
<1>2. JsonTypes /\ stack \in Seq(Frames) /\ stack # <<>> /\ stack' \in Seq(Frames) /\ at = "add" /\ at' = "after" /\ Stay
  BY DEF Add, JsonInv, PlaceInv, JsonTypes
<1>3. Top \in Frames
  BY <1>2, Popped DEF Top
<1>4. PICK f : stack' = WithTop(f) /\ f.open = Top.open
  <2> DEFINE key == Top.key.allocs > 0
             colon == IF key THEN Append(Top.key.print, ":") ELSE <<>>
             f == [Top EXCEPT !.print = @ \o colon \o value.print,
                              !.allocs = @ + value.allocs + (IF key THEN 1 ELSE 0),
                              !.key = Nothing]
  <2>1. stack' = WithTop(f)
    BY DEF Add
  <2>2. f.open = Top.open
    BY <1>3 DEF Frames
  <2> HIDE DEF f
  <2> QED
    BY <2>1, <2>2
<1>5. f \in Frames
  BY <1>2, <1>4, TopIn DEF WithTop
<1>6. Chain(K, stack') /\ Len(stack') = Len(stack)
  <2>1. Chain(K, [stack EXCEPT ![Len(stack)] = f])
    BY <1>1, <1>2, <1>4, <1>5, ChainReplaced DEF Top
  <2>2. Len([stack EXCEPT ![Len(stack)] = f]) = Len(stack)
    BY <1>2, <1>5, TopReplaced
  <2> QED
    BY <1>4, <2>1, <2>2 DEF WithTop
<1>7. ExpectedNow(K) = K[Len(stack)]
  BY <1>2, NowIs
<1>8. Alike(ExpectedNow(K), K[Len(stack)], ahead)
  BY <1>7 DEF Alike
<1> QED
  BY <1>1, <1>2, <1>6, <1>8, StandsStill

LEMMA UnwindContinues ==
  ASSUME JsonInv, ContinuesInv, Unwind
  PROVE  ContinuesInv'
<1>1. PICK K : Chain(K, stack) /\ Alike(Remaining(text), ExpectedNow(K), ahead)
  BY DEF ContinuesInv
<1>2. JsonTypes /\ stack \in Seq(Frames) /\ stack # <<>> /\ at = "unwind" /\ at' = "unwind" /\ Stay /\ stack' = Front(stack)
  BY DEF Unwind, JsonInv, JsonTypes
<1>3. PICK L : Chain(L, stack')
  BY <1>1, <1>2, ChainPopped
<1>4. ExpectedNow(K) = {}
  BY <1>2, NowIs
<1>5. Expected(at', stack'[Len(stack')].open, buf'.key, L[Len(stack')], L[Len(stack') - 1]) = {}
  BY <1>2, PlaceIs
<1>6. Alike({}, {}, ahead)
  BY DEF Alike
<1> QED
  BY <1>1, <1>2, <1>3, <1>4, <1>5, <1>6, StayContinues

LEMMA RejectedContinues ==
  ASSUME JsonInv, ContinuesInv, Rejected
  PROVE  ContinuesInv'
<1>1. PICK K : Chain(K, stack) /\ Alike(Remaining(text), ExpectedNow(K), ahead)
  BY DEF ContinuesInv
<1>2. at = "unwind" /\ at' = "rejected" /\ Stay /\ stack' = stack
  BY DEF Rejected
<1>3. ExpectedNow(K) = {}
  BY <1>2, NowIs
<1>4. \A c : Der(c, {}) = {}
  BY DEF Der
<1> QED
  BY <1>1, <1>2, <1>3, <1>4, FailContinues

LEMMA FinishContinues ==
  ASSUME JsonInv, ContinuesInv, Finish
  PROVE  ContinuesInv'
<1>1. PICK K : Chain(K, stack) /\ Alike(Remaining(text), ExpectedNow(K), ahead)
  BY DEF ContinuesInv
<1>2. /\ JsonTypes /\ stack \in Seq(Frames) /\ stack = <<>> /\ at = "end" /\ Stay /\ stack' = stack
      /\ at' = IF ahead = Eof THEN "accepted" ELSE "rejected"
  BY DEF Finish, JsonInv, JsonTypes, PlaceInv
<1> DEFINE A == K[Len(stack)]
<1>3. A = {<<>>} /\ \A c \in Char : Der(c, A) = {}
  BY <1>1, <1>2, ChainTop
<1>4. ExpectedNow(K) = A
  BY <1>2, NowIs
<1> HIDE DEF A
<1>5. CASE ahead = Eof
  <2>1. Expected(at', stack'[Len(stack')].open, buf'.key, K[Len(stack')], K[Len(stack') - 1]) = {<<>>}
    BY <1>2, <1>5, PlaceIs
  <2>2. Alike({<<>>}, {<<>>}, ahead)
    BY DEF Alike
  <2>3. Alike(ExpectedNow(K), Expected(at', stack'[Len(stack')].open, buf'.key, K[Len(stack')], K[Len(stack') - 1]), ahead)
    BY <1>3, <1>4, <2>1, <2>2
  <2>4. Chain(K, stack')
    BY <1>1, <1>2
  <2> QED
    BY <1>1, <1>2, <2>3, <2>4, StayContinues
<1>6. CASE ahead # Eof
  <2>1. ahead \in Char
    BY <1>2, <1>6 DEF JsonTypes
  <2> QED
    BY <1>1, <1>2, <1>3, <1>4, <1>6, <2>1, FailContinues
<1> QED
  BY <1>5, <1>6

LEMMA NextContinues ==
  ASSUME JsonParameters, JsonInv, JsonTypes', ContinuesInv, LookInv, [JsonNext]_jsonVars
  PROVE  ContinuesInv'
<1>1. CASE UNCHANGED jsonVars
  BY <1>1 DEF jsonVars, ContinuesInv, ExpectedNow, Top
<1>2. CASE JsonNext
  BY <1>2, OpenContainerContinues, CloseContainerContinues, NotEmptyContinues, CommaContinues,
     NeitherContinues, OpenStringContinues, StringCharContinues, BackslashContinues,
     StringFailsContinues, CloseStringContinues, ColonContinues, DigitContinues, NumberEndsContinues,
     AddContinues, UnexpectedContinues, UnwindContinues, RejectedContinues, FinishContinues
     DEF JsonNext
<1> QED
  BY <1>1, <1>2

LEMMA InitContinues ==
  ASSUME JsonParameters, JsonInit
  PROVE  ContinuesInv /\ LookInv
<1>1. text = <<>> /\ stack = <<>> /\ at = "value"
  BY DEF JsonInit
<1> DEFINE K == [k \in 0..0 |-> {<<>>}]
<1>2. Chain(K, stack) /\ K[Len(stack)] = {<<>>}
  <2>1. Len(stack) = 0 /\ <<>> \in JsonTexts
    BY <1>1, CatIs, EmptySeq
  <2>2. 0..0 = {0} /\ 1..0 = {}
    OBVIOUS
  <2> QED
    BY <2>1, <2>2 DEF Chain
<1> HIDE DEF K
<1>3. ExpectedNow(K) = Then(JsonValue, {<<>>})
  BY <1>1, <1>2, NowIs
<1>4. Then(JsonValue, {<<>>}) = JsonValue
  <2>1. PICK e \in JsonTexts : e = <<>>
    BY CatIs
  <2>2. \A w : w \in Then(JsonValue, {e}) <=> \E a \in JsonValue : w = a \o e
    BY DEF Then
  <2>3. \A a \in JsonValue : a \o e = a
    BY <2>1, ValueIn, CatIs
  <2>4. Then(JsonValue, {e}) = JsonValue
    <3>1. ASSUME NEW w \in Then(JsonValue, {e}) PROVE w \in JsonValue
      <4>1. PICK a \in JsonValue : w = a \o e
        BY Zenon, <2>2
      <4>2. a \o e = a
        BY <2>3
      <4> QED
        BY ONLY <4>1, <4>2
    <3>2. ASSUME NEW w \in JsonValue PROVE w \in Then(JsonValue, {e})
      <4>1. w = w \o e
        BY <2>3
      <4> QED
        BY Zenon, <2>2, <4>1
    <3> QED
      BY ONLY <3>1, <3>2
  <2> QED
    BY <2>1, <2>4
<1>5. Remaining(text) = JsonValue
  BY <1>1, RemainingIs
<1>6. ContinuesInv
  <2>1. Alike(Remaining(text), ExpectedNow(K), ahead)
    BY <1>3, <1>4, <1>5 DEF Alike
  <2> QED
    BY <1>2, <2>1 DEF ContinuesInv
<1>7. LookInv
  <2>1. MaxText \in Nat \ {0}
    BY DEF JsonParameters
  <2>2. Len(text) = 0
    BY <1>1, EmptySeq
  <2> QED
    BY <1>1, <2>1, <2>2 DEF LookInv, InString
<1> QED
  BY <1>6, <1>7

LEMMA NextLooks ==
  ASSUME JsonParameters, JsonTypes, LookInv, [JsonNext]_jsonVars
  PROVE  LookInv'
<1>1. \A open : Closer(open) # Eof
  BY DEF Closer, Eof
<1>2. CASE OpenContainer
  BY <1>2, LookAdvances DEF OpenContainer, Open, Eof
<1>3. CASE CloseContainer
  <2>1. at' \in {"add", "end"}
    BY <1>3, ReturnPlace DEF CloseContainer
  <2> QED
    BY <1>1, <1>3, <2>1, LookAdvances DEF CloseContainer
<1>4. CASE NotEmpty
  BY <1>4, LookStays DEF NotEmpty, Wanted
<1>5. CASE Comma
  BY <1>5, LookAdvances DEF Comma, Wanted, Eof
<1>6. CASE NeitherCommaNorCloser
  BY <1>6, LookStays DEF NeitherCommaNorCloser, Fail
<1>7. CASE OpenString
  BY <1>7, LookAdvances DEF OpenString, Eof
<1>8. CASE StringChar
  BY <1>8, LookAdvances DEF StringChar, Escapes, Eof
<1>9. CASE Backslash
  BY <1>9, LookAdvances DEF Backslash, Eof
<1>10. CASE StringFails
  BY <1>10, LookStays DEF StringFails, Fail
<1>11. CASE CloseString
  <2>1. at' \in {"add", "end", "colon"} /\ ahead = "\"" /\ Advance
    BY <1>11, ReturnPlace DEF CloseString
  <2> QED
    BY <2>1, LookAdvances DEF Eof
<1>12. CASE Colon
  BY <1>12, LookAdvances DEF Colon, Eof
<1>13. CASE Digit
  BY <1>13, LookAdvances DEF Digit, Eof
<1>14. CASE NumberEnds
  <2>1. at' \in {"add", "end"} /\ Stay
    BY <1>14, ReturnPlace DEF NumberEnds
  <2> QED
    BY <2>1, LookStays
<1>15. CASE Add
  BY <1>15, LookStays DEF Add
<1>16. CASE Unexpected
  BY <1>16, LookStays DEF Unexpected, Fail
<1>17. CASE Unwind
  BY <1>17, LookStays DEF Unwind
<1>18. CASE Rejected
  BY <1>18, LookStays DEF Rejected
<1>19. CASE Finish
  <2>1. Stay /\ at' \in {"accepted", "rejected"} /\ (at' = "accepted" => ahead = Eof)
    BY <1>19 DEF Finish
  <2> QED
    BY <2>1, LookStays
<1>20. CASE UNCHANGED jsonVars
  BY <1>20 DEF LookInv, InString, jsonVars
<1> QED
  BY <1>2, <1>3, <1>4, <1>5, <1>6, <1>7, <1>8, <1>9, <1>10, <1>11, <1>12, <1>13, <1>14, <1>15,
     <1>16, <1>17, <1>18, <1>19, <1>20 DEF JsonNext

-----------------------------------------------------------------------------
(* Json: the tree shows the text *)

\* What a container and the key it waits with show.
Shown(f) == f.print \o (IF f.key.allocs > 0 THEN Append(f.key.print, ":") ELSE <<>>)

\* What is shown up to each depth.
ShownTo(Q, S) == /\ Q \in [0..Len(S) -> JsonTexts] /\ Q[0] = <<>>
                /\ \A k \in 1..Len(S) : Q[k] = Q[k - 1] \o Shown(S[k])

\* The value or the string at hand.
Current == IF at \in {"string", "escape"} THEN buf.print
           ELSE IF at \in {"number", "add", "end", "accepted"} THEN value.print ELSE <<>>
TextShown == IF at = "colon" THEN Append(text, ":") ELSE text

\* The containers on the stack show the text up to the value or string at hand.
ShowsInv ==
  at \notin {"unwind", "rejected"} =>
    \E Q : ShownTo(Q, stack) /\ TextShown = Q[Len(stack)] \o Current

LEMMA LaterIs ==
  /\ \A u \in JsonTexts, c \in Char : Append(u, c) \in JsonTexts
  /\ \A u, v \in JsonTexts, c \in Char : Append(u \o v, c) = u \o Append(v, c)
  /\ \A c \in Char : Append(<<>>, c) = <<c>>
<1>1. \A u \in JsonTexts, c \in Char : Append(u, c) \in JsonTexts /\ Append(u, c) = u \o <<c>>
  BY AppendIsConcat, AppendProperties DEF JsonTexts
<1>2. ASSUME NEW u \in JsonTexts, NEW v \in JsonTexts, NEW c \in Char
      PROVE  Append(u \o v, c) = u \o Append(v, c)
  <2>1. PICK x \in JsonTexts : x = <<c>>
    BY Singles
  <2>2. u \o v \in JsonTexts /\ (u \o v) \o x = u \o (v \o x)
    <3>1. Cat(Cat(u, v), x) = Cat(u, Cat(v, x)) /\ Cat(u, v) \in JsonTexts /\ Cat(v, x) \in JsonTexts
      BY CatAssociates
    <3> QED
      BY <3>1 DEF Cat
  <2> QED
    BY <1>1, <2>1, <2>2
<1>3. \A c \in Char : Append(<<>>, c) = <<c>>
  OBVIOUS
<1> QED
  BY <1>1, <1>2, <1>3

LEMMA ShownIs ==
  ASSUME NEW f \in Frames
  PROVE  /\ Shown(f) \in JsonTexts /\ f.print \in JsonTexts
         /\ f.key.allocs = 0 => Shown(f) = f.print
         /\ f.key.allocs > 0 => Shown(f) = f.print \o Append(f.key.print, ":")
<1>1. f.print \in JsonTexts /\ f.key.print \in JsonTexts /\ f.key.allocs \in Nat
  BY DEF Frames, Trees, JsonTexts
<1>2. Append(f.key.print, ":") \in JsonTexts
  BY <1>1, LaterIs, Alphabet
<1>3. f.key.allocs = 0 => Shown(f) = f.print
  <2> HAVE f.key.allocs = 0
  <2>1. Shown(f) = f.print \o <<>>
    BY DEF Shown
  <2> QED
    BY <1>1, <2>1, CatIs
<1>4. f.key.allocs > 0 => Shown(f) = f.print \o Append(f.key.print, ":")
  BY DEF Shown
<1>5. f.print \o Append(f.key.print, ":") \in JsonTexts
  BY <1>1, <1>2, CatIs
<1>6. f.key.allocs = 0 \/ f.key.allocs > 0
  BY <1>1
<1>7. Shown(f) \in JsonTexts
  BY <1>1, <1>3, <1>4, <1>5, <1>6
<1> QED
  BY <1>1, <1>3, <1>4, <1>7

LEMMA ShownPushed ==
  ASSUME NEW S \in Seq(Frames), NEW Q, ShownTo(Q, S), NEW f \in Frames
  PROVE  \E R : ShownTo(R, Append(S, f)) /\ R[Len(Append(S, f))] = Q[Len(S)] \o Shown(f)
<1>1. PICK n \in Nat : n = Len(S)
  BY LenProperties
<1>2. /\ Len(Append(S, f)) = n + 1 /\ Append(S, f)[n + 1] = f
      /\ \A k \in 1..n : Append(S, f)[k] = S[k]
  BY <1>1, Pushed
<1> DEFINE last == Q[n] \o Shown(f)
           R == [m \in 0..(n + 1) |-> IF m = n + 1 THEN last ELSE Q[m]]
<1>3. Q \in [0..n -> JsonTexts] /\ Q[0] = <<>> /\ \A m \in 1..n : Q[m] = Q[m - 1] \o Shown(S[m])
  BY <1>1 DEF ShownTo
<1>4. last \in JsonTexts
  <2>1. Q[n] \in JsonTexts /\ Shown(f) \in JsonTexts
    BY <1>3, ShownIs
  <2> QED
    BY <2>1, CatIs
<1>5. R \in [0..(n + 1) -> JsonTexts] /\ R[0] = <<>> /\ R[n + 1] = Q[n] \o Shown(f) /\ \A m \in 0..n : R[m] = Q[m]
  <2>1. R[n + 1] = Q[n] \o Shown(f)
    OBVIOUS
  <2> HIDE DEF last
  <2>2. \A m \in 0..(n + 1) : m = n + 1 \/ m \in 0..n
    OBVIOUS
  <2>3. \A m \in 0..n : m # n + 1
    OBVIOUS
  <2>4. R \in [0..(n + 1) -> JsonTexts]
    BY <1>3, <1>4, <2>2
  <2>5. \A m \in 0..n : R[m] = Q[m]
    BY <2>3
  <2>6. R[0] = <<>>
    BY <1>3, <2>5
  <2> QED
    BY <2>1, <2>4, <2>5, <2>6
<1> HIDE DEF R, last
<1>6. \A m \in 1..(n + 1) : R[m] = R[m - 1] \o Shown(Append(S, f)[m])
  <2> TAKE m \in 1..(n + 1)
  <2>1. CASE m = n + 1
    <3>1. m - 1 = n /\ n \in 0..n
      BY <2>1
    <3> QED
      BY <1>2, <1>5, <2>1, <3>1
  <2>2. CASE m # n + 1
    <3>1. m \in 1..n /\ m \in 0..n /\ m - 1 \in 0..n
      BY <2>2
    <3> QED
      BY <1>2, <1>3, <1>5, <3>1
  <2> QED
    BY <2>1, <2>2
<1> QED
  BY <1>1, <1>2, <1>5, <1>6 DEF ShownTo

LEMMA ShownTop ==
  ASSUME NEW S \in Seq(Frames), NEW Q, ShownTo(Q, S)
  PROVE  /\ Q[Len(S)] \in JsonTexts
         /\ S = <<>> => Q[Len(S)] = <<>>
         /\ S # <<>> => /\ Q[Len(S) - 1] \in JsonTexts
                        /\ Q[Len(S)] = Q[Len(S) - 1] \o Shown(S[Len(S)])
<1>1. PICK n \in Nat : n = Len(S) /\ (S = <<>> <=> n = 0)
  BY LenProperties, EmptySeq
<1>2. n \in 0..n /\ (n # 0 => n - 1 \in 0..n /\ n \in 1..n)
  OBVIOUS
<1> QED
  BY <1>1, <1>2 DEF ShownTo

LEMMA ShownPopped ==
  ASSUME NEW S \in Seq(Frames), NEW Q, ShownTo(Q, S), S # <<>>
  PROVE  \E R : ShownTo(R, Front(S)) /\ R[Len(Front(S))] = Q[Len(S) - 1]
<1>1. PICK n \in Nat : n = Len(S) /\ n > 0
  BY Popped, LenProperties, EmptySeq
<1>2. Len(Front(S)) = n - 1 /\ \A k \in 1..(n - 1) : Front(S)[k] = S[k]
  BY <1>1, Popped
<1> DEFINE R == [m \in 0..(n - 1) |-> Q[m]]
<1>3. Q \in [0..n -> JsonTexts] /\ Q[0] = <<>> /\ \A m \in 1..n : Q[m] = Q[m - 1] \o Shown(S[m])
  BY <1>1 DEF ShownTo
<1>4. R \in [0..(n - 1) -> JsonTexts] /\ \A m \in 0..(n - 1) : R[m] = Q[m]
  BY <1>1, <1>3
<1> HIDE DEF R
<1>5. R[0] = <<>> /\ R[n - 1] = Q[n - 1]
  BY <1>1, <1>3, <1>4
<1>6. \A m \in 1..(n - 1) : R[m] = R[m - 1] \o Shown(Front(S)[m])
  <2> TAKE m \in 1..(n - 1)
  <2>1. m \in 1..n /\ m \in 0..(n - 1) /\ m - 1 \in 0..(n - 1)
    OBVIOUS
  <2> QED
    BY <1>2, <1>3, <1>4, <2>1
<1>7. ShownTo(R, Front(S))
  BY <1>2, <1>4, <1>5, <1>6 DEF ShownTo
<1> QED
  BY <1>1, <1>2, <1>5, <1>7

LEMMA ShownReplaced ==
  ASSUME NEW S \in Seq(Frames), NEW Q, ShownTo(Q, S), S # <<>>, NEW f \in Frames
  PROVE  \E R : /\ ShownTo(R, [S EXCEPT ![Len(S)] = f])
                /\ R[Len([S EXCEPT ![Len(S)] = f])] = Q[Len(S) - 1] \o Shown(f)
<1> DEFINE T == [S EXCEPT ![Len(S)] = f]
<1>1. T \in Seq(Frames) /\ T # <<>> /\ Len(T) = Len(S) /\ T[Len(S)] = f /\ Front(T) = Front(S)
  BY TopReplaced
<1>2. Front(S) \in Seq(Frames)
  BY Popped
<1> HIDE DEF T
<1>3. T = Append(Front(S), f)
  <2>1. T = Append(Front(T), T[Len(T)])
    BY ONLY <1>1, Popped
  <2> QED
    BY <1>1, <2>1
<1>4. PICK P : ShownTo(P, Front(S)) /\ P[Len(Front(S))] = Q[Len(S) - 1]
  BY ShownPopped
<1>5. PICK R : ShownTo(R, Append(Front(S), f)) /\ R[Len(Append(Front(S), f))] = P[Len(Front(S))] \o Shown(f)
  BY <1>2, <1>4, ShownPushed
<1>6. ShownTo(R, T) /\ R[Len(T)] = Q[Len(S) - 1] \o Shown(f)
  BY <1>3, <1>4, <1>5
<1> QED
  BY <1>6 DEF T

LEMMA NowShown ==
  ASSUME JsonTypes, ShowsInv, at \notin {"unwind", "rejected"}
  PROVE  \E Q : /\ ShownTo(Q, stack) /\ Q[Len(stack)] \in JsonTexts
                /\ at \in {"value", "first", "after", "key"} => text = Q[Len(stack)]
                /\ at \in {"string", "escape"} => text = Q[Len(stack)] \o buf.print
                /\ at \in {"number", "add", "end", "accepted"} => text = Q[Len(stack)] \o value.print
                /\ at = "colon" => Append(text, ":") = Q[Len(stack)]
<1>1. PICK Q : ShownTo(Q, stack) /\ TextShown = Q[Len(stack)] \o Current
  BY DEF ShowsInv
<1>2. PICK T \in JsonTexts : T = Q[Len(stack)]
  BY <1>1, ShownTop DEF JsonTypes
<1>3. T \o <<>> = T
  BY <1>2, CatIs
<1>4. TextShown = T \o Current
  BY <1>1, <1>2
<1>5. at \in {"value", "first", "after", "key"} => text = T
  BY <1>3, <1>4 DEF TextShown, Current
<1>6. at \in {"string", "escape"} => text = T \o buf.print
  BY <1>4 DEF TextShown, Current
<1>7. at \in {"number", "add", "end", "accepted"} => text = T \o value.print
  BY <1>4 DEF TextShown, Current
<1>8. at = "colon" => Append(text, ":") = T
  BY <1>3, <1>4 DEF TextShown, Current
<1> QED
  BY <1>1, <1>2, <1>5, <1>6, <1>7, <1>8

LEMMA NextShown ==
  ASSUME NEW Q, ShownTo(Q, stack'), NEW T \in JsonTexts, T = Q[Len(stack')],
         \/ at' \in {"value", "first", "after", "key"} /\ text' = T
         \/ at' \in {"string", "escape"} /\ text' = T \o buf'.print
         \/ at' \in {"number", "add", "end", "accepted"} /\ text' = T \o value'.print
         \/ at' = "colon" /\ Append(text', ":") = T
         \/ at' \in {"unwind", "rejected"}
  PROVE  ShowsInv'
<1>1. T \o <<>> = T
  BY CatIs
<1>2. CASE at' \in {"value", "first", "after", "key"} /\ text' = T
  <2>1. TextShown' = T \o Current'
    BY <1>1, <1>2 DEF TextShown, Current
  <2> QED
    BY <2>1 DEF ShowsInv
<1>3. CASE at' \in {"string", "escape"} /\ text' = T \o buf'.print
  <2>1. TextShown' = T \o Current'
    BY <1>3 DEF TextShown, Current
  <2> QED
    BY <2>1 DEF ShowsInv
<1>4. CASE at' \in {"number", "add", "end", "accepted"} /\ text' = T \o value'.print
  <2>1. TextShown' = T \o Current'
    BY <1>4 DEF TextShown, Current
  <2> QED
    BY <2>1 DEF ShowsInv
<1>5. CASE at' = "colon" /\ Append(text', ":") = T
  <2>1. TextShown' = T \o Current'
    BY <1>1, <1>5 DEF TextShown, Current
  <2> QED
    BY <2>1 DEF ShowsInv
<1>6. CASE at' \in {"unwind", "rejected"}
  BY <1>6 DEF ShowsInv
<1> QED
  BY <1>2, <1>3, <1>4, <1>5, <1>6

LEMMA OpenContainerShows ==
  ASSUME JsonInv, ShowsInv, OpenContainer
  PROVE  ShowsInv'
<1> DEFINE f == [open |-> ahead, print |-> <<ahead>>, allocs |-> 1, key |-> Nothing]
<1>1. /\ JsonTypes /\ stack \in Seq(Frames) /\ ahead \in Open /\ at = "value" /\ at' = "first"
      /\ text' = Append(text, ahead) /\ stack' = Append(stack, f)
  BY DEF OpenContainer, JsonInv, JsonTypes, Advance
<1>2. PICK Q : ShownTo(Q, stack) /\ Q[Len(stack)] \in JsonTexts /\ text = Q[Len(stack)]
  BY <1>1, NowShown
<1>3. ahead \in Char
  BY <1>1, Alphabet
<1>4. f \in Frames /\ f.print = <<ahead>> /\ f.key.allocs = 0
  BY <1>1, <1>3 DEF Frames, Trees, Nothing
<1> HIDE DEF f
<1>5. Shown(f) = <<ahead>>
  BY <1>4, ShownIs
<1>6. PICK R : ShownTo(R, stack') /\ R[Len(stack')] = Q[Len(stack)] \o Shown(f)
  BY <1>1, <1>2, <1>4, ShownPushed
<1>7. Append(text, ahead) = text \o <<ahead>> /\ Append(text, ahead) \in JsonTexts
  <2>1. text \o <<>> = text /\ <<>> \in JsonTexts /\ text \in JsonTexts
    BY <1>2, CatIs
  <2>2. Append(text \o <<>>, ahead) = text \o Append(<<>>, ahead) /\ Append(<<>>, ahead) = <<ahead>>
    BY <1>3, <2>1, LaterIs
  <2>3. Append(text, ahead) \in JsonTexts
    BY <1>3, <2>1, LaterIs
  <2> QED
    BY <2>1, <2>2, <2>3
<1> QED
  BY <1>1, <1>2, <1>5, <1>6, <1>7, NextShown

LEMMA CloseContainerShows ==
  ASSUME JsonInv, ShowsInv, CloseContainer
  PROVE  ShowsInv'
<1>1. /\ JsonTypes /\ stack \in Seq(Frames) /\ stack # <<>> /\ at \in {"first", "after"} /\ Top.key.allocs = 0
      /\ text' = Append(text, ahead) /\ stack' = Front(stack) /\ value'.print = Append(Top.print, ahead)
      /\ ahead = Closer(Top.open)
  BY DEF CloseContainer, JsonInv, JsonTypes, PlaceInv, MemoryInv, Advance, Return
<1>2. at' \in {"add", "end"}
  BY ReturnPlace DEF CloseContainer
<1>3. PICK Q : ShownTo(Q, stack) /\ text = Q[Len(stack)]
  BY <1>1, NowShown
<1>4. Top \in Frames /\ Top = stack[Len(stack)]
  BY <1>1, Popped DEF Top
<1>5. Shown(Top) = Top.print /\ Top.print \in JsonTexts
  BY <1>1, <1>4, ShownIs
<1>6. PICK T \in JsonTexts : T = Q[Len(stack) - 1] /\ text = T \o Top.print
  BY <1>1, <1>3, <1>4, <1>5, ShownTop
<1>7. ahead \in Char
  <2>1. Top.open \in Open
    BY <1>4 DEF Frames
  <2> QED
    BY <1>1, <2>1, Alphabet
<1>8. text' = T \o value'.print
  <2>1. Append(T \o Top.print, ahead) = T \o Append(Top.print, ahead)
    BY <1>5, <1>7, LaterIs
  <2> QED
    BY <1>1, <1>6, <2>1
<1>9. PICK R : ShownTo(R, stack') /\ R[Len(stack')] = T
  BY <1>1, <1>3, <1>6, ShownPopped
<1> QED
  BY <1>2, <1>8, <1>9, NextShown

LEMMA NotEmptyShows ==
  ASSUME JsonInv, ShowsInv, NotEmpty
  PROVE  ShowsInv'
<1>1. JsonTypes /\ at = "first" /\ at' \in {"key", "value"} /\ stack' = stack /\ text' = text
  BY DEF NotEmpty, JsonInv, Wanted, Stay
<1>2. PICK Q : ShownTo(Q, stack) /\ Q[Len(stack)] \in JsonTexts /\ text = Q[Len(stack)]
  BY <1>1, NowShown
<1> QED
  BY <1>1, <1>2, NextShown

LEMMA CommaShows ==
  ASSUME JsonInv, ShowsInv, Comma
  PROVE  ShowsInv'
<1> DEFINE f == [Top EXCEPT !.print = Append(@, ",")]
<1>1. /\ JsonTypes /\ stack \in Seq(Frames) /\ stack # <<>> /\ at = "after" /\ Top.key.allocs = 0 /\ ahead = ","
      /\ text' = Append(text, ",") /\ stack' = [stack EXCEPT ![Len(stack)] = f] /\ at' \in {"key", "value"}
  BY DEF Comma, JsonInv, JsonTypes, PlaceInv, MemoryInv, Advance, WithTop, Wanted
<1>2. Top \in Frames /\ Top = stack[Len(stack)] /\ "," \in Char
  BY <1>1, Popped, Alphabet DEF Top
<1>3. Shown(Top) = Top.print /\ Top.print \in JsonTexts /\ Append(Top.print, ",") \in Seq(Char)
  <2>1. Shown(Top) = Top.print /\ Top.print \in JsonTexts
    BY <1>1, <1>2, ShownIs
  <2>2. Append(Top.print, ",") \in JsonTexts
    BY <1>2, <2>1, LaterIs
  <2> QED
    BY <2>1, <2>2 DEF JsonTexts
<1>4. f \in Frames /\ f.print = Append(Top.print, ",") /\ f.key.allocs = 0
  BY <1>1, <1>2, <1>3 DEF Frames
<1> HIDE DEF f
<1>5. Shown(f) = Append(Top.print, ",")
  BY <1>4, ShownIs
<1>6. PICK Q : ShownTo(Q, stack) /\ text = Q[Len(stack)] /\ text \in JsonTexts
  BY <1>1, NowShown
<1>7. PICK T \in JsonTexts : T = Q[Len(stack) - 1] /\ text = T \o Top.print
  BY <1>1, <1>2, <1>3, <1>6, ShownTop
<1>8. PICK R : ShownTo(R, stack') /\ R[Len(stack')] = T \o Shown(f)
  BY <1>1, <1>4, <1>6, <1>7, ShownReplaced
<1>9. text' = T \o Shown(f)
  <2>1. Append(T \o Top.print, ",") = T \o Append(Top.print, ",")
    BY <1>2, <1>3, LaterIs
  <2> QED
    BY <1>1, <1>5, <1>7, <2>1
<1>10. text' \in JsonTexts
  BY <1>1, <1>2, <1>6, LaterIs
<1> QED
  BY <1>1, <1>8, <1>9, <1>10, NextShown

LEMMA OpenStringShows ==
  ASSUME JsonInv, ShowsInv, OpenString
  PROVE  ShowsInv'
<1>1. /\ JsonTypes /\ at \in {"value", "key"} /\ at' = "string" /\ stack' = stack
      /\ text' = Append(text, "\"") /\ buf'.print = <<"\"">>
  BY DEF OpenString, JsonInv, Advance
<1>2. PICK Q : ShownTo(Q, stack) /\ Q[Len(stack)] \in JsonTexts /\ text = Q[Len(stack)]
  BY <1>1, NowShown
<1>3. text' = text \o buf'.print
  <2>1. text \in Seq(Char) /\ "\"" \in Char
    BY <1>2, Alphabet DEF JsonTexts
  <2>2. Append(text, "\"") = text \o <<"\"">>
    BY <2>1, AppendIsConcat
  <2> QED
    BY <1>1, <2>2
<1> QED
  BY <1>1, <1>2, <1>3, NextShown

\* A character that goes into the buffer.
LEMMA PutShows ==
  ASSUME JsonTypes, ShowsInv, InString, at' \in {"string", "escape"}, stack' = stack,
         ahead \in Char, text' = Append(text, ahead), buf'.print = Append(buf.print, ahead)
  PROVE  ShowsInv'
<1>1. at \in {"string", "escape"}
  BY DEF InString
<1>2. PICK Q : ShownTo(Q, stack) /\ Q[Len(stack)] \in JsonTexts /\ text = Q[Len(stack)] \o buf.print
  BY <1>1, NowShown
<1>3. buf.print \in JsonTexts
  BY DEF JsonTypes, Buffers, JsonTexts
<1>4. PICK T \in JsonTexts : T = Q[Len(stack)]
  BY <1>2
<1>5. Append(T \o buf.print, ahead) = T \o Append(buf.print, ahead)
  BY <1>3, <1>4, LaterIs
<1>6. text' = T \o buf'.print
  BY <1>2, <1>4, <1>5
<1> QED
  BY <1>2, <1>4, <1>6, NextShown

LEMMA StringCharShows ==
  ASSUME JsonInv, ShowsInv, StringChar
  PROVE  ShowsInv'
<1>1. /\ JsonTypes /\ InString /\ at' = "string" /\ stack' = stack /\ text' = Append(text, ahead)
      /\ buf'.print = Append(buf.print, ahead)
  BY DEF StringChar, JsonInv, InString, Advance, Put, JsonTypes, Buffers
<1>2. ahead # Eof
  BY DEF StringChar, Escapes, Eof
<1>3. ahead \in Char
  BY <1>1, <1>2 DEF JsonTypes
<1> QED
  BY <1>1, <1>3, PutShows

LEMMA BackslashShows ==
  ASSUME JsonInv, ShowsInv, Backslash
  PROVE  ShowsInv'
<1>1. /\ JsonTypes /\ InString /\ at' = "escape" /\ stack' = stack /\ text' = Append(text, ahead)
      /\ buf'.print = Append(buf.print, ahead) /\ ahead = "\\"
  BY DEF Backslash, JsonInv, InString, Advance, JsonTypes, Buffers
<1> QED
  BY <1>1, PutShows, Alphabet

LEMMA CloseStringShows ==
  ASSUME JsonInv, JsonTypes', ShowsInv, CloseString
  PROVE  ShowsInv'
<1> DEFINE s == [print |-> Append(buf.print, ahead), allocs |-> 2]
           f == [Top EXCEPT !.key = s]
<1>1. /\ JsonTypes /\ stack \in Seq(Frames) /\ stack' \in Seq(Frames) /\ at = "string" /\ ahead = "\""
      /\ text' = Append(text, "\"")
      /\ \/ buf.key /\ stack' = [stack EXCEPT ![Len(stack)] = f] /\ at' = "colon"
         \/ ~buf.key /\ Return(s, Len(text) + 1, stack) /\ stack' = stack
  BY DEF CloseString, JsonInv, JsonTypes, Advance, WithTop
<1>2. PICK Q : ShownTo(Q, stack) /\ Q[Len(stack)] \in JsonTexts /\ text = Q[Len(stack)] \o buf.print
  BY <1>1, NowShown
<1>3. PICK q \in Char, b \in JsonTexts, T \in JsonTexts : q = "\"" /\ b = buf.print /\ T = Q[Len(stack)]
  <2>1. buf.print \in JsonTexts
    BY <1>1 DEF JsonTypes, Buffers, JsonTexts
  <2> QED
    BY <1>2, <2>1, Alphabet
<1>4. PICK e \in JsonTexts : e = Append(b, q)
  BY <1>3, LaterIs
<1>5. text' = T \o e
  <2>1. Append(T \o b, q) = T \o Append(b, q)
    BY <1>3, LaterIs
  <2> QED
    BY <1>1, <1>2, <1>3, <1>4, <2>1
<1>6. CASE buf.key
  <2>1. stack # <<>> /\ stack' = [stack EXCEPT ![Len(stack)] = f] /\ at' = "colon" /\ Top.key.allocs = 0
    BY <1>1, <1>6 DEF JsonInv, PlaceInv, InString, MemoryInv
  <2>2. Top \in Frames /\ Top = stack[Len(stack)]
    BY <1>1, <2>1, Popped DEF Top
  <2>3. f.print = Top.print /\ f.key.allocs = 2 /\ f.key.print = e
    BY <1>1, <1>3, <1>4, <2>2 DEF Frames
  <2> HIDE DEF f, s
  <2>4. f \in Frames
    BY <1>1, <2>1, TopIn
  <2>5. Shown(f) = Top.print \o Append(e, ":")
    <3>1. f.key.allocs > 0
      BY <2>3
    <3>2. Shown(f) = f.print \o Append(f.key.print, ":")
      BY <2>4, <3>1, ShownIs
    <3> QED
      BY <2>3, <3>2
  <2>6. PICK p \in JsonTexts : p = Top.print /\ Shown(Top) = p
    BY <2>1, <2>2, ShownIs
  <2>7. PICK B \in JsonTexts : B = Q[Len(stack) - 1] /\ T = B \o p
    <3>1. stack \in Seq(Frames) /\ stack # <<>> /\ ShownTo(Q, stack)
      BY <1>1, <1>2, <2>1
    <3>2. Q[Len(stack) - 1] \in JsonTexts /\ Q[Len(stack)] = Q[Len(stack) - 1] \o Shown(stack[Len(stack)])
      BY ONLY <3>1, ShownTop
    <3> QED
      BY <1>3, <2>2, <2>6, <3>2
  <2>8. PICK R : ShownTo(R, stack') /\ R[Len(stack')] = B \o Shown(f)
    <3>1. stack \in Seq(Frames) /\ stack # <<>> /\ ShownTo(Q, stack) /\ f \in Frames
      BY <1>1, <1>2, <2>1, <2>4
    <3>2. PICK R : /\ ShownTo(R, [stack EXCEPT ![Len(stack)] = f])
                   /\ R[Len([stack EXCEPT ![Len(stack)] = f])] = Q[Len(stack) - 1] \o Shown(f)
      BY ONLY <3>1, ShownReplaced
    <3> QED
      BY <2>1, <2>7, <3>2
  <2>9. PICK d \in JsonTexts : d = Append(e, ":")
    BY <1>4, LaterIs, Alphabet
  <2>10. B \o (p \o d) = (B \o p) \o d /\ (B \o p) \o d \in JsonTexts
    <3>1. p \in JsonTexts /\ B \in JsonTexts /\ d \in JsonTexts
      BY <2>6, <2>7, <2>9
    <3>2. (B \o p) \o d = B \o (p \o d)
      <4>1. Cat(Cat(B, p), d) = Cat(B, Cat(p, d))
        BY ONLY <3>1, CatAssociates
      <4> QED
        BY <4>1 DEF Cat
    <3>3. B \o p \in JsonTexts
      BY ONLY <3>1, CatIs
    <3>4. (B \o p) \o d \in JsonTexts
      BY ONLY <3>1, <3>3, CatIs
    <3> QED
      BY <3>2, <3>4
  <2>11. Append(T \o e, ":") = T \o d
    <3>1. PICK c \in Char : c = ":"
      BY Alphabet
    <3>2. c \in Char /\ T \in JsonTexts /\ e \in JsonTexts
      BY <1>3, <1>4
    <3>3. Append(T \o e, c) = T \o Append(e, c)
      BY ONLY Zenon, <3>2, LaterIs
    <3> QED
      BY <2>9, <3>1, <3>3
  <2>12. Append(text', ":") = R[Len(stack')] /\ R[Len(stack')] \in JsonTexts
    BY <1>5, <2>5, <2>6, <2>7, <2>8, <2>9, <2>10, <2>11
  <2> QED
    BY <2>1, <2>8, <2>12, NextShown
<1>7. CASE ~buf.key
  <2>1. Return(s, Len(text) + 1, stack) /\ stack' = stack
    BY <1>1, <1>7
  <2>2. at' \in {"add", "end"}
    BY <2>1, ReturnPlace
  <2>3. value'.print = e
    BY <1>1, <1>3, <1>4, <2>1 DEF Return
  <2> QED
    BY <1>2, <1>3, <1>5, <2>1, <2>2, <2>3, NextShown
<1> QED
  BY <1>6, <1>7

LEMMA ColonShows ==
  ASSUME JsonInv, ShowsInv, Colon
  PROVE  ShowsInv'
<1>1. /\ JsonTypes /\ at = "colon" /\ at' = "value" /\ stack' = stack /\ text' = Append(text, ":")
  BY DEF Colon, JsonInv, Advance
<1>2. PICK Q : ShownTo(Q, stack) /\ Q[Len(stack)] \in JsonTexts /\ Append(text, ":") = Q[Len(stack)]
  BY <1>1, NowShown
<1> QED
  BY <1>1, <1>2, NextShown

LEMMA DigitShows ==
  ASSUME JsonInv, ShowsInv, Digit
  PROVE  ShowsInv'
<1>1. /\ JsonTypes /\ at \in {"value", "number"} /\ at' = "number" /\ stack' = stack /\ text' = Append(text, "1")
      /\ at = "value" => value'.print = <<"1">>
      /\ at = "number" => value'.print = Append(value.print, "1")
  BY DEF Digit, JsonInv, Advance, JsonTypes, Trees
<1>2. PICK Q : /\ ShownTo(Q, stack) /\ Q[Len(stack)] \in JsonTexts
               /\ at = "value" => text = Q[Len(stack)]
               /\ at = "number" => text = Q[Len(stack)] \o value.print
  BY <1>1, NowShown
<1>3. PICK T \in JsonTexts, v \in JsonTexts, c \in Char : T = Q[Len(stack)] /\ v = value.print /\ c = "1"
  BY <1>1, <1>2, Alphabet DEF JsonTypes, Trees, JsonTexts
<1>4. Append(T, c) = T \o <<c>>
  BY <1>3, AppendIsConcat DEF JsonTexts
<1>5. Append(T \o v, c) = T \o Append(v, c)
  BY <1>3, LaterIs
<1>6. text' = T \o value'.print
  BY <1>1, <1>2, <1>3, <1>4, <1>5
<1> QED
  BY <1>1, <1>2, <1>3, <1>6, NextShown

LEMMA NumberEndsShows ==
  ASSUME JsonInv, ShowsInv, NumberEnds
  PROVE  ShowsInv'
<1>1. /\ JsonTypes /\ at = "number" /\ stack' = stack /\ text' = text /\ value' = value
  BY DEF NumberEnds, JsonInv, Stay, Return
<1>2. at' \in {"add", "end"}
  BY ReturnPlace DEF NumberEnds
<1>3. PICK Q : ShownTo(Q, stack) /\ Q[Len(stack)] \in JsonTexts /\ text = Q[Len(stack)] \o value.print
  BY <1>1, NowShown
<1> QED
  BY <1>1, <1>2, <1>3, NextShown

LEMMA AddShows ==
  ASSUME JsonInv, JsonTypes', ShowsInv, Add
  PROVE  ShowsInv'
<1> DEFINE colon == IF Top.key.allocs > 0 THEN Append(Top.key.print, ":") ELSE <<>>
           f == [Top EXCEPT !.print = @ \o colon \o value.print,
                            !.allocs = @ + value.allocs + (IF Top.key.allocs > 0 THEN 1 ELSE 0),
                            !.key = Nothing]
<1>1. /\ JsonTypes /\ stack \in Seq(Frames) /\ stack' \in Seq(Frames) /\ stack # <<>> /\ at = "add" /\ at' = "after"
      /\ text' = text /\ stack' = [stack EXCEPT ![Len(stack)] = f]
  BY DEF Add, JsonInv, PlaceInv, JsonTypes, Stay, WithTop
<1>2. Top \in Frames /\ Top = stack[Len(stack)]
  BY <1>1, Popped DEF Top
<1>3. f.print = Shown(Top) \o value.print /\ f.key.allocs = 0
  BY <1>2 DEF Frames, Shown, Nothing
<1> HIDE DEF f, colon
<1>4. f \in Frames
  BY <1>1, TopIn
<1>5. PICK Q : ShownTo(Q, stack) /\ text = Q[Len(stack)] \o value.print
  BY <1>1, NowShown
<1>6. PICK B \in JsonTexts, p \in JsonTexts : B = Q[Len(stack) - 1] /\ p = Shown(Top) /\ Q[Len(stack)] = B \o p
  BY <1>1, <1>2, <1>5, ShownTop, ShownIs
<1>7. PICK v \in JsonTexts : v = value.print
  BY <1>1 DEF JsonTypes, Trees, JsonTexts
<1>8. Shown(f) = p \o v
  BY <1>3, <1>4, <1>6, <1>7, ShownIs
<1>9. PICK R : ShownTo(R, stack') /\ R[Len(stack')] = B \o Shown(f)
  <2>1. stack \in Seq(Frames) /\ stack # <<>> /\ ShownTo(Q, stack) /\ f \in Frames
    BY <1>1, <1>4, <1>5
  <2>2. PICK R : /\ ShownTo(R, [stack EXCEPT ![Len(stack)] = f])
                 /\ R[Len([stack EXCEPT ![Len(stack)] = f])] = Q[Len(stack) - 1] \o Shown(f)
    BY ONLY <2>1, ShownReplaced
  <2> QED
    BY <1>1, <1>6, <2>2
<1>10. (B \o p) \o v = B \o (p \o v) /\ B \o (p \o v) \in JsonTexts
  <2>1. B \in JsonTexts /\ p \in JsonTexts /\ v \in JsonTexts
    BY <1>6, <1>7
  <2>2. (B \o p) \o v = B \o (p \o v) /\ p \o v \in JsonTexts
    <3>1. Cat(Cat(B, p), v) = Cat(B, Cat(p, v)) /\ Cat(p, v) \in JsonTexts
      BY ONLY <2>1, CatAssociates
    <3> QED
      BY <3>1 DEF Cat
  <2>3. B \o (p \o v) \in JsonTexts
    BY ONLY <2>1, <2>2, CatIs
  <2> QED
    BY <2>2, <2>3
<1>11. text' = R[Len(stack')] /\ R[Len(stack')] \in JsonTexts
  BY <1>1, <1>5, <1>6, <1>7, <1>8, <1>9, <1>10
<1> QED
  BY <1>1, <1>9, <1>11, NextShown

LEMMA FinishShows ==
  ASSUME JsonInv, ShowsInv, Finish
  PROVE  ShowsInv'
<1>1. /\ JsonTypes /\ at = "end" /\ at' \in {"accepted", "rejected"} /\ stack' = stack /\ text' = text /\ value' = value
  BY DEF Finish, JsonInv, Stay
<1>2. PICK Q : ShownTo(Q, stack) /\ Q[Len(stack)] \in JsonTexts /\ text = Q[Len(stack)] \o value.print
  BY <1>1, NowShown
<1> QED
  BY <1>1, <1>2, NextShown

LEMMA NextShows ==
  ASSUME JsonInv, JsonTypes', ShowsInv, [JsonNext]_jsonVars
  PROVE  ShowsInv'
<1>1. CASE at' \in {"unwind", "rejected"}
  BY <1>1 DEF ShowsInv
<1>2. CASE NeitherCommaNorCloser \/ StringFails \/ Unexpected
  BY <1>1, <1>2 DEF NeitherCommaNorCloser, StringFails, Unexpected, Fail
<1>3. CASE Unwind \/ Rejected
  BY <1>1, <1>3 DEF Unwind, Rejected
<1>4. CASE UNCHANGED jsonVars
  BY <1>4 DEF jsonVars, ShowsInv, TextShown, Current
<1> QED
  BY <1>2, <1>3, <1>4, OpenContainerShows, CloseContainerShows, NotEmptyShows, CommaShows, OpenStringShows,
     StringCharShows, BackslashShows, CloseStringShows, ColonShows, DigitShows, NumberEndsShows, AddShows,
     FinishShows DEF JsonNext

LEMMA InitShows ==
  ASSUME JsonInit
  PROVE  ShowsInv
<1>1. text = <<>> /\ stack = <<>> /\ at = "value"
  BY DEF JsonInit
<1>2. PICK Q : Q = [k \in 0..0 |-> <<>>]
  OBVIOUS
<1>3. ShownTo(Q, stack) /\ Q[Len(stack)] = <<>>
  <2>1. Len(stack) = 0 /\ <<>> \in JsonTexts
    BY <1>1, CatIs, EmptySeq
  <2>2. 0..0 = {0} /\ 1..0 = {}
    OBVIOUS
  <2>3. Q \in [0..0 -> JsonTexts] /\ Q[0] = <<>>
    BY <1>2, <2>1, <2>2
  <2> QED
    BY <2>1, <2>2, <2>3 DEF ShownTo
<1>4. <<>> \o <<>> = <<>>
  BY CatIs
<1> QED
  BY <1>1, <1>3, <1>4 DEF ShowsInv, TextShown, Current

-----------------------------------------------------------------------------
(* Json: the language is parsed *)

LEMMA ValuesIs == \A w : w \in Values <=> w \in JsonValue /\ Len(w) <= MaxText
<1>1. "values" \in Kinds
  BY DEF Kinds
<1>2. ASSUME NEW w \in Values PROVE w \in JsonValue /\ Len(w) <= MaxText
  <2>1. PICK n \in 1..MaxText : w \in Grammar[n].values
    BY DEF Values
  <2>2. n \in Nat /\ n # 0 /\ n <= MaxText
    OBVIOUS
  <2>3. w \in JsonTexts /\ Len(w) = n
    BY <1>1, <2>1, <2>2, GrammarIn, GrammarLengths
  <2>4. w # <<>>
    BY <2>2, <2>3, CatIs
  <2> QED
    BY <2>1, <2>2, <2>3, <2>4 DEF JsonValue, Phrase
<1>3. ASSUME NEW w \in JsonValue, Len(w) <= MaxText PROVE w \in Values
  <2>1. w \in JsonTexts /\ w # <<>> /\ w \in Grammar[Len(w)].values
    BY <1>3 DEF JsonValue, Phrase
  <2>2. Len(w) \in Nat /\ Len(w) # 0
    BY <2>1, CatIs
  <2>3. PICK n \in Nat : n = Len(w) /\ n # 0
    BY <2>2
  <2>4. n \in 1..MaxText
    BY <1>3, <2>3
  <2> QED
    BY <2>1, <2>3, <2>4 DEF Values
<1> QED
  BY <1>2, <1>3

LEMMA PrefixSplits ==
  ASSUME NEW s \in JsonTexts, NEW v \in JsonTexts, IsPrefix(s, v)
  PROVE  \E u \in JsonTexts : v = s \o u
<1>1. PICK k \in Nat, l \in Nat : k = Len(s) /\ l = Len(v) /\ k <= l /\ SubSeq(s, 1, k) = SubSeq(v, 1, k)
  <2>1. Len(s) \in Nat /\ Len(v) \in Nat
    BY CatIs
  <2> QED
    BY <2>1 DEF IsPrefix
<1>2. s \in Seq(Char) /\ v \in Seq(Char)
  BY DEF JsonTexts
<1>3. SubSeq(s, 1, k) = s /\ SubSeq(v, 1, l) = v
  BY <1>1, <1>2, SubSeqFull
<1>4. SubSeq(v, 1, k) \o SubSeq(v, k + 1, l) = SubSeq(v, 1, l)
  <2>1. 1 \in 1..(Len(v) + 1) /\ k \in (1 - 1)..Len(v) /\ l \in k..Len(v)
    BY <1>1
  <2> QED
    BY <1>2, <2>1, ConcatAdjacentSubSeq
<1>5. SubSeq(v, k + 1, l) \in JsonTexts
  <2>1. \A m \in (k + 1)..l : v[m] \in Char
    BY <1>1, <1>2, ElementOfSeq
  <2> QED
    BY <1>1, <2>1, SubSeqProperties DEF JsonTexts
<1> QED
  BY <1>1, <1>3, <1>4, <1>5

LEMMA ParsesImplied ==
  ASSUME JsonInv, LookInv, ContinuesInv, ShowsInv
  PROVE  ParsesTheLanguage
<1>1. PICK K : Chain(K, stack) /\ Alike(Remaining(text), ExpectedNow(K), ahead)
  BY DEF ContinuesInv
<1>2. text \in JsonTexts /\ JsonTypes /\ stack \in Seq(Frames)
  BY DEF JsonInv, JsonTypes, JsonTexts
<1>3. <<>> \in Remaining(text) <=> text \in JsonValue
  <2>1. text \o <<>> = text /\ <<>> \in JsonTexts
    BY <1>2, CatIs
  <2> QED
    BY <2>1 DEF Remaining
<1>4. ASSUME at = "accepted" PROVE value.print = text /\ text \in Values
  <2>1. PICK Q : ShownTo(Q, stack) /\ text = Q[Len(stack)] \o value.print
    BY <1>2, <1>4, NowShown
  <2>2. stack = <<>>
    BY <1>4 DEF JsonInv, PlaceInv
  <2>3. Q[Len(stack)] = <<>>
    BY <1>2, <2>1, <2>2, ShownTop
  <2>4. value.print \in JsonTexts
    BY <1>2 DEF JsonTypes, Trees, JsonTexts
  <2>5. value.print = text
    BY <2>1, <2>3, <2>4, CatIs
  <2>6. ahead = Eof /\ Len(text) <= MaxText
    BY <1>4 DEF LookInv
  <2>7. ExpectedNow(K) = {<<>>}
    BY <1>4, NowIs
  <2>8. text \in JsonValue
    BY <1>1, <1>3, <2>6, <2>7 DEF Alike
  <2> QED
    BY <2>5, <2>6, <2>8, ValuesIs
<1>5. ASSUME at = "rejected", ahead = Eof PROVE text \notin Values
  <2>1. ExpectedNow(K) = {}
    BY <1>5, NowIs
  <2>2. text \notin JsonValue
    BY <1>1, <1>3, <1>5, <2>1 DEF Alike
  <2> QED
    BY <2>2, ValuesIs
<1>6. ASSUME at = "rejected", ahead # Eof, NEW v \in Values, IsPrefix(Append(text, ahead), v) PROVE FALSE
  <2>1. ExpectedNow(K) = {}
    BY <1>6, NowIs
  <2>2. Der(ahead, Remaining(text)) = {}
    BY <1>1, <1>6, <2>1 DEF Alike, Der
  <2>3. ahead \in Char
    BY <1>2, <1>6 DEF JsonTypes
  <2>4. PICK s \in JsonTexts : s = Append(text, ahead)
    BY <1>2, <2>3, LaterIs
  <2>5. v \in JsonValue /\ v \in JsonTexts
    BY ValuesIs, ValueIn
  <2>6. PICK u \in JsonTexts : v = s \o u
    BY <1>6, <2>4, <2>5, PrefixSplits
  <2>7. u \in Remaining(s)
    BY <2>5, <2>6 DEF Remaining
  <2>8. Remaining(s) = Der(ahead, Remaining(text))
    BY <1>2, <2>3, <2>4, RemainingIs
  <2> QED
    BY <2>2, <2>7, <2>8
<1> QED
  BY <1>4, <1>5, <1>6 DEF ParsesTheLanguage

\* What holds while a text is parsed.
ParseInv == JsonInv /\ LookInv /\ ContinuesInv /\ ShowsInv

LEMMA InitParseInv == ASSUME JsonParameters, JsonInit PROVE ParseInv
BY InitJsonInv, InitContinues, InitShows DEF ParseInv

LEMMA NextParseInv == ASSUME JsonParameters, ParseInv, [JsonNext]_jsonVars PROVE ParseInv'
<1>1. JsonInv' /\ JsonTypes' /\ JsonTypes
  BY NextJsonInv DEF ParseInv, JsonInv
<1> QED
  BY <1>1, NextLooks, NextContinues, NextShows DEF ParseInv

LEMMA ParseInvImplies == ASSUME ParseInv PROVE ParsesAndFrees
BY JsonInvImplies, ParsesImplied DEF ParsesAndFrees, ParseInv

\* json.h:40 for texts of any length: json_parse accepts the values of the
\* grammar, the tree is the value, a text is rejected when no value begins so,
\* and what is rejected is freed.
THEOREM ParsesJson == ASSUME JsonParameters PROVE JsonSpec => []ParsesAndFrees
<1>1. JsonInit => ParseInv
  BY InitParseInv
<1>2. ParseInv /\ [JsonNext]_jsonVars => ParseInv'
  BY NextParseInv
<1>3. ParseInv => ParsesAndFrees
  BY ParseInvImplies
<1> QED
  BY <1>1, <1>2, <1>3, PTL DEF JsonSpec

-----------------------------------------------------------------------------
(* Pre-tokens: pretoken_end and the split regex *)

\* Where a run of characters of a class ends.
LEMMA RunIs ==
  ASSUME NEW p \in Nat, NEW l \in Nat, p <= l, NEW S
  PROVE  /\ RunFrom(p, l, S) \in p..l
         /\ All(p, RunFrom(p, l, S), S)
         /\ RunFrom(p, l, S) < l => input[RunFrom(p, l, S)] \notin S
         /\ \A e \in p..l : All(p, e, S) => e <= RunFrom(p, l, S)
<1> DEFINE T == {l} \cup {q \in p..(l - 1) : input[q] \notin S}
           r == RunFrom(p, l, S)
<1>1. T \subseteq Nat /\ T # {} /\ T \subseteq p..l
  OBVIOUS
<1>2. r = Min(T)
  BY DEF RunFrom
<1> HIDE DEF T, r
<1>3. r \in T /\ \A x \in T : r <= x
  BY <1>1, <1>2, MinIsLeast
<1>4. r \in p..l
  BY <1>1, <1>3
<1>5. \A q \in p..(r - 1) : input[q] \in S
  BY <1>3, <1>4 DEF T
<1>6. r < l => input[r] \notin S
  BY <1>3, <1>4 DEF T
<1>7. ASSUME NEW e \in p..l, All(p, e, S), ~ (e <= r) PROVE FALSE
  <2>1. r < l /\ r \in p..(e - 1)
    BY <1>4, <1>7
  <2> QED
    BY <1>6, <1>7, <2>1 DEF All
<1> QED
  BY <1>4, <1>5, <1>6, <1>7 DEF All, r

\* The alternatives of the regex, one by one.
LEMMA MatchesAre ==
  ASSUME NEW p, NEW l
  PROVE  /\ Matches(1, p, l) = ContractionEnds(p, l)
         /\ Matches(2, p, l) = {e \in (p + 1)..l : \E o \in {0, 1} :
                   /\ o = 1 => input[p] \notin Newlines \cup Letters \cup Digits
                   /\ p + o < e /\ All(p + o, e, WordChars)}
         /\ Matches(3, p, l) = {e \in {p + 1} : input[p] \in Digits}
         /\ Matches(4, p, l) = {e \in (p + 1)..l : \E o \in {0, 1} : \E m \in (p + o + 1)..e :
                   /\ o = 1 => input[p] = Blank
                   /\ All(p + o, m, Punctuation) /\ All(m, e, Newlines)}
         /\ Matches(5, p, l) = {e \in (p + 1)..l : \E m \in p..(e - 1) :
                                   All(p, m, Spaces) /\ All(m, e, Newlines)}
         /\ Matches(6, p, l) = {e \in (p + 1)..l : All(p, e, Spaces) /\ (e < l => input[e] \in Spaces)}
         /\ Matches(7, p, l) = {e \in (p + 1)..l : All(p, e, Spaces)}
BY DEF Matches

\* The first alternative that matches, and its longest match.
LEMMA RegexIs ==
  ASSUME NEW p \in Nat, NEW l \in Nat, NEW n \in 1..7,
         \A m \in 1..(n - 1) : Matches(m, p, l) = {},
         Matches(n, p, l) \subseteq (p + 1)..l,
         NEW e \in Matches(n, p, l), \A f \in Matches(n, p, l) : f <= e
  PROVE  RegexEnd(p, l) = e
<1> DEFINE T == {k \in 1..7 : Matches(k, p, l) # {}}
<1>1. n \in T /\ T \subseteq Nat
  OBVIOUS
<1>2. \A k \in T : n <= k
  <2> SUFFICES ASSUME NEW k \in T, k < n PROVE FALSE
    BY <1>1
  <2> QED
    OBVIOUS
<1>3. Min(T) \in T /\ \A k \in T : Min(T) <= k
  <2> HIDE DEF T
  <2> QED
    BY <1>1, MinIsLeast
<1>4. Min(T) = n
  <2> DEFINE m == Min(T)
  <2>1. m \in T /\ m <= n /\ n <= m
    BY <1>1, <1>2, <1>3
  <2>2. m \in Nat /\ n \in Nat
    BY <1>1, <2>1
  <2> HIDE DEF m
  <2>3. m = n
    BY <2>1, <2>2
  <2> QED
    BY <2>3 DEF m
<1>5. RegexEnd(p, l) = Max(Matches(n, p, l))
  BY <1>4 DEF RegexEnd
<1>6. Matches(n, p, l) \subseteq 0..l /\ Matches(n, p, l) # {}
  OBVIOUS
<1>7. Max(Matches(n, p, l)) \in Matches(n, p, l) /\ \A f \in Matches(n, p, l) : f <= Max(Matches(n, p, l))
  BY <1>6, MaxIsGreatest
<1> QED
  BY <1>5, <1>7

\* What the alternatives match lies behind p.
LEMMA MatchesBehind ==
  ASSUME EncodeParameters, NEW p \in Nat, NEW l \in Nat, p < l, NEW n \in 1..7
  PROVE  Matches(n, p, l) \subseteq (p + 1)..l
<1>1. Matches(1, p, l) \subseteq (p + 1)..l
  <2> SUFFICES ASSUME NEW x \in Contractions, p + 1 + Len(x) <= l
               PROVE  p + 1 + Len(x) \in (p + 1)..l
    BY MatchesAre DEF ContractionEnds
  <2>1. Len(x) \in Nat
    BY LenProperties DEF EncodeParameters
  <2> QED
    BY <2>1
<1>2. /\ Matches(2, p, l) \subseteq (p + 1)..l /\ Matches(3, p, l) \subseteq (p + 1)..l
      /\ Matches(4, p, l) \subseteq (p + 1)..l
  BY MatchesAre
<1>3. /\ Matches(5, p, l) \subseteq (p + 1)..l /\ Matches(6, p, l) \subseteq (p + 1)..l
      /\ Matches(7, p, l) \subseteq (p + 1)..l
  BY MatchesAre
<1>4. n = 1 \/ n = 2 \/ n = 3 \/ n = 4 \/ n = 5 \/ n = 6 \/ n = 7
  OBVIOUS
<1> QED
  BY <1>1, <1>2, <1>3, <1>4

LEMMA SubSeqElement ==
  ASSUME NEW s, NEW p \in Nat, NEW n \in Nat, NEW k \in 1..n
  PROVE  SubSeq(s, p + 1, p + n)[k] = s[p + k]
OBVIOUS

\* Contractions at one place end at one place.
LEMMA ContractionEndsOnce ==
  ASSUME EncodeParameters, NEW p \in Nat, NEW l \in Nat,
         NEW e \in ContractionEnds(p, l), NEW f \in ContractionEnds(p, l)
  PROVE  e = f
<1>1. ASSUME NEW x \in Contractions, NEW y \in Contractions, Len(x) <= Len(y),
             SubSeq(input, p + 1, p + Len(x)) = x, SubSeq(input, p + 1, p + Len(y)) = y
      PROVE  x = y
  <2>1. x \in Seq(Characters) /\ y \in Seq(Characters) /\ Len(x) \in Nat /\ Len(y) \in Nat
    BY LenProperties DEF EncodeParameters
  <2>2. \A k \in 1..Len(x) : x[k] = input[p + k]
    <3> TAKE k \in 1..Len(x)
    <3>1. SubSeq(input, p + 1, p + Len(x))[k] = input[p + k]
      BY <2>1, SubSeqElement
    <3> QED
      BY <1>1, <3>1
  <2>3. \A k \in 1..Len(y) : y[k] = input[p + k]
    <3> TAKE k \in 1..Len(y)
    <3>1. SubSeq(input, p + 1, p + Len(y))[k] = input[p + k]
      BY <2>1, SubSeqElement
    <3> QED
      BY <1>1, <3>1
  <2>4. SubSeq(x, 1, Len(x)) = SubSeq(y, 1, Len(x))
    <3>1. \A k \in 1..Len(x) : x[k] = y[k]
      BY <1>1, <2>1, <2>2, <2>3
    <3> QED
      BY <2>1, <3>1
  <2> QED
    BY <1>1, <2>4 DEF EncodeParameters, IsPrefix
<1>2. PICK x \in Contractions : e = p + 1 + Len(x) /\ SubSeq(input, p + 1, p + Len(x)) = x
  BY DEF ContractionEnds
<1>3. PICK y \in Contractions : f = p + 1 + Len(y) /\ SubSeq(input, p + 1, p + Len(y)) = y
  BY DEF ContractionEnds
<1>4. Len(x) \in Nat /\ Len(y) \in Nat
  BY LenProperties DEF EncodeParameters
<1>5. CASE Len(x) <= Len(y)
  BY <1>1, <1>2, <1>3, <1>5
<1>6. CASE Len(y) <= Len(x)
  BY <1>1, <1>2, <1>3, <1>6
<1> QED
  BY <1>4, <1>5, <1>6

\* Alternatives in order: where one that matches ends, and when one does not.
LEMMA ContractionFirst ==
  ASSUME EncodeParameters, NEW p \in Nat, NEW l \in Nat, p < l, ContractionEnds(p, l) # {}
  PROVE  PretokenEnd(p, l) = RegexEnd(p, l)
<1>1. ContractionEnds(p, l) \subseteq Nat
  BY MatchesBehind, MatchesAre
<1>2. Min(ContractionEnds(p, l)) \in Matches(1, p, l)
  BY <1>1, MinIsLeast, MatchesAre
<1>3. \A f \in Matches(1, p, l) : f <= Min(ContractionEnds(p, l))
  <2> TAKE f \in Matches(1, p, l)
  <2>1. f = Min(ContractionEnds(p, l)) /\ f \in Nat
    BY <1>1, <1>2, MatchesAre, ContractionEndsOnce
  <2> QED
    BY <2>1
<1>4. \A m \in 1..(1 - 1) : Matches(m, p, l) = {}
  OBVIOUS
<1>5. Matches(1, p, l) \subseteq (p + 1)..l
  BY MatchesBehind
<1>6. RegexEnd(p, l) = Min(ContractionEnds(p, l))
  BY <1>2, <1>3, <1>4, <1>5, RegexIs
<1> QED
  BY <1>6 DEF PretokenEnd

WordStarts(p, l) == /\ input[p] \notin Newlines \cup Digits /\ p + 1 < l
                    /\ input[p + 1] \in WordChars

LEMMA WordMatches ==
  ASSUME NEW p \in Nat, NEW l \in Nat, p < l, input[p] \in WordChars
  PROVE  LET e == RunFrom(p, l, WordChars)
         IN e \in Matches(2, p, l) /\ \A f \in Matches(2, p, l) : f <= e
<1> DEFINE e == RunFrom(p, l, WordChars)
<1>1. /\ e \in p..l /\ All(p, e, WordChars) /\ (e < l => input[e] \notin WordChars)
      /\ \A f \in p..l : All(p, f, WordChars) => f <= e
  BY RunIs
<1> HIDE DEF e
<1>2. e \in (p + 1)..l
  BY <1>1
<1>3. e \in Matches(2, p, l)
  BY <1>1, <1>2, MatchesAre
<1>4. ASSUME NEW f \in Matches(2, p, l) PROVE f <= e
  <2>1. PICK o \in {0, 1} : p + o < f /\ All(p + o, f, WordChars)
    BY MatchesAre
  <2>2. f \in (p + 1)..l
    BY MatchesAre
  <2>3. All(p, f, WordChars)
    <3>1. CASE o = 0
      BY <2>1, <3>1
    <3>2. CASE o = 1
      BY <2>1, <2>2, <3>2 DEF All
    <3> QED
      BY <3>1, <3>2
  <2> QED
    BY <1>1, <2>2, <2>3
<1>5. e \in Matches(2, p, l) /\ \A f \in Matches(2, p, l) : f <= e
  BY <1>3, <1>4
<1> QED
  BY <1>5 DEF e

LEMMA LeadMatches ==
  ASSUME EncodeParameters, NEW p \in Nat, NEW l \in Nat, p < l, input[p] \notin WordChars,
         WordStarts(p, l)
  PROVE  LET e == RunFrom(p + 1, l, WordChars)
         IN e \in Matches(2, p, l) /\ \A f \in Matches(2, p, l) : f <= e
<1> DEFINE e == RunFrom(p + 1, l, WordChars)
<1>1. p + 1 \in Nat /\ p + 1 <= l /\ p + 1 < l
  BY DEF WordStarts
<1>2. /\ e \in (p + 1)..l /\ All(p + 1, e, WordChars) /\ (e < l => input[e] \notin WordChars)
      /\ \A f \in (p + 1)..l : All(p + 1, f, WordChars) => f <= e
  BY <1>1, RunIs
<1> HIDE DEF e
<1>3. p + 1 < e
  BY <1>1, <1>2 DEF WordStarts
<1>4. input[p] \notin Newlines \cup Letters \cup Digits
  BY DEF WordStarts, WordChars
<1>5. e \in Matches(2, p, l)
  BY <1>2, <1>3, <1>4, MatchesAre
<1>6. ASSUME NEW f \in Matches(2, p, l) PROVE f <= e
  <2>1. PICK o \in {0, 1} : p + o < f /\ All(p + o, f, WordChars)
    BY MatchesAre
  <2>2. f \in (p + 1)..l
    BY MatchesAre
  <2>3. o # 0
    BY <2>1, <2>2 DEF All
  <2> QED
    BY <1>2, <2>1, <2>2, <2>3
<1>7. e \in Matches(2, p, l) /\ \A f \in Matches(2, p, l) : f <= e
  BY <1>5, <1>6
<1> QED
  BY <1>7 DEF e

LEMMA NoWord ==
  ASSUME NEW p \in Nat, NEW l \in Nat, p < l, input[p] \notin WordChars, ~ WordStarts(p, l)
  PROVE  Matches(2, p, l) = {}
<1> SUFFICES ASSUME NEW f \in Matches(2, p, l) PROVE FALSE
  OBVIOUS
<1>1. PICK o \in {0, 1} : /\ o = 1 => input[p] \notin Newlines \cup Letters \cup Digits
                         /\ p + o < f /\ All(p + o, f, WordChars)
  BY MatchesAre
<1>2. f \in (p + 1)..l
  BY MatchesAre
<1>3. CASE o = 0
  BY <1>1, <1>2, <1>3 DEF All
<1>4. CASE o = 1
  BY <1>1, <1>2, <1>4 DEF All, WordStarts
<1> QED
  BY <1>3, <1>4

LEMMA PunctuationMatches ==
  ASSUME EncodeParameters, NEW p \in Nat, NEW l \in Nat, p < l,
         RunFrom(PunctuationStart(p), l, Punctuation) > PunctuationStart(p)
  PROVE  LET e == RunFrom(RunFrom(PunctuationStart(p), l, Punctuation), l, Newlines)
         IN e \in Matches(4, p, l) /\ \A f \in Matches(4, p, l) : f <= e
<1> DEFINE b == PunctuationStart(p)
           a == RunFrom(b, l, Punctuation)
           e == RunFrom(a, l, Newlines)
<1>1. b \in Nat /\ b <= l /\ b \in {p, p + 1} /\ (b = p + 1 <=> input[p] = Blank)
  BY DEF PunctuationStart
<1> HIDE DEF b
<1>2. /\ a \in b..l /\ All(b, a, Punctuation)
      /\ \A f \in b..l : All(b, f, Punctuation) => f <= a
  BY <1>1, RunIs
<1>3. a > b
  BY DEF b
<1> HIDE DEF a
<1>4. a \in Nat /\ a <= l
  BY <1>1, <1>2
<1>5. /\ e \in a..l /\ All(a, e, Newlines)
      /\ \A f \in a..l : All(a, f, Newlines) => f <= e
  BY <1>4, RunIs
<1> HIDE DEF e
<1>6. e \in Matches(4, p, l)
  <2> DEFINE o == b - p
  <2>1. o \in {0, 1} /\ p + o = b /\ (o = 1 => input[p] = Blank) /\ e \in (p + 1)..l
    BY <1>1, <1>2, <1>3, <1>5
  <2>2. a \in (p + o + 1)..e
    BY <1>1, <1>2, <1>3, <1>5, <2>1
  <2> HIDE DEF o
  <2>3. All(p + o, a, Punctuation)
    BY <1>2, <2>1
  <2> QED
    BY <1>5, <2>1, <2>2, <2>3, MatchesAre
<1>7. ASSUME NEW f \in Matches(4, p, l) PROVE f <= e
  <2>1. PICK o \in {0, 1} : \E m \in (p + o + 1)..f :
                   /\ o = 1 => input[p] = Blank
                   /\ All(p + o, m, Punctuation) /\ All(m, f, Newlines)
    BY MatchesAre
  <2>2. PICK m \in (p + o + 1)..f :
                   /\ o = 1 => input[p] = Blank
                   /\ All(p + o, m, Punctuation) /\ All(m, f, Newlines)
    BY <2>1
  <2>3. f \in (p + 1)..l
    BY MatchesAre
  <2>4. p + o = b
    <3>1. CASE o = 0
      <4>1. input[p] \in Punctuation
        BY <2>2, <3>1 DEF All
      <4> QED
        BY <1>1, <3>1, <4>1 DEF EncodeParameters
    <3>2. CASE o = 1
      BY <1>1, <2>2, <3>2
    <3> QED
      BY <3>1, <3>2
  <2>5. m \in b..l /\ All(b, m, Punctuation)
    BY <1>1, <2>2, <2>3, <2>4
  <2>6. m <= a
    BY <1>2, <2>5
  <2>7. CASE f <= a
    BY <1>4, <1>5, <2>3, <2>7
  <2>8. CASE f > a
    <3>1. All(a, f, Newlines)
      BY <1>4, <2>2, <2>5, <2>6, <1>1 DEF All
    <3> QED
      BY <1>4, <1>5, <2>3, <2>8, <3>1
  <2> QED
    BY <1>4, <2>3, <2>7, <2>8
<1>8. e \in Matches(4, p, l) /\ \A f \in Matches(4, p, l) : f <= e
  BY <1>6, <1>7
<1> QED
  BY <1>8 DEF e, a, b

LEMMA NoPunctuation ==
  ASSUME EncodeParameters, NEW p \in Nat, NEW l \in Nat, p < l,
         ~ (RunFrom(PunctuationStart(p), l, Punctuation) > PunctuationStart(p))
  PROVE  Matches(4, p, l) = {} /\ input[p] \notin Punctuation
<1> DEFINE b == PunctuationStart(p)
           a == RunFrom(b, l, Punctuation)
<1>1. b \in Nat /\ b <= l /\ b \in {p, p + 1} /\ (b = p + 1 <=> input[p] = Blank)
  BY DEF PunctuationStart
<1> HIDE DEF b
<1>2. /\ a \in b..l /\ All(b, a, Punctuation)
      /\ \A f \in b..l : All(b, f, Punctuation) => f <= a
  BY <1>1, RunIs
<1>3. ~ (a > b)
  BY DEF b
<1> HIDE DEF a
<1>4. input[p] \notin Punctuation
  <2> SUFFICES ASSUME input[p] \in Punctuation PROVE FALSE
    OBVIOUS
  <2>1. b = p
    BY <1>1 DEF EncodeParameters
  <2>2. p + 1 \in b..l /\ All(b, p + 1, Punctuation)
    BY <2>1 DEF All
  <2> QED
    BY <1>2, <1>3, <2>1, <2>2
<1>5. ASSUME NEW f \in Matches(4, p, l) PROVE FALSE
  <2>1. PICK o \in {0, 1} : \E m \in (p + o + 1)..f :
                   /\ o = 1 => input[p] = Blank
                   /\ All(p + o, m, Punctuation)
    BY MatchesAre
  <2>2. PICK m \in (p + o + 1)..f : (o = 1 => input[p] = Blank) /\ All(p + o, m, Punctuation)
    BY <2>1
  <2>3. f \in (p + 1)..l
    BY MatchesAre
  <2>4. CASE o = 0
    BY <1>4, <2>2, <2>4 DEF All
  <2>5. CASE o = 1
    <3>1. b = p + 1
      BY <1>1, <2>2, <2>5
    <3>2. m \in b..l /\ m > b
      BY <2>2, <2>3, <2>5, <3>1
    <3>3. All(b, m, Punctuation)
      BY <2>2, <2>5, <3>1
    <3> QED
      BY <1>1, <1>2, <1>3, <3>2, <3>3
  <2> QED
    BY <2>4, <2>5
<1> QED
  BY <1>4, <1>5

NewlinesFrom(p, l) == {q \in p..(RunFrom(p, l, Spaces) - 1) : input[q] \in Newlines}

\* What \s*[\r\n]+ matches is spaces up to a newline.
LEMMA LineMatches ==
  ASSUME EncodeParameters, NEW p \in Nat, NEW l \in Nat, p < l, NEW f
  PROVE  f \in Matches(5, p, l) <=> \E q \in NewlinesFrom(p, l) : f = q + 1
<1> DEFINE r == RunFrom(p, l, Spaces)
<1>1. /\ r \in p..l /\ All(p, r, Spaces)
      /\ \A e \in p..l : All(p, e, Spaces) => e <= r
  BY RunIs
<1>2. NewlinesFrom(p, l) = {q \in p..(r - 1) : input[q] \in Newlines}
  BY DEF NewlinesFrom
<1> HIDE DEF r
<1>3. ASSUME f \in Matches(5, p, l) PROVE \E q \in NewlinesFrom(p, l) : f = q + 1
  <2>1. PICK m \in p..(f - 1) : All(p, m, Spaces) /\ All(m, f, Newlines)
    BY <1>3, MatchesAre
  <2>2. f \in (p + 1)..l
    BY <1>3, MatchesAre
  <2>3. All(p, f, Spaces)
    BY <2>1, <2>2 DEF All, EncodeParameters
  <2>4. f <= r /\ f - 1 \in p..(r - 1) /\ f = (f - 1) + 1
    BY <1>1, <2>2, <2>3
  <2>5. input[f - 1] \in Newlines
    BY <2>1, <2>2 DEF All
  <2> QED
    BY <1>2, <2>4, <2>5
<1>4. ASSUME NEW q \in NewlinesFrom(p, l), f = q + 1 PROVE f \in Matches(5, p, l)
  <2>1. q \in p..(r - 1) /\ input[q] \in Newlines
    BY <1>2
  <2>2. f \in (p + 1)..l /\ q \in p..(f - 1)
    BY <1>1, <1>4, <2>1
  <2>3. All(p, q, Spaces) /\ All(q, f, Newlines)
    BY <1>1, <1>4, <2>1 DEF All
  <2> QED
    BY <2>2, <2>3, MatchesAre
<1> QED
  BY <1>3, <1>4

LEMMA LongestLine ==
  ASSUME EncodeParameters, NEW p \in Nat, NEW l \in Nat, p < l, NewlinesFrom(p, l) # {}
  PROVE  LET e == Max(NewlinesFrom(p, l)) + 1
         IN e \in Matches(5, p, l) /\ \A f \in Matches(5, p, l) : f <= e
<1> DEFINE N == NewlinesFrom(p, l)
           m == Max(N)
           e == m + 1
<1>1. RunFrom(p, l, Spaces) \in p..l
  BY RunIs
<1>2. N \subseteq 0..l
  BY <1>1 DEF NewlinesFrom
<1> HIDE DEF N
<1>3. m \in N /\ \A q \in N : q <= m
  BY <1>2, MaxIsGreatest DEF N
<1> HIDE DEF m
<1>4. m \in Nat
  BY <1>2, <1>3
<1>5. e \in Matches(5, p, l)
  BY <1>3, LineMatches DEF N
<1>6. ASSUME NEW f \in Matches(5, p, l) PROVE f <= e
  <2>1. PICK q \in N : f = q + 1
    BY LineMatches DEF N
  <2>2. q \in Nat /\ q <= m
    BY <1>2, <1>3
  <2> QED
    BY <1>4, <2>1, <2>2
<1>7. e \in Matches(5, p, l) /\ \A f \in Matches(5, p, l) : f <= e
  BY <1>5, <1>6
<1> QED
  BY <1>7 DEF m, N

\* A run of spaces without a newline: all of it at the end, else all but the
\* last, and where the code finds no match the regex takes one space.
LEMMA SpacesMatch ==
  ASSUME EncodeParameters, NEW p \in Nat \ {0}, NEW l \in Nat, p < l, input[p] \in Spaces,
         \A m \in 1..5 : Matches(m, p, l) = {}
  PROVE  /\ RegexEnd(p, l) \in (p + 1)..l
         /\ \/ SpaceEnd(p, l) = RegexEnd(p, l)
            \/ SpaceEnd(p, l) \in {0, p} /\ RegexEnd(p, l) = p + 1
<1> DEFINE r == RunFrom(p, l, Spaces)
<1>1. /\ r \in p..l /\ All(p, r, Spaces) /\ (r < l => input[r] \notin Spaces)
      /\ \A e \in p..l : All(p, e, Spaces) => e <= r
  BY RunIs
<1>2. SpaceEnd(p, l) = IF r = l THEN r ELSE IF r - p > 1 \/ input[p] \in Wide THEN r - 1 ELSE 0
  BY DEF SpaceEnd
<1> HIDE DEF r
<1>3. r \in (p + 1)..l
  BY <1>1
<1>4. \A f \in Matches(6, p, l) : f \in (p + 1)..l /\ f <= r /\ (f < l => input[f] \in Spaces)
  BY <1>1, MatchesAre
<1>5. Matches(6, p, l) \subseteq (p + 1)..l
  BY <1>4
<1>6. \A m \in 1..(6 - 1) : Matches(m, p, l) = {}
  OBVIOUS
<1>7. CASE r = l
  <2>1. l \in Matches(6, p, l)
    BY <1>1, <1>3, <1>7, MatchesAre
  <2>2. \A f \in Matches(6, p, l) : f <= l
    BY <1>4
  <2>3. RegexEnd(p, l) = l
    BY <1>5, <1>6, <2>1, <2>2, RegexIs
  <2> QED
    BY <1>2, <1>3, <1>7, <2>3
<1>8. CASE r < l /\ r - p > 1
  <2>1. r - 1 \in (p + 1)..l /\ r - 1 \in p..(r - 1) /\ p \in Nat
    BY <1>1, <1>8
  <2>2. All(p, r - 1, Spaces)
    BY <1>1, <2>1 DEF All
  <2>3. input[r - 1] \in Spaces
    BY <1>1, <2>1 DEF All
  <2>4. r - 1 \in Matches(6, p, l)
    BY <2>1, <2>2, <2>3, MatchesAre
  <2>5. \A f \in Matches(6, p, l) : f <= r - 1
    BY <1>1, <1>4, <1>8
  <2>6. RegexEnd(p, l) = r - 1
    BY <1>5, <1>6, <2>4, <2>5, RegexIs
  <2> QED
    BY <1>2, <1>8, <2>1, <2>6
<1>9. CASE r < l /\ ~ (r - p > 1)
  <2>1. r = p + 1
    BY <1>3, <1>9
  <2>2. Matches(6, p, l) = {}
    <3> SUFFICES ASSUME NEW f \in Matches(6, p, l) PROVE FALSE
      OBVIOUS
    <3>1. f = r
      BY <1>4, <2>1
    <3> QED
      BY <1>1, <1>4, <1>9, <3>1
  <2>3. \A m \in 1..(7 - 1) : Matches(m, p, l) = {}
    <3> TAKE m \in 1..(7 - 1)
    <3>1. m \in 1..5 \/ m = 6
      OBVIOUS
    <3> QED
      BY <2>2, <3>1
  <2>4. p + 1 \in Matches(7, p, l)
    BY <1>1, <1>3, <2>1, MatchesAre
  <2>5. \A f \in Matches(7, p, l) : f \in (p + 1)..l /\ f <= p + 1
    BY <1>1, <2>1, MatchesAre
  <2>6. Matches(7, p, l) \subseteq (p + 1)..l
    BY <2>5
  <2>7. RegexEnd(p, l) = p + 1
    BY <2>3, <2>4, <2>5, <2>6, RegexIs
  <2> QED
    BY <1>2, <1>3, <1>9, <2>1, <2>7
<1> QED
  BY <1>3, <1>7, <1>8, <1>9

\* pretoken_end finds what the split regex matches; where it finds nothing, or
\* an empty pre-token, the regex takes one character.
LEMMA PretokenIsRegex ==
  ASSUME EncodeParameters, NEW p \in Nat \ {0}, NEW l \in Nat, p < l, input[p] \in Characters
  PROVE  /\ RegexEnd(p, l) \in (p + 1)..l
         /\ \/ PretokenEnd(p, l) = RegexEnd(p, l)
            \/ PretokenEnd(p, l) \in {0, p} /\ RegexEnd(p, l) = p + 1
<1> DEFINE Found(n, e) == e \in Matches(n, p, l) /\ \A f \in Matches(n, p, l) : f <= e
           None(n) == \A m \in 1..(n - 1) : Matches(m, p, l) = {}
           b == PunctuationStart(p)
           a == RunFrom(b, l, Punctuation)
<1>1. ASSUME NEW n \in 1..7, NEW e, Found(n, e), None(n)
      PROVE  RegexEnd(p, l) = e /\ RegexEnd(p, l) \in (p + 1)..l
  <2>1. Matches(n, p, l) \subseteq (p + 1)..l
    BY MatchesBehind
  <2>2. e \in Matches(n, p, l) /\ \A f \in Matches(n, p, l) : f <= e
    BY <1>1
  <2>3. \A m \in 1..(n - 1) : Matches(m, p, l) = {}
    BY <1>1
  <2> HIDE DEF Found, None
  <2>4. RegexEnd(p, l) = e
    BY <2>1, <2>2, <2>3, RegexIs
  <2> QED
    BY <2>1, <2>2, <2>4
<1>2. CASE ContractionEnds(p, l) # {}
  <2>1. PretokenEnd(p, l) = RegexEnd(p, l)
    BY <1>2, ContractionFirst
  <2>2. PICK e \in Matches(1, p, l) : TRUE
    BY <1>2, MatchesAre
  <2>3. e \in Nat /\ Matches(1, p, l) = ContractionEnds(p, l)
    BY MatchesBehind, MatchesAre
  <2>4. Found(1, e)
    BY <2>2, <2>3, ContractionEndsOnce
  <2>5. None(1)
    OBVIOUS
  <2> QED
    BY <1>1, <2>1, <2>4, <2>5
<1>3. ASSUME ContractionEnds(p, l) = {} PROVE None(2)
  BY <1>3, MatchesAre
<1>4. CASE ContractionEnds(p, l) = {} /\ input[p] \in WordChars
  <2>1. PretokenEnd(p, l) = RunFrom(p, l, WordChars)
    BY <1>4 DEF PretokenEnd
  <2>2. Found(2, RunFrom(p, l, WordChars))
    BY <1>4, WordMatches
  <2> HIDE DEF Found, None
  <2> QED
    BY <1>1, <1>3, <1>4, <2>1, <2>2
<1>5. CASE ContractionEnds(p, l) = {} /\ input[p] \notin WordChars /\ WordStarts(p, l)
  <2>1. PretokenEnd(p, l) = RunFrom(p + 1, l, WordChars)
    BY <1>5 DEF PretokenEnd, WordStarts
  <2>2. Found(2, RunFrom(p + 1, l, WordChars))
    BY <1>5, LeadMatches
  <2> HIDE DEF Found, None
  <2> QED
    BY <1>1, <1>3, <1>5, <2>1, <2>2
<1> DEFINE NoWords == /\ ContractionEnds(p, l) = {} /\ input[p] \notin WordChars
                      /\ ~ WordStarts(p, l)
<1>6. ASSUME NoWords
      PROVE  /\ None(3)
             /\ PretokenEnd(p, l) =
                  IF input[p] \in Digits THEN p + 1
                  ELSE IF a > b THEN RunFrom(a, l, Newlines)
                  ELSE IF NewlinesFrom(p, l) # {} THEN Max(NewlinesFrom(p, l)) + 1
                  ELSE SpaceEnd(p, l)
  <2>1. Matches(1, p, l) = {} /\ Matches(2, p, l) = {}
    BY <1>6, MatchesAre, NoWord
  <2>2. None(3)
    <3> SUFFICES ASSUME NEW m \in 1..(3 - 1) PROVE Matches(m, p, l) = {}
      OBVIOUS
    <3>1. m = 1 \/ m = 2
      OBVIOUS
    <3> QED
      BY <2>1, <3>1
  <2>3. PretokenEnd(p, l) =
                  IF input[p] \in Digits THEN p + 1
                  ELSE IF a > b THEN RunFrom(a, l, Newlines)
                  ELSE IF NewlinesFrom(p, l) # {} THEN Max(NewlinesFrom(p, l)) + 1
                  ELSE SpaceEnd(p, l)
    BY <1>6 DEF PretokenEnd, WordStarts, NewlinesFrom
  <2> QED
    BY <2>2, <2>3
<1>7. CASE NoWords /\ input[p] \in Digits
  <2>1. PretokenEnd(p, l) = p + 1
    BY <1>6, <1>7
  <2>2. Found(3, p + 1)
    BY <1>7, MatchesAre
  <2> HIDE DEF Found, None
  <2> QED
    BY <1>1, <1>6, <1>7, <2>1, <2>2
<1>8. ASSUME NoWords, input[p] \notin Digits PROVE None(4)
  <2>1. None(3) /\ Matches(3, p, l) = {}
    BY <1>6, <1>8, MatchesAre
  <2>2. \A m \in 1..(4 - 1) : m \in 1..(3 - 1) \/ m = 3
    OBVIOUS
  <2> QED
    BY <2>1, <2>2
<1>9. CASE NoWords /\ input[p] \notin Digits /\ a > b
  <2>1. PretokenEnd(p, l) = RunFrom(a, l, Newlines)
    BY <1>6, <1>9
  <2>2. Found(4, RunFrom(a, l, Newlines))
    BY <1>9, PunctuationMatches
  <2> HIDE DEF Found, None
  <2> QED
    BY <1>1, <1>8, <1>9, <2>1, <2>2
<1>10. ASSUME NoWords, input[p] \notin Digits, ~ (a > b)
       PROVE  None(5) /\ input[p] \in Spaces
  <2>1. None(4) /\ Matches(4, p, l) = {} /\ input[p] \notin Punctuation
    BY <1>8, <1>10, NoPunctuation
  <2>2. \A m \in 1..(5 - 1) : m \in 1..(4 - 1) \/ m = 4
    OBVIOUS
  <2>3. input[p] \in Spaces
    BY <1>10, <2>1 DEF Characters, Punctuation, WordChars
  <2> QED
    BY <2>1, <2>2, <2>3
<1>11. CASE NoWords /\ input[p] \notin Digits /\ ~ (a > b) /\ NewlinesFrom(p, l) # {}
  <2>1. PretokenEnd(p, l) = Max(NewlinesFrom(p, l)) + 1
    BY <1>6, <1>11
  <2>2. Found(5, Max(NewlinesFrom(p, l)) + 1)
    BY <1>11, LongestLine
  <2> HIDE DEF Found, None
  <2> QED
    BY <1>1, <1>10, <1>11, <2>1, <2>2
<1>12. CASE NoWords /\ input[p] \notin Digits /\ ~ (a > b) /\ NewlinesFrom(p, l) = {}
  <2>1. PretokenEnd(p, l) = SpaceEnd(p, l)
    BY <1>6, <1>12
  <2>2. None(5) /\ input[p] \in Spaces /\ Matches(5, p, l) = {}
    BY <1>10, <1>12, LineMatches
  <2>3. \A m \in 1..5 : m \in 1..(5 - 1) \/ m = 5
    OBVIOUS
  <2>4. \A m \in 1..5 : Matches(m, p, l) = {}
    BY <2>2, <2>3
  <2> QED
    BY <2>1, <2>2, <2>4, SpacesMatch
<1> HIDE DEF a, b
<1> QED
  BY <1>2, <1>4, <1>5, <1>7, <1>9, <1>11, <1>12

-----------------------------------------------------------------------------
(* Decoding: the characters of tokens one after the other *)

Token == Seq(Characters)

\* What has been decoded after each token.
Decodes(s, g) == /\ g \in [0..Len(s) -> Token]
                 /\ g[0] = <<>>
                 /\ \A k \in 1..Len(s) : g[k] = g[k - 1] \o s[k]

LEMMA DecodingExists ==
  ASSUME NEW s \in Seq(Token)
  PROVE  \E g : Decodes(s, g)
<1> DEFINE Upto(n, g) == /\ g \in [0..n -> Token] /\ g[0] = <<>>
                         /\ \A k \in 1..n : g[k] = g[k - 1] \o s[k]
           S == {n \in Nat : n <= Len(s) => \E g : Upto(n, g)}
<1>1. Len(s) \in Nat
  BY LenProperties
<1>2. 0 \in S
  <2> DEFINE g == [k \in 0..0 |-> <<>>]
  <2>1. <<>> \in Token
    BY EmptySeq DEF Token
  <2>2. Upto(0, g)
    BY <2>1
  <2> QED
    BY <2>2
<1>3. ASSUME NEW n \in Nat, n \in S PROVE n + 1 \in S
  <2> HIDE DEF Upto
  <2> SUFFICES ASSUME n + 1 <= Len(s) PROVE \E g : Upto(n + 1, g)
    OBVIOUS
  <2>1. PICK g : Upto(n, g)
    BY <1>1, <1>3
  <2> USE DEF Upto
  <2> DEFINE h == [k \in 0..(n + 1) |-> IF k = n + 1 THEN g[n] \o s[n + 1] ELSE g[k]]
  <2>2. s[n + 1] \in Token /\ g[n] \in Token
    BY <1>1, <2>1, ElementOfSeq
  <2>3. g[n] \o s[n + 1] \in Token
    BY <2>2, ConcatProperties DEF Token
  <2>4. h \in [0..(n + 1) -> Token] /\ h[0] = <<>>
    BY <2>1, <2>3
  <2>5. ASSUME NEW k \in 1..(n + 1) PROVE h[k] = h[k - 1] \o s[k]
    <3>1. CASE k = n + 1
      BY <3>1
    <3>2. CASE k # n + 1
      <4>1. k \in 1..n /\ k - 1 \in 0..n /\ k \in 0..(n + 1) /\ k - 1 \in 0..(n + 1) /\ k - 1 # n + 1
        BY <3>2
      <4>2. h[k] = g[k] /\ h[k - 1] = g[k - 1]
        BY <3>2, <4>1
      <4> QED
        BY <2>1, <4>1, <4>2
    <3> QED
      BY <3>1, <3>2
  <2>6. Upto(n + 1, h)
    BY <2>4, <2>5
  <2> HIDE DEF h, Upto
  <2> QED
    BY <2>6
<1>4. Len(s) \in S
  <2> HIDE DEF S
  <2> QED
    BY <1>1, <1>2, <1>3, Induction
<1>5. PICK g : Upto(Len(s), g)
  <2> HIDE DEF Upto
  <2> QED
    BY <1>1, <1>4
<1>6. Decodes(s, g)
  BY <1>5 DEF Decodes
<1> QED
  BY <1>6

\* FlattenSeq folds from the front.
LEMMA FlattenIs ==
  ASSUME NEW s \in Seq(Token), NEW g, Decodes(s, g)
  PROVE  FlattenSeq(s) = g[Len(s)]
<1> DEFINE n == Len(s)
           Body(f) == [k \in 1..n |-> IF k = 1 THEN s[k] ELSE f[k - 1] \o s[k]]
           f == CHOOSE f : f = Body(f)
           h == [k \in 1..n |-> g[k]]
<1>1. n \in Nat /\ \A k \in 1..n : s[k] \in Token
  BY LenProperties, ElementOfSeq
<1> HIDE DEF n
<1>2. \A k \in 1..n : g[k] = IF k = 1 THEN s[k] ELSE g[k - 1] \o s[k]
  <2> TAKE k \in 1..n
  <2>1. g[k] = g[k - 1] \o s[k]
    BY DEF Decodes, n
  <2>2. CASE k = 1
    <3>1. g[1] = <<>> \o s[1]
      BY <2>1, <2>2 DEF Decodes
    <3>2. <<>> \o s[1] = s[1]
      BY <1>1, <2>2, ConcatEmptySeq DEF Token
    <3> QED
      BY <2>2, <3>1, <3>2
  <2>3. CASE k # 1
    BY <2>1, <2>3
  <2> QED
    BY <2>2, <2>3
<1>3. h = Body(h)
  <2>1. \A k \in 1..n : k # 1 => h[k - 1] = g[k - 1]
    BY <1>1
  <2>2. \A k \in 1..n : h[k] = IF k = 1 THEN s[k] ELSE h[k - 1] \o s[k]
    BY <1>2, <2>1
  <2> HIDE DEF h
  <2>3. h = [k \in 1..n |-> h[k]]
    BY DEF h
  <2> QED
    BY <2>2, <2>3
<1>4. f = Body(f)
  <2> HIDE DEF h, Body
  <2> QED
    BY <1>3
<1> HIDE DEF f
<1> DEFINE S == {k \in Nat : k >= 1 /\ k <= n => f[k] = g[k]}
<1>5. 0 \in S
  OBVIOUS
<1>6. ASSUME NEW k \in Nat, k \in S PROVE k + 1 \in S
  <2> SUFFICES ASSUME k + 1 <= n PROVE f[k + 1] = g[k + 1]
    OBVIOUS
  <2>1. k + 1 \in 1..n
    BY <1>1
  <2>2. f[k + 1] = IF k + 1 = 1 THEN s[k + 1] ELSE f[(k + 1) - 1] \o s[k + 1]
    BY <1>4, <2>1
  <2>3. g[k + 1] = IF k + 1 = 1 THEN s[k + 1] ELSE g[(k + 1) - 1] \o s[k + 1]
    BY <1>2, <2>1
  <2>4. k + 1 # 1 => k >= 1 /\ k <= n /\ (k + 1) - 1 = k
    BY <1>1, <2>1
  <2> QED
    BY <1>6, <2>2, <2>3, <2>4
<1>7. n \in S
  <2> HIDE DEF S
  <2> QED
    BY <1>1, <1>5, <1>6, Induction
<1>8. CASE n = 0
  <2>1. s = <<>>
    BY <1>8 DEF n
  <2> QED
    BY <1>8, <2>1 DEF FlattenSeq, n, Decodes
<1>9. CASE n # 0
  <2>1. FlattenSeq(s) = f[n]
    BY <1>9 DEF FlattenSeq, f, Body, n
  <2> QED
    BY <1>1, <1>7, <1>9, <2>1 DEF n
<1> QED
  BY <1>8, <1>9

LEMMA Associative == \A a, b, c \in Token : (a \o b) \o c = a \o (b \o c)
<1> SUFFICES ASSUME NEW a \in Token, NEW b \in Token, NEW c \in Token
             PROVE  (a \o b) \o c = a \o (b \o c)
  OBVIOUS
<1> QED
  BY ConcatAssociative DEF Token

LEMMA FlattenType == ASSUME NEW s \in Seq(Token) PROVE FlattenSeq(s) \in Token
<1>1. PICK g : Decodes(s, g)
  BY DecodingExists
<1>2. Len(s) \in Nat
  BY LenProperties
<1>3. g[Len(s)] \in Token
  BY <1>1, <1>2 DEF Decodes
<1> QED
  BY <1>1, <1>3, FlattenIs

LEMMA FlattenConcat ==
  ASSUME NEW s \in Seq(Token), NEW t \in Seq(Token)
  PROVE  FlattenSeq(s \o t) = FlattenSeq(s) \o FlattenSeq(t)
<1>1. PICK g : Decodes(s, g)
  BY DecodingExists
<1>2. PICK h : Decodes(t, h)
  BY DecodingExists
<1> DEFINE m == Len(s)
           n == Len(t)
           u == s \o t
           f == [k \in 0..(m + n) |-> IF k <= m THEN g[k] ELSE g[m] \o h[k - m]]
<1>3. m \in Nat /\ n \in Nat /\ u \in Seq(Token) /\ Len(u) = m + n
  BY LenProperties, ConcatProperties
<1>4. /\ \A k \in 1..m : u[k] = s[k] /\ s[k] \in Token
      /\ \A k \in (m + 1)..(m + n) : u[k] = t[k - m] /\ t[k - m] \in Token
  <2>1. \A k \in 1..m : u[k] = s[k]
    BY <1>3
  <2>2. \A k \in (m + 1)..(m + n) : u[k] = t[k - m] /\ k - m \in 1..n
    BY <1>3
  <2>3. \A k \in 1..n : t[k] \in Token
    BY ElementOfSeq
  <2>4. \A k \in 1..m : s[k] \in Token
    BY ElementOfSeq
  <2> QED
    BY <2>1, <2>2, <2>3, <2>4
<1>5. /\ \A k \in 0..m : g[k] \in Token
      /\ \A k \in 0..n : h[k] \in Token
      /\ g[0] = <<>> /\ h[0] = <<>>
      /\ \A k \in 1..m : g[k] = g[k - 1] \o s[k]
      /\ \A k \in 1..n : h[k] = h[k - 1] \o t[k]
  BY <1>1, <1>2 DEF Decodes
<1>6. FlattenSeq(s) = g[m] /\ FlattenSeq(t) = h[n]
  BY <1>1, <1>2, FlattenIs
<1> HIDE DEF m, n, u
<1>7. f \in [0..(m + n) -> Token]
  <2> SUFFICES ASSUME NEW k \in 0..(m + n) PROVE (IF k <= m THEN g[k] ELSE g[m] \o h[k - m]) \in Token
    OBVIOUS
  <2>1. CASE k <= m
    BY <1>3, <1>5, <2>1
  <2>2. CASE ~ (k <= m)
    <3>1. k - m \in 0..n /\ m \in 0..m
      BY <1>3, <2>2
    <3>2. g[m] \in Seq(Characters) /\ h[k - m] \in Seq(Characters)
      BY <1>5, <3>1 DEF Token
    <3>3. g[m] \o h[k - m] \in Token
      BY <3>2, ConcatProperties DEF Token
    <3> QED
      BY <2>2, <3>3
  <2> QED
    BY <2>1, <2>2
<1>8. f[0] = <<>>
  BY <1>3, <1>5
<1>9. ASSUME NEW k \in 1..(m + n) PROVE f[k] = f[k - 1] \o u[k]
  <2>0. k \in 0..(m + n) /\ k - 1 \in 0..(m + n)
    BY <1>3
  <2>1. CASE k <= m
    <3>1. k \in 1..m /\ k - 1 <= m
      BY <1>3, <2>1
    <3>2. f[k] = g[k] /\ f[k - 1] = g[k - 1]
      BY <2>0, <2>1, <3>1
    <3> QED
      BY <1>4, <1>5, <3>1, <3>2
  <2>2. CASE k = m + 1
    <3>1. k - m = 1 /\ 1 \in 1..n /\ k - 1 = m /\ ~ (k <= m) /\ m <= m /\ 0 \in 0..n /\ 1 - 1 = 0
          /\ k \in (m + 1)..(m + n) /\ m \in 0..m
      BY <1>3, <2>2
    <3>2. f[k] = g[m] \o h[1] /\ f[k - 1] = g[m] /\ u[k] = t[1] /\ t[1] \in Token
      BY <1>4, <2>0, <3>1
    <3>3. h[1] = <<>> \o t[1]
      BY <1>5, <3>1
    <3>4. <<>> \o t[1] = t[1]
      BY <3>2, ConcatEmptySeq DEF Token
    <3> QED
      BY <3>2, <3>3, <3>4
  <2>3. CASE k > m + 1
    <3>1. /\ k - m \in 1..n /\ (k - m) - 1 \in 0..n /\ (k - 1) - m = (k - m) - 1
          /\ ~ (k <= m) /\ ~ (k - 1 <= m) /\ k \in (m + 1)..(m + n) /\ m \in 0..m
      BY <1>3, <2>3
    <3>2. f[k] = g[m] \o h[k - m] /\ f[k - 1] = g[m] \o h[(k - m) - 1]
      BY <2>0, <3>1
    <3>3. u[k] = t[k - m] /\ t[k - m] \in Token /\ g[m] \in Token /\ h[(k - m) - 1] \in Token
      BY <1>4, <1>5, <3>1
    <3>4. h[k - m] = h[(k - m) - 1] \o t[k - m]
      BY <1>5, <3>1
    <3>5. (g[m] \o h[(k - m) - 1]) \o t[k - m] = g[m] \o (h[(k - m) - 1] \o t[k - m])
      BY <3>3, Associative
    <3> QED
      BY <3>2, <3>3, <3>4, <3>5
  <2>4. k <= m \/ k = m + 1 \/ k > m + 1
    BY <1>3
  <2> HIDE DEF f
  <2> QED
    BY <2>1, <2>2, <2>3, <2>4
<1>10. f[m + n] = g[m] \o h[n]
  <2>1. CASE n = 0
    <3>1. f[m + n] = g[m] /\ g[m] \in Token /\ h[n] = <<>>
      BY <1>3, <1>5, <2>1
    <3>2. g[m] \o <<>> = g[m]
      BY <3>1, ConcatEmptySeq DEF Token
    <3> QED
      BY <3>1, <3>2
  <2>2. CASE n # 0
    <3>1. m + n \in 0..(m + n) /\ ~ (m + n <= m) /\ (m + n) - m = n
      BY <1>3, <2>2
    <3> QED
      BY <3>1
  <2> QED
    BY <2>1, <2>2
<1> HIDE DEF f
<1>11. Decodes(u, f)
  BY <1>3, <1>7, <1>8, <1>9 DEF Decodes
<1>12. FlattenSeq(u) = f[Len(u)]
  BY <1>3, <1>11, FlattenIs
<1> QED
  BY <1>3, <1>6, <1>10, <1>12 DEF u

LEMMA FlattenOne == ASSUME NEW a \in Token PROVE FlattenSeq(<<a>>) = a
<1> DEFINE g == [k \in 0..1 |-> IF k = 0 THEN <<>> ELSE a]
<1>1. <<a>> \in Seq(Token) /\ Len(<<a>>) = 1 /\ <<a>>[1] = a
  OBVIOUS
<1>2. <<>> \o a = a /\ <<>> \in Token
  BY ConcatEmptySeq, EmptySeq DEF Token
<1>3. Decodes(<<a>>, g)
  <2>1. g \in [0..1 -> Token] /\ g[0] = <<>> /\ g[1] = a
    BY <1>2
  <2>2. \A k \in 1..1 : k = 1 /\ k - 1 = 0
    OBVIOUS
  <2> HIDE DEF g
  <2>3. \A k \in 1..1 : g[k] = g[k - 1] \o <<a>>[k]
    BY <1>1, <1>2, <2>1, <2>2
  <2> QED
    BY <1>1, <2>1, <2>3 DEF Decodes
<1>4. FlattenSeq(<<a>>) = g[1]
  <2> HIDE DEF g
  <2> QED
    BY <1>1, <1>3, FlattenIs
<1> QED
  BY <1>4

LEMMA FlattenNone == FlattenSeq(<<>>) = <<>>
BY DEF FlattenSeq

\* The symbols of a text spell it.
LEMMA SymbolsSpell ==
  ASSUME NEW s \in Token
  PROVE  /\ Symbols(s) \in Seq(Token) /\ Len(Symbols(s)) = Len(s)
         /\ FlattenSeq(Symbols(s)) = s
<1> DEFINE n == Len(s)
           t == Symbols(s)
           g == [k \in 0..n |-> SubSeq(s, 1, k)]
<1>1. n \in Nat /\ s \in Seq(Characters) /\ \A k \in 1..n : s[k] \in Characters
  BY LenProperties, ElementOfSeq DEF Token
<1>2. DOMAIN s = 1..n /\ \A k \in 1..n : <<s[k]>> \in Token
  BY <1>1 DEF Token
<1> HIDE DEF n
<1>3. t = [k \in 1..n |-> <<s[k]>>]
  BY <1>2 DEF Symbols
<1>4. t \in Seq(Token) /\ Len(t) = n /\ \A k \in 1..n : t[k] = <<s[k]>>
  <2>1. t \in [1..n -> Token] /\ \A k \in 1..n : t[k] = <<s[k]>>
    BY <1>2, <1>3
  <2>2. Len(t) = n
    BY <1>1, <1>3
  <2>3. t \in Seq(Token)
    BY <1>1, <2>1, SeqDef
  <2> QED
    BY <2>1, <2>2, <2>3
<1>5. \A k \in 0..n : SubSeq(s, 1, k) \in Token
  <2> TAKE k \in 0..n
  <2>1. k \in Int /\ 1 \in Int /\ \A j \in 1..k : s[j] \in Characters
    BY <1>1
  <2> QED
    BY <2>1, SubSeqProperties DEF Token
<1>6. g[0] = <<>>
  <2>1. g[0] = SubSeq(s, 1, 0)
    BY <1>1
  <2>2. 1 \in Int /\ 0 \in Int /\ 0 < 1
    OBVIOUS
  <2>3. SubSeq(s, 1, 0) = <<>>
    BY <2>2, SubSeqEmpty
  <2> QED
    BY <2>1, <2>3
<1>7. ASSUME NEW k \in 1..n PROVE g[k] = g[k - 1] \o t[k]
  <2>1. 1 \in 1..Len(s) /\ k \in 1..Len(s)
    BY <1>1 DEF n
  <2>2. SubSeq(s, 1, k) = SubSeq(s, 1, k - 1) \o <<s[k]>>
    BY <1>1, <2>1, SubSeqRecursiveSecond
  <2>3. g[k] = SubSeq(s, 1, k) /\ g[k - 1] = SubSeq(s, 1, k - 1)
    BY <1>1
  <2> QED
    BY <1>4, <2>2, <2>3
<1>8. g \in [0..n -> Token]
  BY <1>5
<1>9. Decodes(t, g)
  <2> HIDE DEF g, t
  <2> QED
    BY <1>4, <1>6, <1>7, <1>8 DEF Decodes
<1>10. FlattenSeq(t) = g[n]
  <2> HIDE DEF g, t
  <2> QED
    BY <1>4, <1>9, FlattenIs
<1>11. g[n] = s
  <2>1. g[n] = SubSeq(s, 1, n)
    BY <1>1
  <2> QED
    BY <1>1, <2>1, SubSeqFull DEF n
<1> HIDE DEF g
<1> QED
  BY <1>4, <1>10, <1>11 DEF n

-----------------------------------------------------------------------------
(* Merging: the ranks kept beside the symbols and byte-pair encoding *)

LEMMA RankType ==
  ASSUME EncodeParameters, table \in Tables, NEW a, NEW b
  PROVE  RankOf(a, b) \in Int /\ RankOf(a, b) >= NoRank
<1> DEFINE R == {r \in DOMAIN table.merges : table.merges[r] = <<a, b>> /\ {a, b} \subseteq Vocab}
           n == Len(table.merges)
<1>1. n \in Nat /\ R \subseteq 0..n
  <2>1. table.merges \in Seq(Seq(Characters) \X Seq(Characters))
    BY DEF EncodeParameters
  <2>2. n \in Nat /\ DOMAIN table.merges = 1..n
    BY <2>1
  <2>3. R \subseteq DOMAIN table.merges
    OBVIOUS
  <2> HIDE DEF R, n
  <2> QED
    BY <2>2, <2>3
<1>2. RankOf(a, b) = Max({NoRank} \cup R)
  BY DEF RankOf
<1> HIDE DEF R, n
<1>3. CASE R = {}
  <2>1. \E x \in {NoRank} \cup R : \A y \in {NoRank} \cup R : x >= y
    BY <1>3 DEF NoRank
  <2>2. Max({NoRank} \cup R) \in {NoRank} \cup R
    BY <2>1 DEF Max
  <2> QED
    BY <1>2, <1>3, <2>2 DEF NoRank
<1>4. CASE R # {}
  <2>1. PICK m \in R : \A y \in R : y <= m
    BY <1>1, <1>4, MaxIsGreatest
  <2>2. m >= NoRank /\ m >= m /\ \A y \in R : m >= y
    BY <1>1, <2>1 DEF NoRank
  <2>3. \E x \in {NoRank} \cup R : \A y \in {NoRank} \cup R : x >= y
    BY <2>1, <2>2
  <2>4. Max({NoRank} \cup R) \in {NoRank} \cup R
    BY <2>3 DEF Max
  <2>5. \A y \in {NoRank} \cup R : y \in Int /\ y >= NoRank
    BY <1>1 DEF NoRank
  <2> QED
    BY <1>2, <2>4, <2>5
<1> QED
  BY <1>3, <1>4

\* A pair has its rank, or none once it turned out that it does not merge.
RanksRight ==
  /\ rank \in [1..Len(cur) -> Int]
  /\ \A k \in 1..(Len(cur) - 1) : \/ rank[k] = RankOf(cur[k], cur[k + 1])
                                  \/ rank[k] = NoRank /\ k \notin Mergeable(cur)

\* The leftmost of the lowest ranks.
LEMMA LeftmostLowest ==
  ASSUME NEW n \in Nat, NEW S, S \subseteq 1..n, S # {}, NEW f,
         \A j \in S : f[j] \in Int /\ f[j] >= NoRank
  PROVE  \E k \in S : \A j \in S : f[k] < f[j] \/ (f[k] = f[j] /\ k <= j)
<1> DEFINE V == {f[j] + 1 : j \in S}
<1>0. \A j \in S : f[j] \in Int /\ f[j] + 1 \in Nat
  BY DEF NoRank
<1>1. V \subseteq Nat /\ V # {}
  BY <1>0
<1>2. PICK v \in V : \A w \in V : v <= w
  <2> HIDE DEF V
  <2> QED
    BY <1>1, LeastExists
<1> DEFINE T == {j \in S : f[j] + 1 = v}
<1>3. T \subseteq Nat /\ T # {}
  <2>1. PICK j \in S : v = f[j] + 1
    BY <1>2
  <2>2. j \in T
    BY <2>1
  <2>3. \A x \in S : x \in Nat
    <3> HIDE DEF T, V
    <3> TAKE x \in S
    <3>1. x \in 1..n
      OBVIOUS
    <3> QED
      BY <3>1
  <2>4. \A x \in T : x \in Nat
    BY <2>3
  <2> QED
    BY <2>2, <2>4
<1>4. PICK k \in T : \A j \in T : k <= j
  <2> HIDE DEF T
  <2> QED
    BY <1>3, LeastExists
<1>5. ASSUME NEW j \in S PROVE f[k] < f[j] \/ (f[k] = f[j] /\ k <= j)
  <2>1. f[k] + 1 = v /\ f[j] + 1 \in V /\ k \in S
    BY <1>4
  <2>4. v <= f[j] + 1 /\ f[k] \in Int /\ f[j] \in Int
    BY <1>0, <1>2, <2>1
  <2>2. CASE f[j] + 1 = v
    <3>1. j \in T
      BY <2>2
    <3>2. k <= j /\ f[k] = f[j]
      BY <1>4, <2>1, <2>2, <2>4, <3>1
    <3> QED
      BY <3>2
  <2>3. CASE f[j] + 1 # v
    <3>1. f[k] < f[j]
      BY <2>1, <2>3, <2>4
    <3> QED
      BY <3>1
  <2> QED
    BY <2>2, <2>3
<1> QED
  BY <1>4, <1>5

LEMMA NoBest ==
  ASSUME EncodeParameters, table \in Tables, cur \in Seq(Token), RanksRight, Best = {}
  PROVE  Mergeable(cur) = {}
<1> DEFINE n == Len(cur)
           S == {k \in 1..(n - 1) : rank[k] # NoRank}
<1>1. n \in Nat
  BY LenProperties
<1>2. \A k \in 1..n : rank[k] \in Int
  BY DEF RanksRight
<1>3. \A k \in Mergeable(cur) : k \in S
  BY DEF RanksRight, Mergeable
<1>4. \A k \in S : rank[k] >= NoRank
  <2> TAKE k \in S
  <2>1. rank[k] = RankOf(cur[k], cur[k + 1])
    BY DEF RanksRight
  <2> QED
    BY <2>1, RankType
<1>5. \A k \in S : k \in 1..n
  BY <1>1
<1>6. \A k \in S : rank[k] \in Int /\ rank[k] >= NoRank
  BY <1>2, <1>4, <1>5
<1>7. S \subseteq 1..n
  BY <1>5
<1>8. S = {}
  <2> SUFFICES ASSUME S # {} PROVE FALSE
    OBVIOUS
  <2>1. PICK k \in S : \A j \in S : rank[k] < rank[j] \/ (rank[k] = rank[j] /\ k <= j)
    <3> HIDE DEF S, n
    <3> QED
      BY <1>1, <1>6, <1>7, LeftmostLowest
  <2>2. k \in Best
    BY <2>1 DEF Best
  <2> QED
    BY <2>2
<1> QED
  BY <1>3, <1>8

\* The symbols after a merge.
LEMMA MergedIs ==
  ASSUME cur \in Seq(Token), NEW k \in 1..(Len(cur) - 1)
  PROVE  /\ MergedAt(k) \in Seq(Token) /\ Len(MergedAt(k)) = Len(cur) - 1
         /\ MergedAt(k) = SubSeq(cur, 1, k - 1) \o <<cur[k] \o cur[k + 1]>> \o SubSeq(cur, k + 2, Len(cur))
         /\ FlattenSeq(MergedAt(k)) = FlattenSeq(cur)
<1>1. PICK n \in Nat : n = Len(cur)
  BY LenProperties
<1>2. \A j \in 1..n : cur[j] \in Token
  BY <1>1, ElementOfSeq
<1> DEFINE a == cur[k] \o cur[k + 1]
           t == MergedAt(k)
<1>3. n - 1 \in Nat /\ k \in 1..(n - 1) /\ k \in 1..n /\ k + 1 \in 1..n
  BY <1>1
<1>4. a \in Token
  BY <1>2, <1>3, ConcatProperties DEF Token
<1>5. t = [j \in 1..(n - 1) |-> IF j < k THEN cur[j] ELSE IF j = k THEN a ELSE cur[j + 1]]
  BY <1>1 DEF MergedAt
<1> HIDE DEF a, t
<1>6. \A j \in 1..(n - 1) : j \in 1..n /\ j + 1 \in 1..n
  BY <1>1
<1>7. t \in [1..(n - 1) -> Token]
  BY <1>2, <1>4, <1>5, <1>6
<1>8. t \in Seq(Token)
  BY <1>3, <1>7, SeqDef
<1>9. Len(t) = n - 1
  BY <1>3, <1>5
<1>10. t = SubSeq(cur, 1, k - 1) \o <<a>> \o SubSeq(cur, k + 2, n)
  <2> DEFINE x == SubSeq(cur, 1, k - 1)
             y == SubSeq(cur, k + 2, n)
             u == x \o <<a>> \o y
  <2>1. x \in Seq(Token) /\ Len(x) = k - 1 /\ \A j \in 1..(k - 1) : x[j] = cur[j]
    <3>1. \A j \in 1..(k - 1) : cur[j] \in Token
      BY <1>2, <1>3
    <3>2. 1 \in Int /\ k - 1 \in Int
      BY <1>3
    <3>3. x \in Seq(Token)
      BY <3>1, <3>2, SubSeqProperties
    <3>4. Len(x) = k - 1 /\ \A j \in 1..(k - 1) : x[j] = cur[j]
      BY <1>3
    <3> QED
      BY <3>3, <3>4
  <2>2. y \in Seq(Token) /\ Len(y) = n - k - 1 /\ \A j \in 1..(n - k - 1) : y[j] = cur[k + 1 + j]
    <3>1. \A j \in (k + 2)..n : cur[j] \in Token
      BY <1>2, <1>3
    <3>2. k + 2 \in Int /\ n \in Int
      BY <1>3
    <3>3. y \in Seq(Token)
      BY <3>1, <3>2, SubSeqProperties
    <3>4. Len(y) = n - k - 1 /\ \A j \in 1..(n - k - 1) : y[j] = cur[k + 1 + j]
      BY <1>3
    <3> QED
      BY <3>3, <3>4
  <2>3. <<a>> \in Seq(Token) /\ Len(<<a>>) = 1 /\ <<a>>[1] = a
    BY <1>4
  <2> HIDE DEF x, y
  <2>4. u \in Seq(Token) /\ Len(u) = n - 1
    <3>1. x \o <<a>> \in Seq(Token) /\ Len(x \o <<a>>) = k
      BY <1>3, <2>1, <2>3, ConcatProperties
    <3>2. (x \o <<a>>) \o y \in Seq(Token) /\ Len((x \o <<a>>) \o y) = k + (n - k - 1)
      <4>1. PICK z \in Seq(Token) : z = x \o <<a>> /\ Len(z) = k
        BY <3>1
      <4>2. z \o y \in Seq(Token) /\ Len(z \o y) = Len(z) + Len(y)
        BY ONLY z \in Seq(Token), <2>2, ConcatProperties
      <4> QED
        BY <2>2, <4>1, <4>2
    <3> QED
      BY <1>3, <3>2
  <2>5. ASSUME NEW j \in 1..(n - 1) PROVE u[j] = t[j]
    <3>0. j < k \/ j = k \/ j > k
      BY <1>3
    <3>1. CASE j < k
      BY <1>3, <1>5, <2>1, <2>2, <2>3, <3>1
    <3>2. CASE j = k
      BY <1>3, <1>5, <2>1, <2>2, <2>3, <3>2
    <3>3. CASE j > k
      <4>1. j - k \in 1..(n - k - 1) /\ k + 1 + (j - k) = j + 1
        BY <1>3, <3>3
      <4>2. u[j] = y[j - k]
        BY <1>3, <2>1, <2>2, <2>3, <3>3
      <4> QED
        <5>1. t[j] = cur[j + 1] /\ y[j - k] = cur[k + 1 + (j - k)]
          BY <1>3, <1>5, <2>2, <3>3, <4>1
        <5> QED
          BY <4>1, <4>2, <5>1
    <3> QED
      BY <3>0, <3>1, <3>2, <3>3
  <2> HIDE DEF u
  <2>6. u = t
    BY <1>3, <1>8, <1>9, <2>4, <2>5, SeqEqual
  <2> QED
    BY <2>6 DEF u, x, y
<1>11. FlattenSeq(t) = FlattenSeq(cur)
  <2>1. PICK g : Decodes(cur, g)
    BY DecodingExists
  <2>2. /\ g \in [0..n -> Token] /\ g[0] = <<>>
        /\ \A j \in 1..n : g[j] = g[j - 1] \o cur[j]
    BY <1>1, <2>1 DEF Decodes
  <2> DEFINE h == [j \in 0..(n - 1) |-> IF j < k THEN g[j] ELSE g[j + 1]]
  <2>3. \A j \in 0..(n - 1) : h[j] = (IF j < k THEN g[j] ELSE g[j + 1]) /\ h[j] \in Token
    BY <1>3, <2>2
  <2>4. h \in [0..(n - 1) -> Token] /\ h[0] = <<>>
    BY <1>3, <2>2, <2>3
  <2> HIDE DEF h
  <2>5. ASSUME NEW j \in 1..(n - 1) PROVE h[j] = h[j - 1] \o t[j]
    <3>0. /\ j \in 0..(n - 1) /\ j - 1 \in 0..(n - 1) /\ j \in 1..n /\ j + 1 \in 1..n
          /\ (j < k \/ j = k \/ j > k)
      BY <1>3
    <3>1. CASE j < k
      <4>1. h[j] = g[j] /\ h[j - 1] = g[j - 1] /\ t[j] = cur[j]
        BY <1>3, <1>5, <2>3, <3>0, <3>1
      <4> QED
        BY <2>2, <3>0, <4>1
    <3>2. CASE j = k
      <4>1. h[j] = g[k + 1] /\ h[j - 1] = g[k - 1] /\ t[j] = a
        BY <1>3, <1>5, <2>3, <3>0, <3>2
      <4>2. g[k + 1] = g[k] \o cur[k + 1] /\ g[k] = g[k - 1] \o cur[k]
        <5>1. (k + 1) - 1 = k /\ k \in 1..n /\ k + 1 \in 1..n
          BY <1>3
        <5>2. g[k + 1] = g[(k + 1) - 1] \o cur[k + 1]
          BY <2>2, <5>1
        <5> QED
          BY <2>2, <5>1, <5>2
      <4>3. g[k - 1] \in Token /\ cur[k] \in Token /\ cur[k + 1] \in Token
        BY <1>2, <1>3, <2>2
      <4>4. (g[k - 1] \o cur[k]) \o cur[k + 1] = g[k - 1] \o (cur[k] \o cur[k + 1])
        BY <4>3, Associative
      <4> QED
        BY <4>1, <4>2, <4>4 DEF a
    <3>3. CASE j > k
      <4>1. h[j] = g[j + 1] /\ h[j - 1] = g[(j + 1) - 1] /\ t[j] = cur[j + 1]
        <5>1. (j - 1) + 1 = (j + 1) - 1 /\ ~ (j < k) /\ ~ (j - 1 < k) /\ j # k
          BY <1>3, <3>3
        <5> QED
          BY <1>3, <1>5, <2>3, <3>0, <5>1
      <4> QED
        BY <2>2, <3>0, <4>1
    <3> QED
      BY <3>0, <3>1, <3>2, <3>3
  <2>6. Decodes(t, h)
    BY <1>9, <2>4, <2>5 DEF Decodes
  <2>7. FlattenSeq(t) = h[n - 1] /\ FlattenSeq(cur) = g[n]
    BY <1>1, <1>8, <1>9, <2>1, <2>6, FlattenIs
  <2>8. n - 1 \in 0..(n - 1) /\ ~ (n - 1 < k) /\ (n - 1) + 1 = n
    BY <1>3
  <2> QED
    BY <2>3, <2>7, <2>8
<1> QED
  BY <1>1, <1>8, <1>9, <1>10, <1>11 DEF a, t

LEMMA BestMerges ==
  ASSUME EncodeParameters, table \in Tables, cur \in Seq(Token), RanksRight,
         NEW k \in Best, k \in Mergeable(cur)
  PROVE  Pairs(cur) = MergedAt(k)
<1>1. PICK n \in Nat : n = Len(cur)
  BY LenProperties
<1> DEFINE M == Mergeable(cur)
           lowest == {x \in M : \A j \in M : RankOf(cur[x], cur[x + 1]) <= RankOf(cur[j], cur[j + 1])}
<1>2. M \subseteq 1..(n - 1)
  BY <1>1 DEF Mergeable
<1>3. \A j \in M : rank[j] = RankOf(cur[j], cur[j + 1]) /\ rank[j] # NoRank
  BY DEF RanksRight, Mergeable
<1>4. \A j \in M : rank[j] \in Int
  BY <1>3, RankType
<1>5. \A j \in M : rank[k] < rank[j] \/ (rank[k] = rank[j] /\ k <= j)
  <2>1. \A j \in M : j \in 1..(Len(cur) - 1)
    BY <1>1, <1>2
  <2> QED
    BY <1>3, <2>1 DEF Best
<1>6. lowest = {x \in M : \A j \in M : rank[x] <= rank[j]}
  BY <1>3
<1> HIDE DEF M, lowest
<1>7. k \in M
  BY DEF M
<1>8. k \in lowest
  BY <1>4, <1>5, <1>6, <1>7
<1>9. \A j \in lowest : j \in Nat /\ k <= j
  <2> TAKE j \in lowest
  <2>1. j \in M /\ rank[j] <= rank[k] /\ j \in Nat /\ k \in Nat
    BY <1>2, <1>6, <1>7
  <2> QED
    BY <1>4, <1>5, <1>7, <2>1
<1>10. Min(lowest) = k
  <2>1. lowest \subseteq Nat /\ lowest # {}
    BY <1>8, <1>9
  <2>2. Min(lowest) \in lowest /\ \A x \in lowest : Min(lowest) <= x
    BY <2>1, MinIsLeast
  <2>3. PICK m \in lowest : m = Min(lowest)
    BY <2>2
  <2>4. m <= k /\ k <= m /\ m \in Nat /\ k \in Nat
    BY <1>8, <1>9, <2>2, <2>3
  <2>5. m = k
    BY <2>4
  <2> QED
    BY <2>3, <2>5
<1>11. Pairs(cur) = SubSeq(cur, 1, k - 1) \o <<cur[k] \o cur[k + 1]>> \o SubSeq(cur, k + 2, Len(cur))
  BY <1>8, <1>10 DEF Pairs, lowest, M
<1>12. k \in 1..(Len(cur) - 1)
  BY DEF Best
<1> QED
  BY <1>11, <1>12, MergedIs

LEMMA PairsAtRest == ASSUME NEW s, Mergeable(s) = {} PROVE Pairs(s) = s
BY DEF Pairs

LEMMA SameTable ==
  ASSUME table' = table
  PROVE  /\ \A a, b : RankOf(a, b)' = RankOf(a, b)
         /\ Vocab' = Vocab
         /\ \A s : Mergeable(s)' = Mergeable(s)
BY DEF RankOf, Vocab, Mergeable

\* Merging and passing over keep the ranks right.
LEMMA MergeKeepsRanks ==
  ASSUME EncodeParameters, table \in Tables, cur \in Seq(Token), RanksRight, NEW k \in Best,
         table' = table, cur' = MergedAt(k), rank' = NewRanks(k, MergedAt(k))
  PROVE  RanksRight'
<1>1. PICK n \in Nat : n = Len(cur)
  BY LenProperties
<1> DEFINE t == MergedAt(k)
<1>2. k \in 1..(n - 1) /\ n - 1 \in Nat /\ k \in 1..(Len(cur) - 1)
  BY <1>1 DEF Best
<1>3. t \in Seq(Token) /\ Len(t) = n - 1
  BY <1>1, <1>2, MergedIs
<1>4. /\ \A j \in 1..(n - 1) : j < k => t[j] = cur[j]
      /\ \A j \in 1..(n - 1) : j > k => t[j] = cur[j + 1]
  BY <1>1, <1>2 DEF MergedAt
<1> HIDE DEF t
<1>5. DOMAIN t = 1..(n - 1)
  BY <1>3
<1>6. \A j \in 1..(n - 1) : rank'[j] = IF j \in {k - 1, k} /\ j < n - 1 THEN RankOf(t[j], t[j + 1])
                                      ELSE IF j < k THEN rank[j] ELSE rank[j + 1]
  BY <1>3, <1>5 DEF NewRanks, t
<1>7. rank' \in [1..(n - 1) -> Int]
  <2>1. \A j \in 1..n : rank[j] \in Int
    BY <1>1 DEF RanksRight
  <2>2. rank' = [j \in 1..(n - 1) |-> IF j \in {k - 1, k} /\ j < n - 1 THEN RankOf(t[j], t[j + 1])
                                      ELSE IF j < k THEN rank[j] ELSE rank[j + 1]]
    BY <1>3, <1>5 DEF NewRanks, t
  <2>3. ASSUME NEW j \in 1..(n - 1)
        PROVE (IF j \in {k - 1, k} /\ j < n - 1 THEN RankOf(t[j], t[j + 1])
                                      ELSE IF j < k THEN rank[j] ELSE rank[j + 1]) \in Int
    <3>1. RankOf(t[j], t[j + 1]) \in Int
      BY RankType
    <3>2. j \in 1..n /\ j + 1 \in 1..n
      BY <1>1
    <3> QED
      BY <2>1, <3>1, <3>2
  <2> QED
    BY <2>2, <2>3
<1>8. ASSUME NEW j \in 1..((n - 1) - 1)
      PROVE  \/ rank'[j] = RankOf(t[j], t[j + 1])
             \/ rank'[j] = NoRank /\ j \notin Mergeable(t)
  <2>0. j \in 1..(n - 1) /\ j < n - 1 /\ j + 1 \in 1..(n - 1)
    BY <1>1
  <2>1. CASE j \in {k - 1, k}
    BY <1>6, <2>0, <2>1
  <2>2. CASE j < k - 1
    <3>1. rank'[j] = rank[j] /\ t[j] = cur[j] /\ t[j + 1] = cur[j + 1] /\ j \in 1..(Len(cur) - 1)
      BY <1>1, <1>2, <1>4, <1>6, <2>0, <2>2
    <3>2. \/ rank[j] = RankOf(cur[j], cur[j + 1])
          \/ rank[j] = NoRank /\ j \notin Mergeable(cur)
      BY <3>1 DEF RanksRight
    <3> QED
      BY <3>1, <3>2 DEF Mergeable
  <2>3. CASE j > k
    <3>1. /\ rank'[j] = rank[j + 1] /\ t[j] = cur[j + 1] /\ t[j + 1] = cur[(j + 1) + 1]
          /\ j + 1 \in 1..(Len(cur) - 1)
      BY <1>1, <1>2, <1>4, <1>6, <2>0, <2>3
    <3>2. \/ rank[j + 1] = RankOf(cur[j + 1], cur[(j + 1) + 1])
          \/ rank[j + 1] = NoRank /\ (j + 1) \notin Mergeable(cur)
      BY <3>1 DEF RanksRight
    <3> QED
      BY <3>1, <3>2 DEF Mergeable
  <2> QED
    BY <1>2, <2>1, <2>2, <2>3
<1>9. cur' = t
  BY DEF t
<1>10. \A j : RankOf(cur[j], cur[j + 1])' = RankOf(t[j], t[j + 1])
  BY <1>9 DEF RankOf, Vocab
<1>11. Mergeable(cur)' = Mergeable(t)
  BY <1>9 DEF Mergeable, RankOf, Vocab
<1>12. Len(cur') = n - 1
  BY <1>3, <1>9
<1>13. \A j \in 1..(Len(cur') - 1) :
         \/ rank'[j] = RankOf(cur[j], cur[j + 1])'
         \/ rank'[j] = NoRank /\ j \notin Mergeable(cur)'
  BY <1>8, <1>10, <1>11, <1>12
<1>14. rank' \in [1..Len(cur') -> Int]
  BY <1>7, <1>12
<1> QED
  BY <1>13, <1>14 DEF RanksRight

LEMMA PassingKeepsRanks ==
  ASSUME EncodeParameters, table \in Tables, cur \in Seq(Token), RanksRight, NEW k \in Best,
         k \notin Mergeable(cur), table' = table, cur' = cur, rank' = [rank EXCEPT ![k] = NoRank]
  PROVE  RanksRight'
<1>1. PICK n \in Nat : n = Len(cur)
  BY LenProperties
<1>2. k \in 1..(n - 1)
  BY <1>1 DEF Best
<1>3. rank \in [1..n -> Int] /\ rank' \in [1..n -> Int]
  BY <1>1, <1>2 DEF RanksRight, NoRank
<1>4. \A j \in 1..(n - 1) : \/ rank'[j] = RankOf(cur[j], cur[j + 1])
                            \/ rank'[j] = NoRank /\ j \notin Mergeable(cur)
  BY <1>1, <1>2, <1>3 DEF RanksRight
<1>5. \A a, b : RankOf(a, b)' = RankOf(a, b)
  BY SameTable
<1>6. \A s : Mergeable(s)' = Mergeable(s)
  BY SameTable
<1> QED
  BY <1>1, <1>3, <1>4, <1>5, <1>6 DEF RanksRight

\* The rounds of byte-pair encoding, one merge each.
Rounds(s) == CHOOSE f : f = [n \in 0..Len(s) |-> IF n = 0 THEN Symbols(s) ELSE Pairs(f[n - 1])]

LEMMA RoundsExist ==
  ASSUME NEW s, NEW n \in Nat
  PROVE  \E f : f = [j \in 0..n |-> IF j = 0 THEN Symbols(s) ELSE Pairs(f[j - 1])]
<1> DEFINE Body(f, j) == IF j = 0 THEN Symbols(s) ELSE Pairs(f[j - 1])
           S == {m \in Nat : \E f : f = [j \in 0..m |-> Body(f, j)]}
<1>1. 0 \in S
  <2> DEFINE f == [j \in 0..0 |-> Symbols(s)]
  <2>1. f = [j \in 0..0 |-> Body(f, j)]
    OBVIOUS
  <2> QED
    BY <2>1
<1>2. ASSUME NEW m \in Nat, m \in S PROVE m + 1 \in S
  <2>1. PICK f : f = [j \in 0..m |-> Body(f, j)]
    BY <1>2
  <2> DEFINE g == [j \in 0..(m + 1) |-> IF j = m + 1 THEN Pairs(f[m]) ELSE f[j]]
  <2>2. ASSUME NEW j \in 0..(m + 1) PROVE g[j] = Body(g, j)
    <3>1. CASE j = m + 1
      <4>1. j # 0 /\ j - 1 = m /\ m \in 0..(m + 1) /\ m # m + 1
        BY <3>1
      <4>2. g[j - 1] = f[m] /\ g[j] = Pairs(f[m])
        BY <3>1, <4>1
      <4> QED
        BY <4>1, <4>2
    <3>2. CASE j # m + 1 /\ j # 0
      <4>1. j \in 0..m /\ j - 1 \in 0..(m + 1) /\ j - 1 # m + 1
        BY <3>2
      <4>2. g[j] = f[j] /\ g[j - 1] = f[j - 1]
        BY <3>2, <4>1
      <4>3. f[j] = Body(f, j)
        BY <2>1, <4>1
      <4> QED
        BY <3>2, <4>2, <4>3
    <3>3. CASE j = 0
      <4>1. g[0] = f[0] /\ 0 \in 0..m
        BY <3>3
      <4>2. f[0] = Body(f, 0)
        BY <2>1, <4>1
      <4> QED
        BY <3>3, <4>1, <4>2
    <3> QED
      BY <3>1, <3>2, <3>3
  <2> HIDE DEF Body
  <2>3. g = [j \in 0..(m + 1) |-> Body(g, j)]
    BY <2>2
  <2> HIDE DEF g
  <2>4. \E h : h = [j \in 0..(m + 1) |-> Body(h, j)]
    BY <2>3
  <2> QED
    BY <2>4
<1> HIDE DEF S
<1>3. n \in S
  BY <1>1, <1>2, Induction
<1> QED
  BY <1>3 DEF S

LEMMA RoundsAre ==
  ASSUME NEW s, Len(s) \in Nat
  PROVE  /\ Bpe(s) = Rounds(s)[Len(s)]
         /\ Rounds(s)[0] = Symbols(s)
         /\ \A n \in 1..Len(s) : Rounds(s)[n] = Pairs(Rounds(s)[n - 1])
<1> DEFINE f == Rounds(s)
<1>1. f = [n \in 0..Len(s) |-> IF n = 0 THEN Symbols(s) ELSE Pairs(f[n - 1])]
  BY RoundsExist DEF Rounds
<1>2. Bpe(s) = f[Len(s)]
  BY DEF Bpe, Rounds
<1> HIDE DEF f
<1>3. f[0] = Symbols(s)
  BY <1>1
<1>4. \A n \in 1..Len(s) : f[n] = Pairs(f[n - 1])
  BY <1>1
<1> QED
  BY <1>2, <1>3, <1>4 DEF f

\* When nothing merges any more, the encoding is found.
LEMMA RestIsBpe ==
  ASSUME NEW s, Len(s) \in Nat, NEW n \in 0..Len(s), Mergeable(Rounds(s)[n]) = {}
  PROVE  Bpe(s) = Rounds(s)[n]
<1> DEFINE f == Rounds(s)
           S == {m \in Nat : n <= m /\ m <= Len(s) => f[m] = f[n]}
<1>1. \A m \in 1..Len(s) : f[m] = Pairs(f[m - 1])
  BY RoundsAre
<1>2. Pairs(f[n]) = f[n]
  BY PairsAtRest
<1> HIDE DEF f
<1>3. 0 \in S
  OBVIOUS
<1>4. ASSUME NEW m \in Nat, m \in S PROVE m + 1 \in S
  <2> SUFFICES ASSUME n <= m + 1, m + 1 <= Len(s) PROVE f[m + 1] = f[n]
    OBVIOUS
  <2>1. m + 1 \in 1..Len(s) /\ (m + 1) - 1 = m
    OBVIOUS
  <2>2. f[m + 1] = Pairs(f[m])
    BY <1>1, <2>1
  <2>3. CASE n = m + 1
    BY <2>3
  <2>4. CASE n # m + 1
    <3>1. n <= m /\ m <= Len(s)
      BY <2>4
    <3> QED
      BY <1>2, <1>4, <2>2, <3>1
  <2> QED
    BY <2>3, <2>4
<1>5. Len(s) \in S
  <2> HIDE DEF S
  <2> QED
    BY <1>3, <1>4, Induction
<1>6. f[Len(s)] = f[n]
  BY <1>5
<1> QED
  BY <1>6, RoundsAre DEF f

LEMMA PairsType ==
  ASSUME NEW s \in Seq(Token)
  PROVE  Pairs(s) \in Seq(Token)
<1> DEFINE n == Len(s)
           lowest == {k \in Mergeable(s) : \A j \in Mergeable(s) :
                        RankOf(s[k], s[k + 1]) <= RankOf(s[j], s[j + 1])}
           k == Min(lowest)
<1>1. n \in Nat /\ \A j \in 1..n : s[j] \in Token
  BY LenProperties, ElementOfSeq
<1>2. lowest \subseteq 1..(n - 1)
  BY DEF Mergeable
<1>3. Pairs(s) = IF lowest = {} THEN s
                 ELSE SubSeq(s, 1, k - 1) \o <<s[k] \o s[k + 1]>> \o SubSeq(s, k + 2, n)
  BY DEF Pairs
<1> HIDE DEF lowest, n
<1>4. CASE lowest # {}
  <2>1. lowest \subseteq Nat
    BY <1>1, <1>2
  <2>2. k \in lowest
    BY <1>4, <2>1, MinIsLeast
  <2> HIDE DEF k
  <2>3. k \in 1..(n - 1)
    BY <1>2, <2>2
  <2>4. k \in 1..n /\ k + 1 \in 1..n /\ 1 \in Int /\ k - 1 \in Int /\ k + 2 \in Int /\ n \in Int
    BY <1>1, <2>3
  <2>5. /\ \A j \in 1..(k - 1) : s[j] \in Token
        /\ \A j \in (k + 2)..n : s[j] \in Token
    BY <1>1, <2>3
  <2>6. SubSeq(s, 1, k - 1) \in Seq(Token) /\ SubSeq(s, k + 2, n) \in Seq(Token)
    BY <2>4, <2>5, SubSeqProperties
  <2>7. s[k] \o s[k + 1] \in Token
    BY <1>1, <2>4, ConcatProperties DEF Token
  <2>8. <<s[k] \o s[k + 1]>> \in Seq(Token)
    BY <2>7
  <2>9. SubSeq(s, 1, k - 1) \o <<s[k] \o s[k + 1]>> \o SubSeq(s, k + 2, n) \in Seq(Token)
    BY <2>6, <2>8, ConcatProperties
  <2> QED
    BY <1>3, <1>4, <2>9
<1> QED
  BY <1>3, <1>4

LEMMA BpeType == ASSUME NEW s \in Token PROVE Bpe(s) \in Seq(Token)
<1> DEFINE f == Rounds(s)
           S == {m \in Nat : m <= Len(s) => f[m] \in Seq(Token)}
<1>1. Len(s) \in Nat
  BY LenProperties DEF Token
<1>2. f[0] \in Seq(Token) /\ \A m \in 1..Len(s) : f[m] = Pairs(f[m - 1])
  BY <1>1, RoundsAre, SymbolsSpell
<1> HIDE DEF f
<1>3. 0 \in S
  BY <1>2
<1>4. ASSUME NEW m \in Nat, m \in S PROVE m + 1 \in S
  <2> SUFFICES ASSUME m + 1 <= Len(s) PROVE f[m + 1] \in Seq(Token)
    OBVIOUS
  <2>1. m + 1 \in 1..Len(s) /\ (m + 1) - 1 = m /\ m <= Len(s)
    BY <1>1
  <2> QED
    BY <1>2, <1>4, <2>1, PairsType
<1>5. Len(s) \in S
  <2> HIDE DEF S
  <2> QED
    BY <1>1, <1>3, <1>4, Induction
<1>6. f[Len(s)] \in Seq(Token)
  BY <1>1, <1>5
<1> QED
  BY <1>1, <1>6, RoundsAre DEF f

-----------------------------------------------------------------------------
(* The reference, piece by piece *)

\* The longest added token at a place is one, and fits the text.
LEMMA AddedIs ==
  ASSUME EncodeParameters, input \in Token, NEW p \in Nat \ {0}, NEW a \in AddedAt(p)
  PROVE  /\ a \in Token /\ Len(a) \in Nat \ {0} /\ p + Len(a) <= Len(input) + 1
         /\ SubSeq(input, p, p + Len(a) - 1) = a
         /\ AddedAt(p) = {a}
<1> DEFINE here == {b \in Added : p + Len(b) - 1 <= Len(input) /\ SubSeq(input, p, p + Len(b) - 1) = b}
<1>1. AddedAt(p) = {b \in here : \A c \in here : Len(c) <= Len(b)}
  BY DEF AddedAt
<1>2. \A b \in here : b \in Token /\ Len(b) \in Nat
  <2> TAKE b \in here
  <2>1. b \in Seq(Characters)
    BY DEF EncodeParameters
  <2> QED
    BY <2>1, LenProperties DEF Token
<1>3. ASSUME NEW b \in AddedAt(p) PROVE b = a
  <2>1. Len(a) <= Len(b) /\ Len(b) <= Len(a) /\ a \in here /\ b \in here
    BY <1>1
  <2>2. Len(a) = Len(b)
    <3> HIDE DEF here
    <3>1. PICK x \in Nat, y \in Nat : x = Len(a) /\ y = Len(b)
      BY <1>2, <2>1
    <3>2. x <= y /\ y <= x
      BY <2>1, <3>1
    <3>3. x = y
      BY <3>2
    <3> QED
      BY <3>1, <3>3
  <2>3. SubSeq(input, p, p + Len(a) - 1) = a /\ SubSeq(input, p, p + Len(b) - 1) = b
    BY <2>1
  <2> QED
    BY <2>2, <2>3
<1>4. a \in here
  BY <1>1
<1>5. Len(a) # 0
  <2>1. a # <<>> /\ a \in Seq(Characters)
    BY <1>4 DEF EncodeParameters
  <2> QED
    BY <2>1
<1>6. Len(input) \in Nat
  BY LenProperties DEF Token
<1>7. p + Len(a) - 1 <= Len(input) /\ SubSeq(input, p, p + Len(a) - 1) = a /\ a \in Token /\ Len(a) \in Nat
  BY <1>2, <1>4
<1>8. p + Len(a) <= Len(input) + 1
  BY <1>6, <1>7
<1>9. AddedAt(p) = {a}
  BY <1>3
<1> QED
  BY <1>5, <1>7, <1>8, <1>9

\* The next added token begins at l, or there is none up to the end l.
Clear(p, l) == /\ \A q \in p..(l - 1) : AddedAt(q) = {}
               /\ l <= Len(input) => AddedAt(l) # {}

LEMMA LimitIs ==
  ASSUME input \in Token, NEW p \in 1..(Len(input) + 1)
  PROVE  /\ Limit(p) \in p..(Len(input) + 1)
         /\ Clear(p, Limit(p))
         /\ \A l \in p..(Len(input) + 1) : Clear(p, l) => l = Limit(p)
<1>1. PICK n \in Nat : n = Len(input)
  BY LenProperties DEF Token
<1> DEFINE T == {n + 1} \cup {q \in p..n : AddedAt(q) # {}}
<1>2. T \subseteq Nat /\ T # {} /\ T \subseteq p..(n + 1)
  BY <1>1
<1>3. Limit(p) = Min(T)
  BY <1>1 DEF Limit
<1>4. PICK m \in T : m = Limit(p) /\ \A x \in T : m <= x
  <2> HIDE DEF T
  <2> QED
    BY <1>2, <1>3, MinIsLeast
<1>5. m \in p..(n + 1)
  BY <1>2, <1>4
<1>6. \A q \in p..(m - 1) : AddedAt(q) = {}
  BY <1>4, <1>5
<1>7. m <= n => AddedAt(m) # {}
  BY <1>1, <1>4
<1>8. ASSUME NEW l \in p..(n + 1), Clear(p, l) PROVE l = m
  <2>1. l \in T
    BY <1>1, <1>8 DEF Clear
  <2>2. ~ (m < l)
    <3> SUFFICES ASSUME m < l PROVE FALSE
      OBVIOUS
    <3>1. m \in p..(l - 1) /\ m <= n
      BY <1>1, <1>5, <1>8
    <3> QED
      BY <1>7, <1>8, <3>1 DEF Clear
  <2> QED
    BY <1>4, <1>5, <2>1, <2>2
<1> QED
  BY <1>1, <1>4, <1>5, <1>6, <1>7, <1>8 DEF Clear

LEMMA PieceIs ==
  ASSUME EncodeParameters, input \in Token, NEW p \in 1..Len(input)
  PROVE  /\ Piece(p) \in Seq(Token)
         /\ PieceEnd(p) \in (p + 1)..(Len(input) + 1)
<1>1. PICK n \in Nat : n = Len(input)
  BY LenProperties DEF Token
<1>2. \A q \in 1..n : input[q] \in Characters
  BY <1>1, ElementOfSeq DEF Token
<1>3. CASE AddedAt(p) # {}
  <2>1. PICK a \in AddedAt(p) : a = CHOOSE b \in AddedAt(p) : TRUE
    BY <1>3
  <2>2. a \in Token /\ Len(a) \in Nat \ {0} /\ p + Len(a) <= Len(input) + 1
    BY AddedIs
  <2>3. Piece(p) = <<a>> /\ PieceEnd(p) = p + Len(a)
    BY <1>3, <2>1 DEF Piece, PieceEnd
  <2>4. <<a>> \in Seq(Token)
    BY <2>2
  <2> QED
    BY <1>1, <2>2, <2>3, <2>4
<1>4. CASE AddedAt(p) = {}
  <2>1. PICK l \in p..(n + 1) : l = Limit(p) /\ Clear(p, l)
    BY <1>1, LimitIs
  <2>2. p # l
    BY <1>1, <1>4, <2>1 DEF Clear
  <2>3. p \in Nat \ {0} /\ l \in Nat /\ p < l /\ input[p] \in Characters
    BY <1>1, <1>2, <2>1, <2>2
  <2>4. RegexEnd(p, l) \in (p + 1)..l
    BY <2>3, PretokenIsRegex
  <2>5. PICK e \in (p + 1)..l : e = RegexEnd(p, l)
    BY <2>4
  <2>6. Piece(p) = Bpe(SubSeq(input, p, e - 1)) /\ PieceEnd(p) = e
    BY <1>4, <2>1, <2>5 DEF Piece, PieceEnd
  <2>7. p \in Int /\ e - 1 \in Int /\ \A q \in p..(e - 1) : input[q] \in Characters
    BY <1>1, <1>2, <2>1, <2>5
  <2>8. SubSeq(input, p, e - 1) \in Token
    BY <2>7, SubSeqProperties DEF Token
  <2>9. Bpe(SubSeq(input, p, e - 1)) \in Seq(Token)
    BY <2>8, BpeType
  <2> QED
    BY <1>1, <2>1, <2>5, <2>6, <2>9
<1> QED
  BY <1>3, <1>4

\* The tokens of the text from each place on.
From(f, p) == IF p > Len(input) THEN <<>> ELSE Piece(p) \o f[PieceEnd(p)]
Enc == CHOOSE f : f = [p \in 1..(Len(input) + 1) |-> From(f, p)]

LEMMA EncExists ==
  ASSUME EncodeParameters, input \in Token
  PROVE  \E f : f = [p \in 1..(Len(input) + 1) |-> From(f, p)]
<1>1. PICK n \in Nat : n = Len(input)
  BY LenProperties DEF Token
<1> DEFINE Done(f, m) == \A p \in 1..(n + 1) : p >= m => f[p] = From(f, p)
           P == 1..(n + 1)
           S == {k \in Nat : k <= n => \E f : f = [p \in P |-> f[p]] /\ Done(f, n + 1 - k)}
<1>2. 0 \in S
  <2> DEFINE f == [p \in P |-> <<>>]
  <2>1. f = [p \in P |-> f[p]]
    OBVIOUS
  <2>2. Done(f, n + 1 - 0)
    BY <1>1 DEF From
  <2> HIDE DEF f, Done
  <2> QED
    BY <2>1, <2>2
<1>3. ASSUME NEW k \in Nat, k \in S PROVE k + 1 \in S
  <2> HIDE DEF Done, P
  <2> SUFFICES ASSUME k + 1 <= n PROVE \E f : f = [p \in P |-> f[p]] /\ Done(f, n + 1 - (k + 1))
    OBVIOUS
  <2>1. k <= n
    BY <1>1
  <2>2. PICK f : f = [p \in P |-> f[p]] /\ Done(f, n + 1 - k)
    BY <1>3, <2>1
  <2>3. PICK m \in 1..n : m = n - k
    BY <1>1
  <2> DEFINE g == [p \in P |-> IF p = m THEN From(f, m) ELSE f[p]]
  <2>4. g = [p \in P |-> g[p]]
    OBVIOUS
  <2>5. \A p \in P : g[p] = IF p = m THEN From(f, m) ELSE f[p]
    OBVIOUS
  <2> HIDE DEF g
  <2>6. ASSUME NEW p \in 1..(n + 1), p >= m PROVE From(g, p) = From(f, p)
    <3>1. CASE p > n
      BY <1>1, <3>1 DEF From
    <3>2. CASE p <= n
      <4>1. PICK e \in (p + 1)..(n + 1) : e = PieceEnd(p)
        BY <1>1, <3>2, PieceIs
      <4>2. e \in P /\ e # m
        BY <2>6, <4>1 DEF P
      <4>3. g[e] = f[e]
        BY <2>5, <4>2
      <4> QED
        BY <4>1, <4>3 DEF From
    <3> QED
      BY <3>1, <3>2
  <2>7. ASSUME NEW p \in 1..(n + 1), p >= m PROVE g[p] = From(g, p)
    <3>1. g[p] = IF p = m THEN From(f, m) ELSE f[p]
      BY <2>5 DEF P
    <3>2. CASE p = m
      BY <2>6, <2>7, <3>1, <3>2
    <3>3. CASE p # m
      <4>1. p >= n + 1 - k
        BY <2>3, <2>7, <3>3
      <4>2. f[p] = From(f, p)
        BY <2>2, <4>1 DEF Done
      <4> QED
        BY <2>6, <2>7, <3>1, <3>3, <4>2
    <3> QED
      BY <3>2, <3>3
  <2>8. Done(g, n + 1 - (k + 1))
    <3>1. n + 1 - (k + 1) = m
      BY <2>3
    <3> QED
      BY <2>7, <3>1 DEF Done
  <2> QED
    BY <2>4, <2>8
<1>4. n \in S
  <2> HIDE DEF S
  <2> QED
    BY <1>1, <1>2, <1>3, Induction
<1>5. PICK f : f = [p \in P |-> f[p]] /\ Done(f, n + 1 - n)
  <2> HIDE DEF Done, P
  <2> QED
    BY <1>1, <1>4
<1>6. \A p \in P : f[p] = From(f, p)
  BY <1>1, <1>5
<1>7. f = [p \in P |-> From(f, p)]
  <2> HIDE DEF Done
  <2> QED
    BY <1>5, <1>6
<1>8. f = [p \in 1..(Len(input) + 1) |-> From(f, p)]
  BY <1>1, <1>7
<1> QED
  BY <1>8

LEMMA EncIs ==
  ASSUME EncodeParameters, input \in Token
  PROVE  /\ Reference = Enc[1]
         /\ Enc[Len(input) + 1] = <<>>
         /\ \A p \in 1..Len(input) : Enc[p] = Piece(p) \o Enc[PieceEnd(p)]
         /\ \A p \in 1..(Len(input) + 1) : Enc[p] \in Seq(Token)
<1>1. PICK n \in Nat : n = Len(input)
  BY LenProperties DEF Token
<1>2. Enc = [p \in 1..(Len(input) + 1) |-> From(Enc, p)]
  BY EncExists DEF Enc
<1>3. \A p \in 1..(n + 1) : Enc[p] = From(Enc, p)
  BY <1>1, <1>2
<1>4. Reference = Enc[1]
  BY DEF Reference, Enc, From
<1>5. Enc[n + 1] = <<>>
  BY <1>1, <1>3 DEF From
<1>6. \A p \in 1..n : Enc[p] = Piece(p) \o Enc[PieceEnd(p)]
  <2> TAKE p \in 1..n
  <2>1. p \in 1..(n + 1) /\ ~ (p > n)
    BY <1>1
  <2>2. Enc[p] = From(Enc, p)
    BY <1>3, <2>1
  <2> QED
    BY <1>1, <2>1, <2>2 DEF From
<1> DEFINE S == {k \in Nat : \A p \in 1..(n + 1) : p >= n + 1 - k => Enc[p] \in Seq(Token)}
<1>7. 0 \in S
  <2>1. <<>> \in Seq(Token)
    OBVIOUS
  <2>2. Enc[n + 1] \in Seq(Token)
    BY <1>5, <2>1
  <2>3. \A p \in 1..(n + 1) : p >= n + 1 - 0 => p = n + 1
    BY <1>1
  <2> QED
    BY <2>2, <2>3
<1>8. ASSUME NEW k \in Nat, k \in S PROVE k + 1 \in S
  <2> SUFFICES ASSUME NEW p \in 1..(n + 1), p >= n + 1 - (k + 1) PROVE Enc[p] \in Seq(Token)
    OBVIOUS
  <2>1. CASE p = n + 1
    <3>1. <<>> \in Seq(Token)
      OBVIOUS
    <3> QED
      BY <1>5, <2>1, <3>1
  <2>2. CASE p # n + 1
    <3>1. p \in 1..n
      BY <2>2
    <3>2. Piece(p) \in Seq(Token) /\ PieceEnd(p) \in (p + 1)..(n + 1)
      BY <1>1, <3>1, PieceIs
    <3>3. PieceEnd(p) \in 1..(n + 1) /\ PieceEnd(p) >= n + 1 - k
      BY <1>1, <3>1, <3>2
    <3>4. Enc[PieceEnd(p)] \in Seq(Token)
      BY <1>8, <3>3
    <3>5. Piece(p) \o Enc[PieceEnd(p)] \in Seq(Token)
      BY <3>2, <3>4, ConcatProperties
    <3> QED
      BY <1>6, <3>1, <3>5
  <2> QED
    BY <2>1, <2>2
<1>9. n + 1 \in S
  <2> HIDE DEF S
  <2> QED
    BY <1>1, <1>7, <1>8, Induction
<1>10. \A p \in 1..(n + 1) : Enc[p] \in Seq(Token)
  BY <1>9
<1> QED
  BY <1>1, <1>4, <1>5, <1>6, <1>10

-----------------------------------------------------------------------------
(* The invariant of the encoder *)

PreToken == SubSeq(input, i, next - 1)

EncodeTypes == /\ table \in Tables /\ input \in Token
               /\ i \in 1..(Len(input) + 1) /\ lim \in 1..(Len(input) + 1)
               /\ ids \in Seq(Token) /\ cur \in Seq(Token)
               /\ encoder \in {"outer", "inner", "merge", "done", "failed"}

\* The tokens so far begin the reference and spell the text up to here.
SoFar == encoder \in {"outer", "inner", "merge"} =>
           Reference = ids \o Enc[i] /\ FlattenSeq(ids) = SubSeq(input, 1, i - 1)

BeforeLimit == encoder \in {"inner", "merge"} => i <= lim /\ Clear(i, lim)

\* The symbols are those of a pre-token after some rounds; a space of more than
\* one byte is left with none.
Merging == encoder = "merge" =>
             /\ i < lim /\ next \in i..lim /\ next \in {i, RegexEnd(i, lim)}
             /\ RanksRight
             /\ FlattenSeq(cur) = PreToken
             /\ \E n \in 0..Len(PreToken) : cur = Rounds(PreToken)[n] /\ Len(cur) + n = Len(PreToken)

EncodeInv == EncodeTypes /\ SoFar /\ BeforeLimit /\ Merging /\ EncodesAsSpecified

LEMMA SameText ==
  ASSUME table' = table, input' = input
  PROVE  /\ Reference' = Reference /\ Enc' = Enc
         /\ \A s : Rounds(s)' = Rounds(s) /\ Pairs(s)' = Pairs(s)
         /\ \A p, l : RegexEnd(p, l)' = RegexEnd(p, l)
         /\ \A p, l : Clear(p, l)' = Clear(p, l)
         /\ \A p : AddedAt(p)' = AddedAt(p)
<1>1. \A p : AddedAt(p)' = AddedAt(p)
  BY DEF AddedAt
<1>2. \A p, l : Clear(p, l)' = Clear(p, l)
  BY <1>1 DEF Clear, AddedAt
<1>3. \A p, l : RegexEnd(p, l)' = RegexEnd(p, l)
  BY DEF RegexEnd, Matches, ContractionEnds, All
<1>4. \A s : Rounds(s)' = Rounds(s) /\ Pairs(s)' = Pairs(s)
  <2>1. \A x, y : RankOf(x, y)' = RankOf(x, y)
    BY DEF RankOf, Vocab
  <2>2. \A x : Mergeable(x)' = Mergeable(x)
    BY <2>1 DEF Mergeable, Vocab
  <2>3. \A x : Pairs(x)' = Pairs(x)
    BY <2>1, <2>2 DEF Pairs
  <2>4. \A s : Rounds(s)' = Rounds(s)
    BY <2>3 DEF Rounds
  <2> QED
    BY <2>3, <2>4
<1>5. ASSUME NEW s PROVE Bpe(s)' = Bpe(s)
  BY DEF Bpe, Pairs, Mergeable, RankOf, Vocab
<1>6. \A p : Piece(p)' = Piece(p) /\ PieceEnd(p)' = PieceEnd(p)
  <2> SUFFICES ASSUME NEW p PROVE Piece(p)' = Piece(p) /\ PieceEnd(p)' = PieceEnd(p)
    OBVIOUS
  <2>1. PICK l : l = Limit(p)
    OBVIOUS
  <2>2. PICK e : e = RegexEnd(p, l)
    OBVIOUS
  <2>3. PICK s : s = SubSeq(input, p, e - 1)
    OBVIOUS
  <2>4. PICK b : b = Bpe(s)
    OBVIOUS
  <2>5. Limit(p)' = l
    BY <2>1 DEF Limit, AddedAt
  <2>6. RegexEnd(p, Limit(p))' = e /\ RegexEnd(p, Limit(p)) = e
    BY <1>3, <2>1, <2>2, <2>5
  <2>7. Bpe(s)' = b
    BY <1>5, <2>4
  <2>8. /\ Bpe(SubSeq(input, p, RegexEnd(p, Limit(p)) - 1))' = b
        /\ Bpe(SubSeq(input, p, RegexEnd(p, Limit(p)) - 1)) = b
    BY <2>3, <2>4, <2>6, <2>7
  <2>9. AddedAt(p)' = AddedAt(p)
    BY <1>1
  <2>10. Piece(p)' = Piece(p)
    BY <2>8, <2>9 DEF Piece
  <2>11. PieceEnd(p)' = PieceEnd(p)
    BY <2>6, <2>9 DEF PieceEnd
  <2> QED
    BY <2>10, <2>11
<1>7. Reference' = Reference
  BY <1>6 DEF Reference
<1>8. Enc' = Enc
  BY <1>6 DEF Enc, From
<1> QED
  BY <1>1, <1>2, <1>3, <1>4, <1>7, <1>8

LEMMA TokensAssociative == \A a, b, c \in Seq(Token) : (a \o b) \o c = a \o (b \o c)
BY ConcatAssociative

LEMMA InitEncodeInv == EncodeParameters /\ EncodeInit => EncodeInv
<1> SUFFICES ASSUME EncodeParameters, EncodeInit PROVE EncodeInv
  OBVIOUS
<1> USE DEF EncodeInit
<1>1. input \in Token /\ Len(input) \in Nat /\ Len(input) >= 1
  <2>1. PICK n \in 1..MaxInput : input \in [1..n -> Characters]
    OBVIOUS
  <2>2. n \in Nat /\ n >= 1
    BY DEF EncodeParameters
  <2>3. input \in Token
    BY <2>1, <2>2, SeqDef DEF Token
  <2>4. Len(input) = n
    BY <2>1, <2>2
  <2> QED
    BY <2>2, <2>3, <2>4
<1>2. EncodeTypes
  <2>1. <<>> \in Seq(Token)
    OBVIOUS
  <2> QED
    BY <1>1, <2>1 DEF EncodeTypes
<1>3. SoFar
  <2>1. Reference = Enc[1] /\ Enc[1] \in Seq(Token)
    BY <1>1, EncIs
  <2>2. <<>> \o Enc[1] = Enc[1]
    BY <2>1, ConcatEmptySeq
  <2>3. 1 \in Int /\ 1 - 1 \in Int /\ 1 - 1 < 1
    OBVIOUS
  <2>4. SubSeq(input, 1, 1 - 1) = <<>>
    BY <2>3, SubSeqEmpty
  <2> QED
    BY <2>1, <2>2, <2>4, FlattenNone DEF SoFar
<1> QED
  BY <1>2, <1>3 DEF EncodeInv, BeforeLimit, Merging, EncodesAsSpecified

\* A text is its front and the rest.
LEMMA TextSplits ==
  ASSUME NEW x \in Token, NEW p \in 1..(Len(x) + 1), NEW e \in p..(Len(x) + 1)
  PROVE  /\ SubSeq(x, 1, p - 1) \o SubSeq(x, p, e - 1) = SubSeq(x, 1, e - 1)
         /\ SubSeq(x, p, e - 1) \in Token
<1>1. PICK n \in Nat : n = Len(x)
  BY LenProperties DEF Token
<1>2. x \in Seq(Characters) /\ \A k \in 1..n : x[k] \in Characters
  BY <1>1, ElementOfSeq DEF Token
<1>3. SubSeq(x, p, e - 1) \in Token
  <2>1. p \in Int /\ e - 1 \in Int /\ \A q \in p..(e - 1) : x[q] \in Characters
    BY <1>1, <1>2
  <2> QED
    BY <2>1, SubSeqProperties DEF Token
<1>4. 1 \in 1..(Len(x) + 1) /\ p - 1 \in (1 - 1)..Len(x) /\ e - 1 \in (p - 1)..Len(x) /\ (p - 1) + 1 = p
  BY <1>1
<1>5. SubSeq(x, 1, p - 1) \o SubSeq(x, (p - 1) + 1, e - 1) = SubSeq(x, 1, e - 1)
  BY <1>2, <1>4, ConcatAdjacentSubSeq
<1> QED
  BY <1>3, <1>4, <1>5

LEMMA AddedTokenKeeps == ASSUME EncodeParameters, EncodeInv, AddedToken PROVE EncodeInv'
<1> USE DEF AddedToken
<1>1. PICK n \in Nat : n = Len(input)
  BY LenProperties DEF EncodeInv, EncodeTypes, Token
<1>2. /\ table \in Tables /\ input \in Token /\ i \in 1..n /\ ids \in Seq(Token)
      /\ Reference = ids \o Enc[i] /\ FlattenSeq(ids) = SubSeq(input, 1, i - 1)
  BY <1>1 DEF EncodeInv, EncodeTypes, SoFar
<1>3. PICK a \in AddedAt(i) : a = CHOOSE b \in AddedAt(i) : TRUE
  OBVIOUS
<1>4. /\ a \in Token /\ Len(a) \in Nat \ {0} /\ i + Len(a) <= n + 1
      /\ SubSeq(input, i, i + Len(a) - 1) = a /\ AddedAt(i) = {a}
  BY <1>1, <1>2, AddedIs
<1>5. PICK e \in (i + 1)..(n + 1) : e = i + Len(a)
  BY <1>2, <1>4
<1>6. Piece(i) = <<a>> /\ PieceEnd(i) = e
  BY <1>3, <1>5 DEF Piece, PieceEnd
<1>7. Enc[i] = <<a>> \o Enc[e] /\ Enc[e] \in Seq(Token) /\ <<a>> \in Seq(Token)
  <2>1. e \in 1..(n + 1)
    BY <1>2, <1>5
  <2> QED
    <3>1. Enc[i] = Piece(i) \o Enc[PieceEnd(i)] /\ Enc[e] \in Seq(Token)
      BY <1>1, <1>2, <2>1, EncIs
    <3>2. <<a>> \in Seq(Token)
      BY <1>4
    <3> QED
      BY <1>6, <3>1, <3>2
<1>8. Reference = (ids \o <<a>>) \o Enc[e]
  <2>1. (ids \o <<a>>) \o Enc[e] = ids \o (<<a>> \o Enc[e])
    BY <1>2, <1>7, TokensAssociative
  <2> QED
    BY <1>2, <1>7, <2>1
<1>9. UNCHANGED <<table, input>> /\ Reference' = Reference /\ Enc' = Enc
  BY SameText
<1>10. CASE Len(ids) + 1 > table.cap
  <2>1. encoder' = "failed" /\ UNCHANGED <<i, ids, lim, cur, rank, next>>
    BY <1>10
  <2>2. Len(Reference) = Len(ids) + 1 + Len(Enc[e]) /\ Len(ids) \in Nat /\ Len(Enc[e]) \in Nat
    <3>1. ids \o <<a>> \in Seq(Token) /\ Len(ids \o <<a>>) = Len(ids) + 1
      BY <1>2, <1>7, ConcatProperties
    <3>2. Len((ids \o <<a>>) \o Enc[e]) = Len(ids \o <<a>>) + Len(Enc[e])
      BY <1>7, <3>1, ConcatProperties
    <3> QED
      BY <1>2, <1>7, <1>8, <3>1, <3>2, LenProperties
  <2>3. table.cap \in Nat
    BY <1>2 DEF EncodeParameters
  <2>4. Len(Reference) > table.cap
    <3>1. PICK c \in Nat, x \in Nat, y \in Nat : c = table.cap /\ x = Len(ids) /\ y = Len(Enc[e])
      BY <2>2, <2>3
    <3>2. x + 1 > c
      BY <1>10, <3>1
    <3>3. x + 1 + y > c
      BY <3>2
    <3> QED
      BY <2>2, <3>1, <3>3
  <2>5. EncodesAsSpecified'
    BY <1>9, <2>1, <2>4 DEF EncodesAsSpecified
  <2> QED
    BY <1>9, <2>1, <2>5 DEF EncodeInv, EncodeTypes, SoFar, BeforeLimit, Merging
<1>11. CASE ~ (Len(ids) + 1 > table.cap)
  <2>1. ids' = Append(ids, a) /\ i' = e /\ encoder' = "outer" /\ UNCHANGED <<lim, cur, rank, next>>
    BY <1>4, <1>5, <1>11
  <2>2. ids' = ids \o <<a>> /\ ids' \in Seq(Token)
    <3>1. ids \in Seq(Token) /\ a \in Token
      BY <1>2, <1>4
    <3> QED
      BY <2>1, <3>1, AppendIsConcat, AppendProperties
  <2>3. FlattenSeq(ids') = SubSeq(input, 1, e - 1)
    <3>1. FlattenSeq(ids \o <<a>>) = FlattenSeq(ids) \o FlattenSeq(<<a>>)
      BY <1>2, <1>7, FlattenConcat
    <3>2. FlattenSeq(<<a>>) = SubSeq(input, i, e - 1)
      <4>1. i + Len(a) - 1 = e - 1
        BY <1>2, <1>4, <1>5
      <4>2. SubSeq(input, i, e - 1) = a
        BY <1>4, <4>1
      <4> QED
        BY <1>4, <4>2, FlattenOne
    <3>3. i \in 1..(Len(input) + 1) /\ e \in i..(Len(input) + 1)
      BY <1>1, <1>2, <1>5
    <3>4. SubSeq(input, 1, i - 1) \o SubSeq(input, i, e - 1) = SubSeq(input, 1, e - 1)
      BY <1>2, <3>3, TextSplits
    <3> QED
      BY <1>2, <2>2, <3>1, <3>2, <3>4
  <2>4. SoFar'
    BY <1>8, <1>9, <2>1, <2>2, <2>3 DEF SoFar
  <2>5. EncodeTypes'
    <3>1. e \in 1..(Len(input) + 1)
      BY <1>1, <1>2, <1>5
    <3> QED
      BY <1>9, <2>1, <2>2, <3>1 DEF EncodeInv, EncodeTypes
  <2> QED
    BY <2>1, <2>4, <2>5 DEF EncodeInv, BeforeLimit, Merging, EncodesAsSpecified
<1> QED
  BY <1>10, <1>11

LEMMA FindLimitKeeps == ASSUME EncodeParameters, EncodeInv, FindLimit PROVE EncodeInv'
<1> USE DEF FindLimit
<1>1. PICK n \in Nat : n = Len(input)
  BY LenProperties DEF EncodeInv, EncodeTypes, Token
<1>2. input \in Token /\ i \in 1..n /\ UNCHANGED <<table, input, i, cur, rank, next, ids>>
  BY <1>1 DEF EncodeInv, EncodeTypes
<1>3. lim' = Limit(i)
  <2>1. {q \in i..n : AddedAt(q) # {}} = {q \in (i + 1)..n : AddedAt(q) # {}}
    BY <1>2
  <2> QED
    BY <1>1, <2>1 DEF Limit
<1>4. i \in 1..(Len(input) + 1)
  BY <1>1, <1>2
<1>5. PICK l \in i..(Len(input) + 1) : l = lim' /\ Clear(i, l)
  BY <1>2, <1>3, <1>4, LimitIs
<1>6. Reference' = Reference /\ Enc' = Enc /\ Clear(i, lim)'
  <2>1. \A p \in Nat : AddedAt(p)' = AddedAt(p)
    BY <1>2, SameText
  <2>2. Clear(i, lim)' = Clear(i, l)
    <3>1. i' = i /\ lim' = l /\ input' = input
      BY <1>2, <1>5
    <3>2. i \in Nat /\ l \in Nat /\ i..(l - 1) \subseteq Nat
      BY <1>1, <1>2, <1>5
    <3> QED
      BY <2>1, <3>1, <3>2 DEF Clear
  <2>3. Clear(i, lim)'
    BY <1>5, <2>2
  <2> QED
    BY <1>2, <2>3, SameText
<1>7. EncodeTypes'
  <2>1. l \in 1..(Len(input) + 1)
    BY <1>4, <1>5
  <2> QED
    BY <1>2, <1>5, <2>1 DEF EncodeInv, EncodeTypes
<1>8. SoFar'
  BY <1>2, <1>6 DEF EncodeInv, SoFar
<1>9. BeforeLimit'
  BY <1>2, <1>4, <1>5, <1>6 DEF BeforeLimit
<1> QED
  BY <1>7, <1>8, <1>9 DEF EncodeInv, Merging, EncodesAsSpecified

LEMMA PretokenKeeps == ASSUME EncodeParameters, EncodeInv, Pretoken PROVE EncodeInv'
<1> USE DEF Pretoken
<1>1. PICK n \in Nat : n = Len(input)
  BY LenProperties DEF EncodeInv, EncodeTypes, Token
<1>2. /\ table \in Tables /\ input \in Token /\ i \in 1..n /\ lim \in (i + 1)..(n + 1)
      /\ UNCHANGED <<table, input, i, lim, ids>> /\ encoder' = "merge"
  BY <1>1 DEF EncodeInv, EncodeTypes
<1>3. PICK r \in (i + 1)..lim : /\ r = RegexEnd(i, lim)
                               /\ \/ PretokenEnd(i, lim) = r
                                  \/ PretokenEnd(i, lim) \in {0, i} /\ r = i + 1
  <2>1. i \in Nat \ {0} /\ lim \in Nat /\ i < lim
    BY <1>2
  <2>2. input[i] \in Characters
    BY <1>1, <1>2, ElementOfSeq DEF Token
  <2> QED
    BY <2>1, <2>2, PretokenIsRegex
<1>4. PICK e \in i..lim : e = next' /\ e \in {i, r}
  <2>1. next' = IF PretokenEnd(i, lim) <= 1 THEN i + 1 ELSE PretokenEnd(i, lim)
    OBVIOUS
  <2>2. next' \in i..lim /\ next' \in {i, r}
    BY <1>2, <1>3, <2>1
  <2> QED
    BY <2>2
<1>5. PICK s \in Token : s = SubSeq(input, i, e - 1)
  <2>1. i \in 1..(Len(input) + 1) /\ e \in i..(Len(input) + 1)
    BY <1>1, <1>2, <1>4
  <2> QED
    BY <1>2, <2>1, TextSplits
<1>6. cur' = Symbols(s) /\ PreToken' = s
  BY <1>2, <1>4, <1>5 DEF PreToken
<1>7. cur' \in Seq(Token) /\ Len(cur') = Len(s) /\ FlattenSeq(cur') = s
  BY <1>6, SymbolsSpell
<1>8. PICK m \in Nat : m = Len(s)
  BY LenProperties DEF Token
<1>9. RanksRight'
  <2>1. DOMAIN cur' = 1..m
    BY <1>7, <1>8
  <2>2. rank' = [k \in 1..m |-> IF k < m THEN RankOf(cur'[k], cur'[k + 1]) ELSE NoRank]
    BY <1>7, <1>8, <2>1
  <2>3. \A k \in 1..m : RankOf(cur'[k], cur'[k + 1]) \in Int
    BY <1>2, RankType
  <2>4. rank' \in [1..m -> Int]
    <3>1. ASSUME NEW k \in 1..m
          PROVE  (IF k < m THEN RankOf(cur'[k], cur'[k + 1]) ELSE NoRank) \in Int
      BY <2>3 DEF NoRank
    <3> QED
      BY <2>2, <3>1
  <2>5. \A k \in 1..(m - 1) : rank'[k] = RankOf(cur'[k], cur'[k + 1])
    BY <2>2
  <2>6. \A k : RankOf(cur[k], cur[k + 1])' = RankOf(cur'[k], cur'[k + 1])
    BY <1>2 DEF RankOf, Vocab
  <2> QED
    BY <1>7, <1>8, <2>4, <2>5, <2>6 DEF RanksRight
<1>10. /\ Reference' = Reference /\ Enc' = Enc
       /\ \A x : Rounds(x)' = Rounds(x)
  BY <1>2, SameText
<1>11. RegexEnd(i, lim)' = RegexEnd(i, lim) /\ Clear(i, lim)' = Clear(i, lim)
  <2>1. RegexEnd(i, lim)' = RegexEnd(i, lim)
    BY <1>2 DEF RegexEnd, Matches, ContractionEnds, All
  <2>2. Clear(i, lim)' = Clear(i, lim)
    BY <1>2 DEF Clear, AddedAt
  <2> QED
    BY <2>1, <2>2
<1>12. Merging'
  <2>1. Rounds(s)[0] = Symbols(s)
    BY <1>8, RoundsAre
  <2>2. (\E k \in 0..Len(PreToken) : cur = Rounds(PreToken)[k] /\ Len(cur) + k = Len(PreToken))'
    <3>1. Rounds(PreToken)' = Rounds(s)
      <4>1. \A x : Pairs(x)' = Pairs(x)
        BY <1>2, SameText
      <4> QED
        BY <1>6, <4>1 DEF Rounds
    <3>2. 0 \in 0..m /\ m + 0 = m
      OBVIOUS
    <3> QED
      BY <1>6, <1>7, <1>8, <2>1, <3>1, <3>2
  <2>3. i' < lim' /\ next' \in i'..lim' /\ next' \in {i', RegexEnd(i, lim)'}
    BY <1>2, <1>3, <1>4, <1>11
  <2>4. FlattenSeq(cur') = PreToken'
    BY <1>6, <1>7
  <2> QED
    BY <1>9, <2>2, <2>3, <2>4 DEF Merging
<1>13. EncodeTypes'
  BY <1>2, <1>7 DEF EncodeInv, EncodeTypes
<1>14. SoFar'
  BY <1>2, <1>10 DEF EncodeInv, SoFar
<1>15. BeforeLimit'
  BY <1>2, <1>11 DEF EncodeInv, BeforeLimit
<1> QED
  BY <1>2, <1>12, <1>13, <1>14, <1>15 DEF EncodeInv, EncodesAsSpecified

LEMMA MergeKeeps == ASSUME EncodeParameters, EncodeInv, Merge PROVE EncodeInv'
<1> USE DEF Merge
<1>1. /\ table \in Tables /\ input \in Token /\ cur \in Seq(Token) /\ RanksRight
      /\ i < lim /\ next \in i..lim /\ next \in {i, RegexEnd(i, lim)}
      /\ FlattenSeq(cur) = PreToken
      /\ UNCHANGED <<table, input, i, lim, next, ids, encoder>> /\ encoder = "merge"
  BY DEF EncodeInv, EncodeTypes, Merging
<1>2. PICK s : s = PreToken /\ \E n \in 0..Len(s) : cur = Rounds(s)[n] /\ Len(cur) + n = Len(s)
  BY DEF EncodeInv, Merging
<1>3. PICK n \in 0..Len(s) : cur = Rounds(s)[n] /\ Len(cur) + n = Len(s)
  BY <1>2
<1>4. PICK k \in Best :
              IF RankOf(cur[k], cur[k + 1]) # NoRank /\ cur[k] \o cur[k + 1] \in Vocab
              THEN /\ cur' = MergedAt(k)
                   /\ rank' = NewRanks(k, MergedAt(k))
              ELSE /\ rank' = [rank EXCEPT ![k] = NoRank]
                   /\ UNCHANGED cur
  OBVIOUS
<1>5. k \in 1..(Len(cur) - 1)
  BY DEF Best
<1>6. k \in Mergeable(cur) <=> RankOf(cur[k], cur[k + 1]) # NoRank /\ cur[k] \o cur[k + 1] \in Vocab
  BY <1>5 DEF Mergeable
<1>7. PICK m \in Nat : m = Len(cur)
  BY <1>1, LenProperties
<1>8. PICK l \in Nat : l = Len(s)
  BY <1>3, <1>7
<1>9. /\ RanksRight' /\ cur' \in Seq(Token) /\ FlattenSeq(cur') = FlattenSeq(cur)
      /\ \E x \in 0..l : cur' = Rounds(s)[x] /\ Len(cur') + x = l
  <2>1. CASE k \in Mergeable(cur)
    <3>1. cur' = MergedAt(k) /\ rank' = NewRanks(k, MergedAt(k))
      BY <1>4, <1>6, <2>1
    <3>2. cur' \in Seq(Token) /\ FlattenSeq(cur') = FlattenSeq(cur) /\ Len(cur') = m - 1
      BY <1>1, <1>5, <1>7, <3>1, MergedIs
    <3>3. RanksRight'
      BY <1>1, <3>1, MergeKeepsRanks
    <3>4. cur' = Pairs(cur)
      BY <1>1, <2>1, <3>1, BestMerges
    <3>5. n + 1 \in 1..l /\ n + 1 \in 0..l /\ (n + 1) - 1 = n /\ (m - 1) + (n + 1) = l
      <4>1. n \in Nat /\ m \in Nat /\ m + n = l /\ 1 <= m - 1
        BY <1>3, <1>5, <1>7, <1>8
      <4> QED
        BY <4>1
    <3>6. Rounds(s)[n + 1] = Pairs(Rounds(s)[n])
      BY <1>8, <3>5, RoundsAre
    <3> QED
      BY <1>3, <3>2, <3>3, <3>4, <3>5, <3>6
  <2>2. CASE k \notin Mergeable(cur)
    <3>1. cur' = cur /\ rank' = [rank EXCEPT ![k] = NoRank]
      BY <1>4, <1>6, <2>2
    <3>2. RanksRight'
      BY <1>1, <2>2, <3>1, PassingKeepsRanks
    <3> QED
      BY <1>1, <1>3, <1>8, <3>1, <3>2
  <2> QED
    BY <2>1, <2>2
<1>10. PreToken' = s
  BY <1>1, <1>2 DEF PreToken
<1>11. Rounds(PreToken)' = Rounds(s)
  <2>1. \A x : Pairs(x)' = Pairs(x)
    BY <1>1, SameText
  <2> QED
    BY <1>10, <2>1 DEF Rounds
<1>12. RegexEnd(i, lim)' = RegexEnd(i, lim) /\ Clear(i, lim)' = Clear(i, lim)
  <2>0. input' = input /\ i' = i /\ lim' = lim
    BY <1>1
  <2>1. RegexEnd(i, lim)' = RegexEnd(i, lim)
    BY ONLY <2>0 DEF RegexEnd, Matches, ContractionEnds, All
  <2>2. Clear(i, lim)' = Clear(i, lim)
    BY ONLY <2>0 DEF Clear, AddedAt
  <2> QED
    BY <2>1, <2>2
<1>13. Reference' = Reference /\ Enc' = Enc
  BY <1>1, SameText
<1>14. Merging'
  <2>1. (\E x \in 0..Len(PreToken) : cur = Rounds(PreToken)[x] /\ Len(cur) + x = Len(PreToken))'
    BY <1>8, <1>9, <1>10, <1>11
  <2>2. i' < lim' /\ next' \in i'..lim' /\ next' \in {i', RegexEnd(i, lim)'}
    BY <1>1, <1>12
  <2> QED
    BY <1>1, <1>2, <1>9, <1>10, <2>1, <2>2 DEF Merging
<1>15. EncodeTypes'
  BY <1>1, <1>9 DEF EncodeInv, EncodeTypes
<1>16. SoFar'
  BY <1>1, <1>13 DEF EncodeInv, SoFar
<1>17. BeforeLimit'
  BY <1>1, <1>12 DEF EncodeInv, BeforeLimit
<1> QED
  BY <1>1, <1>14, <1>15, <1>16, <1>17 DEF EncodeInv, EncodesAsSpecified

LEMMA ChunkDoneKeeps == ASSUME EncodeParameters, EncodeInv, ChunkDone PROVE EncodeInv'
<1> USE DEF ChunkDone
<1>1. /\ table \in Tables /\ input \in Token /\ cur \in Seq(Token) /\ ids \in Seq(Token) /\ RanksRight
      /\ i < lim /\ next \in i..lim /\ next \in {i, RegexEnd(i, lim)}
      /\ FlattenSeq(cur) = PreToken
      /\ Reference = ids \o Enc[i] /\ FlattenSeq(ids) = SubSeq(input, 1, i - 1)
      /\ Clear(i, lim) /\ Best = {}
  BY DEF EncodeInv, EncodeTypes, SoFar, BeforeLimit, Merging
<1>2. PICK n \in Nat : n = Len(input)
  BY <1>1, LenProperties DEF Token
<1>3. i \in 1..n /\ lim \in (i + 1)..(n + 1) /\ next \in i..(n + 1)
  BY <1>1, <1>2 DEF EncodeInv, EncodeTypes
<1>4. PICK s \in Token : s = PreToken /\ SubSeq(input, 1, i - 1) \o s = SubSeq(input, 1, next - 1)
  <2>1. i \in 1..(Len(input) + 1) /\ next \in i..(Len(input) + 1)
    BY <1>2, <1>3
  <2> QED
    BY <1>1, <2>1, TextSplits DEF PreToken
<1>5. PICK l \in Nat : l = Len(s)
  BY LenProperties DEF Token
<1>6. PICK m \in 0..l : cur = Rounds(s)[m] /\ Len(cur) + m = l
  BY <1>4, <1>5 DEF EncodeInv, Merging
<1>7. cur = Bpe(s)
  <2>1. Mergeable(cur) = {}
    BY <1>1, NoBest
  <2> QED
    BY <1>5, <1>6, <2>1, RestIsBpe
<1>8. Enc[i] = cur \o Enc[next] /\ Enc[next] \in Seq(Token)
  <2>0. next \in 1..(Len(input) + 1) /\ i \in 1..Len(input)
    BY <1>2, <1>3
  <2>1. Enc[next] \in Seq(Token)
    BY <1>1, <2>0, EncIs
  <2>2. CASE next = i
    <3>1. SubSeq(input, i, next - 1) = <<>>
      <4>1. i \in Int /\ next - 1 \in Int /\ next - 1 < i
        BY <1>3, <2>2
      <4> QED
        BY <4>1, SubSeqEmpty
    <3>2. l = 0
      BY <1>4, <1>5, <3>1 DEF PreToken
    <3>3. PICK c \in Nat : c = Len(cur)
      BY <1>1, LenProperties
    <3>4. c = 0
      BY <1>6, <3>2, <3>3
    <3>5. cur = <<>>
      <4>1. cur \in Seq(Token) /\ Len(cur) = 0
        BY <1>1, <3>3, <3>4
      <4> QED
        BY ONLY <4>1
    <3> QED
      BY <2>1, <2>2, <3>5, ConcatEmptySeq
  <2>3. CASE next = RegexEnd(i, lim) /\ next # i
    <3>1. lim = Limit(i)
      <4>1. i \in 1..(Len(input) + 1) /\ lim \in i..(Len(input) + 1)
        BY <1>2, <1>3
      <4> QED
        BY <1>1, <4>1, LimitIs
    <3>2. AddedAt(i) = {}
      <4>1. i \in i..(lim - 1)
        BY <1>3
      <4> QED
        BY <1>1, <4>1 DEF Clear
    <3>3. Piece(i) = cur /\ PieceEnd(i) = next
      BY <1>4, <1>7, <2>3, <3>1, <3>2 DEF Piece, PieceEnd, PreToken
    <3>4. Enc[i] = Piece(i) \o Enc[PieceEnd(i)]
      BY <1>1, <2>0, EncIs
    <3> QED
      BY <2>1, <3>3, <3>4
  <2> QED
    BY <1>1, <2>2, <2>3
<1>9. Reference = (ids \o cur) \o Enc[next]
  <2>1. (ids \o cur) \o Enc[next] = ids \o (cur \o Enc[next])
    BY <1>1, <1>8, TokensAssociative
  <2> QED
    BY <1>1, <1>8, <2>1
<1>10. ids \o cur \in Seq(Token) /\ Len(ids \o cur) = Len(ids) + Len(cur)
  BY <1>1, ConcatProperties
<1>11. UNCHANGED <<table, input, lim, cur, rank, next>> /\ Reference' = Reference /\ Enc' = Enc
  BY SameText
<1>12. CASE Len(ids) + Len(cur) > table.cap
  <2>1. encoder' = "failed" /\ UNCHANGED <<i, ids>>
    BY <1>12
  <2>2. Len(Reference) = Len(ids \o cur) + Len(Enc[next])
    BY <1>8, <1>9, <1>10, ConcatProperties
  <2>3. PICK c \in Nat, x \in Nat, y \in Nat, z \in Nat :
           c = table.cap /\ x = Len(ids) /\ y = Len(cur) /\ z = Len(Enc[next])
    <3>1. table.cap \in Nat
      BY <1>1 DEF EncodeParameters
    <3>2. Len(ids) \in Nat /\ Len(cur) \in Nat /\ Len(Enc[next]) \in Nat
      BY <1>1, <1>8, LenProperties
    <3> QED
      BY <3>1, <3>2
  <2>4. x + y > c
    BY <1>12, <2>3
  <2>5. x + y + z > c
    BY <2>4
  <2>6. Len(Reference) > table.cap
    BY <1>10, <2>2, <2>3, <2>5
  <2>7. EncodesAsSpecified'
    BY <1>11, <2>1, <2>6 DEF EncodesAsSpecified
  <2> QED
    BY <1>11, <2>1, <2>7 DEF EncodeInv, EncodeTypes, SoFar, BeforeLimit, Merging
<1>13. CASE ~ (Len(ids) + Len(cur) > table.cap)
  <2>1. ids' = ids \o cur /\ i' = next /\ encoder' = "inner"
    BY <1>13
  <2>2. FlattenSeq(ids') = SubSeq(input, 1, next - 1)
    <3>1. FlattenSeq(ids \o cur) = FlattenSeq(ids) \o FlattenSeq(cur)
      BY <1>1, FlattenConcat
    <3> QED
      BY <1>1, <1>4, <2>1, <3>1
  <2>3. SoFar'
    BY <1>9, <1>11, <2>1, <2>2 DEF SoFar
  <2>4. EncodeTypes'
    <3>1. next \in 1..(Len(input) + 1)
      BY <1>2, <1>3
    <3> QED
      BY <1>10, <1>11, <2>1, <3>1 DEF EncodeInv, EncodeTypes
  <2>5. Clear(i, lim)'
    <3>1. Clear(next, lim)
      BY <1>1, <1>3 DEF Clear
    <3>2. i' = next /\ lim' = lim /\ input' = input
      BY <1>11, <2>1
    <3> QED
      BY ONLY <3>1, <3>2 DEF Clear, AddedAt
  <2>6. BeforeLimit'
    <3>1. next <= lim
      BY <1>1, <1>3
    <3> QED
      BY <1>11, <2>1, <2>5, <3>1 DEF BeforeLimit
  <2> QED
    BY <2>1, <2>3, <2>4, <2>6 DEF EncodeInv, Merging, EncodesAsSpecified
<1> QED
  BY <1>12, <1>13

LEMMA EncodedKeeps == ASSUME EncodeParameters, EncodeInv, Encoded PROVE EncodeInv'
<1> USE DEF Encoded
<1>1. PICK n \in Nat : n = Len(input)
  BY LenProperties DEF EncodeInv, EncodeTypes, Token
<1>2. /\ input \in Token /\ ids \in Seq(Token) /\ i \in 1..(n + 1) /\ i > n
      /\ Reference = ids \o Enc[i] /\ FlattenSeq(ids) = SubSeq(input, 1, i - 1)
  BY <1>1 DEF EncodeInv, EncodeTypes, SoFar
<1>3. i = n + 1 /\ i - 1 = n
  BY <1>2
<1>4. Reference = ids
  <2>1. Enc[i] = <<>>
    BY <1>1, <1>2, <1>3, EncIs
  <2>2. ids \o <<>> = ids
    BY <1>2, ConcatEmptySeq
  <2> QED
    BY <1>2, <2>1, <2>2
<1>5. FlattenSeq(ids) = input
  <2>1. SubSeq(input, 1, Len(input)) = input
    BY <1>2, SubSeqFull DEF Token
  <2> QED
    BY <1>1, <1>2, <1>3, <2>1
<1>6. Reference' = Reference
  BY SameText
<1>7. EncodesAsSpecified'
  BY <1>4, <1>5, <1>6 DEF EncodesAsSpecified, Decode
<1> QED
  BY <1>7 DEF EncodeInv, EncodeTypes, SoFar, BeforeLimit, Merging

LEMMA LimitReachedKeeps == ASSUME EncodeParameters, EncodeInv, LimitReached PROVE EncodeInv'
<1> USE DEF LimitReached
<1>1. Reference' = Reference /\ Enc' = Enc
  BY SameText
<1>2. SoFar'
  BY <1>1 DEF EncodeInv, SoFar
<1> QED
  BY <1>2 DEF EncodeInv, EncodeTypes, BeforeLimit, Merging, EncodesAsSpecified

LEMMA NextEncodeInv == EncodeParameters /\ EncodeInv /\ [EncodeNext]_encodeVars => EncodeInv'
<1> SUFFICES ASSUME EncodeParameters, EncodeInv, [EncodeNext]_encodeVars PROVE EncodeInv'
  OBVIOUS
<1>1. CASE UNCHANGED encodeVars
  <2>1. UNCHANGED <<table, input, i, lim, cur, rank, next, ids, encoder>>
    BY <1>1 DEF encodeVars
  <2>2. Reference' = Reference /\ Enc' = Enc
    BY <2>1, SameText
  <2>3. RanksRight' = RanksRight
    BY <2>1 DEF RanksRight, Mergeable, RankOf, Vocab
  <2>4. Clear(i, lim)' = Clear(i, lim)
    BY <2>1 DEF Clear, AddedAt
  <2>5. RegexEnd(i, lim)' = RegexEnd(i, lim)
    BY <2>1 DEF RegexEnd, Matches, ContractionEnds, All
  <2>6. PreToken' = PreToken
    BY <2>1 DEF PreToken
  <2>7. Rounds(PreToken)' = Rounds(PreToken)
    <3>1. \A x : Pairs(x)' = Pairs(x)
      BY <2>1, SameText
    <3> QED
      BY <2>6, <3>1 DEF Rounds
  <2>8. EncodeTypes' /\ SoFar' /\ BeforeLimit' /\ EncodesAsSpecified'
    BY <2>1, <2>2, <2>4 DEF EncodeInv, EncodeTypes, SoFar, BeforeLimit, EncodesAsSpecified, Decode
  <2>9. Merging'
    BY <2>1, <2>3, <2>5, <2>6, <2>7 DEF EncodeInv, Merging
  <2> QED
    BY <2>8, <2>9 DEF EncodeInv
<1> QED
  BY <1>1, AddedTokenKeeps, FindLimitKeeps, PretokenKeeps, MergeKeeps, ChunkDoneKeeps,
     LimitReachedKeeps, EncodedKeeps DEF EncodeNext

\* For any vocabulary, merges, added tokens and text: what tokenizer_encode
\* returns is what the split regex and byte-pair encoding give, and spells the
\* text, and it fails only when those tokens are too many.
THEOREM EncodingIsBpe == ASSUME EncodeParameters PROVE EncodeSpec => []EncodesAsSpecified
<1>1. EncodeInit => EncodeInv
  BY InitEncodeInv
<1>2. EncodeInv /\ [EncodeNext]_encodeVars => EncodeInv'
  BY NextEncodeInv
<1>3. EncodeInv => EncodesAsSpecified
  BY DEF EncodeInv
<1> QED
  BY <1>1, <1>2, <1>3, PTL DEF EncodeSpec

=============================================================================
