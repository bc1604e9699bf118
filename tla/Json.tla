-------------------------------- MODULE Json --------------------------------
(***************************************************************************)
(* The two JSON readers of the C runtime on the same text: json_parse of   *)
(* c/src/json.c, which builds a tree and rejects what is no JSON, and      *)
(* js_skip_value of c/src/tokenizer.c, which takes a valid value for       *)
(* granted and looks for its end.  A character is a string; "1" stands for *)
(* the digits, "u" after a backslash for uXXXX.  Blanks between values are *)
(* left out.  The recursion of jparse_value is a stack of its callers.     *)
(***************************************************************************)
EXTENDS Integers, Sequences, SequencesExt, JsonGrammar

CONSTANT InitBuf  \* bytes of a string buffer at first, 16 in the code

JsonParameters == InitBuf \in 4..16 /\ MaxText \in Nat \ {0} /\ {"\"", "\\"} \cap Plain = {}

VARIABLES
  text, ahead,  \* the characters consumed, and the one that *p is, Eof at the end
  stack,        \* containers being parsed, the innermost last
  value,        \* the value returned last, as text, and its allocations
  buf,          \* the bytes and the size of the string being read
  live,         \* allocations not freed
  errors,       \* calls of jfail: a second one would write through a null err
  at,           \* where jparse_value is
  skip,         \* js_skip_value: where it is, its depth, the characters taken
  valueEnd      \* the length of the text when the whole value had been read

jsonVars == <<text, ahead, stack, value, buf, live, errors, at, skip, valueEnd>>

Eof == "end"
Open == {"{", "["}
Close == {"}", "]"}
Chars == Open \cup Close \cup {",", ":", "\"", "\\", "1", "u"}
InString == at \in {"string", "escape"}

Nothing == [print |-> <<>>, allocs |-> 0]

-----------------------------------------------------------------------------
(* js_skip_value *)

\* Mutant of InQuotes: the quote behind a backslash ends a string.
InQuotesUnescaped(c, here, escape, outside) == IF c = "\"" THEN outside ELSE here

\* Where a character in a string leads.
InQuotes(c, here, escape, outside) ==
  IF c = "\"" THEN outside ELSE IF c = "\\" THEN escape ELSE here

\* One character; the end of the text ends a scalar and fails the rest.
SkipStep(s, c) ==
  LET to(mode, depth) == [mode |-> mode, depth |-> depth, len |-> s.len + 1]
      stop(mode) == [s EXCEPT !.mode = mode]
  IN CASE s.mode = "scalar" -> IF c \in Close \cup {",", Eof} THEN stop("done") ELSE to("scalar", 0)
       [] s.mode \in {"done", "failed"} -> s
       [] s.mode \notin {"scalar", "done", "failed"} /\ c = Eof -> stop("failed")
       [] s.mode = "start" /\ c # Eof ->
            IF c \in Open THEN to("in", 1)
            ELSE IF c = "\"" THEN to("string", 0)
            ELSE IF c \in Close \cup {","} THEN stop("done") ELSE to("scalar", 0)
       [] s.mode = "string" /\ c # Eof ->
            to(InQuotes(c, "string", "escape", "done"), 0)
       [] s.mode = "escape" /\ c # Eof -> to("string", 0)
       [] s.mode = "inner" /\ c # Eof ->
            to(InQuotes(c, "inner", "innerEscape", "in"), s.depth)
       [] s.mode = "innerEscape" /\ c # Eof -> to("inner", s.depth)
       [] s.mode = "in" /\ c # Eof ->
            IF c = "\"" THEN to("inner", s.depth)
            ELSE IF c \in Open THEN to("in", s.depth + 1)
            ELSE IF c \in Close THEN to(IF s.depth = 1 THEN "done" ELSE "in", s.depth - 1)
            ELSE to("in", s.depth)

-----------------------------------------------------------------------------
(* json_parse *)

Following(s) == IF Len(s) = MaxText THEN {Eof}
                ELSE (IF at' \in {"string", "escape"} THEN Plain \cup {"\"", "\\"} \cup Escapes
                      ELSE Chars) \cup {Eof}

\* p++; both readers see the character.
Advance == /\ text' = Append(text, ahead)
           /\ skip' = SkipStep(skip, ahead)
           /\ ahead' \in Following(text')
Stay == UNCHANGED <<text, ahead, skip>>

Top == stack[Len(stack)]
WithTop(f) == [stack EXCEPT ![Len(stack)] = f]

\* jfail, and NULL goes up to json_parse.
Fail == /\ errors' = errors + 1
        /\ at' = "unwind"
        /\ Stay
        /\ UNCHANGED <<stack, value, buf, valueEnd>>

\* A value that ends behind n characters goes to the container that wants it,
\* the innermost of callers, or to json_parse.
Return(v, n, callers) == /\ value' = v
                         /\ at' = IF callers = <<>> THEN "end" ELSE "add"
                         /\ valueEnd' = IF callers = <<>> THEN n ELSE valueEnd

\* Opening, with the check for an empty container behind it.
OpenContainer == /\ at = "value" /\ ahead \in Open
                 /\ stack' = Append(stack, [open |-> ahead, print |-> <<ahead>>, allocs |-> 1,
                                            key |-> Nothing])
                 /\ live' = live + 1
                 /\ at' = "first"
                 /\ Advance
                 /\ UNCHANGED <<value, buf, errors, valueEnd>>

Closer(open) == IF open = "{" THEN "}" ELSE "]"

\* The container is complete and returned.
CloseContainer == /\ at \in {"first", "after"} /\ ahead = Closer(Top.open)
                  /\ stack' = Front(stack)
                  /\ Return([print |-> Append(Top.print, ahead), allocs |-> Top.allocs],
                            Len(text) + 1, Front(stack))
                  /\ Advance
                  /\ UNCHANGED <<buf, live, errors>>

\* What the first element, or the one behind a comma, must be.
Wanted(f) == IF f.open = "{" THEN "key" ELSE "value"

NotEmpty == /\ at = "first" /\ ahead # Closer(Top.open)
            /\ at' = Wanted(Top)
            /\ Stay
            /\ UNCHANGED <<stack, value, buf, live, errors, valueEnd>>

Comma == /\ at = "after" /\ ahead = ","
         /\ stack' = WithTop([Top EXCEPT !.print = Append(@, ",")])
         /\ at' = Wanted(Top)
         /\ Advance
         /\ UNCHANGED <<value, buf, live, errors, valueEnd>>

NeitherCommaNorCloser == /\ at = "after" /\ ahead \notin {",", Closer(Top.open)}
                         /\ Fail
                         /\ UNCHANGED live

\* jparse_string, for a value or a key: the buffer.
OpenString == /\ at \in {"value", "key"} /\ ahead = "\""
              /\ buf' = [n |-> 0, cap |-> InitBuf, print |-> <<"\"">>, key |-> at = "key"]
              /\ live' = live + 1
              /\ at' = "string"
              /\ Advance
              /\ UNCHANGED <<stack, value, errors, valueEnd>>

\* The buffer doubles before the terminator could lack room.
Grown(k) == IF buf.n + k >= buf.cap THEN 2 * buf.cap ELSE buf.cap
Put(k) == buf' = [buf EXCEPT !.n = @ + k, !.cap = Grown(k), !.print = Append(@, ahead)]

\* A character, or the one behind a backslash: uXXXX makes up to four bytes.
StringChar == /\ \/ at = "string" /\ ahead \notin {"\"", "\\", Eof} /\ Put(1)
                 \/ at = "escape" /\ ahead \in Escapes
                    /\ \E k \in 1..4 : (ahead # "u" => k = 1) /\ Put(k)
              /\ at' = "string"
              /\ Advance
              /\ UNCHANGED <<stack, value, live, errors, valueEnd>>

Backslash == /\ at = "string" /\ ahead = "\\"
             /\ at' = "escape"
             /\ buf' = [buf EXCEPT !.print = Append(@, ahead)]
             /\ Advance
             /\ UNCHANGED <<stack, value, live, errors, valueEnd>>

\* A bad escape or the end of the text; the buffer is freed.
StringFails == /\ \/ at = "string" /\ ahead = Eof
                  \/ at = "escape" /\ ahead \notin Escapes
               /\ live' = live - 1
               /\ Fail

\* The terminator, and the node that owns the buffer.
CloseString == /\ at = "string" /\ ahead = "\""
               /\ live' = live + 1
               /\ LET s == [print |-> Append(buf.print, ahead), allocs |-> 2] IN
                    \/ buf.key /\ stack' = WithTop([Top EXCEPT !.key = s]) /\ at' = "colon"
                       /\ UNCHANGED <<value, valueEnd>>
                    \/ ~buf.key /\ Return(s, Len(text) + 1, stack) /\ UNCHANGED stack
               /\ Advance
               /\ UNCHANGED <<buf, errors>>

Colon == /\ at = "colon" /\ ahead = ":"
         /\ at' = "value"
         /\ Advance
         /\ UNCHANGED <<stack, value, buf, live, errors, valueEnd>>

\* strtod takes all digits.
Digit == /\ ahead = "1"
         /\ \/ at = "value" /\ live' = live + 1 /\ value' = [print |-> <<ahead>>, allocs |-> 1]
            \/ at = "number" /\ value' = [value EXCEPT !.print = Append(@, ahead)] /\ UNCHANGED live
         /\ at' = "number"
         /\ Advance
         /\ UNCHANGED <<stack, buf, errors, valueEnd>>

NumberEnds == /\ at = "number" /\ ahead # "1"
              /\ Stay
              /\ Return(value, Len(text), stack)
              /\ UNCHANGED <<stack, buf, live, errors>>

\* The element goes into the container; of a key only the buffer stays.
Add == /\ at = "add"
       /\ LET key == Top.key.allocs > 0
              colon == IF key THEN Append(Top.key.print, ":") ELSE <<>>
          IN /\ stack' = WithTop([Top EXCEPT !.print = @ \o colon \o value.print,
                                             !.allocs = @ + value.allocs + (IF key THEN 1 ELSE 0),
                                             !.key = Nothing])
             /\ live' = IF key THEN live - 1 ELSE live
       /\ value' = Nothing
       /\ at' = "after"
       /\ Stay
       /\ UNCHANGED <<buf, errors, valueEnd>>

\* What is no value, no key or no colon.
Unexpected == /\ \/ at = "value" /\ ahead \notin Open \cup {"\"", "1"}
                 \/ at = "key" /\ ahead # "\""
                 \/ at = "colon" /\ ahead # ":"
              /\ Fail
              /\ UNCHANGED live

\* Mutant of Unwind: the key read before the failure is forgotten.
UnwindKeepingKey == /\ at = "unwind" /\ stack # <<>>
                    /\ live' = live - Top.allocs
                    /\ stack' = Front(stack)
                    /\ Stay
                    /\ UNCHANGED <<value, buf, errors, at, valueEnd>>

\* A caller gets NULL: it frees its key, if it has one, and its container.
Unwind == /\ at = "unwind" /\ stack # <<>>
          /\ live' = live - Top.allocs - Top.key.allocs
          /\ stack' = Front(stack)
          /\ Stay
          /\ UNCHANGED <<value, buf, errors, at, valueEnd>>

Rejected == /\ at = "unwind" /\ stack = <<>>
            /\ at' = "rejected"
            /\ Stay
            /\ UNCHANGED <<stack, value, buf, live, errors, valueEnd>>

\* json_parse: the value must end the text.
Finish == /\ at = "end"
          /\ IF ahead = Eof THEN at' = "accepted" /\ UNCHANGED <<live, errors>>
             ELSE /\ at' = "rejected"
                  /\ live' = live - value.allocs
                  /\ errors' = errors + 1
          /\ Stay
          /\ UNCHANGED <<stack, value, buf, valueEnd>>

JsonInit == /\ text = <<>> /\ ahead \in Chars \cup {Eof}
            /\ stack = <<>> /\ value = Nothing
            /\ buf = [n |-> 0, cap |-> InitBuf, print |-> <<>>, key |-> FALSE]
            /\ live = 0 /\ errors = 0
            /\ at = "value"
            /\ skip = [mode |-> "start", depth |-> 0, len |-> 0]
            /\ valueEnd = 0

JsonNext == \/ OpenContainer \/ CloseContainer \/ NotEmpty \/ Comma \/ NeitherCommaNorCloser
            \/ OpenString \/ StringChar \/ Backslash \/ StringFails \/ CloseString \/ Colon
            \/ Digit \/ NumberEnds \/ Add \/ Unexpected \/ Unwind \/ Rejected \/ Finish

JsonSpec == JsonInit /\ [][JsonNext]_jsonVars

-----------------------------------------------------------------------------
(* Correctness *)

\* A rejection reports once and frees all that was allocated, an accepted tree
\* owns what is live; the terminator always fits the buffer.
FreesAndReports ==
  /\ at = "accepted" => live = value.allocs
  /\ at = "rejected" => live = 0 /\ errors = 1
  /\ InString => buf.n < buf.cap

\* A text is accepted exactly when it is in the language, and the tree is that
\* value; a rejection comes as soon as no value can begin so.
ParsesTheLanguage ==
  /\ at = "accepted" => value.print = text /\ text \in Values
  /\ at = "rejected" => IF ahead = Eof THEN text \notin Values
                        ELSE ~\E v \in Values : IsPrefix(Append(text, ahead), v)

\* json.h:40 and c/tests/test_json.c:61, "should reject": json.c accepts JSON,
\* Values of JsonGrammar, and nothing else, and frees what it rejects.
ParsesAndFrees == ParsesTheLanguage /\ FreesAndReports

\* tokenizer.c:318, "skip one json value": behind a valid value, at the end of
\* the text or before a comma or a closer, js_skip_value stands where the
\* strict parser does, whatever brackets and quotes the strings hold.
SkipsWholeValues ==
  at = "end" /\ ahead \in Close \cup {",", Eof} =>
    SkipStep(skip, ahead).mode = "done" /\ SkipStep(skip, ahead).len = valueEnd

\* json_parse returned.
Parsed == at \in {"accepted", "rejected"}
=============================================================================
