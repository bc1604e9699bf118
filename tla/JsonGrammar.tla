---------------------------- MODULE JsonGrammar ----------------------------
(***************************************************************************)
(* The JSON values of up to MaxText characters, by length, against which   *)
(* Json checks the readers.  "1" stands for the digits, "u" after a        *)
(* backslash for uXXXX; there are no blanks.                               *)
(***************************************************************************)
EXTENDS Integers, Sequences

CONSTANTS
  Plain,     \* what may stand in a string, besides escapes
  MaxText    \* bound: characters

Escapes == {"\"", "\\", "u"}   \* after a backslash

\* One of A, the separator, one of B.
Joined(A, sep, B) == {a \o sep \o b : a \in A, b \in B}

\* What stands between the quotes of a string.
Bodies[n \in Nat] ==
  IF n = 0 THEN {<<>>}
  ELSE Joined({<<c>> : c \in Plain \cup {"u"}}, <<>>, Bodies[n - 1])
       \cup (IF n = 1 THEN {} ELSE Joined({<<"\\", c>> : c \in Escapes}, <<>>, Bodies[n - 2]))
Strings(n) == IF n < 2 THEN {} ELSE {<<"\"">> \o b \o <<"\"">> : b \in Bodies[n - 2]}

\* Values, members, and what stands between the brackets and the braces.
Grammar[n \in Nat] ==
  LET inside(what) == IF n < 2 THEN {} ELSE IF n = 2 THEN {<<>>} ELSE Grammar[n - 2][what]
      values == {[k \in 1..n |-> "1"]} \cup Strings(n)
                \cup {<<"[">> \o b \o <<"]">> : b \in inside("items")}
                \cup {<<"{">> \o b \o <<"}">> : b \in inside("members")}
      pairs == UNION {Joined(Strings(k), <<":">>, Grammar[n - 1 - k].values) : k \in 2..(n - 2)}
      list(single, one, what) ==
        single \cup UNION {Joined(Grammar[k][one], <<",">>, Grammar[n - 1 - k][what]) : k \in 1..(n - 2)}
  IN [values |-> values, pairs |-> pairs,
      items |-> list(values, "values", "items"),
      members |-> list(pairs, "pairs", "members")]

Values == UNION {Grammar[n].values : n \in 1..MaxText}

=============================================================================
