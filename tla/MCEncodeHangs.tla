---------------------------- MODULE MCEncodeHangs ----------------------------
(* Instance of Tokenizer with a space of more than one byte, such as U+3000:   *)
(* one letter, one digit, no merges and no added tokens.                       *)
EXTENDS Tokenizer

NoMerges == {[cap |-> 4, vocab |-> {}, merges |-> <<>>]}
=============================================================================
