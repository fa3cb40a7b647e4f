----------------------------- MODULE MCLexical ------------------------------
(***************************************************************************)
(* Instances of Lexical.  Of the bytes that behave alike in every table    *)
(* one stands for all: a hex digit (a), the letter of \u, a control, and   *)
(* of the bytes from 80 up one on each side of every bound RFC 3629 has.   *)
(***************************************************************************)
EXTENDS Lexical

Continuations == {128, 144, 160}
Leads == {194, 224, 225, 237, 240, 244, 245}
StringBytes == {97, 117, Quote, Backslash, 31} \cup Continuations \cup Leads
SequenceTails == {97, 194} \cup Continuations
\* 0 1 . e + - n u l t r , !
LiteralBytes == {48, 49, 46, 101, 43, 45, 110, 117, 108, 116, 114, 44, 33}
=============================================================================
