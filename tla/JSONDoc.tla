------------------------------ MODULE JSONDoc ------------------------------
(***************************************************************************)
(* What a reader of JSON text promises, one token at a time: the grammar   *)
(* as a pushdown automaton with an explicit stack of open containers and   *)
(* the thing it expects next.  A token is accepted when the grammar allows *)
(* it there and refused otherwise; the document is valid when the end of   *)
(* the input comes after the root value.  Nothing here knows of dispatch   *)
(* frames, regions, phase tables or chunks: ScanGrammar implements it.     *)
(*                                                                         *)
(* The root is a container, as for every document the transformer takes.   *)
(***************************************************************************)
EXTENDS Integers, Sequences

VARIABLES
    stack,    \* kinds of the open containers, innermost last
    expect,   \* what may come next
    tok,      \* the last token read
    verdict   \* "reading", "valid", "invalid", or "stopped" by the user

vars == <<stack, expect, tok, verdict>>

Opens  == {"{", "["}
Closes == {"}", "]"}
Tokens == Opens \union Closes \union {"str", "lit", ":", ",", "junk", "eof"}
Kinds  == {"obj", "arr"}
Expectations ==
    {"root", "first", "key", "colon", "value", "elem", "more", "end"}

KindOf(c) == IF c \in {"{", "}"} THEN "obj" ELSE "arr"

Top == stack[Len(stack)]

Legal(c) ==
    \/ c \in Opens /\ expect \in {"root", "value", "elem"}
    \/ c = "lit" /\ expect \in {"value", "elem"}
    \/ c = "str" /\ expect \in {"first", "key", "value", "elem"}
    \/ c = ":" /\ expect = "colon"
    \/ c = "," /\ expect = "more"
    \/ /\ c \in Closes /\ expect \in {"more", "first", "elem"}
       /\ Top = KindOf(c)
    \/ c = "eof" /\ expect = "end"

Init ==
    /\ stack = <<>> /\ expect = "root"
    /\ tok = "eof" /\ verdict = "reading"

Open(c) ==
    /\ c \in Opens
    /\ stack' = Append(stack, KindOf(c))
    /\ expect' = IF c = "{" THEN "first" ELSE "elem"
    /\ UNCHANGED verdict

Close(c) ==
    /\ c \in Closes
    /\ stack' = SubSeq(stack, 1, Len(stack) - 1)
    /\ expect' = IF Len(stack) = 1 THEN "end" ELSE "more"
    /\ UNCHANGED verdict

Key(c) ==
    /\ c = "str" /\ expect \in {"first", "key"}
    /\ expect' = "colon"
    /\ UNCHANGED <<stack, verdict>>

Simple(c) ==
    /\ c \in {"str", "lit"} /\ expect \in {"value", "elem"}
    /\ expect' = "more"
    /\ UNCHANGED <<stack, verdict>>

Colon(c) ==
    /\ c = ":"
    /\ expect' = "value"
    /\ UNCHANGED <<stack, verdict>>

Comma(c) ==
    /\ c = ","
    /\ expect' = IF Top = "obj" THEN "key" ELSE "value"
    /\ UNCHANGED <<stack, verdict>>

Complete(c) ==
    /\ c = "eof"
    /\ verdict' = "valid"
    /\ UNCHANGED <<stack, expect>>

Accept ==
    \E c \in Tokens :
        /\ Legal(c)
        /\ tok' = c
        /\ \/ Open(c) \/ Close(c) \/ Key(c) \/ Simple(c)
           \/ Colon(c) \/ Comma(c) \/ Complete(c)

Refuse ==
    \E c \in Tokens :
        /\ ~Legal(c)
        /\ tok' = c /\ verdict' = "invalid"
        /\ UNCHANGED <<stack, expect>>

\* The user of the reader gives up: no judgement of the document.
Stop ==
    /\ verdict' = "stopped"
    /\ tok' \in Tokens
    /\ UNCHANGED <<stack, expect>>

Next == verdict = "reading" /\ (Accept \/ Refuse \/ Stop)

Spec == Init /\ [][Next]_vars
=============================================================================
