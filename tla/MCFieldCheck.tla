---------------------------- MODULE MCFieldCheck ----------------------------
(***************************************************************************)
(* Instances of FieldCheck: every struct A of two fields and B of one or   *)
(* two, over the field types below.                                        *)
(***************************************************************************)
EXTENDS FieldCheck

Plain(n, t) == [name |-> n, typ |-> t, tag |-> "name", anon |-> FALSE,
                exported |-> TRUE, omit |-> FALSE, quoted |-> FALSE]
Embed(t) == [Plain("E", t) EXCEPT !.anon = TRUE, !.tag = "none"]
Omit(f) == [f EXCEPT !.omit = TRUE]

Kinds == {<<"string">>, <<"bytes">>, <<"ptr", "custom">>, <<"slice", "B">>,
          <<"map", "ptr", "B">>, <<"ptr", "A">>, <<"B">>}

First ==
    {Plain("x", t) : t \in Kinds} \cup
    {[Plain("x", <<"int">>) EXCEPT !.tag = "none"],
     [Plain("x", <<"int">>) EXCEPT !.tag = "-"],
     Embed(<<"B">>)}

Second ==
    {Plain("y", <<"slice", "ptr", "B">>), Plain("x", <<"int">>),
     Omit(Plain("y", <<"B">>)),
     [Plain("y", <<"float">>) EXCEPT !.exported = FALSE],
     Embed(<<"ptr", "B">>)}

OfB ==
    {<<Plain("x", <<"string">>)>>, <<Plain("y", <<"slice", "A">>)>>,
     <<Plain("x", <<"ptr", "A">>), Plain("y", <<"iface">>)>>,
     <<Plain("x", <<"bool">>), Plain("x", <<"int">>)>>,
     <<Plain("x", <<"map", "bytes">>), Omit(Plain("y", <<"slice", "slice", "int">>))>>}

Tables ==
    {[A |-> s, B |-> b] : s \in {s \in First \X Second : ~(s[1].anon /\ s[2].anon)},
                          b \in OfB}

\* A fixed array, json.Number, the string option.
ExoticFields ==
    {Plain("x", <<"array", "int">>), Plain("x", <<"number">>),
     [Plain("x", <<"int">>) EXCEPT !.quoted = TRUE]}

ExoticTables == {[A |-> <<f>>, B |-> <<>>] : f \in ExoticFields}

\* A struct that embeds a pointer to itself.
LoopTables == {[A |-> <<Embed(<<"ptr", "A">>)>>, B |-> <<>>]}
=============================================================================
