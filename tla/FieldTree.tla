----------------------------- MODULE FieldTree ------------------------------
(***************************************************************************)
(* Deriving a FieldTree from a Go struct (src/fieldtree/tree.go, types.go) *)
(* by reflection: the recursion of treeOf and collectTree, step by step,   *)
(* with its call stack.                                                    *)
(*                                                                         *)
(* A Go type is a sequence, its constructors from the outside in: ptr,     *)
(* slice, array, map, then a struct of Structs or one of the other types   *)
(* below; bytes is []byte, number is json.Number, custom a type that       *)
(* marshals and unmarshals itself.  The tree is a function from paths to   *)
(* nodes: a name steps to a member of Keys, Elem to Elem.                  *)
(***************************************************************************)
EXTENDS Integers, Sequences, FiniteSets, SequencesExt, TLC

CONSTANTS Structs,      \* names of struct types
          Roots,        \* the tables of fields: [Structs -> Seq(field)]
          Root,         \* the type handed to FieldTreeOf
          MaxDepth

ASSUME FieldTreeAssumption ==
    /\ Root \in Structs /\ MaxDepth \in Nat
    /\ \A t \in Roots : DOMAIN t = Structs

VARIABLES
    fields,        \* the fields of every struct
    depth,         \* the depth FieldTreeOf was given
    onPath, tree,
    calls          \* collectTree, and treeOf of an element type, in progress

buildVars == <<fields, depth, onPath, tree, calls>>

Elem == "*"

----------------------------------------------------------------------------
(* Reflection.                                                             *)

\* Through the pointers.
Deref(rt) == SubSeq(rt, SelectInSeq(rt, LAMBDA k : k # "ptr"), Len(rt))

\* implementsUnmarshaler, of the type or of what its pointers lead to.
implementsUnmarshaler(rt) == Head(Deref(rt)) \in {"iface", "custom"}

TypeAny == {"string", "number", "bool", "object", "array"}

jsonTypesOf(rt) ==
    LET k == Head(Deref(rt))
    IN  CASE k \in {"string", "number"} -> {"string"}
          [] k = "bool" -> {"bool"}
          [] k \in {"int", "float"} -> {"number"}
          [] k = "bytes" -> {"array", "string"}
          [] k \in {"slice", "array"} -> {"array"}
          [] k \in Structs \cup {"map"} -> {"object"}
          [] OTHER -> TypeAny

kindOf(rt) ==
    LET k == Head(rt)
    IN  CASE k = "custom" \/ rt = <<"ptr", "custom">> -> "Other"
          [] k = "ptr" -> "Pointer"
          [] k = "iface" -> "Interface"
          [] k \in {"string", "number"} -> "String"
          [] k = "bool" -> "Bool"
          [] k \in {"int", "float"} -> "Number"
          [] k \in {"slice", "bytes"} -> "Slice"
          [] k = "map" -> "Map"
          [] k \in Structs -> "Struct"
          [] OTHER -> "Other"

\* A node of the tree: what the value may be, whether it decodes itself,
\* whether Keys and Elem are there, and the marshal side.
Node(rt, omit) ==
    LET any == implementsUnmarshaler(rt)
    IN  [types |-> IF any THEN TypeAny ELSE jsonTypesOf(rt), any |-> any,
         keys |-> FALSE, elem |-> FALSE, kind |-> kindOf(rt),
         int |-> ~any /\ Head(Deref(rt)) = "int", omit |-> omit]

Shared == [types |-> TypeAny, any |-> TRUE, keys |-> FALSE, elem |-> FALSE,
           kind |-> "Other", int |-> FALSE, omit |-> FALSE]

----------------------------------------------------------------------------
(* FieldTreeOf.                                                            *)

\* Where the children of a type are, none for a scalar.
Children(b) ==
    CASE Head(b) \in Structs -> "keys"
      [] Head(b) \in {"slice", "array", "map"} -> "elem"
      [] OTHER -> "none"

\* Mutant: a type is entered again below itself.
OpensTwice(rt, d) ==
    /\ ~implementsUnmarshaler(rt) /\ d > 0
    /\ Children(Deref(rt)) # "none"

\* treeOf goes on to the children: deep enough, and no cycle.
Opens(rt, d) ==
    /\ ~implementsUnmarshaler(rt) /\ d > 0 /\ Deref(rt) \notin onPath
    /\ Children(Deref(rt)) # "none"

\* treeOf of rt at path p, called from the frames of stack.
treeOf(rt, d, p, omit, stack) ==
    LET b == Deref(rt)
        c == Children(b)
        open == Opens(rt, d)
        node == [Node(rt, omit) EXCEPT !.keys = open /\ c = "keys",
                                       !.elem = open /\ c = "elem"]
    IN  /\ tree' = (p :> node) @@ tree
        /\ onPath' = IF open THEN onPath \cup {b} ELSE onPath
        /\ calls' = IF ~open THEN stack
                    ELSE Append(stack, [fn |-> c, at |-> p, rt |-> b,
                                        depth |-> d, i |-> 1, owns |-> TRUE])

BuildInit ==
    /\ fields \in Roots
    /\ depth \in 0..MaxDepth
    /\ onPath = {} /\ calls = <<>> /\ tree = <<>>

\* FieldTreeOf of Root.
Begin ==
    /\ DOMAIN tree = {}
    /\ treeOf(<<Root>>, depth, <<>>, FALSE, <<>>)
    /\ UNCHANGED <<fields, depth>>

Built == DOMAIN tree # {} /\ calls = <<>>

call == Last(calls)
Advanced == [calls EXCEPT ![Len(calls)].i = @ + 1]

InFields == calls # <<>> /\ call.fn = "keys" /\ call.i <= Len(fields[Head(call.rt)])
field == fields[Head(call.rt)][call.i]

\* A field embedded without a name: its fields are this level's.
Flattened(f) == f.tag = "none" /\ f.anon /\ Head(Deref(f.typ)) \in Structs

Embedded ==
    /\ InFields /\ Flattened(field)
    /\ calls' = Append(Advanced, [fn |-> "keys", at |-> call.at,
                                  rt |-> Deref(field.typ), depth |-> call.depth,
                                  i |-> 1, owns |-> FALSE])
    /\ UNCHANGED <<fields, depth, onPath, tree>>

\* Mutant: fields that are not exported are kept.
PassedDash(f) == f.tag = "-"

Passed(f) == f.tag = "-" \/ (~Flattened(f) /\ ~f.exported)

PassField ==
    /\ InFields /\ Passed(field)
    /\ calls' = Advanced
    /\ UNCHANGED <<fields, depth, onPath, tree>>

Member == InFields /\ ~Flattened(field) /\ ~Passed(field)
Place == Append(call.at, field.name)
Taken == Place \in DOMAIN tree

\* A name two fields share: a node that accepts everything, no subtree.
SharedName ==
    /\ Member /\ Taken
    /\ tree' = (Place :> Shared) @@
               [q \in {q \in DOMAIN tree : ~IsStrictPrefix(Place, q)} |-> tree[q]]
    /\ calls' = Advanced
    /\ UNCHANGED <<fields, depth, onPath>>

\* Mutant: omitempty is not taken over.
NewNameKept ==
    /\ Member /\ ~Taken
    /\ treeOf(field.typ, call.depth - 1, Place, FALSE, Advanced)
    /\ UNCHANGED <<fields, depth>>

NewName ==
    /\ Member /\ ~Taken
    /\ treeOf(field.typ, call.depth - 1, Place, field.omit, Advanced)
    /\ UNCHANGED <<fields, depth>>

ElementType ==
    /\ calls # <<>> /\ call.fn = "elem" /\ call.i = 1
    /\ treeOf(Tail(call.rt), call.depth - 1, Append(call.at, Elem), FALSE,
              Advanced)
    /\ UNCHANGED <<fields, depth>>

\* collectTree or treeOf returns.
Return ==
    /\ calls # <<>>
    /\ \/ call.fn = "keys" /\ call.i > Len(fields[Head(call.rt)])
       \/ call.fn = "elem" /\ call.i = 2
    /\ onPath' = IF call.owns THEN onPath \ {call.rt} ELSE onPath
    /\ calls' = Front(calls)
    /\ UNCHANGED <<fields, depth, tree>>

Build ==
    \/ Begin \/ Embedded \/ PassField \/ SharedName \/ NewName
    \/ ElementType \/ Return

----------------------------------------------------------------------------
(* What callers read of a tree that is built.                              *)

Members(p) == {q \in DOMAIN tree : Len(q) = Len(p) + 1 /\ IsPrefix(p, q)
                                   /\ Last(q) # Elem}

\* keyTypes of the root; without Keys there is none.
RootTypes == [k \in {Last(q) : q \in Members(<<>>)} |-> tree[<<k>>].types]

\* collectFields: the plain fields in the order they are met, those of an
\* embedded struct in its place.
RECURSIVE Collected(_)
Collected(s) ==
    FoldLeft(LAMBDA acc, f : acc \o IF f.tag = "-" THEN <<>>
                                    ELSE IF Flattened(f)
                                    THEN Collected(Head(Deref(f.typ)))
                                    ELSE IF f.exported THEN <<f>> ELSE <<>>,
             <<>>, fields[s])

FieldTypesOf ==
    LET all == Collected(Root)
        Named(n) == {k \in DOMAIN all : all[k].name = n}
    IN  [n \in {all[k].name : k \in DOMAIN all} |->
            IF Cardinality(Named(n)) > 1 THEN TypeAny
            ELSE jsonTypesOf(all[CHOOSE k \in Named(n) : TRUE].typ)]

\* ZeroJSON, as the set of its leaves with their paths; {NotOk} when ok is
\* false.
NotOk == <<<<>>, "not ok">>
ZeroJSON ==
    LET zero[p \in DOMAIN tree] ==
            LET n == tree[p]
                kept == {q \in Members(p) : ~tree[q].omit}
            IN  CASE n.kind = "String" -> {<<<<>>, "empty">>}
                  [] n.kind = "Number" -> {<<<<>>, "0">>}
                  [] n.kind = "Bool" -> {<<<<>>, "false">>}
                  [] n.kind \in {"Pointer", "Slice", "Map", "Interface"} ->
                        {<<<<>>, "null">>}
                  [] n.kind = "Struct" /\ n.keys
                     /\ \A q \in kept : zero[q] # {NotOk} ->
                        {<<<<>>, "{}">>} \cup
                        UNION {{<<<<Last(q)>> \o z[1], z[2]>> : z \in zero[q]}
                               : q \in kept}
                  [] OTHER -> {NotOk}
    IN  zero
=============================================================================
