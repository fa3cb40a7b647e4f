----------------------------- MODULE FieldCheck -----------------------------
(***************************************************************************)
(* The type check of a document against a FieldTree: SetFieldTree and the  *)
(* root check of valueStart (src/engine/transformer.go, region.go), the    *)
(* copy of a container and its walk by validateAgainst (validate.go).      *)
(*                                                                         *)
(* The document is chosen value by value as it is read, with what the      *)
(* unmarshal into Root makes of it beside it.  MaxNest and MaxValues       *)
(* bound it.                                                               *)
(***************************************************************************)
EXTENDS FieldTree

CONSTANTS Keys, Actions, MaxNest, MaxValues

ASSUME FieldCheckAssumption == MaxNest \in Nat /\ MaxValues \in Nat

VARIABLES
    open,          \* the containers being read
    sub,           \* valSub: where in the tree the walk is, one per container
    over,          \* valOver: the copy outgrew valCapBytes
    mismatch,      \* the walk met a wrong type
    verdict,       \* "none", "accepted", "rejected"
    values,        \* history: values read
    refused,       \* history: the unmarshal has met a value it cannot take
    owing,         \* history: ... in the container under the root being
                   \* read, where the tree has a node for it
    owed           \* history: ... in those that have ended and in the root,
                   \* by the answer each was given

readVars == <<open, sub, over, mismatch, verdict, values, refused, owing, owed>>
vars == <<buildVars, readVars>>

Scalars == {"string", "number", "bool", "null"}
Containers == {"object", "array"}

NoTree == <<"none">>       \* a nil subtree
Ignored == <<"ignored">>   \* a value the unmarshal looks at no more

----------------------------------------------------------------------------
(* Reference: json.Unmarshal.                                              *)

EmbedsOf(s) == {Head(Deref(f.typ)) : f \in {f \in ToSet(fields[s]) : Flattened(f)}}

\* The structs whose fields are those of s, n embeddings away.
Level(s) ==
    LET l[n \in 0..Cardinality(Structs)] ==
            IF n = 0 THEN {s}
            ELSE UNION {EmbedsOf(t) : t \in l[n - 1]} \ UNION {l[m] : m \in 0..n - 1}
    IN  l

\* Where a struct and those it embeds have a field of that name, by how
\* far they are embedded.
Named(level, name) ==
    [n \in DOMAIN level |->
        UNION {{<<t, i>> : i \in {i \in DOMAIN fields[t] :
                  /\ fields[t][i].name = name
                  /\ ~Flattened(fields[t][i]) /\ fields[t][i].tag # "-"
                  /\ fields[t][i].exported}} : t \in level[n]}]

Nearest(named) ==
    UNION {named[n] : n \in {n \in DOMAIN named : \A m \in 0..n - 1 : named[m] = {}}}

Preferred(cands) ==
    LET tagged == {c \in cands : fields[c[1]][c[2]].tag = "name"}
    IN  IF tagged # {} THEN tagged ELSE cands

\* The field a name stands for: the least embedded, among those one with a
\* tag; none when that leaves two.
Dominant(cands) ==
    {fields[c[1]][c[2]] : c \in IF Cardinality(cands) = 1 THEN cands ELSE {}}

FieldFor(s, name) == Dominant(Preferred(Nearest(Named(Level(s), name))))

\* Keys match a name also when only case differs.
FoldOf(k) == CASE k = "X" -> "x" [] k = "Y" -> "y" [] OTHER -> k
OrElse(fs, gs) == IF fs # {} THEN fs ELSE gs
FieldOf(s, k) == OrElse(FieldFor(s, k), FieldFor(s, FoldOf(k)))
TypeOf(fs) == IF fs = {} THEN Ignored ELSE (CHOOSE f \in fs : TRUE).typ

\* A fixed array takes as many elements as it has, and ignores the rest.
ArrayLen == 1

\* The type of the n-th child, under key k in an object.
ChildType(rt, k, n) ==
    LET b == Deref(rt)
    IN  CASE rt = Ignored -> Ignored
          [] Head(b) \in {"slice", "map"} -> Tail(b)
          [] Head(b) = "array" -> IF n <= ArrayLen THEN Tail(b) ELSE Ignored
          [] Head(b) = "bytes" -> <<"int">>
          [] Head(b) \in Structs -> TypeOf(FieldOf(Head(b), k))
          [] OTHER -> Ignored

\* The field has the string option: its value may come in quotes.
Quoted(rt, k) ==
    /\ rt # Ignored /\ Head(Deref(rt)) \in Structs
    /\ \E f \in FieldOf(Head(Deref(rt)), k) : f.quoted

Takes(rt, v) ==
    LET k == Head(Deref(rt))
    IN  \/ v = "null" \/ rt = Ignored \/ k \in {"iface", "custom"}
        \/ k = "string" /\ v = "string"
        \/ k = "number" /\ v \in {"string", "number"}
        \/ k = "bool" /\ v = "bool"
        \/ k \in {"int", "float"} /\ v = "number"
        \/ k = "bytes" /\ v \in {"string", "array"}
        \/ k \in {"slice", "array"} /\ v = "array"
        \/ k \in Structs \cup {"map"} /\ v = "object"

----------------------------------------------------------------------------
(* The check.                                                              *)

\* What the tree says of a child: of a member by name when it has Keys, of
\* an element or a map's value by Elem.
SubtreeOf(p, k, kind) ==
    IF p = NoTree \/ tree[p].any THEN NoTree
    ELSE LET q == Append(p, IF kind = "object" /\ tree[p].keys THEN k ELSE Elem)
         IN  IF q \in DOMAIN tree THEN q ELSE NoTree

\* Mutant: null has a type as well.
WrongNull(p, v) == p # NoTree /\ ~tree[p].any /\ v \notin tree[p].types

Wrong(p, v) == p # NoTree /\ ~tree[p].any /\ v # "null" /\ v \notin tree[p].types

\* Mutant: a field that is dropped is not looked at.
validationSubtreePass(p, v, act) ==
    IF /\ act = "Pass" /\ p # NoTree /\ ~tree[p].any
       /\ tree[p].keys \/ tree[p].elem
       /\ v \in tree[p].types
    THEN p ELSE NoTree

\* validationSubtree of a root field, for a container skipped, or passed with
\* nothing to write after it; its Keys or its Elem say something about what is
\* inside.
validationSubtree(p, v, act) ==
    IF /\ act \in {"Pass", "Skip"} /\ p # NoTree /\ ~tree[p].any
       /\ tree[p].keys \/ tree[p].elem
       /\ v \in tree[p].types
    THEN p ELSE NoTree

ReadInit ==
    /\ open = <<>> /\ sub = <<>> /\ over = FALSE /\ mismatch = FALSE
    /\ verdict = "none" /\ values = 0 /\ refused = FALSE
    /\ owing = FALSE /\ owed = {}

Start ==
    /\ Built /\ open = <<>> /\ verdict = "none"
    /\ open' = <<[kind |-> "object", rt |-> <<Root>>, n |-> 0, at |-> <<>>,
                  answer |-> "Enter"]>>
    /\ sub' = <<NoTree>>
    /\ UNCHANGED <<buildVars, over, mismatch, verdict, values, refused, owing, owed>>

Reading == open # <<>> /\ verdict = "none"
top == Last(open)
Copying == Reading /\ Len(sub) > 1 /\ sub[2] # NoTree
Judging == Copying /\ ~over /\ ~mismatch

\* Where the tree has the child, if it has.
ChildAt(k) ==
    Append(top.at, IF top.rt # Ignored /\ Head(Deref(top.rt)) \in Structs
                   THEN k ELSE Elem)

\* The unmarshal of type rt cannot take the value.
Bad(rt, k, v) == ~Takes(rt, v) /\ ~(v = "string" /\ Quoted(top.rt, k))

\* The tree has a node for it that judges, and owes it the same verdict unless
\* the copy of the container has outgrown its bound.
Owes(rt, k, v) ==
    /\ Bad(rt, k, v) /\ ChildAt(k) \in DOMAIN tree
    /\ \A p \in DOMAIN tree : IsPrefix(p, ChildAt(k)) => ~tree[p].any
    /\ top.answer # "Outgrown"

\* The value v of type rt is read, its subtree p when it is a container.
Reads(rt, k, v, p, answer) ==
    /\ values < MaxValues /\ values' = values + 1
    /\ LET up == IF top.kind = "array" THEN [open EXCEPT ![Len(open)].n = @ + 1]
                 ELSE open
       IN  IF v \in Containers
           THEN /\ Len(open) < MaxNest
                /\ open' = Append(up, [kind |-> v, n |-> 0, at |-> ChildAt(k),
                                       rt |-> IF Takes(rt, v) THEN rt ELSE Ignored,
                                       answer |-> answer])
                /\ sub' = Append(sub, p)
           ELSE open' = up /\ UNCHANGED sub

\* The root check of valueStart.  SetFieldTree has taken RootTypes for
\* fieldTypes, when the tree has Keys.
RootWrong(k, v) == k \in DOMAIN RootTypes /\ v # "null" /\ v \notin RootTypes[k]

\* The handler answers; a container with a subtree opens a region that
\* keeps a copy, and starts it anew (beginValidation).
RootField(k, v, act) ==
    /\ Reading /\ Len(open) = 1
    /\ LET p == IF <<k>> \in DOMAIN tree THEN <<k>> ELSE NoTree
           q == IF v \in Containers THEN validationSubtree(p, v, act) ELSE NoTree
           rt == ChildType(top.rt, k, top.n + 1)
       IN  /\ refused' = (refused \/ Bad(rt, k, v))
           /\ owed' = IF Owes(rt, k, v) THEN owed \cup {top.answer} ELSE owed
           /\ IF RootWrong(k, v)
              THEN verdict' = "rejected" /\ UNCHANGED <<open, sub, values, over>>
              ELSE /\ Reads(rt, k, v, q, act)
                   /\ over' = (over /\ q = NoTree)
                   /\ UNCHANGED verdict
    /\ UNCHANGED <<buildVars, mismatch, owing>>

\* A value inside a container: validator.value, when the container is one
\* the check walks.  It stops at the first mismatch.
Inner(k, v) ==
    /\ Reading /\ Len(open) > 1
    /\ LET p == IF Judging THEN SubtreeOf(Last(sub), k, top.kind) ELSE NoTree
           rt == ChildType(top.rt, k, top.n + 1)
       IN  /\ refused' = (refused \/ Bad(rt, k, v))
           /\ owing' = (owing \/ Owes(rt, k, v))
           /\ mismatch' = (mismatch \/ Wrong(p, v))
           /\ Reads(rt, k, v, p, top.answer)
    /\ UNCHANGED <<buildVars, over, verdict, owed>>

\* The copy has outgrown its bound: the check is off for this container.
Outgrow ==
    /\ Copying /\ ~over
    /\ over' = TRUE /\ owing' = FALSE
    /\ open' = [i \in DOMAIN open |->
                  IF i = 1 THEN open[i] ELSE [open[i] EXCEPT !.answer = "Outgrown"]]
    /\ UNCHANGED <<buildVars, sub, mismatch, verdict, values, refused, owed>>

\* A container ends; under the root, endRegion judges the copy and forgets it.
Close ==
    /\ Reading
    /\ open' = Front(open) /\ sub' = Front(sub)
    /\ IF Len(open) > 2 THEN UNCHANGED <<over, mismatch, verdict, owing, owed>>
       ELSE /\ over' = (over /\ ~Copying) /\ mismatch' = FALSE
            /\ verdict' = CASE Copying /\ mismatch /\ ~over -> "rejected"
                            [] Len(open) = 1 -> "accepted"
                            [] OTHER -> verdict
            /\ owing' = FALSE
            /\ owed' = IF owing THEN owed \cup {top.answer} ELSE owed
    /\ UNCHANGED <<buildVars, values, refused>>

\* The key is without meaning in an array: one stands for all.
KeysHere == IF top.kind = "object" THEN Keys ELSE {CHOOSE k \in Keys : TRUE}

Read ==
    \/ Start \/ Outgrow \/ Close
    \/ Reading /\ \E k \in KeysHere, v \in Scalars \cup Containers :
          \/ \E act \in Actions : RootField(k, v, act)
          \/ Inner(k, v)

Next == (Build /\ UNCHANGED readVars) \/ Read

Init == BuildInit /\ ReadInit

Spec == Init /\ [][Next]_vars

----------------------------------------------------------------------------
(* Reference: json.Marshal of a zero value, as ZeroJSON gives it.          *)

TypeAt ==
    LET at[p \in DOMAIN tree] ==
            IF p = <<>> THEN <<Root>> ELSE ChildType(at[Front(p)], Last(p), 1)
    IN  at

RECURSIVE MarshalZero(_)
MarshalZero(rt) ==
    LET k == Head(rt)
        members == {f \in UNION {FieldFor(k, n) : n \in Keys} : ~f.omit}
    IN  CASE k = "string" -> {<<<<>>, "empty">>}
          [] k \in {"int", "float"} -> {<<<<>>, "0">>}
          [] k = "bool" -> {<<<<>>, "false">>}
          [] k \in {"ptr", "slice", "bytes", "map", "iface"} -> {<<<<>>, "null">>}
          [] k \in Structs ->
                {<<<<>>, "{}">>} \cup
                UNION {{<<<<f.name>> \o z[1], z[2]>> : z \in MarshalZero(f.typ)}
                       : f \in members}
          [] OTHER -> {NotOk}

\* No nil pointer is embedded, and omitempty is not on a struct: what
\* ZeroJSON does not reproduce.
Reproduced(s) ==
    \A n \in 0..Cardinality(Structs) : \A t \in Level(s)[n] :
        \A f \in ToSet(fields[t]) :
            /\ ~(Flattened(f) /\ Head(f.typ) = "ptr")
            /\ ~(f.omit /\ Head(f.typ) \in Structs)

----------------------------------------------------------------------------
(* Properties.                                                             *)

TypeOK ==
    /\ depth \in 0..MaxDepth
    /\ \A i \in DOMAIN calls : calls[i].depth \in 1..depth
    /\ \A p \in DOMAIN tree : tree[p].types \subseteq TypeAny
    /\ Len(sub) = Len(open) /\ Len(open) <= MaxNest
    /\ \A i \in DOMAIN sub : sub[i] \in DOMAIN tree \cup {NoTree}
    /\ {over, mismatch, refused, owing} \subseteq BOOLEAN
    /\ owed \subseteq Actions \cup {"Enter"}
    /\ values \in 0..MaxValues /\ verdict \in {"none", "accepted", "rejected"}

\* A type is expanded once at a time, whatever reaches it: the marks of
\* onPath are those of the calls in progress (tree.go:155-158).
OnPathIsStack ==
    LET own == SelectSeq(calls, LAMBDA c : c.owns)
    IN  /\ TypeOK
        /\ onPath = {c.rt : c \in ToSet(own)}
        /\ Cardinality(onPath) = Len(own)

\* The depth bounds the recursion (tree.go:103-104): so many levels, and
\* on each as many calls as structs can be embedded in each other.
DepthBoundsRecursion ==
    /\ \A p \in DOMAIN tree : Len(p) <= depth
    /\ Len(calls) <= depth * Cardinality(Structs)

\* The flat table of the root a tree carries is the one FieldTypesOf
\* derives on its own (types.go:35-81, tree.go:129-140).
RootTypesAgree == Built /\ depth > 0 => RootTypes = FieldTypesOf

\* ZeroJSON is what Marshal writes for the zero value (tree.go:52-53).
ZeroIsMarshalled ==
    Built /\ open = <<>> =>
        \A p \in DOMAIN tree :
            LET rt == TypeAt[p]
            IN  /\ rt # Ignored /\ ZeroJSON[p] # {NotOk}
                /\ Head(rt) \in Structs => Reproduced(Head(rt))
                => ZeroJSON[p] = MarshalZero(rt)

\* The check never rejects a document the unmarshal takes (README.md:361-364,
\* validate.go:5-9).
NeverStricter == verdict = "rejected" => refused

\* What the tree has a node for is judged as the unmarshal does, at any
\* depth, whether the field is dropped or passed with nothing after it
\* (README.md:365-367, region.go:131, 140-143), and whatever was read before it:
\* a copy that outgrew its bound turns off the check of its own container and
\* of no other.  Exceptions: that container, and a root container that is not
\* copied for the check because it is passed with a suffix or answered with
\* anything but Pass and Skip.
JudgesWhatItKnows == verdict = "accepted" => owed \cap {"Enter", "Pass", "Skip"} = {}

\* The same of every answer, as README.md:365-367 has it: the tree's containers
\* are checked up to a size, fields the transform drops included.
JudgesEveryAnswer == verdict = "accepted" => owed = {}
=============================================================================
