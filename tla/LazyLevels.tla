----------------------------- MODULE LazyLevels -----------------------------
(***************************************************************************)
(* The stack of lazy output levels (src/engine/writer.go) under the two    *)
(* callers that drive it: the dispatch frames of the scan, which push a    *)
(* level for every container a protocol enters and pop it at the closing   *)
(* bracket, and the hooks, which write members of their own, at any level, *)
(* and build levels no input container has.                                *)
(*                                                                         *)
(* Text is a sequence of tokens: the brackets, "," and " " (whitespace,    *)
(* which the writer keeps), "k" and "r" (a key with its colon, as it came  *)
(* or renamed), "h" (a key a hook made up), "v" (a whole value).  A value  *)
(* that is not entered reaches the output with no callback between its     *)
(* first byte and its last, so it is one token.                            *)
(*                                                                         *)
(* Hooks keep the contract the comments of writer.go and action.go state:  *)
(* a key where the level is an object, an element where it is an array,    *)
(* one value after each, a Pop for each Push.  MaxInput bounds the tokens  *)
(* of the document, MaxHooks the calls hooks make, MaxLevels the stack.    *)
(***************************************************************************)
EXTENDS Integers, Sequences, SequencesExt

CONSTANTS MaxInput, MaxHooks, MaxLevels

ASSUME LevelsAssumption == {MaxInput, MaxHooks, MaxLevels} \subseteq Nat

VARIABLES
    out,      \* the output so far
    levels,   \* Writer.frames, the root first (level l of the code is l + 1)
    frames,   \* the dispatch frames of the input
    root,     \* "none", "open", "done" (closed in the input), "finished"
    closeWs,  \* rootCloseWs
    dead,
    calls,    \* calls of hooks so far
    read,     \* tokens of the document so far
    kids,     \* history: what was written at each level, member by member
    plain,    \* history: everything was passed or entered as it came
    inp       \* history: while plain, the document so far

vars == <<out, levels, frames, root, closeWs, dead, calls, read, kids, plain,
          inp>>

Spaces == {<<>>, <<" ">>}
Opening(arr) == IF arr THEN <<"[">> ELSE <<"{">>
Closing(arr) == IF arr THEN <<"]">> ELSE <<"}">>

----------------------------------------------------------------------------
(* The writer: a record of the output and the levels.                      *)

W == [out |-> out, fs |-> levels]

\* A registered level: head is what opening it writes before the bracket,
\* mine says a hook pushed it.
WFrame(head, arr, mine) ==
    [head |-> head, isArr |-> arr, opened |-> FALSE, n |-> 0,
     trail |-> <<>>, mine |-> mine]

push(w, head, arr, mine) ==
    [w EXCEPT !.fs = Append(@, WFrame(head, arr, mine))]

\* Mutant: the whitespace kept for the separator is dropped.
sepBare(w, l) ==
    [out |-> IF w.fs[l].n > 0 THEN Append(w.out, ",") ELSE w.out,
     fs  |-> [w.fs EXCEPT ![l].n = @ + 1, ![l].trail = <<>>]]

sep(w, l) ==
    [out |-> IF w.fs[l].n > 0 THEN w.out \o w.fs[l].trail \o <<",">>
             ELSE w.out,
     fs  |-> [w.fs EXCEPT ![l].n = @ + 1, ![l].trail = <<>>]]

\* Mutant: a level is opened without the levels around it.
ensureOpenAlone(w, l) ==
    IF w.fs[l].opened THEN w
    ELSE [out |-> w.out \o w.fs[l].head \o Opening(w.fs[l].isArr),
          fs  |-> [w.fs EXCEPT ![l].opened = TRUE]]

\* Opens level l: first the level around it, of which it is a member.
ensureOpen(w, l) ==
    LET upTo[k \in 0..l] ==
            IF k = 0 \/ w.fs[k].opened THEN w
            ELSE LET up == IF k = 1 THEN w ELSE sep(upTo[k - 1], k - 1)
                 IN  [out |-> up.out \o up.fs[k].head
                                     \o Opening(up.fs[k].isArr),
                      fs  |-> [up.fs EXCEPT ![k].opened = TRUE]]
    IN  upTo[l]

pop(w, ws) ==
    [out |-> IF Last(w.fs).opened
             THEN w.out \o ws \o Closing(Last(w.fs).isArr) ELSE w.out,
     fs  |-> Front(w.fs)]

trailWs(w, ws) ==
    IF w.fs = <<>> THEN w ELSE [w EXCEPT !.fs[Len(w.fs)].trail = ws]

Opened(w, l) == l \in DOMAIN w.fs /\ w.fs[l].opened

\* Mutant: only the level just above is looked at.
CanWriteAtNext(w, l) == ~Opened(w, Len(w.fs)) \/ l = Len(w.fs)

CanWriteAt(w, l) == \A m \in l + 1..Len(w.fs) : ~w.fs[m].opened

\* KeyAt, KeyRawAt, ElemRawAt, ElemAt, and the value after it.
Entry(w, l, head) ==
    LET s == sep(ensureOpen(w, l), l)
    IN  [s EXCEPT !.out = @ \o head \o <<"v">>]

----------------------------------------------------------------------------
(* History: the members accepted at each level, as texts without           *)
(* whitespace, and whether the level was forced open.                      *)

Bare(s) == FlattenSeq([i \in 1..Len(s) |->
                           IF s[i] = " " THEN <<>> ELSE <<s[i]>>])
NoKids  == [forced |-> FALSE, members |-> <<>>]

Entered(k, l, text) ==
    [k EXCEPT ![l].members = Append(@, Bare(text))]

\* A level exists when something was written in it or above it.
Exists(k, l) == \E m \in l..Len(k) : k[m].forced \/ k[m].members # <<>>

Listed(texts) ==
    FlattenSeq([j \in 1..Len(texts) |->
                    IF j = 1 THEN texts[j] ELSE <<",">> \o texts[j]])

\* The text of level l, put together from its members: it is not closed, and
\* what is open inside it follows.
LevelText(k, fs, l) ==
    IF ~Exists(k, l) THEN <<>>
    ELSE Bare(fs[l].head) \o Opening(fs[l].isArr) \o Listed(k[l].members)
         \o (IF Exists(k, l + 1) /\ k[l].members # <<>> THEN <<",">> ELSE <<>>)

Text(k, fs) == FlattenSeq([l \in 1..Len(k) |-> LevelText(k, fs, l)])

\* The top level is closed: it becomes a member of the level below.
Sealed(k, fs) ==
    LET n    == Len(k)
        text == LevelText(k, fs, n) \o Closing(fs[n].isArr)
    IN  IF n = 1 THEN Entered(<<NoKids>>, 1, text)
        ELSE IF Exists(k, n) THEN Entered(Front(k), n - 1, text)
        ELSE Front(k)

Becomes(w) == out' = w.out /\ levels' = w.fs

----------------------------------------------------------------------------
(* Input.                                                                  *)

NewFrame(arr, flat, lazy) ==
    [arr |-> arr, flat |-> flat, lazy |-> lazy, ph |-> "first"]

Init ==
    /\ out = <<>> /\ levels = <<>> /\ frames = <<>> /\ closeWs = <<>>
    /\ root = "none" /\ dead = FALSE /\ calls = 0
    /\ read = 0 /\ kids = <<>> /\ plain = TRUE /\ inp = <<>>

\* The scan reads these tokens; stays says they go on as they came.  Only
\* documents that do are given whitespace: nothing else tells it apart.
Reads(tokens, stays) ==
    /\ ~dead /\ read + Len(tokens) <= MaxInput
    /\ Contains(tokens, " ") => plain /\ stays
    /\ read' = read + Len(tokens)
    /\ plain' = (plain /\ stays)
    /\ inp' = IF plain' THEN inp \o tokens ELSE <<>>

Top == Last(frames)

\* The root's opening bracket, after the whitespace before it.
Root(ws, arr) ==
    /\ root = "none" /\ Reads(ws \o Opening(arr), TRUE)
    /\ root' = "open"
    /\ frames' = <<NewFrame(arr, FALSE, FALSE)>>
    /\ Becomes(push([W EXCEPT !.out = @ \o ws], <<>>, arr, FALSE))
    /\ kids' = <<NoKids>>
    /\ UNCHANGED <<closeWs, dead, calls>>

\* A value may start in the top frame; head is its key as it came (kvRaw),
\* or the whitespace before an element (elemWs).
ValueMay == root = "open" /\ Top.ph \in {"first", "next"}
HeadRaw(ws) == IF Top.arr THEN ws ELSE ws \o <<"k">>
HeadAs(ws, renamed) ==
    IF renamed /\ ~Top.arr THEN <<"r">> ELSE HeadRaw(ws)
Followed == [frames EXCEPT ![Len(frames)].ph = "comma"]

\* Skip, Capture or Defer: nothing of the value reaches the output.
Drop(ws) ==
    /\ ValueMay /\ Reads(HeadRaw(ws) \o <<"v">>, FALSE)
    /\ frames' = Followed
    /\ UNCHANGED <<out, levels, root, closeWs, dead, calls, kids>>

\* Pass or Observe at level l, under a name of its own or not; refused when
\* a level above l is open.
PassAt(ws, l, renamed) ==
    /\ ValueMay
    /\ Reads(HeadRaw(ws) \o <<"v">>, l = Len(levels) /\ ~renamed)
    /\ levels[l].isArr = Top.arr /\ (renamed => ~Top.arr)
    /\ frames' = Followed
    /\ IF CanWriteAt(W, l)
       THEN /\ Becomes(Entry(W, l, HeadAs(ws, renamed)))
            /\ kids' = Entered(kids, l, HeadAs(ws, renamed) \o <<"v">>)
            /\ UNCHANGED dead
       ELSE /\ dead' = TRUE
            /\ UNCHANGED <<out, levels, kids>>
    /\ UNCHANGED <<root, closeWs, calls>>

\* Enter: a level is registered, unless the container is Flat.
Enter(ws, arr, flat, lazy, renamed) ==
    /\ ValueMay
    /\ Reads(HeadRaw(ws) \o Opening(arr), ~flat /\ ~lazy /\ ~renamed)
    /\ renamed => ~flat /\ ~Top.arr
    /\ frames' = Append(Followed, NewFrame(arr, flat, lazy))
    /\ IF flat THEN UNCHANGED <<levels, kids>>
       ELSE /\ Last(levels).isArr = Top.arr /\ Len(levels) < MaxLevels
            /\ levels' = push(W, HeadAs(ws, renamed), arr, FALSE).fs
            /\ kids' = Append(kids, NoKids)
    /\ UNCHANGED <<out, root, closeWs, dead, calls>>

Comma(ws) ==
    /\ root = "open" /\ Top.ph = "comma" /\ Reads(ws \o <<",">>, TRUE)
    /\ frames' = [frames EXCEPT ![Len(frames)].ph = "next"]
    /\ Becomes(trailWs(W, ws))
    /\ UNCHANGED <<root, closeWs, dead, calls, kids>>

\* The top level, forced open unless its container is Lazy, and closed.
LeaveLevel(w, lazy, ws) ==
    pop(IF lazy THEN w ELSE ensureOpen(w, Len(w.fs)), ws)
Forced(k, l) == [k EXCEPT ![l].forced = TRUE]

\* closeContainer: a container present in the input exists in the output.
\* The root's level waits for Finish.
Close(ws) ==
    /\ root = "open" /\ Top.ph \in {"first", "comma"}
    /\ Reads(ws \o Closing(Top.arr), TRUE)
    /\ frames' = Front(frames)
    /\ Top.flat \/ ~Last(levels).mine
    /\ IF Len(frames) = 1
       THEN root' = "done" /\ closeWs' = ws /\ UNCHANGED <<out, levels, kids>>
       ELSE /\ UNCHANGED <<root, closeWs>>
            /\ IF Top.flat THEN UNCHANGED <<out, levels, kids>>
               ELSE /\ Becomes(LeaveLevel(W, Top.lazy, ws))
                    /\ kids' = Sealed(IF Top.lazy THEN kids
                                      ELSE Forced(kids, Len(kids)), levels)
    /\ UNCHANGED <<dead, calls>>

\* The whitespace after the root, then Finish.
Finish(ws) ==
    /\ root = "done" /\ Len(levels) = 1 /\ Reads(ws, TRUE)
    /\ root' = "finished"
    /\ LET w == LeaveLevel(W, FALSE, closeWs)
       IN  out' = w.out \o ws /\ levels' = w.fs
    /\ kids' = Sealed(Forced(kids, 1), levels)
    /\ UNCHANGED <<frames, closeWs, dead, calls>>

----------------------------------------------------------------------------
(* Hooks: between two tokens of a dispatch frame there is a callback (the  *)
(* key, the element, the value, the close), after the root there is Tail.  *)

HookCall ==
    /\ root \in {"open", "done"} /\ ~dead /\ calls < MaxHooks
    /\ calls' = calls + 1 /\ plain' = FALSE /\ inp' = <<>>
    /\ UNCHANGED <<frames, root, closeWs, dead, read>>

HookHead(l) == IF levels[l].isArr THEN <<>> ELSE <<"h">>

\* KeyAt or ElemAt at level l, and a value when the call says it may.
HookEntry(l) ==
    /\ HookCall
    /\ IF CanWriteAt(W, l)
       THEN /\ Becomes(Entry(W, l, HookHead(l)))
            /\ kids' = Entered(kids, l, HookHead(l) \o <<"v">>)
       ELSE UNCHANGED <<out, levels, kids>>

\* PushObj, PushArr
HookPush(arr) ==
    /\ HookCall /\ Len(levels) < MaxLevels
    /\ Becomes(push(W, HookHead(Len(levels)), arr, TRUE))
    /\ kids' = Append(kids, NoKids)

\* Pop
HookPop ==
    /\ HookCall /\ Last(levels).mine
    /\ Becomes(pop(W, <<>>))
    /\ kids' = Sealed(kids, levels)

\* Open
HookOpen ==
    /\ HookCall
    /\ Becomes(ensureOpen(W, Len(levels)))
    /\ kids' = Forced(kids, Len(kids))

Next ==
    \/ \E ws \in Spaces, arr \in BOOLEAN : Root(ws, arr)
    \/ \E ws \in Spaces : Drop(ws)
    \/ \E ws \in Spaces, l \in DOMAIN levels, renamed \in BOOLEAN :
           PassAt(ws, l, renamed)
    \/ \E ws \in Spaces, arr, flat, lazy, renamed \in BOOLEAN :
           Enter(ws, arr, flat, lazy, renamed)
    \/ \E ws \in Spaces : Comma(ws)
    \/ \E ws \in Spaces : Close(ws)
    \/ \E ws \in Spaces : Finish(ws)
    \/ \E l \in DOMAIN levels : HookEntry(l)
    \/ \E arr \in BOOLEAN : HookPush(arr)
    \/ HookPop
    \/ HookOpen

Spec == Init /\ [][Next]_vars

----------------------------------------------------------------------------
(* Properties.                                                             *)

Tokens == {"[", "]", "{", "}", ",", " ", "k", "r", "h", "v"}

TypeOK ==
    /\ out \in Seq(Tokens) /\ inp \in Seq(Tokens) /\ read \in 0..MaxInput
    /\ levels \in Seq([head : Seq(Tokens), isArr : BOOLEAN, opened : BOOLEAN,
                       n : Nat, trail : Spaces, mine : BOOLEAN])
    /\ frames \in Seq([arr : BOOLEAN, flat : BOOLEAN, lazy : BOOLEAN,
                       ph : {"first", "comma", "next"}])
    /\ root \in {"none", "open", "done", "finished"} /\ closeWs \in Spaces
    /\ {dead, plain} \subseteq BOOLEAN /\ calls \in 0..MaxHooks
    /\ root \in {"open", "done"} => Len(kids) = Len(levels)

\* The open levels are the outermost ones, and a level has members only
\* when it is open: what CanWriteAt and pop rely on (writer.go:119-173).
LevelsShape ==
    /\ TypeOK
    /\ \A l \in DOMAIN levels :
          /\ l > 1 /\ levels[l].opened => levels[l - 1].opened
          /\ l > 1 /\ levels[l].opened => levels[l - 1].n > 0
          /\ levels[l].n > 0 => levels[l].opened

\* Whatever the hooks write, in whatever order and at whatever level, the
\* output is the text of the tree they asked for: members in the order they
\* were accepted, a level where its first write put it, no trace of a level
\* nothing was written in, no trace of a write that was refused.
OutputIsTree ==
    Bare(out) = IF root = "finished" THEN Listed(kids[1].members)
                ELSE Text(kids, levels)

\* Entering a container keeps it as it came: while every value is passed or
\* entered as it is, what is written is the document itself, whitespace
\* included, and at the end all of it.
EnterIsIdentity ==
    plain => /\ IsPrefix(out, inp)
             /\ root = "finished" => out = inp
=============================================================================
