-------------------------- MODULE LazyLevels_proofs --------------------------
(***************************************************************************)
(* Proofs about the stack of lazy output levels (LazyLevels), for every    *)
(* document, every stack and whatever the hooks write: the shape of the    *)
(* stack that CanWriteAt and pop rely on, and that the levels a protocol   *)
(* entered and the frames of the input keep in step; that a document whose *)
(* values are passed or entered as they came comes out as it went in; and  *)
(* that the output is the text of the tree that was asked for, whoever     *)
(* asked for it and at whatever level.                                     *)
(***************************************************************************)
EXTENDS LazyLevels, FiniteSets, FiniteSetTheorems, SequenceTheorems, TLAPS

LevelType ==
    [head : Seq(Tokens), isArr : BOOLEAN, opened : BOOLEAN,
     n : Nat, trail : Spaces, mine : BOOLEAN]
FrameType ==
    [arr : BOOLEAN, flat : BOOLEAN, lazy : BOOLEAN,
     ph : {"first", "comma", "next"}]
Writer == [out : Seq(Tokens), fs : Seq(LevelType)]

-----------------------------------------------------------------------------
(* The inductive invariant. *)

\* The open levels are the outermost ones, each a member of the one around it,
\* and only an open level has members.
Shape(fs) ==
    \A l \in 1..Len(fs) :
        /\ l > 1 /\ fs[l].opened => fs[l - 1].opened /\ fs[l - 1].n > 0
        /\ fs[l].n > 0 => fs[l].opened

TypesOK ==
    /\ out \in Seq(Tokens) /\ levels \in Seq(LevelType)
    /\ frames \in Seq(FrameType) /\ inp \in Seq(Tokens)
    /\ read \in 0..MaxInput /\ calls \in 0..MaxHooks
    /\ root \in {"none", "open", "done", "finished"} /\ closeWs \in Spaces
    /\ dead \in BOOLEAN /\ plain \in BOOLEAN

\* The frames whose container has a level, and the levels no hook pushed.
Entering(fs) == {k \in 1..Len(fs) : ~fs[k].flat}
Theirs(ls)   == {l \in 1..Len(ls) : ~ls[l].mine}

\* While the document is open, its frames that are not Flat are the levels no
\* hook pushed, the root the first of both; at its end only the root is left.
InStep ==
    /\ root = "none" => frames = <<>> /\ levels = <<>>
    /\ root = "open" =>
        /\ Len(frames) >= 1 /\ ~frames[1].flat
        /\ Cardinality(Entering(frames)) = Cardinality(Theirs(levels))
    /\ root = "done" => Cardinality(Theirs(levels)) = 1
    /\ root \in {"open", "done"} =>
        Len(levels) >= 1 /\ ~levels[1].mine

\* The history follows the stack.
Listing(k) == k \in Seq({k[l] : l \in DOMAIN k})
KidsOK ==
    /\ Listing(kids)
    /\ root \in {"open", "done"} => Len(kids) = Len(levels)

IInv == TypesOK /\ Shape(levels) /\ InStep /\ KidsOK

-----------------------------------------------------------------------------
(* Induction over the naturals, in terms of sets: if n were not in S, the   *)
(* numbers up to n that are not, taken to their predecessors, would fit     *)
(* into one place less.                                                     *)

LEMMA Induction ==
    ASSUME NEW S, 0 \in S, \A k \in Nat : k \in S => k + 1 \in S, NEW n \in Nat
    PROVE  n \in S
<1> DEFINE Q == {k \in 0..n : k \notin S}
<1> SUFFICES ASSUME n \notin S PROVE FALSE
  OBVIOUS
<1>1. n \in Q /\ Q \subseteq 0..n
  OBVIOUS
<1>2. \A q \in Q : q - 1 \in Q \ {n}
  <2> SUFFICES ASSUME NEW q \in Q PROVE q - 1 \in Q \ {n}
    OBVIOUS
  <2>1. q \in 0..n /\ q # 0
    OBVIOUS
  <2>2. q - 1 \in Nat /\ q - 1 \in 0..n /\ q - 1 + 1 = q /\ q - 1 # n
    BY <2>1
  <2> QED
    BY <2>2
<1>3. IsFiniteSet(0..n)
  BY FS_Interval
<1>4. IsFiniteSet(Q) /\ IsFiniteSet(Q \ {n})
  BY <1>1, <1>3, FS_Subset
<1>5. Cardinality(Q \ {n}) < Cardinality(Q)
  <2> HIDE DEF Q
  <2>1. Cardinality(Q \ {n}) = Cardinality(Q) - 1 /\ Cardinality(Q) \in Nat
    BY <1>1, <1>4, FS_RemoveElement, FS_CardinalityType
  <2> QED
    BY <2>1
<1> DEFINE f == [q \in Q |-> q - 1]
<1>6. f \in [Q -> Q \ {n}]
  BY <1>2
<1>7. \A x, y \in Q : x # y => f[x] # f[y]
  BY <1>1
<1> HIDE DEF Q, f
<1> QED
  BY <1>4, <1>5, <1>6, <1>7, FS_PigeonHole

-----------------------------------------------------------------------------
(* Texts and levels. *)

LEMMA Texts ==
    /\ \A ws \in Spaces : ws \in Seq(Tokens)
    /\ \A arr : Opening(arr) \in Seq(Tokens) /\ Closing(arr) \in Seq(Tokens)
    /\ \A t \in Tokens : <<t>> \in Seq(Tokens)
    /\ {"k", "r", "h", "v", ","} \subseteq Tokens /\ <<>> \in Seq(Tokens)
<1>1. \A t \in Tokens : <<t>> \in Seq(Tokens)
  OBVIOUS
<1>2. {"[", "]", "{", "}", ",", " ", "k", "r", "h", "v"} \subseteq Tokens
  BY DEF Tokens
<1>3. <<>> \in Seq(Tokens)
  OBVIOUS
<1>4. \A ws \in Spaces : ws = <<>> \/ ws = <<" ">>
  BY DEF Spaces
<1> QED
  BY <1>1, <1>2, <1>3, <1>4 DEF Opening, Closing

LEMMA NewLevel ==
    ASSUME NEW head \in Seq(Tokens), NEW arr \in BOOLEAN, NEW mine \in BOOLEAN
    PROVE  /\ WFrame(head, arr, mine) \in LevelType
           /\ ~WFrame(head, arr, mine).opened /\ WFrame(head, arr, mine).n = 0
           /\ WFrame(head, arr, mine).mine = mine
BY DEF WFrame, LevelType, Spaces

\* gs is fs but for level l, which is g and was pushed by the same hand.
Replaces(gs, fs, l, g) ==
    /\ gs \in Seq(LevelType) /\ Len(gs) = Len(fs)
    /\ \A j \in 1..Len(fs) : gs[j] = IF j = l THEN g ELSE fs[j]

LEMMA Replaced ==
    ASSUME NEW fs \in Seq(LevelType), NEW l \in 1..Len(fs), NEW g \in LevelType
    PROVE  Replaces([fs EXCEPT ![l] = g], fs, l, g)
BY ExceptSeq DEF Replaces

\* The text s with the separator that comes after it at the level f.
After(s, f) == IF f.n > 0 THEN s \o f.trail \o <<",">> ELSE s

\* Separator: the level counts one member more.
LEMMA SepOK ==
    ASSUME NEW w \in Writer, NEW l \in 1..Len(w.fs)
    PROVE  /\ sep(w, l) \in Writer
           /\ sep(w, l).out = After(w.out, w.fs[l])
           /\ \E g \in LevelType :
                /\ Replaces(sep(w, l).fs, w.fs, l, g)
                /\ g.n > 0 /\ g.opened = w.fs[l].opened
                /\ g.mine = w.fs[l].mine /\ g.trail = <<>>
                /\ g.head = w.fs[l].head /\ g.isArr = w.fs[l].isArr
                /\ g.n = w.fs[l].n + 1
<1> DEFINE f == w.fs[l]
           g == [head |-> f.head, isArr |-> f.isArr, opened |-> f.opened,
                 n |-> f.n + 1, trail |-> <<>>, mine |-> f.mine]
           gs == [w.fs EXCEPT ![l] = g]
<1>1. w.fs \in Seq(LevelType) /\ w.out \in Seq(Tokens)
  BY DEF Writer
<1>2. f \in LevelType
  BY <1>1, ElementOfSeq
<1>3. f.n \in Nat /\ f.trail \in Seq(Tokens) /\ g \in LevelType
  <2> HIDE DEF f
  <2>0. f.n \in Nat /\ f.n + 1 \in Nat /\ f.trail \in Spaces
    BY <1>2 DEF LevelType
  <2>1. f.n \in Nat /\ f.n + 1 \in Nat /\ f.trail \in Spaces /\ <<>> \in Spaces
    BY <2>0 DEF Spaces
  <2>2. f.trail \in Seq(Tokens)
    BY <2>1, Texts
  <2>3. g \in LevelType
    BY <1>2, <2>1 DEF LevelType
  <2> QED
    BY <2>1, <2>2, <2>3
<1>4. [[f EXCEPT !.n = f.n + 1] EXCEPT !.trail = <<>>] = g
  <2> HIDE DEF f
  <2> DEFINE h == [f EXCEPT !.n = f.n + 1]
  <2>1. h = [head |-> f.head, isArr |-> f.isArr, opened |-> f.opened,
             n |-> f.n + 1, trail |-> f.trail, mine |-> f.mine]
    BY <1>2 DEF LevelType
  <2>2. h \in LevelType
    BY <1>2, <1>3 DEF LevelType
  <2> HIDE DEF h
  <2>3. [h EXCEPT !.trail = <<>>] =
            [head |-> h.head, isArr |-> h.isArr, opened |-> h.opened,
             n |-> h.n, trail |-> <<>>, mine |-> h.mine]
    BY <2>2 DEF LevelType
  <2> QED
    BY <2>1, <2>3 DEF h
<1>5. sep(w, l).fs = gs
  <2>1. sep(w, l).fs = [[w.fs EXCEPT ![l] = [w.fs[l] EXCEPT !.n = @ + 1]]
                            EXCEPT ![l] = [@ EXCEPT !.trail = <<>>]]
    BY DEF sep
  <2>2. [w.fs EXCEPT ![l] = [w.fs[l] EXCEPT !.n = @ + 1]][l] =
            [w.fs[l] EXCEPT !.n = @ + 1]
    BY <1>1, LenProperties
  <2> QED
    BY <1>4, <2>1, <2>2
<1>6. w.out \o f.trail \o <<",">> \in Seq(Tokens)
  <2>1. <<",">> \in Seq(Tokens)
    BY Texts
  <2> HIDE DEF f
  <2>2. w.out \o f.trail \in Seq(Tokens)
    BY <1>1, <1>3, ConcatProperties
  <2> QED
    BY <2>1, <2>2, ConcatProperties
<1>7. sep(w, l).out \in Seq(Tokens)
  BY <1>1, <1>6 DEF sep
<1>8. Replaces(gs, w.fs, l, g)
  <2> HIDE DEF g
  <2> QED
    BY <1>1, <1>3, Replaced
<1>9. sep(w, l) = [out |-> sep(w, l).out, fs |-> sep(w, l).fs]
  BY DEF sep
<1>10. sep(w, l) \in Writer
  BY <1>5, <1>7, <1>8, <1>9 DEF Writer, Replaces
<1>11. g.n > 0 /\ g.opened = f.opened /\ g.mine = f.mine /\ g.trail = <<>>
       /\ g.head = f.head /\ g.isArr = f.isArr /\ g.n = f.n + 1
  BY <1>3
<1>12. sep(w, l).out = After(w.out, w.fs[l])
  BY DEF sep, After
<1> QED
  BY <1>3, <1>5, <1>8, <1>10, <1>11, <1>12

-----------------------------------------------------------------------------
(* Opening a level. *)

\* What opening level k comes to, prev being the writer with the one around it
\* open: the body of ensureOpen.
OpenOne(w, k, prev) ==
    IF k = 0 \/ w.fs[k].opened THEN w
    ELSE LET up == IF k = 1 THEN w ELSE sep(prev, k - 1)
         IN  [out |-> up.out \o up.fs[k].head \o Opening(up.fs[k].isArr),
              fs  |-> [up.fs EXCEPT ![k].opened = TRUE]]

\* u is w after level k and all around it have been opened.
OpenTo(w, k, u) ==
    /\ u \in Writer /\ Len(u.fs) = Len(w.fs) /\ Shape(u.fs)
    /\ \A j \in 1..Len(w.fs) : u.fs[j].mine = w.fs[j].mine
    /\ \A j \in k + 1..Len(w.fs) : u.fs[j] = w.fs[j]
    /\ k >= 1 => u.fs[k].opened

\* The recursion of ensureOpen has a value.
LEMMA OpenDefined ==
    ASSUME NEW w, NEW l \in Nat
    PROVE  \E g : g = [k \in 0..l |-> OpenOne(w, k, g[k - 1])]
<1> DEFINE S == {m \in Nat : \E g : g = [k \in 0..m |-> OpenOne(w, k, g[k - 1])]}
<1>1. \A x : OpenOne(w, 0, x) = w
  BY DEF OpenOne
<1>2. 0 \in S
  <2> DEFINE g == [k \in 0..0 |-> w]
  <2>1. g = [k \in 0..0 |-> OpenOne(w, k, g[k - 1])]
    BY <1>1
  <2> QED
    BY <2>1
<1>3. ASSUME NEW m \in Nat, m \in S PROVE m + 1 \in S
  <2>1. PICK g : g = [k \in 0..m |-> OpenOne(w, k, g[k - 1])]
    BY <1>3
  <2> DEFINE h == [k \in 0..m + 1 |-> IF k = m + 1 THEN OpenOne(w, m + 1, g[m])
                                                   ELSE g[k]]
  <2>2. ASSUME NEW k \in 0..m + 1 PROVE h[k] = OpenOne(w, k, h[k - 1])
    <3>1. CASE k = m + 1
      <4>1. k - 1 = m /\ h[m] = g[m]
        BY <3>1
      <4> QED
        BY <3>1, <4>1
    <3>2. CASE k = 0
      <4>1. h[k] = g[0] /\ g[0] = w
        BY <1>1, <2>1, <3>2
      <4> QED
        BY <1>1, <3>2, <4>1
    <3>3. CASE k \in 1..m
      <4>1. h[k] = g[k] /\ h[k - 1] = g[k - 1]
        BY <3>3
      <4>2. g[k] = OpenOne(w, k, g[k - 1])
        BY <2>1, <3>3
      <4> QED
        BY <4>1, <4>2
    <3> QED
      BY <3>1, <3>2, <3>3
  <2>3. h = [k \in 0..m + 1 |-> h[k]]
    OBVIOUS
  <2> HIDE DEF h
  <2>4. h = [k \in 0..m + 1 |-> OpenOne(w, k, h[k - 1])]
    BY <2>2, <2>3
  <2> QED
    BY <2>4
<1> HIDE DEF S
<1>4. l \in S
  BY <1>2, <1>3, Induction
<1> QED
  BY <1>4 DEF S

LEMMA OpenUnfolds ==
    ASSUME NEW w, NEW l \in Nat
    PROVE  \E g : /\ g = [k \in 0..l |-> OpenOne(w, k, g[k - 1])]
                  /\ ensureOpen(w, l) = g[l]
<1> DEFINE g == CHOOSE g : g = [k \in 0..l |-> OpenOne(w, k, g[k - 1])]
<1>1. g = [k \in 0..l |-> OpenOne(w, k, g[k - 1])]
  BY OpenDefined
<1>2. ensureOpen(w, l) = g[l]
  BY Zenon DEF ensureOpen, OpenOne
<1> QED
  BY <1>1, <1>2

\* An open level may count one member more.
LEMMA CountedShape ==
    ASSUME NEW fs \in Seq(LevelType), Shape(fs), NEW l \in 1..Len(fs), fs[l].opened,
           NEW g \in LevelType, g.n > 0, g.opened = fs[l].opened,
           NEW gs, Replaces(gs, fs, l, g)
    PROVE  Shape(gs)
<1>1. /\ Len(gs) = Len(fs) /\ Len(fs) \in Nat
      /\ \A j \in 1..Len(fs) : gs[j] = IF j = l THEN g ELSE fs[j]
  BY LenProperties DEF Replaces
<1> SUFFICES ASSUME NEW j \in 1..Len(fs)
             PROVE  /\ j > 1 /\ gs[j].opened => gs[j - 1].opened /\ gs[j - 1].n > 0
                    /\ gs[j].n > 0 => gs[j].opened
  BY <1>1 DEF Shape
<1>2. /\ j > 1 /\ fs[j].opened => fs[j - 1].opened /\ fs[j - 1].n > 0
      /\ fs[j].n > 0 => fs[j].opened
  BY DEF Shape
<1>3. j > 1 => j - 1 \in 1..Len(fs)
  BY <1>1
<1>4. gs[j] = IF j = l THEN g ELSE fs[j]
  BY <1>1
<1>5. j > 1 => gs[j - 1] = IF j - 1 = l THEN g ELSE fs[j - 1]
  BY <1>1, <1>3
<1>6. gs[j].opened = fs[j].opened
  BY <1>4
<1>7. j > 1 => gs[j - 1].opened = fs[j - 1].opened
  BY <1>5
<1>8. gs[j].n > 0 => gs[j].opened
  BY <1>2, <1>4, <1>6
<1>9. j > 1 /\ gs[j].opened => gs[j - 1].opened
  BY <1>2, <1>6, <1>7
<1>10. j > 1 /\ gs[j].opened => gs[j - 1].n > 0
  BY <1>2, <1>5, <1>6
<1> QED
  BY <1>8, <1>9, <1>10

\* One level is opened, the one around it being open already.
LEMMA OpenStep ==
    ASSUME NEW w \in Writer, Shape(w.fs), NEW k \in 1..Len(w.fs), NEW prev,
           k > 1 => OpenTo(w, k - 1, prev)
    PROVE  OpenTo(w, k, OpenOne(w, k, prev))
<1> DEFINE up == IF k = 1 THEN w ELSE sep(prev, k - 1)
           f  == up.fs[k]
           g  == [f EXCEPT !.opened = TRUE]
           gs == [up.fs EXCEPT ![k] = g]
           u  == [out |-> up.out \o f.head \o Opening(f.isArr), fs |-> gs]
<1>1. w.fs \in Seq(LevelType) /\ w.out \in Seq(Tokens) /\ Len(w.fs) \in Nat
  BY LenProperties DEF Writer
<1>2. CASE w.fs[k].opened
  BY <1>2 DEF OpenOne, OpenTo
<1>3. CASE ~w.fs[k].opened
  <2>1. OpenOne(w, k, prev) = u
    BY <1>3 DEF OpenOne
  <2>2. /\ up \in Writer /\ Len(up.fs) = Len(w.fs) /\ Shape(up.fs)
        /\ \A j \in 1..Len(w.fs) : up.fs[j].mine = w.fs[j].mine
        /\ \A j \in k..Len(w.fs) : up.fs[j] = w.fs[j]
        /\ k > 1 => up.fs[k - 1].opened /\ up.fs[k - 1].n > 0
    <3>1. CASE k = 1
      BY <3>1
    <3>2. CASE k > 1
      <4>1. prev \in Writer /\ k - 1 \in 1..Len(prev.fs) /\ OpenTo(w, k - 1, prev)
            /\ Len(prev.fs) = Len(w.fs) /\ prev.fs[k - 1].opened
        BY <3>2 DEF OpenTo
      <4>2. PICK h \in LevelType :
                /\ Replaces(sep(prev, k - 1).fs, prev.fs, k - 1, h)
                /\ h.n > 0 /\ h.opened = prev.fs[k - 1].opened
                /\ h.mine = prev.fs[k - 1].mine
        BY <4>1, SepOK
      <4>3. up = sep(prev, k - 1) /\ up \in Writer
        BY <3>2, <4>1, SepOK
      <4> HIDE DEF up
      <4>4. /\ Len(up.fs) = Len(w.fs)
            /\ \A j \in 1..Len(w.fs) : up.fs[j] = IF j = k - 1 THEN h ELSE prev.fs[j]
        BY <4>1, <4>2, <4>3 DEF Replaces
      <4>5. Shape(up.fs)
        <5>1. Shape(prev.fs)
          BY <4>1 DEF OpenTo
        <5>2. prev.fs \in Seq(LevelType)
          BY <4>1 DEF Writer
        <5> QED
          BY <4>1, <4>2, <4>3, <5>1, <5>2, CountedShape
      <4>6. \A j \in 1..Len(w.fs) : up.fs[j].mine = w.fs[j].mine
        BY <4>1, <4>2, <4>4 DEF OpenTo
      <4>7. \A j \in k..Len(w.fs) : up.fs[j] = w.fs[j]
        <5>1. \A j \in k..Len(w.fs) : j \in 1..Len(w.fs) /\ j # k - 1 /\ j \in k - 1 + 1..Len(w.fs)
          BY <1>1
        <5> QED
          BY <4>1, <4>4, <5>1 DEF OpenTo
      <4>8. up.fs[k - 1].opened /\ up.fs[k - 1].n > 0
        BY <4>1, <4>2, <4>4
      <4> QED
        BY <4>3, <4>4, <4>5, <4>6, <4>7, <4>8
    <3> QED
      BY <3>1, <3>2
  <2> HIDE DEF up
  <2>3. up.fs \in Seq(LevelType) /\ up.out \in Seq(Tokens) /\ k \in 1..Len(up.fs)
    BY <2>2 DEF Writer
  <2>4. f \in LevelType
    BY <2>3, ElementOfSeq
  <2>5. g \in LevelType /\ g.opened /\ g.n = f.n /\ g.mine = f.mine
    <3> HIDE DEF f
    <3> QED
      BY <2>4 DEF LevelType
  <2>6. f.head \in Seq(Tokens) /\ Opening(f.isArr) \in Seq(Tokens)
    <3> HIDE DEF f
    <3> QED
      BY <2>4, Texts DEF LevelType
  <2> HIDE DEF f, g
  <2>7. Replaces(gs, up.fs, k, g)
    BY <2>3, <2>5, Replaced
  <2> HIDE DEF gs
  <2>8. up.out \o f.head \o Opening(f.isArr) \in Seq(Tokens)
    <3>1. up.out \o f.head \in Seq(Tokens)
      BY <2>3, <2>6, ConcatProperties
    <3> QED
      BY <2>6, <3>1, ConcatProperties
  <2>9. u \in Writer /\ u.fs = gs
    BY <2>7, <2>8 DEF Writer, Replaces
  <2> HIDE DEF u
  <2>10. /\ Len(u.fs) = Len(w.fs)
         /\ \A j \in 1..Len(w.fs) : u.fs[j] = IF j = k THEN g ELSE up.fs[j]
    BY <2>2, <2>7, <2>9 DEF Replaces
  <2>11. Shape(u.fs)
    <3> SUFFICES ASSUME NEW j \in 1..Len(w.fs)
                 PROVE  /\ j > 1 /\ u.fs[j].opened =>
                              u.fs[j - 1].opened /\ u.fs[j - 1].n > 0
                        /\ u.fs[j].n > 0 => u.fs[j].opened
      BY <2>10 DEF Shape
    <3>1. /\ j > 1 /\ up.fs[j].opened => up.fs[j - 1].opened /\ up.fs[j - 1].n > 0
          /\ up.fs[j].n > 0 => up.fs[j].opened
      BY <2>2 DEF Shape
    <3>2. j > 1 => j - 1 \in 1..Len(w.fs)
      BY <1>1
    <3>3. u.fs[j] = IF j = k THEN g ELSE up.fs[j]
      BY <2>10
    <3>4. j > 1 => u.fs[j - 1] = IF j - 1 = k THEN g ELSE up.fs[j - 1]
      BY <2>10, <3>2
    <3>5. u.fs[j].n > 0 => u.fs[j].opened
      BY <2>5, <3>1, <3>3
    <3>6. j > 1 /\ u.fs[j].opened => up.fs[j - 1].opened /\ up.fs[j - 1].n > 0
      BY <2>2, <3>1, <3>3
    <3>7. j > 1 /\ u.fs[j].opened => u.fs[j - 1].opened /\ u.fs[j - 1].n > 0
      BY <2>5, <3>4, <3>6 DEF f
    <3> QED
      BY <3>5, <3>7
  <2>12. \A j \in 1..Len(w.fs) : u.fs[j].mine = w.fs[j].mine
    BY <2>2, <2>5, <2>10 DEF f
  <2>13. \A j \in k + 1..Len(w.fs) : u.fs[j] = w.fs[j]
    <3>1. \A j \in k + 1..Len(w.fs) : j \in 1..Len(w.fs) /\ j # k /\ j \in k..Len(w.fs)
      BY <1>1
    <3> QED
      BY <2>2, <2>10, <3>1
  <2>14. u.fs[k].opened
    BY <2>5, <2>10
  <2> QED
    BY <2>1, <2>9, <2>10, <2>11, <2>12, <2>13, <2>14 DEF OpenTo
<1> QED
  BY <1>2, <1>3

LEMMA EnsureOpened ==
    ASSUME NEW w \in Writer, Shape(w.fs), NEW l \in 1..Len(w.fs)
    PROVE  OpenTo(w, l, ensureOpen(w, l))
<1>1. l \in Nat /\ Len(w.fs) \in Nat
  BY LenProperties DEF Writer
<1>2. PICK g : /\ g = [k \in 0..l |-> OpenOne(w, k, g[k - 1])]
               /\ ensureOpen(w, l) = g[l]
  BY <1>1, OpenUnfolds
<1> DEFINE S == {k \in Nat : k \in 1..l => OpenTo(w, k, g[k])}
<1>3. 0 \in S
  OBVIOUS
<1>4. ASSUME NEW k \in Nat, k \in S PROVE k + 1 \in S
  <2> SUFFICES ASSUME k + 1 \in 1..l PROVE OpenTo(w, k + 1, g[k + 1])
    OBVIOUS
  <2>1. g[k + 1] = OpenOne(w, k + 1, g[k])
    <3>1. k + 1 \in 0..l /\ k + 1 - 1 = k
      BY <1>1
    <3> QED
      BY <1>2, <3>1
  <2>2. k + 1 > 1 => OpenTo(w, k + 1 - 1, g[k])
    <3>1. k + 1 > 1 => k \in 1..l /\ k + 1 - 1 = k
      BY <1>1
    <3> QED
      BY <1>4, <3>1
  <2>3. k + 1 \in 1..Len(w.fs)
    BY <1>1
  <2> QED
    BY <2>1, <2>2, <2>3, OpenStep
<1> HIDE DEF S
<1>5. l \in S
  BY <1>1, <1>3, <1>4, Induction
<1> QED
  BY <1>2, <1>5 DEF S

-----------------------------------------------------------------------------
(* The other operations of the writer. *)

\* Nobody's level became another's.
SameHands(gs, fs) ==
    /\ Len(gs) = Len(fs)
    /\ \A j \in 1..Len(fs) : gs[j].mine = fs[j].mine

LEMMA EntryOK ==
    ASSUME NEW w \in Writer, Shape(w.fs), NEW l \in 1..Len(w.fs),
           NEW head \in Seq(Tokens)
    PROVE  /\ Entry(w, l, head) \in Writer
           /\ Shape(Entry(w, l, head).fs) /\ SameHands(Entry(w, l, head).fs, w.fs)
<1> DEFINE e == ensureOpen(w, l)
           s == sep(e, l)
           u == Entry(w, l, head)
<1>1. OpenTo(w, l, e)
  BY EnsureOpened
<1>2. /\ e \in Writer /\ e.fs \in Seq(LevelType) /\ Shape(e.fs)
      /\ l \in 1..Len(e.fs) /\ l >= 1 /\ e.fs[l].opened
  BY <1>1 DEF OpenTo, Writer
<1> HIDE DEF e
<1>3. PICK g \in LevelType :
          /\ Replaces(s.fs, e.fs, l, g)
          /\ g.n > 0 /\ g.opened = e.fs[l].opened /\ g.mine = e.fs[l].mine
  BY <1>2, SepOK
<1>4. s \in Writer /\ Shape(s.fs)
  BY <1>2, <1>3, SepOK, CountedShape
<1>5. SameHands(s.fs, w.fs)
  BY <1>1, <1>2, <1>3 DEF OpenTo, SameHands, Replaces
<1>6. u = [s EXCEPT !.out = s.out \o head \o <<"v">>]
  BY DEF Entry, e
<1> HIDE DEF s, u
<1>7. s.out \o head \o <<"v">> \in Seq(Tokens)
  <2>1. s.out \in Seq(Tokens) /\ <<"v">> \in Seq(Tokens)
    BY <1>4, Texts DEF Writer
  <2>2. s.out \o head \in Seq(Tokens)
    BY <2>1, ConcatProperties
  <2> QED
    BY <2>1, <2>2, ConcatProperties
<1>8. u \in Writer /\ u.fs = s.fs
  BY <1>4, <1>6, <1>7 DEF Writer
<1> QED
  BY <1>4, <1>5, <1>8 DEF u

LEMMA FrontOK ==
    ASSUME NEW S, NEW s \in Seq(S), s # <<>>
    PROVE  /\ Front(s) \in Seq(S) /\ Len(Front(s)) = Len(s) - 1
           /\ \A j \in 1..Len(s) - 1 : Front(s)[j] = s[j]
           /\ Last(s) \in S /\ Len(s) \in Nat \ {0}
<1> DEFINE n == Len(s)
<1>1. n \in Nat \ {0} /\ \A j \in 1..n : s[j] \in S
  BY EmptySeq, ElementOfSeq
<1>2. Front(s) = SubSeq(s, 1, n - 1)
  BY DEF Front
<1> HIDE DEF n
<1>3. /\ n - 1 \in Int /\ n - 1 - 1 + 1 = n - 1
      /\ \A j \in 1..n - 1 : s[j] \in S /\ 1 + j - 1 = j
  BY <1>1
<1>4. /\ SubSeq(s, 1, n - 1) \in Seq(S)
      /\ Len(SubSeq(s, 1, n - 1)) = IF 1 <= n - 1 THEN n - 1 - 1 + 1 ELSE 0
      /\ \A j \in 1..n - 1 - 1 + 1 : SubSeq(s, 1, n - 1)[j] = s[1 + j - 1]
  BY <1>3, SubSeqProperties
<1>5. Len(SubSeq(s, 1, n - 1)) = n - 1
  BY <1>1, <1>3, <1>4
<1>6. \A j \in 1..n - 1 : SubSeq(s, 1, n - 1)[j] = s[j]
  BY <1>3, <1>4
<1>7. Last(s) \in S
  BY <1>1 DEF Last, n
<1> QED
  BY <1>1, <1>2, <1>4, <1>5, <1>6, <1>7 DEF n

LEMMA FrontShape ==
    ASSUME NEW fs \in Seq(LevelType), Shape(fs), fs # <<>>
    PROVE  Shape(Front(fs))
<1>1. /\ Front(fs) \in Seq(LevelType) /\ Len(Front(fs)) = Len(fs) - 1
      /\ \A j \in 1..Len(fs) - 1 : Front(fs)[j] = fs[j]
      /\ Len(fs) \in Nat \ {0}
  BY FrontOK
<1>2. \A j \in 1..Len(fs) - 1 : j \in 1..Len(fs) /\ (j > 1 => j - 1 \in 1..Len(fs) - 1)
  BY <1>1
<1> QED
  BY <1>1, <1>2 DEF Shape

LEMMA PopOK ==
    ASSUME NEW w \in Writer, Shape(w.fs), w.fs # <<>>, NEW ws \in Spaces
    PROVE  /\ pop(w, ws) \in Writer /\ Shape(pop(w, ws).fs)
           /\ pop(w, ws).fs = Front(w.fs)
<1>1. w.fs \in Seq(LevelType) /\ w.out \in Seq(Tokens)
  BY DEF Writer
<1>2. w.out \o ws \o Closing(Last(w.fs).isArr) \in Seq(Tokens)
  <2>1. ws \in Seq(Tokens) /\ Closing(Last(w.fs).isArr) \in Seq(Tokens)
    BY Texts
  <2>2. w.out \o ws \in Seq(Tokens)
    BY <1>1, <2>1, ConcatProperties
  <2> QED
    BY <2>1, <2>2, ConcatProperties
<1>3. Front(w.fs) \in Seq(LevelType) /\ Shape(Front(w.fs))
  BY <1>1, FrontOK, FrontShape
<1>4. pop(w, ws).out \in Seq(Tokens) /\ pop(w, ws).fs = Front(w.fs)
  BY <1>1, <1>2 DEF pop
<1>5. pop(w, ws) = [out |-> pop(w, ws).out, fs |-> pop(w, ws).fs]
  BY DEF pop
<1> QED
  BY <1>3, <1>4, <1>5 DEF Writer

LEMMA PushOK ==
    ASSUME NEW w \in Writer, Shape(w.fs), NEW head \in Seq(Tokens),
           NEW arr \in BOOLEAN, NEW mine \in BOOLEAN
    PROVE  /\ push(w, head, arr, mine) \in Writer
           /\ push(w, head, arr, mine).out = w.out
           /\ Shape(push(w, head, arr, mine).fs)
           /\ push(w, head, arr, mine).fs = Append(w.fs, WFrame(head, arr, mine))
<1> DEFINE f  == WFrame(head, arr, mine)
           gs == Append(w.fs, f)
<1>1. f \in LevelType /\ ~f.opened /\ f.n = 0
  BY NewLevel
<1>2. w.fs \in Seq(LevelType) /\ Len(w.fs) \in Nat
  BY LenProperties DEF Writer
<1>3. push(w, head, arr, mine) = [w EXCEPT !.fs = gs]
  BY DEF push
<1> HIDE DEF f
<1>4. /\ gs \in Seq(LevelType) /\ Len(gs) = Len(w.fs) + 1
      /\ \A j \in 1..Len(w.fs) : gs[j] = w.fs[j]
      /\ gs[Len(w.fs) + 1] = f
  BY <1>1, <1>2, AppendProperties
<1> HIDE DEF gs
<1>5. Shape(gs)
  <2> SUFFICES ASSUME NEW j \in 1..Len(w.fs) + 1
               PROVE  /\ j > 1 /\ gs[j].opened => gs[j - 1].opened /\ gs[j - 1].n > 0
                      /\ gs[j].n > 0 => gs[j].opened
    BY <1>4 DEF Shape
  <2>1. CASE j = Len(w.fs) + 1
    BY <1>1, <1>4, <2>1
  <2>2. CASE j \in 1..Len(w.fs)
    <3>1. j > 1 => j - 1 \in 1..Len(w.fs)
      BY <1>2, <2>2
    <3> QED
      BY <1>4, <2>2, <3>1 DEF Shape
  <2> QED
    BY <1>2, <2>1, <2>2
<1>6. [w EXCEPT !.fs = gs] \in Writer /\ [w EXCEPT !.fs = gs].fs = gs
      /\ [w EXCEPT !.fs = gs].out = w.out
  BY <1>4 DEF Writer
<1> QED
  BY <1>3, <1>5, <1>6 DEF gs, f

LEMMA TrailOK ==
    ASSUME NEW w \in Writer, Shape(w.fs), NEW ws \in Spaces
    PROVE  /\ trailWs(w, ws) \in Writer /\ trailWs(w, ws).out = w.out
           /\ Shape(trailWs(w, ws).fs) /\ SameHands(trailWs(w, ws).fs, w.fs)
<1>1. w.fs \in Seq(LevelType) /\ Len(w.fs) \in Nat
  BY LenProperties DEF Writer
<1>2. CASE w.fs = <<>>
  BY <1>2 DEF trailWs, SameHands
<1>3. CASE w.fs # <<>>
  <2> DEFINE l  == Len(w.fs)
             f  == w.fs[l]
             g  == [f EXCEPT !.trail = ws]
             gs == [w.fs EXCEPT ![l] = g]
             u  == [w EXCEPT !.fs = gs]
  <2>1. trailWs(w, ws) = u
    BY <1>3 DEF trailWs
  <2>2. l \in 1..Len(w.fs)
    BY <1>1, <1>3, EmptySeq
  <2>3. f \in LevelType
    BY <1>1, <2>2, ElementOfSeq
  <2>4. g \in LevelType /\ g.opened = f.opened /\ g.n = f.n /\ g.mine = f.mine
    <3> HIDE DEF f
    <3> QED
      BY <2>3 DEF LevelType
  <2> HIDE DEF g, l
  <2>5. Replaces(gs, w.fs, l, g)
    BY <1>1, <2>2, <2>4, Replaced
  <2> HIDE DEF gs
  <2>6. u \in Writer /\ u.fs = gs /\ u.out = w.out
    BY <2>5 DEF Writer, Replaces
  <2>7. \A j \in 1..Len(w.fs) : /\ gs[j].opened = w.fs[j].opened
                                /\ gs[j].n = w.fs[j].n /\ gs[j].mine = w.fs[j].mine
    BY <2>2, <2>4, <2>5 DEF Replaces
  <2>8. Shape(gs)
    <3>1. \A j \in 1..Len(w.fs) : j > 1 => j - 1 \in 1..Len(w.fs)
      BY <1>1
    <3> QED
      BY <2>5, <2>7, <3>1 DEF Shape, Replaces
  <2> HIDE DEF u
  <2> QED
    BY <2>1, <2>5, <2>6, <2>7, <2>8 DEF SameHands, Replaces
<1> QED
  BY <1>2, <1>3

-----------------------------------------------------------------------------
(* The history. *)

LEMMA IsListing ==
    ASSUME NEW S, NEW k \in Seq(S)
    PROVE  Listing(k)
<1> DEFINE R == {k[l] : l \in DOMAIN k}
<1>1. Len(k) \in Nat /\ DOMAIN k = 1..Len(k) /\ k = [l \in 1..Len(k) |-> k[l]]
  BY LenProperties
<1>2. k \in [1..Len(k) -> R]
  BY <1>1
<1> HIDE DEF R
<1>3. k \in Seq(R)
  BY <1>1, <1>2
<1> QED
  BY <1>3 DEF Listing, R

LEMMA ListingChanged ==
    ASSUME NEW k, Listing(k), NEW l \in 1..Len(k), NEW x
    PROVE  Listing([k EXCEPT ![l] = x]) /\ Len([k EXCEPT ![l] = x]) = Len(k)
<1> DEFINE R == {k[j] : j \in DOMAIN k}
           T == R \union {x}
<1>1. k \in Seq(T)
  BY SeqMonotonic DEF Listing
<1> HIDE DEF T
<1>2. x \in T
  BY DEF T
<1>3. [k EXCEPT ![l] = x] \in Seq(T) /\ Len([k EXCEPT ![l] = x]) = Len(k)
  BY <1>1, <1>2, ExceptSeq
<1> QED
  BY <1>3, IsListing

LEMMA EnteredKids ==
    ASSUME NEW k, Listing(k), NEW l \in 1..Len(k), NEW text
    PROVE  Listing(Entered(k, l, text)) /\ Len(Entered(k, l, text)) = Len(k)
<1> DEFINE x == [k[l] EXCEPT !.members = Append(@, Bare(text))]
<1>1. Entered(k, l, text) = [k EXCEPT ![l] = x]
  BY DEF Entered
<1> HIDE DEF x
<1>2. Listing([k EXCEPT ![l] = x]) /\ Len([k EXCEPT ![l] = x]) = Len(k)
  BY ListingChanged
<1> QED
  BY <1>1, <1>2, Zenon

LEMMA ForcedKids ==
    ASSUME NEW k, Listing(k), NEW l \in 1..Len(k)
    PROVE  Listing(Forced(k, l)) /\ Len(Forced(k, l)) = Len(k)
<1> DEFINE x == [k[l] EXCEPT !.forced = TRUE]
<1>1. Forced(k, l) = [k EXCEPT ![l] = x]
  BY DEF Forced
<1> HIDE DEF x
<1>2. Listing([k EXCEPT ![l] = x]) /\ Len([k EXCEPT ![l] = x]) = Len(k)
  BY ListingChanged
<1> QED
  BY <1>1, <1>2, Zenon

LEMMA PushedKids ==
    ASSUME NEW k, Listing(k), NEW x
    PROVE  Listing(Append(k, x)) /\ Len(Append(k, x)) = Len(k) + 1
<1> DEFINE R == {k[j] : j \in DOMAIN k}
           T == R \union {x}
<1>1. k \in Seq(T)
  BY SeqMonotonic DEF Listing
<1> HIDE DEF T
<1>2. x \in T
  BY DEF T
<1>3. Append(k, x) \in Seq(T) /\ Len(Append(k, x)) = Len(k) + 1
  BY <1>1, <1>2, AppendProperties
<1> QED
  BY <1>3, IsListing

\* A level that is closed is a member of the one around it, or was nothing.
LEMMA SealedKids ==
    ASSUME NEW k, Listing(k), Len(k) >= 1, NEW fs
    PROVE  /\ Listing(Sealed(k, fs))
           /\ Len(k) > 1 => Len(Sealed(k, fs)) = Len(k) - 1
<1> DEFINE n    == Len(k)
           text == LevelText(k, fs, n) \o Closing(fs[n].isArr)
           R    == {k[j] : j \in DOMAIN k}
<1>1. k \in Seq(R)
  BY DEF Listing
<1>2. Len(k) \in Nat /\ k # <<>>
  <2> HIDE DEF R
  <2> QED
    BY <1>1, LenProperties
<1>3. Listing(Front(k)) /\ Len(Front(k)) = n - 1
  <2> HIDE DEF R
  <2> QED
    BY <1>1, <1>2, FrontOK, IsListing
<1>4. Sealed(k, fs) = IF n = 1 THEN Entered(<<NoKids>>, 1, text)
                      ELSE IF Exists(k, n) THEN Entered(Front(k), n - 1, text)
                      ELSE Front(k)
  BY DEF Sealed
<1> HIDE DEF text
<1>5. CASE n = 1
  <2>1. Listing(<<NoKids>>) /\ 1 \in 1..Len(<<NoKids>>)
    <3>1. <<NoKids>> \in Seq({NoKids}) /\ Len(<<NoKids>>) = 1
      OBVIOUS
    <3>2. Listing(<<NoKids>>)
      BY <3>1, IsListing, Zenon
    <3> QED
      BY <3>1, <3>2
  <2> QED
    BY <1>4, <1>5, <2>1, EnteredKids
<1>6. CASE n # 1
  <2>1. n - 1 \in 1..Len(Front(k))
    BY <1>2, <1>3, <1>6
  <2>2. Listing(Entered(Front(k), n - 1, text))
        /\ Len(Entered(Front(k), n - 1, text)) = n - 1
    BY <1>3, <2>1, EnteredKids
  <2> QED
    BY <1>3, <1>4, <1>6, <2>2
<1> QED
  BY <1>5, <1>6

-----------------------------------------------------------------------------
(* Frames and levels in step. *)

\* A set of places that gains the next one or not.
LEMMA Grows ==
    ASSUME NEW n \in Nat, NEW A \in SUBSET (1..n), NEW B,
           NEW more \in BOOLEAN, B = IF more THEN A \union {n + 1} ELSE A
    PROVE  Cardinality(B) = Cardinality(A) + (IF more THEN 1 ELSE 0)
<1>1. IsFiniteSet(A)
  <2>1. IsFiniteSet(1..n)
    BY FS_Interval
  <2> QED
    BY <2>1, FS_Subset
<1>2. n + 1 \notin A
  OBVIOUS
<1>3. Cardinality(A) \in Nat
  BY <1>1, FS_CardinalityType
<1>4. Cardinality(A \union {n + 1}) = Cardinality(A) + 1
  BY <1>1, <1>2, FS_AddElement
<1> QED
  BY <1>3, <1>4

LEMMA TheirsPushed ==
    ASSUME NEW ls \in Seq(LevelType), NEW f \in LevelType
    PROVE  Cardinality(Theirs(Append(ls, f))) =
               Cardinality(Theirs(ls)) + (IF f.mine THEN 0 ELSE 1)
<1> DEFINE n == Len(ls)
           more == ~f.mine
<1>1. n \in Nat /\ more \in BOOLEAN /\ Theirs(ls) \subseteq 1..n
  BY LenProperties DEF Theirs
<1>2. /\ Len(Append(ls, f)) = n + 1
      /\ \A j \in 1..n : Append(ls, f)[j] = ls[j]
      /\ Append(ls, f)[n + 1] = f
  BY AppendProperties
<1>3. 1..n + 1 = (1..n) \union {n + 1}
  BY <1>1
<1>4. Theirs(Append(ls, f)) = IF more THEN Theirs(ls) \union {n + 1} ELSE Theirs(ls)
  BY <1>1, <1>2, <1>3 DEF Theirs
<1> HIDE DEF more, n
<1>5. Cardinality(Theirs(Append(ls, f))) =
          Cardinality(Theirs(ls)) + (IF more THEN 1 ELSE 0)
  BY <1>1, <1>4, Grows, SMTT(40)
<1> QED
  BY <1>5 DEF more

LEMMA TheirsPopped ==
    ASSUME NEW ls \in Seq(LevelType), ls # <<>>
    PROVE  Cardinality(Theirs(ls)) =
               Cardinality(Theirs(Front(ls))) + (IF Last(ls).mine THEN 0 ELSE 1)
<1> DEFINE n == Len(ls) - 1
           more == ~ls[n + 1].mine
           fr == Front(ls)
<1>1. /\ fr \in Seq(LevelType) /\ Len(fr) = n
      /\ \A j \in 1..n : fr[j] = ls[j]
      /\ Len(ls) \in Nat \ {0}
  BY FrontOK
<1>2. n \in Nat /\ Len(ls) = n + 1 /\ more \in BOOLEAN /\ Theirs(fr) \subseteq 1..n
  BY <1>1 DEF Theirs
<1>3. 1..n + 1 = (1..n) \union {n + 1}
  BY <1>2
<1>4. Last(ls) = ls[n + 1]
  BY <1>2 DEF Last
<1> HIDE DEF fr, n
<1>5. Theirs(ls) = IF more THEN Theirs(fr) \union {n + 1} ELSE Theirs(fr)
  BY <1>1, <1>2, <1>3 DEF Theirs
<1>6. Cardinality(Theirs(ls)) = Cardinality(Theirs(fr)) + (IF more THEN 1 ELSE 0)
  <2> HIDE DEF more
  <2> QED
    BY <1>2, <1>5, Grows
<1> QED
  BY <1>4, <1>6 DEF fr

LEMMA TheirsKept ==
    ASSUME NEW ls, NEW ms, SameHands(ms, ls)
    PROVE  Theirs(ms) = Theirs(ls)
BY DEF SameHands, Theirs

LEMMA EnteringPushed ==
    ASSUME NEW fs \in Seq(FrameType), NEW f \in FrameType
    PROVE  Cardinality(Entering(Append(fs, f))) =
               Cardinality(Entering(fs)) + (IF f.flat THEN 0 ELSE 1)
<1> DEFINE n == Len(fs)
           more == ~f.flat
<1>1. n \in Nat /\ more \in BOOLEAN /\ Entering(fs) \subseteq 1..n
  BY LenProperties DEF Entering
<1>2. /\ Len(Append(fs, f)) = n + 1
      /\ \A j \in 1..n : Append(fs, f)[j] = fs[j]
      /\ Append(fs, f)[n + 1] = f
  BY AppendProperties
<1>3. 1..n + 1 = (1..n) \union {n + 1}
  BY <1>1
<1>4. Entering(Append(fs, f)) =
          IF more THEN Entering(fs) \union {n + 1} ELSE Entering(fs)
  BY <1>1, <1>2, <1>3 DEF Entering
<1> HIDE DEF more, n
<1>5. Cardinality(Entering(Append(fs, f))) =
          Cardinality(Entering(fs)) + (IF more THEN 1 ELSE 0)
  BY <1>1, <1>4, Grows
<1> QED
  BY <1>5 DEF more

LEMMA EnteringPopped ==
    ASSUME NEW fs \in Seq(FrameType), fs # <<>>
    PROVE  Cardinality(Entering(fs)) =
               Cardinality(Entering(Front(fs))) + (IF Last(fs).flat THEN 0 ELSE 1)
<1> DEFINE n == Len(fs) - 1
           more == ~fs[n + 1].flat
           fr == Front(fs)
<1>1. /\ fr \in Seq(FrameType) /\ Len(fr) = n
      /\ \A j \in 1..n : fr[j] = fs[j]
      /\ Len(fs) \in Nat \ {0}
  BY FrontOK
<1>2. n \in Nat /\ Len(fs) = n + 1 /\ more \in BOOLEAN /\ Entering(fr) \subseteq 1..n
  BY <1>1 DEF Entering
<1>3. 1..n + 1 = (1..n) \union {n + 1}
  BY <1>2
<1>4. Last(fs) = fs[n + 1]
  BY <1>2 DEF Last
<1> HIDE DEF fr, n
<1>5. Entering(fs) = IF more THEN Entering(fr) \union {n + 1} ELSE Entering(fr)
  BY <1>1, <1>2, <1>3 DEF Entering
<1>6. Cardinality(Entering(fs)) = Cardinality(Entering(fr)) + (IF more THEN 1 ELSE 0)
  <2> HIDE DEF more
  <2> QED
    BY <1>2, <1>5, Grows
<1> QED
  BY <1>4, <1>6 DEF fr

LEMMA Counts ==
    ASSUME NEW fs \in Seq(FrameType), NEW ls \in Seq(LevelType)
    PROVE  Cardinality(Entering(fs)) \in Nat /\ Cardinality(Theirs(ls)) \in Nat
<1>1. Entering(fs) \subseteq 1..Len(fs) /\ Theirs(ls) \subseteq 1..Len(ls)
      /\ Len(fs) \in Nat /\ Len(ls) \in Nat
  BY LenProperties DEF Entering, Theirs
<1>2. IsFiniteSet(1..Len(fs)) /\ IsFiniteSet(1..Len(ls))
  BY <1>1, FS_Interval
<1> QED
  BY <1>1, <1>2, FS_Subset, FS_CardinalityType

-----------------------------------------------------------------------------
(* The steps. *)

LEMMA ReadsOK ==
    ASSUME TypesOK, NEW t \in Seq(Tokens), NEW stays \in BOOLEAN, Reads(t, stays)
    PROVE  /\ read' \in 0..MaxInput /\ inp' \in Seq(Tokens) /\ plain' \in BOOLEAN
<1>1. read' \in 0..MaxInput
  <2>1. read \in 0..MaxInput /\ MaxInput \in Nat /\ Len(t) \in Nat
    BY LenProperties, LevelsAssumption DEF TypesOK
  <2>2. read + Len(t) <= MaxInput /\ read' = read + Len(t)
    BY DEF Reads
  <2> QED
    BY <2>1, <2>2
<1>2. plain' \in BOOLEAN
  <2>1. plain' = (plain /\ stays)
    BY DEF Reads
  <2> QED
    BY <2>1, Zenon
<1>3. inp' \in Seq(Tokens)
  <2>1. inp \o t \in Seq(Tokens) /\ <<>> \in Seq(Tokens)
    BY ConcatProperties DEF TypesOK
  <2> QED
    BY <2>1 DEF Reads
<1> QED
  BY <1>1, <1>2, <1>3

LEMMA WriterOK ==
    ASSUME TypesOK
    PROVE  W \in Writer /\ W.fs = levels /\ W.out = out
BY DEF TypesOK, W, Writer

LEMMA HeadOK ==
    ASSUME NEW ws \in Spaces, NEW renamed
    PROVE  HeadRaw(ws) \in Seq(Tokens) /\ HeadAs(ws, renamed) \in Seq(Tokens)
<1>1. ws \in Seq(Tokens) /\ <<"k">> \in Seq(Tokens) /\ <<"r">> \in Seq(Tokens)
  BY Texts
<1>2. ws \o <<"k">> \in Seq(Tokens)
  BY <1>1, ConcatProperties
<1> QED
  BY <1>1, <1>2 DEF HeadRaw, HeadAs

\* After a value its frame waits for a comma.
LEMMA FollowedOK ==
    ASSUME TypesOK, Len(frames) >= 1, NEW p \in {"first", "comma", "next"},
           NEW fs, fs = [frames EXCEPT ![Len(frames)].ph = p]
    PROVE  /\ fs \in Seq(FrameType) /\ Len(fs) = Len(frames)
           /\ \A j \in 1..Len(frames) : fs[j].flat = frames[j].flat
           /\ Entering(fs) = Entering(frames)
<1> DEFINE l == Len(frames)
           f == frames[l]
           g == [f EXCEPT !.ph = p]
<1>1. frames \in Seq(FrameType) /\ l \in Nat /\ l \in 1..Len(frames)
  BY LenProperties DEF TypesOK
<1>2. f \in FrameType
  BY <1>1, ElementOfSeq
<1>3. g \in FrameType /\ g.flat = f.flat
  <2> HIDE DEF f
  <2> QED
    BY <1>2 DEF FrameType
<1>4. fs = [frames EXCEPT ![l] = g]
  OBVIOUS
<1> HIDE DEF g
<1>5. /\ fs \in Seq(FrameType) /\ Len(fs) = Len(frames)
      /\ \A j \in 1..Len(frames) : fs[j] = IF j = l THEN g ELSE frames[j]
  BY <1>1, <1>3, <1>4, ExceptSeq
<1>6. \A j \in 1..Len(frames) : fs[j].flat = frames[j].flat
  BY <1>3, <1>5
<1> QED
  BY <1>5, <1>6 DEF Entering

LEMMA InitInv == Init => IInv
<1> SUFFICES ASSUME Init PROVE IInv
  OBVIOUS
<1>1. TypesOK
  <2>1. dead \in BOOLEAN /\ plain \in BOOLEAN
    BY Zenon DEF Init
  <2> QED
    BY <2>1, LevelsAssumption DEF Init, TypesOK, Spaces
<1>2. Shape(levels)
  BY DEF Init, Shape
<1>3. Listing(kids)
  <2>1. kids \in Seq({1})
    BY DEF Init
  <2> QED
    BY <2>1, IsListing
<1> QED
  BY <1>1, <1>2, <1>3 DEF IInv, Init, InStep, KidsOK

\* The stack of an open or finished document: what every step may rest on.
LEMMA Standing ==
    ASSUME IInv, root \in {"open", "done"}
    PROVE  /\ TypesOK /\ W \in Writer /\ W.fs = levels /\ W.out = out
           /\ Shape(W.fs)
           /\ levels \in Seq(LevelType) /\ levels # <<>>
           /\ Len(levels) \in Nat \ {0} /\ Len(levels) \in 1..Len(levels)
           /\ ~levels[1].mine
           /\ Listing(kids) /\ Len(kids) = Len(levels)
<1>1. TypesOK /\ W \in Writer /\ W.fs = levels /\ W.out = out
  BY WriterOK DEF IInv
<1>2. levels \in Seq(LevelType) /\ Len(levels) >= 1 /\ ~levels[1].mine
  BY DEF IInv, TypesOK, InStep
<1>3. Len(levels) \in Nat
  BY <1>2, LenProperties
<1>4. levels # <<>> /\ Len(levels) \in 1..Len(levels) /\ Len(levels) # 0
  BY <1>2, <1>3
<1> QED
  BY <1>1, <1>2, <1>3, <1>4 DEF IInv, KidsOK

\* u is a writer a document in the state root2 may stand with, k its history.
StackOK(u, k, root2) ==
    /\ u \in Writer /\ Shape(u.fs) /\ Listing(k)
    /\ root2 \in {"open", "done"} =>
        /\ Len(k) = Len(u.fs) /\ Len(u.fs) >= 1 /\ ~u.fs[1].mine

\* A step of a hook keeps the frames, the types and the count.
LEMMA HookInv ==
    ASSUME IInv, HookCall, NEW u, StackOK(u, kids', root),
           out' = u.out, levels' = u.fs,
           Cardinality(Theirs(u.fs)) = Cardinality(Theirs(levels))
    PROVE  IInv'
<1>1. /\ root \in {"open", "done"} /\ root' = root /\ frames' = frames
      /\ closeWs' = closeWs /\ dead' = dead /\ read' = read /\ inp' = <<>>
      /\ calls < MaxHooks /\ calls' = calls + 1 /\ plain' = FALSE
  BY DEF HookCall
<1>2. plain' \in BOOLEAN /\ inp' \in Seq(Tokens)
  <2>1. plain' \in BOOLEAN
    BY <1>1, Zenon
  <2> QED
    BY <1>1, <2>1
<1>3. calls' \in 0..MaxHooks
  BY <1>1, LevelsAssumption DEF IInv, TypesOK
<1>4. u.out \in Seq(Tokens) /\ u.fs \in Seq(LevelType)
  BY DEF StackOK, Writer
<1>5. TypesOK'
  BY <1>1, <1>2, <1>3, <1>4 DEF IInv, TypesOK
<1>6. InStep'
  BY <1>1 DEF IInv, InStep, StackOK
<1>7. Shape(levels') /\ KidsOK'
  BY <1>1 DEF StackOK, KidsOK
<1> QED
  BY <1>5, <1>6, <1>7 DEF IInv

LEMMA SameHandsCount ==
    ASSUME NEW gs, NEW fs \in Seq(LevelType), Len(fs) >= 1, ~fs[1].mine,
           SameHands(gs, fs)
    PROVE  /\ Cardinality(Theirs(gs)) = Cardinality(Theirs(fs))
           /\ Len(gs) = Len(fs) /\ ~gs[1].mine
<1>1. Theirs(gs) = Theirs(fs)
  BY TheirsKept
<1>2. 1 \in 1..Len(fs)
  BY LenProperties
<1> QED
  BY <1>1, <1>2 DEF SameHands

LEMMA HookEntryInv ==
    ASSUME IInv, NEW l \in DOMAIN levels, HookEntry(l)
    PROVE  IInv'
<1>1. HookCall /\ root \in {"open", "done"}
  BY DEF HookEntry, HookCall
<1>2. /\ TypesOK /\ W \in Writer /\ W.fs = levels /\ W.out = out
      /\ Shape(W.fs)
      /\ levels \in Seq(LevelType) /\ levels # <<>>
      /\ Len(levels) \in Nat \ {0} /\ ~levels[1].mine
      /\ Listing(kids) /\ Len(kids) = Len(levels)
  BY <1>1, Standing
<1>3. l \in 1..Len(levels)
  BY <1>2, LenProperties
<1>4. CASE CanWriteAt(W, l)
  <2> DEFINE u == Entry(W, l, HookHead(l))
  <2>1. HookHead(l) \in Seq(Tokens)
    BY Texts DEF HookHead
  <2>2. u \in Writer /\ Shape(u.fs) /\ SameHands(u.fs, levels)
    BY <1>2, <1>3, <2>1, EntryOK
  <2>3. out' = u.out /\ levels' = u.fs
        /\ kids' = Entered(kids, l, HookHead(l) \o <<"v">>)
    BY <1>4 DEF HookEntry, Becomes
  <2>4. Listing(kids') /\ Len(kids') = Len(levels)
    BY <1>2, <1>3, <2>3, EnteredKids
  <2> HIDE DEF u
  <2>5. /\ Cardinality(Theirs(u.fs)) = Cardinality(Theirs(levels))
        /\ Len(u.fs) = Len(levels) /\ ~u.fs[1].mine
    BY <1>2, <2>2, SameHandsCount
  <2>6. StackOK(u, kids', root)
    BY <1>2, <2>2, <2>4, <2>5 DEF StackOK
  <2> QED
    BY <1>1, <2>3, <2>5, <2>6, HookInv
<1>5. CASE ~CanWriteAt(W, l)
  <2>1. out' = W.out /\ levels' = W.fs /\ kids' = kids
    BY <1>2, <1>5 DEF HookEntry
  <2>2. StackOK(W, kids', root)
    BY <1>2, <2>1 DEF StackOK
  <2> QED
    BY <1>1, <1>2, <2>1, <2>2, HookInv
<1> QED
  BY <1>4, <1>5

LEMMA HookPushInv ==
    ASSUME IInv, NEW arr \in BOOLEAN, HookPush(arr)
    PROVE  IInv'
<1>1. HookCall /\ root \in {"open", "done"}
  BY DEF HookPush, HookCall
<1>2. /\ TypesOK /\ W \in Writer /\ W.fs = levels /\ W.out = out
      /\ Shape(W.fs)
      /\ levels \in Seq(LevelType) /\ levels # <<>>
      /\ Len(levels) \in Nat \ {0} /\ ~levels[1].mine
      /\ Listing(kids) /\ Len(kids) = Len(levels)
  BY <1>1, Standing
<1> DEFINE head == HookHead(Len(levels))
           f == WFrame(head, arr, TRUE)
           u == push(W, head, arr, TRUE)
<1>3. head \in Seq(Tokens)
  BY Texts DEF HookHead
<1> HIDE DEF head
<1>4. f \in LevelType /\ f.mine
  <2>1. TRUE \in BOOLEAN
    OBVIOUS
  <2> QED
    BY <1>3, <2>1, NewLevel
<1>5. u \in Writer /\ Shape(u.fs) /\ u.fs = Append(levels, f)
  BY <1>2, <1>3, PushOK
<1>6. out' = u.out /\ levels' = u.fs /\ kids' = Append(kids, NoKids)
  BY DEF HookPush, Becomes, head
<1> HIDE DEF u, f
<1>7. Listing(kids') /\ Len(kids') = Len(levels) + 1
  BY <1>2, <1>6, PushedKids
<1>8. Len(u.fs) = Len(levels) + 1 /\ ~u.fs[1].mine
  <2>1. 1 \in 1..Len(levels)
    BY <1>2
  <2> QED
    BY <1>2, <1>4, <1>5, <2>1, AppendProperties
<1>9. Cardinality(Theirs(u.fs)) = Cardinality(Theirs(levels))
  <2>1. Cardinality(Theirs(levels)) \in Nat
    BY <1>2, Counts DEF TypesOK
  <2>2. Cardinality(Theirs(u.fs)) = Cardinality(Theirs(levels)) + 0
    BY <1>2, <1>4, <1>5, TheirsPushed
  <2> QED
    BY <2>1, <2>2
<1>10. StackOK(u, kids', root)
  BY <1>2, <1>5, <1>7, <1>8 DEF StackOK
<1> QED
  BY <1>1, <1>6, <1>9, <1>10, HookInv

LEMMA HookPopInv ==
    ASSUME IInv, HookPop
    PROVE  IInv'
<1>1. HookCall /\ root \in {"open", "done"} /\ Last(levels).mine
  BY DEF HookPop, HookCall
<1>2. /\ TypesOK /\ W \in Writer /\ W.fs = levels /\ W.out = out
      /\ Shape(W.fs)
      /\ levels \in Seq(LevelType) /\ levels # <<>>
      /\ Len(levels) \in Nat \ {0} /\ ~levels[1].mine
      /\ Listing(kids) /\ Len(kids) = Len(levels)
  BY <1>1, Standing
<1>3. Len(levels) > 1
  BY <1>1, <1>2 DEF Last
<1> DEFINE u == pop(W, <<>>)
<1>4. u \in Writer /\ Shape(u.fs) /\ u.fs = Front(levels)
  <2>1. <<>> \in Spaces
    BY DEF Spaces
  <2> QED
    BY <1>2, <2>1, PopOK
<1>5. out' = u.out /\ levels' = u.fs /\ kids' = Sealed(kids, levels)
  BY DEF HookPop, Becomes
<1> HIDE DEF u
<1>6. Listing(kids') /\ Len(kids') = Len(levels) - 1
  BY <1>2, <1>3, <1>5, SealedKids
<1>7. Len(u.fs) = Len(levels) - 1 /\ Len(u.fs) >= 1 /\ ~u.fs[1].mine
  <2>1. 1 \in 1..Len(levels) - 1
    BY <1>2, <1>3
  <2>2. Len(Front(levels)) = Len(levels) - 1 /\ Front(levels)[1] = levels[1]
    BY <1>2, <2>1, FrontOK
  <2> QED
    BY <1>2, <1>3, <1>4, <2>2
<1>8. Cardinality(Theirs(u.fs)) = Cardinality(Theirs(levels))
  <2>1. Front(levels) \in Seq(LevelType)
    BY <1>2, FrontOK
  <2>2. Cardinality(Theirs(Front(levels))) \in Nat
    BY <1>2, <2>1, Counts DEF TypesOK
  <2>3. Cardinality(Theirs(levels)) = Cardinality(Theirs(Front(levels))) + 0
    BY <1>1, <1>2, TheirsPopped
  <2> QED
    BY <1>4, <2>2, <2>3
<1>9. StackOK(u, kids', root)
  BY <1>2, <1>4, <1>6, <1>7 DEF StackOK
<1> QED
  BY <1>1, <1>5, <1>8, <1>9, HookInv

LEMMA HookOpenInv ==
    ASSUME IInv, HookOpen
    PROVE  IInv'
<1>1. HookCall /\ root \in {"open", "done"}
  BY DEF HookOpen, HookCall
<1>2. /\ TypesOK /\ W \in Writer /\ W.fs = levels /\ W.out = out
      /\ Shape(W.fs)
      /\ levels \in Seq(LevelType) /\ levels # <<>>
      /\ Len(levels) \in Nat \ {0} /\ Len(levels) \in 1..Len(levels)
      /\ ~levels[1].mine
      /\ Listing(kids) /\ Len(kids) = Len(levels)
  BY <1>1, Standing
<1> DEFINE u == ensureOpen(W, Len(levels))
<1>3. OpenTo(W, Len(levels), u)
  BY <1>2, EnsureOpened
<1>4. out' = u.out /\ levels' = u.fs /\ kids' = Forced(kids, Len(kids))
  BY DEF HookOpen, Becomes
<1> HIDE DEF u
<1>5. u \in Writer /\ Shape(u.fs) /\ SameHands(u.fs, levels)
  BY <1>2, <1>3 DEF OpenTo, SameHands
<1>6. Listing(kids') /\ Len(kids') = Len(levels)
  BY <1>2, <1>4, ForcedKids
<1>7. /\ Cardinality(Theirs(u.fs)) = Cardinality(Theirs(levels))
      /\ Len(u.fs) = Len(levels) /\ ~u.fs[1].mine
  BY <1>2, <1>5, SameHandsCount
<1>8. StackOK(u, kids', root)
  BY <1>2, <1>5, <1>6, <1>7 DEF StackOK
<1> QED
  BY <1>1, <1>4, <1>7, <1>8, HookInv

\* The root's bracket: the first level and the first frame.
LEMMA RootInv ==
    ASSUME IInv, NEW ws \in Spaces, NEW arr \in BOOLEAN, Root(ws, arr)
    PROVE  IInv'
<1> DEFINE w == [W EXCEPT !.out = @ \o ws]
           f == WFrame(<<>>, arr, FALSE)
           u == push(w, <<>>, arr, FALSE)
           fr == NewFrame(arr, FALSE, FALSE)
<1>1. /\ root = "none" /\ Reads(ws \o Opening(arr), TRUE) /\ root' = "open"
      /\ frames' = <<fr>> /\ out' = u.out /\ levels' = u.fs
      /\ kids' = <<NoKids>> /\ closeWs' = closeWs /\ dead' = dead /\ calls' = calls
  BY DEF Root, Becomes
<1>2. TypesOK /\ W \in Writer /\ W.fs = levels /\ W.out = out /\ levels = <<>>
  BY <1>1, WriterOK DEF IInv, InStep
<1>3. ws \in Seq(Tokens) /\ Opening(arr) \in Seq(Tokens) /\ <<>> \in Seq(Tokens)
  BY Texts
<1>4. ws \o Opening(arr) \in Seq(Tokens) /\ out \o ws \in Seq(Tokens)
  BY <1>2, <1>3, ConcatProperties DEF TypesOK
<1>5. w \in Writer /\ w.fs = levels /\ Shape(w.fs)
  BY <1>2, <1>4 DEF Writer, IInv
<1> HIDE DEF w
<1>6. FALSE \in BOOLEAN /\ TRUE \in BOOLEAN
  OBVIOUS
<1>7. f \in LevelType /\ ~f.mine
  BY <1>3, <1>6, NewLevel
<1>8. u \in Writer /\ Shape(u.fs) /\ u.fs = Append(levels, f)
  BY <1>3, <1>5, <1>6, PushOK
<1> HIDE DEF u, f
<1>9. fr \in FrameType /\ ~fr.flat
  BY DEF NewFrame, FrameType
<1> HIDE DEF fr
<1>10. /\ read' \in 0..MaxInput /\ inp' \in Seq(Tokens) /\ plain' \in BOOLEAN
  BY <1>1, <1>2, <1>4, <1>6, ReadsOK
<1>11. TypesOK'
  <2>1. <<fr>> \in Seq(FrameType)
    BY <1>9
  <2>2. u.out \in Seq(Tokens) /\ u.fs \in Seq(LevelType)
    BY <1>8 DEF Writer
  <2> QED
    BY <1>1, <1>2, <1>10, <2>1, <2>2 DEF TypesOK
<1>12. u.fs = <<f>>
  BY <1>2, <1>7, <1>8
<1>13. InStep'
  <2>1. Entering(<<fr>>) = {1}
    <3>1. Len(<<fr>>) = 1 /\ <<fr>>[1] = fr
      OBVIOUS
    <3> QED
      BY <1>9, <3>1 DEF Entering
  <2>2. Theirs(<<f>>) = {1}
    <3>1. Len(<<f>>) = 1 /\ <<f>>[1] = f
      OBVIOUS
    <3> QED
      BY <1>7, <3>1 DEF Theirs
  <2>3. Len(<<fr>>) = 1 /\ Len(<<f>>) = 1 /\ <<fr>>[1] = fr /\ <<f>>[1] = f
    OBVIOUS
  <2> QED
    BY <1>1, <1>7, <1>9, <1>12, <2>1, <2>2, <2>3 DEF InStep
<1>14. KidsOK'
  <2>1. <<NoKids>> \in Seq({NoKids}) /\ Len(<<NoKids>>) = 1 /\ Len(<<f>>) = 1
    OBVIOUS
  <2>2. Listing(<<NoKids>>)
    BY <2>1, IsListing, Zenon
  <2> QED
    BY <1>1, <1>12, <2>1, <2>2 DEF KidsOK
<1> QED
  BY <1>1, <1>8, <1>11, <1>13, <1>14 DEF IInv

\* A value of the input that writes at level l or nothing: its frame has it,
\* the stack is as high as before.
LEMMA ValueInv ==
    ASSUME IInv, root = "open", NEW t \in Seq(Tokens), NEW stays \in BOOLEAN,
           Reads(t, stays), frames' = Followed, root' = root,
           closeWs' = closeWs, calls' = calls, dead' \in BOOLEAN,
           NEW u, StackOK(u, kids', root), out' = u.out, levels' = u.fs,
           Cardinality(Theirs(u.fs)) = Cardinality(Theirs(levels))
    PROVE  IInv'
<1>1. TypesOK /\ Len(frames) >= 1 /\ ~frames[1].flat
      /\ Cardinality(Entering(frames)) = Cardinality(Theirs(levels))
  BY DEF IInv, InStep
<1>2. /\ Followed \in Seq(FrameType) /\ Len(Followed) = Len(frames)
      /\ \A j \in 1..Len(frames) : Followed[j].flat = frames[j].flat
      /\ Entering(Followed) = Entering(frames)
  BY <1>1, FollowedOK DEF Followed
<1>3. 1 \in 1..Len(frames)
  BY <1>1, LenProperties DEF TypesOK
<1>4. /\ read' \in 0..MaxInput /\ inp' \in Seq(Tokens) /\ plain' \in BOOLEAN
  BY <1>1, ReadsOK
<1>5. u.out \in Seq(Tokens) /\ u.fs \in Seq(LevelType)
  BY DEF StackOK, Writer
<1>6. TypesOK'
  BY <1>1, <1>2, <1>4, <1>5 DEF TypesOK
<1>7. InStep'
  BY <1>1, <1>2, <1>3 DEF InStep, StackOK
<1>8. Shape(levels') /\ KidsOK'
  BY DEF StackOK, KidsOK
<1> QED
  BY <1>6, <1>7, <1>8 DEF IInv

LEMMA DropInv ==
    ASSUME IInv, NEW ws \in Spaces, Drop(ws)
    PROVE  IInv'
<1>1. root = "open" /\ Reads(HeadRaw(ws) \o <<"v">>, FALSE) /\ frames' = Followed
      /\ root' = root /\ closeWs' = closeWs /\ calls' = calls /\ dead' = dead
      /\ out' = out /\ levels' = levels /\ kids' = kids
  BY DEF Drop, ValueMay
<1>2. /\ TypesOK /\ W \in Writer /\ W.fs = levels /\ W.out = out
      /\ Shape(W.fs)
      /\ Len(levels) \in Nat \ {0} /\ ~levels[1].mine
      /\ Listing(kids) /\ Len(kids) = Len(levels)
  BY <1>1, Standing
<1>3. HeadRaw(ws) \o <<"v">> \in Seq(Tokens)
  <2>1. HeadRaw(ws) \in Seq(Tokens) /\ <<"v">> \in Seq(Tokens)
    BY HeadOK, Texts
  <2> QED
    BY <2>1, ConcatProperties
<1>4. StackOK(W, kids', root)
  BY <1>1, <1>2 DEF StackOK
<1>5. dead' \in BOOLEAN /\ FALSE \in BOOLEAN
  <2>1. dead \in BOOLEAN
    BY <1>2 DEF TypesOK
  <2> QED
    BY <1>1, <2>1, Zenon
<1> QED
  BY <1>1, <1>2, <1>3, <1>4, <1>5, ValueInv

LEMMA PassAtInv ==
    ASSUME IInv, NEW ws \in Spaces, NEW l \in DOMAIN levels,
           NEW renamed \in BOOLEAN, PassAt(ws, l, renamed)
    PROVE  IInv'
<1> DEFINE stays == (l = Len(levels) /\ ~renamed)
           t     == HeadRaw(ws) \o <<"v">>
           head  == HeadAs(ws, renamed)
<1>1. root = "open" /\ Reads(t, stays) /\ frames' = Followed
      /\ root' = root /\ closeWs' = closeWs /\ calls' = calls
  BY DEF PassAt, ValueMay
<1>2. /\ TypesOK /\ W \in Writer /\ W.fs = levels /\ W.out = out
      /\ Shape(W.fs)
      /\ levels \in Seq(LevelType) /\ levels # <<>>
      /\ Len(levels) \in Nat \ {0} /\ ~levels[1].mine
      /\ Listing(kids) /\ Len(kids) = Len(levels)
  BY <1>1, Standing
<1>3. l \in 1..Len(levels)
  BY <1>2, LenProperties
<1>4. t \in Seq(Tokens) /\ head \in Seq(Tokens)
  <2>1. HeadRaw(ws) \in Seq(Tokens) /\ <<"v">> \in Seq(Tokens) /\ head \in Seq(Tokens)
    BY HeadOK, Texts
  <2> QED
    BY <2>1, ConcatProperties
<1>5. stays \in BOOLEAN
  OBVIOUS
<1>6. CASE CanWriteAt(W, l)
  <2> DEFINE u == Entry(W, l, head)
  <2>1. u \in Writer /\ Shape(u.fs) /\ SameHands(u.fs, levels)
    BY <1>2, <1>3, <1>4, EntryOK
  <2>2. out' = u.out /\ levels' = u.fs /\ kids' = Entered(kids, l, head \o <<"v">>)
        /\ dead' = dead
    BY <1>6 DEF PassAt, Becomes
  <2>3. Listing(kids') /\ Len(kids') = Len(levels)
    BY <1>2, <1>3, <2>2, EnteredKids
  <2> HIDE DEF u, stays, t, head
  <2>4. /\ Cardinality(Theirs(u.fs)) = Cardinality(Theirs(levels))
        /\ Len(u.fs) = Len(levels) /\ ~u.fs[1].mine
    BY <1>2, <2>1, SameHandsCount
  <2>5. StackOK(u, kids', root)
    BY <1>2, <2>1, <2>3, <2>4 DEF StackOK
  <2>6. dead' \in BOOLEAN
    <3>1. dead \in BOOLEAN
      BY <1>2 DEF TypesOK
    <3> QED
      BY <2>2, <3>1, Zenon
  <2> QED
    BY <1>1, <1>4, <1>5, <2>2, <2>4, <2>5, <2>6, ValueInv
<1>7. CASE ~CanWriteAt(W, l)
  <2>1. out' = W.out /\ levels' = W.fs /\ kids' = kids /\ dead' = TRUE
    BY <1>2, <1>7 DEF PassAt
  <2>2. StackOK(W, kids', root)
    BY <1>2, <2>1 DEF StackOK
  <2>3. dead' \in BOOLEAN
    BY <2>1, Zenon
  <2> HIDE DEF stays, t
  <2> QED
    BY <1>1, <1>2, <1>4, <1>5, <2>1, <2>2, <2>3, ValueInv
<1> QED
  BY <1>6, <1>7

LEMMA EnterInv ==
    ASSUME IInv, NEW ws \in Spaces, NEW arr \in BOOLEAN, NEW flat \in BOOLEAN,
           NEW lazy \in BOOLEAN, NEW renamed \in BOOLEAN,
           Enter(ws, arr, flat, lazy, renamed)
    PROVE  IInv'
<1> DEFINE stays == (~flat /\ ~lazy /\ ~renamed)
           t     == HeadRaw(ws) \o Opening(arr)
           fr    == NewFrame(arr, flat, lazy)
           head  == HeadAs(ws, renamed)
           f     == WFrame(head, arr, FALSE)
           u     == push(W, head, arr, FALSE)
<1>1. root = "open" /\ Reads(t, stays) /\ frames' = Append(Followed, fr)
      /\ out' = out /\ root' = root /\ closeWs' = closeWs /\ dead' = dead
      /\ calls' = calls
  BY DEF Enter, ValueMay
<1>2. /\ TypesOK /\ W \in Writer /\ W.fs = levels /\ W.out = out
      /\ Shape(W.fs)
      /\ levels \in Seq(LevelType) /\ levels # <<>>
      /\ Len(levels) \in Nat \ {0} /\ ~levels[1].mine
      /\ Listing(kids) /\ Len(kids) = Len(levels)
  BY <1>1, Standing
<1>3. Len(frames) >= 1 /\ ~frames[1].flat /\ frames \in Seq(FrameType)
      /\ Cardinality(Entering(frames)) = Cardinality(Theirs(levels))
  BY <1>1 DEF IInv, InStep, TypesOK
<1>4. t \in Seq(Tokens) /\ head \in Seq(Tokens)
  <2>1. HeadRaw(ws) \in Seq(Tokens) /\ Opening(arr) \in Seq(Tokens)
        /\ head \in Seq(Tokens)
    BY HeadOK, Texts
  <2> QED
    BY <2>1, ConcatProperties
<1>5. stays \in BOOLEAN /\ FALSE \in BOOLEAN
  OBVIOUS
<1>6. fr \in FrameType /\ fr.flat = flat
  BY DEF NewFrame, FrameType
<1>7. /\ Followed \in Seq(FrameType) /\ Len(Followed) = Len(frames)
      /\ \A j \in 1..Len(frames) : Followed[j].flat = frames[j].flat
      /\ Entering(Followed) = Entering(frames)
  BY <1>2, <1>3, FollowedOK DEF Followed
<1> HIDE DEF fr, stays, t, head
<1>8. /\ frames' \in Seq(FrameType) /\ Len(frames') >= 1 /\ ~frames'[1].flat
      /\ Cardinality(Entering(frames')) =
             Cardinality(Entering(frames)) + (IF flat THEN 0 ELSE 1)
  <2>1. 1 \in 1..Len(Followed) /\ Len(Followed) \in Nat
    BY <1>3, <1>7, LenProperties
  <2>2. /\ frames' \in Seq(FrameType) /\ Len(frames') = Len(Followed) + 1
        /\ frames'[1] = Followed[1]
    BY <1>1, <1>6, <1>7, <2>1, AppendProperties
  <2>3. Cardinality(Entering(frames')) =
            Cardinality(Entering(Followed)) + (IF flat THEN 0 ELSE 1)
    BY <1>1, <1>6, <1>7, EnteringPushed
  <2> QED
    BY <1>3, <1>7, <2>1, <2>2, <2>3
<1>9. /\ read' \in 0..MaxInput /\ inp' \in Seq(Tokens) /\ plain' \in BOOLEAN
  BY <1>1, <1>2, <1>4, <1>5, ReadsOK
<1>10. levels' \in Seq(LevelType) => TypesOK'
  BY <1>1, <1>2, <1>8, <1>9 DEF TypesOK
<1>11. Cardinality(Entering(frames)) \in Nat /\ Cardinality(Theirs(levels)) \in Nat
  BY <1>2, <1>3, Counts
<1>12. CASE flat
  <2>1. levels' = levels /\ kids' = kids
    BY <1>12 DEF Enter
  <2>2. TypesOK' /\ Shape(levels') /\ KidsOK'
    BY <1>1, <1>2, <1>10, <2>1 DEF KidsOK
  <2>3. InStep'
    BY <1>1, <1>2, <1>3, <1>8, <1>11, <1>12, <2>1 DEF InStep
  <2> QED
    BY <2>2, <2>3 DEF IInv
<1>13. CASE ~flat
  <2>1. levels' = u.fs /\ kids' = Append(kids, NoKids)
    BY <1>13 DEF Enter, head
  <2>2. f \in LevelType /\ ~f.mine
    BY <1>4, <1>5, NewLevel
  <2>3. u \in Writer /\ Shape(u.fs) /\ u.fs = Append(levels, f)
    BY <1>2, <1>4, <1>5, PushOK
  <2> HIDE DEF u, f
  <2>4. Len(u.fs) = Len(levels) + 1 /\ u.fs \in Seq(LevelType) /\ ~u.fs[1].mine
    <3>1. 1 \in 1..Len(levels)
      BY <1>2
    <3> QED
      BY <1>2, <2>2, <2>3, <3>1, AppendProperties
  <2>5. Listing(kids') /\ Len(kids') = Len(levels) + 1
    BY <1>2, <2>1, PushedKids
  <2>6. Cardinality(Theirs(u.fs)) = Cardinality(Theirs(levels)) + 1
    BY <1>2, <2>2, <2>3, TheirsPushed
  <2>7. TypesOK' /\ Shape(levels') /\ KidsOK'
    BY <1>1, <1>2, <1>10, <2>1, <2>3, <2>4, <2>5 DEF KidsOK
  <2>8. InStep'
    BY <1>1, <1>2, <1>3, <1>8, <1>11, <1>13, <2>1, <2>4, <2>6 DEF InStep
  <2> QED
    BY <2>7, <2>8 DEF IInv
<1> QED
  BY <1>12, <1>13

LEMMA CommaInv ==
    ASSUME IInv, NEW ws \in Spaces, Comma(ws)
    PROVE  IInv'
<1> DEFINE u == trailWs(W, ws)
<1>1. root = "open" /\ Reads(ws \o <<",">>, TRUE) /\ root' = root
      /\ closeWs' = closeWs /\ dead' = dead /\ calls' = calls /\ kids' = kids
      /\ frames' = [frames EXCEPT ![Len(frames)].ph = "next"]
      /\ out' = u.out /\ levels' = u.fs
  BY DEF Comma, Becomes
<1>2. /\ TypesOK /\ W \in Writer /\ W.fs = levels /\ W.out = out
      /\ Shape(W.fs)
      /\ levels \in Seq(LevelType) /\ levels # <<>>
      /\ Len(levels) \in Nat \ {0} /\ ~levels[1].mine
      /\ Listing(kids) /\ Len(kids) = Len(levels)
  BY <1>1, Standing
<1>3. Len(frames) >= 1 /\ ~frames[1].flat
      /\ Cardinality(Entering(frames)) = Cardinality(Theirs(levels))
  BY <1>1 DEF IInv, InStep
<1>4. ws \o <<",">> \in Seq(Tokens) /\ TRUE \in BOOLEAN
  <2>1. ws \in Seq(Tokens) /\ <<",">> \in Seq(Tokens)
    BY Texts
  <2> QED
    BY <2>1, ConcatProperties
<1>5. u \in Writer /\ Shape(u.fs) /\ SameHands(u.fs, levels) /\ u.out = out
  BY <1>2, TrailOK
<1> HIDE DEF u
<1>6. /\ Cardinality(Theirs(u.fs)) = Cardinality(Theirs(levels))
      /\ Len(u.fs) = Len(levels) /\ ~u.fs[1].mine
  BY <1>2, <1>5, SameHandsCount
<1>7. /\ frames' \in Seq(FrameType) /\ Len(frames') = Len(frames)
      /\ \A j \in 1..Len(frames) : frames'[j].flat = frames[j].flat
      /\ Entering(frames') = Entering(frames)
  BY <1>1, <1>2, <1>3, FollowedOK
<1>8. /\ read' \in 0..MaxInput /\ inp' \in Seq(Tokens) /\ plain' \in BOOLEAN
  BY <1>1, <1>2, <1>4, ReadsOK
<1>9. TypesOK'
  BY <1>1, <1>2, <1>5, <1>7, <1>8 DEF TypesOK, Writer
<1>10. 1 \in 1..Len(frames)
  BY <1>2, <1>3, LenProperties DEF TypesOK
<1>11. InStep'
  <2>1. root' = "open" /\ levels' = u.fs
    BY <1>1
  <2>2. Len(frames') >= 1 /\ ~frames'[1].flat
    BY <1>3, <1>7, <1>10
  <2>3. Cardinality(Entering(frames')) = Cardinality(Theirs(levels'))
    BY <1>3, <1>6, <1>7, <2>1
  <2>4. Len(levels') >= 1 /\ ~levels'[1].mine
    BY <1>2, <1>6, <2>1
  <2> QED
    BY <2>1, <2>2, <2>3, <2>4 DEF InStep
<1>12. KidsOK' /\ Shape(levels')
  BY <1>1, <1>2, <1>5, <1>6 DEF KidsOK
<1> QED
  BY <1>9, <1>11, <1>12 DEF IInv

\* What closing a level leaves: the levels below it, by the same hands.
LEMMA LeaveOK ==
    ASSUME NEW w \in Writer, Shape(w.fs), w.fs # <<>>,
           NEW lazy \in BOOLEAN, NEW ws \in Spaces
    PROVE  /\ LeaveLevel(w, lazy, ws) \in Writer
           /\ Shape(LeaveLevel(w, lazy, ws).fs)
           /\ SameHands(LeaveLevel(w, lazy, ws).fs, Front(w.fs))
<1> DEFINE e == IF lazy THEN w ELSE ensureOpen(w, Len(w.fs))
<1>1. w.fs \in Seq(LevelType) /\ Len(w.fs) \in Nat \ {0}
  BY DEF Writer
<1>2. e \in Writer /\ Shape(e.fs) /\ SameHands(e.fs, w.fs)
  <2>1. CASE lazy
    BY <2>1 DEF SameHands
  <2>2. CASE ~lazy
    <3>1. Len(w.fs) \in 1..Len(w.fs)
      BY <1>1
    <3>2. OpenTo(w, Len(w.fs), ensureOpen(w, Len(w.fs)))
      BY <3>1, EnsureOpened
    <3> QED
      BY <2>2, <3>2 DEF OpenTo, SameHands
  <2> QED
    BY <2>1, <2>2
<1>3. LeaveLevel(w, lazy, ws) = pop(e, ws)
  BY DEF LeaveLevel
<1> HIDE DEF e
<1>4. e.fs \in Seq(LevelType) /\ Len(e.fs) = Len(w.fs) /\ e.fs # <<>>
  BY <1>1, <1>2 DEF Writer, SameHands
<1>5. /\ pop(e, ws) \in Writer /\ Shape(pop(e, ws).fs)
      /\ pop(e, ws).fs = Front(e.fs)
  BY <1>2, <1>4, PopOK
<1>6. SameHands(Front(e.fs), Front(w.fs))
  <2>1. /\ Len(Front(e.fs)) = Len(w.fs) - 1
        /\ \A j \in 1..Len(w.fs) - 1 : Front(e.fs)[j] = e.fs[j]
    BY <1>4, FrontOK
  <2>2. /\ Len(Front(w.fs)) = Len(w.fs) - 1
        /\ \A j \in 1..Len(w.fs) - 1 : Front(w.fs)[j] = w.fs[j]
    BY <1>1, FrontOK
  <2>3. \A j \in 1..Len(w.fs) - 1 : e.fs[j].mine = w.fs[j].mine
    BY <1>1, <1>2 DEF SameHands
  <2> QED
    BY <2>1, <2>2, <2>3 DEF SameHands
<1> QED
  BY <1>3, <1>5, <1>6

LEMMA CloseInv ==
    ASSUME IInv, NEW ws \in Spaces, Close(ws)
    PROVE  IInv'
<1>1. root = "open" /\ Reads(ws \o Closing(Top.arr), TRUE)
      /\ frames' = Front(frames) /\ (Top.flat \/ ~Last(levels).mine)
      /\ dead' = dead /\ calls' = calls
  BY DEF Close
<1>2. /\ TypesOK /\ W \in Writer /\ W.fs = levels /\ W.out = out
      /\ Shape(levels)
      /\ levels \in Seq(LevelType) /\ levels # <<>>
      /\ Len(levels) \in Nat \ {0} /\ Len(levels) \in 1..Len(levels)
      /\ ~levels[1].mine
      /\ Listing(kids) /\ Len(kids) = Len(levels)
  BY <1>1, Standing
<1>3. /\ Len(frames) >= 1 /\ ~frames[1].flat
      /\ Cardinality(Entering(frames)) = Cardinality(Theirs(levels))
  BY <1>1 DEF IInv, InStep
<1>4. ws \o Closing(Top.arr) \in Seq(Tokens) /\ TRUE \in BOOLEAN
  <2>1. ws \in Seq(Tokens) /\ Closing(Top.arr) \in Seq(Tokens)
    BY Texts
  <2> QED
    BY <2>1, ConcatProperties
<1>5. /\ frames \in Seq(FrameType) /\ frames # <<>> /\ Len(frames) \in Nat
      /\ frames' \in Seq(FrameType) /\ Len(frames') = Len(frames) - 1
      /\ \A j \in 1..Len(frames) - 1 : frames'[j] = frames[j]
      /\ Top \in FrameType
  <2>1. frames \in Seq(FrameType) /\ frames # <<>> /\ Len(frames) \in Nat
    BY <1>2, <1>3 DEF TypesOK
  <2> QED
    BY <1>1, <2>1, FrontOK DEF Top
<1>6. read' \in 0..MaxInput /\ inp' \in Seq(Tokens) /\ plain' \in BOOLEAN
  BY <1>1, <1>2, <1>4, ReadsOK
<1>7. Cardinality(Entering(frames)) =
          Cardinality(Entering(frames')) + (IF Top.flat THEN 0 ELSE 1)
      /\ Cardinality(Entering(frames')) \in Nat
  <2>1. Cardinality(Entering(frames)) =
            Cardinality(Entering(Front(frames)))
                + (IF Last(frames).flat THEN 0 ELSE 1)
    BY <1>5, EnteringPopped
  <2>2. Cardinality(Entering(frames')) \in Nat
    BY <1>2, <1>5, Counts
  <2> QED
    BY <1>1, <2>1, <2>2 DEF Top
<1>8. CASE Len(frames) = 1
  <2>1. /\ root' = "done" /\ closeWs' = ws
        /\ out' = out /\ levels' = levels /\ kids' = kids
    BY <1>8 DEF Close
  <2>2. Cardinality(Theirs(levels)) = 1
    <3>1. Entering(frames) = {1}
      BY <1>3, <1>8 DEF Entering
    <3> QED
      BY <1>3, <3>1, FS_Singleton
  <2>3. TypesOK' /\ Shape(levels') /\ KidsOK'
    BY <1>1, <1>2, <1>5, <1>6, <2>1 DEF TypesOK, KidsOK
  <2>4. InStep'
    BY <1>2, <2>1, <2>2 DEF InStep
  <2> QED
    BY <2>3, <2>4 DEF IInv
<1>9. CASE Len(frames) # 1
  <2>1. root' = "open" /\ closeWs' = closeWs
    BY <1>1, <1>9 DEF Close
  <2>2. Len(frames') >= 1 /\ ~frames'[1].flat
    <3>1. 1 \in 1..Len(frames) - 1
      BY <1>3, <1>5, <1>9
    <3> QED
      BY <1>3, <1>5, <3>1
  <2>3. CASE Top.flat
    <3>1. out' = out /\ levels' = levels /\ kids' = kids
      BY <1>9, <2>3 DEF Close
    <3>2. TypesOK' /\ Shape(levels') /\ KidsOK'
      BY <1>1, <1>2, <1>5, <1>6, <2>1, <3>1 DEF TypesOK, KidsOK
    <3>3. Cardinality(Entering(frames')) = Cardinality(Theirs(levels))
      BY <1>3, <1>7, <2>3
    <3>4. InStep'
      BY <1>2, <2>1, <2>2, <3>1, <3>3 DEF InStep
    <3> QED
      BY <3>2, <3>4 DEF IInv
  <2>4. CASE ~Top.flat
    <3> DEFINE u == LeaveLevel(W, Top.lazy, ws)
               k == IF Top.lazy THEN kids ELSE Forced(kids, Len(kids))
    <3>1. out' = u.out /\ levels' = u.fs /\ kids' = Sealed(k, levels)
      BY <1>9, <2>4 DEF Close, Becomes
    <3>2. /\ u \in Writer /\ Shape(u.fs)
          /\ SameHands(u.fs, Front(levels))
      <4>1. Top.lazy \in BOOLEAN
        BY <1>5 DEF FrameType
      <4> QED
        BY <1>2, <4>1, LeaveOK
    <3>3. Listing(k) /\ Len(k) = Len(levels)
      <4>1. Len(kids) \in 1..Len(kids)
        BY <1>2
      <4> QED
        BY <1>2, <4>1, ForcedKids
    <3> HIDE DEF u, k
    <3>4. /\ Front(levels) \in Seq(LevelType)
          /\ Len(Front(levels)) = Len(levels) - 1
          /\ \A j \in 1..Len(levels) - 1 : Front(levels)[j] = levels[j]
      BY <1>2, FrontOK
    <3>5. Cardinality(Theirs(levels)) = Cardinality(Theirs(Front(levels))) + 1
          /\ Cardinality(Theirs(Front(levels))) \in Nat
      <4>1. Cardinality(Theirs(Front(levels))) \in Nat
        BY <1>5, <3>4, Counts
      <4>2. ~Last(levels).mine
        BY <1>1, <2>4
      <4> QED
        BY <1>2, <4>1, <4>2, TheirsPopped
    <3>6. Cardinality(Entering(frames')) = Cardinality(Theirs(Front(levels)))
      <4> DEFINE a == Cardinality(Entering(frames))
                 b == Cardinality(Entering(frames'))
                 c == Cardinality(Theirs(levels))
                 d == Cardinality(Theirs(Front(levels)))
      <4>1. a = b + 1
        BY <1>7, <2>4
      <4>2. a = c /\ b \in Nat /\ c = d + 1 /\ d \in Nat
        BY <1>3, <1>7, <3>5
      <4> HIDE DEF a, b, c, d
      <4>3. b = d
        BY <4>1, <4>2
      <4> QED
        BY <4>3 DEF b, d
    <3>7. Len(levels) > 1
      <4> SUFFICES ASSUME Len(levels) = 1 PROVE FALSE
        BY <1>2
      <4>1. Theirs(Front(levels)) = {}
        BY <3>4 DEF Theirs
      <4>2. Cardinality(Entering(frames')) = 0
        BY <3>6, <4>1, FS_EmptySet
      <4>3. 1 \in Entering(frames') /\ IsFiniteSet(Entering(frames'))
        <5>1. 1 \in Entering(frames')
          BY <1>5, <2>2 DEF Entering
        <5>2. Len(frames') \in Nat
          BY <1>5
        <5>3. IsFiniteSet(1..Len(frames'))
          BY <5>2, FS_Interval
        <5>4. Entering(frames') \subseteq 1..Len(frames')
          BY DEF Entering
        <5> QED
          BY <5>1, <5>3, <5>4, FS_Subset
      <4> QED
        BY <4>2, <4>3, FS_EmptySet
    <3>8. /\ Len(levels') >= 1 /\ ~levels'[1].mine
          /\ Len(levels') = Len(levels) - 1
          /\ Cardinality(Theirs(levels')) = Cardinality(Theirs(Front(levels)))
      <4>1. 1 \in 1..Len(levels) - 1
        BY <1>2, <3>7
      <4>2. ~Front(levels)[1].mine /\ Len(Front(levels)) >= 1
        BY <1>2, <3>4, <3>7, <4>1
      <4> QED
        BY <3>1, <3>2, <3>4, <4>2, SameHandsCount
    <3>9. Listing(kids') /\ Len(kids') = Len(levels')
      BY <1>2, <3>1, <3>3, <3>7, <3>8, SealedKids
    <3>10. TypesOK' /\ Shape(levels') /\ KidsOK'
      BY <1>1, <1>2, <1>5, <1>6, <2>1, <3>1, <3>2, <3>9
         DEF TypesOK, KidsOK, Writer
    <3>11. InStep'
      BY <2>1, <2>2, <3>6, <3>8 DEF InStep
    <3> QED
      BY <3>10, <3>11 DEF IInv
  <2> QED
    BY <2>3, <2>4
<1> QED
  BY <1>8, <1>9

LEMMA FinishInv ==
    ASSUME IInv, NEW ws \in Spaces, Finish(ws)
    PROVE  IInv'
<1> DEFINE u == LeaveLevel(W, FALSE, closeWs)
           k == Forced(kids, 1)
<1>1. root = "done" /\ Len(levels) = 1 /\ Reads(ws, TRUE)
      /\ root' = "finished" /\ kids' = Sealed(k, levels)
      /\ out' = u.out \o ws /\ levels' = u.fs
      /\ frames' = frames /\ closeWs' = closeWs /\ dead' = dead
      /\ calls' = calls
  BY DEF Finish
<1>2. /\ TypesOK /\ W \in Writer /\ W.fs = levels /\ W.out = out
      /\ Shape(levels)
      /\ levels \in Seq(LevelType) /\ levels # <<>>
      /\ Listing(kids) /\ Len(kids) = Len(levels)
  BY <1>1, Standing
<1>3. u \in Writer /\ Shape(u.fs)
  <2>1. closeWs \in Spaces /\ FALSE \in BOOLEAN
    BY <1>2 DEF TypesOK
  <2> QED
    BY <1>2, <2>1, LeaveOK
<1>4. Listing(k) /\ Len(k) = 1
  <2>1. 1 \in 1..Len(kids)
    BY <1>1, <1>2
  <2> QED
    BY <1>1, <1>2, <2>1, ForcedKids
<1> HIDE DEF u, k
<1>5. Listing(kids')
  BY <1>1, <1>4, SealedKids, SMTT(40)
<1>6. ws \in Seq(Tokens) /\ TRUE \in BOOLEAN
  BY Texts
<1>7. read' \in 0..MaxInput /\ inp' \in Seq(Tokens) /\ plain' \in BOOLEAN
  BY <1>1, <1>2, <1>6, ReadsOK
<1>8. out' \in Seq(Tokens) /\ levels' \in Seq(LevelType)
  BY <1>1, <1>3, <1>6, ConcatProperties DEF Writer
<1>9. TypesOK'
  BY <1>1, <1>2, <1>7, <1>8 DEF TypesOK
<1> QED
  BY <1>1, <1>3, <1>5, <1>9 DEF IInv, InStep, KidsOK

LEMMA NextInv ==
    ASSUME IInv, [Next]_vars
    PROVE  IInv'
<1>1. CASE \E ws \in Spaces, arr \in BOOLEAN : Root(ws, arr)
  BY <1>1, RootInv
<1>2. CASE \E ws \in Spaces : Drop(ws)
  BY <1>2, DropInv
<1>3. CASE \E ws \in Spaces, l \in DOMAIN levels, renamed \in BOOLEAN :
              PassAt(ws, l, renamed)
  BY <1>3, PassAtInv
<1>4. CASE \E ws \in Spaces, arr, flat, lazy, renamed \in BOOLEAN :
              Enter(ws, arr, flat, lazy, renamed)
  BY <1>4, EnterInv
<1>5. CASE \E ws \in Spaces : Comma(ws)
  BY <1>5, CommaInv
<1>6. CASE \E ws \in Spaces : Close(ws)
  BY <1>6, CloseInv
<1>7. CASE \E ws \in Spaces : Finish(ws)
  BY <1>7, FinishInv
<1>8. CASE \E l \in DOMAIN levels : HookEntry(l)
  BY <1>8, HookEntryInv
<1>9. CASE \E arr \in BOOLEAN : HookPush(arr)
  BY <1>9, HookPushInv
<1>10. CASE HookPop
  BY <1>10, HookPopInv
<1>11. CASE HookOpen
  BY <1>11, HookOpenInv
<1>12. CASE UNCHANGED vars
  BY <1>12 DEF vars, IInv, TypesOK, InStep, KidsOK
<1> QED
  BY <1>1, <1>2, <1>3, <1>4, <1>5, <1>6, <1>7, <1>8, <1>9, <1>10, <1>11, <1>12
     DEF Next

-----------------------------------------------------------------------------
(* Theorems. *)

\* Whatever is entered, passed, dropped and written by hooks, the levels stay
\* typed and nested, and in step with the frames of the input: a container that
\* is entered pushes one level (region.go:98), and closeContainer takes away
\* that one (region.go:498-530), whatever hooks pushed and popped between.
THEOREM Invariance == Spec => []IInv
<1>1. Init => IInv
  BY InitInv
<1>2. IInv /\ [Next]_vars => IInv'
  BY NextInv
<1> QED
  BY <1>1, <1>2, PTL DEF Spec

\* The open levels are always the outermost ones and only an open level has
\* members: CanWriteAt may look at the levels above it alone, and pop may
\* take an unopened level away without a trace (writer.go:119-173).
THEOREM LevelsCorrect == Spec => []LevelsShape
<1>1. IInv => LevelsShape
  <2> SUFFICES ASSUME IInv PROVE LevelsShape
    OBVIOUS
  <2>1. TypeOK
    BY Zenon DEF IInv, TypesOK, KidsOK, TypeOK, LevelType, FrameType
  <2>2. DOMAIN levels = 1..Len(levels)
    BY LenProperties DEF IInv, TypesOK
  <2> QED
    BY <2>1, <2>2 DEF IInv, Shape, LevelsShape
<1> QED
  BY <1>1, Invariance, PTL

-----------------------------------------------------------------------------
(* Entering keeps a container as it came.                                  *)

\* The text s with the level f opened after it.
Bracket(s, f) == s \o f.head \o Opening(f.isArr)

\* The text s at the level around l, with what separates l from it.
Around(s, fs, l) == IF l = 1 THEN s ELSE After(s, fs[l - 1])

\* t says for each level what the output is when it has just been opened.
Spelt(t, w) ==
    /\ t \in [0..Len(w.fs) -> Seq(Tokens)] /\ t[0] = w.out
    /\ \A l \in 1..Len(w.fs) :
          t[l] = IF w.fs[l].opened THEN w.out
                 ELSE Bracket(Around(t[l - 1], w.fs, l), w.fs[l])

\* A level has used up its whitespace when the one inside it is open.
Tidy(fs) == \A l \in 2..Len(fs) : fs[l].opened => fs[l - 1].trail = <<>>

\* The frames fr are the levels fs, and what all but the last have read of
\* their container ends with the value that is being read.
Matches(fr, fs) ==
    /\ Len(fs) = Len(fr)
    /\ \A i \in 1..Len(fr) :
          /\ ~fr[i].flat /\ ~fr[i].lazy /\ fr[i].arr = fs[i].isArr
          /\ i < Len(fr) => fr[i].ph = "comma"

\* Of an open document the text d has been read: the output with all levels
\* opened, and the separator if a value may follow it.
OpenCame(fr, w, d) ==
    /\ Matches(fr, w.fs) /\ Tidy(w.fs)
    /\ fr[Len(fr)].ph = "first" <=> w.fs[Len(fr)].n = 0
    /\ \E t : /\ Spelt(t, w)
              /\ d = IF fr[Len(fr)].ph = "next"
                     THEN After(t[Len(fr)], w.fs[Len(fr)]) ELSE t[Len(fr)]

DoneCame(w, ws, d) ==
    /\ Len(w.fs) = 1 /\ Tidy(w.fs)
    /\ \E t : Spelt(t, w) /\ d = t[1] \o ws \o Closing(w.fs[1].isArr)

AsItCame ==
    plain =>
        /\ ~dead
        /\ root = "none" => out = <<>> /\ inp = <<>>
        /\ root = "open" => OpenCame(frames, W, inp)
        /\ root = "done" => DoneCame(W, closeWs, inp)
        /\ root = "finished" => out = inp

LEMMA AllOpened ==
    ASSUME NEW fs \in Seq(LevelType), Shape(fs), NEW k \in 1..Len(fs), fs[k].opened,
           NEW j \in 1..k
    PROVE  fs[j].opened
<1>1. Len(fs) \in Nat /\ k \in Nat /\ j \in Nat
  BY LenProperties
<1> DEFINE S == {m \in Nat : m < k => fs[k - m].opened}
<1>2. 0 \in S
  <2>1. k - 0 = k
    BY <1>1
  <2> QED
    BY <2>1
<1>3. ASSUME NEW m \in Nat, m \in S PROVE m + 1 \in S
  <2> SUFFICES ASSUME m + 1 < k PROVE fs[k - (m + 1)].opened
    OBVIOUS
  <2>1. k - m \in 1..Len(fs) /\ k - m > 1 /\ k - m - 1 = k - (m + 1) /\ m < k
    BY <1>1
  <2>2. fs[k - m].opened
    BY <1>3, <2>1
  <2> QED
    BY <2>1, <2>2 DEF Shape
<1> HIDE DEF S
<1>4. k - j \in Nat /\ k - j < k /\ k - (k - j) = j
  BY <1>1
<1>5. k - j \in S
  BY <1>2, <1>3, <1>4, Induction
<1> QED
  BY <1>4, <1>5 DEF S

\* u is w with level k opened, and what that wrote.
Spells(w, t, k, u) ==
    /\ u.out = t[k] /\ Tidy(u.fs)
    /\ \A j \in 1..Len(w.fs) :
          u.fs[j].head = w.fs[j].head /\ u.fs[j].isArr = w.fs[j].isArr
    /\ u.fs[k].n = w.fs[k].n /\ u.fs[k].trail = w.fs[k].trail

\* The separator before level k, when the one around it has been opened.
Separated(w, t, k, prev, up) ==
    /\ up.out = Around(t[k - 1], w.fs, k)
    /\ up.fs \in Seq(LevelType) /\ Len(up.fs) = Len(w.fs)
    /\ \A j \in 1..Len(w.fs) :
          /\ up.fs[j].head = w.fs[j].head /\ up.fs[j].isArr = w.fs[j].isArr
          /\ up.fs[j].opened = prev.fs[j].opened
          /\ j # k - 1 => up.fs[j] = prev.fs[j]
    /\ up.fs[k - 1].trail = <<>>

LEMMA SpellsSep ==
    ASSUME NEW w \in Writer, NEW k \in 2..Len(w.fs), NEW t, NEW prev,
           OpenTo(w, k - 1, prev), Spells(w, t, k - 1, prev)
    PROVE  Separated(w, t, k, prev, sep(prev, k - 1))
<1>1. Len(w.fs) \in Nat
  BY LenProperties DEF Writer
<1>2. prev \in Writer /\ k - 1 \in 1..Len(prev.fs) /\ k - 1 \in 1..Len(w.fs)
      /\ Len(prev.fs) = Len(w.fs)
  BY <1>1 DEF OpenTo
<1> DEFINE up == sep(prev, k - 1)
<1>3. up \in Writer /\ up.out = After(prev.out, prev.fs[k - 1])
  BY <1>2, SepOK
<1>4. PICK h \in LevelType :
          /\ Replaces(up.fs, prev.fs, k - 1, h)
          /\ h.opened = prev.fs[k - 1].opened /\ h.trail = <<>>
          /\ h.head = prev.fs[k - 1].head /\ h.isArr = prev.fs[k - 1].isArr
  BY <1>2, SepOK
<1> HIDE DEF up
<1>5. prev.out = t[k - 1] /\ prev.fs[k - 1].n = w.fs[k - 1].n
      /\ prev.fs[k - 1].trail = w.fs[k - 1].trail
  BY DEF Spells
<1>6. up.out = Around(t[k - 1], w.fs, k)
  <2>1. k # 1
    BY <1>1
  <2> QED
    BY <1>3, <1>5, <2>1 DEF Around, After
<1>7. /\ up.fs \in Seq(LevelType) /\ Len(up.fs) = Len(w.fs)
      /\ \A j \in 1..Len(w.fs) : up.fs[j] = IF j = k - 1 THEN h ELSE prev.fs[j]
  BY <1>2, <1>4 DEF Replaces
<1>8. \A j \in 1..Len(w.fs) :
          prev.fs[j].head = w.fs[j].head /\ prev.fs[j].isArr = w.fs[j].isArr
  BY DEF Spells
<1>9. \A j \in 1..Len(w.fs) :
          /\ up.fs[j].head = w.fs[j].head /\ up.fs[j].isArr = w.fs[j].isArr
          /\ up.fs[j].opened = prev.fs[j].opened
          /\ j # k - 1 => up.fs[j] = prev.fs[j]
  BY <1>2, <1>4, <1>7, <1>8
<1> QED
  BY <1>2, <1>4, <1>6, <1>7, <1>9 DEF up, Separated

LEMMA SpeltStep ==
    ASSUME NEW w \in Writer, Shape(w.fs), Tidy(w.fs), NEW k \in 1..Len(w.fs),
           NEW t, Spelt(t, w), NEW prev,
           k > 1 => OpenTo(w, k - 1, prev) /\ Spells(w, t, k - 1, prev)
    PROVE  Spells(w, t, k, OpenOne(w, k, prev))
<1>1. w.fs \in Seq(LevelType) /\ Len(w.fs) \in Nat /\ k \in Nat
  BY LenProperties DEF Writer
<1>2. t[0] = w.out
      /\ t[k] = IF w.fs[k].opened THEN w.out
                ELSE Bracket(Around(t[k - 1], w.fs, k), w.fs[k])
  BY DEF Spelt
<1>3. CASE w.fs[k].opened
  BY <1>2, <1>3 DEF OpenOne, Spells
<1>4. CASE ~w.fs[k].opened
  <2> DEFINE up == IF k = 1 THEN w ELSE sep(prev, k - 1)
             f  == up.fs[k]
             g  == [f EXCEPT !.opened = TRUE]
             gs == [up.fs EXCEPT ![k] = g]
             u  == [out |-> up.out \o f.head \o Opening(f.isArr), fs |-> gs]
  <2>1. OpenOne(w, k, prev) = u
    BY <1>4 DEF OpenOne
  <2>2. k > 1 => Separated(w, t, k, prev, up)
    <3> SUFFICES ASSUME k > 1 PROVE Separated(w, t, k, prev, sep(prev, k - 1))
      OBVIOUS
    <3>1. k \in 2..Len(w.fs)
      BY <1>1
    <3>2. OpenTo(w, k - 1, prev) /\ Spells(w, t, k - 1, prev)
      OBVIOUS
    <3> QED
      BY <3>1, <3>2, SpellsSep
  <2>3. k > 1 => \A j \in k..Len(w.fs) : prev.fs[j] = w.fs[j]
    <3> SUFFICES ASSUME k > 1 PROVE \A j \in k..Len(w.fs) : prev.fs[j] = w.fs[j]
      OBVIOUS
    <3>1. \A j \in k..Len(w.fs) : j \in k - 1 + 1..Len(w.fs)
      BY <1>1
    <3> QED
      BY <3>1 DEF OpenTo
  <2>4. /\ up.out = Around(t[k - 1], w.fs, k)
        /\ up.fs \in Seq(LevelType) /\ Len(up.fs) = Len(w.fs)
        /\ \A j \in 1..Len(w.fs) :
              up.fs[j].head = w.fs[j].head /\ up.fs[j].isArr = w.fs[j].isArr
    <3>1. CASE k = 1
      <4>1. up = w /\ k - 1 = 0
        BY <3>1
      <4> HIDE DEF up
      <4> QED
        BY <1>1, <1>2, <3>1, <4>1 DEF Around
    <3>2. CASE k > 1
      <4> HIDE DEF up
      <4> QED
        BY <2>2, <3>2 DEF Separated
    <3> QED
      BY <1>1, <3>1, <3>2
  <2>5. \A j \in k..Len(w.fs) : up.fs[j] = w.fs[j]
    <3>1. CASE k = 1
      BY <3>1
    <3>2. CASE k > 1
      <4>2. \A j \in k..Len(w.fs) : j \in 1..Len(w.fs) /\ j # k - 1
        BY <1>1
      <4> HIDE DEF up
      <4>3. \A j \in k..Len(w.fs) : up.fs[j] = prev.fs[j]
        BY <2>2, <3>2, <4>2 DEF Separated
      <4> QED
        BY <2>3, <3>2, <4>3
    <3> QED
      BY <1>1, <3>1, <3>2
  <2>6. \A l \in 2..k - 1 : up.fs[l].opened => up.fs[l - 1].trail = <<>>
    <3> SUFFICES ASSUME NEW l \in 2..k - 1, up.fs[l].opened
                 PROVE  up.fs[l - 1].trail = <<>>
      OBVIOUS
    <3>1. k > 1 /\ l \in 2..Len(w.fs) /\ l \in 1..Len(w.fs)
          /\ l - 1 \in 1..Len(w.fs) /\ l - 1 # k - 1
      BY <1>1
    <3>2. Tidy(prev.fs) /\ Len(prev.fs) = Len(w.fs)
      BY <3>1 DEF Spells, OpenTo
    <3> HIDE DEF up
    <3>3. up.fs[l].opened = prev.fs[l].opened /\ up.fs[l - 1] = prev.fs[l - 1]
      BY <2>2, <3>1 DEF Separated
    <3> QED
      BY <3>1, <3>2, <3>3 DEF Tidy
  <2>7. k > 1 => up.fs[k - 1].trail = <<>>
    <3> SUFFICES ASSUME k > 1 PROVE up.fs[k - 1].trail = <<>>
      OBVIOUS
    <3> HIDE DEF up
    <3> QED
      BY <2>2 DEF Separated
  <2> HIDE DEF up
  <2>8. k \in k..Len(w.fs) /\ k \in 1..Len(up.fs)
    BY <1>1, <2>4
  <2>9. f = w.fs[k] /\ f \in LevelType
    BY <1>1, <2>5, <2>8, ElementOfSeq
  <2>10. g \in LevelType /\ g.n = f.n /\ g.trail = f.trail /\ g.head = f.head
         /\ g.isArr = f.isArr
    <3> HIDE DEF f
    <3> QED
      BY <2>9 DEF LevelType
  <2>11. u.out = t[k]
    BY <1>2, <1>4, <2>4, <2>9 DEF Bracket
  <2> HIDE DEF f, g
  <2>12. Replaces(gs, up.fs, k, g)
    BY <2>4, <2>8, <2>10, Replaced
  <2> HIDE DEF gs
  <2>13. /\ u.fs = gs /\ Len(gs) = Len(w.fs)
         /\ \A j \in 1..Len(w.fs) : gs[j] = IF j = k THEN g ELSE up.fs[j]
    BY <2>4, <2>12 DEF Replaces
  <2> HIDE DEF u
  <2>14. \A j \in 1..Len(w.fs) :
             u.fs[j].head = w.fs[j].head /\ u.fs[j].isArr = w.fs[j].isArr
    BY <2>4, <2>9, <2>10, <2>13
  <2>15. Tidy(u.fs)
    <3> SUFFICES ASSUME NEW l \in 2..Len(w.fs), u.fs[l].opened
                 PROVE  u.fs[l - 1].trail = <<>>
      BY <2>13 DEF Tidy
    <3>1. l \in 1..Len(w.fs) /\ l - 1 \in 1..Len(w.fs)
      BY <1>1
    <3>2. CASE l = k
      <4>1. l - 1 # k /\ k > 1
        BY <1>1, <3>2
      <4> QED
        BY <2>7, <2>13, <3>1, <3>2, <4>1
    <3>3. CASE l < k
      <4>1. l \in 2..k - 1 /\ l # k /\ l - 1 # k
        BY <1>1, <3>3
      <4> QED
        BY <2>6, <2>13, <3>1, <4>1
    <3>4. CASE l > k
      <4>1. l \in k..Len(w.fs) /\ l # k /\ k \in 1..l
        BY <1>1, <3>4
      <4>2. w.fs[l].opened
        BY <2>5, <2>13, <3>1, <4>1
      <4>3. w.fs[k].opened
        BY <1>1, <3>1, <4>1, <4>2, AllOpened
      <4> QED
        BY <1>4, <4>3
    <3> QED
      BY <1>1, <3>2, <3>3, <3>4
  <2>16. u.fs[k].n = w.fs[k].n /\ u.fs[k].trail = w.fs[k].trail
    BY <2>9, <2>10, <2>13
  <2> QED
    BY <2>1, <2>11, <2>14, <2>15, <2>16 DEF Spells
<1> QED
  BY <1>3, <1>4

LEMMA EnsureSpelt ==
    ASSUME NEW w \in Writer, Shape(w.fs), Tidy(w.fs), NEW t, Spelt(t, w),
           NEW l \in 1..Len(w.fs)
    PROVE  Spells(w, t, l, ensureOpen(w, l))
<1>1. l \in Nat /\ Len(w.fs) \in Nat
  BY LenProperties DEF Writer
<1>2. PICK g : /\ g = [k \in 0..l |-> OpenOne(w, k, g[k - 1])]
               /\ ensureOpen(w, l) = g[l]
  BY <1>1, OpenUnfolds
<1> DEFINE S == {k \in Nat : k \in 1..l => OpenTo(w, k, g[k]) /\ Spells(w, t, k, g[k])}
<1>3. 0 \in S
  OBVIOUS
<1>4. ASSUME NEW k \in Nat, k \in S PROVE k + 1 \in S
  <2> SUFFICES ASSUME k + 1 \in 1..l
               PROVE  OpenTo(w, k + 1, g[k + 1]) /\ Spells(w, t, k + 1, g[k + 1])
    OBVIOUS
  <2>1. g[k + 1] = OpenOne(w, k + 1, g[k])
    <3>1. k + 1 \in 0..l /\ k + 1 - 1 = k
      BY <1>1
    <3> QED
      BY <1>2, <3>1
  <2>2. k + 1 > 1 => OpenTo(w, k + 1 - 1, g[k]) /\ Spells(w, t, k + 1 - 1, g[k])
    <3>1. k + 1 > 1 => k \in 1..l /\ k + 1 - 1 = k
      BY <1>1
    <3> QED
      BY <1>4, <3>1
  <2>3. k + 1 \in 1..Len(w.fs)
    BY <1>1
  <2>4. OpenTo(w, k + 1, g[k + 1])
    BY <2>1, <2>2, <2>3, OpenStep
  <2>5. Spells(w, t, k + 1, g[k + 1])
    BY <2>1, <2>2, <2>3, SpeltStep
  <2> QED
    BY <2>4, <2>5
<1> HIDE DEF S
<1>5. l \in S
  BY <1>1, <1>3, <1>4, Induction
<1> QED
  BY <1>2, <1>5 DEF S

\* What opening the top level leaves.
TopOpened(w, t, e) ==
    /\ e \in Writer /\ Shape(e.fs) /\ Tidy(e.fs) /\ Len(e.fs) = Len(w.fs)
    /\ e.out = t[Len(w.fs)]
    /\ \A j \in 1..Len(w.fs) :
          /\ e.fs[j].opened /\ e.fs[j].head = w.fs[j].head
          /\ e.fs[j].isArr = w.fs[j].isArr
    /\ e.fs[Len(w.fs)].n = w.fs[Len(w.fs)].n
    /\ e.fs[Len(w.fs)].trail = w.fs[Len(w.fs)].trail

LEMMA EnsureTop ==
    ASSUME NEW w \in Writer, Shape(w.fs), Tidy(w.fs), NEW t, Spelt(t, w),
           NEW l, l = Len(w.fs), l >= 1
    PROVE  TopOpened(w, t, ensureOpen(w, l))
<1>1. l \in 1..Len(w.fs) /\ Len(w.fs) \in Nat
  BY LenProperties DEF Writer
<1> DEFINE e == ensureOpen(w, l)
<1>2. OpenTo(w, l, e)
  BY <1>1, EnsureOpened
<1>3. Spells(w, t, l, e)
  BY <1>1, EnsureSpelt
<1> HIDE DEF e
<1>4. e \in Writer /\ Shape(e.fs) /\ Len(e.fs) = Len(w.fs) /\ e.fs[l].opened
      /\ e.fs \in Seq(LevelType)
  BY <1>1, <1>2 DEF OpenTo, Writer
<1>5. \A j \in 1..Len(w.fs) : e.fs[j].opened
  BY <1>1, <1>4, AllOpened
<1> QED
  BY <1>3, <1>4, <1>5 DEF TopOpened, Spells, e

LEMMA FlatSpelt ==
    ASSUME NEW w \in Writer, \A j \in 1..Len(w.fs) : w.fs[j].opened
    PROVE  \E t : Spelt(t, w) /\ \A j \in 0..Len(w.fs) : t[j] = w.out
<1> DEFINE t == [j \in 0..Len(w.fs) |-> w.out]
<1>1. Len(w.fs) \in Nat /\ w.out \in Seq(Tokens)
  BY LenProperties DEF Writer
<1>2. t \in [0..Len(w.fs) -> Seq(Tokens)] /\ \A j \in 0..Len(w.fs) : t[j] = w.out
  BY <1>1
<1>3. 0 \in 0..Len(w.fs) /\ \A l \in 1..Len(w.fs) : l \in 0..Len(w.fs)
  BY <1>1
<1> HIDE DEF t
<1>4. Spelt(t, w)
  BY <1>2, <1>3 DEF Spelt
<1> QED
  BY <1>2, <1>4

LEMMA Joined ==
    ASSUME NEW a \in Seq(Tokens), NEW b \in Seq(Tokens), NEW c \in Seq(Tokens)
    PROVE  /\ (a \o b) \o c = a \o (b \o c)
           /\ a \o b \in Seq(Tokens) /\ b \o c \in Seq(Tokens)
           /\ a \o (b \o c) \in Seq(Tokens)
<1>1. a \o b \in Seq(Tokens) /\ b \o c \in Seq(Tokens)
  BY ConcatProperties
<1>2. a \o (b \o c) \in Seq(Tokens)
  BY <1>1, ConcatProperties
<1>3. (a \o b) \o c = a \o (b \o c)
  BY ConcatAssociative
<1> QED
  BY <1>1, <1>2, <1>3

LEMMA JoinedAny ==
    ASSUME NEW o \in Seq(Tokens), NEW b \in Seq(Tokens)
    PROVE  \A c \in Seq(Tokens) : /\ (o \o c) \o b = o \o (c \o b)
                                  /\ c \o b \in Seq(Tokens)
<1> TAKE c \in Seq(Tokens)
<1>1. (o \o c) \o b = o \o (c \o b)
  BY ConcatAssociative
<1>2. c \o b \in Seq(Tokens)
  BY ConcatProperties
<1> QED
  BY <1>1, <1>2

LEMMA Extended ==
    ASSUME NEW o \in Seq(Tokens), NEW r \in Seq(Tokens), NEW a \in Seq(Tokens),
           NEW b \in Seq(Tokens)
    PROVE  \E q \in Seq(Tokens) : ((o \o r) \o a) \o b = o \o q
<1>1. (o \o r) \o a = o \o (r \o a) /\ r \o a \in Seq(Tokens)
  BY Joined
<1> DEFINE x == r \o a
<1>2. x \in Seq(Tokens)
  BY <1>1
<1> HIDE DEF x
<1>3. \A c \in Seq(Tokens) : /\ (o \o c) \o b = o \o (c \o b)
                             /\ c \o b \in Seq(Tokens)
  BY JoinedAny
<1>4. (o \o x) \o b = o \o (x \o b) /\ x \o b \in Seq(Tokens)
  BY <1>2, <1>3
<1> QED
  BY <1>1, <1>4, Zenon DEF x

\* Every text is the output and more.
LEMMA SpeltExtends ==
    ASSUME NEW w \in Writer, NEW t, Spelt(t, w), NEW l \in 0..Len(w.fs)
    PROVE  t[l] \in Seq(Tokens) /\ \E r \in Seq(Tokens) : t[l] = w.out \o r
<1>1. Len(w.fs) \in Nat /\ w.out \in Seq(Tokens) /\ w.fs \in Seq(LevelType) /\ l \in Nat
  BY LenProperties DEF Writer
<1>2. t[0] = w.out /\ \A k \in 0..Len(w.fs) : t[k] \in Seq(Tokens)
  BY <1>1 DEF Spelt
<1> DEFINE S == {k \in Nat : k <= Len(w.fs) =>
                    \E r \in Seq(Tokens) : t[k] = w.out \o r}
<1>3. <<>> \in Seq(Tokens) /\ w.out = w.out \o <<>>
  BY <1>1
<1>4. 0 \in S
  BY <1>2, <1>3
<1>5. ASSUME NEW k \in Nat, k \in S PROVE k + 1 \in S
  <2> SUFFICES ASSUME k + 1 <= Len(w.fs)
               PROVE  \E r \in Seq(Tokens) : t[k + 1] = w.out \o r
    OBVIOUS
  <2>1. k <= Len(w.fs) /\ k + 1 \in 1..Len(w.fs) /\ k + 1 - 1 = k
        /\ (k + 1 # 1 => k \in 1..Len(w.fs))
    BY <1>1
  <2> DEFINE f == w.fs[k + 1]
             s == Around(t[k], w.fs, k + 1)
  <2>2. t[k + 1] = IF f.opened THEN w.out ELSE Bracket(s, f)
    BY <2>1 DEF Spelt
  <2>0. s = IF k + 1 = 1 THEN t[k] ELSE After(t[k], w.fs[k])
    BY <2>1 DEF Around
  <2> HIDE DEF s
  <2>3. PICK r \in Seq(Tokens) : t[k] = w.out \o r
    BY <1>5, <2>1
  <2>4. f \in LevelType
    BY <1>1, <2>1, ElementOfSeq
  <2>5. CASE f.opened
    BY <1>3, <2>2, <2>5
  <2>6. CASE ~f.opened
    <3>1. \E q \in Seq(Tokens) : s = w.out \o q
      <4>1. CASE k + 1 = 1 \/ ~(w.fs[k].n > 0)
        BY <2>0, <2>3, <4>1 DEF After
      <4>2. CASE k + 1 # 1 /\ w.fs[k].n > 0
        <5> DEFINE d == w.fs[k].trail
        <5>1. s = (t[k] \o d) \o <<",">>
          BY <2>0, <4>2 DEF After
        <5>2. d \in Seq(Tokens) /\ <<",">> \in Seq(Tokens)
          <6>1. w.fs[k] \in LevelType
            BY <1>1, <2>1, <4>2, ElementOfSeq
          <6>2. d \in Spaces
            BY <6>1 DEF LevelType
          <6> QED
            BY <6>2, Texts
        <5> HIDE DEF d
        <5> DEFINE o == w.out
        <5>3. o \in Seq(Tokens) /\ t[k] = o \o r
          BY <1>1, <2>3
        <5> HIDE DEF o
        <5>0. \A g, h \in Seq(Tokens) :
                  \E q \in Seq(Tokens) : ((o \o r) \o g) \o h = o \o q
          BY <2>3, <5>3, Extended
        <5>4. \E q \in Seq(Tokens) : ((o \o r) \o d) \o <<",">> = o \o q
          BY <5>0, <5>2
        <5>5. s = ((o \o r) \o d) \o <<",">>
          BY <5>1, <5>3
        <5>6. \E q \in Seq(Tokens) : s = o \o q
          BY <5>4, <5>5
        <5> QED
          BY <5>6, Zenon DEF o
      <4> QED
        BY <4>1, <4>2
    <3>2. PICK q \in Seq(Tokens) : s = w.out \o q
      BY <3>1
    <3>3. f.head \in Seq(Tokens) /\ Opening(f.isArr) \in Seq(Tokens)
      BY <2>4, Texts DEF LevelType
    <3>4. t[k + 1] = (s \o f.head) \o Opening(f.isArr)
      BY <2>2, <2>6 DEF Bracket
    <3>5. \A h, b \in Seq(Tokens) :
              \E x \in Seq(Tokens) : (((w.out \o q) \o h) \o b) = w.out \o x
      BY <1>1, <3>2, Extended
    <3>6. \E x \in Seq(Tokens) : (s \o f.head) \o Opening(f.isArr) = w.out \o x
      BY <3>2, <3>3, <3>5
    <3> QED
      BY <3>4, <3>6
  <2> QED
    BY <2>5, <2>6
<1> HIDE DEF S
<1>6. l \in S
  BY <1>1, <1>4, <1>5, Induction
<1>7. l <= Len(w.fs)
  BY <1>1
<1>8. \E r \in Seq(Tokens) : t[l] = w.out \o r
  BY <1>6, <1>7 DEF S
<1> QED
  BY <1>2, <1>8

LEMMA FlatCame ==
    ASSUME NEW w \in Writer, NEW fr, Len(fr) \in 1..Len(w.fs), Matches(fr, w.fs),
           Tidy(w.fs), \A j \in 1..Len(w.fs) : w.fs[j].opened,
           fr[Len(fr)].ph = "comma", w.fs[Len(fr)].n > 0
    PROVE  OpenCame(fr, w, w.out)
<1>1. Len(w.fs) \in Nat
  BY LenProperties DEF Writer
<1>2. Len(fr) \in 0..Len(w.fs)
  BY <1>1
<1>3. \E t : Spelt(t, w) /\ w.out = t[Len(fr)]
  BY <1>2, FlatSpelt
<1> QED
  BY <1>3 DEF OpenCame

\* A frame whose phase changes still matches its level, whatever was written.
Phased(fr, p) == [fr EXCEPT ![Len(fr)].ph = p]

LEMMA MatchesKept ==
    ASSUME NEW fr \in Seq(FrameType), NEW fs, Matches(fr, fs), Len(fr) >= 1,
           NEW p \in {"first", "comma", "next"},
           NEW gs, Len(gs) = Len(fs), \A j \in 1..Len(fs) : gs[j].isArr = fs[j].isArr,
           NEW gr, gr = Phased(fr, p)
    PROVE  /\ gr \in Seq(FrameType) /\ Matches(gr, gs)
           /\ Len(gr) = Len(fr) /\ gr[Len(fr)].ph = p
<1> DEFINE l == Len(fr)
           f == fr[l]
           g == [f EXCEPT !.ph = p]
<1>1. l \in Nat /\ l \in 1..Len(fr)
  BY LenProperties
<1>2. f \in FrameType
  BY <1>1, ElementOfSeq
<1>3. g \in FrameType /\ g.flat = f.flat /\ g.lazy = f.lazy /\ g.arr = f.arr
      /\ g.ph = p
  <2> HIDE DEF f
  <2> QED
    BY <1>2 DEF FrameType
<1>4. gr = [fr EXCEPT ![l] = g]
  BY DEF Phased
<1> HIDE DEF g
<1>5. /\ gr \in Seq(FrameType) /\ Len(gr) = Len(fr)
      /\ \A j \in 1..Len(fr) : gr[j] = IF j = l THEN g ELSE fr[j]
  BY <1>1, <1>3, <1>4, ExceptSeq
<1>6. \A i \in 1..Len(fr) :
          /\ ~gr[i].flat /\ ~gr[i].lazy /\ gr[i].arr = gs[i].isArr
          /\ i < Len(fr) => gr[i].ph = "comma"
  BY <1>3, <1>5 DEF Matches
<1> QED
  BY <1>1, <1>3, <1>5, <1>6 DEF Matches

LEMMA PlainReads ==
    ASSUME TypesOK, NEW t, NEW stays, Reads(t, stays), plain'
    PROVE  plain /\ stays /\ inp' = inp \o t
BY Zenon DEF Reads

\* What an open plain document rests on.
LEMMA PlainOpen ==
    ASSUME IInv, AsItCame, plain, root = "open"
    PROVE  /\ ~dead /\ OpenCame(frames, W, inp) /\ W \in Writer /\ W.fs = levels
           /\ W.out = out /\ Shape(levels) /\ levels \in Seq(LevelType)
           /\ Matches(frames, levels) /\ Tidy(levels)
           /\ frames \in Seq(FrameType) /\ Len(frames) \in Nat \ {0}
           /\ Len(levels) = Len(frames)
           /\ Top = frames[Len(frames)] /\ Last(levels) = levels[Len(frames)]
<1>1. ~dead /\ OpenCame(frames, W, inp)
  BY DEF AsItCame
<1>2. /\ W \in Writer /\ W.fs = levels /\ W.out = out /\ Shape(levels)
      /\ levels \in Seq(LevelType) /\ frames \in Seq(FrameType)
  BY WriterOK DEF IInv, TypesOK
<1>3. Matches(frames, levels) /\ Tidy(levels) /\ Len(levels) = Len(frames)
  BY <1>1, <1>2 DEF OpenCame, Matches
<1>4. Len(frames) \in Nat \ {0}
  <2>1. Len(frames) >= 1
    BY DEF IInv, InStep
  <2> QED
    BY <1>2, <2>1, LenProperties
<1> QED
  BY <1>1, <1>2, <1>3, <1>4 DEF Top, Last

\* Where a value may start, the document is the output with the top level
\* opened and the separator written.
LEMMA ValueText ==
    ASSUME IInv, AsItCame, plain, ValueMay
    PROVE  \E t : /\ Spelt(t, W)
                  /\ inp = After(t[Len(levels)], levels[Len(levels)])
<1>1. root = "open" /\ Top.ph \in {"first", "next"}
  BY DEF ValueMay
<1>2. /\ OpenCame(frames, W, inp) /\ W.fs = levels /\ Len(levels) = Len(frames)
      /\ Top = frames[Len(frames)] /\ levels \in Seq(LevelType)
      /\ Len(frames) \in Nat \ {0}
  BY <1>1, PlainOpen
<1>3. PICK t : /\ Spelt(t, W)
               /\ inp = IF Top.ph = "next" THEN After(t[Len(levels)], levels[Len(levels)])
                        ELSE t[Len(levels)]
  BY <1>2 DEF OpenCame
<1>4. Top.ph = "first" => levels[Len(levels)].n = 0
  BY <1>2 DEF OpenCame
<1>5. inp = After(t[Len(levels)], levels[Len(levels)])
  <2>1. CASE Top.ph = "next"
    BY <1>3, <2>1
  <2>2. CASE Top.ph = "first"
    <3>1. inp = t[Len(levels)] /\ ~(levels[Len(levels)].n > 0)
      BY <1>3, <1>4, <2>2
    <3> QED
      BY <3>1 DEF After
  <2> QED
    BY <1>1, <2>1, <2>2
<1> QED
  BY <1>3, <1>5

LEMMA PassAtCame ==
    ASSUME IInv, AsItCame, IInv', NEW ws \in Spaces, NEW l \in DOMAIN levels,
           NEW renamed \in BOOLEAN, PassAt(ws, l, renamed)
    PROVE  AsItCame'
<1> SUFFICES ASSUME plain' PROVE root' = "open" /\ ~dead' /\ OpenCame(frames, W, inp)'
  BY DEF AsItCame
<1> DEFINE L == Len(levels)
           h == HeadRaw(ws)
           v == <<"v">>
           e == ensureOpen(W, L)
           s == sep(e, L)
<1>1. ValueMay /\ root = "open" /\ root' = root /\ frames' = Followed
      /\ Reads(h \o v, l = L /\ ~renamed)
  BY DEF PassAt, ValueMay
<1>2. TypesOK /\ TypesOK'
  BY DEF IInv
<1>3. plain /\ l = L /\ ~renamed /\ inp' = inp \o (h \o v)
  BY <1>1, <1>2, PlainReads, Zenon
<1>4. /\ ~dead /\ W \in Writer /\ W.fs = levels /\ Shape(levels) /\ Tidy(levels)
      /\ levels \in Seq(LevelType) /\ Matches(frames, levels)
      /\ frames \in Seq(FrameType) /\ Len(frames) \in Nat \ {0} /\ L = Len(frames)
  BY <1>1, <1>3, PlainOpen
<1>5. CanWriteAt(W, L)
  BY <1>4 DEF CanWriteAt
<1>6. HeadAs(ws, renamed) = h
  BY <1>3 DEF HeadAs
<1>7. out' = Entry(W, L, h).out /\ levels' = Entry(W, L, h).fs /\ dead' = dead
  BY <1>3, <1>5, <1>6 DEF PassAt, Becomes
<1>8. PICK t : Spelt(t, W) /\ inp = After(t[L], levels[L])
  BY <1>1, <1>3, ValueText
<1>9. TopOpened(W, t, e) /\ L \in 1..L
  BY <1>4, <1>8, EnsureTop
<1> HIDE DEF e
<1>10. /\ e \in Writer /\ Len(e.fs) = L /\ Tidy(e.fs) /\ e.out = t[L]
       /\ \A j \in 1..L : e.fs[j].opened /\ e.fs[j].isArr = levels[j].isArr
       /\ e.fs[L].n = levels[L].n /\ e.fs[L].trail = levels[L].trail
  BY <1>4, <1>9 DEF TopOpened
<1>11. PICK g \in LevelType :
           /\ Replaces(s.fs, e.fs, L, g)
           /\ g.n > 0 /\ g.opened = e.fs[L].opened /\ g.isArr = e.fs[L].isArr
  BY <1>9, <1>10, SepOK
<1>12. s \in Writer /\ s.out = inp
  <2>1. s \in Writer /\ s.out = After(e.out, e.fs[L])
    BY <1>9, <1>10, SepOK
  <2> QED
    BY <1>8, <1>10, <2>1 DEF After
<1>13. Entry(W, L, h) = [s EXCEPT !.out = @ \o h \o v]
  BY DEF Entry, e
<1> HIDE DEF s
<1>14. out' = inp \o h \o v /\ levels' = s.fs
  BY <1>7, <1>12, <1>13 DEF Writer
<1>15. inp' = out'
  <2>1. inp \in Seq(Tokens) /\ h \in Seq(Tokens) /\ v \in Seq(Tokens)
    BY <1>2, HeadOK, Texts DEF TypesOK
  <2> HIDE DEF h, v
  <2> QED
    BY <1>3, <1>14, <2>1, Joined
<1>16. /\ Len(levels') = L
       /\ \A j \in 1..L : levels'[j] = IF j = L THEN g ELSE e.fs[j]
  BY <1>10, <1>11, <1>14 DEF Replaces
<1>17. \A j \in 1..L : levels'[j].opened /\ levels'[j].isArr = levels[j].isArr
  BY <1>9, <1>10, <1>11, <1>16
<1>18. Tidy(levels')
  <2> SUFFICES ASSUME NEW j \in 2..L PROVE levels'[j - 1].trail = <<>>
    BY <1>16 DEF Tidy
  <2>1. j \in 1..L /\ j - 1 \in 1..L /\ j - 1 # L
    BY <1>4
  <2> QED
    BY <1>10, <1>16, <2>1 DEF Tidy
<1>19. Matches(frames', levels') /\ Len(frames') = L /\ frames'[L].ph = "comma"
  <2>1. Len(frames) >= 1 /\ Len(levels') = Len(levels)
        /\ \A j \in 1..Len(levels) : levels'[j].isArr = levels[j].isArr
    BY <1>4, <1>16, <1>17
  <2>2. frames' = Phased(frames, "comma")
    BY <1>1 DEF Followed, Phased
  <2>3. /\ Matches(frames', levels') /\ Len(frames') = Len(frames)
        /\ frames'[Len(frames)].ph = "comma"
    <3>1. "comma" \in {"first", "comma", "next"}
      OBVIOUS
    <3>2. frames \in Seq(FrameType) /\ Matches(frames, levels)
      BY <1>4
    <3> QED
      BY <2>1, <2>2, <3>1, <3>2, MatchesKept
  <2> QED
    BY <1>4, <2>3
<1>20. W' \in Writer /\ W'.fs = levels' /\ W'.out = out'
  BY <1>2 DEF TypesOK, W, Writer
<1>21. levels'[L].n > 0
  BY <1>9, <1>11, <1>16
<1>22. OpenCame(frames', W', out')
  BY <1>9, <1>16, <1>17, <1>18, <1>19, <1>20, <1>21, FlatCame
<1> QED
  BY <1>1, <1>4, <1>7, <1>15, <1>22

\* A level is pushed.
LEMMA SpeltPush ==
    ASSUME NEW w \in Writer, NEW t, Spelt(t, w), NEW f \in LevelType, ~f.opened,
           NEW u \in Writer, u.out = w.out, u.fs = Append(w.fs, f)
    PROVE  \E x : /\ Spelt(x, u)
                  /\ x[Len(w.fs) + 1] =
                        Bracket(Around(t[Len(w.fs)], w.fs, Len(w.fs) + 1), f)
<1> DEFINE L == Len(w.fs)
           top == Bracket(Around(t[L], w.fs, L + 1), f)
           x == [k \in 0..L + 1 |-> IF k = L + 1 THEN top ELSE t[k]]
<1>1. L \in Nat /\ w.fs \in Seq(LevelType) /\ w.out \in Seq(Tokens)
  BY LenProperties DEF Writer
<1>2. /\ t[0] = w.out /\ \A k \in 0..L : t[k] \in Seq(Tokens)
      /\ \A l \in 1..L :
            t[l] = IF w.fs[l].opened THEN w.out
                   ELSE Bracket(Around(t[l - 1], w.fs, l), w.fs[l])
  BY <1>1 DEF Spelt
<1>3. /\ Len(u.fs) = L + 1 /\ u.fs[L + 1] = f
      /\ \A l \in 1..L : u.fs[l] = w.fs[l]
  BY <1>1, AppendProperties
<1>4. top \in Seq(Tokens)
  <2> DEFINE s == Around(t[L], w.fs, L + 1)
  <2>1. s \in Seq(Tokens)
    <3>1. t[L] \in Seq(Tokens)
      BY <1>1, <1>2
    <3>2. CASE L = 0
      BY <3>1, <3>2 DEF Around
    <3>3. CASE L # 0
      <4>1. L \in 1..L /\ L + 1 - 1 = L /\ L + 1 # 1
        BY <1>1, <3>3
      <4>2. s = After(t[L], w.fs[L])
        BY <4>1 DEF Around
      <4>3. w.fs[L].trail \in Seq(Tokens) /\ <<",">> \in Seq(Tokens)
        <5>1. w.fs[L] \in LevelType
          BY <1>1, <4>1, ElementOfSeq
        <5>2. w.fs[L].trail \in Spaces
          BY <5>1 DEF LevelType
        <5> QED
          BY <5>2, Texts
      <4>4. t[L] \o w.fs[L].trail \o <<",">> \in Seq(Tokens)
        BY <3>1, <4>3, Joined
      <4> QED
        BY <3>1, <4>2, <4>4 DEF After
    <3> QED
      BY <3>2, <3>3
  <2>2. f.head \in Seq(Tokens) /\ Opening(f.isArr) \in Seq(Tokens)
    BY Texts DEF LevelType
  <2> HIDE DEF s
  <2>3. s \o f.head \in Seq(Tokens)
    BY <2>1, <2>2, ConcatProperties
  <2>4. (s \o f.head) \o Opening(f.isArr) \in Seq(Tokens)
    BY <2>2, <2>3, ConcatProperties
  <2> QED
    BY <2>4 DEF Bracket, s
<1> HIDE DEF top
<1>5. /\ x \in [0..L + 1 -> Seq(Tokens)] /\ x[L + 1] = top
      /\ \A k \in 0..L : x[k] = t[k]
  BY <1>1, <1>2, <1>4
<1> HIDE DEF x
<1>6. x[0] = u.out
  BY <1>1, <1>2, <1>5
<1>7. ASSUME NEW l \in 1..L + 1
      PROVE  x[l] = IF u.fs[l].opened THEN u.out
                    ELSE Bracket(Around(x[l - 1], u.fs, l), u.fs[l])
  <2>0. l - 1 \in 0..L /\ (l # 1 => l - 1 \in 1..L)
    BY <1>1
  <2>1. x[l - 1] = t[l - 1]
    BY <1>5, <2>0
  <2>2. Around(x[l - 1], u.fs, l) = Around(t[l - 1], w.fs, l)
    BY <1>3, <2>0, <2>1 DEF Around
  <2>3. CASE l = L + 1
    <3>1. l - 1 = L
      BY <1>1, <2>3
    <3>2. x[l] = Bracket(Around(t[l - 1], w.fs, l), f)
      BY <1>5, <2>3, <3>1 DEF top
    <3> QED
      BY <1>3, <2>2, <2>3, <3>2
  <2>4. CASE l \in 1..L
    <3>1. x[l] = t[l] /\ u.fs[l] = w.fs[l]
      BY <1>1, <1>3, <1>5, <2>4
    <3>2. t[l] = IF w.fs[l].opened THEN w.out
                 ELSE Bracket(Around(t[l - 1], w.fs, l), w.fs[l])
      BY <1>2, <2>4
    <3> QED
      BY <2>2, <3>1, <3>2
  <2> QED
    BY <1>1, <2>3, <2>4
<1>8. Spelt(x, u)
  BY <1>3, <1>5, <1>6, <1>7 DEF Spelt
<1> QED
  BY <1>5, <1>8 DEF top

LEMMA RootCame ==
    ASSUME IInv, AsItCame, IInv', NEW ws \in Spaces, NEW arr \in BOOLEAN,
           Root(ws, arr)
    PROVE  AsItCame'
<1> SUFFICES ASSUME plain' PROVE root' = "open" /\ ~dead' /\ OpenCame(frames, W, inp)'
  BY DEF AsItCame
<1> DEFINE o == Opening(arr)
           w == [out |-> out', fs |-> <<>>]
           f == WFrame(<<>>, arr, FALSE)
           fr == NewFrame(arr, FALSE, FALSE)
           p == push([W EXCEPT !.out = @ \o ws], <<>>, arr, FALSE)
<1>1. /\ root = "none" /\ root' = "open" /\ Reads(ws \o o, TRUE)
      /\ frames' = <<fr>> /\ dead' = dead /\ out' = p.out /\ levels' = p.fs
  BY DEF Root, Becomes
<1>2. /\ TypesOK /\ TypesOK' /\ levels = <<>> /\ W.fs = <<>>
  BY <1>1 DEF IInv, InStep, W
<1>3. plain /\ inp' = inp \o (ws \o o)
  BY <1>1, <1>2, PlainReads, Zenon
<1>4. ~dead /\ out = <<>> /\ inp = <<>>
  BY <1>1, <1>3 DEF AsItCame
<1>5. ws \in Seq(Tokens) /\ o \in Seq(Tokens) /\ <<>> \in Seq(Tokens)
  BY Texts
<1>6. out' = ws /\ levels' = Append(<<>>, f)
  <2> DEFINE q == [W EXCEPT !.out = W.out \o ws]
  <2>1. W \in Writer /\ W.fs = levels /\ W.out = out
    BY <1>2, WriterOK
  <2>6. out \o ws \in Seq(Tokens)
    BY <1>4, <1>5, ConcatProperties
  <2>2. q.out = out \o ws /\ q.fs = levels /\ q \in Writer
    BY <2>1, <2>6 DEF Writer
  <2>5. p = [q EXCEPT !.fs = Append(q.fs, f)]
    BY DEF push
  <2> HIDE DEF q
  <2>3. p.out = out \o ws /\ p.fs = Append(levels, f)
    BY <2>2, <2>5 DEF Writer
  <2> HIDE DEF p, f
  <2>4. out \o ws = ws
    BY <1>4, <1>5, ConcatEmptySeq
  <2> QED
    BY <1>1, <1>2, <2>3, <2>4
<1>7. inp' = ws \o o
  BY <1>3, <1>4, <1>5, ConcatEmptySeq, ConcatProperties
<1>8. /\ f \in LevelType /\ ~f.opened /\ f.head = <<>> /\ f.isArr = arr
      /\ f.n = 0
  BY <1>5, NewLevel DEF WFrame
<1>9. fr.arr = arr /\ ~fr.flat /\ ~fr.lazy /\ fr.ph = "first"
  BY DEF NewFrame
<1> HIDE DEF f, fr, p, o
<1>10. w \in Writer /\ w.out = out' /\ w.fs = <<>> /\ Len(w.fs) = 0
  BY <1>5, <1>6 DEF Writer
<1> HIDE DEF w
<1>11. \E t : Spelt(t, w) /\ \A j \in 0..Len(w.fs) : t[j] = w.out
  <2>1. \A j \in 1..Len(w.fs) : w.fs[j].opened
    BY <1>10
  <2> QED
    BY <1>10, <2>1, FlatSpelt
<1>12. PICK t : Spelt(t, w) /\ t[0] = ws
  BY <1>6, <1>10, <1>11
<1>13. W' \in Writer /\ W'.out = w.out /\ W'.fs = Append(w.fs, f) /\ W'.fs = levels'
  BY <1>2, <1>6, <1>10 DEF TypesOK, W, Writer
<1>14. PICK x : /\ Spelt(x, W')
                /\ x[Len(w.fs) + 1] =
                      Bracket(Around(t[Len(w.fs)], w.fs, Len(w.fs) + 1), f)
  BY <1>8, <1>10, <1>12, <1>13, SpeltPush
<1>15. x[1] = inp'
  <2>1. Around(t[0], w.fs, 1) = ws
    BY <1>12 DEF Around
  <2>2. x[1] = Bracket(ws, f)
    BY <1>10, <1>14, <2>1
  <2>3. Bracket(ws, f) = ws \o <<>> \o o
    BY <1>8 DEF Bracket, o
  <2>4. ws \o <<>> = ws
    BY <1>5, ConcatEmptySeq
  <2> QED
    BY <1>7, <2>2, <2>3, <2>4
<1>16. Len(levels') = 1 /\ levels'[1] = f /\ Len(frames') = 1 /\ frames'[1] = fr
  BY <1>1, <1>6, <1>8
<1>17. Matches(frames', levels') /\ Tidy(levels')
  BY <1>8, <1>9, <1>16 DEF Matches, Tidy
<1>18. OpenCame(frames', W', inp')
  BY <1>8, <1>9, <1>13, <1>14, <1>15, <1>16, <1>17 DEF OpenCame
<1> QED
  BY <1>1, <1>4, <1>18

LEMMA EnterCame ==
    ASSUME IInv, AsItCame, IInv', NEW ws \in Spaces, NEW arr \in BOOLEAN,
           NEW flat \in BOOLEAN, NEW lazy \in BOOLEAN, NEW renamed \in BOOLEAN,
           Enter(ws, arr, flat, lazy, renamed)
    PROVE  AsItCame'
<1> SUFFICES ASSUME plain' PROVE root' = "open" /\ ~dead' /\ OpenCame(frames, W, inp)'
  BY DEF AsItCame
<1> DEFINE L == Len(levels)
           h == HeadRaw(ws)
           o == Opening(arr)
           f == WFrame(h, arr, FALSE)
           fr == NewFrame(arr, FALSE, FALSE)
           fo == Phased(frames, "comma")
<1>1. ValueMay /\ root = "open" /\ root' = root /\ dead' = dead /\ out' = out
      /\ Reads(h \o o, ~flat /\ ~lazy /\ ~renamed)
      /\ frames' = Append(Followed, NewFrame(arr, flat, lazy))
  BY DEF Enter, ValueMay
<1>2. TypesOK /\ TypesOK'
  BY DEF IInv
<1>3. plain /\ ~flat /\ ~lazy /\ ~renamed /\ inp' = inp \o (h \o o)
  BY <1>1, <1>2, PlainReads, Zenon
<1>4. /\ ~dead /\ W \in Writer /\ W.fs = levels /\ W.out = out /\ Shape(levels)
      /\ Tidy(levels)
      /\ levels \in Seq(LevelType) /\ Matches(frames, levels)
      /\ frames \in Seq(FrameType) /\ Len(frames) \in Nat \ {0} /\ L = Len(frames)
  BY <1>1, <1>3, PlainOpen
<1>5. HeadAs(ws, renamed) = h
  BY <1>3 DEF HeadAs
<1>6. levels' = Append(levels, f)
  <2>1. levels' = push(W, h, arr, FALSE).fs
    BY <1>3, <1>5 DEF Enter
  <2> HIDE DEF f
  <2>2. push(W, h, arr, FALSE) = [W EXCEPT !.fs = Append(levels, f)]
    BY <1>4 DEF push, f
  <2> QED
    BY <1>4, <2>1, <2>2 DEF Writer
<1>7. frames' = Append(fo, fr)
  <2>1. flat = FALSE /\ lazy = FALSE
    BY <1>3
  <2>2. Followed = fo
    BY DEF Followed, Phased
  <2> QED
    BY <1>1, <2>1, <2>2
<1>8. inp \in Seq(Tokens) /\ h \in Seq(Tokens) /\ o \in Seq(Tokens)
  BY <1>2, HeadOK, Texts DEF TypesOK
<1>9. /\ f \in LevelType /\ ~f.opened /\ f.head = h /\ f.isArr = arr /\ f.n = 0
  BY <1>8, NewLevel DEF WFrame
<1>10. fr.arr = arr /\ ~fr.flat /\ ~fr.lazy /\ fr.ph = "first"
  BY DEF NewFrame
<1>11. /\ fo \in Seq(FrameType)
       /\ Matches(fo, levels) /\ Len(fo) = L /\ fo[L].ph = "comma"
  <2>1. "comma" \in {"first", "comma", "next"} /\ Len(frames) >= 1
    BY <1>4
  <2> HIDE DEF fo
  <2>2. frames \in Seq(FrameType) /\ Matches(frames, levels)
    BY <1>4
  <2>3. fo = Phased(frames, "comma")
    BY DEF fo
  <2>4. /\ fo \in Seq(FrameType) /\ Matches(fo, levels)
        /\ Len(fo) = Len(frames) /\ fo[Len(frames)].ph = "comma"
    BY <2>1, <2>2, <2>3, MatchesKept
  <2> QED
    BY <1>4, <2>4
<1>12. fo \in Seq(FrameType) /\ fr \in FrameType
  BY <1>11 DEF NewFrame, FrameType
<1> HIDE DEF f, fr, fo, o, h
<1>13. /\ Len(levels') = L + 1 /\ levels'[L + 1] = f
       /\ \A j \in 1..L : levels'[j] = levels[j]
  BY <1>4, <1>6, <1>9, AppendProperties
<1>14. /\ Len(frames') = L + 1 /\ frames'[L + 1] = fr
       /\ \A j \in 1..L : frames'[j] = fo[j]
  BY <1>7, <1>11, <1>12, AppendProperties
<1>15. PICK t : Spelt(t, W) /\ inp = After(t[L], levels[L])
  BY <1>1, <1>3, ValueText
<1>16. W' \in Writer /\ W'.out = W.out /\ W'.fs = Append(W.fs, f) /\ W'.fs = levels'
  BY <1>1, <1>2, <1>4, <1>6 DEF TypesOK, W, Writer
<1>17. PICK x : /\ Spelt(x, W')
                /\ x[Len(W.fs) + 1] =
                      Bracket(Around(t[Len(W.fs)], W.fs, Len(W.fs) + 1), f)
  BY <1>4, <1>9, <1>15, <1>16, SpeltPush
<1>18. x[L + 1] = inp'
  <2>1. L + 1 # 1 /\ L + 1 - 1 = L
    BY <1>4
  <2>2. Around(t[L], levels, L + 1) = inp
    BY <1>15, <2>1 DEF Around
  <2>3. x[L + 1] = Bracket(inp, f)
    BY <1>4, <1>17, <2>2
  <2>4. Bracket(inp, f) = (inp \o h) \o o
    BY <1>9 DEF Bracket, o
  <2> QED
    BY <1>3, <1>8, <2>3, <2>4, Joined
<1>19. Matches(frames', levels')
  <2> SUFFICES ASSUME NEW i \in 1..L + 1
               PROVE  /\ ~frames'[i].flat /\ ~frames'[i].lazy
                      /\ frames'[i].arr = levels'[i].isArr
                      /\ i < L + 1 => frames'[i].ph = "comma"
    BY <1>13, <1>14 DEF Matches
  <2>1. CASE i = L + 1
    BY <1>9, <1>10, <1>13, <1>14, <2>1
  <2>2. CASE i \in 1..L
    <3>1. frames'[i] = fo[i] /\ levels'[i] = levels[i]
      BY <1>13, <1>14, <2>2
    <3>2. /\ ~fo[i].flat /\ ~fo[i].lazy /\ fo[i].arr = levels[i].isArr
          /\ i < L => fo[i].ph = "comma"
      BY <1>11, <2>2 DEF Matches
    <3>3. i < L \/ i = L
      BY <1>4, <2>2
    <3> QED
      BY <1>11, <3>1, <3>2, <3>3
  <2> QED
    BY <1>4, <2>1, <2>2
<1>20. Tidy(levels')
  <2> SUFFICES ASSUME NEW j \in 2..L + 1, levels'[j].opened
               PROVE  levels'[j - 1].trail = <<>>
    BY <1>13 DEF Tidy
  <2>1. j # L + 1
    BY <1>9, <1>13
  <2>2. j \in 2..L /\ j \in 1..L /\ j - 1 \in 1..L
    BY <1>4, <2>1
  <2> QED
    BY <1>4, <1>13, <2>2 DEF Tidy
<1>21. OpenCame(frames', W', inp')
  BY <1>9, <1>10, <1>13, <1>14, <1>16, <1>17, <1>18, <1>19, <1>20 DEF OpenCame
<1> QED
  BY <1>1, <1>4, <1>21

LEMMA CommaCame ==
    ASSUME IInv, AsItCame, IInv', NEW ws \in Spaces, Comma(ws)
    PROVE  AsItCame'
<1> SUFFICES ASSUME plain' PROVE root' = "open" /\ ~dead' /\ OpenCame(frames, W, inp)'
  BY DEF AsItCame
<1> DEFINE L == Len(levels)
           c == <<",">>
           f == levels[L]
           g == [f EXCEPT !.trail = ws]
<1>1. root = "open" /\ root' = root /\ dead' = dead /\ Top.ph = "comma"
      /\ Reads(ws \o c, TRUE) /\ frames' = Phased(frames, "next")
      /\ out' = trailWs(W, ws).out /\ levels' = trailWs(W, ws).fs
  BY DEF Comma, Becomes, Phased
<1>2. TypesOK /\ TypesOK'
  BY DEF IInv
<1>3. plain /\ inp' = inp \o (ws \o c)
  BY <1>1, <1>2, PlainReads, Zenon
<1>4. /\ ~dead /\ W \in Writer /\ W.fs = levels /\ W.out = out /\ Shape(levels)
      /\ Tidy(levels) /\ OpenCame(frames, W, inp)
      /\ levels \in Seq(LevelType) /\ Matches(frames, levels)
      /\ frames \in Seq(FrameType) /\ Len(frames) \in Nat \ {0} /\ L = Len(frames)
      /\ Top = frames[L]
  BY <1>1, <1>3, PlainOpen
<1>5. out' = out /\ levels' = [levels EXCEPT ![L] = g]
  <2>1. levels # <<>>
    BY <1>4
  <2>2. trailWs(W, ws) = [W EXCEPT !.fs = [levels EXCEPT ![L] = g]]
    BY <1>4, <2>1 DEF trailWs
  <2> HIDE DEF g
  <2> QED
    BY <1>1, <1>4, <2>2 DEF Writer
<1>6. L \in 1..L /\ f \in LevelType
  BY <1>4, ElementOfSeq
<1>7. /\ g \in LevelType /\ g.opened = f.opened /\ g.n = f.n /\ g.head = f.head
      /\ g.isArr = f.isArr /\ g.trail = ws
  <2> HIDE DEF f
  <2> QED
    BY <1>6 DEF LevelType
<1> HIDE DEF g
<1>8. /\ Len(levels') = L
      /\ \A j \in 1..L : levels'[j] = IF j = L THEN g ELSE levels[j]
  BY <1>4, <1>5, <1>6, <1>7, ExceptSeq
<1>9. /\ \A j \in 1..L : /\ levels'[j].opened = levels[j].opened
                         /\ levels'[j].n = levels[j].n
                         /\ levels'[j].head = levels[j].head
                         /\ levels'[j].isArr = levels[j].isArr
      /\ \A j \in 1..L - 1 : levels'[j] = levels[j]
  <2>1. \A j \in 1..L - 1 : j \in 1..L /\ j # L
    BY <1>4
  <2> QED
    BY <1>7, <1>8, <2>1
<1>10. PICK t : Spelt(t, W) /\ inp = t[L]
  BY <1>1, <1>4 DEF OpenCame
<1>11. W' \in Writer /\ W'.out = out /\ W'.fs = levels'
  BY <1>2, <1>5 DEF TypesOK, W, Writer
<1>12. Spelt(t, W')
  <2>1. t \in [0..L -> Seq(Tokens)] /\ t[0] = out
    BY <1>4, <1>10 DEF Spelt
  <2>2. ASSUME NEW l \in 1..L
        PROVE  t[l] = IF levels'[l].opened THEN out
                      ELSE Bracket(Around(t[l - 1], levels', l), levels'[l])
    <3>1. t[l] = IF levels[l].opened THEN out
                 ELSE Bracket(Around(t[l - 1], levels, l), levels[l])
      BY <1>4, <1>10 DEF Spelt
    <3>2. l # 1 => l - 1 \in 1..L - 1
      BY <1>4
    <3>3. Around(t[l - 1], levels', l) = Around(t[l - 1], levels, l)
      BY <1>9, <3>2 DEF Around
    <3>4. Bracket(Around(t[l - 1], levels, l), levels'[l]) =
              Bracket(Around(t[l - 1], levels, l), levels[l])
      BY <1>9 DEF Bracket
    <3> QED
      BY <1>9, <3>1, <3>3, <3>4
  <2> QED
    BY <1>8, <1>11, <2>1, <2>2 DEF Spelt
<1>13. f.n > 0
  <2>1. f.n # 0
    BY <1>1, <1>4 DEF OpenCame
  <2> QED
    BY <1>6, <2>1 DEF LevelType
<1>14. inp' = After(t[L], levels'[L])
  <2>1. After(t[L], levels'[L]) = (inp \o ws) \o c
    BY <1>6, <1>7, <1>8, <1>10, <1>13 DEF After
  <2>2. inp \in Seq(Tokens) /\ ws \in Seq(Tokens) /\ c \in Seq(Tokens)
    BY <1>2, Texts DEF TypesOK
  <2> HIDE DEF c
  <2> QED
    BY <1>3, <2>1, <2>2, Joined
<1>15. /\ Matches(frames', levels') /\ Len(frames') = L /\ frames'[L].ph = "next"
  <2>1. "next" \in {"first", "comma", "next"} /\ Len(frames) >= 1
        /\ Len(levels') = Len(levels)
        /\ \A j \in 1..Len(levels) : levels'[j].isArr = levels[j].isArr
    BY <1>4, <1>8, <1>9
  <2>2. /\ Matches(frames', levels') /\ Len(frames') = Len(frames)
        /\ frames'[Len(frames)].ph = "next"
    <3>1. frames \in Seq(FrameType) /\ Matches(frames, levels)
      BY <1>4
    <3>2. frames' = Phased(frames, "next")
      BY <1>1
    <3> QED
      BY <2>1, <3>1, <3>2, MatchesKept
  <2> QED
    BY <1>4, <2>2
<1>16. Tidy(levels')
  <2> SUFFICES ASSUME NEW j \in 2..L, levels'[j].opened
               PROVE  levels'[j - 1].trail = <<>>
    BY <1>8 DEF Tidy
  <2>1. j \in 1..L /\ j - 1 \in 1..L - 1
    BY <1>4
  <2> QED
    BY <1>4, <1>9, <2>1 DEF Tidy
<1>17. levels'[L].n # 0
  BY <1>6, <1>9, <1>13
<1>18. OpenCame(frames', W', inp')
  BY <1>8, <1>11, <1>12, <1>14, <1>15, <1>16, <1>17 DEF OpenCame
<1> QED
  BY <1>1, <1>4, <1>18

\* u is w with its top level closed as it came: opened, and its bracket after ws.
LeftCame(w, t, ws, u) ==
    /\ u.out = t[Len(w.fs)] \o ws \o Closing(w.fs[Len(w.fs)].isArr)
    /\ Len(u.fs) = Len(w.fs) - 1 /\ Tidy(u.fs)
    /\ \A j \in 1..Len(w.fs) - 1 :
          u.fs[j].opened /\ u.fs[j].n > 0 /\ u.fs[j].isArr = w.fs[j].isArr

LEMMA LeftAsItCame ==
    ASSUME NEW w \in Writer, Shape(w.fs), Tidy(w.fs), NEW t, Spelt(t, w),
           Len(w.fs) >= 1, NEW ws \in Spaces
    PROVE  LeftCame(w, t, ws, LeaveLevel(w, FALSE, ws))
<1> DEFINE L == Len(w.fs)
           e == ensureOpen(w, L)
           u == LeaveLevel(w, FALSE, ws)
<1>1. L \in Nat /\ L \in 1..L
  BY LenProperties DEF Writer
<1>2. TopOpened(w, t, e)
  BY EnsureTop
<1>3. u = pop(e, ws)
  BY DEF LeaveLevel
<1> HIDE DEF e, u
<1>4. /\ e.fs \in Seq(LevelType) /\ Shape(e.fs) /\ Tidy(e.fs) /\ Len(e.fs) = L
      /\ e.out = t[L]
      /\ \A j \in 1..L : e.fs[j].opened /\ e.fs[j].isArr = w.fs[j].isArr
  BY <1>2 DEF TopOpened, Writer
<1>5. Last(e.fs) = e.fs[L] /\ e.fs # <<>>
  BY <1>1, <1>4 DEF Last
<1>6. u.out = t[L] \o ws \o Closing(w.fs[L].isArr) /\ u.fs = Front(e.fs)
  <2>1. Last(e.fs).opened /\ Last(e.fs).isArr = w.fs[L].isArr
    BY <1>1, <1>4, <1>5
  <2>3. u = [out |-> IF Last(e.fs).opened
                     THEN e.out \o ws \o Closing(Last(e.fs).isArr) ELSE e.out,
             fs  |-> Front(e.fs)]
    BY <1>3, Zenon DEF pop
  <2>2. u.out = e.out \o ws \o Closing(Last(e.fs).isArr) /\ u.fs = Front(e.fs)
    BY <2>1, <2>3
  <2> QED
    BY <1>4, <2>1, <2>2
<1>7. Len(u.fs) = L - 1 /\ \A j \in 1..L - 1 : u.fs[j] = e.fs[j]
  <2> DEFINE fs == e.fs
  <2>1. fs \in Seq(LevelType) /\ fs # <<>> /\ Len(fs) = L /\ u.fs = Front(fs)
    BY <1>4, <1>5, <1>6
  <2> HIDE DEF fs
  <2>2. Len(Front(fs)) = Len(fs) - 1 /\ \A j \in 1..Len(fs) - 1 : Front(fs)[j] = fs[j]
    BY <2>1, FrontOK
  <2>3. Len(u.fs) = L - 1 /\ \A j \in 1..L - 1 : u.fs[j] = fs[j]
    BY <2>1, <2>2
  <2> QED
    BY <2>3 DEF fs
<1>8. \A j \in 1..L - 1 : j \in 1..L /\ j + 1 \in 1..L /\ j + 1 > 1 /\ j + 1 - 1 = j
  BY <1>1
<1>9. \A j \in 1..L - 1 : e.fs[j].n > 0
  BY <1>4, <1>8 DEF Shape
<1>10. Tidy(u.fs)
  <2>1. \A j \in 2..L - 1 : j \in 2..L /\ j \in 1..L - 1 /\ j - 1 \in 1..L - 1
    BY <1>1
  <2> QED
    BY <1>4, <1>7, <2>1 DEF Tidy
<1> QED
  BY <1>4, <1>6, <1>7, <1>8, <1>9, <1>10 DEF LeftCame, u

LEMMA CloseCame ==
    ASSUME IInv, AsItCame, IInv', NEW ws \in Spaces, Close(ws)
    PROVE  AsItCame'
<1> SUFFICES ASSUME plain' PROVE AsItCame'
  BY DEF AsItCame
<1> DEFINE L == Len(levels)
           c == Closing(Top.arr)
<1>1. root = "open" /\ dead' = dead /\ Top.ph \in {"first", "comma"}
      /\ Reads(ws \o c, TRUE) /\ frames' = Front(frames)
  BY DEF Close
<1>2. TypesOK /\ TypesOK'
  BY DEF IInv
<1>3. plain /\ inp' = inp \o (ws \o c)
  BY <1>1, <1>2, PlainReads, Zenon
<1>4. /\ ~dead /\ W \in Writer /\ W.fs = levels /\ W.out = out /\ Shape(levels)
      /\ Tidy(levels) /\ OpenCame(frames, W, inp)
      /\ levels \in Seq(LevelType) /\ Matches(frames, levels)
      /\ frames \in Seq(FrameType) /\ Len(frames) \in Nat \ {0} /\ L = Len(frames)
      /\ Top = frames[L]
  BY <1>1, <1>3, PlainOpen
<1>5. PICK t : Spelt(t, W) /\ inp = t[L]
  BY <1>1, <1>4 DEF OpenCame
<1>6. L \in 1..L /\ ~Top.flat /\ ~Top.lazy /\ Top.arr = levels[L].isArr
  BY <1>4 DEF Matches
<1>7. W' \in Writer /\ W'.out = out' /\ W'.fs = levels'
  BY <1>2 DEF TypesOK, W, Writer
<1>8. inp' = (inp \o ws) \o c
  <2>1. inp \in Seq(Tokens) /\ ws \in Seq(Tokens) /\ c \in Seq(Tokens)
    BY <1>2, Texts DEF TypesOK
  <2> HIDE DEF c
  <2> QED
    BY <1>3, <2>1, Joined
<1>9. CASE L = 1
  <2>1. root' = "done" /\ closeWs' = ws /\ out' = out /\ levels' = levels
    BY <1>4, <1>9 DEF Close
  <2>2. inp' = t[1] \o ws \o Closing(levels[1].isArr)
    BY <1>5, <1>6, <1>8, <1>9
  <2>3. W' = W
    BY <2>1 DEF W
  <2>4. DoneCame(W', closeWs', inp')
    BY <1>4, <1>5, <1>9, <2>1, <2>2, <2>3 DEF DoneCame
  <2> QED
    BY <1>1, <1>4, <2>1, <2>4 DEF AsItCame
<1>10. CASE L # 1
  <2> DEFINE u == LeaveLevel(W, Top.lazy, ws)
  <2>1. root' = "open" /\ out' = u.out /\ levels' = u.fs
    BY <1>1, <1>4, <1>6, <1>10 DEF Close, Becomes
  <2>2. Top.lazy = FALSE
    <3>1. Top \in FrameType
      BY <1>4, <1>6, ElementOfSeq
    <3> QED
      BY <1>6, <3>1 DEF FrameType
  <2>3. u = LeaveLevel(W, FALSE, ws)
    BY <2>2
  <2> HIDE DEF u
  <2>4. L >= 1 /\ L - 1 \in 1..L - 1 /\ L - 1 \in Nat
    BY <1>4, <1>10
  <2>5. /\ u.out = t[L] \o ws \o Closing(levels[L].isArr)
        /\ Len(u.fs) = L - 1 /\ Tidy(u.fs)
        /\ \A j \in 1..L - 1 :
              u.fs[j].opened /\ u.fs[j].n > 0 /\ u.fs[j].isArr = levels[j].isArr
    <3>1. /\ W \in Writer /\ Shape(W.fs) /\ Tidy(W.fs) /\ Len(W.fs) >= 1
          /\ Len(W.fs) = L
      BY <1>4, <2>4
    <3>2. /\ u.out = t[Len(W.fs)] \o ws \o Closing(W.fs[Len(W.fs)].isArr)
          /\ Len(u.fs) = Len(W.fs) - 1 /\ Tidy(u.fs)
          /\ \A j \in 1..Len(W.fs) - 1 :
                u.fs[j].opened /\ u.fs[j].n > 0 /\ u.fs[j].isArr = W.fs[j].isArr
      BY <1>5, <2>3, <3>1, LeftAsItCame DEF LeftCame
    <3> QED
      BY <1>4, <3>1, <3>2
  <2>6. inp' = out'
    BY <1>5, <1>6, <1>8, <2>1, <2>5
  <2>7. Len(frames') = L - 1 /\ \A j \in 1..L - 1 : frames'[j] = frames[j]
    <3>1. frames # <<>>
      BY <1>4
    <3> QED
      BY <1>1, <1>4, <3>1, FrontOK
  <2>8. \A i \in 1..L - 1 :
            /\ ~frames'[i].flat /\ ~frames'[i].lazy
            /\ frames'[i].arr = levels'[i].isArr /\ frames'[i].ph = "comma"
    <3>1. \A i \in 1..L - 1 : i \in 1..L /\ i < L
      BY <1>4
    <3> QED
      BY <1>4, <2>1, <2>5, <2>7, <3>1 DEF Matches
  <2>9. Matches(frames', levels')
    BY <2>1, <2>5, <2>7, <2>8 DEF Matches
  <2>10. frames'[L - 1].ph = "comma" /\ levels'[L - 1].n > 0
    BY <2>1, <2>4, <2>5, <2>8
  <2>11. OpenCame(frames', W', out')
    BY <1>7, <2>1, <2>4, <2>5, <2>7, <2>9, <2>10, FlatCame
  <2> QED
    BY <1>1, <1>4, <2>1, <2>6, <2>11 DEF AsItCame
<1> QED
  BY <1>9, <1>10

LEMMA FinishCame ==
    ASSUME IInv, AsItCame, IInv', NEW ws \in Spaces, Finish(ws)
    PROVE  AsItCame'
<1> SUFFICES ASSUME plain' PROVE root' = "finished" /\ ~dead' /\ out' = inp'
  BY DEF AsItCame
<1> DEFINE u == LeaveLevel(W, FALSE, closeWs)
<1>1. root = "done" /\ root' = "finished" /\ dead' = dead /\ Reads(ws, TRUE)
      /\ out' = u.out \o ws /\ Len(levels) = 1
  BY DEF Finish
<1>2. TypesOK /\ W \in Writer /\ W.fs = levels /\ Shape(levels)
  BY WriterOK DEF IInv
<1>3. plain /\ inp' = inp \o ws
  BY <1>1, <1>2, PlainReads, Zenon
<1>4. ~dead /\ DoneCame(W, closeWs, inp)
  BY <1>1, <1>3 DEF AsItCame
<1>5. PICK t : Spelt(t, W) /\ inp = t[1] \o closeWs \o Closing(levels[1].isArr)
  BY <1>2, <1>4 DEF DoneCame
<1>6. Tidy(levels) /\ closeWs \in Spaces /\ Len(levels) >= 1
  BY <1>1, <1>2, <1>4 DEF DoneCame, TypesOK
<1> HIDE DEF u
<1>7. u = LeaveLevel(W, FALSE, closeWs)
  BY DEF u
<1>8. u.out = t[Len(levels)] \o closeWs \o Closing(levels[Len(levels)].isArr)
  <2>1. Shape(W.fs) /\ Tidy(W.fs) /\ Len(W.fs) >= 1
    BY <1>2, <1>6
  <2>3. LeftCame(W, t, closeWs, LeaveLevel(W, FALSE, closeWs))
    BY <1>2, <1>5, <1>6, <2>1, LeftAsItCame
  <2>2. u.out = t[Len(W.fs)] \o closeWs \o Closing(W.fs[Len(W.fs)].isArr)
    BY <1>7, <2>3 DEF LeftCame
  <2> QED
    BY <1>2, <2>2
<1> QED
  BY <1>1, <1>3, <1>4, <1>5, <1>8

LEMMA CameNext ==
    ASSUME IInv, AsItCame, [Next]_vars
    PROVE  AsItCame'
<1>0. IInv'
  BY NextInv
<1>1. CASE \E ws \in Spaces, arr \in BOOLEAN : Root(ws, arr)
  BY <1>0, <1>1, RootCame
<1>2. CASE \E ws \in Spaces : Drop(ws)
  <2>1. PICK ws \in Spaces : Drop(ws)
    BY <1>2
  <2>2. Reads(HeadRaw(ws) \o <<"v">>, FALSE)
    BY <2>1 DEF Drop
  <2>3. ~plain'
    BY <2>2, Zenon DEF Reads
  <2> QED
    BY <2>3 DEF AsItCame
<1>3. CASE \E ws \in Spaces, l \in DOMAIN levels, renamed \in BOOLEAN :
              PassAt(ws, l, renamed)
  BY <1>0, <1>3, PassAtCame
<1>4. CASE \E ws \in Spaces, arr, flat, lazy, renamed \in BOOLEAN :
              Enter(ws, arr, flat, lazy, renamed)
  BY <1>0, <1>4, EnterCame
<1>5. CASE \E ws \in Spaces : Comma(ws)
  BY <1>0, <1>5, CommaCame
<1>6. CASE \E ws \in Spaces : Close(ws)
  BY <1>0, <1>6, CloseCame
<1>7. CASE \E ws \in Spaces : Finish(ws)
  BY <1>0, <1>7, FinishCame
<1>8. CASE HookCall
  BY <1>8 DEF HookCall, AsItCame
<1>9. CASE UNCHANGED vars
  BY <1>9 DEF vars, AsItCame, W
<1> QED
  BY <1>1, <1>2, <1>3, <1>4, <1>5, <1>6, <1>7, <1>8, <1>9
     DEF Next, HookEntry, HookPush, HookPop, HookOpen

\* An open or closed document continues what is written of it.
LEMMA CameImplies ==
    ASSUME IInv, AsItCame
    PROVE  EnterIsIdentity
<1> SUFFICES ASSUME plain
             PROVE  IsPrefix(out, inp) /\ (root = "finished" => out = inp)
  BY DEF EnterIsIdentity
<1>1. /\ TypesOK /\ W \in Writer /\ W.fs = levels /\ W.out = out
      /\ out \in Seq(Tokens) /\ <<>> \in Seq(Tokens)
  BY WriterOK DEF IInv, TypesOK
<1>2. \E r \in Seq(Tokens) : inp = out \o r
  <2>1. CASE root \in {"none", "finished"}
    <3>1. inp = out /\ out \o <<>> = out
      BY <1>1, <2>1, ConcatEmptySeq DEF AsItCame
    <3> QED
      BY <1>1, <3>1
  <2>2. CASE root = "open"
    <3> DEFINE L == Len(levels)
    <3>1. /\ OpenCame(frames, W, inp) /\ L = Len(frames) /\ L \in Nat \ {0}
          /\ levels \in Seq(LevelType)
      BY <2>2, PlainOpen
    <3>2. PICK t : /\ Spelt(t, W)
                   /\ inp = t[L] \/ inp = After(t[L], levels[L])
      BY <1>1, <3>1 DEF OpenCame
    <3>3. L \in 0..L /\ L \in 1..L
      BY <3>1
    <3>4. t[L] \in Seq(Tokens) /\ \E r \in Seq(Tokens) : t[L] = out \o r
      BY <1>1, <3>2, <3>3, SpeltExtends
    <3>5. CASE inp = t[L]
      BY <3>4, <3>5
    <3>6. CASE inp = t[L] \o levels[L].trail \o <<",">>
      <4>1. levels[L].trail \in Seq(Tokens) /\ <<",">> \in Seq(Tokens)
        <5>1. levels[L] \in LevelType
          BY <3>1, <3>3, ElementOfSeq
        <5>2. levels[L].trail \in Spaces
          BY <5>1 DEF LevelType
        <5> QED
          BY <5>2, Texts
      <4>2. PICK r \in Seq(Tokens) : t[L] = out \o r
        BY <3>4
      <4>3. \A a, b \in Seq(Tokens) :
                \E q \in Seq(Tokens) : ((out \o r) \o a) \o b = out \o q
        BY <1>1, Extended
      <4>4. \E q \in Seq(Tokens) :
                ((out \o r) \o levels[L].trail) \o <<",">> = out \o q
        BY <4>1, <4>3
      <4> QED
        BY <3>6, <4>2, <4>4
    <3> QED
      BY <3>2, <3>5, <3>6 DEF After
  <2>3. CASE root = "done"
    <3>1. PICK t : /\ Spelt(t, W) /\ Len(levels) = 1
                   /\ inp = t[1] \o closeWs \o Closing(levels[1].isArr)
      BY <1>1, <2>3 DEF AsItCame, DoneCame
    <3>2. 1 \in 0..Len(W.fs)
      BY <1>1, <3>1
    <3>8. \A l \in 0..Len(W.fs) : \E r \in Seq(Tokens) : t[l] = W.out \o r
      BY <1>1, <3>1, SpeltExtends
    <3>6. \E r \in Seq(Tokens) : t[1] = W.out \o r
      BY <3>2, <3>8
    <3>3. PICK r \in Seq(Tokens) : t[1] = out \o r
      BY <1>1, <3>6
    <3>4. closeWs \in Seq(Tokens) /\ Closing(levels[1].isArr) \in Seq(Tokens)
      BY <1>1, Texts DEF TypesOK
    <3>5. \A a, b \in Seq(Tokens) :
              \E q \in Seq(Tokens) : ((out \o r) \o a) \o b = out \o q
      BY <1>1, Extended
    <3>7. \E q \in Seq(Tokens) :
              ((out \o r) \o closeWs) \o Closing(levels[1].isArr) = out \o q
      BY <3>4, <3>5
    <3> QED
      BY <3>1, <3>3, <3>7
  <2> QED
    BY <1>1, <2>1, <2>2, <2>3 DEF TypesOK
<1>3. PICK r \in Seq(Tokens) : inp = out \o r
  BY <1>2
<1>4. /\ Len(inp) = Len(out) + Len(r) /\ Len(out) \in Nat /\ Len(r) \in Nat
      /\ \A i \in 1..Len(out) + Len(r) :
            inp[i] = IF i <= Len(out) THEN out[i] ELSE r[i - Len(out)]
      /\ inp \in Seq(Tokens)
  BY <1>1, <1>3, ConcatProperties, LenProperties
<1>5. IsPrefix(out, inp)
  <2>1. Len(out) <= Len(inp) /\ \A i \in 1..Len(out) : inp[i] = out[i]
    BY <1>4
  <2>2. SubSeq(out, 1, Len(out)) = SubSeq(inp, 1, Len(out))
    <3>1. SubSeq(out, 1, Len(out)) = [i \in 1..Len(out) |-> out[1 + i - 1]]
      BY <1>1, <1>4
    <3>2. SubSeq(inp, 1, Len(out)) = [i \in 1..Len(out) |-> inp[1 + i - 1]]
      BY <1>4
    <3> QED
      BY <1>4, <2>1, <3>1, <3>2
  <2> QED
    BY <2>1, <2>2 DEF IsPrefix
<1> QED
  BY <1>5 DEF AsItCame

\* Entering a container keeps it: as long as everything is passed or entered as
\* it is, the output is a beginning of the document, whitespace and separators
\* included, and at Finish all of it (region.go:98, writer.go:119-173).
THEOREM EnteringIsIdentity == Spec => []EnterIsIdentity
<1>1. Init => AsItCame
  BY DEF Init, AsItCame
<1>2. IInv /\ AsItCame /\ [Next]_vars => AsItCame'
  BY CameNext
<1>3. IInv /\ AsItCame => EnterIsIdentity
  BY CameImplies
<1> QED
  BY <1>1, <1>2, <1>3, Invariance, PTL DEF Spec

-----------------------------------------------------------------------------
(* Sequences put together. *)

\* q[i] is the first i sequences of s put together, up to m of them.
RunsTo(q, s, S, m) ==
    /\ q[0] = <<>> /\ \A i \in 0..m : q[i] \in Seq(S)
    /\ \A i \in 1..m : q[i] = q[i - 1] \o s[i]

Runs(q, s, S) == RunsTo(q, s, S, Len(s))

LEMMA RunsExist ==
    ASSUME NEW S, NEW s \in Seq(Seq(S))
    PROVE  \E q : Runs(q, s, S)
<1>1. Len(s) \in Nat /\ \A i \in 1..Len(s) : s[i] \in Seq(S)
  BY LenProperties, ElementOfSeq
<1> DEFINE M == {m \in Nat : m <= Len(s) => \E q : RunsTo(q, s, S, m)}
<1>2. 0 \in M
  <2> DEFINE q == [i \in 0..0 |-> <<>>]
  <2>1. RunsTo(q, s, S, 0)
    BY DEF RunsTo
  <2> QED
    BY <2>1
<1>3. ASSUME NEW m \in Nat, m \in M PROVE m + 1 \in M
  <2> SUFFICES ASSUME m + 1 <= Len(s) PROVE \E q : RunsTo(q, s, S, m + 1)
    OBVIOUS
  <2>1. PICK q : RunsTo(q, s, S, m)
    BY <1>1, <1>3
  <2> DEFINE h == [i \in 0..m + 1 |-> IF i = m + 1 THEN q[m] \o s[m + 1] ELSE q[i]]
  <2>0. /\ q[0] = <<>> /\ \A i \in 0..m : q[i] \in Seq(S)
        /\ \A i \in 1..m : q[i] = q[i - 1] \o s[i]
    BY <2>1 DEF RunsTo
  <2>2. q[m] \o s[m + 1] \in Seq(S)
    <3>1. q[m] \in Seq(S) /\ s[m + 1] \in Seq(S)
      BY <1>1, <2>0
    <3> QED
      BY <3>1, ConcatProperties
  <2>3. \A i \in 0..m + 1 : h[i] = IF i = m + 1 THEN q[m] \o s[m + 1] ELSE q[i]
    OBVIOUS
  <2> HIDE DEF h
  <2>4. h[0] = <<>> /\ \A i \in 0..m + 1 : h[i] \in Seq(S)
    <3>1. h[0] = <<>>
      <4>1. 0 \in 0..m + 1 /\ 0 # m + 1
        OBVIOUS
      <4> QED
        BY <2>0, <2>3, <4>1
    <3>2. \A i \in 0..m + 1 : i = m + 1 \/ i \in 0..m
      OBVIOUS
    <3> QED
      BY <2>0, <2>2, <2>3, <3>1, <3>2
  <2>5. ASSUME NEW i \in 1..m + 1 PROVE h[i] = h[i - 1] \o s[i]
    <3>1. CASE i = m + 1
      <4>1. i - 1 = m /\ m \in 0..m + 1 /\ m # m + 1 /\ i \in 0..m + 1
        BY <3>1
      <4> QED
        BY <2>3, <3>1, <4>1
    <3>2. CASE i \in 1..m
      <4>0. /\ i \in 0..m + 1 /\ i - 1 \in 0..m + 1
            /\ i # m + 1 /\ i - 1 # m + 1
        BY <3>2
      <4>1. h[i] = q[i] /\ h[i - 1] = q[i - 1]
        BY <2>3, <4>0
      <4> QED
        BY <2>0, <3>2, <4>1
    <3>3. i = m + 1 \/ i \in 1..m
      OBVIOUS
    <3> QED
      BY <3>1, <3>2, <3>3
  <2>6. RunsTo(h, s, S, m + 1)
    BY <2>4, <2>5 DEF RunsTo
  <2> QED
    BY <2>6
<1> HIDE DEF M
<1>4. Len(s) \in M
  BY <1>1, <1>2, <1>3, Induction
<1> QED
  BY <1>1, <1>4 DEF M, Runs

LEMMA FlattenIs ==
    ASSUME NEW S, NEW s \in Seq(Seq(S)), NEW q, Runs(q, s, S)
    PROVE  FlattenSeq(s) = q[Len(s)]
<1>1. Len(s) \in Nat /\ \A i \in 1..Len(s) : s[i] \in Seq(S)
  BY LenProperties, ElementOfSeq
<1>2. CASE Len(s) = 0
  <2>1. s = <<>>
    BY <1>2, EmptySeq
  <2> QED
    BY <1>2, <2>1 DEF FlattenSeq, Runs, RunsTo
<1>3. CASE Len(s) # 0
  <2> DEFINE F(g) == [i \in 1..Len(s) |-> IF i = 1 THEN s[i] ELSE g[i - 1] \o s[i]]
             h == [i \in 1..Len(s) |-> q[i]]
             f == CHOOSE g : g = F(g)
  <2>1. q[1] = s[1]
    <3>1. q[1] = q[0] \o s[1] /\ q[0] = <<>> /\ s[1] \in Seq(S)
      <4>1. 1 \in 1..Len(s) /\ 1 - 1 = 0
        BY <1>1, <1>3
      <4> QED
        BY <1>1, <4>1 DEF Runs, RunsTo
    <3>2. <<>> \o s[1] = s[1]
      BY <3>1, ConcatEmptySeq
    <3> QED
      BY <3>1, <3>2
  <2>2. h = F(h)
    <3>1. ASSUME NEW i \in 1..Len(s)
          PROVE  h[i] = IF i = 1 THEN s[i] ELSE h[i - 1] \o s[i]
      <4>1. CASE i = 1
        BY <1>1, <1>3, <2>1, <4>1
      <4>2. CASE i # 1
        <5>1. i - 1 \in 1..Len(s)
          BY <1>1, <4>2
        <5>2. h[i] = q[i] /\ h[i - 1] = q[i - 1]
          BY <5>1
        <5> HIDE DEF h
        <5> QED
          BY <4>2, <5>2 DEF Runs, RunsTo
      <4> QED
        BY <4>1, <4>2
    <3>2. h = [i \in 1..Len(s) |-> h[i]]
      OBVIOUS
    <3> HIDE DEF h
    <3> QED
      BY <3>1, <3>2
  <2>3. f = F(f)
    <3> HIDE DEF h, F
    <3> QED
      BY <2>2, Zenon
  <2>4. FlattenSeq(s) = f[Len(s)]
    BY <1>3, Zenon DEF FlattenSeq
  <2> HIDE DEF f, h
  <2>5. \A i \in 1..Len(s) : f[i] = IF i = 1 THEN s[i] ELSE f[i - 1] \o s[i]
    BY <2>3
  <2> HIDE DEF F
  <2> DEFINE M == {m \in Nat : m + 1 <= Len(s) => f[m + 1] = q[m + 1]}
  <2>6. 0 \in M
    BY <1>1, <1>3, <2>1, <2>5
  <2>7. ASSUME NEW m \in Nat, m \in M PROVE m + 1 \in M
    <3> SUFFICES ASSUME m + 1 + 1 <= Len(s) PROVE f[m + 1 + 1] = q[m + 1 + 1]
      OBVIOUS
    <3>1. f[m + 1] = q[m + 1]
      BY <1>1, <2>7
    <3> DEFINE j == m + 1 + 1
    <3>2. j \in 1..Len(s) /\ j # 1 /\ j - 1 = m + 1
      BY <1>1
    <3> HIDE DEF j
    <3>3. f[j] = f[j - 1] \o s[j]
      BY <2>5, <3>2
    <3>4. q[j] = q[j - 1] \o s[j]
      BY <3>2 DEF Runs, RunsTo
    <3>5. f[j] = q[j]
      BY <3>1, <3>2, <3>3, <3>4
    <3> QED
      BY <3>5 DEF j
  <2> HIDE DEF M
  <2>8. Len(s) - 1 \in M
    <3>1. Len(s) - 1 \in Nat
      BY <1>1, <1>3
    <3> QED
      BY <2>6, <2>7, <3>1, Induction
  <2>9. Len(s) - 1 + 1 = Len(s)
    BY <1>1
  <2>10. f[Len(s)] = q[Len(s)]
    BY <1>1, <2>8, <2>9 DEF M
  <2> QED
    BY <2>4, <2>10
<1> QED
  BY <1>2, <1>3

LEMMA FlattenRuns ==
    ASSUME NEW S, NEW s \in Seq(Seq(S))
    PROVE  /\ FlattenSeq(s) \in Seq(S)
           /\ \E q : Runs(q, s, S) /\ FlattenSeq(s) = q[Len(s)]
<1>1. PICK q : Runs(q, s, S)
  BY RunsExist
<1>2. FlattenSeq(s) = q[Len(s)]
  BY <1>1, FlattenIs
<1>3. Len(s) \in 0..Len(s)
  BY LenProperties
<1> QED
  BY <1>1, <1>2, <1>3 DEF Runs, RunsTo

LEMMA FlattenJoined ==
    ASSUME NEW S, NEW s \in Seq(Seq(S)), NEW t \in Seq(Seq(S))
    PROVE  FlattenSeq(s \o t) = FlattenSeq(s) \o FlattenSeq(t)
<1> DEFINE m == Len(s)
           n == Len(t)
           st == s \o t
<1>1. /\ m \in Nat /\ n \in Nat /\ st \in Seq(Seq(S)) /\ Len(st) = m + n
      /\ \A i \in 1..m + n : st[i] = IF i <= m THEN s[i] ELSE t[i - m]
  BY LenProperties, ConcatProperties
<1>2. PICK q : Runs(q, s, S) /\ FlattenSeq(s) = q[m]
  BY FlattenRuns
<1>3. PICK r : Runs(r, t, S) /\ FlattenSeq(t) = r[n]
  BY FlattenRuns
<1> DEFINE h == [i \in 0..m + n |-> IF i <= m THEN q[i] ELSE q[m] \o r[i - m]]
<1>4. \A i \in 0..m + n : h[i] = IF i <= m THEN q[i] ELSE q[m] \o r[i - m]
  OBVIOUS
<1>5. q[0] = <<>> /\ r[0] = <<>> /\ q[m] \in Seq(S)
  BY <1>1, <1>2, <1>3 DEF Runs, RunsTo
<1>6. /\ \A i \in 0..m : q[i] \in Seq(S)
      /\ \A i \in 1..m : q[i] = q[i - 1] \o s[i]
      /\ \A i \in 0..n : r[i] \in Seq(S)
      /\ \A i \in 1..n : r[i] = r[i - 1] \o t[i] /\ t[i] \in Seq(S)
  BY <1>1, <1>2, <1>3, ElementOfSeq DEF Runs, RunsTo
<1> HIDE DEF h, st, m, n
<1>7. \A i \in 0..n : q[m] \o r[i] \in Seq(S)
  BY <1>5, <1>6, ConcatProperties
<1>8. h[m + n] = q[m] \o r[n]
  <2>1. CASE n = 0
    <3>1. q[m] \o <<>> = q[m]
      BY <1>5, ConcatEmptySeq
    <3>2. h[m + n] = q[m]
      BY <1>1, <1>4, <2>1
    <3> QED
      BY <1>5, <2>1, <3>1, <3>2
  <2>2. CASE n # 0
    <3> DEFINE z == m + n
    <3>2. \A i \in 0..z : h[i] = IF i <= m THEN q[i] ELSE q[m] \o r[i - m]
      BY <1>4
    <3>3. z \in 0..z /\ ~(z <= m) /\ z - m = n
      BY <1>1, <2>2
    <3> HIDE DEF z
    <3>4. h[z] = q[m] \o r[z - m]
      BY <3>2, <3>3
    <3> QED
      BY <3>3, <3>4 DEF z
  <2> QED
    BY <2>1, <2>2
<1>9. Runs(h, st, S)
  <2>1. h[0] = <<>>
    BY <1>1, <1>4, <1>5
  <2>2. \A i \in 0..m + n : h[i] \in Seq(S)
    <3> TAKE i \in 0..m + n
    <3>1. CASE i <= m
      <4>1. i \in 0..m
        BY <1>1, <3>1
      <4> QED
        BY <1>4, <1>6, <3>1, <4>1
    <3>2. CASE ~(i <= m)
      <4>1. i - m \in 0..n
        BY <1>1, <3>2
      <4> QED
        BY <1>4, <1>7, <3>2, <4>1
    <3> QED
      BY <3>1, <3>2
  <2>3. ASSUME NEW i \in 1..m + n PROVE h[i] = h[i - 1] \o st[i]
    <3>1. i \in 0..m + n /\ i - 1 \in 0..m + n
      BY <1>1
    <3>2. CASE i <= m
      <4>1. i \in 1..m /\ i - 1 <= m
        BY <1>1, <3>2
      <4>2. h[i] = q[i] /\ h[i - 1] = q[i - 1] /\ st[i] = s[i]
        BY <1>1, <1>4, <3>1, <3>2, <4>1
      <4> QED
        BY <1>6, <4>1, <4>2
    <3>3. CASE ~(i <= m)
      <4>1. i - m \in 1..n /\ i - m - 1 \in 0..n /\ i - 1 - m = i - m - 1
        BY <1>1, <3>3
      <4>2. h[i] = q[m] \o r[i - m] /\ st[i] = t[i - m]
        BY <1>1, <1>4, <3>1, <3>3
      <4>3. h[i - 1] = q[m] \o r[i - m - 1]
        <5>1. CASE i - 1 <= m
          <6>1. i - 1 = m /\ i - m - 1 = 0
            BY <1>1, <3>3, <5>1
          <6>2. q[m] \o <<>> = q[m]
            BY <1>5, ConcatEmptySeq
          <6>3. h[i - 1] = q[i - 1]
            BY <1>4, <3>1, <5>1
          <6> QED
            BY <1>5, <6>1, <6>2, <6>3
        <5>2. CASE ~(i - 1 <= m)
          BY <1>4, <3>1, <4>1, <5>2
        <5> QED
          BY <5>1, <5>2
      <4> DEFINE j == i - m
                 a == r[j - 1]
                 b == t[j]
      <4>4. r[j] = a \o b /\ a \in Seq(S) /\ b \in Seq(S)
        BY <1>6, <4>1
      <4>5. h[i] = q[m] \o r[j] /\ st[i] = b /\ h[i - 1] = q[m] \o a
        BY <4>2, <4>3
      <4> DEFINE c == q[m]
      <4>6. c \in Seq(S)
        BY <1>5
      <4> HIDE DEF j, a, b, c
      <4>7. (c \o a) \o b = c \o (a \o b)
        <5>1. a \in Seq(S) /\ b \in Seq(S) /\ c \in Seq(S)
          BY <4>4, <4>6
        <5> QED
          BY <5>1, ConcatAssociative
      <4> QED
        BY <4>4, <4>5, <4>7 DEF c
    <3> QED
      BY <3>2, <3>3
  <2> QED
    BY <1>1, <2>1, <2>2, <2>3 DEF Runs, RunsTo
<1>10. FlattenSeq(st) = h[m + n]
  BY <1>1, <1>9, FlattenIs
<1> QED
  BY <1>2, <1>3, <1>8, <1>10 DEF st

LEMMA FlattenOne ==
    ASSUME NEW S, NEW x \in Seq(S)
    PROVE  FlattenSeq(<<x>>) = x
<1> DEFINE s == <<x>>
           q == [i \in 0..1 |-> IF i = 0 THEN <<>> ELSE x]
<1>1. s \in Seq(Seq(S)) /\ Len(s) = 1 /\ s[1] = x
  OBVIOUS
<1>2. q[0] = <<>> /\ q[1] = x
  OBVIOUS
<1> HIDE DEF s, q
<1>3. <<>> \o x = x /\ <<>> \in Seq(S)
  BY ConcatEmptySeq
<1>4. Runs(q, s, S)
  <2>1. \A i \in 0..1 : q[i] \in Seq(S)
    <3>1. \A i \in 0..1 : i = 0 \/ i = 1
      OBVIOUS
    <3> QED
      BY <1>2, <1>3, <3>1
  <2>2. \A i \in 1..1 : q[i] = q[i - 1] \o s[i]
    <3>1. \A i \in 1..1 : i = 1 /\ i - 1 = 0
      OBVIOUS
    <3> QED
      BY <1>1, <1>2, <1>3, <3>1
  <2> QED
    BY <1>1, <1>2, <2>1, <2>2 DEF Runs, RunsTo
<1> QED
  BY <1>1, <1>2, <1>4, FlattenIs DEF s

LEMMA FlattenNone == FlattenSeq(<<>>) = <<>>
BY DEF FlattenSeq

-----------------------------------------------------------------------------
(* Texts without whitespace, and texts of members. *)

Ink == Tokens \ {" "}
Inks(s) == [i \in 1..Len(s) |-> IF s[i] = " " THEN <<>> ELSE <<s[i]>>]

LEMMA InkAssociates ==
    ASSUME NEW a \in Seq(Ink), NEW b \in Seq(Ink), NEW c \in Seq(Ink)
    PROVE  (a \o b) \o c = a \o (b \o c)
BY ConcatAssociative

LEMMA InkJoins ==
    ASSUME NEW a \in Seq(Ink), NEW b \in Seq(Ink)
    PROVE  a \o b \in Seq(Ink)
BY ConcatProperties

LEMMA InkJoined ==
    /\ \A x, y, z \in Seq(Ink) : (x \o y) \o z = x \o (y \o z)
    /\ \A x, y \in Seq(Ink) : x \o y \in Seq(Ink)
<1>1. \A x, y, z \in Seq(Ink) : (x \o y) \o z = x \o (y \o z)
  BY InkAssociates
<1>2. \A x, y \in Seq(Ink) : x \o y \in Seq(Ink)
  BY InkJoins
<1> QED
  BY <1>1, <1>2

LEMMA InksOK ==
    ASSUME NEW s \in Seq(Tokens)
    PROVE  /\ Inks(s) \in Seq(Seq(Ink)) /\ Len(Inks(s)) = Len(s)
           /\ \A i \in 1..Len(s) :
                  Inks(s)[i] = IF s[i] = " " THEN <<>> ELSE <<s[i]>>
<1>1. Len(s) \in Nat /\ \A i \in 1..Len(s) : s[i] \in Tokens
  BY LenProperties, ElementOfSeq
<1>2. \A x \in Tokens : (IF x = " " THEN <<>> ELSE <<x>>) \in Seq(Ink)
  <2> TAKE x \in Tokens
  <2>1. CASE x = " "
    <3>1. <<>> \in Seq(Ink)
      OBVIOUS
    <3> QED
      BY <2>1, <3>1
  <2>2. CASE x # " "
    <3>1. x \in Ink
      BY <2>2 DEF Ink
    <3>2. <<x>> \in Seq(Ink)
      BY <3>1
    <3> QED
      BY <2>2, <3>2
  <2> QED
    BY <2>1, <2>2
<1>3. Inks(s) \in [1..Len(s) -> Seq(Ink)]
  BY <1>1, <1>2 DEF Inks
<1>4. Inks(s) \in Seq(Seq(Ink)) /\ Len(Inks(s)) = Len(s)
  BY <1>1, <1>3, LenProperties
<1> QED
  BY <1>4 DEF Inks

LEMMA InksOne ==
    ASSUME NEW x
    PROVE  Inks(<<x>>) = << IF x = " " THEN <<>> ELSE <<x>> >>
<1> DEFINE s == <<x>>
<1>1. Len(s) = 1 /\ s[1] = x
  OBVIOUS
<1> HIDE DEF s
<1>2. Inks(s) = [i \in 1..1 |-> IF x = " " THEN <<>> ELSE <<x>>]
  <2>1. \A i \in 1..1 : i = 1
    OBVIOUS
  <2> QED
    BY <1>1, <2>1 DEF Inks
<1>3. \A y : [i \in 1..1 |-> y] = <<y>>
  OBVIOUS
<1>4. Inks(s) = << IF x = " " THEN <<>> ELSE <<x>> >>
  <2> DEFINE y == IF x = " " THEN <<>> ELSE <<x>>
  <2>1. Inks(s) = [i \in 1..1 |-> y]
    BY <1>2
  <2> HIDE DEF y
  <2>2. Inks(s) = <<y>>
    BY <1>3, <2>1
  <2> QED
    BY <2>2 DEF y
<1> QED
  BY <1>4 DEF s

LEMMA BareInk ==
    ASSUME NEW s \in Seq(Tokens)
    PROVE  Bare(s) \in Seq(Ink) /\ Bare(s) \in Seq(Tokens)
<1>1. Bare(s) = FlattenSeq(Inks(s))
  BY DEF Bare, Inks
<1>2. FlattenSeq(Inks(s)) \in Seq(Ink)
  BY InksOK, FlattenRuns
<1>3. Ink \subseteq Tokens
  BY DEF Ink
<1> QED
  BY <1>1, <1>2, <1>3, SeqMonotonic

LEMMA BareJoined ==
    ASSUME NEW s \in Seq(Tokens), NEW t \in Seq(Tokens)
    PROVE  Bare(s \o t) = Bare(s) \o Bare(t)
<1> DEFINE u == s \o t
           b == Inks(s) \o Inks(t)
<1>1. /\ u \in Seq(Tokens) /\ Len(u) = Len(s) + Len(t)
      /\ \A i \in 1..Len(s) + Len(t) :
             u[i] = IF i <= Len(s) THEN s[i] ELSE t[i - Len(s)]
      /\ Len(s) \in Nat /\ Len(t) \in Nat
  BY ConcatProperties, LenProperties
<1>2. /\ Inks(s) \in Seq(Seq(Ink)) /\ Len(Inks(s)) = Len(s)
      /\ \A i \in 1..Len(s) : Inks(s)[i] = IF s[i] = " " THEN <<>> ELSE <<s[i]>>
      /\ Inks(t) \in Seq(Seq(Ink)) /\ Len(Inks(t)) = Len(t)
      /\ \A i \in 1..Len(t) : Inks(t)[i] = IF t[i] = " " THEN <<>> ELSE <<t[i]>>
  BY InksOK
<1>3. /\ b \in Seq(Seq(Ink)) /\ Len(b) = Len(s) + Len(t)
      /\ \A i \in 1..Len(s) + Len(t) :
             b[i] = IF i <= Len(s) THEN Inks(s)[i] ELSE Inks(t)[i - Len(s)]
  <2> DEFINE x == Inks(s)
             y == Inks(t)
  <2>1. /\ x \in Seq(Seq(Ink)) /\ y \in Seq(Seq(Ink))
        /\ Len(x) = Len(s) /\ Len(y) = Len(t)
    BY <1>2
  <2> HIDE DEF x, y
  <2>2. /\ x \o y \in Seq(Seq(Ink)) /\ Len(x \o y) = Len(x) + Len(y)
        /\ \A i \in 1..Len(x) + Len(y) :
               (x \o y)[i] = IF i <= Len(x) THEN x[i] ELSE y[i - Len(x)]
    BY <2>1, ConcatProperties
  <2> QED
    BY <2>1, <2>2 DEF x, y
<1> HIDE DEF u, b
<1>4. /\ Inks(u) \in Seq(Seq(Ink)) /\ Len(Inks(u)) = Len(s) + Len(t)
      /\ \A i \in 1..Len(s) + Len(t) :
             Inks(u)[i] = IF u[i] = " " THEN <<>> ELSE <<u[i]>>
  BY <1>1, InksOK
<1>5. ASSUME NEW i \in 1..Len(s) + Len(t) PROVE Inks(u)[i] = b[i]
  <2>1. CASE i <= Len(s)
    <3>1. i \in 1..Len(s)
      BY <1>1, <2>1
    <3>2. u[i] = s[i] /\ b[i] = Inks(s)[i]
      BY <1>1, <1>3, <2>1
    <3> QED
      BY <1>2, <1>4, <3>1, <3>2
  <2>2. CASE ~(i <= Len(s))
    <3>1. i - Len(s) \in 1..Len(t)
      BY <1>1, <2>2
    <3>2. u[i] = t[i - Len(s)] /\ b[i] = Inks(t)[i - Len(s)]
      BY <1>1, <1>3, <2>2
    <3> QED
      BY <1>2, <1>4, <3>1, <3>2
  <2> QED
    BY <2>1, <2>2
<1>6. Inks(u) = b
  BY <1>3, <1>4, <1>5, SeqEqual
<1>7. FlattenSeq(b) = FlattenSeq(Inks(s)) \o FlattenSeq(Inks(t))
  BY <1>2, FlattenJoined DEF b
<1>8. \A x : Bare(x) = FlattenSeq(Inks(x))
  BY DEF Bare, Inks
<1> QED
  BY <1>6, <1>7, <1>8 DEF u

LEMMA BareSame ==
    ASSUME NEW s \in Seq(Ink)
    PROVE  Bare(s) = s
<1>1. s \in Seq(Tokens)
  <2>1. Ink \subseteq Tokens
    BY DEF Ink
  <2> QED
    BY <2>1, SeqMonotonic
<1>2. Len(s) \in Nat /\ \A i \in 1..Len(s) : s[i] \in Ink
  BY LenProperties, ElementOfSeq
<1> DEFINE q == [i \in 0..Len(s) |-> SubSeq(s, 1, i)]
           b == Inks(s)
<1>3. /\ b \in Seq(Seq(Ink)) /\ Len(b) = Len(s)
      /\ \A i \in 1..Len(s) : b[i] = <<s[i]>>
  BY <1>1, <1>2, InksOK DEF Ink
<1>4. \A i \in 0..Len(s) : q[i] = SubSeq(s, 1, i)
  OBVIOUS
<1>5. \A i \in 0..Len(s) :
          /\ SubSeq(s, 1, i) \in Seq(Ink) /\ Len(SubSeq(s, 1, i)) = i
          /\ \A j \in 1..i : SubSeq(s, 1, i)[j] = s[j]
  <2> TAKE i \in 0..Len(s)
  <2>1. /\ i \in Int /\ \A j \in 1..i : s[j] \in Ink /\ 1 + j - 1 = j
        /\ i - 1 + 1 = i
    BY <1>2
  <2>2. /\ SubSeq(s, 1, i) \in Seq(Ink)
        /\ Len(SubSeq(s, 1, i)) = IF 1 <= i THEN i - 1 + 1 ELSE 0
        /\ \A j \in 1..i - 1 + 1 : SubSeq(s, 1, i)[j] = s[1 + j - 1]
    BY <2>1, SubSeqProperties
  <2>3. Len(SubSeq(s, 1, i)) = i
    BY <1>2, <2>2
  <2> QED
    BY <2>1, <2>2, <2>3
<1> HIDE DEF q, b
<1>6. Runs(q, b, Ink)
  <2>1. q[0] = <<>>
    <3>1. Len(SubSeq(s, 1, 0)) = 0 /\ SubSeq(s, 1, 0) \in Seq(Ink)
      BY <1>2, <1>5
    <3> QED
      BY <1>2, <1>4, <3>1, EmptySeq
  <2>2. \A i \in 0..Len(s) : q[i] \in Seq(Ink)
    BY <1>4, <1>5
  <2>3. ASSUME NEW i \in 1..Len(s) PROVE q[i] = q[i - 1] \o b[i]
    <3> DEFINE x == SubSeq(s, 1, i)
               y == SubSeq(s, 1, i - 1)
               z == y \o <<s[i]>>
    <3>1. i - 1 \in 0..Len(s) /\ i \in 0..Len(s)
      BY <1>2
    <3>2. /\ x \in Seq(Ink) /\ Len(x) = i /\ \A j \in 1..i : x[j] = s[j]
          /\ y \in Seq(Ink) /\ Len(y) = i - 1 /\ \A j \in 1..i - 1 : y[j] = s[j]
      BY <1>5, <3>1
    <3>3. q[i] = x /\ q[i - 1] = y /\ b[i] = <<s[i]>> /\ s[i] \in Ink
      BY <1>2, <1>3, <1>4, <3>1
    <3> HIDE DEF x, y
    <3>4. z \in Seq(Ink) /\ Len(z) = i /\ \A j \in 1..i : z[j] = s[j]
      <4>1. <<s[i]>> \in Seq(Ink) /\ Len(<<s[i]>>) = 1 /\ <<s[i]>>[1] = s[i]
        BY <3>3
      <4>2. /\ z \in Seq(Ink) /\ Len(z) = Len(y) + Len(<<s[i]>>)
            /\ \A j \in 1..Len(y) + Len(<<s[i]>>) :
                   z[j] = IF j <= Len(y) THEN y[j] ELSE <<s[i]>>[j - Len(y)]
        BY <3>2, <4>1, ConcatProperties
      <4> HIDE DEF z
      <4>3. i - 1 + 1 = i
        BY <1>2
      <4>4. \A j \in 1..i : z[j] = IF j <= i - 1 THEN y[j] ELSE <<s[i]>>[j - (i - 1)]
        BY <3>2, <4>1, <4>2, <4>3
      <4>5. ASSUME NEW j \in 1..i PROVE z[j] = s[j]
        <5>1. CASE j <= i - 1
          <6>1. j \in 1..i - 1
            BY <1>2, <5>1
          <6> QED
            BY <3>2, <4>4, <5>1, <6>1
        <5>2. CASE ~(j <= i - 1)
          <6>1. j = i /\ j - (i - 1) = 1
            BY <1>2, <5>2
          <6> QED
            BY <4>1, <4>4, <5>2, <6>1
        <5> QED
          BY <5>1, <5>2
      <4> QED
        BY <3>2, <4>1, <4>2, <4>3, <4>5
    <3> HIDE DEF z
    <3>5. x = z
      BY <3>2, <3>4, SeqEqual
    <3> QED
      BY <3>3, <3>5 DEF z
  <2> QED
    BY <1>3, <2>1, <2>2, <2>3 DEF Runs, RunsTo
<1>7. FlattenSeq(b) = q[Len(s)]
  BY <1>3, <1>6, FlattenIs
<1>8. q[Len(s)] = s
  <2>1. Len(s) \in 0..Len(s)
    BY <1>2
  <2>2. SubSeq(s, 1, Len(s)) = s
    BY <1>5, <2>1, SeqEqual
  <2> QED
    BY <1>4, <2>1, <2>2
<1> QED
  BY <1>7, <1>8 DEF b, Bare, Inks

LEMMA BareTokens ==
    /\ \A ws \in Spaces : Bare(ws) = <<>>
    /\ \A x \in Ink : <<x>> \in Seq(Ink) /\ Bare(<<x>>) = <<x>>
    /\ \A arr : /\ Opening(arr) \in Seq(Ink) /\ Bare(Opening(arr)) = Opening(arr)
                /\ Closing(arr) \in Seq(Ink) /\ Bare(Closing(arr)) = Closing(arr)
    /\ <<>> \in Seq(Ink) /\ {"k", "r", "h", "v", ",", "[", "]", "{", "}"} \subseteq Ink
<1>1. {"k", "r", "h", "v", ",", "[", "]", "{", "}"} \subseteq Ink
  BY DEF Ink, Tokens
<1>2. \A x \in Ink : <<x>> \in Seq(Ink)
  OBVIOUS
<1>3. \A arr : Opening(arr) \in Seq(Ink) /\ Closing(arr) \in Seq(Ink)
  BY <1>1, <1>2 DEF Opening, Closing
<1>4. <<>> \in Seq(Ink)
  OBVIOUS
<1>5. Bare(<<>>) = <<>>
  BY <1>4, BareSame
<1>6. Bare(<<" ">>) = <<>>
  <2> DEFINE b == Inks(<<" ">>)
  <2>1. b = << <<>> >>
    BY InksOne
  <2>2. FlattenSeq(<< <<>> >>) = <<>>
    BY <1>4, FlattenOne
  <2>3. Bare(<<" ">>) = FlattenSeq(b)
    BY DEF Bare, Inks
  <2> HIDE DEF b
  <2> QED
    BY <2>1, <2>2, <2>3
<1>7. \A ws \in Spaces : ws = <<>> \/ ws = <<" ">>
  BY DEF Spaces
<1>8. \A ws \in Spaces : Bare(ws) = <<>>
  BY <1>5, <1>6, <1>7
<1>9. \A s \in Seq(Ink) : Bare(s) = s
  BY BareSame
<1> QED
  BY <1>1, <1>2, <1>3, <1>4, <1>8, <1>9

\* One text more in a list of members.
Next1(texts, t) == IF texts = <<>> THEN t ELSE <<",">> \o t
Items(texts) ==
    [j \in 1..Len(texts) |-> IF j = 1 THEN texts[j] ELSE <<",">> \o texts[j]]

LEMMA ListedMore ==
    ASSUME NEW texts \in Seq(Seq(Ink)), NEW t \in Seq(Ink)
    PROVE  /\ Listed(texts) \in Seq(Ink) /\ Next1(texts, t) \in Seq(Ink)
           /\ Listed(Append(texts, t)) = Listed(texts) \o Next1(texts, t)
           /\ Append(texts, t) \in Seq(Seq(Ink)) /\ Append(texts, t) # <<>>
<1> DEFINE n == Len(texts)
           a == Items(texts)
           x == Next1(texts, t)
           more == Append(texts, t)
           b == Items(more)
           c == a \o <<x>>
<1>1. n \in Nat /\ \A j \in 1..n : texts[j] \in Seq(Ink)
  BY LenProperties, ElementOfSeq
<1>2. <<",">> \in Seq(Ink)
  BY BareTokens
<1>3. \A s \in Seq(Ink) : <<",">> \o s \in Seq(Ink)
  BY <1>2, ConcatProperties
<1>4. x \in Seq(Ink)
  BY <1>3 DEF Next1
<1>5. /\ more \in Seq(Seq(Ink)) /\ Len(more) = n + 1
      /\ \A j \in 1..n : more[j] = texts[j]
      /\ more[n + 1] = t
  BY AppendProperties
<1>6. a \in Seq(Seq(Ink)) /\ Len(a) = n
  <2>1. a \in [1..n -> Seq(Ink)]
    BY <1>1, <1>3 DEF Items
  <2> QED
    BY <1>1, <2>1
<1>7. \A j \in 1..n : a[j] = IF j = 1 THEN texts[j] ELSE <<",">> \o texts[j]
  BY DEF Items
<1>8. texts = <<>> <=> n = 0
  BY EmptySeq
<1>10. x = IF n + 1 = 1 THEN t ELSE <<",">> \o t
  <2>1. texts = <<>> <=> n + 1 = 1
    BY <1>1, <1>8
  <2> QED
    BY <2>1 DEF Next1
<1> HIDE DEF n, more
<1>9. b = [j \in 1..n + 1 |-> IF j = 1 THEN more[j] ELSE <<",">> \o more[j]]
  BY <1>5 DEF Items
<1> HIDE DEF a, b
<1> HIDE DEF x
<1>11. /\ c \in Seq(Seq(Ink)) /\ Len(c) = n + 1
       /\ \A j \in 1..n : c[j] = a[j]
       /\ c[n + 1] = x
  <2>1. /\ <<x>> \in Seq(Seq(Ink)) /\ Len(<<x>>) = 1 /\ <<x>>[1] = x
    BY <1>4
  <2>2. /\ c \in Seq(Seq(Ink)) /\ Len(c) = Len(a) + Len(<<x>>)
        /\ \A j \in 1..Len(a) + Len(<<x>>) :
               c[j] = IF j <= Len(a) THEN a[j] ELSE <<x>>[j - Len(a)]
    BY <1>6, <2>1, ConcatProperties
  <2> HIDE DEF c
  <2>3. \A j \in 1..n + 1 : c[j] = IF j <= n THEN a[j] ELSE <<x>>[j - n]
    BY <1>6, <2>1, <2>2
  <2>4. n + 1 \in 1..n + 1 /\ ~(n + 1 <= n) /\ n + 1 - n = 1
        /\ \A j \in 1..n : j \in 1..n + 1 /\ j <= n
    BY <1>1
  <2>5. c[n + 1] = <<x>>[n + 1 - n]
    BY <1>1, <2>3, <2>4
  <2> QED
    BY <1>6, <2>1, <2>2, <2>3, <2>4, <2>5
<1> HIDE DEF c
<1>12. b = c
  <2>1. ASSUME NEW j \in 1..n + 1 PROVE b[j] = c[j]
    <3>1. b[j] = IF j = 1 THEN more[j] ELSE <<",">> \o more[j]
      BY <1>9
    <3>2. CASE j = n + 1
      BY <1>5, <1>10, <1>11, <3>1, <3>2
    <3>3. CASE j \in 1..n
      BY <1>5, <1>7, <1>11, <3>1, <3>3
    <3> QED
      BY <1>1, <3>2, <3>3
  <2>2. b = [j \in 1..n + 1 |-> b[j]]
    BY <1>9
  <2>3. c = [j \in 1..n + 1 |-> c[j]]
    BY <1>11, LenProperties
  <2> QED
    BY <2>1, <2>2, <2>3
<1>13. FlattenSeq(c) = FlattenSeq(a) \o x
  <2>1. <<x>> \in Seq(Seq(Ink)) /\ FlattenSeq(<<x>>) = x
    BY <1>4, FlattenOne
  <2> QED
    BY <1>6, <2>1, FlattenJoined DEF c
<1>14. FlattenSeq(a) \in Seq(Ink)
  BY <1>6, FlattenRuns
<1>15. \A s : Listed(s) = FlattenSeq(Items(s))
  BY DEF Listed, Items
<1>16. more # <<>>
  BY <1>1, <1>5, EmptySeq
<1> QED
  BY <1>4, <1>5, <1>12, <1>13, <1>14, <1>15, <1>16 DEF a, b, x, more

LEMMA ListedNone == Listed(<<>>) = <<>>
<1>1. Items(<<>>) = <<>>
  BY DEF Items
<1> QED
  BY <1>1, FlattenNone DEF Listed, Items

-----------------------------------------------------------------------------
(* The text of the levels that are open. *)

KidType == [forced : BOOLEAN, members : Seq(Seq(Ink))]

\* What a level that is open has had written; and with what separates it from
\* the level open inside it.
Body(k, fs, m) ==
    Bare(fs[m].head) \o Opening(fs[m].isArr) \o Listed(k[m].members)
Comma1(k, m)    == IF k[m].members = <<>> THEN <<>> ELSE <<",">>
Full(k, fs, m) == Body(k, fs, m) \o Comma1(k, m)

\* The p outermost levels, another one being open inside; and the innermost
\* among them.
Above(k, fs, p) == FlattenSeq([m \in 1..p |-> Full(k, fs, m)])
Written(k, fs, p) ==
    IF p = 0 THEN <<>> ELSE Above(k, fs, p - 1) \o Body(k, fs, p)

\* The levels and the members accepted at them, p of the levels being open.
Sized(k, fs, p) ==
    /\ fs \in Seq(LevelType) /\ k \in Seq(KidType)
    /\ Len(k) = Len(fs) /\ p \in 0..Len(fs)
    /\ \A m \in 1..Len(fs) :
           /\ fs[m].opened <=> m <= p
           /\ fs[m].n = Len(k[m].members) + (IF m < p THEN 1 ELSE 0)
    /\ \A m \in p + 1..Len(fs) : k[m].members = <<>>
Grown(k, w, p) == Sized(k, w.fs, p) /\ Bare(w.out) = Written(k, w.fs, p)

\* The same heads and brackets.
SameNames(gs, fs) ==
    /\ Len(gs) = Len(fs)
    /\ \A m \in 1..Len(fs) : gs[m].head = fs[m].head /\ gs[m].isArr = fs[m].isArr

LEMMA Fields ==
    ASSUME NEW f \in LevelType
    PROVE  /\ f.head \in Seq(Tokens) /\ f.isArr \in BOOLEAN /\ f.opened \in BOOLEAN
           /\ f.n \in Nat /\ f.trail \in Spaces
BY DEF LevelType

LEMMA BodyOK ==
    ASSUME NEW fs \in Seq(LevelType), NEW k \in Seq(KidType),
           NEW m, m \in 1..Len(fs), m \in 1..Len(k)
    PROVE  /\ Bare(fs[m].head) \in Seq(Ink) /\ Opening(fs[m].isArr) \in Seq(Ink)
           /\ Closing(fs[m].isArr) \in Seq(Ink)
           /\ k[m].members \in Seq(Seq(Ink)) /\ Listed(k[m].members) \in Seq(Ink)
           /\ Body(k, fs, m) \in Seq(Ink) /\ Comma1(k, m) \in Seq(Ink)
           /\ Full(k, fs, m) \in Seq(Ink)
<1>1. fs[m] \in LevelType /\ k[m] \in KidType
  BY ElementOfSeq
<1>2. fs[m].head \in Seq(Tokens) /\ k[m].members \in Seq(Seq(Ink))
  BY <1>1, Fields DEF KidType
<1>3. Bare(fs[m].head) \in Seq(Ink)
  BY <1>2, BareInk
<1>4. Opening(fs[m].isArr) \in Seq(Ink) /\ Closing(fs[m].isArr) \in Seq(Ink)
  BY BareTokens
<1>5. Listed(k[m].members) \in Seq(Ink)
  <2>1. <<>> \in Seq(Ink)
    BY BareTokens
  <2> QED
    BY <1>2, <2>1, ListedMore
<1>6. Body(k, fs, m) \in Seq(Ink)
  <2>1. Bare(fs[m].head) \o Opening(fs[m].isArr) \in Seq(Ink)
    BY <1>3, <1>4, ConcatProperties
  <2> QED
    BY <1>5, <2>1, ConcatProperties DEF Body
<1>7. Comma1(k, m) \in Seq(Ink)
  BY BareTokens DEF Comma1
<1>8. Full(k, fs, m) \in Seq(Ink)
  BY <1>6, <1>7, ConcatProperties DEF Full
<1> QED
  BY <1>2, <1>3, <1>4, <1>5, <1>6, <1>7, <1>8

LEMMA AboveOK ==
    ASSUME NEW fs \in Seq(LevelType), NEW k \in Seq(KidType),
           NEW p \in Nat, p <= Len(fs), p <= Len(k)
    PROVE  /\ Above(k, fs, p) \in Seq(Ink)
           /\ p = 0 => Above(k, fs, p) = <<>>
           /\ p > 0 => Above(k, fs, p) = Above(k, fs, p - 1) \o Full(k, fs, p)
<1> DEFINE s(i) == [m \in 1..i |-> Full(k, fs, m)]
<1>1. \A m \in 1..p : Full(k, fs, m) \in Seq(Ink)
  <2> TAKE m \in 1..p
  <2>1. m \in 1..Len(fs) /\ m \in 1..Len(k)
    BY LenProperties
  <2> QED
    BY <2>1, BodyOK
<1>2. ASSUME NEW i \in 0..p
      PROVE  /\ s(i) \in Seq(Seq(Ink)) /\ Len(s(i)) = i
             /\ \A m \in 1..i : s(i)[m] = Full(k, fs, m)
  <2>1. i \in Nat /\ 1..i \subseteq 1..p
    OBVIOUS
  <2>2. s(i) \in [1..i -> Seq(Ink)]
    BY <1>1, <2>1
  <2>3. s(i) \in Seq(Seq(Ink))
    BY <2>1, <2>2
  <2>4. Len(s(i)) = i
    BY <2>1, <2>2, <2>3
  <2> QED
    BY <2>3, <2>4
<1>3. \A i : Above(k, fs, i) = FlattenSeq(s(i))
  BY DEF Above
<1> HIDE DEF s
<1>4. p \in 0..p
  OBVIOUS
<1>5. Above(k, fs, p) \in Seq(Ink)
  BY <1>2, <1>3, <1>4, FlattenRuns
<1>6. p = 0 => Above(k, fs, p) = <<>>
  <2> SUFFICES ASSUME p = 0 PROVE Above(k, fs, p) = <<>>
    OBVIOUS
  <2>1. s(p) = <<>>
    BY <1>2, <1>4, EmptySeq
  <2> QED
    BY <1>3, <2>1, FlattenNone
<1>7. p > 0 => Above(k, fs, p) = Above(k, fs, p - 1) \o Full(k, fs, p)
  <2> SUFFICES ASSUME p > 0 PROVE Above(k, fs, p) = Above(k, fs, p - 1) \o Full(k, fs, p)
    OBVIOUS
  <2> DEFINE a == s(p - 1)
             x == Full(k, fs, p)
             b == s(p)
  <2>1. p - 1 \in 0..p /\ p - 1 + 1 = p /\ p \in 1..p
    OBVIOUS
  <2>2. /\ a \in Seq(Seq(Ink)) /\ Len(a) = p - 1
        /\ \A m \in 1..p - 1 : a[m] = Full(k, fs, m)
        /\ b \in Seq(Seq(Ink)) /\ Len(b) = p
        /\ \A m \in 1..p : b[m] = Full(k, fs, m)
        /\ x \in Seq(Ink) /\ b[p] = x
    BY <1>1, <1>2, <1>4, <2>1
  <2>3. FlattenSeq(<<x>>) = x /\ <<x>> \in Seq(Seq(Ink))
    BY <2>2, FlattenOne
  <2> HIDE DEF a, b, x
  <2>4. Append(a, x) = b
    <3>1. /\ Append(a, x) \in Seq(Seq(Ink)) /\ Len(Append(a, x)) = Len(a) + 1
          /\ \A m \in 1..Len(a) : Append(a, x)[m] = a[m]
          /\ Append(a, x)[Len(a) + 1] = x
      BY <2>2, AppendProperties
    <3> DEFINE c == Append(a, x)
    <3>2. /\ c \in Seq(Seq(Ink)) /\ Len(c) = p
          /\ \A m \in 1..p - 1 : c[m] = a[m]
          /\ c[p] = x
      BY <2>1, <2>2, <3>1
    <3> HIDE DEF c
    <3>3. ASSUME NEW m \in 1..p PROVE c[m] = b[m]
      <4>1. CASE m = p
        BY <2>2, <3>2, <4>1
      <4>2. CASE m \in 1..p - 1
        BY <2>2, <3>2, <4>2
      <4> QED
        BY <4>1, <4>2
    <3>4. c = b
      BY <2>2, <3>2, <3>3, SeqEqual
    <3> QED
      BY <3>4 DEF c
  <2>5. a \o <<x>> = Append(a, x)
    BY <2>2, AppendIsConcat
  <2>6. FlattenSeq(a \o <<x>>) = FlattenSeq(a) \o x
    BY <2>2, <2>3, FlattenJoined
  <2>7. FlattenSeq(b) = FlattenSeq(a) \o x
    BY <2>4, <2>5, <2>6
  <2> QED
    BY <1>3, <2>7 DEF a, b, x
<1> QED
  BY <1>5, <1>6, <1>7

\* Text does not depend on what else a level has.
LEMMA AboveSame ==
    ASSUME NEW fs, NEW k, NEW gs, NEW h, NEW p \in Nat,
           \A m \in 1..p : /\ gs[m].head = fs[m].head /\ gs[m].isArr = fs[m].isArr
                           /\ h[m].members = k[m].members
    PROVE  /\ Above(h, gs, p) = Above(k, fs, p)
           /\ \A m \in 1..p : Body(h, gs, m) = Body(k, fs, m)
<1>1. \A m \in 1..p : Body(h, gs, m) = Body(k, fs, m)
  BY DEF Body
<1>2. \A m \in 1..p : Full(h, gs, m) = Full(k, fs, m)
  BY <1>1 DEF Full, Comma1
<1>3. [m \in 1..p |-> Full(h, gs, m)] = [m \in 1..p |-> Full(k, fs, m)]
  BY <1>2
<1> QED
  BY <1>1, <1>3 DEF Above

LEMMA WrittenSame ==
    ASSUME NEW fs, NEW k, NEW gs, NEW h, NEW p \in Nat,
           \A m \in 1..p : /\ gs[m].head = fs[m].head /\ gs[m].isArr = fs[m].isArr
                           /\ h[m].members = k[m].members
    PROVE  Written(h, gs, p) = Written(k, fs, p)
<1>1. CASE p = 0
  BY <1>1 DEF Written
<1>2. CASE p # 0
  <2>1. p - 1 \in Nat /\ p \in 1..p /\ 1..p - 1 \subseteq 1..p
    BY <1>2
  <2>2. Body(h, gs, p) = Body(k, fs, p)
    BY <2>1, AboveSame
  <2>3. Above(h, gs, p - 1) = Above(k, fs, p - 1)
    BY <2>1, AboveSame
  <2> QED
    BY <2>2, <2>3 DEF Written
<1> QED
  BY <1>1, <1>2

-----------------------------------------------------------------------------
(* Opening levels. *)

LEMMA SizedLevel ==
    ASSUME NEW k, NEW fs, NEW p, Sized(k, fs, p), NEW m \in 1..Len(fs)
    PROVE  /\ fs[m] \in LevelType /\ k[m] \in KidType /\ p \in Nat
           /\ Len(fs) \in Nat /\ m \in 1..Len(k)
           /\ k[m].members \in Seq(Seq(Ink)) /\ Len(k[m].members) \in Nat
           /\ k[m].members = <<>> <=> Len(k[m].members) = 0
<1>1. fs \in Seq(LevelType) /\ k \in Seq(KidType) /\ Len(k) = Len(fs) /\ p \in 0..Len(fs)
  BY DEF Sized
<1>2. fs[m] \in LevelType /\ k[m] \in KidType
  BY <1>1, ElementOfSeq
<1>3. k[m].members \in Seq(Seq(Ink))
  BY <1>2 DEF KidType
<1>4. Len(fs) \in Nat
  BY <1>1, LenProperties
<1> DEFINE ms == k[m].members
<1>5. ms \in Seq(Seq(Ink))
  BY <1>3
<1> HIDE DEF ms
<1>6. Len(ms) \in Nat /\ (ms = <<>> <=> Len(ms) = 0)
  BY <1>5, EmptySeq, LenProperties
<1> QED
  BY <1>1, <1>2, <1>3, <1>4, <1>6 DEF ms

\* What a separator writes is the comma between the members of level l; it
\* counts the next one.
Parted(k, w, l, u) ==
    /\ u \in Writer /\ Bare(u.out) = Above(k, w.fs, l)
    /\ SameNames(u.fs, w.fs)
    /\ \A m \in 1..Len(w.fs) :
           /\ u.fs[m].opened = w.fs[m].opened
           /\ u.fs[m].n = w.fs[m].n + (IF m = l THEN 1 ELSE 0)

LEMMA SepParted ==
    ASSUME NEW w \in Writer, NEW k, NEW p, Grown(k, w, p), p > 0
    PROVE  Parted(k, w, p, sep(w, p))
<1>1. /\ w.fs \in Seq(LevelType) /\ w.out \in Seq(Tokens)
      /\ Sized(k, w.fs, p) /\ Bare(w.out) = Written(k, w.fs, p)
  BY DEF Writer, Grown
<1>2. /\ k \in Seq(KidType) /\ Len(k) = Len(w.fs) /\ p \in 1..Len(w.fs)
      /\ Len(w.fs) \in Nat
  BY <1>1, LenProperties DEF Sized
<1>3. /\ w.fs[p] \in LevelType /\ k[p].members \in Seq(Seq(Ink))
      /\ k[p].members = <<>> <=> Len(k[p].members) = 0
      /\ Len(k[p].members) \in Nat
  BY <1>1, <1>2, SizedLevel
<1>4. w.fs[p].n = Len(k[p].members)
  <2>1. w.fs[p].n = Len(k[p].members) + (IF p < p THEN 1 ELSE 0)
    BY <1>1, <1>2 DEF Sized
  <2>2. ~(p < p)
    BY <1>2
  <2> QED
    BY <1>3, <2>1, <2>2
<1> DEFINE u == sep(w, p)
<1>5. PICK g \in LevelType :
          /\ Replaces(u.fs, w.fs, p, g)
          /\ g.n = w.fs[p].n + 1 /\ g.opened = w.fs[p].opened
          /\ g.head = w.fs[p].head /\ g.isArr = w.fs[p].isArr
  BY <1>2, SepOK
<1>6. u \in Writer /\ u.out = After(w.out, w.fs[p])
  BY <1>2, SepOK
<1> HIDE DEF u
<1>7. /\ Len(u.fs) = Len(w.fs)
      /\ \A m \in 1..Len(w.fs) : u.fs[m] = IF m = p THEN g ELSE w.fs[m]
  BY <1>5 DEF Replaces
<1>8. SameNames(u.fs, w.fs)
  BY <1>5, <1>7 DEF SameNames
<1>9. ASSUME NEW m \in 1..Len(w.fs)
      PROVE  /\ u.fs[m].opened = w.fs[m].opened
             /\ u.fs[m].n = w.fs[m].n + (IF m = p THEN 1 ELSE 0)
  <2>1. w.fs[m].n \in Nat
    <3>1. w.fs[m] \in LevelType
      BY <1>1, ElementOfSeq
    <3> QED
      BY <3>1, Fields
  <2> QED
    BY <1>5, <1>7, <2>1
<1>10. /\ Above(k, w.fs, p) = Above(k, w.fs, p - 1) \o Full(k, w.fs, p)
       /\ Above(k, w.fs, p - 1) \in Seq(Ink)
  <2>1. p \in Nat /\ p <= Len(w.fs) /\ p <= Len(k)
        /\ p - 1 \in Nat /\ p - 1 <= Len(w.fs) /\ p - 1 <= Len(k)
    BY <1>2
  <2> QED
    BY <1>1, <1>2, <2>1, AboveOK
<1>11. Body(k, w.fs, p) \in Seq(Ink) /\ Comma1(k, p) \in Seq(Ink)
  BY <1>1, <1>2, BodyOK
<1>12. Bare(u.out) = Bare(w.out) \o Comma1(k, p)
  <2>1. CASE w.fs[p].n > 0
    <3> DEFINE t == w.fs[p].trail
    <3>1. t \in Spaces /\ t \in Seq(Tokens) /\ <<",">> \in Seq(Tokens)
      BY <1>3, Fields, Texts
    <3>2. u.out = (w.out \o t) \o <<",">>
      BY <1>6, <2>1 DEF After
    <3> HIDE DEF t
    <3>3. Bare(w.out \o t) = Bare(w.out) \o Bare(t) /\ w.out \o t \in Seq(Tokens)
      BY <1>1, <3>1, BareJoined, ConcatProperties
    <3>4. Bare((w.out \o t) \o <<",">>) = Bare(w.out \o t) \o Bare(<<",">>)
      BY <3>1, <3>3, BareJoined
    <3>5. Bare(t) = <<>> /\ Bare(<<",">>) = <<",">>
      BY <3>1, BareTokens
    <3>6. Bare(w.out) \o <<>> = Bare(w.out)
      <4>1. Bare(w.out) \in Seq(Ink)
        BY <1>1, BareInk
      <4> QED
        BY <4>1, ConcatEmptySeq
    <3>7. Comma1(k, p) = <<",">>
      <4>1. k[p].members # <<>>
        BY <1>3, <1>4, <2>1
      <4> QED
        BY <4>1 DEF Comma1
    <3> QED
      BY <3>2, <3>3, <3>4, <3>5, <3>6, <3>7
  <2>2. CASE ~(w.fs[p].n > 0)
    <3>1. Comma1(k, p) = <<>>
      BY <1>3, <1>4, <2>2 DEF Comma1
    <3>2. Bare(w.out) \o <<>> = Bare(w.out)
      <4>1. Bare(w.out) \in Seq(Ink)
        BY <1>1, BareInk
      <4> QED
        BY <4>1, ConcatEmptySeq
    <3> QED
      BY <1>6, <2>2, <3>1, <3>2 DEF After
  <2> QED
    BY <2>1, <2>2
<1>13. Bare(u.out) = Above(k, w.fs, p)
  <2> DEFINE a == Above(k, w.fs, p - 1)
             b == Body(k, w.fs, p)
             c == Comma1(k, p)
  <2>1. Bare(w.out) = a \o b
    BY <1>1 DEF Written
  <2>2. Above(k, w.fs, p) = a \o (b \o c)
    BY <1>10 DEF Full
  <2>3. a \in Seq(Ink) /\ b \in Seq(Ink) /\ c \in Seq(Ink)
    BY <1>10, <1>11
  <2>4. Bare(u.out) = Bare(w.out) \o c
    BY <1>12
  <2> HIDE DEF a, b, c
  <2>5. (a \o b) \o c = a \o (b \o c)
    BY <2>3, InkAssociates
  <2> QED
    BY <2>1, <2>2, <2>4, <2>5
<1>14. Parted(k, w, p, u)
  BY <1>6, <1>8, <1>9, <1>13 DEF Parted
<1> QED
  BY <1>14 DEF u

LEMMA OneMore ==
    ASSUME NEW c \in Nat, NEW p \in Nat, NEW m \in Nat
    PROVE  (c + (IF m < p THEN 1 ELSE 0)) + (IF m = p THEN 1 ELSE 0) =
               c + (IF m < p + 1 THEN 1 ELSE 0)
OBVIOUS

\* Level l opened, up being the writer with the separator before it.
OpenLevel(up, l) ==
    [out |-> up.out \o up.fs[l].head \o Opening(up.fs[l].isArr),
     fs  |-> [up.fs EXCEPT ![l].opened = TRUE]]

LEMMA OpenOneLevel ==
    ASSUME NEW w, NEW l, NEW prev, l # 0, ~w.fs[l].opened,
           NEW up, up = IF l = 1 THEN w ELSE sep(prev, l - 1)
    PROVE  OpenOne(w, l, prev) = OpenLevel(up, l)
BY Zenon DEF OpenOne, OpenLevel

LEMMA NextGrown ==
    ASSUME NEW w \in Writer, NEW k, NEW p, Grown(k, w, p), p < Len(w.fs),
           NEW up, IF p = 0 THEN up = w ELSE up = sep(w, p)
    PROVE  /\ OpenLevel(up, p + 1) \in Writer /\ Grown(k, OpenLevel(up, p + 1), p + 1)
           /\ SameNames(OpenLevel(up, p + 1).fs, w.fs)
<1> DEFINE v  == OpenLevel(up, p + 1)
           l  == p + 1
           f  == up.fs[l]
           g  == [f EXCEPT !.opened = TRUE]
           gs == [up.fs EXCEPT ![l] = g]
<1>1. /\ w.fs \in Seq(LevelType) /\ w.out \in Seq(Tokens)
      /\ Sized(k, w.fs, p) /\ Bare(w.out) = Written(k, w.fs, p)
  BY DEF Writer, Grown
<1>2. /\ k \in Seq(KidType) /\ Len(k) = Len(w.fs) /\ p \in 0..Len(w.fs)
      /\ Len(w.fs) \in Nat /\ p \in Nat
  BY <1>1, LenProperties DEF Sized
<1>3. /\ up \in Writer /\ SameNames(up.fs, w.fs) /\ Bare(up.out) = Above(k, w.fs, p)
      /\ \A m \in 1..Len(w.fs) :
           /\ up.fs[m].opened = w.fs[m].opened
           /\ up.fs[m].n = w.fs[m].n + (IF m = p THEN 1 ELSE 0)
  <2>1. CASE p = 0
    <3>1. up = w
      BY <2>1
    <3>2. Above(k, w.fs, p) = <<>>
      BY <1>1, <1>2, <2>1, AboveOK
    <3>3. Written(k, w.fs, p) = <<>>
      BY <2>1 DEF Written
    <3>4. \A m \in 1..Len(w.fs) : w.fs[m].n + (IF m = p THEN 1 ELSE 0) = w.fs[m].n
      <4> TAKE m \in 1..Len(w.fs)
      <4>1. w.fs[m] \in LevelType
        BY <1>1, ElementOfSeq
      <4>2. w.fs[m].n \in Nat /\ m # p
        BY <1>2, <2>1, <4>1, Fields
      <4> QED
        BY <4>2
    <3> QED
      BY <1>1, <3>1, <3>2, <3>3, <3>4 DEF SameNames
  <2>2. CASE p # 0
    <3>1. up = sep(w, p)
      BY <2>2
    <3>2. p > 0
      BY <1>2, <2>2
    <3>3. Parted(k, w, p, sep(w, p))
      BY <3>2, SepParted
    <3> QED
      BY <3>1, <3>3 DEF Parted
  <2> QED
    BY <2>1, <2>2
<1>4. /\ up.fs \in Seq(LevelType) /\ up.out \in Seq(Tokens) /\ Len(up.fs) = Len(w.fs)
      /\ l \in 1..Len(w.fs)
  BY <1>2, <1>3 DEF Writer, SameNames
<1>5. f \in LevelType
  BY <1>4, ElementOfSeq
<1>6. /\ g \in LevelType /\ g.opened /\ g.n = f.n /\ g.head = f.head
      /\ g.isArr = f.isArr
  <2> HIDE DEF f
  <2> QED
    BY <1>5 DEF LevelType
<1>7. f.head \in Seq(Tokens) /\ Opening(f.isArr) \in Seq(Tokens)
  BY <1>5, Fields, Texts
<1>8. v = [out |-> up.out \o f.head \o Opening(f.isArr), fs |-> gs]
  BY DEF OpenLevel
<1>9. f.head = w.fs[l].head /\ f.isArr = w.fs[l].isArr
  BY <1>3, <1>4 DEF SameNames
<1> HIDE DEF f, g, v
<1>10. Replaces(gs, up.fs, l, g)
  BY <1>4, <1>6, Replaced
<1>11. up.out \o f.head \in Seq(Tokens)
       /\ up.out \o f.head \o Opening(f.isArr) \in Seq(Tokens)
  <2>1. up.out \o f.head \in Seq(Tokens)
    BY <1>4, <1>7, ConcatProperties
  <2> QED
    BY <1>7, <2>1, ConcatProperties
<1> HIDE DEF gs
<1>12. /\ v \in Writer /\ v.fs = gs
       /\ v.out = (up.out \o f.head) \o Opening(f.isArr)
  BY <1>8, <1>10, <1>11 DEF Writer, Replaces
<1>13. /\ Len(v.fs) = Len(w.fs) /\ v.fs \in Seq(LevelType)
       /\ \A m \in 1..Len(w.fs) : v.fs[m] = IF m = l THEN g ELSE up.fs[m]
  BY <1>4, <1>10, <1>12 DEF Replaces
<1>14. SameNames(v.fs, w.fs)
  <2> SUFFICES ASSUME NEW m \in 1..Len(w.fs)
               PROVE  v.fs[m].head = w.fs[m].head /\ v.fs[m].isArr = w.fs[m].isArr
    BY <1>13 DEF SameNames
  <2> QED
    BY <1>3, <1>6, <1>9, <1>13 DEF SameNames
<1>15. /\ k[l].members = <<>> /\ \A m \in l + 1..Len(w.fs) : k[m].members = <<>>
  BY <1>1, <1>2, <1>4 DEF Sized
<1>16. Sized(k, v.fs, l)
  <2>1. ASSUME NEW m \in 1..Len(w.fs)
        PROVE  /\ v.fs[m].opened <=> m <= l
               /\ v.fs[m].n = Len(k[m].members) + (IF m < l THEN 1 ELSE 0)
    <3>1. /\ w.fs[m].opened <=> m <= p
          /\ w.fs[m].n = Len(k[m].members) + (IF m < p THEN 1 ELSE 0)
      BY <1>1 DEF Sized
    <3>2. Len(k[m].members) \in Nat
      BY <1>1, SizedLevel
    <3>3. up.fs[m].opened = w.fs[m].opened
          /\ up.fs[m].n = w.fs[m].n + (IF m = p THEN 1 ELSE 0)
      BY <1>3
    <3>4. v.fs[m].n = up.fs[m].n
      BY <1>6, <1>13 DEF f
    <3>5. v.fs[m].n = Len(k[m].members) + (IF m < l THEN 1 ELSE 0)
      <4>1. v.fs[m].n = w.fs[m].n + (IF m = p THEN 1 ELSE 0)
        BY <3>3, <3>4
      <4>2. m \in Nat
        OBVIOUS
      <4> QED
        <5> DEFINE c == Len(k[m].members)
        <5>1. (c + (IF m < p THEN 1 ELSE 0)) + (IF m = p THEN 1 ELSE 0) =
                  c + (IF m < p + 1 THEN 1 ELSE 0)
          BY <1>2, <3>2, <4>2, OneMore
        <5>2. w.fs[m].n = c + (IF m < p THEN 1 ELSE 0)
          BY <3>1
        <5> HIDE DEF c
        <5>3. v.fs[m].n = c + (IF m < p + 1 THEN 1 ELSE 0)
          BY <4>1, <5>1, <5>2, Zenon
        <5> QED
          BY <5>3 DEF c
    <3>6. v.fs[m].opened <=> m <= l
      <4>1. CASE m = l
        BY <1>2, <1>6, <1>13, <4>1
      <4>2. CASE m # l
        <5>1. v.fs[m] = up.fs[m]
          BY <1>13, <4>2
        <5>2. m <= l <=> m <= p
          BY <1>2, <4>2
        <5> QED
          BY <3>1, <3>3, <5>1, <5>2
      <4> QED
        BY <4>1, <4>2
    <3> QED
      BY <3>5, <3>6
  <2>2. l \in 0..Len(v.fs)
    BY <1>2, <1>4, <1>13
  <2>3. \A m \in l + 1..Len(v.fs) : k[m].members = <<>>
    BY <1>13, <1>15
  <2> HIDE DEF l
  <2> QED
    BY <1>2, <1>13, <2>1, <2>2, <2>3 DEF Sized
<1>17. Bare(v.out) = Above(k, w.fs, p) \o (Bare(f.head) \o Opening(f.isArr))
  <2> DEFINE a == Above(k, w.fs, p)
             b == Bare(f.head)
             c == Opening(f.isArr)
  <2>1. Bare(up.out \o f.head) = Bare(up.out) \o b
    BY <1>4, <1>7, BareJoined
  <2>2. Bare(v.out) = Bare(up.out \o f.head) \o Bare(c)
    BY <1>7, <1>11, <1>12, BareJoined
  <2>3. c \in Seq(Ink) /\ Bare(c) = c
    BY BareTokens
  <2>4. a \in Seq(Ink) /\ b \in Seq(Ink)
    BY <1>1, <1>2, <1>7, AboveOK, BareInk
  <2>5. Bare(up.out) = a
    BY <1>3
  <2> HIDE DEF a, b, c
  <2>6. (a \o b) \o c = a \o (b \o c)
    BY <2>3, <2>4, InkAssociates
  <2>7. Bare(v.out) = (a \o b) \o c
    BY <2>1, <2>2, <2>3, <2>5
  <2>8. Bare(v.out) = a \o (b \o c)
    BY <2>6, <2>7
  <2> QED
    BY <2>8 DEF a, b, c
<1>18. Body(k, v.fs, l) = Bare(f.head) \o Opening(f.isArr)
  <2>1. v.fs[l].head = f.head /\ v.fs[l].isArr = f.isArr
    BY <1>4, <1>6, <1>13
  <2>2. Bare(f.head) \o Opening(f.isArr) \in Seq(Ink)
    BY <1>7, BareInk, BareTokens, ConcatProperties
  <2> DEFINE x == Bare(f.head) \o Opening(f.isArr)
  <2>3. Body(k, v.fs, l) = x \o <<>>
    BY <1>15, <2>1, ListedNone DEF Body
  <2> HIDE DEF x
  <2>4. x \o <<>> = x
    BY <2>2, ConcatEmptySeq DEF x
  <2> QED
    BY <2>3, <2>4 DEF x
<1>19. Above(k, v.fs, p) = Above(k, w.fs, p)
  <2>1. \A m \in 1..p : /\ v.fs[m].head = w.fs[m].head /\ v.fs[m].isArr = w.fs[m].isArr
                        /\ k[m].members = k[m].members
    BY <1>2, <1>14 DEF SameNames
  <2> QED
    BY <1>2, <2>1, AboveSame
<1>20. Written(k, v.fs, l) = Above(k, v.fs, p) \o Body(k, v.fs, l)
  <2>1. l # 0 /\ l - 1 = p
    BY <1>2
  <2> QED
    BY <2>1 DEF Written
<1>21. Grown(k, v, l)
  BY <1>16, <1>17, <1>18, <1>19, <1>20 DEF Grown
<1> QED
  BY <1>12, <1>14, <1>21 DEF v

\* Opening level l leaves the levels up to it open, if they were not already.
Outer(p, l) == IF p < l THEN l ELSE p

LEMMA EnsureGrown ==
    ASSUME NEW w \in Writer, NEW k, NEW p, Grown(k, w, p), NEW l \in 1..Len(w.fs)
    PROVE  /\ ensureOpen(w, l) \in Writer
           /\ Grown(k, ensureOpen(w, l), Outer(p, l))
           /\ SameNames(ensureOpen(w, l).fs, w.fs)
<1>1. Len(w.fs) \in Nat /\ l \in Nat /\ p \in 0..Len(w.fs) /\ p \in Nat
  BY LenProperties DEF Writer, Grown, Sized
<1>2. PICK g : /\ g = [i \in 0..l |-> OpenOne(w, i, g[i - 1])]
               /\ ensureOpen(w, l) = g[l]
  BY <1>1, OpenUnfolds
<1>3. \A i \in 1..Len(w.fs) : w.fs[i].opened <=> i <= p
  BY DEF Grown, Sized
<1> DEFINE M == {i \in Nat : i <= l => /\ i <= p => g[i] = w
                                       /\ g[i] \in Writer /\ Grown(k, g[i], Outer(p, i))
                                       /\ SameNames(g[i].fs, w.fs)}
<1>4. SameNames(w.fs, w.fs)
  BY DEF SameNames
<1>5. 0 \in M
  <2>1. g[0] = w
    <3>1. 0 \in 0..l
      BY <1>1
    <3>2. g[0] = OpenOne(w, 0, g[0 - 1])
      BY <1>2, <3>1
    <3> QED
      BY <3>2 DEF OpenOne
  <2>2. Outer(p, 0) = p
    BY <1>1 DEF Outer
  <2> QED
    BY <1>4, <2>1, <2>2
<1>6. ASSUME NEW i \in Nat, i \in M PROVE i + 1 \in M
  <2> SUFFICES ASSUME i + 1 <= l
               PROVE  /\ i + 1 <= p => g[i + 1] = w
                      /\ g[i + 1] \in Writer /\ Grown(k, g[i + 1], Outer(p, i + 1))
                      /\ SameNames(g[i + 1].fs, w.fs)
    OBVIOUS
  <2>1. g[i + 1] = OpenOne(w, i + 1, g[i])
    <3>1. i + 1 \in 0..l /\ i + 1 - 1 = i
      BY <1>1
    <3> QED
      BY <1>2, <3>1
  <2>2. i <= l /\ i + 1 \in 1..Len(w.fs) /\ i + 1 # 0
    BY <1>1
  <2>3. /\ i <= p => g[i] = w
        /\ g[i] \in Writer /\ Grown(k, g[i], Outer(p, i))
        /\ SameNames(g[i].fs, w.fs)
    BY <1>6, <2>2
  <2>4. CASE i + 1 <= p
    <3>1. w.fs[i + 1].opened
      BY <1>3, <2>2, <2>4
    <3>2. g[i + 1] = w
      BY <2>1, <3>1 DEF OpenOne
    <3>3. Outer(p, i + 1) = p
      BY <1>1, <2>4 DEF Outer
    <3> QED
      BY <1>4, <3>2, <3>3
  <2>5. CASE ~(i + 1 <= p)
    <3>1. ~w.fs[i + 1].opened
      BY <1>3, <2>2, <2>5
    <3>2. Outer(p, i) = i /\ Outer(p, i + 1) = i + 1
      BY <1>1, <2>5 DEF Outer
    <3> DEFINE u  == g[i]
               up == IF i + 1 = 1 THEN w ELSE sep(u, i + 1 - 1)
    <3>3. g[i + 1] = OpenLevel(up, i + 1)
      <4>1. up = IF i + 1 = 1 THEN w ELSE sep(u, i + 1 - 1)
        OBVIOUS
      <4> HIDE DEF up
      <4>2. OpenOne(w, i + 1, u) = OpenLevel(up, i + 1)
        BY <2>2, <3>1, <4>1, OpenOneLevel
      <4> QED
        BY <2>1, <4>2
    <3>4. IF i = 0 THEN up = u ELSE up = sep(u, i)
      <4>1. CASE i = 0
        <5>1. u = w
          BY <1>1, <2>3, <4>1
        <5> QED
          BY <4>1, <5>1
      <4>2. CASE i # 0
        <5>1. i + 1 # 1 /\ i + 1 - 1 = i
          BY <4>2
        <5> QED
          BY <4>2, <5>1
      <4> QED
        BY <4>1, <4>2
    <3>5. u \in Writer /\ Grown(k, u, i) /\ i < Len(u.fs) /\ SameNames(u.fs, w.fs)
      BY <1>1, <2>3, <3>2 DEF SameNames
    <3> HIDE DEF u, up
    <3>6. /\ OpenLevel(up, i + 1) \in Writer /\ Grown(k, OpenLevel(up, i + 1), i + 1)
          /\ SameNames(OpenLevel(up, i + 1).fs, u.fs)
      BY <3>4, <3>5, NextGrown
    <3>7. SameNames(OpenLevel(up, i + 1).fs, w.fs)
      BY <3>5, <3>6 DEF SameNames
    <3> QED
      BY <2>5, <3>2, <3>3, <3>6, <3>7
  <2> QED
    BY <2>4, <2>5
<1> HIDE DEF M
<1>7. l \in M
  BY <1>1, <1>5, <1>6, Induction
<1> QED
  BY <1>1, <1>2, <1>7 DEF M

-----------------------------------------------------------------------------
(* A member more. *)

LEMMA InkFour ==
    ASSUME NEW s1 \in Seq(Ink), NEW s2 \in Seq(Ink), NEW s3 \in Seq(Ink),
           NEW s4 \in Seq(Ink)
    PROVE  s1 \o (s2 \o (s3 \o s4)) = ((s1 \o s2) \o s3) \o s4
<1> DEFINE x == s3 \o s4
           y == s1 \o s2
<1>1. x \in Seq(Ink) /\ y \in Seq(Ink)
  BY ConcatProperties
<1> HIDE DEF x, y
<1>2. (s1 \o s2) \o x = s1 \o (s2 \o x)
  <2>1. \A c \in Seq(Ink) : (s1 \o s2) \o c = s1 \o (s2 \o c)
    BY InkAssociates
  <2> QED
    BY <1>1, <2>1
<1>3. (y \o s3) \o s4 = y \o (s3 \o s4)
  <2>1. \A a \in Seq(Ink) : (a \o s3) \o s4 = a \o (s3 \o s4)
    BY InkAssociates
  <2> QED
    BY <1>1, <2>1
<1> QED
  BY <1>2, <1>3 DEF x, y

\* k with t among the members of level l, the next one to be written there.
More(k, l, t) == [k EXCEPT ![l].members = Append(@, t)]

LEMMA MoreOK ==
    ASSUME NEW k \in Seq(KidType), NEW l \in 1..Len(k), NEW t \in Seq(Ink)
    PROVE  /\ More(k, l, t) \in Seq(KidType) /\ Len(More(k, l, t)) = Len(k)
           /\ \A m \in 1..Len(k) :
                 /\ More(k, l, t)[m].forced = k[m].forced
                 /\ More(k, l, t)[m].members =
                        IF m = l THEN Append(k[m].members, t) ELSE k[m].members
<1> DEFINE y == Append(k[l].members, t)
           f == k[l]
           x == [f EXCEPT !.members = y]
           h == More(k, l, t)
<1>1. k[l] \in KidType
  BY ElementOfSeq
<1>2. k[l].forced \in BOOLEAN /\ k[l].members \in Seq(Seq(Ink))
  BY <1>1 DEF KidType
<1>3. Append(k[l].members, t) \in Seq(Seq(Ink))
  BY <1>2, AppendProperties
<1>6. h = [k EXCEPT ![l] = x]
  BY DEF More
<1>4. y \in Seq(Seq(Ink)) /\ f \in KidType
  BY <1>1, <1>3
<1> HIDE DEF f, y
<1>7. x \in KidType /\ x.forced = f.forced /\ x.members = y
  BY <1>4 DEF KidType
<1> HIDE DEF x, h
<1>8. /\ h \in Seq(KidType) /\ Len(h) = Len(k)
      /\ \A m \in 1..Len(k) : h[m] = IF m = l THEN x ELSE k[m]
  BY <1>6, <1>7, ExceptSeq
<1>9. ASSUME NEW m \in 1..Len(k)
      PROVE  /\ h[m].forced = k[m].forced
             /\ h[m].members = IF m = l THEN Append(k[m].members, t) ELSE k[m].members
  <2>1. CASE m = l
    BY <1>7, <1>8, <2>1 DEF f, y
  <2>2. CASE m # l
    BY <1>8, <2>2
  <2> QED
    BY <2>1, <2>2
<1> QED
  BY <1>8, <1>9 DEF h

\* What was written up to level l, with t after it, is what is written when t is
\* one more of its members.
LEMMA MoreWritten ==
    ASSUME NEW k \in Seq(KidType), NEW fs \in Seq(LevelType), NEW l \in 1..Len(fs),
           Len(k) = Len(fs), NEW t \in Seq(Ink)
    PROVE  Written(More(k, l, t), fs, l) = Above(k, fs, l) \o t
<1> DEFINE h  == More(k, l, t)
           ms == k[l].members
           a  == Above(k, fs, l - 1)
           b  == Bare(fs[l].head) \o Opening(fs[l].isArr)
           c  == Comma1(k, l)
           d  == Listed(ms)
<1>0. Len(fs) \in Nat
  BY LenProperties
<1>1. /\ l \in 1..Len(k) /\ l \in Nat /\ l - 1 \in Nat /\ l - 1 <= Len(fs)
      /\ l - 1 <= Len(k) /\ l <= Len(fs) /\ l <= Len(k) /\ l # 0 /\ l > 0
  BY <1>0
<1>2. h[l].members = Append(ms, t) /\ h \in Seq(KidType)
      /\ \A m \in 1..l - 1 : h[m].members = k[m].members
  <2>1. \A m \in 1..l - 1 : m \in 1..Len(k) /\ m # l
    BY <1>1
  <2>2. /\ More(k, l, t) \in Seq(KidType)
        /\ \A m \in 1..Len(k) :
              More(k, l, t)[m].members =
                  IF m = l THEN Append(k[m].members, t) ELSE k[m].members
    BY <1>1, MoreOK
  <2> HIDE DEF h
  <2> QED
    BY <1>1, <2>1, <2>2 DEF h
<1>3. Above(h, fs, l - 1) = a
  BY <1>1, <1>2, AboveSame
<1>4. a \in Seq(Ink) /\ Above(k, fs, l) = a \o Full(k, fs, l)
  BY <1>1, AboveOK
<1>5. /\ Bare(fs[l].head) \in Seq(Ink) /\ Opening(fs[l].isArr) \in Seq(Ink)
      /\ ms \in Seq(Seq(Ink)) /\ d \in Seq(Ink) /\ c \in Seq(Ink)
  BY <1>1, BodyOK
<1>6. b \in Seq(Ink)
  BY <1>5, ConcatProperties
<1>7. Next1(ms, t) = c \o t /\ Listed(Append(ms, t)) = d \o Next1(ms, t)
  <2>1. <<>> \o t = t
    BY ConcatEmptySeq
  <2>2. Next1(ms, t) = c \o t
    BY <2>1 DEF Next1, Comma1
  <2> QED
    BY <1>5, <2>2, ListedMore
<1>8. Body(h, fs, l) = b \o (d \o (c \o t))
  BY <1>2, <1>7 DEF Body
<1>9. Full(k, fs, l) = (b \o d) \o c
  BY DEF Full, Body
<1>10. Written(h, fs, l) = a \o Body(h, fs, l)
  BY <1>1, <1>3 DEF Written
<1> HIDE DEF a, b, c, d
<1>11. /\ \A x, y, z \in Seq(Ink) : (x \o y) \o z = x \o (y \o z)
       /\ \A x, y \in Seq(Ink) : x \o y \in Seq(Ink)
  BY InkJoined
<1>12. b \o (d \o (c \o t)) = ((b \o d) \o c) \o t
  <2>1. b \in Seq(Ink) /\ c \in Seq(Ink) /\ d \in Seq(Ink)
    BY <1>5, <1>6
  <2>2. \A s1, s2, s3, s4 \in Seq(Ink) :
            s1 \o (s2 \o (s3 \o s4)) = ((s1 \o s2) \o s3) \o s4
    BY InkFour
  <2> HIDE DEF h, ms
  <2>3. t \in Seq(Ink)
    OBVIOUS
  <2>4. \A s2, s3, s4 \in Seq(Ink) :
            b \o (s2 \o (s3 \o s4)) = ((b \o s2) \o s3) \o s4
    BY <2>1, <2>2
  <2>5. \A s3, s4 \in Seq(Ink) :
            b \o (d \o (s3 \o s4)) = ((b \o d) \o s3) \o s4
    BY <2>1, <2>4
  <2>6. \A s4 \in Seq(Ink) :
            b \o (d \o (c \o s4)) = ((b \o d) \o c) \o s4
    BY <2>1, <2>5
  <2> QED
    BY <2>3, <2>6
<1> DEFINE e == (b \o d) \o c
<1>13. e \in Seq(Ink)
  <2>1. b \o d \in Seq(Ink)
    BY <1>5, <1>6, <1>11
  <2> QED
    BY <1>5, <1>11, <2>1
<1>14. Written(h, fs, l) = a \o (e \o t) /\ Above(k, fs, l) = a \o e
  BY <1>4, <1>8, <1>9, <1>10, <1>12
<1> HIDE DEF e
<1>15. a \o (e \o t) = (a \o e) \o t
  BY <1>4, <1>11, <1>13
<1> QED
  BY <1>14, <1>15

LEMMA EnteredIsMore ==
    ASSUME NEW k, NEW l, NEW text
    PROVE  Entered(k, l, text) = More(k, l, Bare(text))
BY Zenon DEF Entered, More

LEMMA Swapped ==
    ASSUME NEW c \in Nat, NEW l \in Nat, NEW m \in Nat
    PROVE  (c + (IF m < l THEN 1 ELSE 0)) + (IF m = l THEN 1 ELSE 0) =
               (c + (IF m = l THEN 1 ELSE 0)) + (IF m < l THEN 1 ELSE 0)
OBVIOUS

\* A value written at level l.
LEMMA EntryGrown ==
    ASSUME NEW w \in Writer, NEW k, NEW p, Grown(k, w, p), NEW l \in 1..Len(w.fs),
           CanWriteAt(w, l), NEW head \in Seq(Tokens)
    PROVE  Grown(Entered(k, l, head \o <<"v">>), Entry(w, l, head), l)
<1> DEFINE e == ensureOpen(w, l)
           s == sep(e, l)
           u == Entry(w, l, head)
           t == Bare(head \o <<"v">>)
           h == More(k, l, t)
<1>1. /\ w.fs \in Seq(LevelType) /\ Len(w.fs) \in Nat /\ Sized(k, w.fs, p)
      /\ p \in 0..Len(w.fs) /\ l \in Nat
  <2>1. w.fs \in Seq(LevelType)
    BY DEF Writer
  <2>2. Len(w.fs) \in Nat
    BY <2>1, LenProperties
  <2>3. Sized(k, w.fs, p)
    BY DEF Grown
  <2>4. p \in 0..Len(w.fs)
    BY <2>3 DEF Sized
  <2> QED
    BY <2>1, <2>2, <2>3, <2>4
<1>2. p <= l
  <2> SUFFICES ASSUME ~(p <= l) PROVE FALSE
    OBVIOUS
  <2>1. p \in l + 1..Len(w.fs) /\ p \in 1..Len(w.fs) /\ p <= p
    BY <1>1
  <2>2. w.fs[p].opened
    BY <1>1, <2>1 DEF Sized
  <2> QED
    BY <2>1, <2>2 DEF CanWriteAt
<1>3. Outer(p, l) = l
  BY <1>1, <1>2 DEF Outer
<1>4. e \in Writer /\ Grown(k, e, l) /\ Len(e.fs) = Len(w.fs)
  BY <1>3, EnsureGrown DEF SameNames
<1>5. u = [s EXCEPT !.out = s.out \o head \o <<"v">>]
  BY DEF Entry
<1> HIDE DEF e, u
<1>6. Parted(k, e, l, s)
  BY <1>4, SepParted
<1> HIDE DEF s
<1>7. /\ s \in Writer /\ s.fs \in Seq(LevelType) /\ s.out \in Seq(Tokens)
      /\ Bare(s.out) = Above(k, e.fs, l) /\ Len(s.fs) = Len(w.fs)
      /\ SameNames(s.fs, e.fs)
  BY <1>4, <1>6 DEF Parted, Writer, SameNames
<1>8. <<"v">> \in Seq(Tokens) /\ head \o <<"v">> \in Seq(Tokens)
  BY Texts, ConcatProperties
<1>9. t \in Seq(Ink) /\ t = Bare(head) \o Bare(<<"v">>)
  BY <1>8, BareInk, BareJoined
<1>10. s.out \o head \in Seq(Tokens) /\ s.out \o head \o <<"v">> \in Seq(Tokens)
  <2>1. s.out \o head \in Seq(Tokens)
    BY <1>7, ConcatProperties
  <2> QED
    BY <1>8, <2>1, ConcatProperties
<1>11. u.fs = s.fs /\ u.out = (s.out \o head) \o <<"v">>
  BY <1>5, <1>7 DEF Writer
<1>12. k \in Seq(KidType) /\ Len(k) = Len(w.fs) /\ Sized(k, e.fs, l) /\ e.fs \in Seq(LevelType)
  BY <1>1, <1>4 DEF Sized, Grown
<1> HIDE DEF t
<1>13. /\ h \in Seq(KidType) /\ Len(h) = Len(k)
       /\ \A m \in 1..Len(k) :
             h[m].members = IF m = l THEN Append(k[m].members, t) ELSE k[m].members
  <2>1. l \in 1..Len(k)
    BY <1>12
  <2> QED
    <3>1. k \in Seq(KidType) /\ t \in Seq(Ink)
      BY <1>9, <1>12
    <3>2. \A m \in 1..Len(k) :
             More(k, l, t)[m].members =
                 IF m = l THEN Append(k[m].members, t) ELSE k[m].members
      BY <2>1, <3>1, MoreOK
    <3>3. More(k, l, t) \in Seq(KidType) /\ Len(More(k, l, t)) = Len(k)
      BY <2>1, <3>1, MoreOK
    <3> QED
      BY <3>2, <3>3
<1>14. Bare(u.out) = Above(k, e.fs, l) \o t
  <2> DEFINE a == Bare(s.out)
             b == Bare(head)
             c == Bare(<<"v">>)
  <2>1. Bare((s.out \o head) \o <<"v">>) = Bare(s.out \o head) \o c
    BY <1>8, <1>10, BareJoined
  <2>2. Bare(s.out \o head) = a \o b
    BY <1>7, BareJoined
  <2>3. a \in Seq(Ink) /\ b \in Seq(Ink) /\ c \in Seq(Ink)
    BY <1>7, <1>8, BareInk
  <2>4. t = b \o c /\ a = Above(k, e.fs, l)
    BY <1>7, <1>9
  <2>5. Bare(u.out) = (a \o b) \o c
    BY <1>11, <2>1, <2>2
  <2> HIDE DEF a, b, c
  <2>6. (a \o b) \o c = a \o (b \o c)
    BY <2>3, InkAssociates
  <2> QED
    BY <2>4, <2>5, <2>6
<1>15. Above(k, s.fs, l) = Above(k, e.fs, l)
  <2>1. \A m \in 1..l : s.fs[m].head = e.fs[m].head /\ s.fs[m].isArr = e.fs[m].isArr
                        /\ k[m].members = k[m].members
    BY <1>1, <1>4, <1>7 DEF SameNames
  <2> QED
    BY <1>1, <2>1, AboveSame
<1>16. Written(h, s.fs, l) = Above(k, s.fs, l) \o t
  <2>1. l \in 1..Len(s.fs) /\ Len(k) = Len(s.fs)
    BY <1>7, <1>12
  <2> QED
    BY <1>7, <1>9, <1>12, <2>1, MoreWritten
<1>17. Sized(h, s.fs, l)
  <2>1. ASSUME NEW m \in 1..Len(s.fs)
        PROVE  /\ s.fs[m].opened <=> m <= l
               /\ s.fs[m].n = Len(h[m].members) + (IF m < l THEN 1 ELSE 0)
    <3>1. m \in 1..Len(e.fs) /\ m \in 1..Len(k)
      BY <1>4, <1>7, <1>12
    <3>2. /\ e.fs[m].opened <=> m <= l
          /\ e.fs[m].n = Len(k[m].members) + (IF m < l THEN 1 ELSE 0)
      BY <1>12, <3>1 DEF Sized
    <3>3. /\ s.fs[m].opened = e.fs[m].opened
          /\ s.fs[m].n = e.fs[m].n + (IF m = l THEN 1 ELSE 0)
      BY <1>6, <3>1 DEF Parted
    <3>4. Len(k[m].members) \in Nat /\ k[m].members \in Seq(Seq(Ink))
      BY <1>12, <3>1, SizedLevel
    <3>5. Len(h[m].members) = Len(k[m].members) + (IF m = l THEN 1 ELSE 0)
      <4> DEFINE ms == k[m].members
      <4>1. ms \in Seq(Seq(Ink)) /\ Len(ms) \in Nat
        BY <3>4
      <4>2. h[m].members = IF m = l THEN Append(ms, t) ELSE ms
        BY <1>13, <3>1
      <4> HIDE DEF ms
      <4>3. Len(Append(ms, t)) = Len(ms) + 1
        BY <1>9, <4>1, AppendProperties
      <4>4. Len(h[m].members) = Len(ms) + (IF m = l THEN 1 ELSE 0)
        <5>1. CASE m = l
          BY <4>2, <4>3, <5>1
        <5>2. CASE m # l
          BY <4>1, <4>2, <5>2
        <5> QED
          BY <5>1, <5>2
      <4> QED
        BY <4>4 DEF ms
    <3>6. s.fs[m].n = Len(h[m].members) + (IF m < l THEN 1 ELSE 0)
      <4> DEFINE c == Len(k[m].members)
                 d == Len(h[m].members)
      <4>1. /\ e.fs[m].n = c + (IF m < l THEN 1 ELSE 0) /\ c \in Nat
            /\ s.fs[m].n = e.fs[m].n + (IF m = l THEN 1 ELSE 0)
            /\ d = c + (IF m = l THEN 1 ELSE 0)
        BY <3>2, <3>3, <3>4, <3>5
      <4>2. m \in Nat
        OBVIOUS
      <4> HIDE DEF c, d
      <4>3. (c + (IF m < l THEN 1 ELSE 0)) + (IF m = l THEN 1 ELSE 0) =
                (c + (IF m = l THEN 1 ELSE 0)) + (IF m < l THEN 1 ELSE 0)
        BY <1>1, <4>1, <4>2, Swapped
      <4>4. s.fs[m].n = d + (IF m < l THEN 1 ELSE 0)
        BY <4>1, <4>3, Zenon
      <4> QED
        BY <4>4 DEF d
    <3> QED
      BY <3>2, <3>3, <3>6
  <2>2. \A m \in l + 1..Len(s.fs) : h[m].members = <<>>
    <3> TAKE m \in l + 1..Len(s.fs)
    <3>1. m \in 1..Len(k) /\ m # l /\ m \in l + 1..Len(e.fs)
      BY <1>1, <1>4, <1>7, <1>12
    <3> QED
      BY <1>12, <1>13, <3>1 DEF Sized
  <2>3. Len(h) = Len(s.fs) /\ l \in 0..Len(s.fs)
    BY <1>1, <1>7, <1>12, <1>13
  <2> QED
    BY <1>7, <1>13, <2>1, <2>2, <2>3 DEF Sized
<1>18. Entered(k, l, head \o <<"v">>) = h
  BY EnteredIsMore DEF t
<1> HIDE DEF h
<1>19. Grown(h, u, l)
  BY <1>11, <1>14, <1>15, <1>16, <1>17 DEF Grown, h
<1> QED
  BY <1>18, <1>19 DEF u

-----------------------------------------------------------------------------
(* A level less. *)

\* The levels but the last, p of those being open.
LEMMA FrontSized ==
    ASSUME NEW fs, NEW k, NEW p, Sized(k, fs, p), Len(fs) > 0, p < Len(fs)
    PROVE  Sized(Front(k), Front(fs), p)
<1> DEFINE n  == Len(fs)
           gs == Front(fs)
           h  == Front(k)
<1>1. fs \in Seq(LevelType) /\ k \in Seq(KidType) /\ Len(k) = n /\ p \in 0..n
  BY DEF Sized
<1>2. n \in Nat /\ fs # <<>> /\ k # <<>>
  BY <1>1, EmptySeq, LenProperties
<1>3. /\ gs \in Seq(LevelType) /\ Len(gs) = n - 1 /\ \A m \in 1..n - 1 : gs[m] = fs[m]
      /\ h \in Seq(KidType) /\ Len(h) = n - 1 /\ \A m \in 1..n - 1 : h[m] = k[m]
  <2>1. /\ gs \in Seq(LevelType) /\ Len(gs) = n - 1
        /\ \A m \in 1..n - 1 : gs[m] = fs[m]
    BY <1>1, <1>2, FrontOK
  <2>2. /\ h \in Seq(KidType) /\ Len(h) = Len(k) - 1
        /\ \A m \in 1..Len(k) - 1 : h[m] = k[m]
    BY <1>1, <1>2, FrontOK
  <2> QED
    BY <1>1, <2>1, <2>2
<1>4. /\ \A m \in 1..n :
            /\ fs[m].opened <=> m <= p
            /\ fs[m].n = Len(k[m].members) + (IF m < p THEN 1 ELSE 0)
      /\ \A m \in p + 1..n : k[m].members = <<>>
  BY DEF Sized
<1> HIDE DEF gs, h, n
<1>5. p \in 0..n - 1 /\ 1..n - 1 \subseteq 1..n /\ p + 1..n - 1 \subseteq p + 1..n
      /\ p + 1..n - 1 \subseteq 1..n - 1
  BY <1>1, <1>2 DEF n
<1>6. \A m \in 1..n - 1 :
          /\ gs[m].opened <=> m <= p
          /\ gs[m].n = Len(h[m].members) + (IF m < p THEN 1 ELSE 0)
  BY <1>3, <1>4, <1>5
<1>7. \A m \in p + 1..n - 1 : h[m].members = <<>>
  BY <1>3, <1>4, <1>5
<1> QED
  BY <1>3, <1>5, <1>6, <1>7 DEF Sized, gs, h

\* A level that was never opened is gone without a trace.
LEMMA PopShutGrown ==
    ASSUME NEW w \in Writer, NEW k, NEW p, Grown(k, w, p), p < Len(w.fs),
           NEW ws
    PROVE  Grown(Front(k), pop(w, ws), p)
<1>1. w.fs \in Seq(LevelType) /\ Sized(k, w.fs, p) /\ Bare(w.out) = Written(k, w.fs, p)
  BY DEF Writer, Grown
<1>2. Len(w.fs) \in Nat /\ p \in 0..Len(w.fs) /\ k \in Seq(KidType) /\ Len(k) = Len(w.fs)
  BY <1>1, LenProperties DEF Sized
<1>3. Len(w.fs) > 0 /\ Len(w.fs) \in 1..Len(w.fs) /\ w.fs # <<>> /\ k # <<>>
      /\ p \in Nat
  BY <1>1, <1>2, EmptySeq
<1>4. ~Last(w.fs).opened
  <2>1. w.fs[Len(w.fs)].opened <=> Len(w.fs) <= p
    BY <1>1, <1>3 DEF Sized
  <2>2. ~(Len(w.fs) <= p)
    BY <1>2
  <2> QED
    BY <2>1, <2>2 DEF Last
<1>5. pop(w, ws).out = w.out /\ pop(w, ws).fs = Front(w.fs)
  BY <1>4 DEF pop
<1>6. Sized(Front(k), Front(w.fs), p)
  BY <1>1, <1>3, FrontSized
<1>7. \A m \in 1..p : Front(w.fs)[m] = w.fs[m] /\ Front(k)[m] = k[m]
  <2>1. \A m \in 1..p : m \in 1..Len(w.fs) - 1 /\ m \in 1..Len(k) - 1
    BY <1>2
  <2>2. \A m \in 1..Len(w.fs) - 1 : Front(w.fs)[m] = w.fs[m]
    BY <1>1, <1>3, FrontOK
  <2>3. \A m \in 1..Len(k) - 1 : Front(k)[m] = k[m]
    BY <1>2, <1>3, FrontOK
  <2> QED
    BY <2>1, <2>2, <2>3
<1>8. Written(Front(k), Front(w.fs), p) = Written(k, w.fs, p)
  BY <1>3, <1>7, WrittenSame
<1> QED
  BY <1>1, <1>5, <1>6, <1>8 DEF Grown

\* The text of a level that is closed.
Whole(k, fs, n) == Body(k, fs, n) \o Closing(fs[n].isArr)

LEMMA WholeOK ==
    ASSUME NEW fs \in Seq(LevelType), NEW k \in Seq(KidType),
           NEW n, n \in 1..Len(fs), n \in 1..Len(k), NEW gs, SameNames(fs, gs)
    PROVE  /\ Whole(k, fs, n) \in Seq(Ink) /\ Bare(Whole(k, fs, n)) = Whole(k, fs, n)
           /\ Exists(k, n) /\ n = Len(k) =>
                  LevelText(k, gs, n) \o Closing(gs[n].isArr) = Whole(k, fs, n)
<1>1. Body(k, fs, n) \in Seq(Ink) /\ Closing(fs[n].isArr) \in Seq(Ink)
  BY BodyOK
<1>2. Whole(k, fs, n) \in Seq(Ink)
  BY <1>1, InkJoins DEF Whole
<1>3. Bare(Whole(k, fs, n)) = Whole(k, fs, n)
  BY <1>2, BareSame
<1>4. ASSUME Exists(k, n), n = Len(k)
      PROVE  LevelText(k, gs, n) \o Closing(gs[n].isArr) = Whole(k, fs, n)
  <2>1. gs[n].head = fs[n].head /\ gs[n].isArr = fs[n].isArr
    BY DEF SameNames
  <2>2. ~Exists(k, n + 1)
    <3>1. Len(k) \in Nat
      BY LenProperties
    <3>2. \A m \in n + 1..Len(k) : FALSE
      BY <1>4, <3>1
    <3> QED
      BY <3>2 DEF Exists
  <2>3. LevelText(k, gs, n) = Body(k, gs, n) \o <<>>
    BY <1>4, <2>2 DEF LevelText, Body
  <2>4. Body(k, gs, n) = Body(k, fs, n)
    BY <2>1 DEF Body
  <2>5. Body(k, fs, n) \o <<>> = Body(k, fs, n)
    BY <1>1, ConcatEmptySeq
  <2> QED
    BY <2>1, <2>3, <2>4, <2>5 DEF Whole
<1> QED
  BY <1>2, <1>3, <1>4

\* What pop writes at a level that is open.
LEMMA PopText ==
    ASSUME NEW w \in Writer, NEW k, Grown(k, w, Len(w.fs)), Len(w.fs) > 0,
           NEW ws \in Spaces
    PROVE  /\ pop(w, ws).fs = Front(w.fs)
           /\ Bare(pop(w, ws).out) =
                  Above(k, w.fs, Len(w.fs) - 1) \o Whole(k, w.fs, Len(w.fs))
<1> DEFINE n == Len(w.fs)
           c == Closing(w.fs[n].isArr)
<1>1. /\ w.fs \in Seq(LevelType) /\ w.out \in Seq(Tokens) /\ Sized(k, w.fs, n)
      /\ Bare(w.out) = Written(k, w.fs, n)
  BY DEF Writer, Grown
<1>2. n \in Nat /\ n > 0 /\ n \in 1..n /\ n # 0 /\ n - 1 \in Nat /\ n - 1 <= n
  BY <1>1, LenProperties
<1>3. k \in Seq(KidType) /\ Len(k) = n
  BY <1>1 DEF Sized
<1>4. Last(w.fs).opened
  <2>1. w.fs[n].opened <=> n <= n
    BY <1>1, <1>2 DEF Sized
  <2> QED
    BY <1>2, <2>1 DEF Last
<1>5. pop(w, ws).out = (w.out \o ws) \o c /\ pop(w, ws).fs = Front(w.fs)
  BY <1>4 DEF pop, Last
<1>6. /\ ws \in Seq(Tokens) /\ Bare(ws) = <<>> /\ c \in Seq(Tokens)
      /\ c \in Seq(Ink) /\ Bare(c) = c
  BY Texts, BareTokens
<1>7. w.out \o ws \in Seq(Tokens)
  BY <1>1, <1>6, ConcatProperties
<1>8. Bare(w.out \o ws) = Bare(w.out)
  <2>1. Bare(w.out \o ws) = Bare(w.out) \o <<>>
    BY <1>1, <1>6, BareJoined
  <2>2. Bare(w.out) \in Seq(Ink)
    BY <1>1, BareInk
  <2>3. Bare(w.out) \o <<>> = Bare(w.out)
    BY <2>2, ConcatEmptySeq
  <2> QED
    BY <2>1, <2>3
<1>9. Bare((w.out \o ws) \o c) = Bare(w.out \o ws) \o Bare(c)
  BY <1>6, <1>7, BareJoined
<1> DEFINE a == Above(k, w.fs, n - 1)
           b == Body(k, w.fs, n)
<1>10. a \in Seq(Ink) /\ b \in Seq(Ink)
  <2>1. n - 1 <= Len(w.fs) /\ n - 1 <= Len(k) /\ n \in 1..Len(k)
    BY <1>2, <1>3
  <2> QED
    BY <1>1, <1>2, <1>3, <2>1, AboveOK, BodyOK
<1>11. Bare(w.out) = a \o b
  BY <1>1, <1>2 DEF Written
<1>12. Whole(k, w.fs, n) = b \o c
  BY DEF Whole
<1> HIDE DEF a, b, c
<1>13. (a \o b) \o c = a \o (b \o c)
  BY <1>6, <1>10, InkAssociates
<1> QED
  BY <1>5, <1>6, <1>8, <1>9, <1>11, <1>12, <1>13 DEF a

\* A level that is closed becomes a member of the one around it.
LEMMA PopGrown ==
    ASSUME NEW w \in Writer, NEW k, Grown(k, w, Len(w.fs)), Len(w.fs) > 1,
           NEW ws \in Spaces, NEW gs, SameNames(w.fs, gs), Exists(k, Len(k))
    PROVE  Grown(Sealed(k, gs), pop(w, ws), Len(w.fs) - 1)
<1> DEFINE n == Len(w.fs)
           l == n - 1
           t == Whole(k, w.fs, n)
           fr == Front(w.fs)
           f == Front(k)
           h == More(f, l, t)
           u == pop(w, ws)
<1>1. /\ w.fs \in Seq(LevelType) /\ Sized(k, w.fs, n)
  BY DEF Writer, Grown
<1>2. n \in Nat /\ n > 1 /\ n \in 1..n /\ l \in Nat /\ l \in 1..n /\ l # 0 /\ l < n
  <2>1. n \in Nat /\ n > 1
    BY <1>1, LenProperties
  <2> HIDE DEF n
  <2> QED
    BY <2>1
<1>3. k \in Seq(KidType) /\ Len(k) = n /\ n \in 1..Len(k)
  BY <1>1, <1>2 DEF Sized
<1>4. /\ t \in Seq(Ink) /\ Bare(t) = t
      /\ LevelText(k, gs, n) \o Closing(gs[n].isArr) = t
  BY <1>1, <1>2, <1>3, WholeOK
<1>5. Sealed(k, gs) = Entered(f, l, t)
  <2>1. Len(k) # 1 /\ Exists(k, Len(k)) /\ Len(k) = n
    BY <1>2, <1>3
  <2> HIDE DEF n, t
  <2>2. Sealed(k, gs) = Entered(f, n - 1, LevelText(k, gs, n) \o Closing(gs[n].isArr))
    BY <2>1 DEF Sealed
  <2> QED
    BY <1>4, <2>2
<1>6. Entered(f, l, t) = h
  BY <1>4, EnteredIsMore
<1>7. /\ fr \in Seq(LevelType) /\ Len(fr) = l /\ \A m \in 1..l : fr[m] = w.fs[m]
      /\ f \in Seq(KidType) /\ Len(f) = l /\ \A m \in 1..l : f[m] = k[m]
  <2>1. w.fs # <<>> /\ k # <<>>
    BY <1>1, <1>2, <1>3, EmptySeq
  <2>2. fr \in Seq(LevelType) /\ Len(fr) = l /\ \A m \in 1..l : fr[m] = w.fs[m]
    BY <1>1, <2>1, FrontOK
  <2>3. /\ f \in Seq(KidType) /\ Len(f) = Len(k) - 1
        /\ \A m \in 1..Len(k) - 1 : f[m] = k[m]
    BY <1>3, <2>1, FrontOK
  <2> QED
    BY <1>3, <2>2, <2>3
<1>8. u.fs = fr /\ Bare(u.out) = Above(k, w.fs, l) \o t
  BY <1>2, PopText
<1> HIDE DEF t, f, u, fr
<1>9. /\ h \in Seq(KidType) /\ Len(h) = l
      /\ \A m \in 1..l :
            h[m].members = IF m = l THEN Append(f[m].members, t) ELSE f[m].members
  <2>1. l \in 1..Len(f)
    BY <1>2, <1>7
  <2>2. f \in Seq(KidType) /\ t \in Seq(Ink) /\ Len(f) = l
    BY <1>4, <1>7
  <2> HIDE DEF l, n
  <2>3. More(f, l, t) \in Seq(KidType) /\ Len(More(f, l, t)) = Len(f)
    BY <2>1, <2>2, MoreOK
  <2>4. \A m \in 1..Len(f) :
            More(f, l, t)[m].members =
                IF m = l THEN Append(f[m].members, t) ELSE f[m].members
    BY <2>1, <2>2, MoreOK
  <2> QED
    BY <2>2, <2>3, <2>4
<1>10. Above(f, fr, l) = Above(k, w.fs, l)
  <2>1. \A m \in 1..l : /\ fr[m].head = w.fs[m].head /\ fr[m].isArr = w.fs[m].isArr
                        /\ f[m].members = k[m].members
    BY <1>7
  <2>2. l \in Nat
    BY <1>2
  <2> HIDE DEF l, n
  <2> QED
    BY <2>1, <2>2, AboveSame
<1>11. Written(h, fr, l) = Above(f, fr, l) \o t
  <2>1. l \in 1..Len(fr) /\ Len(f) = Len(fr)
    BY <1>2, <1>7
  <2> QED
    BY <1>4, <1>7, <2>1, MoreWritten
<1> HIDE DEF h
<1>12. Sized(h, fr, l)
  <2>1. ASSUME NEW m \in 1..l
        PROVE  /\ fr[m].opened <=> m <= l
               /\ fr[m].n = Len(h[m].members) + (IF m < l THEN 1 ELSE 0)
    <3>1. m \in 1..n /\ m <= n /\ m < n /\ m <= l /\ m \in Nat
      BY <1>2
    <3>2. /\ w.fs[m].opened <=> m <= n
          /\ w.fs[m].n = Len(k[m].members) + (IF m < n THEN 1 ELSE 0)
      BY <1>1, <3>1 DEF Sized
    <3>3. Len(k[m].members) \in Nat /\ k[m].members \in Seq(Seq(Ink))
      BY <1>1, <3>1, SizedLevel
    <3> DEFINE ms == k[m].members
    <3>4. /\ fr[m].n = Len(ms) + 1 /\ Len(ms) \in Nat /\ ms \in Seq(Seq(Ink))
          /\ h[m].members = IF m = l THEN Append(ms, t) ELSE ms
      BY <1>7, <1>9, <3>1, <3>2, <3>3
    <3>5. fr[m].opened <=> m <= l
      BY <1>7, <3>1, <3>2
    <3> HIDE DEF ms
    <3>6. Len(Append(ms, t)) = Len(ms) + 1
      BY <1>4, <3>4, AppendProperties
    <3>7. CASE m = l
      <4>1. ~(m < l) /\ Len(h[m].members) = Len(ms) + 1
        BY <1>2, <3>4, <3>6, <3>7
      <4> QED
        BY <3>4, <3>5, <4>1
    <3>8. CASE m # l
      <4>1. m < l /\ h[m].members = ms
        BY <1>2, <3>1, <3>4, <3>8
      <4> QED
        BY <3>4, <3>5, <4>1
    <3> QED
      BY <3>7, <3>8
  <2>2. \A m \in l + 1..Len(fr) : h[m].members = <<>>
    <3>1. \A m \in l + 1..Len(fr) : FALSE
      BY <1>2, <1>7
    <3> QED
      BY <3>1
  <2>3. l \in 0..Len(fr)
    BY <1>2, <1>7
  <2> HIDE DEF l
  <2> QED
    BY <1>7, <1>9, <2>1, <2>2, <2>3 DEF Sized
<1>13. Grown(h, u, l)
  BY <1>8, <1>10, <1>11, <1>12 DEF Grown
<1> QED
  BY <1>5, <1>6, <1>13 DEF u

-----------------------------------------------------------------------------
(* The levels that exist and the levels that are open. *)

\* Level p is there for a reason, and none above it was asked to be.
Marked(k, p) ==
    /\ p > 0 => k[p].forced \/ k[p].members # <<>>
    /\ \A m \in p + 1..Len(k) : ~k[m].forced
Asked(k, w) == \E p : Grown(k, w, p) /\ Marked(k, p)

\* The levels that exist are the ones that are open.
LEMMA ExistsOpen ==
    ASSUME NEW k, NEW fs, NEW p, Sized(k, fs, p), Marked(k, p), NEW m \in Nat, m > 0
    PROVE  Exists(k, m) <=> m <= p
<1>1. Len(k) = Len(fs) /\ p \in 0..Len(fs) /\ Len(fs) \in Nat
  BY LenProperties DEF Sized
<1>2. CASE m <= p
  <2>1. p \in m..Len(k) /\ p > 0
    BY <1>1, <1>2
  <2> QED
    BY <1>2, <2>1 DEF Exists, Marked
<1>3. CASE ~(m <= p)
  <2>1. \A j \in m..Len(k) : j \in p + 1..Len(k) /\ j \in p + 1..Len(fs)
    BY <1>1, <1>3
  <2>2. \A j \in m..Len(k) : k[j].members = <<>>
    BY <2>1 DEF Sized
  <2>3. \A j \in m..Len(k) : ~k[j].forced
    BY <2>1 DEF Marked
  <2> QED
    BY <1>3, <2>2, <2>3 DEF Exists
<1> QED
  BY <1>2, <1>3

\* A level that was written in lets no level above it be open.
LEMMA MayWrite ==
    ASSUME NEW w, NEW k, NEW p, Sized(k, w.fs, p), NEW l \in 1..Len(w.fs),
           CanWriteAt(w, l)
    PROVE  p <= l
<1>1. p \in 0..Len(w.fs) /\ Len(w.fs) \in Nat
  BY LenProperties DEF Sized
<1> SUFFICES ASSUME ~(p <= l) PROVE FALSE
  OBVIOUS
<1>2. p \in l + 1..Len(w.fs) /\ p \in 1..Len(w.fs) /\ p <= p
  BY <1>1
<1>3. w.fs[p].opened
  BY <1>2 DEF Sized
<1> QED
  BY <1>2, <1>3 DEF CanWriteAt

LEMMA AskedEntry ==
    ASSUME NEW w \in Writer, NEW k, Asked(k, w), NEW l \in 1..Len(w.fs),
           CanWriteAt(w, l), NEW head \in Seq(Tokens)
    PROVE  Asked(Entered(k, l, head \o <<"v">>), Entry(w, l, head))
<1> DEFINE t == Bare(head \o <<"v">>)
           h == More(k, l, t)
<1>1. PICK p : Grown(k, w, p) /\ Marked(k, p)
  BY DEF Asked
<1>2. /\ Sized(k, w.fs, p) /\ p \in 0..Len(w.fs) /\ Len(w.fs) \in Nat
      /\ k \in Seq(KidType) /\ Len(k) = Len(w.fs)
  BY <1>1, LenProperties DEF Grown, Sized
<1>3. p <= l /\ l \in 1..Len(k) /\ l \in Nat
  <2>1. p <= l
    BY <1>2, MayWrite
  <2> QED
    BY <1>2, <2>1
<1>4. Grown(Entered(k, l, head \o <<"v">>), Entry(w, l, head), l)
  BY <1>1, EntryGrown
<1>5. t \in Seq(Ink)
  <2>1. head \o <<"v">> \in Seq(Tokens)
    BY Texts, ConcatProperties
  <2> QED
    BY <2>1, BareInk
<1>6. Entered(k, l, head \o <<"v">>) = h
  BY EnteredIsMore
<1> HIDE DEF t
<1>7. /\ Len(h) = Len(k)
      /\ \A m \in 1..Len(k) : h[m].forced = k[m].forced
      /\ h[l].members = Append(k[l].members, t)
  BY <1>2, <1>3, <1>5, MoreOK
<1> HIDE DEF h
<1>8. k[l].members \in Seq(Seq(Ink))
  BY <1>2, <1>3, SizedLevel
<1>9. h[l].members # <<>>
  BY <1>5, <1>7, <1>8, ListedMore
<1>10. \A m \in l + 1..Len(h) : ~h[m].forced
  <2>1. \A m \in l + 1..Len(h) : m \in p + 1..Len(k) /\ m \in 1..Len(k)
    BY <1>2, <1>3, <1>7
  <2> QED
    BY <1>1, <1>7, <2>1 DEF Marked
<1>11. Marked(h, l)
  BY <1>9, <1>10 DEF Marked
<1> QED
  BY <1>4, <1>6, <1>11 DEF Asked

\* A level more, not open yet.
LEMMA AskedPush ==
    ASSUME NEW w \in Writer, NEW k, Asked(k, w), NEW head \in Seq(Tokens),
           NEW arr \in BOOLEAN, NEW mine \in BOOLEAN
    PROVE  Asked(Append(k, NoKids), push(w, head, arr, mine))
<1> DEFINE f  == WFrame(head, arr, mine)
           gs == Append(w.fs, f)
           h  == Append(k, NoKids)
           u  == push(w, head, arr, mine)
           n  == Len(w.fs)
<1>1. PICK p : Grown(k, w, p) /\ Marked(k, p)
  BY DEF Asked
<1>2. /\ Sized(k, w.fs, p) /\ Bare(w.out) = Written(k, w.fs, p)
      /\ p \in 0..n /\ p \in Nat /\ n \in Nat
      /\ k \in Seq(KidType) /\ Len(k) = n /\ w.fs \in Seq(LevelType)
  <2>1. Sized(k, w.fs, p) /\ Bare(w.out) = Written(k, w.fs, p)
    BY <1>1 DEF Grown
  <2>2. p \in 0..n /\ k \in Seq(KidType) /\ Len(k) = n /\ w.fs \in Seq(LevelType)
    BY <2>1 DEF Sized
  <2>3. n \in Nat
    BY <2>2, LenProperties
  <2>4. p \in Nat
    BY <2>2, <2>3
  <2> QED
    BY <2>1, <2>2, <2>3, <2>4
<1>3. f \in LevelType /\ ~f.opened /\ f.n = 0
  BY NewLevel
<1>4. NoKids \in KidType /\ ~NoKids.forced /\ NoKids.members = <<>> /\ Len(NoKids.members) = 0
  <2>1. <<>> \in Seq(Seq(Ink))
    OBVIOUS
  <2> QED
    BY <2>1, Zenon DEF NoKids, KidType
<1>5. u.out = w.out /\ u.fs = gs
  BY DEF push, Writer
<1> HIDE DEF f, u
<1>6. /\ gs \in Seq(LevelType) /\ Len(gs) = n + 1 /\ gs[n + 1] = f
      /\ \A m \in 1..n : gs[m] = w.fs[m]
  BY <1>2, <1>3, AppendProperties
<1>7. /\ h \in Seq(KidType) /\ Len(h) = n + 1 /\ h[n + 1] = NoKids
      /\ \A m \in 1..n : h[m] = k[m]
  BY <1>2, <1>4, AppendProperties
<1> HIDE DEF gs, h
<1>8. Sized(h, gs, p)
  <2>1. ASSUME NEW m \in 1..n + 1
        PROVE  /\ gs[m].opened <=> m <= p
               /\ gs[m].n = Len(h[m].members) + (IF m < p THEN 1 ELSE 0)
    <3>1. CASE m \in 1..n
      BY <1>2, <1>6, <1>7, <3>1 DEF Sized
    <3>2. CASE m = n + 1
      <4>1. ~(m <= p) /\ ~(m < p)
        BY <1>2, <3>2
      <4> QED
        BY <1>3, <1>4, <1>6, <1>7, <3>2, <4>1
    <3>3. m \in 1..n \/ m = n + 1
      BY <1>2
    <3> QED
      BY <3>1, <3>2, <3>3
  <2>2. ASSUME NEW m \in p + 1..n + 1 PROVE h[m].members = <<>>
    <3>1. CASE m = n + 1
      BY <1>4, <1>7, <3>1
    <3>2. CASE m # n + 1
      <4>1. m \in p + 1..n /\ m \in 1..n
        BY <1>2, <3>2
      <4> QED
        BY <1>2, <1>7, <4>1 DEF Sized
    <3> QED
      BY <3>1, <3>2
  <2>3. p \in 0..n + 1
    BY <1>2
  <2> QED
    BY <1>6, <1>7, <2>1, <2>2, <2>3 DEF Sized
<1>9. Written(h, gs, p) = Written(k, w.fs, p)
  <2>1. \A m \in 1..p : m \in 1..n
    BY <1>2
  <2>2. \A m \in 1..p : /\ gs[m].head = w.fs[m].head /\ gs[m].isArr = w.fs[m].isArr
                        /\ h[m].members = k[m].members
    BY <1>6, <1>7, <2>1
  <2> QED
    BY <1>2, <2>2, WrittenSame
<1>10. Grown(h, u, p)
  BY <1>2, <1>5, <1>8, <1>9 DEF Grown
<1>11. Marked(h, p)
  <2>1. p > 0 => h[p].forced \/ h[p].members # <<>>
    <3>1. p > 0 => p \in 1..n
      BY <1>2
    <3> QED
      BY <1>1, <1>7, <3>1 DEF Marked
  <2>2. ASSUME NEW m \in p + 1..n + 1 PROVE ~h[m].forced
    <3>1. CASE m = n + 1
      BY <1>4, <1>7, <3>1
    <3>2. CASE m # n + 1
      <4>1. m \in p + 1..Len(k) /\ m \in 1..n
        BY <1>2, <3>2
      <4> QED
        BY <1>1, <1>7, <4>1 DEF Marked
    <3> QED
      BY <3>1, <3>2
  <2> QED
    BY <1>7, <2>1, <2>2 DEF Marked
<1> QED
  BY <1>10, <1>11 DEF Asked, h, u

\* The whitespace after a member is no part of the text.
LEMMA AskedTrail ==
    ASSUME NEW w \in Writer, NEW k, Asked(k, w), NEW ws \in Spaces
    PROVE  Asked(k, trailWs(w, ws))
<1>1. PICK p : Grown(k, w, p) /\ Marked(k, p)
  BY DEF Asked
<1>2. /\ Sized(k, w.fs, p) /\ Bare(w.out) = Written(k, w.fs, p) /\ p \in Nat
      /\ w.fs \in Seq(LevelType) /\ Len(w.fs) \in Nat /\ p \in 0..Len(w.fs)
  <2>1. Sized(k, w.fs, p) /\ Bare(w.out) = Written(k, w.fs, p)
    BY <1>1 DEF Grown
  <2>2. p \in 0..Len(w.fs) /\ w.fs \in Seq(LevelType)
    BY <2>1 DEF Sized
  <2>3. Len(w.fs) \in Nat
    BY <2>2, LenProperties
  <2>4. p \in Nat
    BY <2>2, <2>3
  <2> QED
    BY <2>1, <2>2, <2>3, <2>4
<1>3. CASE w.fs = <<>>
  BY <1>3 DEF trailWs
<1>4. CASE w.fs # <<>>
  <2> DEFINE l  == Len(w.fs)
             f  == w.fs[l]
             g  == [f EXCEPT !.trail = ws]
             gs == [w.fs EXCEPT ![l] = g]
             u  == trailWs(w, ws)
  <2>1. u = [w EXCEPT !.fs = gs]
    BY <1>4 DEF trailWs
  <2>2. l \in 1..Len(w.fs)
    BY <1>2, <1>4, EmptySeq
  <2>3. f \in LevelType
    BY <1>2, <2>2, ElementOfSeq
  <2>4. /\ g \in LevelType /\ g.opened = f.opened /\ g.n = f.n
        /\ g.head = f.head /\ g.isArr = f.isArr
    <3> HIDE DEF f
    <3> QED
      BY <2>3 DEF LevelType
  <2> HIDE DEF g, l, u
  <2>5. Replaces(gs, w.fs, l, g)
    BY <1>2, <2>2, <2>4, Replaced
  <2> HIDE DEF gs
  <2>6. u.fs = gs /\ u.out = w.out
    BY <2>1, <2>5 DEF Writer, Replaces
  <2>7. /\ gs \in Seq(LevelType) /\ Len(gs) = Len(w.fs)
        /\ \A j \in 1..Len(w.fs) : /\ gs[j].opened = w.fs[j].opened
                                   /\ gs[j].n = w.fs[j].n /\ gs[j].head = w.fs[j].head
                                   /\ gs[j].isArr = w.fs[j].isArr
    BY <2>2, <2>4, <2>5 DEF Replaces
  <2>8. Sized(k, gs, p)
    BY <1>2, <2>7 DEF Sized
  <2>9. Written(k, gs, p) = Written(k, w.fs, p)
    <3>1. \A m \in 1..p : m \in 1..Len(w.fs)
      BY <1>2
    <3>2. \A m \in 1..p : /\ gs[m].head = w.fs[m].head /\ gs[m].isArr = w.fs[m].isArr
                          /\ k[m].members = k[m].members
      BY <2>7, <3>1
    <3> QED
      BY <1>2, <3>2, WrittenSame
  <2>10. Grown(k, u, p)
    BY <1>2, <2>6, <2>8, <2>9 DEF Grown
  <2> QED
    BY <1>1, <2>10 DEF Asked, u
<1> QED
  BY <1>3, <1>4

LEMMA ForcedOK ==
    ASSUME NEW k \in Seq(KidType), NEW l \in 1..Len(k)
    PROVE  /\ Forced(k, l) \in Seq(KidType) /\ Len(Forced(k, l)) = Len(k)
           /\ Forced(k, l)[l].forced
           /\ \A m \in 1..Len(k) :
                 /\ m # l => Forced(k, l)[m] = k[m]
                 /\ Forced(k, l)[m].members = k[m].members
<1> DEFINE f == k[l]
           x == [f EXCEPT !.forced = TRUE]
           h == [k EXCEPT ![l] = x]
<1>1. f \in KidType
  BY ElementOfSeq
<1>2. Forced(k, l) = h
  BY Zenon DEF Forced
<1>3. x \in KidType /\ x.members = f.members /\ x.forced
  <2> HIDE DEF f
  <2> QED
    BY <1>1, Zenon DEF KidType
<1> HIDE DEF x
<1>4. /\ h \in Seq(KidType) /\ Len(h) = Len(k)
      /\ \A m \in 1..Len(k) : h[m] = IF m = l THEN x ELSE k[m]
  BY <1>3, ExceptSeq
<1> HIDE DEF h
<1>5. h[l] = x
  BY <1>4
<1>6. \A m \in 1..Len(k) : /\ m # l => h[m] = k[m]
                           /\ h[m].members = k[m].members
  BY <1>3, <1>4
<1>7. h[l].forced
  BY <1>3, <1>5, Zenon
<1> QED
  BY <1>2, <1>4, <1>6, <1>7

\* A level that is forced open.
LEMMA AskedForced ==
    ASSUME NEW w \in Writer, NEW k, Asked(k, w), Len(w.fs) > 0
    PROVE  /\ ensureOpen(w, Len(w.fs)) \in Writer
           /\ SameNames(ensureOpen(w, Len(w.fs)).fs, w.fs)
           /\ Grown(Forced(k, Len(w.fs)), ensureOpen(w, Len(w.fs)), Len(w.fs))
           /\ Marked(Forced(k, Len(w.fs)), Len(w.fs))
           /\ Asked(Forced(k, Len(w.fs)), ensureOpen(w, Len(w.fs)))
<1> DEFINE n == Len(w.fs)
           e == ensureOpen(w, n)
           h == Forced(k, n)
<1>1. PICK p : Grown(k, w, p) /\ Marked(k, p)
  BY DEF Asked
<1>2. p \in 0..n /\ k \in Seq(KidType) /\ Len(k) = n /\ w.fs \in Seq(LevelType)
  BY <1>1 DEF Grown, Sized
<1>3. n \in Nat /\ n \in 1..n
  <2>1. n \in Nat
    BY <1>2, LenProperties
  <2> QED
    BY <2>1
<1>4. Outer(p, n) = n
  BY <1>2, <1>3 DEF Outer
<1>5. e \in Writer /\ Grown(k, e, n) /\ SameNames(e.fs, w.fs)
  <2>1. e \in Writer /\ Grown(k, e, Outer(p, n)) /\ SameNames(e.fs, w.fs)
    BY <1>1, <1>3, EnsureGrown
  <2> QED
    BY <1>4, <2>1
<1>6. /\ h \in Seq(KidType) /\ Len(h) = n /\ h[n].forced
      /\ \A m \in 1..n : h[m].members = k[m].members
  BY <1>2, <1>3, ForcedOK
<1> HIDE DEF e, h
<1>7. /\ Sized(k, e.fs, n) /\ Bare(e.out) = Written(k, e.fs, n) /\ Len(e.fs) = n
  BY <1>5 DEF Grown, SameNames
<1>8. Sized(h, e.fs, n)
  <2>1. \A m \in n + 1..Len(e.fs) : FALSE
    BY <1>3, <1>7
  <2> HIDE DEF n
  <2> QED
    BY <1>6, <1>7, <2>1 DEF Sized
<1>9. Written(h, e.fs, n) = Written(k, e.fs, n)
  <2>1. \A m \in 1..n : /\ e.fs[m].head = e.fs[m].head /\ e.fs[m].isArr = e.fs[m].isArr
                        /\ h[m].members = k[m].members
    BY <1>6
  <2> QED
    BY <1>3, <2>1, WrittenSame
<1>10. Grown(h, e, n)
  BY <1>7, <1>8, <1>9 DEF Grown
<1>11. Marked(h, n)
  <2>1. \A m \in n + 1..Len(h) : FALSE
    BY <1>3, <1>6
  <2> QED
    BY <1>6, <2>1 DEF Marked
<1>12. Asked(h, e)
  BY <1>10, <1>11 DEF Asked
<1> QED
  BY <1>5, <1>10, <1>11, <1>12 DEF e, h

\* A level is left.
LEMMA AskedLeave ==
    ASSUME NEW w \in Writer, NEW k, Asked(k, w), Len(w.fs) > 1,
           NEW ws \in Spaces, NEW gs, SameNames(w.fs, gs)
    PROVE  Asked(Sealed(k, gs), pop(w, ws))
<1> DEFINE n == Len(w.fs)
           l == n - 1
           u == pop(w, ws)
           h == Sealed(k, gs)
<1>1. PICK p : Grown(k, w, p) /\ Marked(k, p)
  BY DEF Asked
<1>2. /\ Sized(k, w.fs, p) /\ p \in 0..n /\ k \in Seq(KidType) /\ Len(k) = n
      /\ w.fs \in Seq(LevelType)
  BY <1>1 DEF Grown, Sized
<1>3. /\ n \in Nat /\ n \in 1..n /\ l \in Nat /\ l \in 1..n /\ l > 0 /\ p \in Nat
      /\ n > 0 /\ n # 1 /\ l < n
  <2>1. n \in Nat /\ n > 1
    BY <1>2, LenProperties
  <2> HIDE DEF n
  <2> QED
    BY <1>2, <2>1
<1>4. Exists(k, n) <=> n <= p
  BY <1>1, <1>2, <1>3, ExistsOpen
<1>5. CASE p = n
  <2>1. Exists(k, Len(k))
    BY <1>2, <1>3, <1>4, <1>5
  <2>2. Grown(h, u, l)
    BY <1>1, <1>5, <2>1, PopGrown
  <2>3. u.fs = Front(w.fs)
    BY <1>1, <1>3, <1>5, PopText
  <2>4. Len(u.fs) = l /\ u.fs[l] = w.fs[l]
    <3>1. w.fs # <<>>
      BY <1>2, <1>3, EmptySeq
    <3>2. /\ Len(Front(w.fs)) = Len(w.fs) - 1
          /\ \A j \in 1..Len(w.fs) - 1 : Front(w.fs)[j] = w.fs[j]
      BY <1>2, <3>1, FrontOK
    <3>3. l \in 1..Len(w.fs) - 1
      BY <1>3
    <3> QED
      BY <2>3, <3>2, <3>3
  <2> HIDE DEF h, u
  <2>5. Sized(h, u.fs, l) /\ Len(h) = l
    BY <2>2, <2>4 DEF Grown, Sized
  <2>6. /\ Len(k[l].members) \in Nat
        /\ w.fs[l].n = Len(k[l].members) + (IF l < n THEN 1 ELSE 0)
    <3>1. Len(k[l].members) \in Nat
      BY <1>2, <1>3, SizedLevel
    <3>2. w.fs[l].n = Len(k[l].members) + (IF l < p THEN 1 ELSE 0)
      BY <1>2, <1>3 DEF Sized
    <3> QED
      BY <1>5, <3>1, <3>2
  <2>7. l \in 1..Len(u.fs)
    BY <1>3, <2>4
  <2>8. /\ h[l].members = <<>> <=> Len(h[l].members) = 0
        /\ Len(h[l].members) \in Nat
    BY <2>5, <2>7, SizedLevel
  <2>9. u.fs[l].n = Len(h[l].members) + (IF l < l THEN 1 ELSE 0)
    BY <2>5, <2>7 DEF Sized
  <2>10. h[l].members # <<>>
    <3> DEFINE c == Len(k[l].members)
               d == Len(h[l].members)
    <3>1. w.fs[l].n = c + 1 /\ w.fs[l].n = d
      <4>1. ~(l < l)
        BY <1>3
      <4>2. u.fs[l].n = d + 0
        BY <2>9, <4>1
      <4> QED
        BY <1>3, <2>4, <2>6, <2>8, <4>2
    <3>2. c \in Nat /\ (h[l].members = <<>> <=> d = 0)
      BY <2>6, <2>8
    <3> HIDE DEF c, d
    <3> QED
      BY <3>1, <3>2
  <2>11. Marked(h, l)
    <3>1. \A m \in l + 1..Len(h) : FALSE
      BY <1>3, <2>5
    <3> QED
      BY <2>10, <3>1 DEF Marked
  <2> QED
    BY <2>2, <2>11 DEF Asked, h, u
<1>6. CASE p # n
  <2>1. p < n /\ ~(n <= p)
    BY <1>2, <1>3, <1>6
  <2>2. h = Front(k)
    <3>1. ~Exists(k, Len(k)) /\ Len(k) # 1
      BY <1>2, <1>3, <1>4, <2>1
    <3> QED
      BY <3>1 DEF Sealed
  <2>3. Grown(Front(k), u, p)
    BY <1>1, <2>1, PopShutGrown
  <2>4. /\ Len(Front(k)) = l /\ \A m \in 1..l : Front(k)[m] = k[m]
    <3>1. k # <<>>
      BY <1>2, <1>3, EmptySeq
    <3>2. /\ Len(Front(k)) = Len(k) - 1
          /\ \A j \in 1..Len(k) - 1 : Front(k)[j] = k[j]
      BY <1>2, <3>1, FrontOK
    <3> QED
      BY <1>2, <3>2
  <2>5. Marked(Front(k), p)
    <3>1. p > 0 => p \in 1..l
      BY <1>3, <2>1
    <3>2. \A m \in p + 1..l : m \in 1..l /\ m \in p + 1..Len(k)
      BY <1>2, <1>3, <2>1
    <3>3. p > 0 => Front(k)[p].forced \/ Front(k)[p].members # <<>>
      BY <1>1, <2>4, <3>1 DEF Marked
    <3>4. \A m \in p + 1..l : ~Front(k)[m].forced
      BY <1>1, <2>4, <3>2 DEF Marked
    <3> QED
      BY <2>4, <3>3, <3>4 DEF Marked
  <2> QED
    BY <2>2, <2>3, <2>5 DEF Asked
<1> QED
  BY <1>5, <1>6

-----------------------------------------------------------------------------
(* The output and the text of the tree. *)

\* The text of one level.
LEMMA LevelWritten ==
    ASSUME NEW fs, NEW k, NEW p, Sized(k, fs, p), Marked(k, p), NEW m \in 1..Len(fs)
    PROVE  LevelText(k, fs, m) = IF m < p THEN Full(k, fs, m)
                                 ELSE IF m = p THEN Body(k, fs, m) ELSE <<>>
<1>1. /\ p \in 0..Len(fs) /\ k \in Seq(KidType) /\ Len(k) = Len(fs)
      /\ fs \in Seq(LevelType) /\ m \in Nat /\ m > 0 /\ m + 1 \in Nat /\ m + 1 > 0
  BY LenProperties DEF Sized
<1>2. p \in Nat
  BY <1>1, LenProperties
<1>3. /\ Exists(k, m) <=> m <= p
      /\ Exists(k, m + 1) <=> m + 1 <= p
  BY <1>1, ExistsOpen
<1>4. Body(k, fs, m) \in Seq(Ink)
  BY <1>1, BodyOK
<1>5. CASE m < p
  <2>1. Exists(k, m) /\ Exists(k, m + 1)
    BY <1>1, <1>2, <1>3, <1>5
  <2> QED
    BY <1>5, <2>1 DEF LevelText, Full, Body, Comma1
<1>6. CASE m = p
  <2>1. Exists(k, m) /\ ~Exists(k, m + 1) /\ ~(m < p)
    BY <1>1, <1>2, <1>3, <1>6
  <2>2. LevelText(k, fs, m) = Body(k, fs, m) \o <<>>
    BY <2>1 DEF LevelText, Body
  <2>3. Body(k, fs, m) \o <<>> = Body(k, fs, m)
    BY <1>4, ConcatEmptySeq
  <2> QED
    BY <1>6, <2>1, <2>2, <2>3
<1>7. CASE m > p
  <2>1. ~Exists(k, m) /\ ~(m < p) /\ m # p
    BY <1>1, <1>2, <1>3, <1>7
  <2> QED
    BY <2>1 DEF LevelText
<1> QED
  BY <1>1, <1>2, <1>5, <1>6, <1>7

\* What is written of the levels that are open is the text of all of them.
LEMMA AskedText ==
    ASSUME NEW w, NEW k, Asked(k, w)
    PROVE  Bare(w.out) = Text(k, w.fs)
<1> DEFINE fs == w.fs
           n  == Len(fs)
<1>1. PICK p : Grown(k, w, p) /\ Marked(k, p)
  BY DEF Asked
<1>2. /\ Sized(k, fs, p) /\ p \in 0..n /\ k \in Seq(KidType) /\ Len(k) = n
      /\ fs \in Seq(LevelType)
  BY <1>1 DEF Grown, Sized
<1>3. n \in Nat /\ p \in Nat
  BY <1>2, LenProperties
<1> DEFINE s == [l \in 1..n |-> LevelText(k, fs, l)]
           q == [m \in 0..n |-> IF m < p THEN Above(k, fs, m) ELSE Written(k, fs, p)]
<1>4. \A m \in 1..n : /\ Full(k, fs, m) \in Seq(Ink) /\ Body(k, fs, m) \in Seq(Ink)
                      /\ <<>> \in Seq(Ink)
  BY <1>2, BodyOK, BareTokens
<1>5. \A m \in 1..n : s[m] = IF m < p THEN Full(k, fs, m)
                             ELSE IF m = p THEN Body(k, fs, m) ELSE <<>>
  BY <1>1, <1>2, LevelWritten
<1>6. s \in Seq(Seq(Ink)) /\ Len(s) = n
  <2>1. \A m \in 1..n : s[m] \in Seq(Ink)
    BY <1>4, <1>5
  <2>2. s = [m \in 1..n |-> s[m]]
    OBVIOUS
  <2> HIDE DEF s, n
  <2>3. s \in [1..n -> Seq(Ink)]
    BY <2>1, <2>2
  <2>4. s \in Seq(Seq(Ink))
    BY <1>3, <2>3
  <2> QED
    BY <1>3, <2>3, <2>4
<1>7. Text(k, fs) = FlattenSeq(s)
  BY <1>2 DEF Text
<1>8. \A m \in 0..n : q[m] = IF m < p THEN Above(k, fs, m) ELSE Written(k, fs, p)
  OBVIOUS
<1> HIDE DEF s, q, fs, n
<1>9. \A m \in Nat : m <= n =>
          /\ Above(k, fs, m) \in Seq(Ink)
          /\ m = 0 => Above(k, fs, m) = <<>>
          /\ m > 0 => Above(k, fs, m) = Above(k, fs, m - 1) \o Full(k, fs, m)
  <2> TAKE m \in Nat
  <2> HAVE m <= n
  <2>1. m <= Len(fs) /\ m <= Len(k)
    BY <1>2 DEF n
  <2> QED
    BY <1>2, <2>1, AboveOK
<1>10. Written(k, fs, p) \in Seq(Ink) /\ (p = 0 => Written(k, fs, p) = <<>>)
  <2>1. CASE p = 0
    BY <2>1, BareTokens DEF Written
  <2>2. CASE p # 0
    <3>1. p - 1 \in Nat /\ p - 1 <= n /\ p \in 1..n
      BY <1>2, <1>3, <2>2
    <3>2. Above(k, fs, p - 1) \in Seq(Ink) /\ Body(k, fs, p) \in Seq(Ink)
      BY <1>4, <1>9, <3>1
    <3> QED
      BY <2>2, <3>2, InkJoins DEF Written
  <2> QED
    BY <2>1, <2>2
<1>11. q[0] = <<>>
  <2>1. 0 \in 0..n /\ 0 \in Nat /\ 0 <= n
    BY <1>3
  <2>2. CASE 0 < p
    BY <1>8, <1>9, <2>1, <2>2
  <2>3. CASE ~(0 < p)
    <3>1. p = 0
      BY <1>3, <2>3
    <3> QED
      BY <1>8, <1>10, <2>1, <2>3, <3>1
  <2> QED
    BY <2>2, <2>3
<1>12. \A m \in 0..n : q[m] \in Seq(Ink)
  <2> TAKE m \in 0..n
  <2>1. m \in Nat /\ m <= n
    BY <1>3
  <2> QED
    BY <1>8, <1>9, <1>10, <2>1
<1>13. ASSUME NEW m \in 1..n PROVE q[m] = q[m - 1] \o s[m]
  <2>1. /\ m \in Nat /\ m > 0 /\ m <= n /\ m - 1 \in 0..n /\ m \in 0..n
        /\ m - 1 \in Nat
    BY <1>3
  <2>2. CASE m < p
    <3>1. m - 1 < p
      BY <1>3, <2>1, <2>2
    <3> QED
      BY <1>5, <1>8, <1>9, <2>1, <2>2, <3>1
  <2>3. CASE m = p
    <3>1. m - 1 < p /\ ~(m < p) /\ p # 0
      BY <1>3, <2>1, <2>3
    <3>2. q[m - 1] = Above(k, fs, p - 1) /\ q[m] = Written(k, fs, p)
      BY <1>8, <2>1, <2>3, <3>1
    <3>3. s[m] = Body(k, fs, p)
      BY <1>5, <2>3, <3>1
    <3> QED
      BY <3>1, <3>2, <3>3 DEF Written
  <2>4. CASE m > p
    <3>1. ~(m - 1 < p) /\ ~(m < p) /\ m # p
      BY <1>3, <2>1, <2>4
    <3>2. q[m - 1] = Written(k, fs, p) /\ q[m] = Written(k, fs, p)
      BY <1>8, <2>1, <3>1
    <3>3. s[m] = <<>>
      BY <1>5, <3>1
    <3>4. Written(k, fs, p) \o <<>> = Written(k, fs, p)
      BY <1>10, ConcatEmptySeq
    <3> QED
      BY <3>2, <3>3, <3>4
  <2>5. m < p \/ m = p \/ m > p
    BY <1>3, <2>1
  <2> QED
    BY <2>2, <2>3, <2>4, <2>5
<1>14. Runs(q, s, Ink)
  BY <1>6, <1>11, <1>12, <1>13 DEF Runs, RunsTo
<1>15. FlattenSeq(s) = q[n]
  BY <1>6, <1>14, FlattenIs
<1>16. q[n] = Written(k, fs, p)
  <2>1. n \in 0..n /\ ~(n < p)
    BY <1>2, <1>3
  <2> QED
    BY <1>8, <2>1
<1>17. Bare(w.out) = Written(k, fs, p)
  BY <1>1 DEF Grown, fs
<1> QED
  BY <1>7, <1>15, <1>16, <1>17 DEF fs

-----------------------------------------------------------------------------
(* The tree and the steps. *)

\* The output is the text of what was asked for.
TreeInv ==
    IF root = "finished" THEN Bare(out) = Listed(kids[1].members)
    ELSE Asked(kids, W)

LEMMA BecomesW ==
    ASSUME NEW u \in Writer, out' = u.out, levels' = u.fs
    PROVE  W' = u
BY DEF W, Writer

LEMMA TreeKept ==
    ASSUME root' # "finished", Asked(kids', W')
    PROVE  TreeInv'
BY DEF TreeInv

LEMMA Unwritten ==
    ASSUME TreeInv, root' = root, out' = out, levels' = levels, kids' = kids
    PROVE  TreeInv'
BY DEF TreeInv, W

LEMMA RootTree ==
    ASSUME IInv, TreeInv, NEW ws \in Spaces, NEW arr \in BOOLEAN, Root(ws, arr)
    PROVE  TreeInv'
<1> DEFINE w == [W EXCEPT !.out = @ \o ws]
           u == push(w, <<>>, arr, FALSE)
<1>1. /\ root = "none" /\ root' = "open" /\ out' = u.out /\ levels' = u.fs
      /\ kids' = <<NoKids>>
  BY DEF Root, Becomes
<1>2. TypesOK /\ W \in Writer /\ W.fs = levels /\ W.out = out /\ levels = <<>>
      /\ out \in Seq(Tokens) /\ Shape(levels)
  BY <1>1, WriterOK DEF IInv, InStep, TypesOK
<1>3. ws \in Seq(Tokens) /\ <<>> \in Seq(Tokens) /\ FALSE \in BOOLEAN /\ Bare(ws) = <<>>
  BY Texts, BareTokens
<1>4. out \o ws \in Seq(Tokens)
  BY <1>2, <1>3, ConcatProperties
<1>5. w \in Writer /\ w.fs = levels /\ w.out = out \o ws
  BY <1>2, <1>4 DEF Writer
<1> HIDE DEF w
<1>6. PICK p : Grown(kids, W, p) /\ Marked(kids, p)
  BY <1>1 DEF TreeInv, Asked
<1>7. Sized(kids, levels, p) /\ Bare(out) = Written(kids, levels, p)
  BY <1>2, <1>6 DEF Grown
<1>8. Bare(out \o ws) = Bare(out)
  <2>1. Bare(out \o ws) = Bare(out) \o <<>> /\ Bare(out) \in Seq(Ink)
    BY <1>2, <1>3, BareJoined, BareInk
  <2> QED
    BY <2>1, ConcatEmptySeq
<1>9. Asked(kids, w)
  BY <1>5, <1>6, <1>7, <1>8 DEF Asked, Grown
<1>10. Asked(Append(kids, NoKids), u)
  BY <1>3, <1>5, <1>9, AskedPush
<1>11. Append(kids, NoKids) = <<NoKids>>
  <2>1. kids \in Seq(KidType) /\ Len(kids) = 0
    BY <1>2, <1>7 DEF Sized
  <2>2. kids = <<>>
    BY <2>1, EmptySeq
  <2> QED
    BY <2>2
<1>12. u \in Writer
  BY <1>2, <1>3, <1>5, PushOK
<1> HIDE DEF u
<1>13. W' = u
  BY <1>1, <1>12, BecomesW
<1> QED
  BY <1>1, <1>10, <1>11, <1>13, TreeKept

LEMMA DropTree ==
    ASSUME TreeInv, NEW ws, Drop(ws)
    PROVE  TreeInv'
<1>1. root' = root /\ out' = out /\ levels' = levels /\ kids' = kids
  BY DEF Drop
<1> QED
  BY <1>1, Unwritten

LEMMA EntryTree ==
    ASSUME IInv, TreeInv, root \in {"open", "done"}, root' = root,
           NEW l \in DOMAIN levels, CanWriteAt(W, l), NEW head \in Seq(Tokens),
           Becomes(Entry(W, l, head)), kids' = Entered(kids, l, head \o <<"v">>)
    PROVE  TreeInv'
<1> DEFINE u == Entry(W, l, head)
<1>1. /\ TypesOK /\ W \in Writer /\ W.fs = levels /\ Shape(W.fs)
      /\ levels \in Seq(LevelType)
  BY Standing
<1>2. l \in 1..Len(W.fs)
  BY <1>1, LenProperties
<1>3. u \in Writer
  BY <1>1, <1>2, EntryOK
<1>4. Asked(kids, W)
  BY DEF TreeInv
<1>5. Asked(kids', u)
  BY <1>1, <1>2, <1>4, AskedEntry
<1>6. out' = u.out /\ levels' = u.fs
  BY DEF Becomes
<1> HIDE DEF u
<1>7. W' = u
  BY <1>3, <1>6, BecomesW
<1> QED
  BY <1>5, <1>7, TreeKept

LEMMA PassAtTree ==
    ASSUME IInv, TreeInv, NEW ws \in Spaces, NEW l \in DOMAIN levels,
           NEW renamed \in BOOLEAN, PassAt(ws, l, renamed)
    PROVE  TreeInv'
<1> DEFINE head == HeadAs(ws, renamed)
<1>1. root = "open" /\ root' = root
  BY DEF PassAt, ValueMay
<1>2. head \in Seq(Tokens)
  BY HeadOK
<1>3. CASE CanWriteAt(W, l)
  <2>1. Becomes(Entry(W, l, head)) /\ kids' = Entered(kids, l, head \o <<"v">>)
    BY <1>3 DEF PassAt
  <2> HIDE DEF head
  <2> QED
    BY <1>1, <1>2, <1>3, <2>1, EntryTree
<1>4. CASE ~CanWriteAt(W, l)
  <2>1. out' = out /\ levels' = levels /\ kids' = kids
    BY <1>4 DEF PassAt
  <2> QED
    BY <1>1, <2>1, Unwritten
<1> QED
  BY <1>3, <1>4

\* A level registered on the stack.
LEMMA PushTree ==
    ASSUME IInv, TreeInv, root \in {"open", "done"}, root' = root,
           NEW head \in Seq(Tokens), NEW arr \in BOOLEAN, NEW mine \in BOOLEAN,
           out' = out, levels' = push(W, head, arr, mine).fs,
           kids' = Append(kids, NoKids)
    PROVE  TreeInv'
<1> DEFINE u == push(W, head, arr, mine)
<1>1. W \in Writer /\ W.fs = levels /\ W.out = out /\ Shape(W.fs)
  BY Standing
<1>2. u \in Writer /\ u.out = out
  BY <1>1, PushOK
<1>3. Asked(kids, W)
  BY DEF TreeInv
<1>4. Asked(kids', u)
  BY <1>1, <1>3, AskedPush
<1> HIDE DEF u
<1>5. W' = u
  BY <1>2, BecomesW DEF u
<1> QED
  BY <1>4, <1>5, TreeKept

LEMMA EnterTree ==
    ASSUME IInv, TreeInv, NEW ws \in Spaces, NEW arr \in BOOLEAN,
           NEW flat \in BOOLEAN, NEW lazy \in BOOLEAN, NEW renamed \in BOOLEAN,
           Enter(ws, arr, flat, lazy, renamed)
    PROVE  TreeInv'
<1>1. root = "open" /\ root' = root /\ out' = out
  BY DEF Enter, ValueMay
<1>2. CASE flat
  <2>1. levels' = levels /\ kids' = kids
    BY <1>2 DEF Enter
  <2> QED
    BY <1>1, <2>1, Unwritten
<1>3. CASE ~flat
  <2> DEFINE head == HeadAs(ws, renamed)
  <2>1. levels' = push(W, head, arr, FALSE).fs /\ kids' = Append(kids, NoKids)
    BY <1>3 DEF Enter
  <2>2. head \in Seq(Tokens) /\ FALSE \in BOOLEAN
    BY HeadOK
  <2> HIDE DEF head
  <2> QED
    BY <1>1, <2>1, <2>2, PushTree
<1> QED
  BY <1>2, <1>3

LEMMA CommaTree ==
    ASSUME IInv, TreeInv, NEW ws \in Spaces, Comma(ws)
    PROVE  TreeInv'
<1> DEFINE u == trailWs(W, ws)
<1>1. root = "open" /\ root' = root /\ out' = u.out /\ levels' = u.fs /\ kids' = kids
  BY DEF Comma, Becomes
<1>2. W \in Writer /\ Shape(W.fs)
  BY <1>1, Standing
<1>3. u \in Writer
  BY <1>2, TrailOK
<1>4. Asked(kids, W)
  BY <1>1 DEF TreeInv
<1>5. Asked(kids', u)
  BY <1>1, <1>2, <1>4, AskedTrail
<1> HIDE DEF u
<1>6. W' = u
  BY <1>1, <1>3, BecomesW
<1> QED
  BY <1>1, <1>5, <1>6, TreeKept

\* The innermost level is left, forced open or not.
LEMMA LeaveTree ==
    ASSUME NEW w \in Writer, Shape(w.fs), NEW k, Asked(k, w), Len(w.fs) > 1,
           NEW lazy \in BOOLEAN, NEW ws \in Spaces, NEW h,
           h = IF lazy THEN k ELSE Forced(k, Len(w.fs))
    PROVE  /\ LeaveLevel(w, lazy, ws) \in Writer
           /\ Asked(Sealed(h, w.fs), LeaveLevel(w, lazy, ws))
<1> DEFINE e == IF lazy THEN w ELSE ensureOpen(w, Len(w.fs))
<1>1. w.fs \in Seq(LevelType) /\ w.fs # <<>>
  BY EmptySeq DEF Writer
<1>2. LeaveLevel(w, lazy, ws) \in Writer
  BY <1>1, LeaveOK
<1>3. e \in Writer /\ Asked(h, e) /\ SameNames(e.fs, w.fs)
  <2>1. CASE lazy
    BY <2>1 DEF SameNames
  <2>2. CASE ~lazy
    <3>1. Len(w.fs) > 0
      BY <1>1, LenProperties
    <3> QED
      BY <2>2, <3>1, AskedForced
  <2> QED
    BY <2>1, <2>2
<1>4. LeaveLevel(w, lazy, ws) = pop(e, ws)
  BY DEF LeaveLevel
<1> HIDE DEF e
<1>5. Len(e.fs) > 1
  BY <1>3 DEF SameNames
<1> QED
  BY <1>2, <1>3, <1>4, <1>5, AskedLeave

LEMMA CloseTree ==
    ASSUME IInv, IInv', TreeInv, NEW ws \in Spaces, Close(ws)
    PROVE  TreeInv'
<1>1. root = "open" /\ root' \in {"open", "done"}
  BY DEF Close
<1>2. /\ TypesOK /\ W \in Writer /\ W.fs = levels /\ Shape(W.fs)
      /\ levels \in Seq(LevelType) /\ levels # <<>> /\ Len(levels) \in Nat
      /\ Len(kids) = Len(levels)
  BY <1>1, Standing
<1>3. Asked(kids, W)
  BY <1>1 DEF TreeInv
<1>4. CASE out' = out /\ levels' = levels /\ kids' = kids
  BY <1>1, <1>3, <1>4 DEF TreeInv, W
<1>5. CASE Len(frames) # 1 /\ ~Top.flat
  <2> DEFINE u == LeaveLevel(W, Top.lazy, ws)
             h == IF Top.lazy THEN kids ELSE Forced(kids, Len(kids))
  <2>1. /\ root' = root /\ out' = u.out /\ levels' = u.fs /\ kids' = Sealed(h, levels)
    BY <1>5 DEF Close, Becomes
  <2>2. Top.lazy \in BOOLEAN
    <3>1. frames \in Seq(FrameType) /\ frames # <<>>
      BY <1>1, <1>2 DEF IInv, InStep, TypesOK
    <3>2. Top \in FrameType
      BY <3>1, FrontOK DEF Top
    <3> QED
      BY <3>2 DEF FrameType
  <2>3. u \in Writer /\ SameHands(u.fs, Front(W.fs))
    BY <1>2, <2>2, LeaveOK
  <2>4. Len(levels') = Len(levels) - 1
    <3>1. Len(Front(levels)) = Len(levels) - 1
      BY <1>2, FrontOK
    <3> QED
      BY <1>2, <2>1, <2>3, <3>1 DEF SameHands
  <2>5. Len(levels') >= 1
    BY <1>1, <2>1 DEF IInv, InStep
  <2>6. Len(W.fs) > 1
    BY <1>2, <2>4, <2>5
  <2>7. Asked(Sealed(h, W.fs), u)
    BY <1>2, <1>3, <2>2, <2>6, LeaveTree
  <2> HIDE DEF u, h
  <2>8. W' = u
    BY <2>1, <2>3, BecomesW
  <2> QED
    BY <1>1, <1>2, <2>1, <2>7, <2>8, TreeKept
<1> QED
  BY <1>4, <1>5 DEF Close

LEMMA FinishTree ==
    ASSUME IInv, TreeInv, NEW ws \in Spaces, Finish(ws)
    PROVE  TreeInv'
<1> DEFINE u == LeaveLevel(W, FALSE, closeWs)
           e == ensureOpen(W, Len(W.fs))
           h == Forced(kids, Len(W.fs))
           t == Whole(h, e.fs, 1)
<1>1. /\ root = "done" /\ Len(levels) = 1 /\ root' = "finished" /\ out' = u.out \o ws
      /\ kids' = Sealed(Forced(kids, 1), levels)
  BY DEF Finish
<1>2. /\ TypesOK /\ W \in Writer /\ W.fs = levels /\ Shape(W.fs)
      /\ levels \in Seq(LevelType) /\ levels # <<>> /\ closeWs \in Spaces
  BY <1>1, Standing DEF TypesOK
<1>3. Asked(kids, W) /\ Len(W.fs) = 1 /\ Len(W.fs) > 0
  BY <1>1, <1>2 DEF TreeInv
<1>4. e \in Writer /\ SameNames(e.fs, levels) /\ Grown(h, e, 1)
  BY <1>2, <1>3, AskedForced
<1>5. h[1].forced
  <2>1. kids \in Seq(KidType) /\ Len(kids) = 1
    BY <1>1, <1>2, <1>3 DEF Asked, Grown, Sized
  <2> QED
    BY <1>3, <2>1, ForcedOK
<1>6. u = pop(e, closeWs)
  BY DEF LeaveLevel
<1>7. u \in Writer
  <2>1. FALSE \in BOOLEAN
    OBVIOUS
  <2> QED
    BY <1>2, <2>1, LeaveOK
<1>8. kids' = Sealed(h, levels)
  BY <1>1, <1>3
<1> HIDE DEF u, h, e, t
<1>9. /\ e.fs \in Seq(LevelType) /\ h \in Seq(KidType) /\ Len(e.fs) = 1 /\ Len(h) = 1
      /\ 1 \in 1..Len(e.fs) /\ 1 \in 1..Len(h)
  <2>1. e.fs \in Seq(LevelType) /\ h \in Seq(KidType) /\ Len(h) = Len(e.fs)
    BY <1>4 DEF Grown, Sized
  <2>2. Len(e.fs) = 1
    BY <1>1, <1>4 DEF SameNames
  <2> QED
    BY <2>1, <2>2
<1>10. /\ t \in Seq(Ink) /\ Bare(t) = t
       /\ LevelText(h, levels, 1) \o Closing(levels[1].isArr) = t
  <2>1. Exists(h, 1)
    BY <1>5, <1>9 DEF Exists
  <2> QED
    BY <1>4, <1>9, <2>1, WholeOK DEF t
<1>11. Bare(u.out) = t
  <2>1. Grown(h, e, Len(e.fs)) /\ Len(e.fs) > 0
    BY <1>4, <1>9
  <2>2. Bare(u.out) = Above(h, e.fs, Len(e.fs) - 1) \o Whole(h, e.fs, Len(e.fs))
    BY <1>2, <1>4, <1>6, <2>1, PopText
  <2>3. Above(h, e.fs, 0) = <<>>
    <3>1. 0 \in Nat /\ 0 <= Len(e.fs) /\ 0 <= Len(h)
      BY <1>9
    <3> QED
      BY <1>9, <3>1, AboveOK
  <2>4. Bare(u.out) = <<>> \o t
    <3>1. Len(e.fs) = 1 /\ Len(e.fs) - 1 = 0
      BY <1>9
    <3>2. Bare(u.out) = Above(h, e.fs, 0) \o Whole(h, e.fs, 1)
      BY <2>2, <3>1
    <3> QED
      BY <2>3, <3>2 DEF t
  <2> QED
    BY <1>10, <2>4, ConcatEmptySeq
<1>12. Bare(out') = t
  <2>1. u.out \in Seq(Tokens) /\ ws \in Seq(Tokens) /\ Bare(ws) = <<>>
    BY <1>7, Texts, BareTokens DEF Writer
  <2>2. Bare(u.out \o ws) = t \o <<>>
    BY <1>11, <2>1, BareJoined
  <2> QED
    BY <1>1, <1>10, <2>2, ConcatEmptySeq
<1>13. kids'[1].members = Append(<<>>, t)
  <2> DEFINE o == <<NoKids>>
  <2>1. Sealed(h, levels) =
            Entered(o, 1, LevelText(h, levels, 1) \o Closing(levels[1].isArr))
    BY <1>9 DEF Sealed
  <2>2. Sealed(h, levels) = More(o, 1, t)
    BY <1>10, <2>1, EnteredIsMore
  <2>3. o \in Seq(KidType) /\ Len(o) = 1 /\ 1 \in 1..Len(o) /\ o[1].members = <<>>
    <3>1. NoKids \in KidType /\ NoKids.members = <<>>
      <4>1. <<>> \in Seq(Seq(Ink))
        OBVIOUS
      <4> QED
        BY <4>1, Zenon DEF NoKids, KidType
    <3> QED
      BY <3>1
  <2> HIDE DEF o
  <2>4. More(o, 1, t)[1].members = Append(o[1].members, t)
    BY <1>10, <2>3, MoreOK
  <2> QED
    BY <1>8, <2>2, <2>3, <2>4
<1>14. Listed(Append(<<>>, t)) = t
  <2>1. <<>> \in Seq(Seq(Ink))
    OBVIOUS
  <2>2. Listed(Append(<<>>, t)) = Listed(<<>>) \o Next1(<<>>, t)
    BY <1>10, <2>1, ListedMore
  <2>3. Next1(<<>>, t) = t
    BY DEF Next1
  <2>4. <<>> \o t = t
    BY <1>10, ConcatEmptySeq
  <2> QED
    BY <2>2, <2>3, <2>4, ListedNone
<1> QED
  BY <1>1, <1>12, <1>13, <1>14 DEF TreeInv

LEMMA HookEntryTree ==
    ASSUME IInv, TreeInv, NEW l \in DOMAIN levels, HookEntry(l)
    PROVE  TreeInv'
<1>1. root \in {"open", "done"} /\ root' = root
  BY DEF HookEntry, HookCall
<1>2. CASE CanWriteAt(W, l)
  <2>1. /\ Becomes(Entry(W, l, HookHead(l)))
        /\ kids' = Entered(kids, l, HookHead(l) \o <<"v">>)
    BY <1>2 DEF HookEntry
  <2>2. HookHead(l) \in Seq(Tokens)
    BY Texts DEF HookHead
  <2> QED
    BY <1>1, <1>2, <2>1, <2>2, EntryTree
<1>3. CASE ~CanWriteAt(W, l)
  <2>1. out' = out /\ levels' = levels /\ kids' = kids
    BY <1>3 DEF HookEntry
  <2> QED
    BY <1>1, <2>1, Unwritten
<1> QED
  BY <1>2, <1>3

LEMMA HookPushTree ==
    ASSUME IInv, TreeInv, NEW arr \in BOOLEAN, HookPush(arr)
    PROVE  TreeInv'
<1> DEFINE head == HookHead(Len(levels))
<1>1. /\ root \in {"open", "done"} /\ root' = root
      /\ Becomes(push(W, head, arr, TRUE)) /\ kids' = Append(kids, NoKids)
  BY DEF HookPush, HookCall
<1>2. head \in Seq(Tokens) /\ TRUE \in BOOLEAN
  BY Texts DEF HookHead
<1> HIDE DEF head
<1>3. push(W, head, arr, TRUE).out = out
  BY <1>1, <1>2, Standing, PushOK
<1>4. out' = out /\ levels' = push(W, head, arr, TRUE).fs
  BY <1>1, <1>3 DEF Becomes
<1> QED
  BY <1>1, <1>2, <1>4, PushTree

LEMMA HookPopTree ==
    ASSUME IInv, IInv', TreeInv, HookPop
    PROVE  TreeInv'
<1> DEFINE u == LeaveLevel(W, TRUE, <<>>)
<1>1. /\ root \in {"open", "done"} /\ root' = root
      /\ out' = u.out /\ levels' = u.fs /\ kids' = Sealed(kids, levels)
  BY DEF HookPop, HookCall, Becomes, LeaveLevel
<1>2. /\ TypesOK /\ W \in Writer /\ W.fs = levels /\ Shape(W.fs)
      /\ levels \in Seq(LevelType) /\ levels # <<>> /\ Len(levels) \in Nat
      /\ Len(kids) = Len(levels)
  BY <1>1, Standing
<1>3. Asked(kids, W)
  BY <1>1 DEF TreeInv
<1>4. TRUE \in BOOLEAN /\ <<>> \in Spaces
  BY DEF Spaces
<1>5. u \in Writer /\ SameHands(u.fs, Front(W.fs))
  BY <1>2, <1>4, LeaveOK
<1>6. Len(levels') = Len(levels) - 1
  <2>1. Len(Front(levels)) = Len(levels) - 1
    BY <1>2, FrontOK
  <2> QED
    BY <1>1, <1>2, <1>5, <2>1 DEF SameHands
<1>7. Len(levels') >= 1
  BY <1>1 DEF IInv, InStep
<1>8. Len(W.fs) > 1
  BY <1>2, <1>6, <1>7
<1>9. Asked(Sealed(kids, W.fs), u)
  BY <1>2, <1>3, <1>4, <1>8, LeaveTree
<1> HIDE DEF u
<1>10. W' = u
  BY <1>1, <1>5, BecomesW
<1> QED
  BY <1>1, <1>2, <1>9, <1>10, TreeKept

LEMMA HookOpenTree ==
    ASSUME IInv, TreeInv, HookOpen
    PROVE  TreeInv'
<1> DEFINE u == ensureOpen(W, Len(W.fs))
<1>1. /\ root \in {"open", "done"} /\ root' = root
      /\ Becomes(ensureOpen(W, Len(levels))) /\ kids' = Forced(kids, Len(kids))
  BY DEF HookOpen, HookCall
<1>2. /\ W \in Writer /\ W.fs = levels
      /\ levels \in Seq(LevelType) /\ Len(levels) \in Nat \ {0}
      /\ Len(kids) = Len(levels)
  BY <1>1, Standing
<1>3. Asked(kids, W) /\ Len(W.fs) > 0
  BY <1>1, <1>2 DEF TreeInv
<1>4. u \in Writer /\ Asked(Forced(kids, Len(W.fs)), u)
  BY <1>2, <1>3, AskedForced
<1>5. out' = u.out /\ levels' = u.fs
  BY <1>1, <1>2 DEF Becomes
<1> HIDE DEF u
<1>6. W' = u
  BY <1>4, <1>5, BecomesW
<1> QED
  BY <1>1, <1>2, <1>4, <1>6, TreeKept

LEMMA TreeNext ==
    ASSUME IInv, TreeInv, [Next]_vars
    PROVE  TreeInv'
<1>0. IInv'
  BY NextInv
<1>1. CASE \E ws \in Spaces, arr \in BOOLEAN : Root(ws, arr)
  BY <1>1, RootTree
<1>2. CASE \E ws \in Spaces : Drop(ws)
  BY <1>2, DropTree
<1>3. CASE \E ws \in Spaces, l \in DOMAIN levels, renamed \in BOOLEAN :
              PassAt(ws, l, renamed)
  BY <1>3, PassAtTree
<1>4. CASE \E ws \in Spaces, arr, flat, lazy, renamed \in BOOLEAN :
              Enter(ws, arr, flat, lazy, renamed)
  BY <1>4, EnterTree
<1>5. CASE \E ws \in Spaces : Comma(ws)
  BY <1>5, CommaTree
<1>6. CASE \E ws \in Spaces : Close(ws)
  BY <1>0, <1>6, CloseTree
<1>7. CASE \E ws \in Spaces : Finish(ws)
  BY <1>7, FinishTree
<1>8. CASE \E l \in DOMAIN levels : HookEntry(l)
  BY <1>8, HookEntryTree
<1>9. CASE \E arr \in BOOLEAN : HookPush(arr)
  BY <1>9, HookPushTree
<1>10. CASE HookPop
  BY <1>0, <1>10, HookPopTree
<1>11. CASE HookOpen
  BY <1>11, HookOpenTree
<1>12. CASE UNCHANGED vars
  BY <1>12 DEF vars, TreeInv, W
<1> QED
  BY <1>1, <1>2, <1>3, <1>4, <1>5, <1>6, <1>7, <1>8, <1>9, <1>10, <1>11, <1>12
     DEF Next

LEMMA TreeInit ==
    ASSUME Init
    PROVE  TreeInv
<1>1. out = <<>> /\ levels = <<>> /\ kids = <<>> /\ root = "none"
  BY DEF Init
<1>2. W.fs = <<>> /\ W.out = <<>>
  BY <1>1 DEF W
<1>3. Sized(<<>>, <<>>, 0)
  BY DEF Sized
<1>4. Bare(<<>>) = <<>>
  BY BareTokens DEF Spaces
<1>5. Written(<<>>, <<>>, 0) = <<>>
  BY DEF Written
<1>6. Grown(<<>>, W, 0)
  BY <1>2, <1>3, <1>4, <1>5 DEF Grown
<1>7. Marked(<<>>, 0)
  BY DEF Marked
<1> QED
  BY <1>1, <1>6, <1>7 DEF TreeInv, Asked

LEMMA TreeImplies ==
    ASSUME TreeInv
    PROVE  OutputIsTree
<1>1. CASE root = "finished"
  BY <1>1 DEF TreeInv, OutputIsTree
<1>2. CASE root # "finished"
  <2>1. Asked(kids, W)
    BY <1>2 DEF TreeInv
  <2>2. Bare(W.out) = Text(kids, W.fs)
    BY <2>1, AskedText
  <2> QED
    BY <1>2, <2>2 DEF OutputIsTree, W
<1> QED
  BY <1>1, <1>2

\* Whatever is passed, renamed, entered, dropped or closed, and whatever hooks
\* write at whatever level, the output is the text of the tree of what was
\* accepted: every level opened once, at its first write or when it is left, after
\* the levels around it and in its place among their members, a comma between two
\* members and nowhere else, and nothing of a level nothing was written in
\* (writer.go:119-173, region.go:98).
THEOREM OutputIsTheTree == Spec => []OutputIsTree
<1>1. Init => TreeInv
  BY TreeInit
<1>2. IInv /\ TreeInv /\ [Next]_vars => TreeInv'
  BY TreeNext
<1>3. TreeInv => OutputIsTree
  BY TreeImplies
<1> QED
  BY <1>1, <1>2, <1>3, Invariance, PTL DEF Spec

=============================================================================
