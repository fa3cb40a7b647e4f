--------------------------- MODULE Dispatch_proofs ---------------------------
(***************************************************************************)
(* Proofs about Dispatch and KeyProbe, for every set of keys, hooks and    *)
(* answers, every key cache and every nesting: the engine keeps the        *)
(* contract of Callbacks, and a KeyProbe that is its protocol, or is       *)
(* mounted in one, reads the first occurrence of the keys it wants.        *)
(***************************************************************************)
EXTENDS KeyProbe, SequenceTheorems, TLAPS

-----------------------------------------------------------------------------
(* The inductive invariant. *)

Members == Words \cup Nat

FrameT ==
    [kind : Containers, ph : {"key", "value", "comma"}, idx : Int,
     n : 0 .. MaxMembers, hook : Hooks \cup {None}, seen : Seq(Words),
     at : Seq(Members)]

FramesOK(fs) ==
    /\ fs \in Seq(FrameT) /\ Len(fs) <= MaxFrames
    /\ \A i \in 1 .. Len(fs) : Len(fs[i].at) <= 1

TypesOK ==
    /\ FramesOK(frames)
    /\ store \in [1 .. MaxFrames -> Seq(Words)]
    /\ path \in Seq(Members) /\ Len(path) <= len
    /\ pend \in Actions
    /\ cache \in [SlotsUsed -> Words \cup {None}]
    /\ proto \in Protocols /\ policy \in Policies
    /\ rootDone \in BOOLEAN /\ dead \in BOOLEAN

\* A frame below the top is in the middle of a member, and so is an object
\* whose key was read; a member of an array is where idx is.
FrameShape(f, inside) ==
    /\ Len(f.at) = IF inside \/ (f.kind = "object" /\ f.ph = "value") THEN 1 ELSE 0
    /\ Len(f.at) = 1 => f.n < MaxMembers
    /\ f.kind = "array" => f.idx = f.n + Len(f.at) - 1
    /\ ~PolicyChecks => f.seen = <<>>

\* The path names the members that are being read.
Names(p, fs) ==
    /\ Len(p) = IF fs = <<>> THEN 0
                ELSE Len(fs) - 1 + Len(fs[Len(fs)].at)
    /\ \A i \in 1 .. Len(p) : p[i] = fs[i].at[1]

Shape(fs, p) ==
    /\ \A i \in 1 .. Len(fs) : FrameShape(fs[i], i < Len(fs))
    /\ Names(p, fs)

IInv == TypesOK /\ (~dead => Shape(frames, path))

-----------------------------------------------------------------------------
(* Sequences of frames. *)

\* How long a stack of frames, or a path, is.
LEMMA LenPositive ==
    ASSUME NEW S, NEW s \in Seq(S), s # <<>>
    PROVE  Len(s) \in Nat /\ Len(s) > 0
<1>1. Len(s) \in Nat /\ Len(s) # 0
  BY EmptySeq, LenProperties
<1> QED
  BY <1>1

\* Another frame takes the place of the innermost one.
LEMMA ReplaceTop ==
    ASSUME NEW fs \in Seq(FrameT), fs # <<>>, NEW f \in FrameT
    PROVE  LET g == [fs EXCEPT ![Len(fs)] = f] IN
           /\ g \in Seq(FrameT) /\ Len(g) = Len(fs) /\ g # <<>>
           /\ g[Len(fs)] = f
           /\ \A i \in 1 .. Len(fs) - 1 : g[i] = fs[i]
           /\ Len(fs) \in Nat \ {0}
<1>1. Len(fs) \in Nat \ {0} /\ Len(fs) \in 1 .. Len(fs)
  BY EmptySeq, LenProperties
<1> QED
  BY <1>1, ExceptSeq

\* A frame is opened inside.
LEMMA OpenInside ==
    ASSUME NEW fs \in Seq(FrameT), NEW f \in FrameT
    PROVE  LET g == Append(fs, f) IN
           /\ g \in Seq(FrameT) /\ Len(g) = Len(fs) + 1 /\ g # <<>>
           /\ g[Len(fs) + 1] = f
           /\ \A i \in 1 .. Len(fs) : g[i] = fs[i]
           /\ Len(fs) \in Nat
BY AppendProperties, LenProperties, EmptySeq

\* The innermost frame is closed.
LEMMA CloseInner ==
    ASSUME NEW fs \in Seq(FrameT), fs # <<>>
    PROVE  LET g == SubSeq(fs, 1, Len(fs) - 1) IN
           /\ g \in Seq(FrameT) /\ Len(g) = Len(fs) - 1
           /\ \A i \in 1 .. Len(fs) - 1 : g[i] = fs[i]
           /\ Len(fs) \in Nat \ {0}
<1>1. Len(fs) \in Nat \ {0}
  BY EmptySeq, LenProperties
<1> QED
  BY <1>1, SubSeqProperties

-----------------------------------------------------------------------------
(* The path. *)

\* Every frame is in the middle of a member, the innermost one too.
Inside(fs, p) ==
    /\ fs # <<>>
    /\ \A i \in 1 .. Len(fs) : FrameShape(fs[i], TRUE)
    /\ p \in Seq(Members) /\ Names(p, fs)

\* A member begins at the innermost frame.
LEMMA NameAdded ==
    ASSUME NEW fs \in Seq(FrameT), fs # <<>>, NEW p \in Seq(Members),
           Shape(fs, p), fs[Len(fs)].at = <<>>,
           NEW m \in Members, NEW f \in FrameT, f.at = <<m>>,
           FrameShape(f, TRUE)
    PROVE  Inside([fs EXCEPT ![Len(fs)] = f], Append(p, m))
<1> DEFINE g == [fs EXCEPT ![Len(fs)] = f]
           q == Append(p, m)
<1>1. /\ g \in Seq(FrameT) /\ Len(g) = Len(fs) /\ g # <<>>
      /\ g[Len(fs)] = f
      /\ \A i \in 1 .. Len(fs) - 1 : g[i] = fs[i]
      /\ Len(fs) \in Nat \ {0}
  BY ReplaceTop
<1>l. Len(fs) \in Nat /\ Len(fs) > 0 /\ Len(p) \in Nat
  BY LenPositive, LenProperties
<1>2. /\ Len(p) = Len(fs) - 1 /\ \A i \in 1 .. Len(p) : p[i] = fs[i].at[1]
      /\ \A i \in 1 .. Len(fs) - 1 : FrameShape(fs[i], TRUE)
  <2>1. Len(fs[Len(fs)].at) = 0
    BY EmptySeq
  <2>2. ASSUME NEW i \in 1 .. Len(fs) - 1
        PROVE  FrameShape(fs[i], TRUE)
    <3>1. i \in 1 .. Len(fs) /\ i < Len(fs)
      BY <1>l
    <3>2. FrameShape(fs[i], i < Len(fs))
      BY <3>1 DEF Shape
    <3> QED
      BY <3>1, <3>2 DEF FrameShape
  <2>3. /\ Len(p) = Len(fs) - 1 + Len(fs[Len(fs)].at)
        /\ \A i \in 1 .. Len(p) : p[i] = fs[i].at[1]
    BY DEF Shape, Names
  <2>4. Len(p) = Len(fs) - 1
    BY <1>l, <2>1, <2>3
  <2> QED
    BY <2>2, <2>3, <2>4
<1>3. /\ q \in Seq(Members) /\ Len(q) = Len(p) + 1 /\ q[Len(p) + 1] = m
      /\ \A i \in 1 .. Len(p) : q[i] = p[i]
  BY AppendProperties
<1>4. Len(f.at) = 1 /\ f.at[1] = m
  OBVIOUS
<1> HIDE DEF g, q
<1>5. ASSUME NEW i \in 1 .. Len(g)
      PROVE  FrameShape(g[i], TRUE)
  <2>1. i \in 1 .. Len(fs) - 1 \/ i = Len(fs)
    BY <1>1
  <2> QED
    BY <1>1, <1>2, <2>1
<1>6. Len(q) = Len(g) - 1 + Len(g[Len(g)].at)
  BY <1>1, <1>2, <1>3, <1>4
<1>7. ASSUME NEW i \in 1 .. Len(q)
      PROVE  q[i] = g[i].at[1]
  <2>1. \/ i \in 1 .. Len(fs) - 1 /\ i \in 1 .. Len(p)
        \/ i = Len(fs) /\ i = Len(p) + 1
    <3>1. Len(q) = Len(fs)
      BY <1>l, <1>2, <1>3
    <3> QED
      <4>1. Len(p) = Len(fs) - 1
        BY <1>2
      <4> QED
        BY <1>l, <3>1, <4>1
  <2> QED
    BY <1>1, <1>2, <1>3, <1>4, <2>1
<1>8. Inside(g, q)
  BY <1>1, <1>3, <1>5, <1>6, <1>7 DEF Inside, Names
<1> QED
  BY <1>8 DEF g, q

\* The member of the innermost frame ends.
LEMMA NameDropped ==
    ASSUME NEW fs \in Seq(FrameT), NEW p, Inside(fs, p),
           NEW f \in FrameT, f.at = <<>>, FrameShape(f, FALSE)
    PROVE  LET g == [fs EXCEPT ![Len(fs)] = f]
               q == SubSeq(p, 1, Len(p) - 1)
           IN  q \in Seq(Members) /\ Len(q) = Len(fs) - 1 /\ Shape(g, q)
<1> DEFINE g == [fs EXCEPT ![Len(fs)] = f]
           q == SubSeq(p, 1, Len(p) - 1)
<1>1. /\ g \in Seq(FrameT) /\ Len(g) = Len(fs) /\ g # <<>>
      /\ g[Len(fs)] = f
      /\ \A i \in 1 .. Len(fs) - 1 : g[i] = fs[i]
      /\ Len(fs) \in Nat \ {0}
  BY ReplaceTop DEF Inside
<1>l. Len(fs) \in Nat /\ Len(fs) > 0 /\ Len(p) \in Nat
  BY LenPositive, LenProperties DEF Inside
<1>2. /\ Len(p) = Len(fs) /\ \A i \in 1 .. Len(p) : p[i] = fs[i].at[1]
      /\ p \in Seq(Members)
      /\ \A i \in 1 .. Len(fs) - 1 : FrameShape(fs[i], TRUE)
  <2>1. \A i \in 1 .. Len(fs) : FrameShape(fs[i], TRUE)
    BY DEF Inside
  <2>2. Len(fs) \in 1 .. Len(fs) /\ \A i \in 1 .. Len(fs) - 1 : i \in 1 .. Len(fs)
    BY <1>l
  <2>3. Len(fs[Len(fs)].at) = 1
    BY <2>1, <2>2 DEF FrameShape
  <2>4. /\ Len(p) = Len(fs) - 1 + Len(fs[Len(fs)].at)
        /\ \A i \in 1 .. Len(p) : p[i] = fs[i].at[1]
        /\ p \in Seq(Members)
    BY DEF Inside, Names
  <2> QED
    <3>1. Len(p) = Len(fs)
      BY <1>l, <2>3, <2>4
    <3> QED
      BY <2>1, <2>2, <2>4, <3>1
<1>3. \A i \in 1 .. Len(p) - 1 : p[i] \in Members
  BY <1>1, <1>2, ElementOfSeq
<1>4. /\ q \in Seq(Members) /\ Len(q) = Len(p) - 1
      /\ \A i \in 1 .. Len(p) - 1 : q[i] = p[i]
  <2>1. 1 \in Int /\ Len(p) - 1 \in Int
    BY <1>1, <1>2
  <2>2. /\ q \in Seq(Members)
        /\ Len(q) = IF 1 <= Len(p) - 1 THEN Len(p) - 1 - 1 + 1 ELSE 0
        /\ \A i \in 1 .. Len(p) - 1 - 1 + 1 : q[i] = p[1 + i - 1]
    BY <1>3, <2>1, SubSeqProperties
  <2> HIDE DEF q
  <2>3. ASSUME NEW i \in 1 .. Len(p) - 1
        PROVE  q[i] = p[i]
    <3>1. i \in 1 .. Len(p) - 1 - 1 + 1 /\ 1 + i - 1 = i
      BY <1>l
    <3> QED
      BY <2>2, <3>1
  <2> QED
    <3>1. Len(q) = Len(p) - 1
      BY <1>l, <1>2, <2>2
    <3> QED
      BY <2>2, <2>3, <3>1
<1> HIDE DEF g, q
<1>5. Len(f.at) = 0
  BY EmptySeq
<1>6. \A i \in 1 .. Len(g) : FrameShape(g[i], i < Len(g))
  <2>1. TAKE i \in 1 .. Len(g)
  <2>2. CASE i = Len(g)
    <3>1. g[i] = f /\ ~(i < Len(g))
      BY <1>1, <2>2
    <3> QED
      BY <3>1 DEF FrameShape
  <2>3. CASE i # Len(g)
    <3>1. i \in 1 .. Len(fs) - 1 /\ i < Len(g)
      BY <1>1, <2>3
    <3> QED
      BY <1>1, <1>2, <3>1 DEF FrameShape
  <2> QED
    BY <2>2, <2>3
<1>7. Names(q, g)
  <2>1. ASSUME NEW i \in 1 .. Len(q)
        PROVE  q[i] = g[i].at[1]
    <3>1. i \in 1 .. Len(p) /\ i \in 1 .. Len(p) - 1 /\ i \in 1 .. Len(fs) - 1
      BY <1>1, <1>2, <1>4
    <3> QED
      BY <1>1, <1>2, <1>4, <3>1
  <2>2. Len(q) = Len(g) - 1 + Len(g[Len(g)].at)
    BY <1>1, <1>2, <1>4, <1>5
  <2> QED
    BY <1>1, <2>1, <2>2 DEF Names
<1>8. q \in Seq(Members) /\ Len(q) = Len(fs) - 1 /\ Shape(g, q)
  BY <1>1, <1>2, <1>4, <1>6, <1>7 DEF Shape
<1> QED
  BY <1>8 DEF g, q

\* A container is entered.
LEMMA NamesKept ==
    ASSUME NEW fs \in Seq(FrameT), NEW p, Inside(fs, p),
           NEW f \in FrameT, f.at = <<>>, FrameShape(f, FALSE)
    PROVE  Shape(Append(fs, f), p)
<1> DEFINE g == Append(fs, f)
<1>1. /\ g \in Seq(FrameT) /\ Len(g) = Len(fs) + 1 /\ g # <<>>
      /\ g[Len(fs) + 1] = f
      /\ \A i \in 1 .. Len(fs) : g[i] = fs[i]
      /\ Len(fs) \in Nat \ {0}
  BY OpenInside, EmptySeq, LenProperties DEF Inside
<1>l. Len(fs) \in Nat /\ Len(fs) > 0 /\ Len(p) \in Nat
  BY LenPositive, LenProperties DEF Inside
<1>2. /\ Len(p) = Len(fs) /\ \A i \in 1 .. Len(p) : p[i] = fs[i].at[1]
      /\ \A i \in 1 .. Len(fs) : FrameShape(fs[i], TRUE)
  <2>1. \A i \in 1 .. Len(fs) : FrameShape(fs[i], TRUE)
    BY DEF Inside
  <2>2. Len(fs) \in 1 .. Len(fs)
    BY <1>1
  <2>3. Len(fs[Len(fs)].at) = 1
    BY <2>1, <2>2 DEF FrameShape
  <2>4. /\ Len(p) = Len(fs) - 1 + Len(fs[Len(fs)].at)
        /\ \A i \in 1 .. Len(p) : p[i] = fs[i].at[1]
    BY DEF Inside, Names
  <2> QED
    <3>1. Len(p) = Len(fs)
      BY <1>l, <2>3, <2>4
    <3> QED
      BY <2>1, <2>4, <3>1
<1> HIDE DEF g
<1>3. Len(f.at) = 0
  BY EmptySeq
<1>4. \A i \in 1 .. Len(g) : FrameShape(g[i], i < Len(g))
  <2>1. TAKE i \in 1 .. Len(g)
  <2>2. CASE i = Len(g)
    <3>1. g[i] = f /\ ~(i < Len(g))
      BY <1>1, <2>2
    <3> QED
      BY <3>1 DEF FrameShape
  <2>3. CASE i # Len(g)
    <3>1. i \in 1 .. Len(fs) /\ i < Len(g)
      BY <1>1, <2>3
    <3> QED
      BY <1>1, <1>2, <3>1 DEF FrameShape
  <2> QED
    BY <2>2, <2>3
<1>5. Names(p, g)
  <2>1. Len(p) = Len(g) - 1 + Len(g[Len(g)].at)
    BY <1>1, <1>2, <1>3
  <2>2. \A i \in 1 .. Len(p) : p[i] = g[i].at[1]
    BY <1>1, <1>2
  <2> QED
    BY <1>1, <2>1, <2>2 DEF Names
<1>6. Shape(g, p)
  BY <1>4, <1>5 DEF Shape
<1> QED
  BY <1>6 DEF g

\* A container is left: its frame is gone, the one around it is in the middle
\* of the member.
LEMMA NamesOutside ==
    ASSUME NEW fs \in Seq(FrameT), NEW p \in Seq(Members), Shape(fs, p),
           Len(fs) > 1, fs[Len(fs)].at = <<>>
    PROVE  Inside(SubSeq(fs, 1, Len(fs) - 1), p)
<1> DEFINE g == SubSeq(fs, 1, Len(fs) - 1)
<1>1. fs # <<>>
  BY EmptySeq
<1>2. /\ g \in Seq(FrameT) /\ Len(g) = Len(fs) - 1
      /\ \A i \in 1 .. Len(fs) - 1 : g[i] = fs[i]
      /\ Len(fs) \in Nat \ {0}
  BY <1>1, CloseInner
<1> HIDE DEF g
<1>3. Len(fs[Len(fs)].at) = 0
  BY EmptySeq
<1>4. Len(p) = Len(fs) - 1 /\ \A i \in 1 .. Len(p) : p[i] = fs[i].at[1]
  BY <1>1, <1>2, <1>3 DEF Shape, Names
<1>5. \A i \in 1 .. Len(g) : FrameShape(g[i], TRUE)
  <2>1. TAKE i \in 1 .. Len(g)
  <2>2. i \in 1 .. Len(fs) /\ i < Len(fs) /\ g[i] = fs[i]
    BY <1>2
  <2>3. FrameShape(fs[i], i < Len(fs))
    BY <2>2 DEF Shape
  <2> QED
    BY <2>2, <2>3 DEF FrameShape
<1>6. g # <<>> /\ Len(g) \in 1 .. Len(g)
  BY <1>2, EmptySeq
<1>7. Len(g[Len(g)].at) = 1
  BY <1>5, <1>6 DEF FrameShape
<1>8. Names(p, g)
  BY <1>2, <1>4, <1>6, <1>7 DEF Names
<1>9. Inside(g, p)
  BY <1>5, <1>6, <1>8 DEF Inside
<1> QED
  BY <1>9 DEF g


-----------------------------------------------------------------------------
(* What an operation makes of a frame. *)

Keyed(f, w, keys) == [f EXCEPT !.ph = "value", !.at = <<w>>, !.seen = keys]
Indexed(f) == [f EXCEPT !.idx = f.idx + 1, !.at = <<f.n>>]
Over(f) == [f EXCEPT !.ph = "comma", !.n = @ + 1, !.at = <<>>]

\* The fields of a frame.
LEMMA FrameFields ==
    ASSUME NEW f \in FrameT
    PROVE  /\ f.kind \in Containers /\ f.ph \in {"key", "value", "comma"}
           /\ f.idx \in Int /\ f.n \in Nat /\ f.n <= MaxMembers
           /\ f.hook \in Hooks \cup {None}
           /\ f.seen \in Seq(Words) /\ f.at \in Seq(Members)
           /\ Len(f.at) \in Nat
<1>1. MaxMembers \in Nat
  BY DispatchAssumption
<1> QED
  BY <1>1, LenProperties DEF FrameT

\* A key.
LEMMA KeyedFacts ==
    ASSUME NEW f \in FrameT, NEW w \in Words, NEW keys \in Seq(Words),
           f.n < MaxMembers, f.kind = "object",
           ~PolicyChecks => keys = <<>>
    PROVE  /\ Keyed(f, w, keys) \in FrameT
           /\ Keyed(f, w, keys).at = <<w>> /\ Len(<<w>>) = 1
           /\ FrameShape(Keyed(f, w, keys), TRUE)
<1> DEFINE g == Keyed(f, w, keys)
<1>1. /\ g \in FrameT /\ g.at = <<w>> /\ g.n = f.n /\ g.kind = "object"
      /\ g.seen = keys
  <2>1. <<w>> \in Seq(Members)
    BY DEF Members
  <2> QED
    BY <2>1, FrameFields DEF FrameT, Keyed
<1>2. Len(<<w>>) = 1
  OBVIOUS
<1> HIDE DEF g
<1>3. FrameShape(g, TRUE)
  BY <1>1, <1>2 DEF FrameShape
<1> QED
  BY <1>1, <1>2, <1>3 DEF g

\* An element.
LEMMA IndexedFacts ==
    ASSUME NEW f \in FrameT, f.n < MaxMembers, f.kind = "array",
           FrameShape(f, FALSE)
    PROVE  /\ Indexed(f) \in FrameT /\ f.at = <<>>
           /\ Indexed(f).at = <<f.n>> /\ f.idx + 1 = f.n
           /\ FrameShape(Indexed(f), TRUE)
<1> DEFINE g == Indexed(f)
<1>1. /\ f.idx \in Int /\ f.n \in Nat /\ f.at \in Seq(Members)
  BY FrameFields
<1>2. Len(f.at) = 0 /\ f.idx = f.n + Len(f.at) - 1
  BY DEF FrameShape
<1>3. f.at = <<>> /\ f.idx + 1 = f.n
  BY <1>1, <1>2, EmptySeq
<1>4. /\ g \in FrameT /\ g.at = <<f.n>> /\ g.n = f.n /\ g.kind = "array"
      /\ g.seen = f.seen /\ g.idx = f.n
  <2>1. <<f.n>> \in Seq(Members)
    BY <1>1 DEF Members
  <2>2. f.idx + 1 \in Int /\ f.n \in Nat
    BY <1>1
  <2>3. g \in FrameT
    BY <2>1, <2>2 DEF FrameT, Indexed
  <2>4. /\ g.at = <<f.n>> /\ g.n = f.n /\ g.kind = f.kind /\ g.seen = f.seen
        /\ g.idx = f.idx + 1
    BY DEF FrameT, Indexed
  <2> QED
    BY <1>3, <2>3, <2>4
<1>5. Len(<<f.n>>) = 1
  OBVIOUS
<1> HIDE DEF g
<1>6. FrameShape(g, TRUE)
  BY <1>1, <1>4, <1>5 DEF FrameShape
<1> QED
  BY <1>3, <1>4, <1>6 DEF g

\* The end of the value.
LEMMA OverFacts ==
    ASSUME NEW f \in FrameT, FrameShape(f, TRUE)
    PROVE  /\ Over(f) \in FrameT /\ Over(f).at = <<>>
           /\ FrameShape(Over(f), FALSE)
<1> DEFINE g == Over(f)
<1>1. /\ f.idx \in Int /\ f.n \in Nat /\ MaxMembers \in Nat
  BY FrameFields, DispatchAssumption
<1>2. Len(f.at) = 1 /\ f.n < MaxMembers
  BY DEF FrameShape
<1>3. f.n + 1 \in 0 .. MaxMembers
  BY <1>1, <1>2
<1>4. /\ g \in FrameT /\ g.at = <<>> /\ g.n = f.n + 1 /\ g.kind = f.kind
      /\ g.seen = f.seen /\ g.idx = f.idx /\ g.ph = "comma"
  <2>1. <<>> \in Seq(Members)
    BY EmptySeq
  <2> QED
    BY <1>3, <2>1 DEF FrameT, Over
<1>5. Len(<<>>) = 0
  BY EmptySeq
<1>6. f.kind = "array" => f.idx = f.n
  BY <1>1, <1>2 DEF FrameShape
<1>7. ~PolicyChecks => f.seen = <<>>
  BY DEF FrameShape
<1> HIDE DEF g
<1>8. FrameShape(g, FALSE)
  BY <1>1, <1>4, <1>5, <1>6, <1>7 DEF FrameShape
<1> QED
  BY <1>4, <1>8 DEF g

\* A new frame.
LEMMA NewFrame ==
    ASSUME NEW kind \in Containers, NEW h \in Hooks \cup {None}
    PROVE  /\ Frame(kind, h) \in FrameT /\ Frame(kind, h).at = <<>>
           /\ FrameShape(Frame(kind, h), FALSE)
           /\ Frame(kind, h).hook = h /\ Frame(kind, h).n = 0
           /\ Frame(kind, h).seen = <<>> /\ Len(<<>>) = 0
<1>1. Len(<<>>) = 0 /\ <<>> \in Seq(Members) /\ <<>> \in Seq(Words)
  BY EmptySeq
<1>2. MaxMembers \in Nat
  BY DispatchAssumption
<1> DEFINE g == Frame(kind, h)
<1>3. /\ g.kind = kind /\ g.ph = (IF kind = "array" THEN "value" ELSE "key")
      /\ g.idx = -1 /\ g.n = 0 /\ g.hook = h /\ g.seen = <<>> /\ g.at = <<>>
  BY DEF Frame
<1>4. g \in FrameT
  BY <1>1, <1>2 DEF FrameT, Frame, Containers
<1> HIDE DEF g
<1>5. kind = "array" \/ kind = "object"
  BY DEF Containers
<1>6. FrameShape(g, FALSE)
  BY <1>1, <1>3, <1>5 DEF FrameShape
<1> QED
  BY <1>1, <1>3, <1>4, <1>6 DEF g

-----------------------------------------------------------------------------
(* One step. *)

\* The innermost frame.
LEMMA TopFrame ==
    ASSUME FramesOK(frames), Shape(frames, path), len > 0
    PROVE  /\ frames \in Seq(FrameT) /\ frames # <<>> /\ Len(frames) = len
           /\ len \in Nat /\ len \in 1 .. len
           /\ top \in FrameT /\ FrameShape(top, FALSE)
<1>1. frames \in Seq(FrameT) /\ len \in Nat
  BY LenProperties DEF FramesOK, len
<1>2. frames # <<>> /\ len \in 1 .. len
  BY <1>1, EmptySeq DEF len
<1>3. top \in FrameT
  BY <1>1, <1>2, ElementOfSeq DEF top, len
<1>4. FrameShape(frames[len], len < len)
  BY <1>2 DEF Shape, len
<1>5. ~(len < len)
  BY <1>1
<1>6. FrameShape(top, FALSE)
  BY <1>4, <1>5 DEF top, FrameShape
<1> QED
  BY <1>1, <1>2, <1>3, <1>6 DEF len

\* What every step leaves the frames and the path as.
Laid(fs, p) ==
    /\ FramesOK(fs) /\ p \in Seq(Members) /\ Len(p) <= Len(fs)

LEMMA OneLeft ==
    ASSUME NEW n \in Nat, n > 0, ~(1 <= n - 1)
    PROVE  n = 1
OBVIOUS

LEMMA ZeroOrOne ==
    ASSUME NEW n, n = 0 \/ n = 1
    PROVE  n <= 1 /\ n \in Nat
OBVIOUS

\* Inside a member there is as much path as there are frames.
LEMMA InsideLaid ==
    ASSUME NEW fs, NEW p, fs \in Seq(FrameT), Inside(fs, p),
           Len(fs) <= MaxFrames
    PROVE  /\ Laid(fs, p) /\ Len(fs) \in Nat /\ Len(fs) > 0
           /\ Len(p) = Len(fs) /\ \A i \in 1 .. Len(p) : p[i] = fs[i].at[1]
           /\ fs[Len(fs)] \in FrameT /\ FrameShape(fs[Len(fs)], TRUE)
<1>1. Len(fs) \in Nat /\ Len(fs) > 0
  BY LenPositive DEF Inside
<1>2. Len(fs) \in 1 .. Len(fs)
  BY <1>1
<1>3. \A i \in 1 .. Len(fs) : FrameShape(fs[i], TRUE)
  BY DEF Inside
<1>4. \A i \in 1 .. Len(fs) : Len(fs[i].at) = 1
  BY <1>3 DEF FrameShape
<1>5. /\ p \in Seq(Members) /\ Len(p) = Len(fs) - 1 + Len(fs[Len(fs)].at)
      /\ \A i \in 1 .. Len(p) : p[i] = fs[i].at[1]
  BY DEF Inside, Names
<1>6. Len(p) = Len(fs)
  <2>1. Len(fs[Len(fs)].at) = 1
    BY <1>2, <1>4
  <2> QED
    BY <1>1, <1>5, <2>1
<1>7. fs[Len(fs)] \in FrameT
  BY <1>2, ElementOfSeq
<1>8. FramesOK(fs)
  <2>1. \A i \in 1 .. Len(fs) : Len(fs[i].at) <= 1
    BY <1>4, ZeroOrOne
  <2> QED
    BY <2>1 DEF FramesOK
<1>9. Len(p) <= Len(fs)
  BY <1>1, <1>6
<1> QED
  BY <1>1, <1>2, <1>3, <1>5, <1>6, <1>7, <1>8, <1>9 DEF Laid

\* Inside a member the frames have the shape they have between two steps: the
\* innermost one is an object with a key.
LEMMA InsideShape ==
    ASSUME NEW fs, NEW p, fs \in Seq(FrameT), Inside(fs, p),
           fs[Len(fs)].kind = "object", fs[Len(fs)].ph = "value"
    PROVE  Shape(fs, p)
<1>1. ASSUME NEW i \in 1 .. Len(fs)
      PROVE  FrameShape(fs[i], i < Len(fs))
  <2>1. FrameShape(fs[i], TRUE) /\ Len(fs) \in Nat
    BY LenProperties DEF Inside
  <2>2. i < Len(fs) \/ i = Len(fs)
    BY <2>1
  <2> QED
    BY <2>1, <2>2 DEF FrameShape
<1> QED
  BY <1>1 DEF Inside, Shape

\* The shape of the frames says where the path ends, and nothing reads more
\* than one member of a frame.
LEMMA ShapeLaid ==
    ASSUME NEW fs \in Seq(FrameT), NEW p \in Seq(Members), Shape(fs, p),
           Len(fs) <= MaxFrames
    PROVE  Laid(fs, p)
<1>1. Len(fs) \in Nat /\ (fs # <<>> => Len(fs) > 0)
  BY LenPositive, LenProperties
<1>2. \A i \in 1 .. Len(fs) : Len(fs[i].at) <= 1 /\ Len(fs[i].at) \in Nat
  <2>1. TAKE i \in 1 .. Len(fs)
  <2>2. FrameShape(fs[i], i < Len(fs))
    BY DEF Shape
  <2>3. Len(fs[i].at) = 0 \/ Len(fs[i].at) = 1
    BY <2>2 DEF FrameShape
  <2> QED
    BY <2>3, ZeroOrOne
<1>3. FramesOK(fs)
  BY <1>2 DEF FramesOK
<1>4. Len(p) = IF fs = <<>> THEN 0 ELSE Len(fs) - 1 + Len(fs[Len(fs)].at)
  BY DEF Shape, Names
<1>5. Len(p) <= Len(fs)
  <2>1. CASE fs = <<>>
    BY <1>1, <1>4, <2>1
  <2>2. CASE fs # <<>>
    <3>1. Len(fs) \in 1 .. Len(fs)
      BY <1>1, <2>2
    <3>2. Len(fs[Len(fs)].at) <= 1 /\ Len(fs[Len(fs)].at) \in Nat
      BY <1>2, <3>1
    <3>3. Len(p) = Len(fs) - 1 + Len(fs[Len(fs)].at)
      BY <1>4, <2>2
    <3> QED
      BY <1>1, <3>2, <3>3
  <2> QED
    BY <2>1, <2>2
<1> QED
  BY <1>3, <1>5 DEF Laid

\* The value of the innermost frame is over.
LEMMA AfterValue ==
    ASSUME NEW fs, NEW p, fs \in Seq(FrameT), Inside(fs, p),
           Len(fs) <= MaxFrames, afterValue(fs, p)
    PROVE  /\ frames' = [fs EXCEPT ![Len(fs)] = Over(fs[Len(fs)])]
           /\ Laid(frames', path') /\ Shape(frames', path')
<1>1. /\ fs[Len(fs)] \in FrameT /\ FrameShape(fs[Len(fs)], TRUE) /\ fs # <<>>
  BY InsideLaid DEF Inside
<1> DEFINE f == Over(fs[Len(fs)])
           g == [fs EXCEPT ![Len(fs)] = f]
           q == SubSeq(p, 1, Len(p) - 1)
<1>2. f \in FrameT /\ f.at = <<>> /\ FrameShape(f, FALSE)
  BY <1>1, OverFacts
<1>3. frames' = g /\ path' = q
  BY DEF afterValue, Over
<1>4. g \in Seq(FrameT) /\ Len(g) = Len(fs)
  <2> HIDE DEF f
  <2> QED
    BY <1>1, <1>2, ReplaceTop
<1>5. q \in Seq(Members) /\ Shape(g, q)
  <2> HIDE DEF f
  <2> QED
    BY <1>2, NameDropped
<1> HIDE DEF g, q, f
<1>6. Laid(g, q)
  BY <1>4, <1>5, ShapeLaid
<1>7. Laid(frames', path') /\ Shape(frames', path')
  BY <1>3, <1>5, <1>6
<1> QED
  BY <1>3, <1>7 DEF g, f

-----------------------------------------------------------------------------
(* The answer is carried out. *)

\* An answer names a hook of the program, or none.
LEMMA ActionFields ==
    /\ \A act \in Actions : act.via \in Hooks \cup {None}
    /\ Do("Pass") \in Actions /\ Do("Skip") \in Actions
    /\ Answers \subseteq Actions
<1>1. \A k : Do(k).via = None
  BY DEF Do
<1>2. \A h : Via(h).via = h
  BY DEF Via, Do
<1>3. Lenient(Do("Enter")).via = None
  BY DEF Lenient, Do
<1>4. ASSUME NEW act \in Actions
      PROVE  act.via \in Hooks \cup {None}
  <2>1. \/ \E k \in Plain \cup {"Probe", "Bail"} : act = Do(k)
        \/ \E h \in Hooks \cup {None} : act = Via(h)
        \/ act = Lenient(Do("Enter"))
    BY DEF Actions
  <2> QED
    BY <1>1, <1>2, <1>3, <2>1
<1>5. "Pass" \in Plain /\ "Skip" \in Plain
  BY DEF Plain
<1>6. Do("Pass") \in Actions /\ Do("Skip") \in Actions
  BY <1>5 DEF Actions
<1> QED
  BY <1>4, <1>6, AnswersAssumption

\* The value is over, is entered, or the transform stops; the hook that
\* captures or observes a value is told at its end.
LEMMA Applied ==
    ASSUME NEW fs, NEW act \in Actions, NEW kind \in Kinds, NEW place,
           NEW asked, NEW bails \in BOOLEAN,
           TypesOK, ~dead, len \in Nat, len > 0,
           apply(fs, act, kind, place, asked, bails)
    PROVE  /\ \/ frames' = fs /\ path' = place /\ dead' = TRUE
              \/ afterValue(fs, place) /\ dead' = FALSE
              \/ /\ \E via \in Hooks \cup {None} :
                       frames' = Append(fs, Frame(kind,
                                   IF via # None THEN via ELSE top.hook))
                 /\ kind \in Containers /\ len < MaxFrames
                 /\ path' = place /\ dead' = FALSE
           /\ calls' \in {asked, asked \o <<>>,
                          asked \o Told(cur, "OnValue", place)}
           /\ pend' \in Actions /\ dead' \in BOOLEAN
           /\ store' \in [1 .. MaxFrames -> Seq(Words)]
<1>1. store \in [1 .. MaxFrames -> Seq(Words)] /\ dead = FALSE
  BY DEF TypesOK
<1>2. ASSUME NEW a \in Actions, Region(fs, a, place, asked, bails)
      PROVE  /\ \/ frames' = fs /\ path' = place /\ dead' = TRUE
                \/ afterValue(fs, place) /\ dead' = FALSE
             /\ calls' \in {asked, asked \o <<>>,
                            asked \o Told(cur, "OnValue", place)}
             /\ pend' \in Actions /\ dead' \in BOOLEAN
             /\ store' \in [1 .. MaxFrames -> Seq(Words)]
  <2>1. /\ pend' = a /\ dead' = bails /\ store' = store
        /\ IF bails THEN frames' = fs /\ path' = place
           ELSE afterValue(fs, place)
    BY <1>2 DEF Region
  <2>2. calls' \in {asked, asked \o <<>>,
                    asked \o Told(cur, "OnValue", place)}
    BY <1>2 DEF Region
  <2> QED
    BY <1>1, <2>1, <2>2
<1>3. CASE act.kind \in Plain /\ Region(fs, act, place, asked, bails)
  BY <1>2, <1>3
<1>4. CASE /\ act.kind = "Enter" /\ kind \notin Containers /\ act.lenient
           /\ Region(fs, Do("Pass"), place, asked, bails)
  BY <1>2, <1>4, ActionFields
<1>5. CASE /\ act.kind = "Enter" /\ kind \in Containers /\ len < MaxFrames
           /\ Enters(fs, act, kind)
           /\ path' = place /\ calls' = asked /\ pend' = act
           /\ ~bails /\ UNCHANGED dead
  <2>1. act.via \in Hooks \cup {None}
    BY ActionFields
  <2>2. /\ frames' = Append(fs, Frame(kind,
                       IF act.via # None THEN act.via ELSE top.hook))
        /\ store' = [store EXCEPT ![len + 1] = <<>>]
    BY <1>5 DEF Enters, pushFrame
  <2>3. store' \in [1 .. MaxFrames -> Seq(Words)]
    BY <1>1, <2>2, EmptySeq
  <2> QED
    BY <1>1, <1>5, <2>1, <2>2, <2>3
<1>6. CASE /\ \/ act.kind \in {"Bail", "Probe"}
              \/ act.kind = "Enter" /\ kind \notin Containers /\ ~act.lenient
           /\ frames' = fs /\ path' = place /\ calls' = asked /\ pend' = act
           /\ ~bails /\ dead' = TRUE /\ UNCHANGED store
  BY <1>1, <1>6
<1> QED
  BY <1>3, <1>4, <1>5, <1>6 DEF apply

LEMMA AppliedTypes ==
    ASSUME NEW fs, NEW act \in Actions, NEW kind \in Kinds, NEW place,
           NEW asked, NEW bails \in BOOLEAN,
           TypesOK, ~dead, len \in Nat, len > 0,
           apply(fs, act, kind, place, asked, bails)
    PROVE  /\ pend' \in Actions /\ dead' \in BOOLEAN
           /\ store' \in [1 .. MaxFrames -> Seq(Words)]
BY Applied

\* What an applied answer leaves.
LEMMA ApplyInv ==
    ASSUME NEW fs, NEW act \in Actions, NEW kind \in Kinds, NEW place,
           NEW asked, NEW bails \in BOOLEAN,
           TypesOK, ~dead, len \in Nat, len > 0,
           top.hook \in Hooks \cup {None},
           fs \in Seq(FrameT), Inside(fs, place), Len(fs) = len,
           apply(fs, act, kind, place, asked, bails)
    PROVE  Laid(frames', path') /\ (~dead' => Shape(frames', path'))
<1>1. len <= MaxFrames /\ MaxFrames \in Nat
  BY DispatchAssumption DEF TypesOK, FramesOK, len
<1>2. CASE frames' = fs /\ path' = place /\ dead' = TRUE
  BY <1>1, <1>2, InsideLaid
<1>3. CASE afterValue(fs, place) /\ dead' = FALSE
  BY <1>1, <1>3, AfterValue
<1>4. CASE /\ \E via \in Hooks \cup {None} :
                 frames' = Append(fs, Frame(kind,
                             IF via # None THEN via ELSE top.hook))
           /\ kind \in Containers /\ len < MaxFrames
           /\ path' = place /\ dead' = FALSE
  <2>1. PICK h \in Hooks \cup {None} : frames' = Append(fs, Frame(kind, h))
    BY <1>4
  <2> DEFINE f == Frame(kind, h)
  <2>2. f \in FrameT /\ f.at = <<>> /\ FrameShape(f, FALSE)
    BY <1>4, NewFrame
  <2> HIDE DEF f
  <2>3. frames' = Append(fs, f)
    BY <2>1 DEF f
  <2>4. Append(fs, f) \in Seq(FrameT) /\ Len(Append(fs, f)) = Len(fs) + 1
    BY <2>2, OpenInside
  <2>5. Shape(Append(fs, f), place)
    BY <2>2, NamesKept
  <2>6. Len(Append(fs, f)) <= MaxFrames
    BY <1>1, <1>4, <2>4
  <2>7. place \in Seq(Members)
    BY DEF Inside
  <2>8. Laid(Append(fs, f), place)
    BY <2>4, <2>5, <2>6, <2>7, ShapeLaid
  <2> QED
    BY <1>4, <2>3, <2>5, <2>8
<1>5. \/ frames' = fs /\ path' = place /\ dead' = TRUE
      \/ afterValue(fs, place) /\ dead' = FALSE
      \/ /\ \E via \in Hooks \cup {None} :
               frames' = Append(fs, Frame(kind,
                           IF via # None THEN via ELSE top.hook))
         /\ kind \in Containers /\ len < MaxFrames
         /\ path' = place /\ dead' = FALSE
  BY Applied
<1> QED
  BY <1>2, <1>3, <1>4, <1>5

-----------------------------------------------------------------------------
(* Keys and values. *)

\* The cache never turns a key into another one.
LEMMA InternIsIdentity ==
    ASSUME NEW w PROVE Intern(w) = w
BY DEF Intern

Repeated(w) == PolicyChecks /\ Seen(w)

\* A key becomes the member of the innermost object, and one of its keys when
\* the policy compares keys and it is new.
LEMMA KeyStep ==
    ASSUME NEW w \in Words, NEW escaped \in BOOLEAN, NEW act \in Answers,
           TypesOK, ~dead, Shape(frames, path), onKeyDone(w, escaped, act)
    PROVE  LET keys == IF PolicyChecks /\ ~Seen(w) THEN Append(top.seen, w)
                       ELSE top.seen IN
           /\ keys \in Seq(Words) /\ (~PolicyChecks => keys = <<>>)
           /\ frames' = [frames EXCEPT ![len] = Keyed(top, w, keys)]
           /\ path' = Append(path, w)
           /\ len > 0 /\ top.kind = "object" /\ top.at = <<>>
           /\ top.n < MaxMembers
           /\ pend' \in Actions /\ dead' \in BOOLEAN
           /\ cache' \in [SlotsUsed -> Words \cup {None}]
           /\ UNCHANGED <<proto, policy, store, rootDone>>
           /\ IF Repeated(w)
              THEN calls' = <<>> /\ (PolicyBails => dead' = TRUE)
              ELSE calls' = Told(cur, "OnKey", Append(path, w))
<1> DEFINE place == Append(path, w)
<1>1. /\ len > 0 /\ top.kind = "object" /\ top.ph \in {"key", "comma"}
      /\ top.n < MaxMembers /\ path' = place /\ OnKey(w, w, place, act)
      /\ cache' = IF escaped THEN cache ELSE [cache EXCEPT ![Slot[w]] = w]
      /\ UNCHANGED <<proto, policy, store, rootDone>>
  BY InternIsIdentity DEF onKeyDone, Room, Const
<1>2. /\ frames \in Seq(FrameT) /\ frames # <<>> /\ len \in 1 .. len
      /\ top \in FrameT /\ FrameShape(top, FALSE) /\ Len(frames) = len
      /\ len \in 1 .. Len(frames)
  BY <1>1, TopFrame DEF TypesOK
<1>3. top.at = <<>>
  <2>1. Len(top.at) = 0 /\ top.at \in Seq(Members)
    BY <1>1, <1>2, FrameFields DEF FrameShape
  <2> QED
    BY <2>1, EmptySeq
<1>4. top.seen \in Seq(Words) /\ (~PolicyChecks => top.seen = <<>>)
  BY <1>2, FrameFields DEF FrameShape
<1>5. cache' \in [SlotsUsed -> Words \cup {None}]
  <2>1. cache \in [SlotsUsed -> Words \cup {None}] /\ Slot[w] \in SlotsUsed
    BY DEF TypesOK, SlotsUsed
  <2> QED
    BY <1>1, <2>1
<1>6. act \in Actions /\ Do("Skip") \in Actions /\ pend \in Actions
  BY ActionFields DEF TypesOK
<1> DEFINE V == [top EXCEPT !.ph = "value", !.at = <<w>>]
           keys == IF PolicyChecks /\ ~Seen(w) THEN Append(top.seen, w)
                   ELSE top.seen
<1>7. keys \in Seq(Words) /\ (~PolicyChecks => keys = <<>>)
  BY <1>4, AppendProperties
<1>8. /\ V.seen = top.seen /\ V = Keyed(top, w, top.seen)
      /\ \A k : [V EXCEPT !.seen = k] = Keyed(top, w, k)
  BY <1>2 DEF FrameT, Keyed
<1> DEFINE valued == [frames EXCEPT ![len] = V]
<1>9. \A W : [valued EXCEPT ![len] = W] = [frames EXCEPT ![len] = W]
  <2> HIDE DEF V
  <2> QED
    BY <1>2
<1>10. valued[len] = V
  <2> HIDE DEF V
  <2> QED
    BY <1>2, ExceptSeq
<1>11. /\ pend' \in Actions /\ dead' \in BOOLEAN
       /\ IF Repeated(w)
          THEN calls' = <<>> /\ (PolicyBails => dead' = TRUE)
          ELSE calls' = Told(cur, "OnKey", place)
  <2>1. CASE Repeated(w)
    <3>1. /\ calls' = <<>> /\ dead' = PolicyBails
          /\ pend' = IF PolicyBails THEN pend ELSE Do("Skip")
      BY <1>1, <2>1 DEF OnKey, Repeated
    <3>2. PolicyBails \in BOOLEAN
      BY DEF PolicyBails
    <3> QED
      BY <1>6, <2>1, <3>1, <3>2
  <2>2. CASE ~Repeated(w)
    <3>1. /\ calls' = Told(cur, "OnKey", place) /\ pend' = act
          /\ dead' = (act.kind = "Bail")
      BY <1>1, <2>2 DEF OnKey, Repeated
    <3> QED
      BY <1>6, <2>2, <3>1
  <2> QED
    BY <2>1, <2>2
<1>12. frames' = [frames EXCEPT ![len] = Keyed(top, w, keys)]
  <2>1. CASE PolicyChecks /\ ~Seen(w)
    <3>1. frames' = [valued EXCEPT ![len] =
                       [valued[len] EXCEPT !.seen = Append(valued[len].seen, w)]]
      BY <1>1, <2>1 DEF OnKey, top
    <3>2. frames' = [valued EXCEPT ![len] = Keyed(top, w, Append(top.seen, w))]
      <4> HIDE DEF valued, V
      <4> QED
        BY <1>8, <1>10, <3>1
    <3>3. frames' = [frames EXCEPT ![len] = Keyed(top, w, Append(top.seen, w))]
      <4> HIDE DEF valued, V
      <4> QED
        BY <1>9, <3>2
    <3> QED
      BY <2>1, <3>3
  <2>2. CASE ~(PolicyChecks /\ ~Seen(w))
    <3>1. frames' = valued
      BY <1>1, <2>2 DEF OnKey, top
    <3> QED
      BY <1>8, <2>2, <3>1
  <2> QED
    BY <2>1, <2>2
<1> HIDE DEF keys
<1>13. /\ keys \in Seq(Words) /\ (~PolicyChecks => keys = <<>>)
       /\ frames' = [frames EXCEPT ![len] = Keyed(top, w, keys)]
       /\ path' = Append(path, w)
       /\ len > 0 /\ top.kind = "object" /\ top.at = <<>>
       /\ top.n < MaxMembers
       /\ pend' \in Actions /\ dead' \in BOOLEAN
       /\ cache' \in [SlotsUsed -> Words \cup {None}]
       /\ UNCHANGED <<proto, policy, store, rootDone>>
       /\ IF Repeated(w)
          THEN calls' = <<>> /\ (PolicyBails => dead' = TRUE)
          ELSE calls' = Told(cur, "OnKey", Append(path, w))
  BY <1>1, <1>3, <1>5, <1>7, <1>11, <1>12
<1> QED
  BY <1>13 DEF keys

\* A key leaves the frames in the middle of a member.
LEMMA KeyedInside ==
    ASSUME NEW w \in Words, NEW keys \in Seq(Words),
           TypesOK, Shape(frames, path), ~PolicyChecks => keys = <<>>,
           len > 0, top.kind = "object", top.at = <<>>, top.n < MaxMembers
    PROVE  LET fs == [frames EXCEPT ![len] = Keyed(top, w, keys)] IN
           /\ fs \in Seq(FrameT) /\ Len(fs) = len
           /\ Inside(fs, Append(path, w)) /\ Shape(fs, Append(path, w))
<1>1. /\ frames \in Seq(FrameT) /\ frames # <<>> /\ top \in FrameT
      /\ Len(frames) = len /\ path \in Seq(Members)
  BY TopFrame DEF TypesOK
<1> DEFINE f == Keyed(top, w, keys)
           fs == [frames EXCEPT ![len] = f]
<1>2. f \in FrameT /\ f.at = <<w>> /\ FrameShape(f, TRUE)
  BY <1>1, KeyedFacts
<1>3. f.kind = "object" /\ f.ph = "value"
  BY <1>1 DEF Keyed, FrameT
<1> HIDE DEF f
<1>4. w \in Members /\ frames[Len(frames)].at = <<>>
  BY DEF Members, top, len
<1>5. Inside([frames EXCEPT ![Len(frames)] = f], Append(path, w))
  BY <1>1, <1>2, <1>4, NameAdded
<1>6. /\ [frames EXCEPT ![Len(frames)] = f] \in Seq(FrameT)
      /\ Len([frames EXCEPT ![Len(frames)] = f]) = len
      /\ [frames EXCEPT ![Len(frames)] = f][len] = f
  BY <1>1, <1>2, ReplaceTop
<1>7. /\ fs \in Seq(FrameT) /\ Len(fs) = len /\ fs[len] = f
      /\ Inside(fs, Append(path, w))
  BY <1>1, <1>5, <1>6
<1> HIDE DEF fs
<1>8. Shape(fs, Append(path, w))
  BY <1>3, <1>7, InsideShape
<1> QED
  BY <1>7, <1>8 DEF fs, f

LEMMA KeyInside ==
    ASSUME NEW w \in Words, NEW escaped \in BOOLEAN, NEW act \in Answers,
           TypesOK, ~dead, Shape(frames, path), onKeyDone(w, escaped, act)
    PROVE  /\ frames' \in Seq(FrameT) /\ Len(frames') = len
           /\ Inside(frames', path') /\ Shape(frames', path')
<1> DEFINE keys == IF PolicyChecks /\ ~Seen(w) THEN Append(top.seen, w)
                   ELSE top.seen
           fs == [frames EXCEPT ![len] = Keyed(top, w, keys)]
<1>1. /\ keys \in Seq(Words) /\ (~PolicyChecks => keys = <<>>)
      /\ frames' = fs /\ path' = Append(path, w)
      /\ len > 0 /\ top.kind = "object" /\ top.at = <<>>
      /\ top.n < MaxMembers
  BY KeyStep
<1> HIDE DEF keys
<1>2. /\ fs \in Seq(FrameT) /\ Len(fs) = len
      /\ Inside(fs, Append(path, w)) /\ Shape(fs, Append(path, w))
  BY <1>1, KeyedInside
<1> QED
  BY <1>1, <1>2

\* An element begins.
LEMMA ElemInside ==
    ASSUME TypesOK, Shape(frames, path), len > 0, top.kind = "array", Room
    PROVE  LET fs == [frames EXCEPT ![len] = Indexed(top)] IN
           /\ fs \in Seq(FrameT) /\ Len(fs) = len
           /\ Inside(fs, Append(path, top.n))
           /\ top.at = <<>> /\ top.idx + 1 = top.n
<1>1. /\ frames \in Seq(FrameT) /\ frames # <<>> /\ top \in FrameT
      /\ Len(frames) = len /\ path \in Seq(Members) /\ FrameShape(top, FALSE)
  BY TopFrame DEF TypesOK
<1> DEFINE f == Indexed(top)
<1>2. /\ f \in FrameT /\ f.at = <<top.n>> /\ FrameShape(f, TRUE)
      /\ top.at = <<>> /\ top.idx + 1 = top.n
  BY <1>1, IndexedFacts DEF Room
<1> HIDE DEF f
<1>3. top.n \in Members /\ frames[Len(frames)].at = <<>>
  BY <1>1, <1>2, FrameFields DEF Members, top, len
<1>4. Inside([frames EXCEPT ![Len(frames)] = f], Append(path, top.n))
  BY <1>1, <1>2, <1>3, NameAdded
<1>5. /\ [frames EXCEPT ![Len(frames)] = f] \in Seq(FrameT)
      /\ Len([frames EXCEPT ![Len(frames)] = f]) = len
  BY <1>1, <1>2, ReplaceTop
<1>6. LET fs == [frames EXCEPT ![len] = f] IN
      /\ fs \in Seq(FrameT) /\ Len(fs) = len
      /\ Inside(fs, Append(path, top.n))
  BY <1>1, <1>4, <1>5
<1> QED
  BY <1>2, <1>6 DEF f

\* The value of a key begins.
LEMMA MemberInside ==
    ASSUME TypesOK, Shape(frames, path), len > 0, top.kind # "array",
           top.ph = "value"
    PROVE  /\ frames \in Seq(FrameT) /\ Inside(frames, path)
           /\ top.kind = "object" /\ Len(top.at) = 1
<1>1. /\ frames \in Seq(FrameT) /\ frames # <<>> /\ top \in FrameT
      /\ path \in Seq(Members) /\ FrameShape(top, FALSE) /\ len \in Nat
      /\ Len(frames) = len
  BY TopFrame DEF TypesOK
<1>2. top.kind = "object"
  BY <1>1, FrameFields DEF Containers
<1>3. Len(top.at) = 1 /\ FrameShape(top, TRUE)
  BY <1>1, <1>2 DEF FrameShape
<1>4. ASSUME NEW i \in 1 .. Len(frames)
      PROVE  FrameShape(frames[i], TRUE)
  <2>1. CASE i = len
    BY <1>3, <2>1 DEF top
  <2>2. CASE i # len
    <3>1. i < Len(frames)
      BY <1>1, <2>2
    <3>2. FrameShape(frames[i], i < Len(frames))
      BY DEF Shape
    <3> QED
      BY <3>1, <3>2 DEF FrameShape
  <2> QED
    BY <2>1, <2>2
<1>5. Names(path, frames)
  BY DEF Shape
<1>6. Inside(frames, path)
  BY <1>1, <1>4, <1>5 DEF Inside
<1> QED
  BY <1>1, <1>2, <1>3, <1>6

\* The frames, the path and the callbacks when the value of a member starts.
Begun == IF top.kind = "array" THEN [frames EXCEPT ![len] = Indexed(top)]
         ELSE frames
Here == IF top.kind = "array" THEN Append(path, top.idx + 1) ELSE path
AskedHere(elem) ==
    (IF top.kind = "array" THEN Told(cur, "OnElem", Here) ELSE <<>>)
        \o (IF elem.kind = "Probe" THEN Told(cur, "OnStart", Here) ELSE <<>>)

\* A value starts inside a member, and its answer is carried out there.
LEMMA ValueStep ==
    ASSUME NEW kind \in Kinds, NEW elem, NEW started \in Actions,
           NEW bails \in BOOLEAN,
           TypesOK, ~dead, Shape(frames, path),
           valueStart(kind, elem, started, bails)
    PROVE  /\ Begun \in Seq(FrameT) /\ Len(Begun) = len /\ Inside(Begun, Here)
           /\ apply(Begun, started, kind, Here, AskedHere(elem), bails)
           /\ len > 0 /\ top.hook \in Hooks \cup {None}
           /\ IF top.kind = "array" THEN Room ELSE top.ph = "value"
           /\ UNCHANGED <<proto, policy, cache, rootDone>>
<1>1. /\ len > 0 /\ UNCHANGED <<proto, policy, cache, rootDone>>
      /\ IF top.kind = "array" THEN Room ELSE top.ph = "value"
  BY DEF valueStart, Const
<1>2. top.hook \in Hooks \cup {None}
  BY <1>1, TopFrame, FrameFields DEF TypesOK
<1>3. apply(Begun, started, kind, Here, AskedHere(elem), bails)
  BY DEF valueStart, Begun, Here, AskedHere, Indexed, top
<1>4. /\ Begun \in Seq(FrameT) /\ Len(Begun) = len /\ Inside(Begun, Here)
  <2>1. CASE top.kind = "array"
    <3>1. LET fs == [frames EXCEPT ![len] = Indexed(top)] IN
           /\ fs \in Seq(FrameT) /\ Len(fs) = len
           /\ Inside(fs, Append(path, top.n))
           /\ top.at = <<>> /\ top.idx + 1 = top.n
      BY <1>1, <2>1, ElemInside
    <3> QED
      BY <2>1, <3>1 DEF Begun, Here
  <2>2. CASE top.kind # "array"
    <3>1. frames \in Seq(FrameT) /\ Inside(frames, path)
      BY <1>1, <2>2, MemberInside
    <3> QED
      BY <2>2, <3>1 DEF Begun, Here, len
  <2> QED
    BY <2>1, <2>2
<1> QED
  BY <1>1, <1>2, <1>3, <1>4

-----------------------------------------------------------------------------
(* The end of a container. *)

\* The frame that closes reads no member, and the one around it does.
LEMMA CloseStep ==
    ASSUME NEW bails \in BOOLEAN, TypesOK, ~dead, Shape(frames, path),
           closeContainer(bails)
    PROVE  LET outer == SubSeq(frames, 1, len - 1) IN
           /\ len > 0 /\ top.at = <<>> /\ frames \in Seq(FrameT)
           /\ outer \in Seq(FrameT) /\ Len(outer) = len - 1
           /\ \A i \in 1 .. len - 1 : outer[i] = frames[i]
           /\ len = 1 => outer = <<>> /\ path = <<>>
           /\ len > 1 => Inside(outer, path)
           /\ calls' = Told(LeftTo, "OnLeave", path)
           /\ dead' = bails /\ rootDone' = (~bails /\ len = 1)
           /\ store' \in [1 .. MaxFrames -> Seq(Words)]
           /\ IF bails THEN UNCHANGED <<frames, path>>
              ELSE IF len = 1 THEN frames' = outer /\ UNCHANGED path
              ELSE afterValue(outer, path)
           /\ UNCHANGED <<proto, policy, pend, cache>>
<1> DEFINE outer == SubSeq(frames, 1, len - 1)
<1>1. /\ len > 0 /\ (top.kind = "object" => top.ph # "value")
      /\ calls' = Told(LeftTo, "OnLeave", path)
      /\ dead' = bails /\ rootDone' = (~bails /\ len = 1)
      /\ store' = IF bails THEN store ELSE [store EXCEPT ![len] = top.seen]
      /\ IF bails THEN UNCHANGED <<frames, path>>
         ELSE IF len = 1 THEN frames' = outer /\ UNCHANGED path
         ELSE afterValue(outer, path)
      /\ UNCHANGED <<proto, policy, pend, cache>>
  BY DEF closeContainer, Const
<1>2. /\ frames \in Seq(FrameT) /\ frames # <<>> /\ top \in FrameT
      /\ len \in Nat /\ Len(frames) = len /\ FrameShape(top, FALSE)
      /\ path \in Seq(Members)
  BY <1>1, TopFrame DEF TypesOK
<1>3. top.at = <<>>
  <2>1. Len(top.at) = 0 /\ top.at \in Seq(Members)
    BY <1>1, <1>2, FrameFields DEF FrameShape
  <2> QED
    BY <2>1, EmptySeq
<1>4. /\ outer \in Seq(FrameT) /\ Len(outer) = len - 1
      /\ \A i \in 1 .. len - 1 : outer[i] = frames[i]
  BY <1>2, CloseInner
<1>5. len = 1 => outer = <<>> /\ path = <<>>
  <2>1. Len(path) = Len(frames) - 1 + Len(frames[Len(frames)].at)
    BY <1>2 DEF Shape, Names
  <2>2. Len(<<>>) = 0 /\ frames[Len(frames)].at = <<>>
    BY <1>2, <1>3, EmptySeq DEF top
  <2>3. len = 1 => Len(path) = 0 /\ Len(outer) = 0
    <3>1. Len(frames[Len(frames)].at) = 0
      BY <2>2
    <3> QED
      BY <1>2, <1>4, <2>1, <3>1
  <2> HIDE DEF outer
  <2> QED
    BY <1>2, <1>4, <2>3, EmptySeq
<1>6. len > 1 => Inside(outer, path)
  <2>1. frames[Len(frames)].at = <<>> /\ Len(frames) = len
    BY <1>2, <1>3 DEF top
  <2>2. len > 1 => Inside(SubSeq(frames, 1, Len(frames) - 1), path)
    BY <1>2, <2>1, NamesOutside
  <2> QED
    BY <2>1, <2>2
<1>7. store' \in [1 .. MaxFrames -> Seq(Words)]
  <2>1. store \in [1 .. MaxFrames -> Seq(Words)] /\ top.seen \in Seq(Words)
    BY <1>2, FrameFields DEF TypesOK
  <2> QED
    BY <1>1, <2>1
<1> HIDE DEF outer
<1>8. /\ len > 0 /\ top.at = <<>> /\ frames \in Seq(FrameT)
      /\ outer \in Seq(FrameT) /\ Len(outer) = len - 1
      /\ \A i \in 1 .. len - 1 : outer[i] = frames[i]
      /\ len = 1 => outer = <<>> /\ path = <<>>
      /\ len > 1 => Inside(outer, path)
      /\ calls' = Told(LeftTo, "OnLeave", path)
      /\ dead' = bails /\ rootDone' = (~bails /\ len = 1)
      /\ store' \in [1 .. MaxFrames -> Seq(Words)]
      /\ IF bails THEN UNCHANGED <<frames, path>>
         ELSE IF len = 1 THEN frames' = outer /\ UNCHANGED path
         ELSE afterValue(outer, path)
      /\ UNCHANGED <<proto, policy, pend, cache>>
  BY <1>1, <1>2, <1>3, <1>4, <1>5, <1>6, <1>7
<1> QED
  BY <1>8 DEF outer

-----------------------------------------------------------------------------
(* Invariance. *)

\* The invariant is about the frames and the path once the rest has its type.
LEMMA InvGiven ==
    ASSUME Laid(frames', path'), ~dead' => Shape(frames', path'),
           store' \in [1 .. MaxFrames -> Seq(Words)], pend' \in Actions,
           cache' \in [SlotsUsed -> Words \cup {None}],
           proto' \in Protocols, policy' = policy, policy \in Policies,
           rootDone' \in BOOLEAN, dead' \in BOOLEAN
    PROVE  IInv'
<1>1. ~dead' => Shape(frames, path)'
  BY DEF Shape, FrameShape, Names, PolicyChecks
<1>2. TypesOK'
  BY DEF TypesOK, Laid, FramesOK, len
<1> QED
  BY <1>1, <1>2 DEF IInv

LEMMA InitInv == Init => IInv
<1> SUFFICES ASSUME Init PROVE IInv
  OBVIOUS
<1>1. /\ frames = <<>> /\ path = <<>> /\ Len(<<>>) = 0
      /\ <<>> \in Seq(FrameT) /\ <<>> \in Seq(Members) /\ <<>> \in Seq(Words)
      /\ MaxFrames \in Nat
  BY EmptySeq, DispatchAssumption DEF Init
<1>2. Laid(frames, path)
  BY <1>1 DEF Laid, FramesOK
<1>3. Shape(frames, path)
  BY <1>1 DEF Shape, Names
<1>4. pend \in Actions
  BY ActionFields DEF Init
<1>5. TypesOK
  BY <1>1, <1>2, <1>4 DEF Init, TypesOK, Laid, len
<1> QED
  BY <1>3, <1>5 DEF IInv

LEMMA NextInv == IInv /\ [Next]_vars => IInv'
<1> SUFFICES ASSUME IInv, [Next]_vars PROVE IInv'
  OBVIOUS
<1>t. /\ TypesOK /\ Laid(frames, path)
      /\ store \in [1 .. MaxFrames -> Seq(Words)] /\ pend \in Actions
      /\ cache \in [SlotsUsed -> Words \cup {None}]
      /\ proto \in Protocols /\ policy \in Policies
      /\ rootDone \in BOOLEAN /\ dead \in BOOLEAN
      /\ (~dead => Shape(frames, path))
  BY DEF IInv, TypesOK, Laid, len
<1>1. ASSUME NEW kind \in Containers, Root(kind)
      PROVE  IInv'
  <2> DEFINE f == Frame(kind, None)
  <2>1. /\ ~dead /\ len = 0 /\ frames' = Append(frames, f)
        /\ store' = [store EXCEPT ![len + 1] = <<>>]
        /\ UNCHANGED <<path, pend, cache, rootDone, dead, proto, policy>>
    BY <1>1 DEF Root, Reads, pushFrame, Const
  <2>2. frames \in Seq(FrameT) /\ Len(frames) = 0 /\ frames = <<>>
    BY <1>t, <2>1, EmptySeq DEF Laid, FramesOK, len
  <2>3. f \in FrameT /\ f.at = <<>> /\ FrameShape(f, FALSE)
    BY NewFrame
  <2> HIDE DEF f
  <2>4. /\ Append(frames, f) \in Seq(FrameT) /\ Len(Append(frames, f)) = 1
        /\ Append(frames, f)[1] = f /\ Append(frames, f) # <<>>
    BY <2>2, <2>3, OpenInside
  <2>5. Len(path) = 0 /\ Len(f.at) = 0 /\ path \in Seq(Members)
    BY <1>t, <2>1, <2>2, <2>3, EmptySeq DEF Shape, Names, Laid
  <2>6. Shape(Append(frames, f), path)
    <3> DEFINE g == Append(frames, f)
    <3>1. Len(g) = 1 /\ g[1] = f /\ g # <<>>
      BY <2>4
    <3> HIDE DEF g
    <3>2. \A i \in 1 .. Len(g) : FrameShape(g[i], i < Len(g))
      BY <2>3, <3>1 DEF FrameShape
    <3>3. Names(path, g)
      BY <2>5, <3>1 DEF Names
    <3>4. Shape(g, path)
      BY <3>2, <3>3 DEF Shape
    <3> QED
      BY <3>4 DEF g
  <2>7. Laid(Append(frames, f), path)
    <3>1. 1 <= MaxFrames
      BY DispatchAssumption
    <3> QED
      BY <2>4, <2>5, <2>6, <3>1, ShapeLaid
  <2>8. store' \in [1 .. MaxFrames -> Seq(Words)]
    BY <1>t, <2>1, EmptySeq
  <2>9. Laid(frames', path') /\ Shape(frames', path')
    BY <2>1, <2>6, <2>7
  <2> QED
    BY <1>t, <2>1, <2>8, <2>9, InvGiven
<1>2. ASSUME NEW w \in Words, NEW escaped \in BOOLEAN, NEW act \in Answers,
             onKeyDone(w, escaped, act)
      PROVE  IInv'
  <2>1. ~dead /\ Shape(frames, path)
    BY <1>t, <1>2 DEF onKeyDone, Reads
  <2>2. /\ pend' \in Actions /\ dead' \in BOOLEAN
        /\ cache' \in [SlotsUsed -> Words \cup {None}]
        /\ UNCHANGED <<proto, policy, store, rootDone>>
    BY <1>t, <1>2, <2>1, KeyStep
  <2>3. /\ frames' \in Seq(FrameT) /\ Len(frames') = len
        /\ Inside(frames', path') /\ Shape(frames', path')
    BY <1>t, <1>2, <2>1, KeyInside
  <2>4. len <= MaxFrames
    BY <1>t DEF Laid, FramesOK, len
  <2>5. Laid(frames', path')
    BY <2>3, <2>4, InsideLaid
  <2> QED
    BY <1>t, <2>2, <2>3, <2>5, InvGiven
<1>3. CASE BadKey
  BY <1>t, <1>3, InvGiven DEF BadKey, Const
<1>4. ASSUME NEW w \in Words, Elsewhere(w)
      PROVE  IInv'
  <2>1. Slot[w] \in SlotsUsed
    BY DEF SlotsUsed
  <2>2. cache' \in [SlotsUsed -> Words \cup {None}]
    BY <1>t, <1>4, <2>1 DEF Elsewhere
  <2> QED
    BY <1>t, <1>4, <2>2, InvGiven DEF Elsewhere, Const
<1>5. ASSUME NEW kind \in Kinds, NEW bails \in BOOLEAN,
             NEW elem \in Offered, NEW started \in Started(elem),
             valueStart(kind, elem, started, bails)
      PROVE  IInv'
  <2>1. ~dead /\ Shape(frames, path)
    BY <1>t, <1>5 DEF valueStart, Reads
  <2>2. started \in Actions
    BY <1>t, ActionFields DEF Offered, Started
  <2>3. /\ Begun \in Seq(FrameT) /\ Len(Begun) = len /\ Inside(Begun, Here)
        /\ apply(Begun, started, kind, Here, AskedHere(elem), bails)
        /\ len > 0 /\ top.hook \in Hooks \cup {None}
        /\ UNCHANGED <<proto, policy, cache, rootDone>>
    BY <1>t, <1>5, <2>1, <2>2, ValueStep
  <2>4. len \in Nat
    BY <2>3, LenProperties
  <2>5. Laid(frames', path') /\ (~dead' => Shape(frames', path'))
    BY <1>t, <2>1, <2>2, <2>3, <2>4, ApplyInv
  <2>6. /\ pend' \in Actions /\ dead' \in BOOLEAN
        /\ store' \in [1 .. MaxFrames -> Seq(Words)]
    BY <1>t, <2>1, <2>2, <2>3, <2>4, AppliedTypes
  <2> QED
    BY <1>t, <2>3, <2>5, <2>6, InvGiven
<1>6. ASSUME NEW bails \in BOOLEAN, closeContainer(bails)
      PROVE  IInv'
  <2> DEFINE outer == SubSeq(frames, 1, len - 1)
  <2>1. ~dead /\ Shape(frames, path)
    BY <1>t, <1>6 DEF closeContainer, Reads
  <2>2. /\ len > 0 /\ frames \in Seq(FrameT)
        /\ outer \in Seq(FrameT) /\ Len(outer) = len - 1
        /\ len = 1 => outer = <<>> /\ path = <<>>
        /\ len > 1 => Inside(outer, path)
        /\ dead' = bails /\ rootDone' = (~bails /\ len = 1)
        /\ store' \in [1 .. MaxFrames -> Seq(Words)]
        /\ IF bails THEN UNCHANGED <<frames, path>>
           ELSE IF len = 1 THEN frames' = outer /\ UNCHANGED path
           ELSE afterValue(outer, path)
        /\ UNCHANGED <<proto, policy, pend, cache>>
    BY <1>t, <1>6, <2>1, CloseStep
  <2> HIDE DEF outer
  <2>3. len \in Nat /\ len <= MaxFrames /\ MaxFrames \in Nat
    BY <1>t, <2>2, LenProperties, DispatchAssumption DEF Laid, FramesOK, len
  <2>4. Laid(frames', path') /\ (~dead' => Shape(frames', path'))
    <3>1. CASE bails
      BY <1>t, <2>2, <3>1
    <3>2. CASE ~bails /\ len = 1
      <4>1. frames' = <<>> /\ path' = <<>> /\ Len(<<>>) = 0
            /\ <<>> \in Seq(FrameT) /\ <<>> \in Seq(Members)
        BY <2>2, <3>2, EmptySeq
      <4>2. Laid(<<>>, <<>>)
        BY <2>3, <4>1 DEF Laid, FramesOK
      <4>3. Shape(<<>>, <<>>)
        BY <4>1 DEF Shape, Names
      <4> QED
        BY <4>1, <4>2, <4>3
    <3>3. CASE ~bails /\ len # 1
      <4>1. afterValue(outer, path) /\ Inside(outer, path)
            /\ Len(outer) <= MaxFrames
        BY <2>2, <2>3, <3>3
      <4> QED
        BY <2>2, <4>1, AfterValue
    <3> QED
      BY <3>1, <3>2, <3>3
  <2>5. rootDone' \in BOOLEAN /\ dead' \in BOOLEAN
    BY <2>2
  <2> QED
    BY <1>t, <2>2, <2>4, <2>5, InvGiven
<1>7. CASE UNCHANGED vars
  BY <1>t, <1>7, InvGiven DEF vars
<1> QED
  BY <1>1, <1>2, <1>3, <1>4, <1>5, <1>6, <1>7 DEF Next

\* The frames, the path and the keys they have seen belong together: a frame
\* is in the middle of a member exactly when something is open inside it or
\* its key was read, the path names those members, an array counts its
\* elements, and a policy that compares no keys keeps none (onKeyDone,
\* valueStart, apply, endRegion, closeContainer, pushFrame).
THEOREM Invariance == Spec => []IInv
<1> QED
  BY InitInv, NextInv, PTL DEF Spec

-----------------------------------------------------------------------------
(* What the contract sees of the frames. *)

HookIn(fs, i) ==
    IF i \in 1 .. Len(fs) /\ fs[i].hook # None THEN fs[i].hook ELSE proto

Keys(f) == {f.seen[j] : j \in DOMAIN f.seen}
Count(f) == IF f.kind = "object" THEN 0 ELSE f.n + Len(f.at)
Item(f, owner, issuer) ==
    [owner |-> owner, issuer |-> issuer, keys |-> Keys(f), n |-> Count(f),
     at |-> f.at]

Abs(fs) == [i \in 1 .. Len(fs) |-> Item(fs[i], HookIn(fs, i), HookIn(fs, i - 1))]

ItemT ==
    [owner : Hooks \cup Protocols, issuer : Hooks \cup Protocols,
     keys : SUBSET Words, n : Nat, at : Seq(Members)]

LEMMA OpenIsAbs ==
    /\ Open = Abs(frames)
    /\ \A i : hookAt(i) = HookIn(frames, i)
<1>1. \A i : hookAt(i) = HookIn(frames, i)
  BY DEF hookAt, HookIn, len
<1>2. Open = Abs(frames)
  BY <1>1 DEF Open, Abs, Item, Keys, Count, len
<1> QED
  BY <1>1, <1>2

LEMMA OpenNextIsAbs ==
    ASSUME proto' = proto
    PROVE  Open' = Abs(frames')
<1>1. Open' = Abs(frames)'
  <2>1. \A i : hookAt(i)' = HookIn(frames, i)'
    BY DEF hookAt, HookIn, len
  <2> QED
    BY <2>1 DEF Open, Abs, Item, Keys, Count, len
<1>2. Abs(frames)' = Abs(frames')
  BY DEF Abs, HookIn
<1> QED
  BY <1>1, <1>2

\* A frame as the contract sees it.
LEMMA ItemType ==
    ASSUME NEW f \in FrameT, NEW owner \in Hooks \cup Protocols,
           NEW issuer \in Hooks \cup Protocols
    PROVE  Item(f, owner, issuer) \in ItemT
<1>1. {f.seen[j] : j \in DOMAIN f.seen} \in SUBSET Words
  <2>1. f.seen \in Seq(Words)
    BY FrameFields
  <2>2. \A j \in DOMAIN f.seen : f.seen[j] \in Words
    BY <2>1, ElementOfSeq, LenProperties
  <2> QED
    BY <2>2
<1>2. (IF f.kind = "object" THEN 0 ELSE f.n + Len(f.at)) \in Nat
  BY FrameFields
<1>3. f.at \in Seq(Members)
  BY FrameFields
<1> QED
  BY <1>1, <1>2, <1>3 DEF Item, ItemT, Keys, Count

LEMMA HookType ==
    ASSUME NEW fs \in Seq(FrameT), NEW i, proto \in Protocols
    PROVE  HookIn(fs, i) \in Hooks \cup Protocols
<1>1. CASE i \in 1 .. Len(fs) /\ fs[i].hook # None
  <2>1. fs[i] \in FrameT
    BY <1>1, ElementOfSeq
  <2> QED
    BY <1>1, <2>1, FrameFields DEF HookIn
<1>2. CASE ~(i \in 1 .. Len(fs) /\ fs[i].hook # None)
  BY <1>2 DEF HookIn
<1> QED
  BY <1>1, <1>2

\* There is an open container for every frame.
LEMMA AbsType ==
    ASSUME NEW fs \in Seq(FrameT), proto \in Protocols
    PROVE  /\ Abs(fs) \in Seq(ItemT) /\ Len(Abs(fs)) = Len(fs)
           /\ \A i \in 1 .. Len(fs) :
                 Abs(fs)[i] = Item(fs[i], HookIn(fs, i), HookIn(fs, i - 1))
           /\ Len(fs) \in Nat
<1>1. Len(fs) \in Nat
  BY LenProperties
<1>2. ASSUME NEW i \in 1 .. Len(fs)
      PROVE  Item(fs[i], HookIn(fs, i), HookIn(fs, i - 1)) \in ItemT
  <2>1. fs[i] \in FrameT
    BY ElementOfSeq
  <2> QED
    BY <2>1, HookType, ItemType
<1>3. Abs(fs) \in [1 .. Len(fs) -> ItemT]
  BY <1>2 DEF Abs
<1>4. Abs(fs) \in Seq(ItemT) /\ Len(Abs(fs)) = Len(fs)
  BY <1>1, <1>3, LenProperties, SeqDef
<1> QED
  BY <1>1, <1>4 DEF Abs

\* Sequences of containers with the same length and the same items.
LEMMA SameItems ==
    ASSUME NEW s \in Seq(ItemT), NEW t \in Seq(ItemT), Len(s) = Len(t),
           \A i \in 1 .. Len(s) : s[i] = t[i]
    PROVE  s = t
BY SeqEqual

\* An innermost frame of the same hook is another innermost container.
LEMMA AbsReplace ==
    ASSUME NEW fs \in Seq(FrameT), fs # <<>>, proto \in Protocols,
           NEW f \in FrameT, f.hook = fs[Len(fs)].hook
    PROVE  Abs([fs EXCEPT ![Len(fs)] = f]) =
             [Abs(fs) EXCEPT ![Len(fs)] =
                 Item(f, HookIn(fs, Len(fs)), HookIn(fs, Len(fs) - 1))]
<1> DEFINE g == [fs EXCEPT ![Len(fs)] = f]
           it == Item(f, HookIn(fs, Len(fs)), HookIn(fs, Len(fs) - 1))
           s == [Abs(fs) EXCEPT ![Len(fs)] = it]
<1>1. /\ g \in Seq(FrameT) /\ Len(g) = Len(fs) /\ g # <<>>
      /\ g[Len(fs)] = f
      /\ \A i \in 1 .. Len(fs) - 1 : g[i] = fs[i]
      /\ Len(fs) \in Nat \ {0}
  BY ReplaceTop
<1>2. Len(fs) \in Nat /\ Len(fs) > 0
  BY LenPositive
<1>3. it \in ItemT
  BY HookType, ItemType
<1>4. /\ Abs(fs) \in Seq(ItemT) /\ Len(Abs(fs)) = Len(fs)
      /\ \A i \in 1 .. Len(fs) :
            Abs(fs)[i] = Item(fs[i], HookIn(fs, i), HookIn(fs, i - 1))
  BY AbsType
<1> HIDE DEF g, it
<1>5. /\ Abs(g) \in Seq(ItemT) /\ Len(Abs(g)) = Len(fs)
      /\ \A i \in 1 .. Len(fs) :
            Abs(g)[i] = Item(g[i], HookIn(g, i), HookIn(g, i - 1))
  BY <1>1, AbsType
<1>6. /\ s \in Seq(ItemT) /\ Len(s) = Len(fs)
      /\ \A i \in 1 .. Len(fs) : s[i] = IF i = Len(fs) THEN it ELSE Abs(fs)[i]
  BY <1>2, <1>3, <1>4, ExceptSeq
<1>7. ASSUME NEW i \in Int
      PROVE  HookIn(g, i) = HookIn(fs, i)
  <2>1. i \in 1 .. Len(fs) => g[i].hook = fs[i].hook
    <3>1. CASE i = Len(fs)
      BY <1>1, <3>1
    <3>2. CASE i # Len(fs)
      <4>1. i \in 1 .. Len(fs) => i \in 1 .. Len(fs) - 1
        BY <1>2, <3>2
      <4> QED
        BY <1>1, <4>1
    <3> QED
      BY <3>1, <3>2
  <2> QED
    BY <1>1, <2>1 DEF HookIn
<1> HIDE DEF s
<1>8. ASSUME NEW i \in 1 .. Len(fs)
      PROVE  Abs(g)[i] = s[i]
  <2>1. Abs(g)[i] = Item(g[i], HookIn(fs, i), HookIn(fs, i - 1))
    <3>1. i \in Int /\ i - 1 \in Int
      OBVIOUS
    <3>2. HookIn(g, i) = HookIn(fs, i) /\ HookIn(g, i - 1) = HookIn(fs, i - 1)
      BY <1>7, <3>1
    <3> QED
      BY <1>5, <3>2
  <2>2. CASE i = Len(fs)
    BY <1>1, <1>6, <2>1, <2>2 DEF it
  <2>3. CASE i # Len(fs)
    <3>1. i \in 1 .. Len(fs) - 1
      BY <1>2, <2>3
    <3>2. g[i] = fs[i] /\ s[i] = Abs(fs)[i]
      BY <1>1, <1>6, <2>3, <3>1
    <3> QED
      BY <1>4, <2>1, <3>2
  <2> QED
    BY <2>2, <2>3
<1>9. Abs(g) = s
  BY <1>5, <1>6, <1>8, SameItems
<1> QED
  BY <1>9 DEF g, s, it

\* A frame opened inside another is a container that its own hook owns, or
\* else the protocol, and that the hook around it has issued.
LEMMA AbsAppend ==
    ASSUME NEW fs \in Seq(FrameT), proto \in Protocols, NEW f \in FrameT
    PROVE  Abs(Append(fs, f)) =
             Append(Abs(fs),
                    Item(f, IF f.hook # None THEN f.hook ELSE proto,
                         HookIn(fs, Len(fs))))
<1> DEFINE g == Append(fs, f)
           it == Item(f, IF f.hook # None THEN f.hook ELSE proto,
                      HookIn(fs, Len(fs)))
           s == Append(Abs(fs), it)
<1>1. /\ g \in Seq(FrameT) /\ Len(g) = Len(fs) + 1
      /\ g[Len(fs) + 1] = f
      /\ \A i \in 1 .. Len(fs) : g[i] = fs[i]
      /\ Len(fs) \in Nat
  BY OpenInside
<1>2. /\ Abs(fs) \in Seq(ItemT) /\ Len(Abs(fs)) = Len(fs)
      /\ \A i \in 1 .. Len(fs) :
            Abs(fs)[i] = Item(fs[i], HookIn(fs, i), HookIn(fs, i - 1))
  BY AbsType
<1>3. it \in ItemT
  <2>1. (IF f.hook # None THEN f.hook ELSE proto) \in Hooks \cup Protocols
    BY FrameFields
  <2> QED
    BY <2>1, HookType, ItemType
<1> HIDE DEF g, it
<1>4. /\ Abs(g) \in Seq(ItemT) /\ Len(Abs(g)) = Len(fs) + 1
      /\ \A i \in 1 .. Len(fs) + 1 :
            Abs(g)[i] = Item(g[i], HookIn(g, i), HookIn(g, i - 1))
  BY <1>1, AbsType
<1>5. /\ s \in Seq(ItemT) /\ Len(s) = Len(fs) + 1
      /\ s[Len(fs) + 1] = it
      /\ \A i \in 1 .. Len(fs) : s[i] = Abs(fs)[i]
  BY <1>1, <1>2, <1>3, AppendProperties
<1>6. ASSUME NEW i \in Int, i <= Len(fs)
      PROVE  HookIn(g, i) = HookIn(fs, i)
  <2>1. i \in 1 .. Len(g) <=> i \in 1 .. Len(fs)
    BY <1>1, <1>6
  <2> QED
    BY <1>1, <2>1 DEF HookIn
<1>7. HookIn(g, Len(fs) + 1) = IF f.hook # None THEN f.hook ELSE proto
  <2>1. Len(fs) + 1 \in 1 .. Len(g)
    BY <1>1
  <2> QED
    BY <1>1, <2>1 DEF HookIn
<1> HIDE DEF s
<1>8. ASSUME NEW i \in 1 .. Len(fs) + 1
      PROVE  Abs(g)[i] = s[i]
  <2>1. CASE i = Len(fs) + 1
    <3>1. i - 1 = Len(fs) /\ Len(fs) \in Int
      BY <1>1, <2>1
    <3>2. HookIn(g, i - 1) = HookIn(fs, Len(fs))
      BY <1>1, <1>6, <3>1
    <3>3. Abs(g)[i] = Item(f, IF f.hook # None THEN f.hook ELSE proto,
                           HookIn(fs, Len(fs)))
      BY <1>1, <1>4, <1>7, <2>1, <3>2
    <3> QED
      BY <1>5, <2>1, <3>3 DEF it
  <2>2. CASE i # Len(fs) + 1
    <3>1. /\ i \in 1 .. Len(fs) /\ i \in Int /\ i - 1 \in Int
          /\ i <= Len(fs) /\ i - 1 <= Len(fs)
      BY <1>1, <2>2
    <3>2. HookIn(g, i) = HookIn(fs, i) /\ HookIn(g, i - 1) = HookIn(fs, i - 1)
      BY <1>6, <3>1
    <3> QED
      BY <1>1, <1>2, <1>4, <1>5, <3>1, <3>2
  <2> QED
    BY <2>1, <2>2
<1>9. Abs(g) = s
  BY <1>4, <1>5, <1>8, SameItems
<1> QED
  BY <1>9 DEF g, s, it

\* The frames around the innermost one are the containers around it.
LEMMA AbsOuter ==
    ASSUME NEW fs \in Seq(FrameT), proto \in Protocols, fs # <<>>
    PROVE  Abs(SubSeq(fs, 1, Len(fs) - 1)) = SubSeq(Abs(fs), 1, Len(fs) - 1)
<1> DEFINE g == SubSeq(fs, 1, Len(fs) - 1)
           s == SubSeq(Abs(fs), 1, Len(fs) - 1)
<1>1. /\ g \in Seq(FrameT) /\ Len(g) = Len(fs) - 1
      /\ \A i \in 1 .. Len(fs) - 1 : g[i] = fs[i]
      /\ Len(fs) \in Nat \ {0}
  BY CloseInner
<1>2. Len(fs) \in Nat /\ Len(fs) > 0
  BY LenPositive
<1>3. /\ Abs(fs) \in Seq(ItemT) /\ Len(Abs(fs)) = Len(fs)
      /\ \A i \in 1 .. Len(fs) :
            Abs(fs)[i] = Item(fs[i], HookIn(fs, i), HookIn(fs, i - 1))
  BY AbsType
<1> HIDE DEF g
<1>4. /\ Abs(g) \in Seq(ItemT) /\ Len(Abs(g)) = Len(fs) - 1
      /\ \A i \in 1 .. Len(fs) - 1 :
            Abs(g)[i] = Item(g[i], HookIn(g, i), HookIn(g, i - 1))
  BY <1>1, AbsType
<1>5. /\ s \in Seq(ItemT) /\ Len(s) = Len(fs) - 1
      /\ \A i \in 1 .. Len(fs) - 1 : s[i] = Abs(fs)[i]
  <2>1. \A i \in 1 .. Len(fs) - 1 : Abs(fs)[i] \in ItemT
    <3>1. \A i \in 1 .. Len(fs) - 1 : i \in 1 .. Len(Abs(fs))
      BY <1>2, <1>3
    <3> QED
      BY <1>3, <3>1, ElementOfSeq
  <2>2. 1 \in Int /\ Len(fs) - 1 \in Int
    BY <1>2
  <2>3. /\ s \in Seq(ItemT)
        /\ Len(s) = IF 1 <= Len(fs) - 1 THEN Len(fs) - 1 - 1 + 1 ELSE 0
        /\ \A i \in 1 .. Len(fs) - 1 - 1 + 1 : s[i] = Abs(fs)[1 + i - 1]
    BY <1>3, <2>1, <2>2, SubSeqProperties
  <2> HIDE DEF s
  <2>4. Len(s) = Len(fs) - 1
    <3>1. CASE 1 <= Len(fs) - 1
      BY <1>2, <2>3, <3>1
    <3>2. CASE ~(1 <= Len(fs) - 1)
      <4>1. Len(fs) = 1
        BY <1>2, <3>2, OneLeft
      <4>2. Len(s) = 0
        BY <2>3, <3>2
      <4> QED
        BY <4>1, <4>2
    <3> QED
      BY <3>1, <3>2
  <2>5. ASSUME NEW i \in 1 .. Len(fs) - 1
        PROVE  s[i] = Abs(fs)[i]
    <3>1. i \in 1 .. Len(fs) - 1 - 1 + 1 /\ 1 + i - 1 = i
      BY <1>2
    <3> QED
      BY <2>3, <3>1
  <2> QED
    BY <2>3, <2>4, <2>5
<1>6. ASSUME NEW i \in Int, i <= Len(fs) - 1
      PROVE  HookIn(g, i) = HookIn(fs, i)
  <2>1. i \in 1 .. Len(g) <=> i \in 1 .. Len(fs)
    BY <1>1, <1>2, <1>6
  <2>2. i \in 1 .. Len(g) => g[i] = fs[i]
    BY <1>1
  <2> QED
    BY <2>1, <2>2 DEF HookIn
<1> HIDE DEF s
<1>7. ASSUME NEW i \in 1 .. Len(fs) - 1
      PROVE  Abs(g)[i] = s[i]
  <2>1. /\ i \in 1 .. Len(fs) /\ i \in Int /\ i - 1 \in Int
        /\ i <= Len(fs) - 1 /\ i - 1 <= Len(fs) - 1
    BY <1>2
  <2>2. HookIn(g, i) = HookIn(fs, i) /\ HookIn(g, i - 1) = HookIn(fs, i - 1)
    BY <1>6, <2>1
  <2> QED
    BY <1>1, <1>3, <1>4, <1>5, <2>1, <2>2
<1>8. Abs(g) = s
  BY <1>4, <1>5, <1>7, SameItems
<1> QED
  BY <1>8 DEF g, s

-----------------------------------------------------------------------------
(* The callbacks. *)

\* The innermost container.
LEMMA TopItem ==
    ASSUME TypesOK, Shape(frames, path), len > 0
    PROVE  /\ Open \in Seq(ItemT) /\ Len(Open) = len /\ Open # <<>>
           /\ Contract!Top = Item(top, cur, LeftTo)
           /\ Contract!Top.owner = cur /\ Contract!Top.issuer = LeftTo
           /\ Contract!Top.at = top.at
           /\ cur = HookIn(frames, len) /\ LeftTo = HookIn(frames, len - 1)
<1>1. /\ frames \in Seq(FrameT) /\ Len(frames) = len /\ len \in 1 .. len
      /\ len \in Nat /\ proto \in Protocols
  BY TopFrame DEF TypesOK
<1>2. /\ Abs(frames) \in Seq(ItemT) /\ Len(Abs(frames)) = len
      /\ Abs(frames)[len] = Item(frames[len], HookIn(frames, len),
                                 HookIn(frames, len - 1))
  BY <1>1, AbsType
<1>3. /\ Open = Abs(frames) /\ cur = HookIn(frames, len)
      /\ LeftTo = HookIn(frames, len - 1)
  BY OpenIsAbs DEF cur, LeftTo
<1>4. Contract!Top = Item(top, cur, LeftTo)
  BY <1>2, <1>3 DEF Contract!Top, top
<1>5. Open # <<>>
  <2>1. Len(Open) > 0
    BY <1>2, <1>3
  <2> QED
    BY <2>1, EmptySeq
<1>6. /\ Item(top, cur, LeftTo).owner = cur
      /\ Item(top, cur, LeftTo).issuer = LeftTo
      /\ Item(top, cur, LeftTo).at = top.at
  BY DEF Item
<1> QED
  BY <1>2, <1>3, <1>4, <1>5, <1>6

\* The path is the place the contract names.
LEMMA PlaceIsPath ==
    ASSUME NEW fs, NEW p, fs \in Seq(FrameT), proto \in Protocols,
           Len(fs) <= MaxFrames, Inside(fs, p)
    PROVE  Contract!Place(Abs(fs)) = p
<1>1. /\ Len(p) = Len(fs) /\ \A i \in 1 .. Len(p) : p[i] = fs[i].at[1]
      /\ p \in Seq(Members)
  BY InsideLaid DEF Inside
<1>2. /\ Len(Abs(fs)) = Len(fs)
      /\ \A i \in 1 .. Len(fs) :
            Abs(fs)[i] = Item(fs[i], HookIn(fs, i), HookIn(fs, i - 1))
  BY AbsType
<1>3. \A i \in 1 .. Len(fs) : Abs(fs)[i].at[1] = fs[i].at[1]
  <2>1. \A f, o, j : Item(f, o, j).at = f.at
    BY DEF Item
  <2> HIDE DEF Abs
  <2> QED
    BY <1>2, <2>1
<1>4. p \in [1 .. Len(p) -> Members]
  BY <1>1, LenProperties
<1>5. p = [i \in 1 .. Len(p) |-> p[i]]
  BY <1>4
<1>6. Contract!Place(Abs(fs)) = [i \in 1 .. Len(fs) |-> Abs(fs)[i].at[1]]
  BY <1>2 DEF Contract!Place
<1> HIDE DEF Abs
<1> QED
  BY <1>1, <1>3, <1>5, <1>6

\* A callback about it goes to the hook of the innermost frame.
LEMMA ToldHere ==
    ASSUME NEW fs, NEW p, NEW what, fs \in Seq(FrameT),
           TypesOK, Shape(frames, path), len > 0,
           Len(fs) <= MaxFrames, Inside(fs, p)
    PROVE  Contract!Told(what, Abs(fs)) = Told(cur, what, p)
<1>1. Contract!Place(Abs(fs)) = p
  BY PlaceIsPath DEF TypesOK
<1>2. Contract!Top.owner = cur
  BY TopItem
<1> QED
  BY <1>1, <1>2 DEF Contract!Told, Told

Callback == {"OnElem", "OnStart", "OnValue"}
CallT == [to : Hooks \cup Protocols, what : Callback, place : Seq(Members)]

LEMMA ToldType ==
    ASSUME NEW to \in Hooks \cup Protocols, NEW what \in Callback,
           NEW p \in Seq(Members)
    PROVE  Told(to, what, p) \in Seq(CallT)
<1> DEFINE c == [to |-> to, what |-> what, place |-> p]
<1>1. c \in CallT
  BY DEF CallT
<1> HIDE DEF c
<1>2. <<c>> \in Seq(CallT)
  BY <1>1
<1> QED
  BY <1>2 DEF Told, c

\* What follows what was asked of a value is what it was handed over as.
Joins(c, asked, V) == c = asked \/ c = asked \o <<>> \/ c = asked \o V

\* What is told of a value, after what is told of its element.
LEMMA CallsJoined ==
    ASSUME NEW E \in Seq(CallT), NEW S \in Seq(CallT), NEW V \in Seq(CallT),
           NEW c, Joins(c, E \o S, V)
    PROVE  /\ c = E \o S \/ c = E \o (S \o V)
           /\ <<>> \o S = S /\ <<>> \o V = V /\ <<>> \o (S \o V) = S \o V
<1>1. E \o S \in Seq(CallT) /\ S \o V \in Seq(CallT)
  BY ConcatProperties
<1>5. c = E \o S \/ c = (E \o S) \o <<>> \/ c = (E \o S) \o V
  BY DEF Joins
<1>2. (E \o S) \o <<>> = E \o S
  BY <1>1, ConcatEmptySeq
<1>3. (E \o S) \o V = E \o (S \o V)
  BY ConcatAssociative
<1>4. <<>> \o S = S /\ <<>> \o V = V /\ <<>> \o (S \o V) = S \o V
  BY <1>1, ConcatEmptySeq
<1> QED
  BY <1>2, <1>3, <1>4, <1>5

\* The callbacks of a value are the contract's.
LEMMA ReportedHere ==
    ASSUME NEW fs, NEW p, NEW S, NEW c, NEW E \in Seq(CallT),
           fs \in Seq(FrameT), TypesOK, Shape(frames, path), len > 0,
           Len(fs) <= MaxFrames, Inside(fs, p),
           S = Told(cur, "OnStart", p) \/ S = <<>>,
           Joins(c, E \o S, Told(cur, "OnValue", p))
    PROVE  \E r \in Contract!Reported(Abs(fs)) : c = E \o r
<1> DEFINE O == Told(cur, "OnStart", p)
           V == Told(cur, "OnValue", p)
<1>1. cur \in Hooks \cup Protocols /\ p \in Seq(Members)
  <2>1. cur = HookIn(frames, len) /\ frames \in Seq(FrameT)
        /\ proto \in Protocols
    BY TopItem, TopFrame DEF TypesOK
  <2> QED
    BY <2>1, HookType DEF Inside
<1>2. O \in Seq(CallT) /\ V \in Seq(CallT)
  <2>1. "OnStart" \in Callback /\ "OnValue" \in Callback
    BY DEF Callback
  <2> QED
    BY <1>1, <2>1, ToldType
<1>3. S \in Seq(CallT) /\ (S = O \/ S = <<>>)
  BY <1>2, EmptySeq
<1>4. /\ Contract!Told("OnStart", Abs(fs)) = O
      /\ Contract!Told("OnValue", Abs(fs)) = V
  BY ToldHere
<1>5. Contract!Reported(Abs(fs)) = {O, V, <<>>, O \o V}
  BY <1>4 DEF Contract!Reported
<1>6. Joins(c, E \o S, V)
  OBVIOUS
<1> HIDE DEF O, V
<1>7. /\ c = E \o S \/ c = E \o (S \o V)
      /\ <<>> \o V = V
  <2>1. S \in Seq(CallT)
    BY <1>3
  <2> QED
    <3>1. E \in Seq(CallT) /\ V \in Seq(CallT)
      BY <1>2
    <3>2. (c = E \o S) \/ (c = E \o (S \o V))
      BY <1>6, <2>1, <3>1, CallsJoined, SMTT(40)
    <3>3. <<>> \o V = V
      BY <3>1, ConcatEmptySeq
    <3> QED
      BY <3>2, <3>3
<1>8. S \in {O, V, <<>>, O \o V} /\ S \o V \in {O, V, <<>>, O \o V}
  BY <1>3, <1>7
<1> QED
  BY <1>5, <1>7, <1>8

-----------------------------------------------------------------------------
(* A step of the engine is one of the contract, or none. *)

\* The edits of a frame are the edits of a container.
LEMMA ItemOver ==
    ASSUME NEW f \in FrameT, FrameShape(f, TRUE), NEW o, NEW h
    PROVE  Item(Over(f), o, h) = [Item(f, o, h) EXCEPT !.at = <<>>]
<1>1. f.n \in Nat /\ Len(f.at) = 1 /\ Len(<<>>) = 0
  BY FrameFields, EmptySeq DEF FrameShape
<1>2. /\ Over(f).at = <<>> /\ Over(f).seen = f.seen /\ Over(f).kind = f.kind
      /\ Over(f).n = f.n + 1
  BY DEF Over, FrameT
<1>3. Over(f).n + Len(Over(f).at) = f.n + Len(f.at)
  BY <1>1, <1>2
<1>4. Keys(Over(f)) = Keys(f) /\ Count(Over(f)) = Count(f)
  BY <1>2, <1>3 DEF Keys, Count
<1> QED
  BY <1>2, <1>4 DEF Item

LEMMA ItemIndexed ==
    ASSUME NEW f \in FrameT, f.kind = "array", f.at = <<>>, NEW o, NEW h
    PROVE  /\ Item(f, o, h).n = f.n
           /\ Item(Indexed(f), o, h) =
                [[Item(f, o, h) EXCEPT !.n = f.n + 1] EXCEPT !.at = <<f.n>>]
<1>1. f.n \in Nat /\ Len(<<f.n>>) = 1 /\ Len(<<>>) = 0
  BY FrameFields, EmptySeq
<1>2. /\ Indexed(f).at = <<f.n>> /\ Indexed(f).seen = f.seen
      /\ Indexed(f).kind = f.kind /\ Indexed(f).n = f.n
  BY DEF Indexed, FrameT
<1>3. f.kind # "object" /\ Indexed(f).kind # "object"
  BY <1>2
<1>4. Indexed(f).n + Len(Indexed(f).at) = f.n + 1 /\ f.n + Len(f.at) = f.n
  BY <1>1, <1>2
<1>5. /\ Keys(Indexed(f)) = Keys(f) /\ Count(Indexed(f)) = f.n + 1
      /\ Count(f) = f.n
  BY <1>2, <1>3, <1>4 DEF Keys, Count
<1> DEFINE a == [Item(f, o, h) EXCEPT !.n = f.n + 1]
<1>6. a =
        [owner |-> o, issuer |-> h, keys |-> Keys(f), n |-> f.n + 1,
         at |-> f.at]
  BY DEF Item
<1>7. Item(Indexed(f), o, h) =
        [owner |-> o, issuer |-> h, keys |-> Keys(f), n |-> f.n + 1,
         at |-> <<f.n>>]
  BY <1>2, <1>5 DEF Item
<1>8. Item(f, o, h).n = f.n
  BY <1>5 DEF Item
<1> HIDE DEF a
<1>9. [a EXCEPT !.at = <<f.n>>] =
        [owner |-> o, issuer |-> h, keys |-> Keys(f), n |-> f.n + 1,
         at |-> <<f.n>>]
  BY <1>6
<1> QED
  BY <1>7, <1>8, <1>9 DEF a

KeyedItem(it, w, ks) == [[it EXCEPT !.at = <<w>>] EXCEPT !.keys = ks]

LEMMA ItemKeyed ==
    ASSUME NEW f \in FrameT, f.kind = "object", NEW w, NEW keys,
           NEW o, NEW h, NEW ks, ks = {keys[j] : j \in DOMAIN keys}
    PROVE  Item(Keyed(f, w, keys), o, h) = KeyedItem(Item(f, o, h), w, ks)
<1>1. /\ Keyed(f, w, keys).at = <<w>> /\ Keyed(f, w, keys).seen = keys
      /\ Keyed(f, w, keys).kind = "object"
  BY DEF Keyed, FrameT
<1>2. Count(Keyed(f, w, keys)) = 0 /\ Count(f) = 0
  BY <1>1 DEF Count
<1>3. Keys(Keyed(f, w, keys)) = ks
  BY <1>1 DEF Keys
<1> DEFINE a == [Item(f, o, h) EXCEPT !.at = <<w>>]
<1>4. a =
        [owner |-> o, issuer |-> h, keys |-> Keys(f), n |-> 0, at |-> <<w>>]
  BY <1>2 DEF Item
<1>5. Item(Keyed(f, w, keys), o, h) =
        [owner |-> o, issuer |-> h, keys |-> ks, n |-> 0, at |-> <<w>>]
  BY <1>1, <1>2, <1>3 DEF Item
<1> HIDE DEF a
<1>6. [a EXCEPT !.keys = ks] =
        [owner |-> o, issuer |-> h, keys |-> ks, n |-> 0, at |-> <<w>>]
  BY <1>4
<1> QED
  BY <1>5, <1>6 DEF a, KeyedItem

\* A new frame is a new container.
LEMMA ItemNew ==
    ASSUME NEW kind \in Containers, NEW g \in Hooks \cup {None}, NEW o, NEW h
    PROVE  Item(Frame(kind, g), o, h) = Contract!Container(o, h)
<1>1. /\ Frame(kind, g).at = <<>> /\ Frame(kind, g).seen = <<>>
      /\ Frame(kind, g).n = 0 /\ Len(<<>>) = 0
  BY NewFrame
<1>2. DOMAIN <<>> = {}
  OBVIOUS
<1>3. {<<>>[j] : j \in DOMAIN <<>>} = {}
  BY <1>2
<1>4. 0 + Len(<<>>) = 0
  BY <1>1
<1> QED
  BY <1>1, <1>3, <1>4 DEF Item, Keys, Count, Contract!Container

\* The value of the innermost member is over.
LEMMA OverIsOver ==
    ASSUME NEW fs, NEW p, fs \in Seq(FrameT), proto \in Protocols,
           UNCHANGED proto,
           Len(fs) <= MaxFrames, Inside(fs, p), afterValue(fs, p)
    PROVE  Open' = Contract!At(Abs(fs), <<>>)
<1> DEFINE f == fs[Len(fs)]
           o == HookIn(fs, Len(fs))
           h == HookIn(fs, Len(fs) - 1)
<1>1. /\ f \in FrameT /\ FrameShape(f, TRUE) /\ fs # <<>>
      /\ Len(fs) \in Nat /\ Len(fs) > 0
  BY InsideLaid DEF Inside
<1>2. frames' = [fs EXCEPT ![Len(fs)] = Over(f)]
  BY AfterValue
<1>3. Over(f) \in FrameT /\ Over(f).hook = f.hook
  BY <1>1, OverFacts DEF Over, FrameT
<1> HIDE DEF o, h
<1>4. Abs(frames') = [Abs(fs) EXCEPT ![Len(fs)] = Item(Over(f), o, h)]
  BY <1>1, <1>2, <1>3, AbsReplace DEF o, h
<1>5. Len(Abs(fs)) = Len(fs) /\ Abs(fs)[Len(fs)] = Item(f, o, h)
  <2>1. Len(fs) \in 1 .. Len(fs)
    BY <1>1
  <2> QED
    BY <2>1, AbsType DEF o, h
<1>6. Item(Over(f), o, h) = [Item(f, o, h) EXCEPT !.at = <<>>]
  BY <1>1, ItemOver
<1>7. Open' = Abs(frames')
  BY OpenNextIsAbs
<1> HIDE DEF f
<1>8. Contract!At(Abs(fs), <<>>) =
        [Abs(fs) EXCEPT ![Len(fs)] = [Abs(fs)[Len(fs)] EXCEPT !.at = <<>>]]
  BY <1>5 DEF Contract!At
<1> QED
  BY <1>4, <1>5, <1>6, <1>7, <1>8

\* What happens to a value happens to it in the contract.
LEMMA ValuedHere ==
    ASSUME NEW fs, NEW p, NEW kind, fs \in Seq(FrameT), Len(fs) = len,
           TypesOK, Shape(frames, path), len > 0, UNCHANGED proto,
           Inside(fs, p), Len(fs) <= MaxFrames,
           HookIn(fs, len) = cur,
           \/ frames' = fs /\ path' = p /\ dead' = TRUE
           \/ afterValue(fs, p) /\ dead' = FALSE
           \/ /\ \E via \in Hooks \cup {None} :
                    frames' = Append(fs, Frame(kind,
                                IF via # None THEN via ELSE top.hook))
              /\ kind \in Containers /\ len < MaxFrames
              /\ path' = p /\ dead' = FALSE
    PROVE  Contract!Valued(Abs(fs))
<1>1. proto \in Protocols /\ Open' = Abs(frames')
  BY OpenNextIsAbs DEF TypesOK
<1>2. CASE frames' = fs /\ path' = p /\ dead' = TRUE
  BY <1>1, <1>2 DEF Contract!Valued
<1>3. CASE afterValue(fs, p)
  <2>1. Open' = Contract!At(Abs(fs), <<>>)
    BY <1>1, <1>3, OverIsOver
  <2> QED
    BY <2>1 DEF Contract!Valued
<1>4. CASE /\ \E via \in Hooks \cup {None} :
                 frames' = Append(fs, Frame(kind,
                             IF via # None THEN via ELSE top.hook))
           /\ kind \in Containers /\ len < MaxFrames
           /\ path' = p /\ dead' = FALSE
  <2>1. PICK via \in Hooks \cup {None} :
          frames' = Append(fs, Frame(kind,
                      IF via # None THEN via ELSE top.hook))
    BY <1>4
  <2> DEFINE g == IF via # None THEN via ELSE top.hook
             f == Frame(kind, g)
             o == IF via = None THEN cur ELSE via
  <2>2. top.hook \in Hooks \cup {None} /\ g \in Hooks \cup {None}
    BY TopFrame, FrameFields DEF TypesOK
  <2>3. f \in FrameT /\ f.hook = g
    BY <1>4, <2>2, NewFrame
  <2>4. (IF g # None THEN g ELSE proto) = o
    <3>1. cur = IF top.hook # None THEN top.hook ELSE proto
      BY TopFrame DEF TypesOK, cur, hookAt, top, len
    <3> QED
      BY <3>1
  <2>5. frames' = Append(fs, f)
    BY <2>1
  <2> HIDE DEF f, g, o
  <2>6. Abs(frames') = Append(Abs(fs), Item(f, IF f.hook # None THEN f.hook
                                               ELSE proto, HookIn(fs, Len(fs))))
    BY <1>1, <2>3, <2>5, AbsAppend
  <2>7. Abs(frames') = Append(Abs(fs), Item(f, o, cur))
    BY <2>3, <2>4, <2>6
  <2>8. Item(f, o, cur) = Contract!Container(o, cur)
    BY <1>4, <2>2, ItemNew DEF f
  <2>9. Contract!Top.owner = cur
    BY TopItem
  <2>10. Open' = Append(Abs(fs), Contract!Container(o, Contract!Top.owner))
    BY <1>1, <2>7, <2>8, <2>9
  <2>11. o = IF via = None THEN Contract!Top.owner ELSE via
    BY <2>9 DEF o
  <2> QED
    BY <2>10, <2>11 DEF Contract!Valued
<1> QED
  BY <1>2, <1>3, <1>4

\* The first container.
LEMMA RootBegins ==
    ASSUME TypesOK, Shape(frames, path), NEW kind \in Containers, Root(kind)
    PROVE  Contract!Begin
<1> DEFINE f == Frame(kind, None)
<1>1. /\ ~dead /\ ~rootDone /\ len = 0 /\ frames' = Append(frames, f)
      /\ calls' = <<>> /\ UNCHANGED <<rootDone, dead, proto>>
  BY DEF Root, Reads, pushFrame, Const
<1>2. /\ frames \in Seq(FrameT) /\ frames = <<>> /\ Len(<<>>) = 0
      /\ proto \in Protocols
  BY <1>1, EmptySeq DEF TypesOK, FramesOK, len
<1>3. f \in FrameT /\ f.hook = None
  BY NewFrame
<1>4. Abs(frames) \in Seq(ItemT) /\ Len(Abs(frames)) = 0
  BY <1>2, AbsType
<1>5. Abs(frames) = <<>>
  <2> HIDE DEF Abs
  <2> QED
    BY <1>4, EmptySeq
<1>6. Item(f, proto, proto) = Contract!Container(proto, proto)
  BY ItemNew
<1> HIDE DEF f
<1>7. Abs(frames') = Append(Abs(frames),
        Item(f, IF f.hook # None THEN f.hook ELSE proto, HookIn(frames, Len(frames))))
  BY <1>1, <1>2, <1>3, AbsAppend
<1>8. HookIn(frames, Len(frames)) = proto
  <2>1. ~(Len(frames) \in 1 .. Len(frames))
    BY <1>2
  <2> QED
    BY <2>1 DEF HookIn
<1>9. Open = <<>> /\ Open' = <<Contract!Container(proto, proto)>>
  <2>1. Open = Abs(frames) /\ Open' = Abs(frames')
    BY <1>1, OpenIsAbs, OpenNextIsAbs
  <2>2. Abs(frames') = Append(<<>>, Contract!Container(proto, proto))
    BY <1>3, <1>5, <1>6, <1>7, <1>8
  <2>3. \A c : Append(<<>>, c) = <<c>>
    OBVIOUS
  <2> QED
    BY <1>5, <2>1, <2>2, <2>3
<1> QED
  BY <1>1, <1>9 DEF Contract!Begin

\* The innermost container with the member and the keys of a key.
LEMMA KeyedAbs ==
    ASSUME NEW w \in Words, NEW keys \in Seq(Words),
           TypesOK, Shape(frames, path), ~PolicyChecks => keys = <<>>,
           len > 0, top.kind = "object", top.at = <<>>, top.n < MaxMembers
    PROVE  Abs([frames EXCEPT ![len] = Keyed(top, w, keys)]) =
             [Open EXCEPT ![len] =
                [[Open[len] EXCEPT !.at = <<w>>]
                   EXCEPT !.keys = {keys[j] : j \in DOMAIN keys}]]
<1>1. /\ frames \in Seq(FrameT) /\ frames # <<>> /\ top \in FrameT
      /\ Len(frames) = len /\ proto \in Protocols
  BY TopFrame DEF TypesOK
<1>2. /\ Open = Abs(frames) /\ Open[len] = Item(top, cur, LeftTo)
      /\ cur = HookIn(frames, len) /\ LeftTo = HookIn(frames, len - 1)
  BY TopItem, OpenIsAbs DEF Contract!Top
<1> DEFINE f == Keyed(top, w, keys)
           ks == {keys[j] : j \in DOMAIN keys}
<1>3. f \in FrameT /\ f.hook = top.hook
  BY <1>1, KeyedFacts DEF Keyed, FrameT
<1>4. Item(f, cur, LeftTo) = KeyedItem(Item(top, cur, LeftTo), w, ks)
  <2>1. ks = {keys[j] : j \in DOMAIN keys}
    OBVIOUS
  <2> HIDE DEF ks
  <2> QED
    BY <1>1, <2>1, ItemKeyed
<1> HIDE DEF f, ks
<1>5. f.hook = frames[Len(frames)].hook
  BY <1>1, <1>3 DEF top
<1>6. Abs([frames EXCEPT ![Len(frames)] = f]) =
        [Abs(frames) EXCEPT ![Len(frames)] =
           Item(f, HookIn(frames, Len(frames)), HookIn(frames, Len(frames) - 1))]
  BY <1>1, <1>3, <1>5, AbsReplace
<1>7. Abs([frames EXCEPT ![len] = f]) =
        [Open EXCEPT ![len] = Item(f, cur, LeftTo)]
  BY <1>1, <1>2, <1>6
<1> HIDE DEF Abs
<1> QED
  BY <1>2, <1>4, <1>7 DEF f, ks, KeyedItem

\* A key is reported, refused or dropped as the policy says.
LEMMA KeyIsKey ==
    ASSUME NEW w \in Words, NEW escaped \in BOOLEAN, NEW act \in Answers,
           TypesOK, ~dead, Shape(frames, path), onKeyDone(w, escaped, act)
    PROVE  Contract!Key(w)
<1> DEFINE keys == IF PolicyChecks /\ ~Seen(w) THEN Append(top.seen, w)
                   ELSE top.seen
           ks == {keys[j] : j \in DOMAIN keys}
           seen == [frames EXCEPT ![len] = Keyed(top, w, top.seen)]
           here == Contract!At(Open, <<w>>)
<1>1. /\ keys \in Seq(Words) /\ (~PolicyChecks => keys = <<>>)
      /\ frames' = [frames EXCEPT ![len] = Keyed(top, w, keys)]
      /\ path' = Append(path, w)
      /\ len > 0 /\ top.kind = "object" /\ top.at = <<>>
      /\ top.n < MaxMembers /\ proto' = proto
      /\ IF Repeated(w)
         THEN calls' = <<>> /\ (PolicyBails => dead' = TRUE)
         ELSE calls' = Told(cur, "OnKey", Append(path, w))
  BY KeyStep
<1>2. /\ Open \in Seq(ItemT) /\ Len(Open) = len /\ Open # <<>>
      /\ Contract!Top = Item(top, cur, LeftTo)
      /\ Contract!Top = Open[len] /\ Contract!Top.at = <<>>
  BY <1>1, TopItem DEF Contract!Top
<1>3. /\ top \in FrameT /\ top.seen \in Seq(Words) /\ len \in 1 .. len
      /\ len <= MaxFrames
  BY <1>1, TopFrame, FrameFields DEF TypesOK, FramesOK, len
<1>4. ~PolicyChecks => top.seen = <<>>
  BY <1>1, TopFrame DEF TypesOK, FrameShape
<1>5. Contract!Top.keys = Keys(top)
  BY <1>2 DEF Item
<1>6. Seen(w) <=> w \in Contract!Top.keys
  BY <1>5 DEF Seen, Keys
<1>7. PolicyChecks <=> PolicyBails \/ policy[2] = "first"
  <2>1. policy[2] \in {"pass", "bail", "first"}
    BY DispatchAssumption DEF TypesOK
  <2> QED
    BY <2>1 DEF PolicyChecks, PolicyBails
<1>8. here = [Open EXCEPT ![len] = [Open[len] EXCEPT !.at = <<w>>]]
  BY <1>2 DEF Contract!At
<1>9. here = Abs(seen)
  <2>1. Abs(seen) =
          [Open EXCEPT ![len] =
             [[Open[len] EXCEPT !.at = <<w>>] EXCEPT !.keys = Keys(top)]]
    BY <1>1, <1>3, <1>4, KeyedAbs DEF Keys
  <2>2. [[Open[len] EXCEPT !.at = <<w>>] EXCEPT !.keys = Keys(top)] =
          [Open[len] EXCEPT !.at = <<w>>]
    <3> DEFINE x == [Open[len] EXCEPT !.at = <<w>>]
    <3>1. x = [owner |-> cur, issuer |-> LeftTo, keys |-> Keys(top),
               n |-> Count(top), at |-> <<w>>]
      BY <1>2 DEF Item
    <3> HIDE DEF x
    <3>2. [x EXCEPT !.keys = Keys(top)] = x
      BY <3>1
    <3> QED
      BY <3>2 DEF x
  <2> HIDE DEF seen, here
  <2> QED
    BY <1>8, <2>1, <2>2
<1>10. Contract!Told("OnKey", here) = Told(cur, "OnKey", Append(path, w))
  <2>1. /\ seen \in Seq(FrameT) /\ Len(seen) = len
        /\ Inside(seen, Append(path, w))
    BY <1>1, <1>3, <1>4, KeyedInside
  <2> HIDE DEF seen, here
  <2>2. Contract!Told("OnKey", Abs(seen)) = Told(cur, "OnKey", Append(path, w))
    BY <1>1, <1>3, <2>1, ToldHere
  <2> QED
    BY <1>9, <2>2
<1>11. Open' = [here EXCEPT ![Len(Open)].keys = ks]
  <2>1. Open' = Abs(frames')
    BY <1>1, OpenNextIsAbs
  <2> HIDE DEF keys
  <2>2. Abs(frames') =
          [Open EXCEPT ![len] =
             [[Open[len] EXCEPT !.at = <<w>>] EXCEPT !.keys = ks]]
    BY <1>1, KeyedAbs
  <2> HIDE DEF ks
  <2>3. len \in DOMAIN Open
    BY <1>2, <1>3, LenProperties
  <2>4. \A x, y : /\ [Open EXCEPT ![len] = x][len] = x
                  /\ [[Open EXCEPT ![len] = x] EXCEPT ![len] = y]
                       = [Open EXCEPT ![len] = y]
    BY <2>3
  <2> DEFINE x == [Open[len] EXCEPT !.at = <<w>>]
  <2>5. here = [Open EXCEPT ![len] = x]
    BY <1>8
  <2> HIDE DEF here, x
  <2>6. here[len] = x
    BY <2>4, <2>5
  <2>7. [here EXCEPT ![len] = [here[len] EXCEPT !.keys = ks]]
          = [Open EXCEPT ![len] = [x EXCEPT !.keys = ks]]
    BY <2>4, <2>5, <2>6, ZenonT(60)
  <2> QED
    BY <1>2, <2>1, <2>2, <2>7 DEF x
<1>12. ks = IF PolicyChecks /\ ~Seen(w) THEN Keys(top) \cup {w} ELSE Keys(top)
  <2>1. CASE PolicyChecks /\ ~Seen(w)
    <3>1. keys = Append(top.seen, w)
      BY <2>1
    <3>2. /\ Len(keys) = Len(top.seen) + 1 /\ keys[Len(top.seen) + 1] = w
          /\ \A j \in 1 .. Len(top.seen) : keys[j] = top.seen[j]
          /\ Len(top.seen) \in Nat
          /\ DOMAIN keys = 1 .. Len(keys)
          /\ DOMAIN top.seen = 1 .. Len(top.seen)
      BY <1>1, <1>3, <3>1, AppendProperties, LenProperties
    <3> HIDE DEF keys
    <3>3. DOMAIN keys = (DOMAIN top.seen) \cup {Len(top.seen) + 1}
      BY <3>2
    <3>4. ks = Keys(top) \cup {w}
      BY <3>2, <3>3 DEF Keys
    <3> QED
      BY <2>1, <3>4
  <2>2. CASE ~(PolicyChecks /\ ~Seen(w))
    BY <2>2 DEF Keys
  <2> QED
    BY <2>1, <2>2
<1>13. ~PolicyChecks => ks = {}
  <2>1. ~PolicyChecks => top.seen = <<>>
    BY <1>4
  <2>2. ~PolicyChecks => ks = Keys(top)
    BY <1>12
  <2>3. top.seen = <<>> => Keys(top) = {}
    BY DEF Keys
  <2> HIDE DEF ks
  <2> QED
    BY <2>1, <2>2, <2>3
<1>14. Open' = here \/ ~Repeated(w)
  <2>1. Repeated(w) => keys = top.seen
    BY DEF Repeated
  <2>2. Repeated(w) => frames' = seen
    BY <1>1, <2>1
  <2>3. Open' = Abs(frames')
    BY <1>1, OpenNextIsAbs
  <2> HIDE DEF here, seen
  <2> QED
    BY <1>9, <2>2, <2>3
<1> HIDE DEF here, ks, seen, keys
<1>15. CASE Repeated(w)
  <2>1. /\ w \in Contract!Top.keys /\ (PolicyBails \/ policy[2] = "first")
        /\ Open' = here /\ calls' = <<>> /\ (PolicyBails => dead' \/ rootDone')
    BY <1>1, <1>6, <1>7, <1>14, <1>15 DEF Repeated
  <2> QED
    BY <1>2, <2>1 DEF Contract!Key, here
<1>16. CASE ~Repeated(w)
  <2>1. ~(w \in Contract!Top.keys /\ (PolicyBails \/ policy[2] = "first"))
    BY <1>6, <1>7, <1>16 DEF Repeated
  <2>2. ks = IF PolicyBails \/ policy[2] = "first"
             THEN Contract!Top.keys \cup {w} ELSE {}
    BY <1>5, <1>7, <1>12, <1>13, <1>16 DEF Repeated
  <2>3. /\ Open' = [here EXCEPT ![Len(Open)].keys = ks]
        /\ calls' = Contract!Told("OnKey", here)
    BY <1>1, <1>10, <1>11, <1>16
  <2> QED
    BY <1>2, <2>1, <2>2, <2>3 DEF Contract!Key, here
<1> QED
  BY <1>15, <1>16

\* The containers when an element starts.
LEMMA ElemAbs ==
    ASSUME TypesOK, Shape(frames, path), len > 0, top.kind = "array", Room
    PROVE  LET fs == [frames EXCEPT ![len] = Indexed(top)] IN
           /\ Contract!At([Open EXCEPT ![Len(Open)].n = @ + 1],
                          <<Contract!Top.n>>) = Abs(fs)
           /\ HookIn(fs, len) = cur
<1> DEFINE f == Indexed(top)
           fs == [frames EXCEPT ![len] = f]
<1>1. /\ frames \in Seq(FrameT) /\ frames # <<>> /\ top \in FrameT
      /\ Len(frames) = len /\ proto \in Protocols /\ FrameShape(top, FALSE)
      /\ len \in 1 .. len /\ len \in Nat
  BY TopFrame DEF TypesOK
<1>2. /\ f \in FrameT /\ f.hook = top.hook /\ top.at = <<>>
  BY <1>1, IndexedFacts DEF Room, Indexed, FrameT
<1>3. /\ Open \in Seq(ItemT) /\ Len(Open) = len /\ Open = Abs(frames)
      /\ Open[len] = Item(top, cur, LeftTo) /\ Contract!Top = Open[len]
      /\ cur = HookIn(frames, len) /\ LeftTo = HookIn(frames, len - 1)
  BY TopItem, OpenIsAbs DEF Contract!Top
<1>4. /\ Open[len].n = top.n
      /\ Item(f, cur, LeftTo) =
           [[Open[len] EXCEPT !.n = top.n + 1] EXCEPT !.at = <<top.n>>]
  <2>1. /\ Item(top, cur, LeftTo).n = top.n
        /\ Item(Indexed(top), cur, LeftTo) =
             [[Item(top, cur, LeftTo) EXCEPT !.n = top.n + 1]
                EXCEPT !.at = <<top.n>>]
    BY <1>1, <1>2, ItemIndexed, ZenonT(60)
  <2> QED
    BY <1>3, <2>1
<1> HIDE DEF f
<1>5. f.hook = frames[Len(frames)].hook
  BY <1>1, <1>2 DEF top
<1>6. Abs([frames EXCEPT ![Len(frames)] = f]) =
        [Abs(frames) EXCEPT ![Len(frames)] =
           Item(f, HookIn(frames, Len(frames)), HookIn(frames, Len(frames) - 1))]
  BY <1>1, <1>2, <1>5, AbsReplace
<1>7. Abs(fs) = [Open EXCEPT ![len] = Item(f, cur, LeftTo)]
  BY <1>1, <1>3, <1>6
<1> DEFINE x == [Open[len] EXCEPT !.n = top.n + 1]
           y == [x EXCEPT !.at = <<top.n>>]
           mid == [Open EXCEPT ![Len(Open)].n = @ + 1]
<1>8. mid = [Open EXCEPT ![len] = x]
  BY <1>3, <1>4
<1>9. len \in DOMAIN Open
  BY <1>1, <1>3, LenProperties
<1> HIDE DEF x, mid, Abs
<1>10. mid[len] = x /\ Len(mid) = len
  <2>1. mid[len] = x
    BY <1>8, <1>9
  <2>2. DOMAIN mid = 1 .. len
    BY <1>3, <1>8, LenProperties
  <2>3. x \in ItemT
    <3>1. Open[len] \in ItemT /\ top.n + 1 \in Nat
      BY <1>1, <1>3, FrameFields, ElementOfSeq
    <3> QED
      BY <3>1 DEF x, ItemT
  <2>4. Len(mid) = len
    BY <1>1, <1>3, <1>8, <2>3, ExceptSeq
  <2> QED
    BY <2>1, <2>4
<1>11. Contract!At(mid, <<top.n>>) = [mid EXCEPT ![len] = y]
  BY <1>10 DEF Contract!At
<1> HIDE DEF y
<1>12. [mid EXCEPT ![len] = y] = [Open EXCEPT ![len] = y]
  BY <1>8, <1>9
<1>13. y = Item(f, cur, LeftTo)
  BY <1>4 DEF x, y
<1>14. Contract!At(mid, <<Contract!Top.n>>) = Abs(fs)
  BY <1>3, <1>4, <1>7, <1>11, <1>12, <1>13
<1>15. HookIn(fs, len) = cur
  <2>1. fs[len].hook = frames[len].hook /\ Len(fs) = Len(frames)
    <3>1. /\ Len([frames EXCEPT ![Len(frames)] = f]) = Len(frames)
          /\ [frames EXCEPT ![Len(frames)] = f][Len(frames)] = f
      BY <1>1, <1>2, ReplaceTop
    <3> QED
      BY <1>1, <1>2, <3>1 DEF top
  <2> HIDE DEF fs
  <2> QED
    BY <1>3, <2>1 DEF HookIn
<1> QED
  BY <1>14, <1>15 DEF mid, f

\* Reports are sequences of callbacks.
LEMMA ReportedType ==
    ASSUME NEW fs, NEW p, NEW r, fs \in Seq(FrameT), TypesOK,
           Shape(frames, path), len > 0, Len(fs) <= MaxFrames, Inside(fs, p),
           r \in Contract!Reported(Abs(fs))
    PROVE  r \in Seq(CallT)
<1> DEFINE O == Told(cur, "OnStart", p)
           V == Told(cur, "OnValue", p)
<1>1. O \in Seq(CallT) /\ V \in Seq(CallT)
  <2>1. cur = HookIn(frames, len) /\ frames \in Seq(FrameT)
        /\ proto \in Protocols
    BY TopItem, TopFrame DEF TypesOK
  <2>2. cur \in Hooks \cup Protocols /\ p \in Seq(Members)
    BY <2>1, HookType DEF Inside
  <2>3. "OnStart" \in Callback /\ "OnValue" \in Callback
    BY DEF Callback
  <2> QED
    BY <2>2, <2>3, ToldType
<1>2. /\ Contract!Told("OnStart", Abs(fs)) = O
      /\ Contract!Told("OnValue", Abs(fs)) = V
  BY ToldHere
<1>3. r \in {O, V, <<>>, O \o V}
  BY <1>2 DEF Contract!Reported
<1> HIDE DEF O, V
<1>4. O \o V \in Seq(CallT) /\ <<>> \in Seq(CallT)
  BY <1>1, ConcatProperties, EmptySeq
<1> QED
  BY <1>1, <1>3, <1>4

\* An element is offered, and the value of a member reported, as the contract
\* has it.
LEMMA ValueIsValue ==
    ASSUME NEW kind \in Kinds, NEW elem, NEW started \in Actions,
           NEW bails \in BOOLEAN,
           TypesOK, ~dead, Shape(frames, path),
           valueStart(kind, elem, started, bails)
    PROVE  Contract!Elem \/ Contract!Value
<1> DEFINE E == IF top.kind = "array" THEN Told(cur, "OnElem", Here) ELSE <<>>
           St == IF elem.kind = "Probe" THEN Told(cur, "OnStart", Here)
                 ELSE <<>>
<1>1. /\ Begun \in Seq(FrameT) /\ Len(Begun) = len /\ Inside(Begun, Here)
      /\ apply(Begun, started, kind, Here, AskedHere(elem), bails)
      /\ len > 0 /\ proto' = proto
      /\ IF top.kind = "array" THEN Room ELSE top.ph = "value"
  BY ValueStep
<1>2. /\ len \in Nat /\ len <= MaxFrames /\ proto \in Protocols
      /\ top \in FrameT /\ frames \in Seq(FrameT)
  BY <1>1, TopFrame DEF TypesOK, FramesOK, len
<1>3. /\ \/ frames' = Begun /\ path' = Here /\ dead' = TRUE
         \/ afterValue(Begun, Here) /\ dead' = FALSE
         \/ /\ \E via \in Hooks \cup {None} :
                  frames' = Append(Begun, Frame(kind,
                              IF via # None THEN via ELSE top.hook))
            /\ kind \in Containers /\ len < MaxFrames
            /\ path' = Here /\ dead' = FALSE
      /\ calls' \in {AskedHere(elem), AskedHere(elem) \o <<>>,
                     AskedHere(elem) \o Told(cur, "OnValue", Here)}
  BY <1>1, <1>2, Applied
<1>4. HookIn(Begun, len) = cur
  <2>1. CASE top.kind = "array"
    BY <1>1, <2>1, ElemAbs DEF Begun
  <2>2. CASE top.kind # "array"
    BY <1>1, <2>2, TopItem DEF Begun
  <2> QED
    BY <2>1, <2>2
<1>5. Contract!Valued(Abs(Begun))
  BY <1>1, <1>2, <1>3, <1>4, ValuedHere
<1>6. AskedHere(elem) = E \o St
  BY DEF AskedHere
<1>7. E \in Seq(CallT)
  <2>1. cur \in Hooks \cup Protocols /\ Here \in Seq(Members)
    <3>1. cur = HookIn(frames, len)
      BY <1>1, TopItem
    <3> QED
      BY <1>1, <1>2, <3>1, HookType DEF Inside
  <2>2. "OnElem" \in Callback
    BY DEF Callback
  <2>3. Told(cur, "OnElem", Here) \in Seq(CallT)
    BY <2>1, <2>2, ToldType
  <2> QED
    BY <2>3, EmptySeq
<1>8. \E r \in Contract!Reported(Abs(Begun)) : calls' = E \o r
  <2>1. St = Told(cur, "OnStart", Here) \/ St = <<>>
    OBVIOUS
  <2> HIDE DEF E, St
  <2>2. Joins(calls', E \o St, Told(cur, "OnValue", Here))
    BY <1>3, <1>6 DEF Joins
  <2>3. /\ Begun \in Seq(FrameT) /\ Len(Begun) <= MaxFrames
        /\ Inside(Begun, Here) /\ len > 0
    BY <1>1, <1>2
  <2> QED
    BY <1>7, <2>1, <2>2, <2>3, ReportedHere
<1>9. CASE top.kind = "array"
  <2>1. E = Contract!Told("OnElem", Abs(Begun))
    BY <1>1, <1>2, <1>9, ToldHere
  <2>2. Contract!At([Open EXCEPT ![Len(Open)].n = @ + 1],
                    <<Contract!Top.n>>) = Abs(Begun)
    BY <1>1, <1>9, ElemAbs DEF Begun
  <2>3. Open # <<>> /\ Contract!Top.at = <<>>
    <3>1. top.at = <<>>
      BY <1>1, <1>9, ElemInside
    <3> QED
      BY <1>1, <3>1, TopItem
  <2> HIDE DEF Abs, E
  <2>4. calls' \in {Contract!Told("OnElem", Abs(Begun)) \o r :
                      r \in Contract!Reported(Abs(Begun))}
    BY <1>8, <2>1
  <2>5. Contract!Elem
    BY <1>5, <2>2, <2>3, <2>4 DEF Contract!Elem
  <2> QED
    BY <2>5
<1>10. CASE top.kind # "array"
  <2>1. Abs(Begun) = Open /\ E = <<>>
    BY <1>10, OpenIsAbs DEF Begun
  <2>2. Open # <<>> /\ Contract!Top.at # <<>>
    <3>1. Len(top.at) = 1 /\ Len(<<>>) = 0
      BY <1>1, <1>10, MemberInside, EmptySeq
    <3>2. top.at # <<>>
      BY <3>1
    <3> QED
      BY <1>1, <3>2, TopItem
  <2> HIDE DEF Abs, E
  <2>3. PICK r \in Contract!Reported(Open) : calls' = <<>> \o r
    BY <1>8, <2>1
  <2>4. <<>> \o r = r
    <3>1. r \in Seq(CallT)
      BY <1>1, <1>2, <2>1, <2>3, ReportedType
    <3> QED
      BY <3>1, ConcatEmptySeq
  <2>5. Contract!Value
    BY <1>5, <2>1, <2>2, <2>3, <2>4 DEF Contract!Value
  <2> QED
    BY <2>5
<1> QED
  BY <1>9, <1>10

\* The end of a container is told to whoever entered it.
LEMMA CloseIsLeave ==
    ASSUME NEW bails \in BOOLEAN, TypesOK, ~dead, Shape(frames, path),
           closeContainer(bails)
    PROVE  Contract!Leave
<1> DEFINE outer == SubSeq(frames, 1, len - 1)
<1>1. /\ len > 0 /\ top.at = <<>> /\ frames \in Seq(FrameT)
      /\ outer \in Seq(FrameT) /\ Len(outer) = len - 1
      /\ len = 1 => outer = <<>> /\ path = <<>>
      /\ len > 1 => Inside(outer, path)
      /\ calls' = Told(LeftTo, "OnLeave", path)
      /\ dead' = bails /\ rootDone' = (~bails /\ len = 1)
      /\ IF bails THEN UNCHANGED <<frames, path>>
         ELSE IF len = 1 THEN frames' = outer /\ UNCHANGED path
         ELSE afterValue(outer, path)
      /\ UNCHANGED proto
  BY CloseStep
<1>2. /\ len \in Nat /\ len <= MaxFrames /\ MaxFrames \in Nat
      /\ proto \in Protocols /\ frames # <<>> /\ Len(frames) = len
  BY <1>1, TopFrame, DispatchAssumption DEF TypesOK, FramesOK, len
<1>3. /\ Open # <<>> /\ Len(Open) = len /\ Open = Abs(frames)
      /\ Contract!Top.at = <<>> /\ Contract!Top.issuer = LeftTo
      /\ Open' = Abs(frames')
  BY <1>1, TopItem, OpenIsAbs, OpenNextIsAbs
<1>4. Contract!Outer = Abs(outer)
  <2>1. Abs(SubSeq(frames, 1, Len(frames) - 1)) =
          SubSeq(Abs(frames), 1, Len(frames) - 1)
    BY <1>1, <1>2, AbsOuter
  <2> HIDE DEF Abs
  <2> QED
    BY <1>2, <1>3, <2>1 DEF Contract!Outer
<1> HIDE DEF outer
<1>5. len = 1 => Abs(outer) = <<>>
  <2>1. Abs(outer) \in Seq(ItemT) /\ Len(Abs(outer)) = len - 1
    BY <1>1, <1>2, AbsType
  <2> HIDE DEF Abs
  <2>2. len = 1 => Len(Abs(outer)) = 0
    BY <2>1
  <2> QED
    BY <2>1, <2>2, EmptySeq
<1>6. Contract!Place(Abs(outer)) = path
  <2>1. CASE len = 1
    <3>1. Contract!Place(<<>>) = <<>>
      BY DEF Contract!Place
    <3> QED
      BY <1>1, <1>5, <2>1, <3>1
  <2>2. CASE len # 1
    <3>1. Inside(outer, path) /\ Len(outer) <= MaxFrames
      BY <1>1, <1>2, <2>2
    <3> QED
      BY <1>1, <1>2, <3>1, PlaceIsPath
  <2> QED
    BY <2>1, <2>2
<1>7. calls' = <<[to |-> Contract!Top.issuer, what |-> "OnLeave",
                  place |-> Contract!Place(Contract!Outer)]>>
  BY <1>1, <1>3, <1>4, <1>6 DEF Told
<1>8. \/ (dead' \/ rootDone') /\ Open' = Open
      \/ Len(Open) = 1 /\ (dead' \/ rootDone') /\ Open' = <<>>
      \/ Len(Open) > 1 /\ Open' = Contract!At(Contract!Outer, <<>>)
  <2>1. CASE bails
    BY <1>1, <1>3, <2>1
  <2>2. CASE ~bails /\ len = 1
    BY <1>1, <1>3, <1>5, <2>2
  <2>3. CASE ~bails /\ len # 1
    <3>1. /\ len > 1 /\ Inside(outer, path) /\ afterValue(outer, path)
          /\ Len(outer) <= MaxFrames
      BY <1>1, <1>2, <2>3
    <3>2. Open' = Contract!At(Abs(outer), <<>>)
      BY <1>1, <1>2, <3>1, OverIsOver
    <3> QED
      BY <1>3, <1>4, <3>1, <3>2
  <2> QED
    BY <2>1, <2>2, <2>3
<1> QED
  BY <1>3, <1>7, <1>8 DEF Contract!Leave

\* A step in which nothing is told and nothing opens or closes.
LEMMA StillIsSilent ==
    ASSUME calls' = <<>>, UNCHANGED <<frames, proto>>
    PROVE  Contract!Silent
<1>1. Open' = Open
  BY OpenIsAbs, OpenNextIsAbs
<1> QED
  BY <1>1 DEF Contract!Silent

\* The engine keeps the contract of Callbacks, for every document, every
\* answer of the hooks and every state of the shared key cache: a callback
\* goes to the hook Via gave the subtree to, names the member it is about, and
\* a key of a container is reported as the policy says (onKeyDone, valueStart,
\* apply, endRegion, closeContainer, hookAt).
THEOREM EngineKeepsContract == Spec => KeepsContract
<1>1. Init => /\ Open = <<>> /\ calls = <<>> /\ ~(dead \/ rootDone)
              /\ PolicyBails \in BOOLEAN /\ (policy[2] = "first") \in BOOLEAN
  <2> SUFFICES ASSUME Init
               PROVE  /\ Open = <<>> /\ calls = <<>> /\ ~(dead \/ rootDone)
                      /\ PolicyBails \in BOOLEAN
                      /\ (policy[2] = "first") \in BOOLEAN
    OBVIOUS
  <2>1. /\ frames = <<>> /\ <<>> \in Seq(FrameT) /\ Len(<<>>) = 0
        /\ proto \in Protocols
    BY EmptySeq DEF Init
  <2>2. Abs(<<>>) \in Seq(ItemT) /\ Len(Abs(<<>>)) = 0
    BY <2>1, AbsType
  <2>3. Open = <<>>
    <3>1. Open = Abs(<<>>)
      BY <2>1, OpenIsAbs
    <3> HIDE DEF Abs
    <3> QED
      BY <2>2, <3>1, EmptySeq
  <2> QED
    BY <2>3 DEF Init, PolicyBails
<1>2. IInv /\ [Next]_vars => [Contract!Next]_(Contract!vars)
  <2> SUFFICES ASSUME IInv, [Next]_vars
               PROVE  [Contract!Next]_(Contract!vars)
    OBVIOUS
  <2>t. TypesOK /\ (~dead => Shape(frames, path))
    BY DEF IInv
  <2>1. ASSUME ~dead, ~rootDone, UNCHANGED <<proto, policy>>,
               \/ Contract!Begin \/ Contract!Elem \/ Contract!Value
               \/ Contract!Leave \/ Contract!Silent
               \/ \E w \in Words : Contract!Key(w)
        PROVE  Contract!Next
    <3>1. UNCHANGED <<PolicyBails, policy[2] = "first">>
      BY <2>1 DEF PolicyBails
    <3> QED
      BY <2>1, <3>1 DEF Contract!Next
  <2>2. ASSUME NEW kind \in Containers, Root(kind)
        PROVE  Contract!Next
    <3>1. ~dead /\ ~rootDone /\ UNCHANGED <<proto, policy>>
      BY <2>2 DEF Root, Reads, Const
    <3>2. Contract!Begin
      BY <2>t, <2>2, <3>1, RootBegins
    <3> QED
      BY <2>1, <3>1, <3>2
  <2>3. ASSUME NEW w \in Words, NEW escaped \in BOOLEAN, NEW act \in Answers,
               onKeyDone(w, escaped, act)
        PROVE  Contract!Next
    <3>1. ~dead /\ ~rootDone /\ UNCHANGED <<proto, policy>>
      BY <2>3 DEF onKeyDone, Reads, Const
    <3>2. Contract!Key(w)
      BY <2>t, <2>3, <3>1, KeyIsKey
    <3> QED
      BY <2>1, <3>1, <3>2
  <2>4. CASE BadKey
    <3>1. /\ ~dead /\ ~rootDone /\ UNCHANGED <<proto, policy>>
          /\ calls' = <<>> /\ UNCHANGED <<frames, proto>>
      BY <2>4 DEF BadKey, Reads, Const
    <3>2. Contract!Silent
      BY <3>1, StillIsSilent
    <3>3. Contract!Next
      BY <2>1, <3>1, <3>2
    <3> QED
      BY <3>3
  <2>5. ASSUME NEW w \in Words, Elsewhere(w)
        PROVE  Contract!Next
    <3>1. /\ ~dead /\ ~rootDone /\ UNCHANGED <<proto, policy>>
          /\ calls' = <<>> /\ UNCHANGED <<frames, proto>>
      BY <2>5 DEF Elsewhere, Reads, Const
    <3>2. Contract!Silent
      BY <3>1, StillIsSilent
    <3> QED
      BY <2>1, <3>1, <3>2
  <2>6. ASSUME NEW kind \in Kinds, NEW bails \in BOOLEAN,
               NEW elem \in Offered, NEW started \in Started(elem),
               valueStart(kind, elem, started, bails)
        PROVE  Contract!Next
    <3>1. ~dead /\ ~rootDone /\ UNCHANGED <<proto, policy>>
      BY <2>6 DEF valueStart, Reads, Const
    <3>2. started \in Actions
      BY <2>t, ActionFields DEF Offered, Started, TypesOK
    <3>3. Contract!Elem \/ Contract!Value
      BY <2>t, <2>6, <3>1, <3>2, ValueIsValue
    <3> QED
      BY <2>1, <3>1, <3>3
  <2>7. ASSUME NEW bails \in BOOLEAN, closeContainer(bails)
        PROVE  Contract!Next
    <3>1. ~dead /\ ~rootDone /\ UNCHANGED <<proto, policy>>
      BY <2>7 DEF closeContainer, Reads, Const
    <3>2. Contract!Leave
      BY <2>t, <2>7, <3>1, CloseIsLeave
    <3> QED
      BY <2>1, <3>1, <3>2
  <2>8. CASE UNCHANGED vars
    <3>1. UNCHANGED <<frames, proto, policy, dead, rootDone, calls>>
      BY <2>8 DEF vars
    <3>2. Open' = Open
      BY <3>1, OpenIsAbs, OpenNextIsAbs
    <3> QED
      BY <3>1, <3>2 DEF Contract!vars, PolicyBails
  <2> QED
    BY <2>2, <2>3, <2>4, <2>5, <2>6, <2>7, <2>8 DEF Next
<1>3. Spec => Init
  BY PTL DEF Spec
<1>4. Spec => [][Next]_vars
  BY PTL DEF Spec
<1> QED
  BY Invariance, <1>1, <1>2, <1>3, <1>4, PTL DEF KeepsContract, Contract!Spec

-----------------------------------------------------------------------------
(* KeyProbe: what it hands over is the first occurrence of each key.       *)

Has(s, k) == \E m \in DOMAIN s : s[m] = k
IsFirst(s, m) == \A i \in 1 .. m - 1 : s[i] # s[m]

\* Each of the members has a first one with its key.
HaveFirst(s) ==
    \A m \in DOMAIN s : \E n \in 1 .. m : s[n] = s[m] /\ IsFirst(s, n)

\* The first of the members s, up to e, whose key is k.
FirstOf(s, e, k) ==
    LET at == {m \in 1 .. e : s[m] = k}
    IN  IF at = {} THEN 0 ELSE CHOOSE m \in at : \A n \in at : m <= n

\* What the probe has seen, handed over and left in the output, when the
\* members s have been read up to e.
Results(s, e, v, w) ==
    /\ \A k \in Wanted : v[k] = FirstOf(s, e, k)
    /\ \A i \in DOMAIN w : w[i][2] =>
          ~observing /\ \E k \in Wanted : w[i][1] = FirstOf(s, e, k)
    /\ \A i \in 1 .. Len(w) - 1 : w[i][1] < w[i + 1][1]
    /\ {w[i][1] : i \in DOMAIN w} =
          {m \in 1 .. e : policy[2] = "first" => m = FirstOf(s, e, s[m])}

\* What the last of the members s is answered.
Answer(s) ==
    IF IsFirst(s, Len(s))
    THEN IF s[Len(s)] \in Wanted
         THEN Do(IF observing THEN "Observe" ELSE "Capture")
         ELSE Do("Pass")
    ELSE Do(IF policy[2] = "first" THEN "Skip" ELSE "Pass")

ProbeTypes ==
    /\ observing \in BOOLEAN /\ pseen \subseteq Wanted
    /\ vals \in [Wanted -> 0 .. Below]
    /\ members \in Seq(Words) /\ Len(members) <= MaxMembers
    /\ wrote \in Seq((1 .. MaxMembers) \X BOOLEAN)
    /\ \A i \in DOMAIN wrote : wrote[i][1] <= Len(members)

\* At the root the members are those the frame counts, and the path names the
\* last of them.
RootReads ==
    /\ Len(members) = top.n + Len(top.at)
    /\ path # <<>> =>
          /\ members # <<>> /\ path = <<members[Len(members)]>>
          /\ pend = Answer(members)
    /\ PolicyChecks => \A k \in Words : Seen(k) <=> Has(members, k)

\* A probe that reads the root enters nothing.
Alone ==
    /\ len <= 1
    /\ IF AtRoot THEN RootReads
       ELSE path = <<>> /\ (len = 1 \/ ~rootDone => members = <<>>)
    /\ pseen = {k \in Wanted : Has(members, k)}
    /\ HaveFirst(members)
    /\ Results(members, Ended, vals, wrote)

\* A probe that is mounted below is never asked for a key of the root.
Mounted ==
    /\ members = <<>> /\ wrote = <<>> /\ pseen = {}
    /\ vals = [k \in Wanted |-> 0]
    /\ len > 0 /\ top.kind = "object" /\ top.ph = "value" /\ cur = Probe =>
          pend \in {Do("Pass"), Do("Skip")}

\* The root is nobody's but the protocol's.
RootHook(fs) == fs # <<>> => fs[1].hook = None

PInv ==
    /\ ProbeTypes
    /\ ~dead => RootHook(frames) /\ IF proto = Probe THEN Alone ELSE Mounted

LEMMA FirstOfFirst ==
    ASSUME NEW s, NEW e \in Int, NEW m \in 1 .. e, IsFirst(s, m)
    PROVE  FirstOf(s, e, s[m]) = m
<1> DEFINE at == {n \in 1 .. e : s[n] = s[m]}
<1>1. m \in at /\ at # {}
  OBVIOUS
<1>2. \A n \in at : m <= n
  <2>1. TAKE n \in at
  <2>2. n \in 1 .. e /\ s[n] = s[m]
    OBVIOUS
  <2>3. n \notin 1 .. m - 1
    BY <2>2 DEF IsFirst
  <2> QED
    BY <2>2, <2>3
<1>3. \A x, y \in at : (\A n \in at : x <= n) /\ (\A n \in at : y <= n) => x = y
  <2>1. TAKE x, y \in at
  <2>2. x \in Int /\ y \in Int
    OBVIOUS
  <2> HIDE DEF at
  <2> QED
    BY <2>2
<1>4. FirstOf(s, e, s[m]) = CHOOSE x \in at : \A n \in at : x <= n
  BY <1>1 DEF FirstOf
<1> HIDE DEF at
<1>5. (CHOOSE x \in at : \A n \in at : x <= n) = m
  BY <1>1, <1>2, <1>3
<1> QED
  BY <1>4, <1>5

LEMMA LastOrBefore ==
    ASSUME NEW n \in Nat, NEW i \in 1 .. n
    PROVE  i \in 1 .. n - 1 \/ i = n
OBVIOUS

LEMMA FirstOfNone ==
    ASSUME NEW s, NEW e, NEW k, \A m \in 1 .. e : s[m] # k
    PROVE  FirstOf(s, e, k) = 0
<1>1. {m \in 1 .. e : s[m] = k} = {}
  OBVIOUS
<1> QED
  BY <1>1 DEF FirstOf

\* What follows e does not matter.
LEMMA FirstOfSame ==
    ASSUME NEW s, NEW t, NEW e, NEW k, \A m \in 1 .. e : s[m] = t[m]
    PROVE  FirstOf(s, e, k) = FirstOf(t, e, k)
<1> DEFINE A == {m \in 1 .. e : s[m] = k}
           B == {m \in 1 .. e : t[m] = k}
<1>1. A = B
  OBVIOUS
<1>2. /\ FirstOf(s, e, k) =
            IF A = {} THEN 0 ELSE CHOOSE m \in A : \A n \in A : m <= n
      /\ FirstOf(t, e, k) =
            IF B = {} THEN 0 ELSE CHOOSE m \in B : \A n \in B : m <= n
  BY DEF FirstOf
<1> HIDE DEF A, B
<1> QED
  BY <1>1, <1>2

\* The last of the members is the first of its key or another is.
LEMMA FirstOfLast ==
    ASSUME NEW s \in Seq(Words), s # <<>>, HaveFirst(s), NEW k
    PROVE  /\ FirstOf(s, Len(s) - 1, k) \in 0 .. Len(s) - 1
           /\ FirstOf(s, Len(s), k) =
                 IF k = s[Len(s)] /\ IsFirst(s, Len(s)) THEN Len(s)
                 ELSE FirstOf(s, Len(s) - 1, k)
           /\ FirstOf(s, Len(s), k) # Len(s) <=>
                 ~(k = s[Len(s)] /\ IsFirst(s, Len(s)))
<1> DEFINE L == Len(s)
<1>1. L \in Nat /\ L > 0 /\ DOMAIN s = 1 .. L /\ L \in 1 .. L
      /\ L - 1 \in Int
  BY LenPositive, LenProperties
<1> HIDE DEF L
<1>2. ASSUME NEW m \in 1 .. L - 1, s[m] = k
      PROVE  /\ \E n \in 1 .. L - 1 : FirstOf(s, L - 1, k) = n /\ FirstOf(s, L, k) = n
             /\ ~(k = s[L] /\ IsFirst(s, L))
    <2>1. m \in 1 .. L
      BY <1>1
    <2>2. PICK n \in 1 .. m : s[n] = s[m] /\ IsFirst(s, n)
      BY <1>1, <2>1 DEF HaveFirst
    <2>3. n \in 1 .. L - 1 /\ n \in 1 .. L
      BY <1>1, <2>2
    <2>4. FirstOf(s, L - 1, k) = n /\ FirstOf(s, L, k) = n
      BY <1>1, <1>2, <2>2, <2>3, FirstOfFirst
    <2>5. ~(k = s[L] /\ IsFirst(s, L))
      BY <1>2 DEF IsFirst
    <2> QED
      BY <2>3, <2>4, <2>5
<1>3. CASE \E m \in 1 .. L - 1 : s[m] = k
  <2>1. PICK n \in 1 .. L - 1 : FirstOf(s, L - 1, k) = n /\ FirstOf(s, L, k) = n
    BY <1>2, <1>3
  <2>2. ~(k = s[L] /\ IsFirst(s, L))
    BY <1>2, <1>3
  <2>3. n \in 0 .. L - 1 /\ n # L
    BY <1>1
  <2> QED
    BY <2>1, <2>2, <2>3 DEF L
<1>4. CASE (\A m \in 1 .. L - 1 : s[m] # k) /\ k = s[L]
  <2>1. FirstOf(s, L - 1, k) = 0 /\ IsFirst(s, L)
    BY <1>4, FirstOfNone DEF IsFirst
  <2>2. FirstOf(s, L, k) = L
    BY <1>1, <1>4, <2>1, FirstOfFirst
  <2>3. 0 \in 0 .. L - 1
    BY <1>1
  <2> QED
    BY <1>4, <2>1, <2>2, <2>3 DEF L
<1>5. CASE (\A m \in 1 .. L - 1 : s[m] # k) /\ k # s[L]
  <2>1. \A m \in 1 .. L : s[m] # k
    <3>1. TAKE m \in 1 .. L
    <3>2. m \in 1 .. L - 1 \/ m = L
      BY <1>1
    <3> QED
      BY <1>5, <3>2
  <2>2. FirstOf(s, L - 1, k) = 0 /\ FirstOf(s, L, k) = 0
    BY <1>5, <2>1, FirstOfNone
  <2>3. 0 \in 0 .. L - 1 /\ 0 # L
    BY <1>1
  <2> QED
    BY <1>5, <2>2, <2>3 DEF L
<1> QED
  BY <1>3, <1>4, <1>5

\* A key is read: what was handed over does not change.
LEMMA ResultsKey ==
    ASSUME NEW s \in Seq(Words), NEW k \in Words, NEW v, NEW w,
           Results(s, Len(s), v, w)
    PROVE  Results(Append(s, k), Len(s), v, w)
<1> DEFINE t == Append(s, k)
           e == Len(s)
<1>1. \A m \in 1 .. e : t[m] = s[m]
  BY AppendProperties
<1> HIDE DEF t, e
<1>2. \A x : FirstOf(t, e, x) = FirstOf(s, e, x)
  BY <1>1, FirstOfSame
<1>3. Results(s, e, v, w)
  BY DEF e
<1>4. {m \in 1 .. e : policy[2] = "first" => m = FirstOf(s, e, s[m])}
       = {m \in 1 .. e : policy[2] = "first" => m = FirstOf(t, e, t[m])}
  BY <1>1, <1>2
<1>5. Results(t, e, v, w)
  BY <1>2, <1>3, <1>4 DEF Results
<1> QED
  BY <1>5 DEF t, e

\* The answer is one of four, and only a first occurrence is handed over.
LEMMA AnswerFacts ==
    ASSUME NEW s
    PROVE  LET a == Answer(s).kind
               fst == IsFirst(s, Len(s)) /\ s[Len(s)] \in Wanted IN
           /\ Answer(s) = Do(a) /\ a \in Plain
           /\ a \in {"Observe", "Capture"} <=> fst
           /\ a = "Capture" => fst /\ ~observing
           /\ a = "Skip" <=> ~IsFirst(s, Len(s)) /\ policy[2] = "first"
BY DEF Answer, Do, Plain

\* The value of the last member is over.
LEMMA ResultsValue ==
    ASSUME NEW s \in Seq(Words), s # <<>>, HaveFirst(s),
           NEW v \in [Wanted -> Nat], NEW w \in Seq(Nat \X BOOLEAN),
           Results(s, Len(s) - 1, v, w), NEW v2, NEW w2,
           v2 = IF Answer(s).kind \in {"Observe", "Capture"}
                THEN [v EXCEPT ![s[Len(s)]] = Len(s)] ELSE v,
           \/ Answer(s).kind = "Skip" /\ w2 = w
           \/ \E r \in BOOLEAN :
                 /\ Answer(s).kind # "Skip"
                 /\ r => Answer(s).kind = "Capture"
                 /\ w2 = Append(w, <<Len(s), r>>)
    PROVE  Results(s, Len(s), v2, w2)
<1> DEFINE L == Len(s)
           e == L - 1
           fst == IsFirst(s, L)
           a == Answer(s).kind
<1>1. L \in Nat /\ L > 0 /\ L \in 1 .. L /\ Len(w) \in Nat /\ DOMAIN w = 1 .. Len(w)
  BY LenPositive, LenProperties
<1>2. /\ a \in {"Observe", "Capture"} <=> fst /\ s[L] \in Wanted
      /\ a = "Capture" => fst /\ s[L] \in Wanted /\ ~observing
      /\ a = "Skip" <=> ~fst /\ policy[2] = "first"
  BY AnswerFacts
<1>3. \A k : /\ FirstOf(s, e, k) \in 0 .. e
             /\ FirstOf(s, L, k) = IF k = s[L] /\ fst THEN L ELSE FirstOf(s, e, k)
  BY FirstOfLast
<1>4. fst => FirstOf(s, e, s[L]) = 0
  BY FirstOfNone DEF IsFirst
<1>5. Results(s, e, v, w)
  OBVIOUS
<1>6. v2 = IF a \in {"Observe", "Capture"} THEN [v EXCEPT ![s[L]] = L] ELSE v
  OBVIOUS
<1>7. \/ a = "Skip" /\ w2 = w
      \/ \E r \in BOOLEAN : a # "Skip" /\ (r => a = "Capture") /\ w2 = Append(w, <<L, r>>)
  OBVIOUS
<1> HIDE DEF L, fst, a
<1>8. \A k \in Wanted : v2[k] = FirstOf(s, L, k)
  <2>1. TAKE k \in Wanted
  <2>2. v[k] = FirstOf(s, e, k)
    BY <1>5 DEF Results
  <2> QED
    BY <1>2, <1>3, <1>6, <2>2
<1>9. {w[i][1] : i \in DOMAIN w} =
          {m \in 1 .. e : policy[2] = "first" => m = FirstOf(s, e, s[m])}
  BY <1>5 DEF Results
<1>10. \A i \in DOMAIN w : w[i][1] \in 1 .. e
  BY <1>9
<1>11. \A m \in 1 .. e : FirstOf(s, L, s[m]) = FirstOf(s, e, s[m])
  <2>1. TAKE m \in 1 .. e
  <2>2. s[m] = s[L] => ~fst
    BY DEF fst, IsFirst
  <2> QED
    BY <1>3, <2>2
<1>12. {m \in 1 .. L : policy[2] = "first" => m = FirstOf(s, L, s[m])} =
         {w[i][1] : i \in DOMAIN w}
            \cup IF policy[2] = "first" /\ ~fst THEN {} ELSE {L}
  <2>1. (policy[2] = "first" => L = FirstOf(s, L, s[L])) <=>
           ~(policy[2] = "first" /\ ~fst)
    <3>1. FirstOf(s, e, s[L]) # L
      BY <1>1, <1>3
    <3> QED
      BY <1>3, <3>1
  <2>2. \A m : m \in 1 .. L <=> m \in 1 .. e \/ m = L
    BY <1>1
  <2>3. L \notin 1 .. e
    BY <1>1
  <2> QED
    BY <1>9, <1>11, <2>1, <2>2
<1>13. \A i \in DOMAIN w : w[i][2] =>
          ~observing /\ \E k \in Wanted : w[i][1] = FirstOf(s, L, k)
  <2>1. TAKE i \in DOMAIN w
  <2>2. HAVE w[i][2]
  <2>3. PICK k \in Wanted : ~observing /\ w[i][1] = FirstOf(s, e, k)
    BY <1>5, <2>2 DEF Results
  <2>4. w[i][1] # 0
    BY <1>10
  <2>5. ~(k = s[L] /\ fst)
    BY <1>4, <2>3, <2>4
  <2> QED
    BY <1>3, <2>3, <2>5
<1>14. \A i \in 1 .. Len(w) - 1 : w[i][1] < w[i + 1][1]
  BY <1>5 DEF Results
<1>15. CASE a = "Skip" /\ w2 = w
  <2>1. {w2[i][1] : i \in DOMAIN w2} =
         {m \in 1 .. L : policy[2] = "first" => m = FirstOf(s, L, s[m])}
    BY <1>2, <1>12, <1>15
  <2>2. Results(s, L, v2, w2)
    BY <1>8, <1>13, <1>14, <1>15, <2>1 DEF Results
  <2> QED
    BY <2>2 DEF L
<1>16. ASSUME NEW r \in BOOLEAN, a # "Skip", r => a = "Capture",
              w2 = Append(w, <<L, r>>)
       PROVE  Results(s, L, v2, w2)
  <2>1. /\ Len(w2) = Len(w) + 1 /\ DOMAIN w2 = 1 .. Len(w) + 1
        /\ \A i \in DOMAIN w : w2[i] = w[i]
        /\ w2[Len(w) + 1] = <<L, r>>
    <3>1. <<L, r>> \in Nat \X BOOLEAN
      BY <1>1
    <3> DEFINE x == <<L, r>>
    <3> HIDE DEF x
    <3>2. /\ w2 = Append(w, x) /\ x \in Nat \X BOOLEAN
          /\ w \in Seq(Nat \X BOOLEAN)
      BY <1>16, <3>1 DEF x
    <3>3. /\ Append(w, x) \in Seq(Nat \X BOOLEAN)
          /\ Len(Append(w, x)) = Len(w) + 1
          /\ \A i \in 1 .. Len(w) : Append(w, x)[i] = w[i]
          /\ Append(w, x)[Len(w) + 1] = x
      BY <3>2, AppendProperties
    <3>4. DOMAIN w2 = 1 .. Len(w2)
      BY <3>2, <3>3, LenProperties
    <3> QED
      BY <1>1, <3>2, <3>3, <3>4 DEF x
  <2>2. \A i \in DOMAIN w2 : i \in DOMAIN w \/ i = Len(w) + 1
    BY <1>1, <2>1
  <2>3. \A i \in DOMAIN w : i \in DOMAIN w2
    BY <1>1, <2>1
  <2>4. w2[Len(w) + 1][1] = L /\ w2[Len(w) + 1][2] = r
    BY <2>1
  <2>5. Len(w) + 1 \in DOMAIN w2
    BY <1>1, <2>1
  <2>6. {w2[i][1] : i \in DOMAIN w2} = {w[i][1] : i \in DOMAIN w} \cup {L}
    BY <2>1, <2>2, <2>3, <2>4, <2>5
  <2>7. {w2[i][1] : i \in DOMAIN w2} =
         {m \in 1 .. L : policy[2] = "first" => m = FirstOf(s, L, s[m])}
    BY <1>2, <1>12, <1>16, <2>6
  <2>8. \A i \in DOMAIN w2 : w2[i][2] =>
          ~observing /\ \E k \in Wanted : w2[i][1] = FirstOf(s, L, k)
    <3>1. TAKE i \in DOMAIN w2
    <3>2. CASE i \in DOMAIN w
      BY <1>13, <2>1, <3>2
    <3>3. CASE i = Len(w) + 1
      <4>1. HAVE w2[i][2]
      <4>2. fst /\ s[L] \in Wanted /\ ~observing
        BY <1>2, <1>16, <2>4, <3>3, <4>1
      <4>3. FirstOf(s, L, s[L]) = L
        BY <1>3, <4>2
      <4> QED
        BY <2>4, <3>3, <4>2, <4>3
    <3> QED
      BY <2>2, <3>2, <3>3
  <2>9. \A i \in 1 .. Len(w2) - 1 : w2[i][1] < w2[i + 1][1]
    <3>1. TAKE i \in 1 .. Len(w2) - 1
    <3>2. i \in 1 .. Len(w) - 1 \/ i = Len(w)
      <4>1. Len(w2) - 1 = Len(w)
        BY <1>1, <2>1
      <4>2. i \in 1 .. Len(w)
        BY <4>1
      <4>3. Len(w) \in Nat
        BY <1>1
      <4> QED
        BY <4>2, <4>3, LastOrBefore
    <3>3. i \in DOMAIN w
      BY <1>1, <2>1
    <3>4. CASE i \in 1 .. Len(w) - 1
      <4>1. i + 1 \in DOMAIN w
        BY <1>1, <3>4
      <4> QED
        BY <1>14, <2>1, <3>3, <3>4, <4>1
    <3>5. CASE i = Len(w)
      <4>1. w[i][1] \in 1 .. e
        BY <1>10, <3>3
      <4> QED
        BY <1>1, <2>1, <2>4, <3>3, <3>5, <4>1
    <3> QED
      BY <3>2, <3>4, <3>5
  <2> QED
    BY <1>8, <2>7, <2>8, <2>9 DEF Results
<1>17. Results(s, L, v2, w2)
  BY <1>7, <1>15, <1>16 DEF L
<1> QED
  BY <1>17 DEF L

-----------------------------------------------------------------------------
(* KeyProbe: what the probe is asked.                                      *)

Entries(c) == {c[i] : i \in DOMAIN c}

LEMMA AskedEntries ==
    ASSUME NEW what
    PROVE  Asked(what) <=> \E c \in Entries(calls') : c.to = Probe /\ c.what = what
BY DEF Asked, Entries

LEMMA EntriesJoined ==
    ASSUME NEW a \in Seq(CallT), NEW b \in Seq(CallT)
    PROVE  Entries(a \o b) = Entries(a) \cup Entries(b)
<1>1. /\ Len(a) \in Nat /\ Len(b) \in Nat
      /\ DOMAIN a = 1 .. Len(a) /\ DOMAIN b = 1 .. Len(b)
      /\ a \o b \in Seq(CallT) /\ Len(a \o b) = Len(a) + Len(b)
      /\ \A i \in 1 .. Len(a) + Len(b) :
            (a \o b)[i] = IF i <= Len(a) THEN a[i] ELSE b[i - Len(a)]
  BY ConcatProperties, LenProperties
<1>2. DOMAIN (a \o b) = 1 .. Len(a) + Len(b)
  BY <1>1, LenProperties
<1>3. ASSUME NEW x \in Entries(a \o b)
      PROVE  x \in Entries(a) \cup Entries(b)
  <2>1. PICK i \in 1 .. Len(a) + Len(b) : x = (a \o b)[i]
    BY <1>2 DEF Entries
  <2>2. \/ i \in 1 .. Len(a) /\ x = a[i]
        \/ i - Len(a) \in 1 .. Len(b) /\ x = b[i - Len(a)]
    BY <1>1, <2>1
  <2> QED
    BY <1>1, <2>2 DEF Entries
<1>4. ASSUME NEW x \in Entries(a)
      PROVE  x \in Entries(a \o b)
  <2>1. PICK i \in 1 .. Len(a) : x = a[i]
    BY <1>1 DEF Entries
  <2>2. i \in 1 .. Len(a) + Len(b) /\ (a \o b)[i] = x
    BY <1>1, <2>1
  <2> QED
    BY <1>2, <2>2 DEF Entries
<1>5. ASSUME NEW x \in Entries(b)
      PROVE  x \in Entries(a \o b)
  <2>1. PICK i \in 1 .. Len(b) : x = b[i]
    BY <1>1 DEF Entries
  <2>2. Len(a) + i \in 1 .. Len(a) + Len(b) /\ ~(Len(a) + i <= Len(a))
        /\ Len(a) + i - Len(a) = i
    BY <1>1, <2>1
  <2>3. (a \o b)[Len(a) + i] = x
    BY <1>1, <2>1, <2>2
  <2> QED
    BY <1>2, <2>2, <2>3 DEF Entries
<1> QED
  BY <1>3, <1>4, <1>5

LEMMA EntriesTold ==
    /\ Entries(<<>>) = {}
    /\ \A to, what, p :
          Entries(Told(to, what, p)) = {[to |-> to, what |-> what, place |-> p]}
<1>1. Entries(<<>>) = {}
  BY DEF Entries
<1>2. ASSUME NEW c PROVE Entries(<<c>>) = {c}
  BY DEF Entries
<1> QED
  BY <1>1, <1>2 DEF Told

\* A key is offered to one hook, and so is the end of a container.
LEMMA AskedOnce ==
    ASSUME NEW to, NEW w, NEW p, calls' = Told(to, w, p), NEW what
    PROVE  Asked(what) <=> to = Probe /\ what = w
<1>1. Entries(calls') = {[to |-> to, what |-> w, place |-> p]}
  BY EntriesTold
<1> QED
  BY <1>1, AskedEntries

LEMMA AskedNothing ==
    ASSUME calls' = <<>>, NEW what
    PROVE  ~Asked(what)
BY EntriesTold, AskedEntries

\* A value tells its hook of the element, of the start when it is probed, and
\* of the end when the bytes are given to it.
LEMMA AskedOfValue ==
    ASSUME NEW elem, NEW given \in BOOLEAN,
           cur \in Hooks \cup Protocols, Here \in Seq(Members),
           \/ ~given /\ calls' \in {AskedHere(elem), AskedHere(elem) \o <<>>}
           \/ given /\ calls' = AskedHere(elem) \o Told(cur, "OnValue", Here)
    PROVE  /\ ~Asked("OnKey")
           /\ Asked("OnElem") <=> cur = Probe /\ top.kind = "array"
           /\ Asked("OnStart") <=> cur = Probe /\ elem.kind = "Probe"
           /\ Asked("OnValue") <=> cur = Probe /\ given
<1> DEFINE E == IF top.kind = "array" THEN Told(cur, "OnElem", Here) ELSE <<>>
           S == IF elem.kind = "Probe" THEN Told(cur, "OnStart", Here)
                ELSE <<>>
           V == Told(cur, "OnValue", Here)
           C(w) == [to |-> cur, what |-> w, place |-> Here]
<1>1. /\ Told(cur, "OnElem", Here) \in Seq(CallT)
      /\ Told(cur, "OnStart", Here) \in Seq(CallT)
      /\ V \in Seq(CallT) /\ <<>> \in Seq(CallT)
  <2>1. "OnElem" \in Callback /\ "OnStart" \in Callback /\ "OnValue" \in Callback
    BY DEF Callback
  <2> QED
    BY <2>1, ToldType, EmptySeq
<1>2. E \in Seq(CallT) /\ S \in Seq(CallT)
  BY <1>1
<1>3. /\ Entries(E) = IF top.kind = "array" THEN {C("OnElem")} ELSE {}
      /\ Entries(S) = IF elem.kind = "Probe" THEN {C("OnStart")} ELSE {}
      /\ Entries(V) = {C("OnValue")}
  BY EntriesTold
<1>4. AskedHere(elem) = E \o S
  BY DEF AskedHere
<1> HIDE DEF E, S, V
<1>5. E \o S \in Seq(CallT) /\ Entries(E \o S) = Entries(E) \cup Entries(S)
  BY <1>2, EntriesJoined, ConcatProperties
<1>6. Entries(calls') = Entries(E) \cup Entries(S) \cup IF given THEN Entries(V) ELSE {}
  <2>1. CASE given
    <3>1. calls' = (E \o S) \o V
      BY <1>4, <2>1 DEF V
    <3>2. Entries((E \o S) \o V) = Entries(E \o S) \cup Entries(V)
      BY <1>1, <1>5, EntriesJoined
    <3> QED
      BY <1>5, <2>1, <3>1, <3>2
  <2>2. CASE ~given
    <3>1. calls' = E \o S \/ calls' = (E \o S) \o <<>>
      BY <1>4, <2>2
    <3>2. (E \o S) \o <<>> = E \o S
      BY <1>5, ConcatEmptySeq
    <3> QED
      BY <1>5, <2>2, <3>1, <3>2
  <2> QED
    BY <2>1, <2>2
<1>7. \A c : c \in Entries(calls') <=>
          \/ top.kind = "array" /\ c = C("OnElem")
          \/ elem.kind = "Probe" /\ c = C("OnStart")
          \/ given /\ c = C("OnValue")
  BY <1>3, <1>6
<1>8. \A w : C(w).to = cur /\ C(w).what = w
  OBVIOUS
<1> HIDE DEF C
<1>9. \A w : Asked(w) <=> \E c \in Entries(calls') : c.to = Probe /\ c.what = w
  BY AskedEntries
<1>10. ASSUME NEW w
       PROVE  Asked(w) <=>
                /\ cur = Probe
                /\ \/ top.kind = "array" /\ w = "OnElem"
                   \/ elem.kind = "Probe" /\ w = "OnStart"
                   \/ given /\ w = "OnValue"
  BY <1>7, <1>8, <1>9
<1>11. /\ "OnKey" # "OnElem" /\ "OnKey" # "OnStart" /\ "OnKey" # "OnValue"
       /\ "OnElem" # "OnStart" /\ "OnElem" # "OnValue" /\ "OnStart" # "OnValue"
  OBVIOUS
<1> QED
  BY <1>10, <1>11

-----------------------------------------------------------------------------
(* KeyProbe: the hook of the root.                                         *)

LEMMA OneOrLater ==
    ASSUME NEW n \in Nat, n > 0
    PROVE  1 = n \/ 1 \in 1 .. n - 1
OBVIOUS

LEMMA HookOfFirst ==
    ASSUME NEW fs \in Seq(FrameT), fs # <<>>, RootHook(fs)
    PROVE  /\ \A f \in FrameT : f.hook = fs[Len(fs)].hook =>
                RootHook([fs EXCEPT ![Len(fs)] = f])
           /\ \A f \in FrameT : RootHook(Append(fs, f))
           /\ RootHook(SubSeq(fs, 1, Len(fs) - 1))
<1>1. Len(fs) \in Nat /\ Len(fs) > 0 /\ fs[1].hook = None
  BY LenPositive DEF RootHook
<1>2. ASSUME NEW f \in FrameT, f.hook = fs[Len(fs)].hook
      PROVE  RootHook([fs EXCEPT ![Len(fs)] = f])
  <2> DEFINE g == [fs EXCEPT ![Len(fs)] = f]
  <2>1. /\ g[Len(fs)] = f /\ \A i \in 1 .. Len(fs) - 1 : g[i] = fs[i]
    BY ReplaceTop
  <2> HIDE DEF g
  <2>2. 1 = Len(fs) \/ 1 \in 1 .. Len(fs) - 1
    BY <1>1, OneOrLater
  <2>3. g[1].hook = None
    BY <1>1, <1>2, <2>1, <2>2
  <2> QED
    BY <2>3 DEF RootHook, g
<1>3. ASSUME NEW f \in FrameT
      PROVE  RootHook(Append(fs, f))
  <2>1. \A i \in 1 .. Len(fs) : Append(fs, f)[i] = fs[i]
    BY OpenInside
  <2>2. 1 \in 1 .. Len(fs)
    BY <1>1
  <2> QED
    BY <1>1, <2>1, <2>2 DEF RootHook
<1>4. RootHook(SubSeq(fs, 1, Len(fs) - 1))
  <2> DEFINE g == SubSeq(fs, 1, Len(fs) - 1)
  <2>1. /\ g \in Seq(FrameT) /\ Len(g) = Len(fs) - 1
        /\ \A i \in 1 .. Len(fs) - 1 : g[i] = fs[i]
    BY CloseInner
  <2> HIDE DEF g
  <2>2. g # <<>> => Len(g) \in Nat /\ Len(g) > 0
    BY <2>1, LenPositive
  <2>3. g # <<>> => g[1] = fs[1]
    BY <1>1, <2>1, <2>2
  <2>4. RootHook(g)
    BY <1>1, <2>3 DEF RootHook
  <2> QED
    BY <2>4 DEF g
<1> QED
  BY <1>2, <1>3, <1>4

LEMMA HooksSame ==
    ASSUME NEW f \in FrameT
    PROVE  /\ \A w, ks : Keyed(f, w, ks).hook = f.hook
           /\ Indexed(f).hook = f.hook /\ Over(f).hook = f.hook
BY DEF Keyed, Indexed, Over, FrameT

LEMMA HookBegun ==
    ASSUME TypesOK, Shape(frames, path), len > 0, RootHook(frames),
           top.kind = "array" => Room
    PROVE  RootHook(Begun)
<1>1. /\ frames \in Seq(FrameT) /\ frames # <<>> /\ top \in FrameT
      /\ Len(frames) = len /\ FrameShape(top, FALSE) /\ top = frames[len]
  BY TopFrame DEF TypesOK, top
<1>2. CASE top.kind = "array"
  <2>1. Indexed(top) \in FrameT /\ Indexed(top).hook = frames[Len(frames)].hook
    BY <1>1, <1>2, IndexedFacts, HooksSame DEF Room
  <2> QED
    BY <1>1, <1>2, <2>1, HookOfFirst DEF Begun
<1>3. CASE top.kind # "array"
  BY <1>3 DEF Begun
<1> QED
  BY <1>2, <1>3

LEMMA HookOver ==
    ASSUME NEW fs, NEW p, fs \in Seq(FrameT), Inside(fs, p),
           Len(fs) <= MaxFrames, afterValue(fs, p), RootHook(fs)
    PROVE  RootHook(frames')
<1>1. frames' = [fs EXCEPT ![Len(fs)] = Over(fs[Len(fs)])] /\ fs # <<>>
  BY AfterValue DEF Inside
<1>2. fs[Len(fs)] \in FrameT /\ FrameShape(fs[Len(fs)], TRUE)
  BY InsideLaid
<1>3. /\ Over(fs[Len(fs)]) \in FrameT
      /\ Over(fs[Len(fs)]).hook = fs[Len(fs)].hook
  BY <1>2, OverFacts, HooksSame
<1> QED
  BY <1>1, <1>3, HookOfFirst

LEMMA HookKept ==
    ASSUME IInv, ~dead, RootHook(frames), Next, ~dead'
    PROVE  RootHook(frames')
<1>t. /\ TypesOK /\ Shape(frames, path) /\ frames \in Seq(FrameT)
      /\ Len(frames) <= MaxFrames /\ Len(frames) = len
  BY DEF IInv, TypesOK, FramesOK, len
<1>1. ASSUME NEW kind \in Containers, Root(kind)
      PROVE  RootHook(frames')
  <2>1. frames' = Append(frames, Frame(kind, None)) /\ len = 0
    BY <1>1 DEF Root, pushFrame
  <2>2. Frame(kind, None) \in FrameT /\ Frame(kind, None).hook = None
    BY NewFrame DEF Frame
  <2>3. Append(frames, Frame(kind, None))[Len(frames) + 1] = Frame(kind, None)
    BY <1>t, <2>2, OpenInside
  <2>4. Len(frames) + 1 = 1
    BY <1>t, <2>1
  <2> QED
    BY <2>1, <2>2, <2>3, <2>4 DEF RootHook
<1>2. ASSUME NEW w \in Words, NEW escaped \in BOOLEAN, NEW act \in Answers,
             onKeyDone(w, escaped, act)
      PROVE  RootHook(frames')
  <2> DEFINE keys == IF PolicyChecks /\ ~Seen(w) THEN Append(top.seen, w)
                     ELSE top.seen
             f == Keyed(top, w, keys)
  <2>1. /\ keys \in Seq(Words) /\ (~PolicyChecks => keys = <<>>)
        /\ frames' = [frames EXCEPT ![len] = f]
        /\ len > 0 /\ top.kind = "object" /\ top.at = <<>>
        /\ top.n < MaxMembers
    BY <1>t, <1>2, KeyStep
  <2> HIDE DEF keys
  <2>2. /\ frames # <<>> /\ top \in FrameT /\ top = frames[Len(frames)]
    BY <1>t, <2>1, TopFrame DEF TypesOK, top
  <2>3. f \in FrameT /\ f.hook = frames[Len(frames)].hook
    <3>1. Keyed(top, w, keys) \in FrameT
      BY <2>1, <2>2, KeyedFacts
    <3>2. Keyed(top, w, keys).hook = frames[Len(frames)].hook
      BY <2>2, HooksSame
    <3> QED
      BY <3>1, <3>2
  <2> HIDE DEF f
  <2> QED
    BY <1>t, <2>1, <2>2, <2>3, HookOfFirst
<1>3. CASE BadKey
  BY <1>3 DEF BadKey
<1>4. ASSUME NEW w \in Words, Elsewhere(w)
      PROVE  RootHook(frames')
  BY <1>4 DEF Elsewhere
<1>5. ASSUME NEW kind \in Kinds, NEW bails \in BOOLEAN,
             NEW elem \in Offered, NEW started \in Started(elem),
             valueStart(kind, elem, started, bails)
      PROVE  RootHook(frames')
  <2>1. started \in Actions
    BY <1>t, ActionFields DEF Offered, Started, TypesOK
  <2>2. /\ Begun \in Seq(FrameT) /\ Len(Begun) = len /\ Inside(Begun, Here)
        /\ apply(Begun, started, kind, Here, AskedHere(elem), bails)
        /\ len > 0 /\ top.hook \in Hooks \cup {None}
        /\ IF top.kind = "array" THEN Room ELSE top.ph = "value"
    BY <1>t, <1>5, <2>1, ValueStep
  <2>3. RootHook(Begun) /\ Begun # <<>>
    BY <1>t, <2>2, HookBegun DEF Inside
  <2>4. \/ afterValue(Begun, Here)
        \/ /\ \E via \in Hooks \cup {None} :
                 frames' = Append(Begun, Frame(kind,
                             IF via # None THEN via ELSE top.hook))
           /\ kind \in Containers
    <3>1. len \in Nat
      BY <1>t, LenProperties
    <3>2. \/ frames' = Begun /\ path' = Here /\ dead' = TRUE
          \/ afterValue(Begun, Here) /\ dead' = FALSE
          \/ /\ \E via \in Hooks \cup {None} :
                   frames' = Append(Begun, Frame(kind,
                               IF via # None THEN via ELSE top.hook))
             /\ kind \in Containers /\ len < MaxFrames
             /\ path' = Here /\ dead' = FALSE
      BY <1>t, <2>1, <2>2, <3>1, Applied
    <3> QED
      BY <3>2
  <2>5. CASE afterValue(Begun, Here)
    BY <1>t, <2>2, <2>3, <2>5, HookOver
  <2>6. ASSUME NEW via \in Hooks \cup {None}, kind \in Containers,
               frames' = Append(Begun, Frame(kind,
                             IF via # None THEN via ELSE top.hook))
        PROVE  RootHook(frames')
    <3> DEFINE h == IF via # None THEN via ELSE top.hook
    <3>1. h \in Hooks \cup {None}
      BY <2>2
    <3> HIDE DEF h
    <3>2. Frame(kind, h) \in FrameT
      BY <2>6, <3>1, NewFrame
    <3> QED
      BY <2>2, <2>3, <2>6, <3>2, HookOfFirst DEF h
  <2> QED
    BY <2>4, <2>5, <2>6
<1>6. ASSUME NEW bails \in BOOLEAN, closeContainer(bails)
      PROVE  RootHook(frames')
  <2> DEFINE outer == SubSeq(frames, 1, len - 1)
  <2>1. /\ len > 0 /\ outer \in Seq(FrameT) /\ Len(outer) = len - 1
        /\ len > 1 => Inside(outer, path)
        /\ dead' = bails
        /\ IF bails THEN UNCHANGED <<frames, path>>
           ELSE IF len = 1 THEN frames' = outer /\ UNCHANGED path
           ELSE afterValue(outer, path)
    BY <1>t, <1>6, CloseStep
  <2>2. frames # <<>> /\ len \in Nat
    BY <1>t, <2>1, TopFrame DEF TypesOK
  <2>3. RootHook(outer)
    BY <1>t, <2>2, HookOfFirst
  <2>4. Len(outer) <= MaxFrames
    <3>1. MaxFrames \in Nat
      BY DispatchAssumption
    <3> QED
      BY <1>t, <2>1, <2>2, <3>1
  <2> HIDE DEF outer
  <2>5. CASE bails
    BY <2>1, <2>5
  <2>6. CASE ~bails /\ len = 1
    BY <2>1, <2>3, <2>6
  <2>7. CASE ~bails /\ len # 1
    <3>1. len > 1
      BY <2>1, <2>2, <2>7
    <3> QED
      BY <2>1, <2>3, <2>4, <2>7, <3>1, HookOver
  <2> QED
    BY <2>5, <2>6, <2>7
<1> QED
  BY <1>1, <1>2, <1>3, <1>4, <1>5, <1>6 DEF Next

-----------------------------------------------------------------------------
(* KeyProbe: a step of a probe that reads the root.                        *)

\* What a step has to show.
LEMMA AloneGiven ==
    ASSUME UNCHANGED <<observing, policy, proto>>, proto = Probe,
           \/ /\ Len(frames') = 1 /\ frames'[1].kind = "object"
              /\ Len(members') = frames'[1].n + Len(frames'[1].at)
              /\ path' # <<>> =>
                    /\ members' # <<>> /\ path' = <<members'[Len(members')]>>
                    /\ pend' = Answer(members')
              /\ PolicyChecks => \A k \in Words :
                    Has(frames'[1].seen, k) <=> Has(members', k)
           \/ /\ Len(frames') = 1 /\ frames'[1].kind # "object"
              /\ path' = <<>> /\ members' = <<>>
           \/ /\ Len(frames') = 0
              /\ path' = <<>> /\ (~rootDone' => members' = <<>>),
           pseen' = {k \in Wanted : Has(members', k)}, HaveFirst(members'),
           Results(members', IF path' = <<>> THEN Len(members')
                             ELSE Len(members') - 1, vals', wrote')
    PROVE  Alone'
<1>1. len' = Len(frames') /\ (len' = 1 => top' = frames'[1])
  BY DEF len, top
<1>2. AtRoot' <=> Len(frames') = 1 /\ frames'[1].kind = "object"
  BY <1>1 DEF AtRoot
<1>3. Results(members, Ended, vals, wrote)'
  BY DEF Results, Ended
<1>4. (HaveFirst(members))' /\ (pseen = {k \in Wanted : Has(members, k)})'
  BY DEF HaveFirst, Has, IsFirst
<1>5. CASE Len(frames') = 1 /\ frames'[1].kind = "object"
  <2>1. RootReads'
    BY <1>1, <1>5 DEF RootReads, Answer, Seen, Has, PolicyChecks
  <2> QED
    BY <1>1, <1>2, <1>3, <1>4, <1>5, <2>1 DEF Alone
<1>6. CASE ~(Len(frames') = 1 /\ frames'[1].kind = "object")
  <2>1. /\ len' <= 1
        /\ (path = <<>> /\ (len = 1 \/ ~rootDone => members = <<>>))'
    BY <1>1, <1>6
  <2> QED
    BY <1>2, <1>3, <1>4, <1>6, <2>1 DEF Alone
<1> QED
  BY <1>5, <1>6

\* Where a probe reads alone.
LEMMA AloneFacts ==
    ASSUME IInv, ProbeTypes, ~dead, RootHook(frames), proto = Probe, Alone
    PROVE  /\ TypesOK /\ Shape(frames, path) /\ frames \in Seq(FrameT)
           /\ len = 0 \/ len = 1
           /\ len = 1 => /\ cur = Probe /\ top = frames[1] /\ top \in FrameT
                         /\ frames = <<top>> /\ FrameShape(top, FALSE)
                         /\ Len(path) = Len(top.at)
           /\ len = 0 => frames = <<>>
           /\ path \in Seq(Members) /\ (Len(path) = 0 <=> path = <<>>)
           /\ members \in Seq(Words)
<1>1. /\ TypesOK /\ Shape(frames, path) /\ frames \in Seq(FrameT)
      /\ path \in Seq(Members) /\ len \in Nat /\ len <= 1
      /\ members \in Seq(Words) /\ Len(frames) = len
  BY LenProperties DEF IInv, TypesOK, FramesOK, len, ProbeTypes, Alone
<1>2. len = 0 \/ len = 1
  BY <1>1
<1>3. Len(path) = 0 <=> path = <<>>
  BY <1>1, EmptySeq
<1>4. len = 0 => frames = <<>>
  BY <1>1, EmptySeq
<1>5. ASSUME len = 1
      PROVE  /\ cur = Probe /\ top = frames[1] /\ top \in FrameT
             /\ frames = <<top>> /\ FrameShape(top, FALSE)
             /\ Len(path) = Len(top.at)
  <2>1. /\ frames # <<>> /\ top \in FrameT /\ FrameShape(top, FALSE)
        /\ top = frames[1]
    <3>1. len > 0
      BY <1>5
    <3> QED
      BY <1>1, <1>5, <3>1, TopFrame DEF TypesOK, top
  <2>2. cur = Probe
    <3>1. frames[1].hook = None
      BY <2>1 DEF RootHook
    <3> QED
      BY <1>5, <3>1 DEF cur, hookAt
  <2>3. frames = <<top>>
    <3>1. frames = [i \in 1 .. 1 |-> frames[i]]
      BY <1>1, <1>5, LenProperties
    <3> QED
      BY <2>1, <3>1
  <2>4. Len(path) = Len(top.at)
    <3>1. Len(path) = Len(frames) - 1 + Len(frames[Len(frames)].at)
      BY <1>1, <2>1 DEF Shape, Names
    <3>2. Len(top.at) \in Nat
      BY <2>1, FrameFields
    <3> QED
      BY <1>1, <1>5, <2>1, <3>1, <3>2
  <2> QED
    BY <2>1, <2>2, <2>3, <2>4
<1> QED
  BY <1>1, <1>2, <1>3, <1>4, <1>5

\* The root begins.
LEMMA AloneRoot ==
    ASSUME IInv, ProbeTypes, ~dead, RootHook(frames), proto = Probe, Alone,
           NEW kind \in Containers, Root(kind), ProbeNext
    PROVE  Alone' /\ ProbeTypes'
<1>1. /\ len = 0 /\ ~rootDone /\ calls' = <<>>
      /\ frames' = Append(frames, Frame(kind, None))
      /\ UNCHANGED <<path, pend, rootDone, dead, proto, policy, observing>>
  BY DEF Root, Reads, Const, pushFrame, ProbeNext
<1>2. frames = <<>> /\ path \in Seq(Members) /\ members \in Seq(Words)
  BY <1>1, AloneFacts
<1>3. ~AtRoot
  BY <1>1 DEF AtRoot
<1>4. path = <<>> /\ members = <<>>
  BY <1>1, <1>3 DEF Alone
<1>5. UNCHANGED <<pseen, vals, wrote, members>>
  <2>1. ~Asked("OnKey") /\ ~Asked("OnValue")
    BY <1>1, AskedNothing
  <2> QED
    BY <1>3, <2>1 DEF ProbeNext, Answered, Written
<1> DEFINE f == Frame(kind, None)
<1>6. /\ f.kind = kind /\ f.n = 0 /\ f.at = <<>> /\ f.seen = <<>>
  BY DEF Frame
<1> HIDE DEF f
<1>7. frames' = <<f>>
  BY <1>1, <1>2 DEF f
<1>8. Len(frames') = 1 /\ frames'[1] = f /\ Len(<<>>) = 0
  BY <1>7
<1>9. Results(members', Len(members'), vals', wrote')
  BY <1>4, <1>5 DEF Alone, Ended
<1>10. PolicyChecks => \A k \in Words :
          Has(frames'[1].seen, k) <=> Has(members', k)
  BY <1>4, <1>5, <1>6, <1>8 DEF Has
<1>11. Alone'
  <2>1. pseen' = {k \in Wanted : Has(members', k)} /\ HaveFirst(members')
    BY <1>5 DEF Alone
  <2>2. path' = <<>> /\ members' = <<>>
    BY <1>1, <1>4, <1>5
  <2>3. Len(members') = frames'[1].n + Len(frames'[1].at)
    BY <1>6, <1>8, <2>2
  <2> QED
    BY <1>1, <1>8, <1>9, <1>10, <2>1, <2>2, <2>3, AloneGiven
<1> QED
  BY <1>1, <1>5, <1>11 DEF ProbeTypes

\* Another key among the members.
LEMMA HasAppended ==
    ASSUME NEW s \in Seq(Words), NEW w \in Words
    PROVE  LET t == Append(s, w) IN
           /\ t \in Seq(Words) /\ Len(t) = Len(s) + 1 /\ t # <<>>
           /\ t[Len(t)] = w /\ Len(s) \in Nat
           /\ \A k : Has(t, k) <=> Has(s, k) \/ k = w
           /\ IsFirst(t, Len(t)) <=> ~Has(s, w)
           /\ HaveFirst(s) => HaveFirst(t)
<1> DEFINE t == Append(s, w)
           n == Len(s)
<1>1. /\ t \in Seq(Words) /\ Len(t) = n + 1 /\ t # <<>> /\ t[n + 1] = w
      /\ n \in Nat /\ \A i \in 1 .. n : t[i] = s[i]
      /\ DOMAIN s = 1 .. n
  BY AppendProperties, LenProperties, EmptySeq
<1>2. DOMAIN t = 1 .. n + 1
  BY <1>1, LenProperties
<1> HIDE DEF t, n
<1>3. \A i : i \in DOMAIN t <=> i \in 1 .. n \/ i = n + 1
  BY <1>1, <1>2
<1>4. \A k : Has(t, k) <=> Has(s, k) \/ k = w
  BY <1>1, <1>3 DEF Has
<1>5. IsFirst(t, n + 1) <=> ~Has(s, w)
  <2>1. n + 1 - 1 = n
    BY <1>1
  <2> QED
    BY <1>1, <2>1 DEF IsFirst, Has
<1>6. ASSUME HaveFirst(s)
      PROVE  HaveFirst(t)
  <2>1. ASSUME NEW m \in 1 .. n
        PROVE  \E i \in 1 .. m : t[i] = t[m] /\ IsFirst(t, i)
    <3>1. PICK i \in 1 .. m : s[i] = s[m] /\ IsFirst(s, i)
      BY <1>1, <1>6 DEF HaveFirst
    <3>2. i \in 1 .. n /\ \A j \in 1 .. i - 1 : j \in 1 .. n
      BY <1>1
    <3>3. IsFirst(t, i)
      BY <1>1, <3>1, <3>2 DEF IsFirst
    <3> QED
      BY <1>1, <3>1, <3>2, <3>3
  <2>2. \E i \in 1 .. n + 1 : t[i] = t[n + 1] /\ IsFirst(t, i)
    <3>1. CASE Has(s, w)
      <4>1. PICK m \in 1 .. n : s[m] = w
        BY <1>1, <3>1 DEF Has
      <4>2. PICK i \in 1 .. m : t[i] = t[m] /\ IsFirst(t, i)
        BY <2>1
      <4>3. i \in 1 .. n + 1
        BY <1>1
      <4> QED
        BY <1>1, <4>1, <4>2, <4>3
    <3>2. CASE ~Has(s, w)
      <4>1. n + 1 \in 1 .. n + 1
        BY <1>1
      <4> QED
        BY <1>5, <3>2, <4>1
    <3> QED
      BY <3>1, <3>2
  <2> QED
    BY <1>3, <2>1, <2>2 DEF HaveFirst
<1> QED
  BY <1>1, <1>4, <1>5, <1>6 DEF t, n

\* The keys of a frame, one more or the same.
LEMMA SeenKept ==
    ASSUME NEW f \in FrameT, NEW w \in Words, NEW keys,
           keys = Append(f.seen, w) \/ (keys = f.seen /\ Has(f.seen, w))
    PROVE  \A k : Has(Keyed(f, w, keys).seen, k) <=> Has(f.seen, k) \/ k = w
<1>1. f.seen \in Seq(Words) /\ Keyed(f, w, keys).seen = keys
  BY FrameFields DEF Keyed, FrameT
<1> DEFINE s == f.seen
<1>2. \A k : Has(Append(s, w), k) <=> Has(s, k) \/ k = w
  BY <1>1, HasAppended
<1>3. CASE keys = Append(s, w)
  BY <1>1, <1>2, <1>3
<1>4. CASE keys = s /\ Has(s, w)
  BY <1>1, <1>4
<1> QED
  BY <1>3, <1>4

\* The probe's answer to a key, or the policy's.
LEMMA KeyAnswer ==
    ASSUME IInv, ProbeTypes, ~dead, RootHook(frames), proto = Probe, Alone,
           NEW w \in Words, NEW escaped \in BOOLEAN, NEW act \in Answers,
           onKeyDone(w, escaped, act), ProbeNext, len = 1, AtRoot,
           path' = <<w>>
    PROVE  /\ pseen' = {k \in Wanted : Has(Append(members, w), k)}
           /\ ~dead' => pend' = Answer(Append(members, w))
           /\ vals' = vals
<1>1. /\ members \in Seq(Words) /\ cur = Probe
      /\ policy \in BOOLEAN \X {"pass", "bail", "first"}
  BY AloneFacts, DispatchAssumption DEF TypesOK
<1> DEFINE t == Append(members, w)
<1>2. /\ \A k : Has(t, k) <=> Has(members, k) \/ k = w
      /\ IsFirst(t, Len(t)) <=> ~Has(members, w)
      /\ t[Len(t)] = w
  BY <1>1, HasAppended
<1> HIDE DEF t
<1>3. pseen = {k \in Wanted : Has(members, k)}
  BY DEF Alone
<1>4. PolicyChecks => (Seen(w) <=> Has(members, w))
  BY DEF Alone, RootReads
<1>5. OnKey(w, w, Append(path, w), act)
  BY InternIsIdentity DEF onKeyDone
<1>6. Answered
  BY DEF ProbeNext
<1>7. CASE PolicyChecks /\ Seen(w)
  <2>1. /\ calls' = <<>> /\ dead' = PolicyBails
        /\ pend' = IF PolicyBails THEN pend ELSE Do("Skip")
    BY <1>5, <1>7 DEF OnKey
  <2>2. ~Asked("OnKey") /\ ~Asked("OnValue")
    BY <2>1, AskedNothing
  <2>3. pseen' = pseen /\ vals' = vals
    BY <1>6, <2>2 DEF Answered
  <2>4. Has(members, w)
    BY <1>4, <1>7
  <2>5. pseen = {k \in Wanted : Has(t, k)}
    BY <1>2, <1>3, <2>4
  <2>6. ~PolicyBails => policy[2] = "first"
    BY <1>1, <1>7 DEF PolicyBails, PolicyChecks
  <2>7. ~dead' => pend' = Answer(t)
    BY <1>2, <2>1, <2>4, <2>6 DEF Answer
  <2> QED
    BY <2>3, <2>5, <2>7 DEF t
<1>8. CASE ~(PolicyChecks /\ Seen(w))
  <2>1. calls' = Told(cur, "OnKey", Append(path, w))
    BY <1>5, <1>8 DEF OnKey
  <2>2. Asked("OnKey") /\ ~Asked("OnValue")
    BY <1>1, <2>1, AskedOnce
  <2>3. ProbeOnKey(path') /\ vals' = vals
    BY <1>6, <2>2 DEF Answered
  <2>4. Wants(path') <=> w \in Wanted /\ ~Has(members, w)
    <3>1. Len(path') = 1 /\ path'[Len(path')] = w
      OBVIOUS
    <3> QED
      BY <1>3, <3>1 DEF Wants
  <2>5. path'[Len(path')] = w
    OBVIOUS
  <2>6. CASE w \in Wanted /\ ~Has(members, w)
    <3>1. /\ pend' = Do(IF observing THEN "Observe" ELSE "Capture")
          /\ pseen' = pseen \cup {w}
      BY <2>3, <2>4, <2>5, <2>6 DEF ProbeOnKey
    <3>2. pseen' = {k \in Wanted : Has(t, k)}
      BY <1>2, <1>3, <2>6, <3>1
    <3>3. pend' = Answer(t)
      BY <1>2, <2>6, <3>1 DEF Answer
    <3> QED
      BY <2>3, <3>2, <3>3 DEF t
  <2>7. CASE ~(w \in Wanted /\ ~Has(members, w))
    <3>1. pend' = Do("Pass") /\ pseen' = pseen
      BY <2>3, <2>4, <2>7 DEF ProbeOnKey
    <3>2. pseen' = {k \in Wanted : Has(t, k)}
      BY <1>2, <1>3, <2>7, <3>1
    <3>3. Has(members, w) => policy[2] # "first"
      BY <1>4, <1>8 DEF PolicyChecks
    <3>4. pend' = Answer(t)
      BY <1>2, <2>7, <3>1, <3>3 DEF Answer
    <3> QED
      BY <2>3, <3>2, <3>4 DEF t
  <2> QED
    BY <2>6, <2>7
<1> QED
  BY <1>7, <1>8

\* A key of the root.
LEMMA AloneKey ==
    ASSUME IInv, ProbeTypes, ~dead, RootHook(frames), proto = Probe, Alone,
           NEW w \in Words, NEW escaped \in BOOLEAN, NEW act \in Answers,
           onKeyDone(w, escaped, act), ProbeNext
    PROVE  ProbeTypes' /\ (~dead' => Alone')
<1>a. /\ TypesOK /\ Shape(frames, path) /\ (len = 0 \/ len = 1)
      /\ members \in Seq(Words) /\ frames \in Seq(FrameT)
  BY AloneFacts
<1> DEFINE keys == IF PolicyChecks /\ ~Seen(w) THEN Append(top.seen, w)
                   ELSE top.seen
           f == Keyed(top, w, keys)
           t == Append(members, w)
<1>1. /\ keys \in Seq(Words) /\ (~PolicyChecks => keys = <<>>)
      /\ frames' = [frames EXCEPT ![len] = f] /\ path' = Append(path, w)
      /\ len > 0 /\ top.kind = "object" /\ top.at = <<>>
      /\ top.n < MaxMembers
      /\ UNCHANGED <<proto, policy, store, rootDone>>
  <2>1. TypesOK /\ Shape(frames, path)
    BY AloneFacts
  <2> QED
    BY <2>1, KeyStep
<1>2. /\ len = 1 /\ cur = Probe /\ top \in FrameT /\ frames = <<top>>
      /\ path = <<>> /\ Len(<<>>) = 0
  <2>1. len = 1
    BY <1>1, <1>a
  <2>2. Len(path) = Len(top.at) /\ Len(<<>>) = 0
    BY <2>1, AloneFacts
  <2> QED
    BY <1>1, <2>1, <2>2, AloneFacts
<1>3. AtRoot /\ RootReads
  BY <1>1, <1>2 DEF AtRoot, Alone
<1>4. path' = <<w>> /\ Len(path') = 1 /\ path'[1] = w /\ path' # <<>>
  <2>1. path' = <<w>>
    BY <1>1, <1>2
  <2> QED
    BY <2>1
<1>5. /\ pseen' = {k \in Wanted : Has(t, k)}
      /\ ~dead' => pend' = Answer(t)
      /\ vals' = vals
  BY <1>2, <1>3, <1>4, KeyAnswer
<1>6. members' = t /\ wrote' = wrote /\ observing' = observing
  <2>1. Len(path') > Len(path) /\ ~(Len(path') < Len(path))
    BY <1>2, <1>4
  <2> QED
    BY <1>3, <1>4, <2>1 DEF ProbeNext, Written
<1>7. /\ t \in Seq(Words) /\ Len(t) = Len(members) + 1 /\ t # <<>>
      /\ t[Len(t)] = w /\ Len(members) \in Nat
      /\ \A k : Has(t, k) <=> Has(members, k) \/ k = w
      /\ HaveFirst(members) => HaveFirst(t)
  BY <1>a, HasAppended
<1>8. Len(members) = top.n
  <2>1. top.n \in Nat /\ Len(top.at) = 0
    BY <1>1, <1>2, FrameFields
  <2> QED
    BY <1>3, <2>1 DEF RootReads
<1>9. f.kind = "object" /\ f.n = top.n /\ f.at = <<w>> /\ Len(f.at) = 1
  BY <1>1, <1>2 DEF Keyed, FrameT
<1>10. PolicyChecks => \A k \in Words : Has(f.seen, k) <=> Has(t, k)
  <2>1. SUFFICES ASSUME PolicyChecks
                 PROVE  \A k \in Words : Has(f.seen, k) <=> Has(t, k)
    OBVIOUS
  <2>2. Seen(w) <=> Has(top.seen, w)
    BY DEF Seen, Has
  <2>3. keys = Append(top.seen, w) \/ (keys = top.seen /\ Has(top.seen, w))
    BY <2>1, <2>2
  <2> HIDE DEF keys
  <2>4. \A k : Has(Keyed(top, w, keys).seen, k) <=> Has(top.seen, k) \/ k = w
    BY <1>2, <2>3, SeenKept
  <2>5. \A k \in Words : Has(top.seen, k) <=> Has(members, k)
    BY <1>3, <2>1 DEF RootReads, Seen, Has
  <2>6. \A k : Has(f.seen, k) <=> Has(top.seen, k) \/ k = w
    BY <2>4
  <2> HIDE DEF f, t
  <2> QED
    BY <1>7, <2>5, <2>6
<1> HIDE DEF f, t
<1>11. Len(frames') = 1 /\ frames'[1] = f
  BY <1>1, <1>2
<1>12. ProbeTypes'
  <2>1. Len(t) <= MaxMembers
    <3>1. top.n \in Nat /\ MaxMembers \in Nat
      BY <1>2, FrameFields, DispatchAssumption
    <3> QED
      BY <1>1, <1>7, <1>8, <3>1
  <2>2. pseen' \subseteq Wanted
    BY <1>5
  <2>3. \A i \in DOMAIN wrote : wrote[i][1] <= Len(t)
    <3>1. TAKE i \in DOMAIN wrote
    <3>2. wrote[i][1] <= Len(members) /\ wrote[i][1] \in Int
      BY DEF ProbeTypes
    <3> QED
      BY <1>7, <3>2
  <2> QED
    BY <1>5, <1>6, <1>7, <2>1, <2>2, <2>3 DEF ProbeTypes
<1>13. ASSUME ~dead'
       PROVE  Alone'
  <2>1. Results(members', Len(members') - 1, vals', wrote')
    <3>1. Results(members, Len(members), vals, wrote)
      BY <1>2 DEF Alone, Ended
    <3>2. Results(t, Len(members), vals, wrote)
      BY <1>a, <3>1, ResultsKey DEF t
    <3>3. Len(t) - 1 = Len(members)
      BY <1>7
    <3> QED
      BY <1>5, <1>6, <3>2, <3>3
  <2>2. HaveFirst(members')
    BY <1>6, <1>7 DEF Alone
  <2>3. Len(members') = frames'[1].n + Len(frames'[1].at)
    BY <1>6, <1>7, <1>8, <1>9, <1>11
  <2>4. /\ members' # <<>> /\ path' = <<members'[Len(members')]>>
        /\ pend' = Answer(members')
    BY <1>4, <1>5, <1>6, <1>7, <1>13
  <2>5. pseen' = {k \in Wanted : Has(members', k)}
    BY <1>5, <1>6
  <2>6. PolicyChecks => \A k \in Words :
          Has(frames'[1].seen, k) <=> Has(members', k)
    BY <1>6, <1>10, <1>11
  <2> QED
    BY <1>1, <1>4, <1>6, <1>9, <1>11, <2>1, <2>2, <2>3, <2>4, <2>5, <2>6,
       AloneGiven
<1> QED
  BY <1>12, <1>13

\* A value of the root is over, or the probe stopped at it.
LEMMA AloneMember ==
    ASSUME IInv, ProbeTypes, ~dead, RootHook(frames), proto = Probe, Alone,
           NEW kind \in Kinds, NEW bails \in BOOLEAN, NEW elem \in Offered,
           NEW started \in Started(elem),
           valueStart(kind, elem, started, bails), ProbeNext,
           top.kind # "array"
    PROVE  ProbeTypes' /\ (~dead' => Alone')
<1>t. /\ TypesOK /\ Shape(frames, path) /\ (len = 0 \/ len = 1)
      /\ members \in Seq(Words) /\ frames \in Seq(FrameT)
      /\ path \in Seq(Members)
  BY AloneFacts
<1>s. started \in Actions
  BY <1>t, ActionFields DEF Offered, Started, TypesOK
<1>1. /\ apply(Begun, started, kind, Here, AskedHere(elem), bails)
      /\ len > 0 /\ top.ph = "value"
      /\ UNCHANGED <<proto, policy, cache, rootDone>>
      /\ Begun = frames /\ Here = path
  <2>1. /\ apply(Begun, started, kind, Here, AskedHere(elem), bails)
        /\ len > 0 /\ (IF top.kind = "array" THEN Room ELSE top.ph = "value")
        /\ UNCHANGED <<proto, policy, cache, rootDone>>
    BY <1>t, <1>s, ValueStep
  <2> QED
    BY <2>1 DEF Begun, Here
<1>2. /\ len = 1 /\ cur = Probe /\ top \in FrameT /\ frames = <<top>>
      /\ top = frames[1]
  <2>1. len = 1
    BY <1>1, <1>t
  <2> QED
    BY <2>1, AloneFacts
<1>3. /\ Inside(frames, path) /\ top.kind = "object" /\ Len(top.at) = 1
      /\ Len(frames) = 1 /\ Len(frames) <= MaxFrames
  <2>1. Inside(frames, path) /\ top.kind = "object" /\ Len(top.at) = 1
    BY <1>t, <1>1, MemberInside
  <2> QED
    BY <1>t, <1>2, <2>1 DEF TypesOK, FramesOK, len
<1>4. /\ Len(path) = 1 /\ path # <<>>
  <2>1. Len(path) = Len(frames)
    BY <1>t, <1>3, InsideLaid
  <2>2. Len(path) = 1 /\ Len(<<>>) = 0
    BY <1>3, <2>1
  <2> QED
    BY <2>2
<1>5. AtRoot /\ RootReads
  BY <1>2, <1>3 DEF AtRoot, Alone
<1> DEFINE L == Len(members)
           a == Answer(members)
           given == a.kind \in {"Observe", "Capture"}
<1>6. /\ members # <<>> /\ path = <<members[L]>> /\ pend = a
      /\ L = top.n + 1 /\ L \in Nat /\ L <= MaxMembers
      /\ members[L] \in Words
  <2>1. members # <<>> /\ path = <<members[L]>> /\ pend = a
    BY <1>4, <1>5 DEF RootReads
  <2>2. L = top.n + Len(top.at)
    BY <1>5 DEF RootReads
  <2>3. L \in Nat /\ L > 0 /\ L <= MaxMembers
    BY <1>t, <2>1, LenPositive DEF ProbeTypes
  <2>4. members[L] \in Words
    <3>1. L \in 1 .. L
      BY <2>3
    <3> QED
      BY <1>t, <3>1, ElementOfSeq
  <2> QED
    BY <1>3, <2>1, <2>2, <2>3, <2>4
<1>7. /\ a = Do(a.kind) /\ a.kind \in Plain
      /\ given => members[L] \in Wanted
  BY AnswerFacts
<1> HIDE DEF a, given
<1>8. elem = a /\ started = a
  <2>1. elem = pend
    BY <1>3 DEF Offered
  <2>2. a.kind # "Probe"
    BY <1>7 DEF Plain
  <2> QED
    BY <1>6, <2>1, <2>2 DEF Started
<1>9. Region(frames, a, path, AskedHere(elem), bails)
  <2>1. a.kind \notin {"Enter", "Bail", "Probe"}
    BY <1>7 DEF Plain
  <2>2. apply(frames, a, kind, path, AskedHere(elem), bails)
    BY <1>1, <1>8
  <2> QED
    BY <2>1, <2>2 DEF apply
<1>10. /\ bails \in BOOLEAN /\ pend' = a /\ dead' = bails
       /\ calls' = AskedHere(elem) \o
             IF given THEN Told(cur, "OnValue", path) ELSE <<>>
       /\ IF bails THEN frames' = frames /\ path' = path
          ELSE afterValue(frames, path)
  BY <1>9 DEF Region, given
<1>11. ~Asked("OnKey") /\ (Asked("OnValue") <=> given)
  <2>1. given \in BOOLEAN
    BY DEF given
  <2>2. \/ ~given /\ calls' \in {AskedHere(elem), AskedHere(elem) \o <<>>}
        \/ given /\ calls' = AskedHere(elem) \o Told(cur, "OnValue", Here)
    BY <1>1, <1>10, <2>1
  <2>3. cur \in Hooks \cup Protocols /\ Here \in Seq(Members)
    BY <1>t, <1>1, <1>2, ProbeAssumption
  <2> QED
    BY <1>2, <2>1, <2>2, <2>3, AskedOfValue
<1>12. /\ pseen' = pseen /\ observing' = observing
       /\ vals' = IF given THEN [vals EXCEPT ![members[L]] = L] ELSE vals
  <2>1. pseen' = pseen /\ IF given THEN ProbeOnValue(path) ELSE UNCHANGED vals
    BY <1>11 DEF ProbeNext, Answered
  <2>2. path[Len(path)] = members[L]
    BY <1>4, <1>6
  <2>3. given => vals' = [vals EXCEPT ![members[L]] = L]
    BY <1>4, <2>1, <2>2 DEF ProbeOnValue
  <2> QED
    BY <2>1, <2>3 DEF ProbeNext
<1>13. vals \in [Wanted -> 0 .. Below] /\ vals' \in [Wanted -> 0 .. Below]
  <2>1. L \in 0 .. Below
    <3>1. MaxMembers \in Nat
      BY DispatchAssumption
    <3> QED
      BY <1>6, <3>1 DEF Below
  <2> QED
    BY <1>7, <1>12, <2>1 DEF ProbeTypes
<1>14. CASE bails
  <2>1. path' = path
    BY <1>10, <1>14
  <2>2. Len(path) \in Nat
    BY <1>4
  <2>3. members' = members /\ wrote' = wrote
    BY <2>1, <2>2 DEF ProbeNext, Written
  <2> QED
    BY <1>10, <1>12, <1>13, <1>14, <2>3 DEF ProbeTypes
<1>15. CASE ~bails
  <2>1. afterValue(frames, path)
    BY <1>10, <1>15
  <2>2. frames' = [frames EXCEPT ![1] = Over(top)]
    BY <1>t, <1>2, <1>3, <2>1, AfterValue
  <2>3. path' = <<>>
    <3>1. path' = SubSeq(path, 1, Len(path) - 1)
      BY <2>1 DEF afterValue
    <3>2. SubSeq(path, 1, 0) = <<>>
      BY <1>6
    <3> QED
      BY <1>4, <3>1, <3>2
  <2>4. Len(path') < Len(path) /\ ~(Len(path') > Len(path))
    <3>1. Len(<<>>) = 0
      OBVIOUS
    <3> QED
      BY <1>4, <2>3, <3>1
  <2>5. /\ members' = members
        /\ \/ a.kind = "Skip" /\ wrote' = wrote
           \/ \E replaced \in BOOLEAN :
                 /\ a.kind # "Skip"
                 /\ replaced => a.kind = "Capture"
                 /\ wrote' = Append(wrote, <<L, replaced>>)
    BY <1>5, <1>10, <2>4 DEF ProbeNext, Written
  <2>6. Results(members, L - 1, vals, wrote)
    BY <1>4 DEF Alone, Ended
  <2>7. wrote \in Seq(Nat \X BOOLEAN) /\ vals \in [Wanted -> Nat]
    <3>1. wrote \in Seq((1 .. MaxMembers) \X BOOLEAN)
      BY DEF ProbeTypes
    <3>2. (1 .. MaxMembers) \X BOOLEAN \subseteq Nat \X BOOLEAN
      BY DispatchAssumption
    <3>3. \A i \in 1 .. Len(wrote) : wrote[i] \in Nat \X BOOLEAN
      BY <3>1, <3>2, ElementOfSeq
    <3>4. wrote \in [1 .. Len(wrote) -> Nat \X BOOLEAN] /\ Len(wrote) \in Nat
      BY <3>1, <3>3, LenProperties
    <3>5. 0 .. Below \subseteq Nat
      BY DispatchAssumption DEF Below
    <3> QED
      BY <1>13, <3>4, <3>5, SeqDef
  <2>8. HaveFirst(members) /\ pseen = {k \in Wanted : Has(members, k)}
    BY DEF Alone
  <2>9. Results(members, L, vals', wrote')
    BY <1>t, <1>6, <1>12, <2>5, <2>6, <2>7, <2>8, ResultsValue DEF a, given
  <2> DEFINE g == Over(top)
  <2>10. /\ g.kind = "object" /\ g.n = top.n + 1 /\ g.at = <<>>
         /\ g.seen = top.seen
    BY <1>2, <1>3 DEF Over, FrameT
  <2> HIDE DEF g
  <2>11. Len(frames') = 1 /\ frames'[1] = g
    BY <1>2, <2>2 DEF g
  <2>12. Len(members') = g.n + Len(g.at)
    <3>1. Len(<<>>) = 0 /\ top.n \in Nat
      BY <1>2, FrameFields
    <3> QED
      BY <1>6, <2>5, <2>10, <3>1
  <2>13. PolicyChecks => \A k \in Words : Has(g.seen, k) <=> Has(members', k)
    BY <1>5, <2>5, <2>10 DEF RootReads, Seen, Has
  <2>14. Alone'
    BY <1>1, <1>12, <2>3, <2>5, <2>8, <2>9, <2>10, <2>11, <2>12, <2>13,
       AloneGiven
  <2>15. ProbeTypes'
    <3>1. wrote' \in Seq((1 .. MaxMembers) \X BOOLEAN)
      <4>1. L \in 1 .. MaxMembers
        <5>1. MaxMembers \in Nat /\ top.n \in Nat
          BY <1>2, FrameFields, DispatchAssumption
        <5> QED
          BY <1>6, <5>1
      <4>2. \A r \in BOOLEAN : <<L, r>> \in (1 .. MaxMembers) \X BOOLEAN
        BY <4>1
      <4>3. wrote \in Seq((1 .. MaxMembers) \X BOOLEAN)
        BY DEF ProbeTypes
      <4>4. ASSUME NEW x \in (1 .. MaxMembers) \X BOOLEAN
            PROVE  Append(wrote, x) \in Seq((1 .. MaxMembers) \X BOOLEAN)
        BY <4>3, AppendProperties
      <4> QED
        BY <2>5, <4>2, <4>3, <4>4
    <3>2. {wrote'[i][1] : i \in DOMAIN wrote'} \subseteq 1 .. L
      BY <2>9 DEF Results
    <3>3. \A i \in DOMAIN wrote' : wrote'[i][1] <= L
      BY <3>2
    <3> QED
      BY <1>12, <1>13, <2>5, <3>1, <3>3 DEF ProbeTypes
  <2> QED
    BY <2>14, <2>15
<1> QED
  BY <1>14, <1>15

\* An element of a root array is passed.
LEMMA PassedIsOver ==
    ASSUME TypesOK, Shape(frames, path), ~dead,
           NEW kind \in Kinds, NEW bails \in BOOLEAN, NEW elem \in Offered,
           NEW started \in Started(elem),
           valueStart(kind, elem, started, bails), cur = Probe,
           top.kind = "array", Answered
    PROVE  /\ afterValue(Begun, Here) /\ dead' = FALSE /\ len > 0
           /\ Begun \in Seq(FrameT) /\ Inside(Begun, Here) /\ Len(Begun) = len
           /\ ~Asked("OnKey") /\ ~Asked("OnValue")
<1>1. started \in Actions
  BY ActionFields DEF Offered, Started, TypesOK
<1>2. /\ Begun \in Seq(FrameT) /\ Len(Begun) = len /\ Inside(Begun, Here)
      /\ apply(Begun, started, kind, Here, AskedHere(elem), bails)
      /\ len > 0
  BY <1>1, ValueStep
<1>3. cur \in Hooks \cup Protocols /\ Here \in Seq(Members)
  BY <1>2, ProbeAssumption DEF Inside
<1>4. ASSUME NEW given \in BOOLEAN,
             \/ ~given /\ calls' \in {AskedHere(elem), AskedHere(elem) \o <<>>}
             \/ given /\ calls' = AskedHere(elem) \o Told(cur, "OnValue", Here)
      PROVE  /\ ~Asked("OnKey") /\ (Asked("OnValue") <=> given)
             /\ pend' = Do("Pass")
  <2>1. /\ ~Asked("OnKey")
        /\ Asked("OnElem") <=> cur = Probe /\ top.kind = "array"
        /\ Asked("OnValue") <=> cur = Probe /\ given
    BY <1>3, <1>4, AskedOfValue
  <2> QED
    BY <2>1 DEF Answered
<1>5. ASSUME NEW a, Region(Begun, a, Here, AskedHere(elem), bails)
      PROVE  /\ afterValue(Begun, Here) /\ dead' = FALSE
             /\ ~Asked("OnKey") /\ ~Asked("OnValue")
  <2> DEFINE given == a.kind \in {"Capture", "Observe"}
  <2>1. /\ bails => given
        /\ calls' = AskedHere(elem) \o
                IF given THEN Told(cur, "OnValue", Here) ELSE <<>>
        /\ pend' = a /\ dead' = bails
        /\ ~bails => afterValue(Begun, Here)
    BY <1>5 DEF Region
  <2>2. given \in BOOLEAN
    OBVIOUS
  <2> HIDE DEF given
  <2>3. \/ ~given /\ calls' \in {AskedHere(elem), AskedHere(elem) \o <<>>}
        \/ given /\ calls' = AskedHere(elem) \o Told(cur, "OnValue", Here)
    BY <2>1, <2>2
  <2>4. ~Asked("OnKey") /\ (Asked("OnValue") <=> given) /\ pend' = Do("Pass")
    BY <1>4, <2>2, <2>3
  <2>5. ~given
    BY <2>1, <2>4 DEF given, Do
  <2> QED
    BY <2>1, <2>4, <2>5
<1>6. ASSUME calls' = AskedHere(elem), pend' = started
      PROVE  started = Do("Pass")
  BY <1>4, <1>6
<1>7. started = Do("Pass") => started.kind = "Pass"
  BY DEF Do
<1>8. CASE started.kind \in Plain /\ Region(Begun, started, Here, AskedHere(elem), bails)
  BY <1>2, <1>5, <1>8
<1>9. CASE Region(Begun, Do("Pass"), Here, AskedHere(elem), bails)
  BY <1>2, <1>5, <1>9
<1>10. CASE calls' = AskedHere(elem) /\ pend' = started /\ started.kind \notin Plain
  BY <1>6, <1>7, <1>10 DEF Plain
<1>11. started.kind \in {"Enter", "Bail", "Probe"} => started.kind \notin Plain
  BY DEF Plain
<1> QED
  BY <1>2, <1>8, <1>9, <1>10, <1>11 DEF apply

LEMMA AloneElem ==
    ASSUME IInv, ProbeTypes, ~dead, RootHook(frames), proto = Probe, Alone,
           NEW kind \in Kinds, NEW bails \in BOOLEAN, NEW elem \in Offered,
           NEW started \in Started(elem),
           valueStart(kind, elem, started, bails), ProbeNext,
           top.kind = "array"
    PROVE  ProbeTypes' /\ Alone'
<1>t. /\ TypesOK /\ Shape(frames, path) /\ (len = 0 \/ len = 1)
      /\ frames \in Seq(FrameT) /\ path \in Seq(Members)
  BY AloneFacts
<1>1. len = 1 /\ cur = Probe /\ top \in FrameT /\ FrameShape(top, FALSE)
  <2>1. len > 0
    BY DEF valueStart
  <2>2. len = 1
    BY <1>t, <2>1
  <2> QED
    BY <2>2, AloneFacts
<1>2. /\ afterValue(Begun, Here) /\ dead' = FALSE
      /\ Begun \in Seq(FrameT) /\ Inside(Begun, Here) /\ Len(Begun) = 1
      /\ ~Asked("OnKey") /\ ~Asked("OnValue")
  <2>1. Answered
    BY DEF ProbeNext
  <2> QED
    BY <1>t, <1>1, <2>1, PassedIsOver
<1>3. ~AtRoot /\ path = <<>> /\ members = <<>>
  <2>1. ~AtRoot
    BY DEF AtRoot
  <2> QED
    BY <1>1, <2>1 DEF Alone
<1>4. UNCHANGED <<pseen, vals, wrote, members, observing>>
  BY <1>2, <1>3 DEF ProbeNext, Answered, Written
<1>5. UNCHANGED <<proto, policy, rootDone>>
  BY DEF valueStart, Const
<1>6. Begun = [frames EXCEPT ![1] = Indexed(top)]
  BY <1>1 DEF Begun
<1>7. Begun[1] \in FrameT /\ Begun[1].kind = "array"
  <2>1. Begun[1] = Indexed(top)
    <3>1. frames = <<top>>
      BY <1>1, AloneFacts
    <3> QED
      BY <1>6, <3>1
  <2>2. 1 \in 1 .. Len(Begun)
    BY <1>2
  <2> QED
    BY <1>1, <1>2, <2>1, <2>2, ElementOfSeq DEF Indexed, FrameT
<1>8. Len(frames') = 1 /\ frames'[1].kind # "object" /\ path' = <<>>
  <2>1. Len(Begun) <= MaxFrames
    BY <1>t, <1>1, <1>2 DEF TypesOK, FramesOK, len
  <2>2. frames' = [Begun EXCEPT ![1] = Over(Begun[1])]
    BY <1>2, <2>1, AfterValue
  <2>3. Begun \in [1 .. 1 -> FrameT]
    BY <1>2, LenProperties
  <2>4. frames' \in [1 .. 1 -> {Over(Begun[1])}]
    BY <2>2, <2>3
  <2>5. Over(Begun[1]).kind = "array"
    BY <1>7 DEF Over, FrameT
  <2>6. frames' = <<Over(Begun[1])>>
    BY <2>4
  <2>7. Len(Here) = 1 /\ Here \in Seq(Members)
    BY <1>2, <2>1, InsideLaid DEF Inside
  <2>8. path' = SubSeq(Here, 1, Len(Here) - 1)
    BY <1>2 DEF afterValue
  <2>9. SubSeq(Here, 1, 0) = <<>>
    BY <2>7
  <2> QED
    BY <2>5, <2>6, <2>7, <2>8, <2>9
<1>9. Alone'
  <2>1. /\ Results(members', Len(members'), vals', wrote')
        /\ pseen' = {k \in Wanted : Has(members', k)} /\ HaveFirst(members')
    BY <1>3, <1>4 DEF Alone, Ended
  <2> QED
    BY <1>3, <1>4, <1>5, <1>8, <2>1, AloneGiven
<1> QED
  BY <1>4, <1>9 DEF ProbeTypes

\* The root is over.
LEMMA AloneClose ==
    ASSUME IInv, ProbeTypes, ~dead, RootHook(frames), proto = Probe, Alone,
           NEW bails \in BOOLEAN, closeContainer(bails), ProbeNext
    PROVE  ProbeTypes' /\ (~dead' => Alone')
<1>t. /\ TypesOK /\ Shape(frames, path) /\ (len = 0 \/ len = 1)
  BY AloneFacts
<1>1. /\ len > 0 /\ calls' = Told(LeftTo, "OnLeave", path)
      /\ dead' = bails /\ rootDone' = (~bails /\ len = 1)
      /\ len = 1 => SubSeq(frames, 1, len - 1) = <<>> /\ path = <<>>
      /\ IF bails THEN UNCHANGED <<frames, path>>
         ELSE IF len = 1
         THEN frames' = SubSeq(frames, 1, len - 1) /\ UNCHANGED path
         ELSE afterValue(SubSeq(frames, 1, len - 1), path)
      /\ UNCHANGED <<proto, policy, pend>>
  BY <1>t, CloseStep
<1>2. len = 1 /\ path = <<>> /\ path' = <<>>
  BY <1>t, <1>1
<1>3. UNCHANGED <<pseen, vals, wrote, members, observing>>
  <2>1. ~Asked("OnKey") /\ ~Asked("OnValue")
    BY <1>1, AskedOnce
  <2>2. ~(Len(path') < Len(path)) /\ ~(Len(path') > Len(path))
    BY <1>2
  <2> QED
    BY <2>1, <2>2 DEF ProbeNext, Answered, Written
<1>4. ASSUME ~dead'
      PROVE  Alone'
  <2>1. frames' = <<>> /\ Len(<<>>) = 0 /\ rootDone'
    BY <1>1, <1>2, <1>4
  <2>2. /\ Results(members', Len(members'), vals', wrote')
        /\ pseen' = {k \in Wanted : Has(members', k)} /\ HaveFirst(members')
    BY <1>2, <1>3 DEF Alone, Ended
  <2> QED
    BY <1>1, <1>2, <1>3, <2>1, <2>2, AloneGiven
<1> QED
  BY <1>3, <1>4 DEF ProbeTypes

\* Nothing happens to what the probe reads.
LEMMA AloneStill ==
    ASSUME ProbeTypes, Alone, calls' = <<>>, ProbeNext,
           UNCHANGED <<frames, path, pend, proto, policy, rootDone>>
    PROVE  ProbeTypes' /\ Alone'
<1>1. UNCHANGED <<pseen, vals, wrote, members, observing>>
  <2>1. ~Asked("OnKey") /\ ~Asked("OnValue")
    BY AskedNothing
  <2>2. Len(path) \in Nat => ~(Len(path') < Len(path)) /\ ~(Len(path') > Len(path))
    OBVIOUS
  <2> QED
    BY <2>1, <2>2 DEF ProbeNext, Answered, Written
<1>2. ProbeTypes'
  BY <1>1 DEF ProbeTypes
<1>3. len' = len /\ top' = top /\ AtRoot' = AtRoot /\ Ended' = Ended
  BY <1>1 DEF len, top, AtRoot, Ended
<1>4. RootReads' = RootReads
  BY <1>1, <1>3 DEF RootReads, Answer, Seen, Has, PolicyChecks, IsFirst
<1>5. Results(members, Ended, vals, wrote)'
  BY <1>1, <1>3 DEF Alone, Results
<1>6. HaveFirst(members)' /\ (pseen = {k \in Wanted : Has(members, k)})'
  BY <1>1 DEF Alone, HaveFirst, Has, IsFirst
<1>7. Alone'
  BY <1>1, <1>3, <1>4, <1>5, <1>6 DEF Alone
<1> QED
  BY <1>2, <1>7

-----------------------------------------------------------------------------
(* KeyProbe: a step of a probe that is mounted below the root.             *)

\* Nothing of the probe's changes when it is not asked for a key it wants.
LEMMA MountedStill ==
    ASSUME Mounted, proto # Probe, ProbeNext,
           Asked("OnKey") => ~Wants(path'), ~Asked("OnValue")
    PROVE  UNCHANGED <<pseen, vals, wrote, members, observing>>
<1>1. ~AtRoot
  BY DEF AtRoot
<1>2. pseen' = pseen /\ vals' = vals
  BY DEF ProbeNext, Answered, ProbeOnKey
<1> QED
  BY <1>1, <1>2 DEF ProbeNext, Written

\* What a step has to show.
LEMMA MountedGiven ==
    ASSUME Mounted, UNCHANGED <<pseen, vals, wrote, members, observing>>,
           ProbeTypes,
           ~dead' => (Len(frames') > 0 /\ top'.kind = "object"
                         /\ top'.ph = "value" /\ cur' = Probe =>
                            pend' \in {Do("Pass"), Do("Skip")})
    PROVE  ProbeTypes' /\ (~dead' => Mounted')
<1>1. len' = Len(frames')
  BY DEF len
<1> QED
  BY <1>1 DEF Mounted, ProbeTypes

\* A hook below the root is told of no member of the root.
LEMMA NotOfRoot ==
    ASSUME TypesOK, RootHook(frames), proto # Probe, len \in Nat, len > 0,
           cur = Probe
    PROVE  len > 1
<1>1. CASE len = 1
  <2>1. frames # <<>>
    BY <1>1, EmptySeq DEF len
  <2>2. frames[1].hook = None
    BY <2>1 DEF RootHook
  <2>3. cur = proto
    BY <1>1, <2>2 DEF cur, hookAt
  <2> QED
    BY <2>3
<1> QED
  BY <1>1

LEMMA MountedKey ==
    ASSUME IInv, ProbeTypes, ~dead, RootHook(frames), proto # Probe, Mounted,
           NEW w \in Words, NEW escaped \in BOOLEAN, NEW act \in Answers,
           onKeyDone(w, escaped, act), ProbeNext
    PROVE  ProbeTypes' /\ (~dead' => Mounted')
<1>t. TypesOK /\ Shape(frames, path) /\ frames \in Seq(FrameT)
  BY DEF IInv, TypesOK, FramesOK
<1> DEFINE keys == IF PolicyChecks /\ ~Seen(w) THEN Append(top.seen, w)
                   ELSE top.seen
           f == Keyed(top, w, keys)
<1>1. /\ frames' = [frames EXCEPT ![len] = f] /\ path' = Append(path, w)
      /\ len > 0 /\ top.kind = "object"
      /\ UNCHANGED <<proto, policy, store, rootDone>>
  BY <1>t, KeyStep
<1>2. /\ len \in Nat /\ Len(frames) = len /\ frames # <<>>
      /\ top \in FrameT /\ len \in 1 .. len /\ top = frames[len]
  BY <1>t, <1>1, TopFrame DEF TypesOK, top
<1>3. /\ frames' \in Seq(FrameT) /\ Len(frames') = len
      /\ Inside(frames', path')
  BY <1>t, KeyInside
<1>4. Len(path') = len
  <2>1. Len(frames') <= MaxFrames
    BY <1>t, <1>3 DEF TypesOK, FramesOK, len
  <2> QED
    BY <1>3, <2>1, InsideLaid
<1>5. OnKey(w, w, Append(path, w), act)
  BY InternIsIdentity DEF onKeyDone
<1>6. cur = Probe => ~Wants(path')
  <2>1. SUFFICES ASSUME cur = Probe PROVE ~Wants(path')
    OBVIOUS
  <2>2. len > 1
    BY <1>t, <1>1, <1>2, <2>1, NotOfRoot
  <2>3. Len(path') # 1
    BY <1>2, <1>4, <2>2
  <2> QED
    BY <2>3 DEF Wants
<1>7. Answered
  BY DEF ProbeNext
<1>8. cur' = cur
  <2>1. f.hook = top.hook
    BY <1>2, HooksSame
  <2> HIDE DEF f
  <2>2. frames'[len] = f
    BY <1>1, <1>2
  <2>3. len' = len
    BY <1>3 DEF len
  <2> QED
    BY <1>1, <1>2, <2>1, <2>2, <2>3 DEF cur, hookAt
<1> HIDE DEF f
<1>9. CASE PolicyChecks /\ Seen(w)
  <2>1. calls' = <<>> /\ dead' = PolicyBails /\ (~dead' => pend' = Do("Skip"))
    BY <1>5, <1>9 DEF OnKey
  <2>2. ~Asked("OnKey") /\ ~Asked("OnValue")
    BY <2>1, AskedNothing
  <2>3. UNCHANGED <<pseen, vals, wrote, members, observing>>
    BY <2>2, MountedStill
  <2> QED
    BY <2>1, <2>3, MountedGiven
<1>10. CASE ~(PolicyChecks /\ Seen(w))
  <2>1. calls' = Told(cur, "OnKey", Append(path, w))
    BY <1>5, <1>10 DEF OnKey
  <2>2. (Asked("OnKey") <=> cur = Probe) /\ ~Asked("OnValue")
    BY <2>1, AskedOnce
  <2>3. UNCHANGED <<pseen, vals, wrote, members, observing>>
    BY <1>6, <2>2, MountedStill
  <2>4. cur = Probe => pend' = Do("Pass")
    BY <1>6, <1>7, <2>2 DEF Answered, ProbeOnKey
  <2> QED
    BY <1>8, <2>3, <2>4, MountedGiven
<1> QED
  BY <1>9, <1>10

\* After a value, and where a container begins, no key waits for its value.
LEMMA NoKeyWaits ==
    ASSUME TypesOK, Shape(frames, path), ~dead,
           NEW kind \in Kinds, NEW bails \in BOOLEAN, NEW elem,
           NEW started \in Actions,
           valueStart(kind, elem, started, bails), ~dead'
    PROVE  top'.ph = "value" => top'.kind # "object"
<1>1. /\ Begun \in Seq(FrameT) /\ Len(Begun) = len /\ Inside(Begun, Here)
      /\ apply(Begun, started, kind, Here, AskedHere(elem), bails)
      /\ len > 0 /\ top.hook \in Hooks \cup {None}
  BY ValueStep
<1>2. len \in Nat /\ len <= MaxFrames
  BY LenProperties DEF TypesOK, FramesOK, len
<1>3. /\ \/ frames' = Begun /\ path' = Here /\ dead' = TRUE
         \/ afterValue(Begun, Here) /\ dead' = FALSE
         \/ /\ \E via \in Hooks \cup {None} :
                  frames' = Append(Begun, Frame(kind,
                              IF via # None THEN via ELSE top.hook))
            /\ kind \in Containers /\ len < MaxFrames
            /\ path' = Here /\ dead' = FALSE
  BY <1>1, <1>2, Applied
<1>4. CASE afterValue(Begun, Here)
  <2> DEFINE g == Over(Begun[Len(Begun)])
  <2>1. frames' = [Begun EXCEPT ![Len(Begun)] = g]
    BY <1>1, <1>2, <1>4, AfterValue
  <2>2. g \in FrameT /\ g.ph = "comma"
    <3>1. Begun[Len(Begun)] \in FrameT /\ FrameShape(Begun[Len(Begun)], TRUE)
      BY <1>1, <1>2, InsideLaid
    <3> QED
      BY <3>1, OverFacts DEF Over, FrameT
  <2> HIDE DEF g
  <2>3. Len(frames') = len /\ frames'[len] = g
    BY <1>1, <2>1, <2>2, ReplaceTop DEF Inside
  <2>4. top' = g
    BY <2>3 DEF top, len
  <2> QED
    BY <2>2, <2>4
<1>5. ASSUME NEW via \in Hooks \cup {None}, kind \in Containers,
             frames' = Append(Begun, Frame(kind,
                              IF via # None THEN via ELSE top.hook))
      PROVE  top'.ph = "value" => top'.kind # "object"
  <2> DEFINE h == IF via # None THEN via ELSE top.hook
             g == Frame(kind, h)
  <2>1. h \in Hooks \cup {None}
    BY <1>1
  <2>2. g.kind = kind /\ (kind = "object" => g.ph = "key")
    BY DEF Frame
  <2> HIDE DEF h
  <2>3. g \in FrameT
    BY <1>5, <2>1, NewFrame
  <2> HIDE DEF g
  <2>4. frames' = Append(Begun, g)
    BY <1>5 DEF g, h
  <2>5. Len(frames') = len + 1 /\ frames'[len + 1] = g
    BY <1>1, <2>3, <2>4, OpenInside
  <2>6. top' = g
    BY <2>5 DEF top, len
  <2> QED
    BY <2>2, <2>6
<1> QED
  BY <1>3, <1>4, <1>5

LEMMA MountedValue ==
    ASSUME IInv, ProbeTypes, ~dead, RootHook(frames), proto # Probe, Mounted,
           NEW kind \in Kinds, NEW bails \in BOOLEAN, NEW elem \in Offered,
           NEW started \in Started(elem),
           valueStart(kind, elem, started, bails), ProbeNext
    PROVE  ProbeTypes' /\ (~dead' => Mounted')
<1>t. TypesOK /\ Shape(frames, path)
  BY DEF IInv
<1>s. started \in Actions
  BY <1>t, ActionFields DEF Offered, Started, TypesOK
<1>1. /\ Inside(Begun, Here)
      /\ apply(Begun, started, kind, Here, AskedHere(elem), bails)
      /\ len > 0 /\ (IF top.kind = "array" THEN Room ELSE top.ph = "value")
  BY <1>t, <1>s, ValueStep
<1>2. cur \in Hooks \cup Protocols /\ Here \in Seq(Members)
  <2>1. /\ cur = HookIn(frames, len) /\ frames \in Seq(FrameT)
        /\ proto \in Protocols
    BY <1>t, <1>1, TopItem, TopFrame DEF TypesOK
  <2> QED
    BY <1>1, <2>1, HookType DEF Inside
<1>3. \E given \in BOOLEAN :
        \/ ~given /\ calls' \in {AskedHere(elem), AskedHere(elem) \o <<>>}
        \/ given /\ calls' = AskedHere(elem) \o Told(cur, "OnValue", Here)
  <2>1. calls' \in {AskedHere(elem), AskedHere(elem) \o <<>>,
                    AskedHere(elem) \o Told(cur, "OnValue", Here)}
    <3>1. len \in Nat
      BY LenProperties, <1>t DEF TypesOK, FramesOK, len
    <3> QED
      BY <1>t, <1>s, <1>1, <3>1, Applied
  <2> QED
    BY <2>1
<1>4. ~Asked("OnKey") /\ (Asked("OnValue") => cur = Probe)
  BY <1>2, <1>3, AskedOfValue
<1>5. CASE cur # Probe
  <2>1. UNCHANGED <<pseen, vals, wrote, members, observing>>
    BY <1>4, <1>5, MountedStill
  <2> QED
    BY <1>t, <1>s, <2>1, NoKeyWaits, MountedGiven
<1>6. CASE cur = Probe /\ top.kind = "array"
  <2>1. Answered
    BY DEF ProbeNext
  <2>2. ~Asked("OnKey") /\ ~Asked("OnValue")
    BY <1>t, <1>6, <2>1, PassedIsOver
  <2>3. UNCHANGED <<pseen, vals, wrote, members, observing>>
    BY <2>2, MountedStill
  <2> QED
    BY <1>t, <1>s, <2>3, NoKeyWaits, MountedGiven
<1>7. CASE cur = Probe /\ top.kind # "array"
  <2>1. top.kind = "object" /\ top.ph = "value"
    <3>1. top \in FrameT
      BY <1>t, <1>1, TopFrame DEF TypesOK
    <3> QED
      BY <1>1, <1>7, <3>1, FrameFields DEF Containers
  <2>2. pend \in {Do("Pass"), Do("Skip")}
    BY <1>1, <1>7, <2>1 DEF Mounted
  <2>3. elem = pend /\ pend.kind \in {"Pass", "Skip"}
    BY <1>7, <2>2 DEF Offered, Do
  <2>4. started = pend
    BY <2>3 DEF Started
  <2>5. Region(Begun, pend, Here, AskedHere(elem), bails)
    BY <1>1, <2>3, <2>4 DEF apply
  <2>6. calls' = AskedHere(elem) \o <<>>
    BY <2>3, <2>5 DEF Region
  <2>7. ~Asked("OnKey") /\ ~Asked("OnValue")
    <3>1. FALSE \in BOOLEAN
      OBVIOUS
    <3> QED
      BY <1>2, <2>6, <3>1, AskedOfValue
  <2>8. UNCHANGED <<pseen, vals, wrote, members, observing>>
    BY <2>7, MountedStill
  <2> QED
    BY <1>t, <1>s, <2>8, NoKeyWaits, MountedGiven
<1> QED
  BY <1>5, <1>6, <1>7

LEMMA MountedClose ==
    ASSUME IInv, ProbeTypes, ~dead, proto # Probe, Mounted,
           NEW bails \in BOOLEAN, closeContainer(bails), ProbeNext
    PROVE  ProbeTypes' /\ (~dead' => Mounted')
<1>t. TypesOK /\ Shape(frames, path)
  BY DEF IInv
<1> DEFINE outer == SubSeq(frames, 1, len - 1)
<1>1. /\ len > 0 /\ outer \in Seq(FrameT) /\ Len(outer) = len - 1
      /\ len = 1 => outer = <<>>
      /\ len > 1 => Inside(outer, path)
      /\ calls' = Told(LeftTo, "OnLeave", path) /\ dead' = bails
      /\ IF bails THEN UNCHANGED <<frames, path>>
         ELSE IF len = 1 THEN frames' = outer /\ UNCHANGED path
         ELSE afterValue(outer, path)
  BY <1>t, CloseStep
<1>2. len \in Nat /\ len <= MaxFrames /\ MaxFrames \in Nat
  BY <1>t, LenProperties, DispatchAssumption DEF TypesOK, FramesOK, len
<1>3. UNCHANGED <<pseen, vals, wrote, members, observing>>
  <2>1. ~Asked("OnKey") /\ ~Asked("OnValue")
    BY <1>1, AskedOnce
  <2> QED
    BY <2>1, MountedStill
<1> HIDE DEF outer
<1>4. CASE bails
  BY <1>1, <1>3, <1>4, MountedGiven
<1>5. CASE ~bails /\ len = 1
  <2>1. Len(frames') = 0
    BY <1>1, <1>5
  <2> QED
    BY <1>3, <2>1, MountedGiven
<1>6. CASE ~bails /\ len # 1
  <2>1. afterValue(outer, path) /\ Inside(outer, path) /\ Len(outer) <= MaxFrames
    BY <1>1, <1>2, <1>6
  <2> DEFINE g == Over(outer[Len(outer)])
  <2>2. frames' = [outer EXCEPT ![Len(outer)] = g]
    BY <1>1, <2>1, AfterValue
  <2>3. g \in FrameT /\ g.ph = "comma"
    <3>1. outer[Len(outer)] \in FrameT /\ FrameShape(outer[Len(outer)], TRUE)
      BY <1>1, <2>1, InsideLaid
    <3> QED
      BY <3>1, OverFacts DEF Over, FrameT
  <2> HIDE DEF g
  <2>4. Len(frames') = Len(outer) /\ frames'[Len(outer)] = g
    BY <1>1, <2>1, <2>2, <2>3, ReplaceTop DEF Inside
  <2>5. top' = g
    BY <2>4 DEF top, len
  <2> QED
    BY <1>3, <2>3, <2>5, MountedGiven
<1> QED
  BY <1>4, <1>5, <1>6

LEMMA MountedRoot ==
    ASSUME IInv, ProbeTypes, ~dead, proto # Probe, Mounted,
           NEW kind \in Containers, Root(kind), ProbeNext
    PROVE  ProbeTypes' /\ Mounted'
<1>1. /\ calls' = <<>> /\ frames' = Append(frames, Frame(kind, None))
      /\ dead' = dead
  BY DEF Root, pushFrame
<1>2. UNCHANGED <<pseen, vals, wrote, members, observing>>
  <2>1. ~Asked("OnKey") /\ ~Asked("OnValue")
    BY <1>1, AskedNothing
  <2> QED
    BY <2>1, MountedStill
<1> DEFINE g == Frame(kind, None)
<1>3. g \in FrameT /\ g.kind = kind /\ (kind = "object" => g.ph = "key")
  BY NewFrame DEF Frame
<1> HIDE DEF g
<1>4. top' = g
  <2>1. frames \in Seq(FrameT) /\ frames' = Append(frames, g)
    BY <1>1 DEF g, IInv, TypesOK, FramesOK
  <2>2. Len(frames') = Len(frames) + 1 /\ frames'[Len(frames) + 1] = g
    BY <1>3, <2>1, OpenInside
  <2> QED
    BY <2>2 DEF top, len
<1>5. ~dead'
  BY <1>1
<1> QED
  BY <1>2, <1>3, <1>4, <1>5, MountedGiven

LEMMA MountedSame ==
    ASSUME ProbeTypes, proto # Probe, Mounted, calls' = <<>>, ProbeNext,
           UNCHANGED <<frames, path, pend, proto, policy, rootDone>>
    PROVE  ProbeTypes' /\ Mounted'
<1>1. UNCHANGED <<pseen, vals, wrote, members, observing>>
  <2>1. ~Asked("OnKey") /\ ~Asked("OnValue")
    BY AskedNothing
  <2> QED
    BY <2>1, MountedStill
<1>2. len' = len /\ top' = top /\ cur' = cur
  BY DEF len, top, cur, hookAt
<1> QED
  BY <1>1, <1>2 DEF Mounted, ProbeTypes

-----------------------------------------------------------------------------
(* KeyProbe: the theorem.                                                  *)

\* The step that stops the transform leaves what the probe has of its types.
LEMMA StoppedTypes ==
    ASSUME ProbeTypes, calls' = <<>>, ProbeNext, path' = path,
           Len(path) \in Nat
    PROVE  ProbeTypes'
<1>1. UNCHANGED <<pseen, vals, wrote, members, observing>>
  <2>1. ~Asked("OnKey") /\ ~Asked("OnValue")
    BY AskedNothing
  <2> QED
    BY <2>1 DEF ProbeNext, Answered, Written
<1> QED
  BY <1>1 DEF ProbeTypes

LEMMA ProbeInitInv == ProbeInit => IInv /\ PInv
<1> SUFFICES ASSUME ProbeInit PROVE IInv /\ PInv
  OBVIOUS
<1>1. IInv
  BY InitInv DEF ProbeInit
<1>2. /\ frames = <<>> /\ path = <<>> /\ ~rootDone /\ ~dead
      /\ observing \in BOOLEAN /\ pseen = {} /\ wrote = <<>> /\ members = <<>>
      /\ vals = [k \in Wanted |-> 0] /\ Len(<<>>) = 0 /\ MaxMembers \in Nat
  BY DispatchAssumption DEF ProbeInit, Init
<1>3. ProbeTypes
  <2>1. 0 \in 0 .. Below /\ 0 <= MaxMembers
    BY <1>2 DEF Below
  <2> QED
    BY <1>2, <2>1, EmptySeq DEF ProbeTypes
<1>4. len = 0 /\ Ended = 0 /\ ~AtRoot
  BY <1>2 DEF len, Ended, AtRoot
<1>5. Mounted
  BY <1>2, <1>4 DEF Mounted
<1>6. \A k : ~Has(members, k)
  BY <1>2 DEF Has
<1>7. \A k : FirstOf(members, Ended, k) = 0
  <2>1. 1 .. 0 = {}
    OBVIOUS
  <2> QED
    BY <1>4, <2>1, FirstOfNone
<1>8. Results(members, Ended, vals, wrote)
  <2>1. /\ 1 .. 0 = {} /\ DOMAIN wrote = {} /\ 1 .. Len(wrote) - 1 = {}
    BY <1>2
  <2>2. {m \in 1 .. Ended : policy[2] = "first"
                        => m = FirstOf(members, Ended, members[m])} = {}
    BY <1>4, <2>1
  <2>3. {wrote[i][1] : i \in DOMAIN wrote} = {}
    BY <2>1
  <2> QED
    BY <1>2, <1>7, <2>1, <2>2, <2>3 DEF Results
<1>9. Alone
  <2>1. pseen = {k \in Wanted : Has(members, k)} /\ HaveFirst(members)
    BY <1>2, <1>6 DEF HaveFirst
  <2> QED
    BY <1>2, <1>4, <1>8, <2>1 DEF Alone
<1>10. RootHook(frames)
  BY <1>2 DEF RootHook
<1> QED
  BY <1>1, <1>3, <1>5, <1>9, <1>10 DEF PInv

LEMMA ProbeNextInv ==
    IInv /\ PInv /\ [ProbeNext]_<<vars, probe>> => PInv'
<1> SUFFICES ASSUME IInv, PInv, [ProbeNext]_<<vars, probe>> PROVE PInv'
  OBVIOUS
<1>1. CASE UNCHANGED <<vars, probe>>
  <2>1. UNCHANGED <<frames, path, pend, proto, policy, rootDone, dead>>
    BY <1>1 DEF vars
  <2>2. UNCHANGED <<pseen, vals, wrote, members, observing>>
    BY <1>1 DEF probe
  <2>3. /\ ProbeTypes' /\ len' = len /\ top' = top /\ cur' = cur
        /\ AtRoot' = AtRoot /\ Ended' = Ended
    BY <2>1, <2>2 DEF PInv, ProbeTypes, len, top, cur, hookAt, AtRoot, Ended
  <2>4. Mounted' = Mounted
    BY <2>1, <2>2, <2>3 DEF Mounted
  <2>5. Alone => Alone'
    <3>1. RootReads' = RootReads
      BY <2>1, <2>2, <2>3 DEF RootReads, Answer, Seen, Has, PolicyChecks, IsFirst
    <3>2. Alone => Results(members, Ended, vals, wrote)'
      BY <2>1, <2>2, <2>3 DEF Alone, Results
    <3>3. Alone => /\ HaveFirst(members)'
                   /\ (pseen = {k \in Wanted : Has(members, k)})'
      BY <2>1, <2>2 DEF Alone, HaveFirst, Has, IsFirst
    <3> QED
      BY <2>1, <2>2, <2>3, <3>1, <3>2, <3>3 DEF Alone
  <2>6. RootHook(frames)' = RootHook(frames)
    BY <2>1 DEF RootHook
  <2> QED
    BY <2>1, <2>3, <2>4, <2>5, <2>6 DEF PInv
<1>2. CASE ProbeNext
  <2>1. Next /\ ProbeTypes
    BY <1>2 DEF ProbeNext, PInv
  <2>2. ~dead /\ UNCHANGED proto
    BY <2>1 DEF Next, Root, onKeyDone, BadKey, Elsewhere, valueStart,
                closeContainer, Reads, Const
  <2>3. RootHook(frames) /\ IF proto = Probe THEN Alone ELSE Mounted
    BY <2>2 DEF PInv
  <2>4. ~dead' => RootHook(frames)'
    <3>1. ~dead' => RootHook(frames')
      BY <2>1, <2>2, <2>3, HookKept
    <3> QED
      BY <3>1 DEF RootHook
  <2>5. /\ ProbeTypes'
        /\ ~dead' => IF proto = Probe THEN Alone' ELSE Mounted'
    <3>1. ASSUME NEW kind \in Containers, Root(kind)
          PROVE  ProbeTypes' /\ IF proto = Probe THEN Alone' ELSE Mounted'
      BY <1>2, <2>1, <2>2, <2>3, <3>1, AloneRoot, MountedRoot
    <3>2. ASSUME NEW w \in Words, NEW escaped \in BOOLEAN, NEW act \in Answers,
                 onKeyDone(w, escaped, act)
          PROVE  /\ ProbeTypes'
                 /\ ~dead' => IF proto = Probe THEN Alone' ELSE Mounted'
      BY <1>2, <2>1, <2>2, <2>3, <3>2, AloneKey, MountedKey
    <3>3. CASE BadKey
      <4>1. dead' = TRUE /\ calls' = <<>> /\ path' = path
        BY <3>3 DEF BadKey
      <4>2. Len(path) \in Nat
        BY LenProperties DEF IInv, TypesOK
      <4> QED
        BY <1>2, <2>1, <4>1, <4>2, StoppedTypes
    <3>4. ASSUME NEW w \in Words, Elsewhere(w)
          PROVE  ProbeTypes' /\ IF proto = Probe THEN Alone' ELSE Mounted'
      <4>1. /\ calls' = <<>>
            /\ UNCHANGED <<frames, path, pend, proto, policy, rootDone>>
        BY <3>4 DEF Elsewhere, Const
      <4> QED
        BY <1>2, <2>1, <2>3, <4>1, AloneStill, MountedSame
    <3>5. ASSUME NEW kind \in Kinds, NEW bails \in BOOLEAN,
                 NEW elem \in Offered, NEW started \in Started(elem),
                 valueStart(kind, elem, started, bails)
          PROVE  /\ ProbeTypes'
                 /\ ~dead' => IF proto = Probe THEN Alone' ELSE Mounted'
      <4>1. CASE proto = Probe /\ top.kind = "array"
        BY <1>2, <2>1, <2>2, <2>3, <3>5, <4>1, AloneElem
      <4>2. CASE proto = Probe /\ top.kind # "array"
        BY <1>2, <2>1, <2>2, <2>3, <3>5, <4>2, AloneMember
      <4>3. CASE proto # Probe
        BY <1>2, <2>1, <2>2, <2>3, <3>5, <4>3, MountedValue
      <4> QED
        BY <4>1, <4>2, <4>3
    <3>6. ASSUME NEW bails \in BOOLEAN, closeContainer(bails)
          PROVE  /\ ProbeTypes'
                 /\ ~dead' => IF proto = Probe THEN Alone' ELSE Mounted'
      BY <1>2, <2>1, <2>2, <2>3, <3>6, AloneClose, MountedClose
    <3> QED
      BY <2>1, <3>1, <3>2, <3>3, <3>4, <3>5, <3>6 DEF Next
  <2> QED
    BY <2>2, <2>4, <2>5 DEF PInv
<1> QED
  BY <1>1, <1>2

LEMMA ProbeInvImplies == IInv /\ PInv => ReadsFirst
<1> SUFFICES ASSUME IInv, PInv PROVE ReadsFirst
  OBVIOUS
<1>1. TypeOK
  <2>1. /\ frames \in Seq(FrameT) /\ len <= MaxFrames
        /\ \A i \in 1 .. len : Len(frames[i].at) <= 1
        /\ DOMAIN frames = 1 .. len
    BY LenProperties DEF IInv, TypesOK, FramesOK, len
  <2>2. ASSUME NEW i \in DOMAIN frames
        PROVE  /\ frames[i].kind \in Containers
               /\ frames[i].ph \in {"key", "value", "comma"}
               /\ frames[i].n \in 0 .. MaxMembers
               /\ frames[i].hook \in Hooks \cup {None}
               /\ frames[i].seen \in Seq(Words)
    <3>1. frames[i] \in FrameT
      BY <2>1, ElementOfSeq DEF len
    <3> QED
      BY <3>1 DEF FrameT
  <2> QED
    BY <2>1, <2>2 DEF IInv, TypesOK, TypeOK
<1>2. ProbeTypeOK
  <2>1. \A i \in DOMAIN wrote : wrote[i] \in (DOMAIN members) \X BOOLEAN
    <3>1. TAKE i \in DOMAIN wrote
    <3>2. DOMAIN members = 1 .. Len(members) /\ Len(members) \in Nat
          /\ DOMAIN wrote = 1 .. Len(wrote)
      BY LenProperties DEF PInv, ProbeTypes
    <3>3. /\ wrote[i] \in (1 .. MaxMembers) \X BOOLEAN
          /\ wrote[i][1] <= Len(members)
      BY <3>2, ElementOfSeq DEF PInv, ProbeTypes
    <3>4. wrote[i][1] \in 1 .. Len(members) /\ wrote[i][2] \in BOOLEAN
          /\ wrote[i] = <<wrote[i][1], wrote[i][2]>>
      BY <3>2, <3>3
    <3> QED
      BY <3>2, <3>4
  <2> QED
    BY <1>1, <2>1 DEF PInv, ProbeTypes, ProbeTypeOK
<1>3. \A k : First(k) = FirstOf(members, Ended, k)
  BY DEF First, FirstOf
<1>4. ASSUME ~dead
      PROVE  Results(members, Ended, vals, wrote)
  <2>1. CASE proto = Probe
    BY <1>4, <2>1 DEF PInv, Alone
  <2>2. CASE proto # Probe
    <3>1. /\ members = <<>> /\ wrote = <<>> /\ vals = [k \in Wanted |-> 0]
          /\ Len(<<>>) = 0
      BY <1>4, <2>2 DEF PInv, Mounted
    <3>2. 1 .. Ended = {}
      BY <3>1 DEF Ended
    <3>3. \A k : FirstOf(members, Ended, k) = 0
      BY <3>2, FirstOfNone
    <3>4. DOMAIN wrote = {} /\ 1 .. Len(wrote) - 1 = {}
      BY <3>1
    <3>5. {m \in 1 .. Ended : policy[2] = "first"
                        => m = FirstOf(members, Ended, members[m])} = {}
      BY <3>2
    <3>6. {wrote[i][1] : i \in DOMAIN wrote} = {}
      BY <3>4
    <3> QED
      BY <3>1, <3>3, <3>4, <3>5, <3>6 DEF Results
  <2> QED
    BY <2>1, <2>2
<1> QED
  BY <1>2, <1>3, <1>4 DEF ReadsFirst, Results

\* A probe hands over the first occurrence of each key it wants, of the root
\* and of nothing else, for every document, policy and state of the cache, and
\* wherever it is mounted; it rewrites no other member, and the rest of the
\* root reaches the output in its order, except what DupKeysFirst drops
\* (KeyProbe.OnKey and OnValue, keyprobe.go, with onKeyDone, valueStart and
\* endRegion).
THEOREM ProbeReadsFirst == ProbeSpec => []ReadsFirst
<1>1. ProbeSpec => [](IInv /\ PInv)
  <2>1. IInv /\ PInv /\ [ProbeNext]_<<vars, probe>> => (IInv /\ PInv)'
    <3>1. [ProbeNext]_<<vars, probe>> => [Next]_vars
      BY DEF ProbeNext
    <3> QED
      BY <3>1, NextInv, ProbeNextInv
  <2> QED
    BY <2>1, ProbeInitInv, PTL DEF ProbeSpec
<1> QED
  BY <1>1, ProbeInvImplies, PTL

=============================================================================
