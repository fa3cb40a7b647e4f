--------------------------- MODULE Deferral_proofs ---------------------------
(***************************************************************************)
(* Proofs about Defer and Release (Deferral), for documents of any length  *)
(* and nesting and any number of deferred pairs.                           *)
(***************************************************************************)
EXTENDS Deferral, FiniteSetTheorems, SequenceTheorems, TLAPS

-----------------------------------------------------------------------------
(* Types.                                                                  *)

FrameType == [ph : {"phKey", "phValue", "phComma"}, deferred : Seq(Pairs)]
CallType ==
    [at : {"value", "leave", "close"}, frame : Nat, todo : Seq(Pairs),
     raw : Seq(Tokens), active : BOOLEAN, stale : BOOLEAN, snap : Seq(Pairs)]

\* What a step computes (Now).
Effect ==
    [frames : Seq(FrameType), path : Seq(Ids), depth : Nat,
     wantRelease : BOOLEAN, releaseAt : Nat, deferredBytes : Int,
     calls : Seq(CallType), suspendReq : BOOLEAN, rootDone : BOOLEAN,
     dead : BOOLEAN, code : {"none", "misuse", "protocol", "unsupported",
                             "leftover"},
     dropped : SUBSET Ids, asked : SUBSET Nat]

DocType ==
    [open : Seq(Ids), value : 0..MaxKeys, last : 0..MaxKeys,
     text : [Ids -> Seq(Tokens)]]

\* The bytes the frames fs hold.
Total(fs) == MapThenSumSet(LAMBDA k : SizeOf(fs[k].deferred), DOMAIN fs)

\* What is true of every state, also once the transform has stopped.
Always(e) ==
    /\ e \in Effect
    /\ e.deferredBytes = Total(e.frames)
    /\ \A k \in 1..Len(e.calls) : e.calls[k].frame \in 1..Len(e.frames)

RestType ==
    /\ frameCap \in Nat /\ regDepth \in Nat
    /\ kvRaw \in 0..MaxKeys /\ regKey \in 0..MaxKeys
    /\ pend \in Answers /\ st \in {"sIdle", "sInStr"}
    /\ regT \in {"rtNone", "rtOut", "rtCapture", "rtDefer"}
    /\ capBuf \in Seq(Tokens)
    /\ pendSet \in BOOLEAN /\ regOpen \in BOOLEAN /\ suspended \in BOOLEAN
    /\ doc \in DocType

-----------------------------------------------------------------------------
(* The grammar of a value: n brackets are open, and when v, a value is     *)
(* expected.                                                               *)

Reading(n, v, t, m, u) ==
    \/ v /\ t = Simple /\ m = n /\ ~u
    \/ v /\ t = Open /\ m = n + 1 /\ ~u
    \/ ~v /\ n > 0 /\ t = Close /\ m = n - 1 /\ ~u
    \/ ~v /\ n > 0 /\ t \in Ids /\ m = n /\ u

\* The tokens of s lead from the place n, v to the place m, u.
Walk(s, n, v, m, u) ==
    \E d \in [0..Len(s) -> Nat], w \in [0..Len(s) -> BOOLEAN] :
        /\ d[0] = n /\ w[0] = v /\ d[Len(s)] = m /\ w[Len(s)] = u
        /\ \A i \in 1..Len(s) : Reading(d[i - 1], w[i - 1], s[i], d[i], w[i])

\* A whole value.
Whole(s) == Walk(s, 0, TRUE, 0, FALSE)

Wholes(kvs) == \A j \in 1..Len(kvs) : Whole(kvs[j].raw)

-----------------------------------------------------------------------------
(* The scan of the document, and the replays inside it.  The k-th source of *)
(* tokens is the value the k-th call replays; the document is the 0th.      *)

\* The depth the scan that the call c interrupts goes on at.
Back(c) == IF c.at = "value" THEN c.frame ELSE c.frame - 1

Closes(c) == c.at # "value"

\* The k-th source is at the depth d, and when v, at a value.
Source(cs, dc, k, d, v) ==
    IF k = 0
    THEN v = (dc.value # 0) /\ Len(dc.open) = (IF d = 0 THEN 0 ELSE d - 1)
    ELSE cs[k].active /\ Walk(cs[k].raw, d - cs[k].frame, v, 0, FALSE)

Reads0(e, dc, v) == Source(e.calls, dc, Len(e.calls), e.depth, v)

\* The call c has begun to serve pairs, or is past the point of taking any.
Serving(c) == c.active \/ c.todo # <<>> \/ c.at = "close" \/ c.stale

\* A frame that closes holds nothing any more once replays have run in it.
Closing(e) ==
    \A k \in 1..Len(e.calls) : Closes(e.calls[k]) =>
        /\ k < Len(e.calls) \/ Serving(e.calls[k]) =>
                e.frames[e.calls[k].frame].deferred = <<>>
        /\ e.calls[k].stale => e.calls[k].snap = <<>>
        /\ \A j \in k + 1..Len(e.calls) : e.calls[j].frame = e.calls[k].frame =>
                e.calls[j].todo = <<>> /\ ~e.calls[j].active

\* The frames and the calls fit, and what they hold are whole values.
Stack(e, dc) ==
    /\ Len(e.frames) >= 1
    /\ \A k \in 1..Len(e.frames) - 1 : e.frames[k].ph = "phValue"
    /\ \A k \in 1..Len(e.frames) : Wholes(e.frames[k].deferred)
    /\ \A k \in 1..Len(e.calls) : Wholes(e.calls[k].todo)
    /\ \A k \in 1..Len(e.calls) :
            /\ Source(e.calls, dc, k - 1, Back(e.calls[k]), FALSE)
            /\ \A j \in 1..k - 1 : e.calls[j].frame <= Back(e.calls[k])
    /\ Closing(e)

\* The call on top is between two pairs.
Waits(e) == e.calls # <<>> /\ ~LastOf(e.calls).active

\* No call closes the frame on top.
NotClosing(e) ==
    \A k \in 1..Len(e.calls) : Closes(e.calls[k]) => e.calls[k].frame # Len(e.frames)

\* The scan is between two pairs of the frame on top.
Rest(e, dc) ==
    /\ e.depth = Len(e.frames) /\ Len(e.path) = Len(e.frames) - 1
    /\ Top(e).ph # "phValue"
    /\ IF Waits(e) THEN LastOf(e.calls).frame = Len(e.frames)
       ELSE Reads0(e, dc, FALSE)

\* It is before or in a value of the frame on top.
InPair(e) ==
    Len(e.path) = Len(e.frames) /\ Top(e).ph = "phValue" /\ ~Waits(e)

Asked(e, dc) == InPair(e) /\ e.depth = Len(e.frames) /\ Reads0(e, dc, TRUE)

Pending ==
    /\ Asked(Now, doc) /\ kvRaw \in Ids
    /\ pend = "Defer" => NotClosing(Now)

\* The region copies the value from its first token on.
InRegion ==
    /\ InPair(Now) /\ regDepth = Len(frames)
    /\ IF st = "sIdle" THEN depth > regDepth ELSE depth = regDepth
    /\ \E v \in BOOLEAN :
        /\ Reads0(Now, doc, v)
        /\ st = "sInStr" => ~v
        /\ regT = "rtDefer" => Walk(capBuf, 0, TRUE, depth - regDepth, v)
    /\ regT = "rtDefer" => NotClosing(Now) /\ kvRaw \in Ids /\ regKey \in Ids

\* A suspension waits only for the closing of a frame of the document.
SuspendOK(e) ==
    e.suspendReq /\ e.calls # <<>> =>
        /\ Len(e.calls) = 1 /\ ~e.wantRelease
        /\ LET c == LastOf(e.calls) IN c.at = "leave" /\ c.todo = <<>> /\ ~c.active

Live ==
    /\ Stack(Now, doc) /\ SuspendOK(Now)
    /\ IF regOpen THEN ~pendSet /\ InRegion
       ELSE st = "sIdle" /\ IF pendSet THEN Pending ELSE Rest(Now, doc)

Over == calls = <<>> /\ frames = <<>>

IInv ==
    /\ Always(Now) /\ RestType
    /\ ~dead /\ ~rootDone => Live
    /\ ~dead /\ rootDone => Over

-----------------------------------------------------------------------------
(* Induction over the naturals, in terms of sets: if n were not in S, the   *)
(* numbers up to n that are not, taken to their predecessors, would fit     *)
(* into one place less.                                                     *)

LEMMA Induction ==
    ASSUME NEW S, 0 \in S, \A k \in Nat : k \in S => k + 1 \in S, NEW n \in Nat
    PROVE  n \in S
<1> DEFINE Q == {k \in 0..n : k \notin S}
<1> SUFFICES ASSUME n \notin S PROVE FALSE
  OBVIOUS
<1>1. n \in Q /\ Q \subseteq 0..n
  OBVIOUS
<1>2. \A q \in Q : q - 1 \in Q \ {n}
  <2> SUFFICES ASSUME NEW q \in Q PROVE q - 1 \in Q \ {n}
    OBVIOUS
  <2>1. q \in 0..n /\ q # 0
    OBVIOUS
  <2>2. q - 1 \in Nat /\ q - 1 \in 0..n /\ q - 1 + 1 = q /\ q - 1 # n
    BY <2>1
  <2> QED
    BY <2>2
<1>3. IsFiniteSet(0..n)
  BY FS_Interval
<1>4. IsFiniteSet(Q) /\ IsFiniteSet(Q \ {n})
  BY <1>1, <1>3, FS_Subset
<1>5. Cardinality(Q \ {n}) < Cardinality(Q)
  <2> HIDE DEF Q
  <2>1. Cardinality(Q \ {n}) = Cardinality(Q) - 1 /\ Cardinality(Q) \in Nat
    BY <1>1, <1>4, FS_RemoveElement, FS_CardinalityType
  <2> QED
    BY <2>1
<1> DEFINE f == [q \in Q |-> q - 1]
<1>6. f \in [Q -> Q \ {n}]
  BY <1>2
<1>7. \A x, y \in Q : x # y => f[x] # f[y]
  BY <1>1
<1> HIDE DEF Q, f
<1> QED
  BY <1>4, <1>5, <1>6, <1>7, FS_PigeonHole

-----------------------------------------------------------------------------
(* Sums.                                                                    *)

\* t is the sum of the first n values of f.
Adds(f, n, t) ==
    \E a \in [0..n -> Nat] :
        a[0] = 0 /\ a[n] = t /\ \A i \in 1..n : a[i] = a[i - 1] + f[i]

OneOf(s) == CHOOSE x \in s : TRUE
SumStep(f, g, s) == IF s = {} THEN 0 ELSE f[OneOf(s)] + g[s \ {OneOf(s)}]
Sums(f, g, S) == g = [s \in SUBSET S |-> SumStep(f, g, s)]

\* The recursion of MapThenSumSet has a value.
LEMMA SumDefined ==
    ASSUME NEW S, IsFiniteSet(S), NEW f
    PROVE  \E g : Sums(f, g, S)
<1> DEFINE D(n) == {s \in SUBSET S : Cardinality(s) <= n}
           G == {n \in Nat : \E g : g = [s \in D(n) |-> SumStep(f, g, s)]}
<1>1. \A s \in SUBSET S : IsFiniteSet(s) /\ Cardinality(s) \in Nat
  BY FS_Subset, FS_CardinalityType
<1>2. \A s \in SUBSET S : s # {} =>
          /\ OneOf(s) \in s /\ s \ {OneOf(s)} \in SUBSET S
          /\ Cardinality(s \ {OneOf(s)}) = Cardinality(s) - 1
  <2> TAKE s \in SUBSET S
  <2> HAVE s # {}
  <2>1. OneOf(s) \in s
    BY DEF OneOf
  <2> QED
    BY <1>1, <2>1, FS_RemoveElement
<1>3. 0 \in G
  <2> DEFINE g == [s \in D(0) |-> 0]
  <2>1. \A s \in D(0) : s = {}
    BY <1>1, FS_EmptySet
  <2>2. g = [s \in D(0) |-> SumStep(f, g, s)]
    BY <2>1 DEF SumStep
  <2> QED
    BY <2>2
<1>4. \A n \in Nat : n \in G => n + 1 \in G
  <2> SUFFICES ASSUME NEW n \in Nat, n \in G PROVE n + 1 \in G
    OBVIOUS
  <2>1. PICK g : g = [s \in D(n) |-> SumStep(f, g, s)]
    OBVIOUS
  <2> DEFINE h == [s \in D(n + 1) |-> SumStep(f, g, s)]
  <2>2. \A u \in D(n) : u \in D(n + 1) /\ h[u] = g[u]
    <3> SUFFICES ASSUME NEW u \in D(n) PROVE u \in D(n + 1) /\ h[u] = g[u]
      OBVIOUS
    <3>1. u \in D(n + 1)
      BY <1>1
    <3>2. g[u] = SumStep(f, g, u)
      BY <2>1
    <3> HIDE DEF D
    <3> QED
      BY <3>1, <3>2
  <2>3. \A s \in D(n + 1) : s # {} => s \ {OneOf(s)} \in D(n)
    <3> SUFFICES ASSUME NEW s \in D(n + 1), s # {} PROVE s \ {OneOf(s)} \in D(n)
      OBVIOUS
    <3>1. s \in SUBSET S /\ Cardinality(s) <= n + 1 /\ Cardinality(s) \in Nat
      BY <1>1
    <3>2. s \ {OneOf(s)} \in SUBSET S
          /\ Cardinality(s \ {OneOf(s)}) = Cardinality(s) - 1
      BY <1>2, <3>1
    <3> QED
      BY <3>1, <3>2
  <2>4. \A s \in D(n + 1) : SumStep(f, g, s) = SumStep(f, h, s)
    <3> HIDE DEF D, h
    <3> QED
      BY <2>2, <2>3 DEF SumStep
  <2>5. h = [s \in D(n + 1) |-> SumStep(f, h, s)]
    <3> HIDE DEF D
    <3> QED
      BY <2>4
  <2> HIDE DEF D, h
  <2> QED
    BY <2>5
<1>5. Cardinality(S) \in G
  <2> HIDE DEF G
  <2> QED
    BY <1>1, <1>3, <1>4, Induction
<1>6. \A s \in SUBSET S : Cardinality(s) <= Cardinality(S)
  BY FS_Subset
<1>7. D(Cardinality(S)) = SUBSET S
  BY <1>6
<1> HIDE DEF D
<1> QED
  BY <1>5, <1>7 DEF Sums

LEMMA SumIsNat ==
    ASSUME NEW S, IsFiniteSet(S), NEW f \in [S -> Nat], NEW g,
           g = [s \in SUBSET S |-> SumStep(f, g, s)]
    PROVE  \A s \in SUBSET S : g[s] \in Nat
<1> DEFINE G == {n \in Nat : \A s \in SUBSET S : Cardinality(s) = n => g[s] \in Nat}
<1>1. \A s \in SUBSET S : IsFiniteSet(s) /\ Cardinality(s) \in Nat
  BY FS_Subset, FS_CardinalityType
<1>2. \A s \in SUBSET S : s # {} => OneOf(s) \in s
  BY DEF OneOf
<1>3. 0 \in G
  <2>1. ASSUME NEW s \in SUBSET S, Cardinality(s) = 0 PROVE g[s] \in Nat
    <3>1. s = {}
      BY <1>1, <2>1, FS_EmptySet
    <3> QED
      BY <3>1 DEF SumStep
  <2> QED
    BY <2>1
<1>4. ASSUME NEW n \in Nat, n \in G PROVE n + 1 \in G
  <2>1. \A u \in SUBSET S : Cardinality(u) = n => g[u] \in Nat
    BY <1>4
  <2>2. ASSUME NEW s \in SUBSET S, Cardinality(s) = n + 1 PROVE g[s] \in Nat
    <3> DEFINE c == OneOf(s)
    <3>1. s # {}
      BY <1>1, <1>4, <2>2, FS_EmptySet
    <3>2. c \in s /\ c \in S
      BY <1>2, <3>1
    <3>3. g[s] = f[c] + g[s \ {c}]
      BY <3>1 DEF SumStep
    <3> HIDE DEF c
    <3>4. Cardinality(s \ {c}) = n /\ s \ {c} \in SUBSET S
      <4>1. IsFiniteSet(s)
        BY <1>1, <2>2
      <4>2. Cardinality(s \ {c}) = Cardinality(s) - 1
        BY <3>2, <4>1, FS_RemoveElement
      <4>3. n + 1 - 1 = n
        BY <1>4
      <4> QED
        BY <2>2, <4>2, <4>3
    <3>5. g[s \ {c}] \in Nat /\ f[c] \in Nat
      BY <2>1, <3>2, <3>4
    <3> QED
      BY <3>3, <3>5
  <2>3. n + 1 \in Nat
    BY <1>4
  <2> QED
    BY <2>2, <2>3
<1> SUFFICES ASSUME NEW s \in SUBSET S PROVE g[s] \in Nat
  OBVIOUS
<1>5. Cardinality(s) \in G
  <2> HIDE DEF G
  <2> QED
    BY <1>1, <1>3, <1>4, Induction
<1> QED
  BY <1>5

\* In whatever order it is computed.
AnyOrder(f, g, s) == g[s] \in Nat /\ \A x \in s : g[s] = f[x] + g[s \ {x}]

LEMMA SumAnyOrder ==
    ASSUME NEW S, IsFiniteSet(S), NEW f \in [S -> Nat], NEW g,
           g = [s \in SUBSET S |-> SumStep(f, g, s)]
    PROVE  \A s \in SUBSET S : AnyOrder(f, g, s)
<1> DEFINE G == {n \in Nat : \A s \in SUBSET S :
                    Cardinality(s) = n => AnyOrder(f, g, s)}
<1>1. \A s \in SUBSET S : IsFiniteSet(s) /\ Cardinality(s) \in Nat
  BY FS_Subset, FS_CardinalityType
<1>2. \A s \in SUBSET S : \A x \in s :
          s \ {x} \in SUBSET S /\ Cardinality(s \ {x}) = Cardinality(s) - 1
  BY <1>1, FS_RemoveElement
<1>3. 0 \in G
  <2>1. ASSUME NEW s \in SUBSET S, Cardinality(s) = 0 PROVE AnyOrder(f, g, s)
    <3>1. s = {}
      BY <1>1, <2>1, FS_EmptySet
    <3>2. g[s] = 0
      BY <3>1 DEF SumStep
    <3> QED
      BY <3>1, <3>2 DEF AnyOrder
  <2> QED
    BY <2>1
<1>4. ASSUME NEW n \in Nat, n \in G PROVE n + 1 \in G
  <2>1. \A u \in SUBSET S : Cardinality(u) = n => AnyOrder(f, g, u)
    BY <1>4
  <2>2. ASSUME NEW s \in SUBSET S, Cardinality(s) = n + 1 PROVE AnyOrder(f, g, s)
    <3> DEFINE c == OneOf(s)
    <3>1. s # {}
      BY <1>1, <1>4, <2>2, FS_EmptySet
    <3>2. c \in s
      BY <3>1 DEF OneOf
    <3>3. g[s] = f[c] + g[s \ {c}]
      BY <3>1 DEF SumStep
    <3> HIDE DEF c
    <3>4. \A x \in s : AnyOrder(f, g, s \ {x}) /\ s \ {x} \in SUBSET S
      <4>1. n + 1 - 1 = n
        BY <1>4
      <4>2. \A x \in s : s \ {x} \in SUBSET S /\ Cardinality(s \ {x}) = n
        BY <1>2, <2>2, <4>1
      <4> QED
        BY <2>1, <4>2
    <3>5. g[s] \in Nat
      <4>1. g[s \ {c}] \in Nat /\ f[c] \in Nat
        BY <3>2, <3>4 DEF AnyOrder
      <4> QED
        BY <3>3, <4>1
    <3>6. ASSUME NEW x \in s PROVE g[s] = f[x] + g[s \ {x}]
      <4>1. CASE x = c
        BY <3>3, <4>1
      <4>2. CASE x # c
        <5> DEFINE r == (s \ {c}) \ {x}
        <5>1. x \in s \ {c} /\ c \in s \ {x} /\ r = (s \ {x}) \ {c}
          BY <3>2, <4>2
        <5>2. g[s \ {c}] = f[x] + g[r] /\ g[s \ {c}] \in Nat
          BY <3>2, <3>4, <5>1 DEF AnyOrder
        <5>3. g[s \ {x}] = f[c] + g[r] /\ g[s \ {x}] \in Nat
          BY <3>4, <5>1 DEF AnyOrder
        <5>4. g[r] \in Nat
          <6>1. r \in SUBSET S
            OBVIOUS
          <6> QED
            BY <6>1, SumIsNat
        <5> HIDE DEF r
        <5>5. f[x] \in Nat /\ f[c] \in Nat
          BY <3>2
        <5> QED
          BY <3>3, <5>2, <5>3, <5>4, <5>5
      <4> QED
        BY <4>1, <4>2
    <3> QED
      BY <3>5, <3>6 DEF AnyOrder
  <2>3. n + 1 \in Nat
    BY <1>4
  <2> QED
    BY <2>2, <2>3
<1> SUFFICES ASSUME NEW s \in SUBSET S PROVE AnyOrder(f, g, s)
  OBVIOUS
<1>5. Cardinality(s) \in G
  <2> HIDE DEF G
  <2> QED
    BY <1>1, <1>3, <1>4, Induction
<1> QED
  BY <1>5

\* In particular from the first number to the last.
LEMMA SumAdds ==
    ASSUME NEW n \in Nat, NEW f \in [1..n -> Nat], NEW g,
           g = [s \in SUBSET (1..n) |-> SumStep(f, g, s)]
    PROVE  Adds(f, n, g[1..n])
<1> DEFINE a == [i \in 0..n |-> g[1..i]]
<1>1. IsFiniteSet(1..n)
  BY FS_Interval
<1>2. \A s \in SUBSET (1..n) : AnyOrder(f, g, s)
  BY <1>1, SumAnyOrder
<1>3. \A i \in 0..n : 1..i \in SUBSET (1..n)
  OBVIOUS
<1>4. a \in [0..n -> Nat]
  BY <1>2, <1>3 DEF AnyOrder
<1>5. a[0] = 0
  <2>1. 1..0 = {} /\ {} \in SUBSET (1..n)
    OBVIOUS
  <2>2. g[{}] = 0
    BY <2>1 DEF SumStep
  <2> QED
    BY <2>1, <2>2
<1>6. ASSUME NEW i \in 1..n PROVE a[i] = a[i - 1] + f[i]
  <2>1. (1..i) \ {i} = 1..(i - 1) /\ i \in 1..i /\ i - 1 \in 0..n /\ i \in 0..n
    OBVIOUS
  <2>2. 1..i \in SUBSET (1..n) /\ 1..(i - 1) \in SUBSET (1..n)
    BY <1>3, <2>1
  <2>3. g[1..i] = f[i] + g[(1..i) \ {i}]
    BY <1>2, <2>1, <2>2 DEF AnyOrder
  <2>4. g[1..(i - 1)] \in Nat /\ f[i] \in Nat
    BY <1>2, <2>2 DEF AnyOrder
  <2>5. a[i] = g[1..i] /\ a[i - 1] = g[1..(i - 1)]
    BY <2>1
  <2>6. g[1..i] = f[i] + g[1..(i - 1)]
    BY <2>1, <2>3, Zenon
  <2> DEFINE x == g[1..i]
             y == g[1..(i - 1)]
  <2>7. a[i] = x /\ a[i - 1] = y /\ x = f[i] + y /\ y \in Nat /\ f[i] \in Nat
    BY <2>4, <2>5, <2>6, Zenon
  <2> HIDE DEF a, x, y
  <2> QED
    BY <2>7
<1>7. a[n] = g[1..n]
  OBVIOUS
<1> HIDE DEF a
<1> QED
  BY <1>4, <1>5, <1>6, <1>7 DEF Adds

LEMMA AddsUnique ==
    ASSUME NEW n \in Nat, NEW f, NEW h, NEW t, NEW u,
           Adds(f, n, t), Adds(h, n, u), \A i \in 1..n : f[i] = h[i]
    PROVE  t = u
<1>1. PICK a \in [0..n -> Nat] :
          a[0] = 0 /\ a[n] = t /\ \A i \in 1..n : a[i] = a[i - 1] + f[i]
  BY DEF Adds
<1>2. PICK b \in [0..n -> Nat] :
          b[0] = 0 /\ b[n] = u /\ \A i \in 1..n : b[i] = b[i - 1] + h[i]
  BY DEF Adds
<1> DEFINE G == {k \in Nat : k <= n => a[k] = b[k]}
<1>3. 0 \in G
  BY <1>1, <1>2
<1>4. ASSUME NEW k \in Nat, k \in G PROVE k + 1 \in G
  <2>1. CASE k + 1 <= n
    <3>1. k + 1 \in 1..n /\ k + 1 - 1 = k /\ a[k] = b[k]
      BY <1>4, <2>1
    <3>2. a[k + 1] = a[k] + f[k + 1] /\ b[k + 1] = b[k] + h[k + 1]
      BY <1>1, <1>2, <3>1
    <3>3. f[k + 1] = h[k + 1]
      BY <3>1
    <3> QED
      BY <1>4, <3>1, <3>2, <3>3
  <2>2. CASE ~(k + 1 <= n)
    BY <1>4, <2>2
  <2> QED
    BY <2>1, <2>2
<1>5. n \in G
  <2> HIDE DEF G
  <2> QED
    BY <1>3, <1>4, Induction
<1> QED
  BY <1>1, <1>2, <1>5

LEMMA AddsOne ==
    ASSUME NEW n \in Nat, NEW f, NEW h, NEW t, Adds(f, n, t),
           h[n + 1] \in Nat, \A i \in 1..n : h[i] = f[i]
    PROVE  Adds(h, n + 1, t + h[n + 1]) /\ t \in Nat
<1>1. PICK a \in [0..n -> Nat] :
          a[0] = 0 /\ a[n] = t /\ \A i \in 1..n : a[i] = a[i - 1] + f[i]
  BY DEF Adds
<1> DEFINE b == [i \in 0..n + 1 |-> IF i = n + 1 THEN t + h[n + 1] ELSE a[i]]
<1>2. t \in Nat
  BY <1>1
<1>3. b \in [0..n + 1 -> Nat]
  BY <1>2
<1>4. b[0] = 0 /\ b[n + 1] = t + h[n + 1]
  BY <1>1
<1>5. ASSUME NEW i \in 1..n + 1 PROVE b[i] = b[i - 1] + h[i]
  <2>1. CASE i = n + 1
    BY <1>1, <2>1
  <2>2. CASE i # n + 1
    <3>1. i \in 1..n /\ i \in 0..n /\ i - 1 \in 0..n /\ i - 1 # n + 1
      BY <2>2
    <3> QED
      BY <1>1, <2>2, <3>1
  <2> QED
    BY <2>1, <2>2
<1> HIDE DEF b
<1> QED
  BY <1>2, <1>3, <1>4, <1>5 DEF Adds

LEMMA PairSize == \A kv \in Pairs : Size(kv) \in Nat \ {0}
<1> SUFFICES ASSUME NEW kv \in Pairs PROVE Size(kv) \in Nat \ {0}
  OBVIOUS
<1>1. kv.raw \in Seq(Tokens)
  BY DEF Pairs
<1>2. Len(kv.raw) \in Nat
  BY <1>1, LenProperties
<1> QED
  BY <1>2 DEF Size

\* SizeOf and Total are sums along their sequences.
LEMMA SizeAdds ==
    ASSUME NEW kvs \in Seq(Pairs)
    PROVE  /\ Len(kvs) \in Nat /\ SizeOf(kvs) \in Nat
           /\ Adds([j \in 1..Len(kvs) |-> Size(kvs[j])], Len(kvs), SizeOf(kvs))
<1> DEFINE n == Len(kvs)
           f == [j \in 1..n |-> Size(kvs[j])]
           It(it) == it = [s \in SUBSET (1..n) |->
                        IF s = {} THEN 0
                        ELSE Size(kvs[OneOf(s)]) + it[s \ {OneOf(s)}]]
<1>1. n \in Nat /\ DOMAIN kvs = 1..n /\ \A j \in 1..n : kvs[j] \in Pairs
  BY LenProperties
<1>2. f \in [1..n -> Nat]
  BY <1>1, PairSize
<1>3. \A s \in SUBSET (1..n) : s # {} => f[OneOf(s)] = Size(kvs[OneOf(s)])
  BY DEF OneOf
<1>4. \A it : It(it) <=> it = [s \in SUBSET (1..n) |-> SumStep(f, it, s)]
  <2> TAKE it
  <2>1. \A s \in SUBSET (1..n) :
            SumStep(f, it, s) = IF s = {} THEN 0
                                ELSE Size(kvs[OneOf(s)]) + it[s \ {OneOf(s)}]
    BY <1>3 DEF SumStep
  <2> HIDE DEF f, n
  <2>2. [s \in SUBSET (1..n) |-> SumStep(f, it, s)]
            = [s \in SUBSET (1..n) |->
                IF s = {} THEN 0
                ELSE Size(kvs[OneOf(s)]) + it[s \ {OneOf(s)}]]
    BY <2>1
  <2> QED
    BY <2>2, Zenon
<1>5. \E it : It(it)
  <2>1. IsFiniteSet(1..n)
    BY <1>1, FS_Interval
  <2>2. PICK g : Sums(f, g, 1..n)
    <3> HIDE DEF f, n
    <3> QED
      BY <2>1, SumDefined
  <2>3. It(g)
    <3> HIDE DEF It, f, n
    <3> QED
      BY <1>4, <2>2, Zenon DEF Sums
  <2> HIDE DEF It
  <2> QED
    BY <2>3
<1> DEFINE g == CHOOSE it : It(it)
<1>6. It(g)
  <2> HIDE DEF It
  <2> QED
    BY <1>5
<1>7. SizeOf(kvs) = g[1..n]
  <2> HIDE DEF n
  <2> QED
    BY <1>1, Zenon DEF SizeOf, MapThenSumSet, MapThenFoldSet, OneOf
<1> HIDE DEF g, It, f
<1>8. g = [s \in SUBSET (1..n) |-> SumStep(f, g, s)]
  BY <1>4, <1>6
<1>9. Adds(f, n, g[1..n]) /\ g[1..n] \in Nat
  <2>1. IsFiniteSet(1..n) /\ 1..n \in SUBSET (1..n)
    BY <1>1, FS_Interval
  <2> HIDE DEF n
  <2> QED
    BY <1>1, <1>2, <1>8, <2>1, SumAdds, SumIsNat
<1> QED
  BY <1>1, <1>7, <1>9 DEF f

LEMMA TotalAdds ==
    ASSUME NEW fs \in Seq(FrameType)
    PROVE  /\ Len(fs) \in Nat /\ Total(fs) \in Nat
           /\ Adds([j \in 1..Len(fs) |-> SizeOf(fs[j].deferred)], Len(fs), Total(fs))
<1> DEFINE n == Len(fs)
           f == [j \in 1..n |-> SizeOf(fs[j].deferred)]
           It(it) == it = [s \in SUBSET (1..n) |->
                        IF s = {} THEN 0
                        ELSE SizeOf(fs[OneOf(s)].deferred) + it[s \ {OneOf(s)}]]
<1>1. n \in Nat /\ DOMAIN fs = 1..n /\ \A j \in 1..n : fs[j] \in FrameType
  BY LenProperties
<1>2. f \in [1..n -> Nat]
  <2>1. \A j \in 1..n : fs[j].deferred \in Seq(Pairs)
    BY <1>1 DEF FrameType
  <2> QED
    BY <1>1, <2>1, SizeAdds
<1>3. \A s \in SUBSET (1..n) : s # {} => f[OneOf(s)] = SizeOf(fs[OneOf(s)].deferred)
  BY DEF OneOf
<1>4. \A it : It(it) <=> it = [s \in SUBSET (1..n) |-> SumStep(f, it, s)]
  <2> TAKE it
  <2>1. \A s \in SUBSET (1..n) :
            SumStep(f, it, s) = IF s = {} THEN 0
                                ELSE SizeOf(fs[OneOf(s)].deferred) + it[s \ {OneOf(s)}]
    BY <1>3 DEF SumStep
  <2> HIDE DEF f, n
  <2>2. [s \in SUBSET (1..n) |-> SumStep(f, it, s)]
            = [s \in SUBSET (1..n) |->
                IF s = {} THEN 0
                ELSE SizeOf(fs[OneOf(s)].deferred) + it[s \ {OneOf(s)}]]
    BY <2>1
  <2> QED
    BY <2>2, Zenon
<1>5. \E it : It(it)
  <2>1. IsFiniteSet(1..n)
    BY <1>1, FS_Interval
  <2>2. PICK g : Sums(f, g, 1..n)
    <3> HIDE DEF f, n
    <3> QED
      BY <2>1, SumDefined
  <2>3. It(g)
    <3> HIDE DEF It, f, n
    <3> QED
      BY <1>4, <2>2, Zenon DEF Sums
  <2> HIDE DEF It
  <2> QED
    BY <2>3
<1> DEFINE g == CHOOSE it : It(it)
<1>6. It(g)
  <2> HIDE DEF It
  <2> QED
    BY <1>5
<1>7. Total(fs) = g[1..n]
  <2> HIDE DEF n
  <2> QED
    BY <1>1, Zenon DEF Total, MapThenSumSet, MapThenFoldSet, OneOf
<1> HIDE DEF g, It, f
<1>8. g = [s \in SUBSET (1..n) |-> SumStep(f, g, s)]
  BY <1>4, <1>6
<1>9. Adds(f, n, g[1..n]) /\ g[1..n] \in Nat
  <2>1. IsFiniteSet(1..n) /\ 1..n \in SUBSET (1..n)
    BY <1>1, FS_Interval
  <2> HIDE DEF n
  <2> QED
    BY <1>1, <1>2, <1>8, <2>1, SumAdds, SumIsNat
<1> QED
  BY <1>1, <1>7, <1>9 DEF f

LEMMA SizePushed ==
    ASSUME NEW kvs \in Seq(Pairs), NEW kv \in Pairs
    PROVE  /\ SizeOf(Append(kvs, kv)) = SizeOf(kvs) + Size(kv)
           /\ SizeOf(kvs) \in Nat /\ Size(kv) \in Nat
<1> DEFINE n == Len(kvs)
           ls == Append(kvs, kv)
           f == [j \in 1..n |-> Size(kvs[j])]
           h == [j \in 1..n + 1 |-> Size(ls[j])]
<1>1. /\ n \in Nat /\ ls \in Seq(Pairs) /\ Len(ls) = n + 1 /\ ls[n + 1] = kv
      /\ \A j \in 1..n : ls[j] = kvs[j]
  BY AppendProperties
<1>2. Adds(f, n, SizeOf(kvs)) /\ SizeOf(kvs) \in Nat
  BY SizeAdds
<1>3. Adds(h, n + 1, SizeOf(ls))
  <2> HIDE DEF ls
  <2> QED
    BY <1>1, SizeAdds
<1>4. Size(kv) \in Nat
  BY PairSize
<1>5. h[n + 1] = Size(kv) /\ \A j \in 1..n : h[j] = f[j]
  <2>1. n + 1 \in 1..n + 1 /\ \A j \in 1..n : j \in 1..n + 1
    BY <1>1
  <2> HIDE DEF n, ls
  <2> QED
    BY <1>1, <2>1
<1> HIDE DEF f, h, ls, n
<1>6. Adds(h, n + 1, SizeOf(kvs) + Size(kv))
  BY <1>1, <1>2, <1>4, <1>5, AddsOne
<1>7. SizeOf(ls) = SizeOf(kvs) + Size(kv)
  <2>1. n + 1 \in Nat
    BY <1>1
  <2> QED
    BY <1>3, <1>6, <2>1, AddsUnique
<1> QED
  BY <1>2, <1>4, <1>7 DEF ls

\* What is held is what the frame on top holds and the rest.
LEMMA TotalTop ==
    ASSUME NEW fs \in Seq(FrameType), NEW gs \in Seq(FrameType), NEW n \in Nat,
           Len(fs) = n, Len(gs) = n + 1,
           \A k \in 1..n : gs[k].deferred = fs[k].deferred
    PROVE  /\ Total(gs) = Total(fs) + SizeOf(gs[n + 1].deferred)
           /\ Total(fs) \in Nat /\ SizeOf(gs[n + 1].deferred) \in Nat
<1> DEFINE f == [j \in 1..n |-> SizeOf(fs[j].deferred)]
           h == [j \in 1..n + 1 |-> SizeOf(gs[j].deferred)]
<1>1. Adds(f, n, Total(fs)) /\ Total(fs) \in Nat
  BY TotalAdds
<1>2. Adds(h, n + 1, Total(gs))
  BY TotalAdds
<1>3. n + 1 \in 1..n + 1 /\ \A j \in 1..n : j \in 1..n + 1
  OBVIOUS
<1>4. SizeOf(gs[n + 1].deferred) \in Nat
  <2>1. gs[n + 1] \in FrameType
    BY <1>3
  <2> QED
    BY <2>1, SizeAdds DEF FrameType
<1>5. h[n + 1] = SizeOf(gs[n + 1].deferred) /\ \A j \in 1..n : h[j] = f[j]
  BY <1>3
<1> HIDE DEF f, h
<1>6. Adds(h, n + 1, Total(fs) + SizeOf(gs[n + 1].deferred))
  BY <1>1, <1>4, <1>5, AddsOne
<1> QED
  BY <1>1, <1>2, <1>4, <1>6, AddsUnique

LEMMA TotalSame ==
    ASSUME NEW fs \in Seq(FrameType), NEW gs \in Seq(FrameType),
           Len(gs) = Len(fs), \A k \in 1..Len(fs) : gs[k].deferred = fs[k].deferred
    PROVE  Total(gs) = Total(fs) /\ Total(fs) \in Nat
<1> DEFINE n == Len(fs)
           f == [j \in 1..n |-> SizeOf(fs[j].deferred)]
           h == [j \in 1..n |-> SizeOf(gs[j].deferred)]
<1>1. n \in Nat /\ Adds(f, n, Total(fs)) /\ Total(fs) \in Nat
  BY TotalAdds
<1>2. Adds(h, n, Total(gs))
  BY TotalAdds
<1>3. \A j \in 1..n : h[j] = f[j]
  OBVIOUS
<1> HIDE DEF f, h, n
<1> QED
  BY <1>1, <1>2, <1>3, AddsUnique

\* One frame on top in place of another.
LEMMA TotalChanged ==
    ASSUME NEW fs \in Seq(FrameType), NEW gs \in Seq(FrameType),
           Len(fs) >= 1, Len(gs) = Len(fs),
           \A k \in 1..Len(fs) - 1 : gs[k].deferred = fs[k].deferred
    PROVE  /\ Total(gs) - SizeOf(gs[Len(fs)].deferred)
                  = Total(fs) - SizeOf(fs[Len(fs)].deferred)
           /\ SizeOf(gs[Len(fs)].deferred) \in Nat
           /\ SizeOf(fs[Len(fs)].deferred) \in Nat
           /\ Total(fs) \in Nat /\ Total(gs) \in Nat
<1> DEFINE n == Len(fs) - 1
           hs == SubSeq(fs, 1, n)
<1>1. n \in Nat /\ n + 1 = Len(fs)
  BY LenProperties
<1>2. /\ hs \in Seq(FrameType) /\ Len(hs) = n
      /\ \A k \in 1..n : hs[k] = fs[k]
  BY <1>1, SubSeqProperties
<1> HIDE DEF n, hs
<1>3. \A k \in 1..n : gs[k].deferred = fs[k].deferred
  BY DEF n
<1>4. /\ Total(fs) = Total(hs) + SizeOf(fs[n + 1].deferred)
      /\ Total(hs) \in Nat /\ SizeOf(fs[n + 1].deferred) \in Nat
  BY <1>1, <1>2, TotalTop
<1>5. /\ Total(gs) = Total(hs) + SizeOf(gs[n + 1].deferred)
      /\ SizeOf(gs[n + 1].deferred) \in Nat
  <2>1. Len(gs) = n + 1 /\ \A k \in 1..n : gs[k].deferred = hs[k].deferred
    BY <1>1, <1>2, <1>3
  <2> QED
    BY <1>1, <1>2, <2>1, TotalTop
<1> QED
  BY <1>1, <1>4, <1>5

-----------------------------------------------------------------------------
(* Walks.                                                                   *)

LEMMA WalkTypes ==
    ASSUME NEW s \in Seq(Tokens), NEW n, NEW v, NEW m, NEW u, Walk(s, n, v, m, u)
    PROVE  n \in Nat /\ m \in Nat /\ v \in BOOLEAN /\ u \in BOOLEAN
<1>1. Len(s) \in Nat
  BY LenProperties
<1>2. PICK d \in [0..Len(s) -> Nat], w \in [0..Len(s) -> BOOLEAN] :
          d[0] = n /\ w[0] = v /\ d[Len(s)] = m /\ w[Len(s)] = u
  BY DEF Walk
<1>3. 0 \in 0..Len(s) /\ Len(s) \in 0..Len(s)
  BY <1>1
<1>4. n \in Nat /\ m \in Nat
  BY <1>2, <1>3
<1>5. v \in BOOLEAN /\ u \in BOOLEAN
  BY <1>2, <1>3, Zenon
<1> QED
  BY <1>4, <1>5

LEMMA WalkNone ==
    ASSUME NEW n \in Nat, NEW v \in BOOLEAN
    PROVE  /\ Walk(<<>>, n, v, n, v)
           /\ \A m, u : Walk(<<>>, n, v, m, u) => m = n /\ u = v
<1>1. Walk(<<>>, n, v, n, v)
  <2> DEFINE d == [i \in 0..0 |-> n]
             w == [i \in 0..0 |-> v]
  <2>1. d \in [0..Len(<<>>) -> Nat] /\ w \in [0..Len(<<>>) -> BOOLEAN]
    OBVIOUS
  <2>2. d[0] = n /\ w[0] = v /\ d[Len(<<>>)] = n /\ w[Len(<<>>)] = v
    OBVIOUS
  <2>3. 1..Len(<<>>) = {}
    OBVIOUS
  <2> HIDE DEF d, w
  <2> QED
    BY <2>1, <2>2, <2>3 DEF Walk
<1>2. ASSUME NEW m, NEW u, Walk(<<>>, n, v, m, u) PROVE m = n /\ u = v
  <2>1. Len(<<>>) = 0
    OBVIOUS
  <2> QED
    BY <1>2, <2>1, Zenon DEF Walk
<1> QED
  BY <1>1, <1>2

LEMMA WalkOn ==
    ASSUME NEW s \in Seq(Tokens), NEW t \in Tokens, NEW n, NEW v, NEW m, NEW u,
           NEW m2 \in Nat, NEW u2 \in BOOLEAN,
           Walk(s, n, v, m, u), Reading(m, u, t, m2, u2)
    PROVE  Walk(Append(s, t), n, v, m2, u2)
<1> DEFINE k == Len(s)
           r == Append(s, t)
<1>1. /\ k \in Nat /\ r \in Seq(Tokens) /\ Len(r) = k + 1 /\ r[k + 1] = t
      /\ \A i \in 1..k : r[i] = s[i]
  BY AppendProperties, LenProperties
<1>2. PICK d \in [0..k -> Nat], w \in [0..k -> BOOLEAN] :
          /\ d[0] = n /\ w[0] = v /\ d[k] = m /\ w[k] = u
          /\ \A i \in 1..k : Reading(d[i - 1], w[i - 1], s[i], d[i], w[i])
  BY DEF Walk
<1> HIDE DEF k, r
<1> DEFINE e == [i \in 0..k + 1 |-> IF i = k + 1 THEN m2 ELSE d[i]]
           x == [i \in 0..k + 1 |-> IF i = k + 1 THEN u2 ELSE w[i]]
<1>3. e \in [0..k + 1 -> Nat]
  BY <1>1
<1>4. x \in [0..k + 1 -> BOOLEAN]
  <2>1. \A i \in 0..k + 1 : i # k + 1 => i \in 0..k
    BY <1>1
  <2>2. \A i \in 0..k : w[i] \in BOOLEAN
    BY Zenon
  <2> QED
    BY <2>1, <2>2, Zenon
<1>5. e[0] = n /\ x[0] = v /\ e[k + 1] = m2 /\ x[k + 1] = u2
  <2>1. 0 \in 0..k + 1 /\ k + 1 \in 0..k + 1 /\ 0 # k + 1
    BY <1>1
  <2> QED
    BY <1>2, <2>1, Zenon
<1>6. ASSUME NEW i \in 1..k + 1
      PROVE  Reading(e[i - 1], x[i - 1], r[i], e[i], x[i])
  <2>1. CASE i = k + 1
    <3>1. i - 1 = k /\ k \in 0..k + 1 /\ k # k + 1
      BY <1>1, <2>1
    <3>2. e[i - 1] = m /\ x[i - 1] = u
      BY <1>2, <3>1, Zenon
    <3>3. e[i] = m2 /\ x[i] = u2 /\ r[i] = t
      BY <1>1, <1>5, <2>1, Zenon
    <3> QED
      BY <3>2, <3>3
  <2>2. CASE i # k + 1
    <3>1. /\ i \in 1..k /\ i \in 0..k + 1 /\ i - 1 \in 0..k + 1 /\ i - 1 # k + 1
      BY <1>1, <2>2
    <3>2. e[i] = d[i] /\ x[i] = w[i] /\ e[i - 1] = d[i - 1] /\ x[i - 1] = w[i - 1]
      BY <2>2, <3>1, Zenon
    <3>3. r[i] = s[i]
      BY <1>1, <3>1
    <3> HIDE DEF e, x
    <3> QED
      BY <1>2, <3>1, <3>2, <3>3
  <2> QED
    BY <2>1, <2>2
<1> HIDE DEF e, x
<1>7. Walk(r, n, v, m2, u2)
  BY <1>1, <1>3, <1>4, <1>5, <1>6 DEF Walk
<1> QED
  BY <1>7 DEF r

LEMMA WalkRest ==
    ASSUME NEW s \in Seq(Tokens), s # <<>>, NEW n, NEW v, NEW m, NEW u,
           Walk(s, n, v, m, u)
    PROVE  \E n2 \in Nat, v2 \in BOOLEAN :
               Reading(n, v, Head(s), n2, v2) /\ Walk(Tail(s), n2, v2, m, u)
<1> DEFINE k == Len(s)
           r == Tail(s)
<1>1. /\ k \in Nat \ {0} /\ r \in Seq(Tokens) /\ Len(r) = k - 1
      /\ \A i \in 1..k - 1 : r[i] = s[i + 1]
      /\ Head(s) = s[1]
  BY HeadTailProperties, LenProperties, EmptySeq
<1>2. PICK d \in [0..k -> Nat], w \in [0..k -> BOOLEAN] :
          /\ d[0] = n /\ w[0] = v /\ d[k] = m /\ w[k] = u
          /\ \A i \in 1..k : Reading(d[i - 1], w[i - 1], s[i], d[i], w[i])
  BY DEF Walk
<1> HIDE DEF k, r
<1> DEFINE e == [i \in 0..k - 1 |-> d[i + 1]]
           x == [i \in 0..k - 1 |-> w[i + 1]]
<1>3. \A i \in 0..k - 1 : i + 1 \in 0..k /\ i + 1 \in 1..k
  BY <1>1
<1>4. e \in [0..k - 1 -> Nat] /\ x \in [0..k - 1 -> BOOLEAN]
  <2>1. \A i \in 0..k : d[i] \in Nat
    OBVIOUS
  <2>2. \A i \in 0..k : w[i] \in BOOLEAN
    BY Zenon
  <2> QED
    BY <1>3, <2>1, <2>2, Zenon
<1>5. e[0] = d[1] /\ x[0] = w[1] /\ e[k - 1] = m /\ x[k - 1] = u
  <2>1. 0 \in 0..k - 1 /\ k - 1 \in 0..k - 1 /\ 0 + 1 = 1 /\ k - 1 + 1 = k
    BY <1>1
  <2>2. e[0] = d[0 + 1] /\ x[0] = w[0 + 1]
        /\ e[k - 1] = d[k - 1 + 1] /\ x[k - 1] = w[k - 1 + 1]
    BY <2>1, Zenon
  <2> HIDE DEF e, x
  <2> QED
    BY <1>2, <2>1, <2>2
<1>6. ASSUME NEW i \in 1..k - 1
      PROVE  Reading(e[i - 1], x[i - 1], r[i], e[i], x[i])
  <2>1. i \in 0..k - 1 /\ i - 1 \in 0..k - 1 /\ i - 1 + 1 = i /\ i + 1 \in 1..k
        /\ i + 1 - 1 = i
    BY <1>1
  <2>2. e[i] = d[i + 1] /\ x[i] = w[i + 1]
        /\ e[i - 1] = d[i - 1 + 1] /\ x[i - 1] = w[i - 1 + 1]
    BY <2>1, Zenon
  <2>3. Reading(d[i + 1 - 1], w[i + 1 - 1], s[i + 1], d[i + 1], w[i + 1])
    BY <1>2, <2>1
  <2>4. r[i] = s[i + 1]
    BY <1>1
  <2> HIDE DEF e, x
  <2> QED
    BY <2>1, <2>2, <2>3, <2>4
<1> HIDE DEF e, x
<1>7. Walk(r, d[1], w[1], m, u)
  BY <1>1, <1>4, <1>5, <1>6 DEF Walk
<1>8. /\ 1 \in 1..k /\ 1 \in 0..k /\ 1 - 1 = 0
  BY <1>1
<1>9. d[1] \in Nat /\ w[1] \in BOOLEAN
  <2>1. w[1] \in BOOLEAN
    BY <1>8, Zenon
  <2> QED
    BY <1>8, <2>1
<1>10. Reading(n, v, Head(s), d[1], w[1])
  BY <1>1, <1>2, <1>8
<1> QED
  BY <1>7, <1>9, <1>10 DEF r

-----------------------------------------------------------------------------
(* Sequences.                                                               *)

LEMMA FrontOK ==
    ASSUME NEW S, NEW s \in Seq(S), s # <<>>
    PROVE  /\ Len(s) \in Nat \ {0} /\ LastOf(s) = s[Len(s)] /\ LastOf(s) \in S
           /\ Front(s) \in Seq(S) /\ Len(Front(s)) = Len(s) - 1
           /\ \A k \in 1..Len(s) - 1 : Front(s)[k] = s[k]
<1>1. Len(s) \in Nat \ {0}
  BY EmptySeq
<1>2. LastOf(s) = s[Len(s)] /\ LastOf(s) \in S
  BY <1>1 DEF LastOf
<1>3. \A k \in 1..Len(s) - 1 : s[k] \in S
  BY <1>1
<1>4. /\ Front(s) \in Seq(S) /\ Len(Front(s)) = Len(s) - 1
      /\ \A k \in 1..Len(s) - 1 : Front(s)[k] = s[k]
  <2> DEFINE n == Len(s) - 1
  <2>1. n \in Nat /\ 1 \in Int /\ n - 1 + 1 = n /\ \A k \in 1..n : 1 + k - 1 = k
    BY <1>1
  <2>2. Front(s) = SubSeq(s, 1, n)
    BY DEF Front
  <2> HIDE DEF n
  <2>3. /\ SubSeq(s, 1, n) \in Seq(S)
        /\ Len(SubSeq(s, 1, n)) = IF 1 <= n THEN n - 1 + 1 ELSE 0
        /\ \A k \in 1..n - 1 + 1 : SubSeq(s, 1, n)[k] = s[1 + k - 1]
    BY <1>3, <2>1, SubSeqProperties DEF n
  <2> QED
    BY <2>1, <2>2, <2>3 DEF n
<1> QED
  BY <1>1, <1>2, <1>4

LEMMA AppendOK ==
    ASSUME NEW S, NEW s \in Seq(S), NEW x \in S
    PROVE  /\ Append(s, x) \in Seq(S) /\ Len(Append(s, x)) = Len(s) + 1
           /\ Len(s) \in Nat /\ Append(s, x) # <<>>
           /\ Append(s, x)[Len(s) + 1] = x /\ LastOf(Append(s, x)) = x
           /\ \A k \in 1..Len(s) : Append(s, x)[k] = s[k]
<1>1. Len(s) \in Nat
  BY LenProperties
<1>2. /\ Append(s, x) \in Seq(S) /\ Len(Append(s, x)) = Len(s) + 1
      /\ Append(s, x)[Len(s) + 1] = x
      /\ \A k \in 1..Len(s) : Append(s, x)[k] = s[k]
  BY AppendProperties
<1>3. Append(s, x) # <<>>
  BY <1>1, <1>2
<1> QED
  BY <1>1, <1>2, <1>3 DEF LastOf

LEMMA PhaseChanged ==
    ASSUME NEW fs \in Seq(FrameType), Len(fs) >= 1,
           NEW p \in {"phKey", "phValue", "phComma"},
           NEW gs, gs = [fs EXCEPT ![Len(fs)].ph = p]
    PROVE  /\ gs \in Seq(FrameType) /\ Len(gs) = Len(fs)
           /\ gs[Len(fs)].ph = p
           /\ gs[Len(fs)].deferred = fs[Len(fs)].deferred
           /\ \A k \in 1..Len(fs) - 1 : gs[k] = fs[k]
<1> DEFINE n == Len(fs)
           f == fs[n]
           x == [f EXCEPT !.ph = p]
<1>1. /\ n \in Nat /\ n = Len(fs) /\ n \in 1..Len(fs)
      /\ \A k \in 1..n - 1 : k \in 1..n /\ k # n
  BY LenProperties
<1>2. f \in FrameType
  BY <1>1
<1> HIDE DEF f
<1>3. x \in FrameType /\ x.ph = p /\ x.deferred = f.deferred
  BY <1>2 DEF FrameType
<1>4. gs = [fs EXCEPT ![n] = x]
  BY DEF f
<1> HIDE DEF x, n
<1>5. /\ [fs EXCEPT ![n] = x] \in Seq(FrameType) /\ Len([fs EXCEPT ![n] = x]) = n
      /\ [fs EXCEPT ![n] = x][n] = x
      /\ \A j \in 1..n : j # n => [fs EXCEPT ![n] = x][j] = fs[j]
  BY <1>1, <1>3, ExceptSeq
<1> QED
  BY <1>1, <1>3, <1>4, <1>5 DEF f

LEMMA DeferredChanged ==
    ASSUME NEW fs \in Seq(FrameType), Len(fs) >= 1, NEW kvs \in Seq(Pairs),
           NEW gs, gs = [fs EXCEPT ![Len(fs)].deferred = kvs]
    PROVE  /\ gs \in Seq(FrameType) /\ Len(gs) = Len(fs)
           /\ gs[Len(fs)].ph = fs[Len(fs)].ph
           /\ gs[Len(fs)].deferred = kvs
           /\ \A k \in 1..Len(fs) - 1 : gs[k] = fs[k]
<1> DEFINE n == Len(fs)
           f == fs[n]
           x == [f EXCEPT !.deferred = kvs]
<1>1. /\ n \in Nat /\ n = Len(fs) /\ n \in 1..Len(fs)
      /\ \A k \in 1..n - 1 : k \in 1..n /\ k # n
  BY LenProperties
<1>2. f \in FrameType
  BY <1>1
<1> HIDE DEF f
<1>3. x \in FrameType /\ x.ph = f.ph /\ x.deferred = kvs
  BY <1>2 DEF FrameType
<1>4. gs = [fs EXCEPT ![n] = x]
  BY DEF f
<1> HIDE DEF x, n
<1>5. /\ [fs EXCEPT ![n] = x] \in Seq(FrameType) /\ Len([fs EXCEPT ![n] = x]) = n
      /\ [fs EXCEPT ![n] = x][n] = x
      /\ \A j \in 1..n : j # n => [fs EXCEPT ![n] = x][j] = fs[j]
  BY <1>1, <1>3, ExceptSeq
<1> QED
  BY <1>1, <1>3, <1>4, <1>5 DEF f

-----------------------------------------------------------------------------
(* What a step computes.                                                    *)

\* But for what is held by the frame on top, requests, and the verdict, h is e.
Kept(e, h) ==
    /\ h.path = e.path /\ h.depth = e.depth /\ h.calls = e.calls
    /\ h.rootDone = e.rootDone
    /\ Len(h.frames) = Len(e.frames)
    /\ \A k \in 1..Len(e.frames) : h.frames[k].ph = e.frames[k].ph
    /\ \A k \in 1..Len(e.frames) - 1 : h.frames[k] = e.frames[k]
    /\ LET n == Len(e.frames)
       IN  h.frames[n].deferred \in {e.frames[n].deferred, <<>>}

LEMMA BailedOK ==
    ASSUME NEW e, Always(e), NEW c \in {"misuse", "protocol", "unsupported", "leftover"}
    PROVE  Always(Bailed(e, c)) /\ Bailed(e, c).dead
           /\ Kept(e, Bailed(e, c))
<1> DEFINE h == Bailed(e, c)
<1>1. h \in Effect
  BY DEF Always, Bailed, Effect
<1>2. /\ h.frames = e.frames /\ h.path = e.path /\ h.depth = e.depth
      /\ h.calls = e.calls /\ h.rootDone = e.rootDone
      /\ h.deferredBytes = e.deferredBytes /\ h.dead = TRUE
  BY DEF Always, Bailed, Effect
<1> HIDE DEF h
<1>3. Always(h)
  BY <1>1, <1>2 DEF Always
<1>4. Kept(e, h)
  BY <1>2 DEF Kept
<1> QED
  BY <1>2, <1>3, <1>4 DEF h

LEMMA ForgetOK ==
    ASSUME NEW e, Always(e), Len(e.frames) >= 1
    PROVE  LET h == forgetDeferred(e)
           IN  /\ Always(h) /\ Kept(e, h)
               /\ h.frames[Len(e.frames)].deferred = <<>>
               /\ h.wantRelease = e.wantRelease /\ h.releaseAt = e.releaseAt
               /\ h.suspendReq = e.suspendReq /\ h.dead = e.dead
               /\ h.code = e.code /\ h.dropped = e.dropped /\ h.asked = e.asked
<1> DEFINE n  == Len(e.frames)
           fs == e.frames
           gs == [fs EXCEPT ![n].deferred = <<>>]
           b  == e.deferredBytes - SizeOf(Top(e).deferred)
           h  == forgetDeferred(e)
<1>1. e \in Effect /\ fs \in Seq(FrameType) /\ n \in Nat \ {0}
  BY DEF Always, Effect
<1>2. <<>> \in Seq(Pairs)
  OBVIOUS
<1>3. /\ gs \in Seq(FrameType) /\ Len(gs) = n /\ gs[n].ph = fs[n].ph
      /\ gs[n].deferred = <<>> /\ \A k \in 1..n - 1 : gs[k] = fs[k]
  <2> DEFINE none == <<>>
  <2>1. gs = [fs EXCEPT ![Len(fs)].deferred = none]
    OBVIOUS
  <2>2. n = Len(fs) /\ Len(fs) >= 1 /\ none \in Seq(Pairs)
    BY <1>1
  <2> HIDE DEF gs, fs, n, none
  <2>3. fs \in Seq(FrameType)
    BY <1>1
  <2>4. gs \in Seq(FrameType) /\ Len(gs) = Len(fs)
    BY <2>1, <2>2, <2>3, DeferredChanged
  <2>5. gs[Len(fs)].ph = fs[Len(fs)].ph
    BY <2>1, <2>2, <2>3, DeferredChanged
  <2>6. gs[Len(fs)].deferred = none
    BY <2>1, <2>2, <2>3, DeferredChanged
  <2>7. \A k \in 1..Len(fs) - 1 : gs[k] = fs[k]
    BY <2>1, <2>2, <2>3, DeferredChanged
  <2> QED
    BY <2>2, <2>4, <2>5, <2>6, <2>7 DEF none
<1>4. h = [e EXCEPT !.deferredBytes = b, !.frames = gs]
  BY <1>1 DEF forgetDeferred, Effect
<1>5. /\ SizeOf(<<>>) = 0 /\ Top(e).deferred = fs[n].deferred
  <2>1. SizeOf(<<>>) \in Nat /\ Adds([j \in 1..0 |-> Size(<<>>[j])], 0, SizeOf(<<>>))
    BY <1>2, SizeAdds
  <2>2. SizeOf(<<>>) = 0
    BY <2>1 DEF Adds
  <2> QED
    BY <2>2 DEF Top, LastOf
<1>6. /\ Total(gs) - SizeOf(gs[n].deferred) = Total(fs) - SizeOf(fs[n].deferred)
      /\ SizeOf(fs[n].deferred) \in Nat /\ Total(gs) \in Nat /\ Total(fs) \in Nat
  <2>1. \A k \in 1..n - 1 : gs[k].deferred = fs[k].deferred
    BY <1>3
  <2> HIDE DEF gs, n
  <2> QED
    BY <1>1, <1>3, <2>1, TotalChanged DEF n
<1>7. b = Total(gs) /\ b \in Int
  <2>1. e.deferredBytes = Total(fs)
    BY DEF Always
  <2> HIDE DEF gs
  <2> QED
    BY <1>3, <1>5, <1>6, <2>1
<1> HIDE DEF gs, b, h
<1>8. /\ h \in Effect /\ h.frames = gs /\ h.deferredBytes = b
      /\ h.path = e.path /\ h.depth = e.depth /\ h.calls = e.calls
      /\ h.rootDone = e.rootDone
      /\ h.wantRelease = e.wantRelease /\ h.releaseAt = e.releaseAt
      /\ h.suspendReq = e.suspendReq /\ h.dead = e.dead
      /\ h.code = e.code /\ h.dropped = e.dropped /\ h.asked = e.asked
  BY <1>1, <1>3, <1>4, <1>7 DEF Effect
<1>9. Always(h)
  BY <1>3, <1>7, <1>8 DEF Always
<1>10. Kept(e, h)
  <2>1. \A k \in 1..n : k = n \/ k \in 1..n - 1
    BY <1>1
  <2> QED
    BY <1>3, <1>8, <2>1 DEF Kept
<1> QED
  BY <1>3, <1>8, <1>9, <1>10 DEF h

Hooked(e, h, cb) ==
    /\ Always(h) /\ Kept(e, h)
    /\ ~h.dead =>
        /\ ~e.dead /\ cb # "bail" /\ (cb = "suspend" => ~Replaying(e))
        /\ h.suspendReq = (e.suspendReq \/ cb = "suspend")
        /\ h.wantRelease = (e.wantRelease \/ cb = "release")
        /\ h.code = e.code
        /\ cb = "suspend" => h.releaseAt = e.releaseAt

LEMMA HookOK ==
    ASSUME NEW e, Always(e), Len(e.frames) >= 1, NEW cb
    PROVE  Hooked(e, Hook(cb, e), cb)
<1>1. e \in Effect /\ Len(e.frames) \in Nat
  BY DEF Always, Effect
<1> DEFINE h == Hook(cb, e)
<1> SUFFICES Hooked(e, h, cb)
  OBVIOUS
<1>2. CASE cb = "release"
  <2>1. h = [e EXCEPT !.wantRelease = TRUE, !.releaseAt = Len(e.frames),
                      !.asked = @ \union {Len(e.frames)}]
    BY <1>2 DEF Hook
  <2> HIDE DEF h
  <2>2. h \in Effect
    BY <1>1, <2>1 DEF Effect
  <2>3. /\ h.frames = e.frames /\ h.path = e.path /\ h.depth = e.depth
        /\ h.calls = e.calls /\ h.rootDone = e.rootDone
        /\ h.deferredBytes = e.deferredBytes
        /\ h.suspendReq = e.suspendReq /\ h.code = e.code
        /\ h.dead = e.dead /\ h.wantRelease = TRUE
    BY <1>1, <2>1 DEF Effect
  <2>4. Always(h) /\ Kept(e, h)
    BY <2>2, <2>3 DEF Always, Kept
  <2>5. e.suspendReq \in BOOLEAN
    BY <1>1, Zenon DEF Effect
  <2>6. h.suspendReq = (e.suspendReq \/ cb = "suspend")
    BY <1>2, <2>3, <2>5
  <2> QED
    BY <1>2, <2>3, <2>4, <2>6 DEF Hooked
<1>3. CASE cb = "drop"
  <2> DEFINE f == forgetDeferred(e)
             x == e.dropped \union {kv.key : kv \in Members(Top(e).deferred)}
  <2>1. /\ Always(f) /\ Kept(e, f)
        /\ f.wantRelease = e.wantRelease
        /\ f.suspendReq = e.suspendReq /\ f.dead = e.dead
        /\ f.code = e.code /\ f.dropped = e.dropped
    BY ForgetOK
  <2>2. h = [f EXCEPT !.dropped = @ \union
                        {kv.key : kv \in Members(Top(e).deferred)}]
    BY <1>3 DEF Hook
  <2> HIDE DEF h, f
  <2>3. f \in Effect
    BY <2>1 DEF Always
  <2>4. h = [f EXCEPT !.dropped = x]
    BY <2>1, <2>2, <2>3 DEF Effect
  <2>5. x \in SUBSET Ids
    <3>1. Top(e).deferred \in Seq(Pairs)
      <4>1. Len(e.frames) \in 1..Len(e.frames) /\ e.frames \in Seq(FrameType)
        BY <1>1 DEF Effect
      <4>2. Top(e) \in FrameType
        BY <4>1 DEF Top, LastOf
      <4> QED
        BY <4>2 DEF FrameType
    <3>2. \A kv \in Members(Top(e).deferred) : kv \in Pairs
      BY <3>1 DEF Members
    <3>3. \A kv \in Members(Top(e).deferred) : kv.key \in Ids
      BY <3>2 DEF Pairs
    <3>4. e.dropped \in SUBSET Ids
      BY <1>1 DEF Effect
    <3> QED
      BY <3>3, <3>4
  <2> HIDE DEF x
  <2>6. h \in Effect
    BY <2>3, <2>4, <2>5 DEF Effect
  <2>7. /\ h.frames = f.frames /\ h.path = f.path /\ h.depth = f.depth
        /\ h.calls = f.calls /\ h.rootDone = f.rootDone
        /\ h.deferredBytes = f.deferredBytes
        /\ h.suspendReq = f.suspendReq /\ h.code = f.code
        /\ h.dead = f.dead /\ h.wantRelease = f.wantRelease
    BY <2>3, <2>4 DEF Effect
  <2>8. Always(h) /\ Kept(e, h)
    BY <2>1, <2>6, <2>7 DEF Always, Kept
  <2>9. e.suspendReq \in BOOLEAN /\ e.wantRelease \in BOOLEAN
    BY <1>1, Zenon DEF Effect
  <2>10. /\ h.suspendReq = (e.suspendReq \/ cb = "suspend")
         /\ h.wantRelease = (e.wantRelease \/ cb = "release")
    BY <1>3, <2>1, <2>7, <2>9
  <2> QED
    BY <1>3, <2>1, <2>7, <2>8, <2>10 DEF Hooked
<1>4. CASE cb = "suspend" /\ ~Replaying(e)
  <2>1. h = [e EXCEPT !.suspendReq = TRUE]
    BY <1>4 DEF Hook
  <2> HIDE DEF h
  <2>2. h \in Effect
    BY <1>1, <2>1 DEF Effect
  <2>3. /\ h.frames = e.frames /\ h.path = e.path /\ h.depth = e.depth
        /\ h.calls = e.calls /\ h.rootDone = e.rootDone
        /\ h.deferredBytes = e.deferredBytes
        /\ h.suspendReq = TRUE /\ h.code = e.code
        /\ h.dead = e.dead /\ h.wantRelease = e.wantRelease
        /\ h.releaseAt = e.releaseAt
    BY <1>1, <2>1 DEF Effect
  <2>4. Always(h) /\ Kept(e, h)
    BY <2>2, <2>3 DEF Always, Kept
  <2>5. e.wantRelease \in BOOLEAN
    BY <1>1, Zenon DEF Effect
  <2>6. h.wantRelease = (e.wantRelease \/ cb = "release")
    BY <1>4, <2>3, <2>5
  <2> QED
    BY <1>4, <2>3, <2>4, <2>6 DEF Hooked
<1>5. CASE (cb = "suspend" /\ Replaying(e)) \/ cb = "bail"
  <2>1. \E c \in {"misuse", "protocol"} : h = Bailed(e, c)
    BY <1>5 DEF Hook
  <2> HIDE DEF h
  <2>2. PICK c \in {"misuse", "protocol"} : h = Bailed(e, c)
    BY <2>1
  <2>3. Always(h) /\ h.dead /\ Kept(e, h)
    BY <2>2, BailedOK
  <2> QED
    BY <2>3 DEF Hooked
<1>6. CASE cb \notin {"release", "drop", "suspend", "bail"}
  <2>1. h = e
    BY <1>6 DEF Hook
  <2> HIDE DEF h
  <2>2. Kept(e, h)
    BY <2>1 DEF Kept
  <2>3. e.wantRelease \in BOOLEAN /\ e.suspendReq \in BOOLEAN
    BY <1>1, Zenon DEF Effect
  <2>4. /\ h.suspendReq = (e.suspendReq \/ cb = "suspend")
        /\ h.wantRelease = (e.wantRelease \/ cb = "release")
    BY <1>6, <2>1, <2>3
  <2> QED
    BY <1>6, <2>1, <2>2, <2>4 DEF Hooked
<1> QED
  BY <1>2, <1>3, <1>4, <1>5, <1>6

\* A call of doRelease, or of closeContainer, just made.
NewCall(at, n, kvs) ==
    [at |-> at, frame |-> n, todo |-> kvs, raw |-> <<>>, active |-> FALSE,
     stale |-> FALSE, snap |-> <<>>]

LEMMA NewCallOK ==
    ASSUME NEW at \in {"value", "leave", "close"}, NEW n \in Nat,
           NEW kvs \in Seq(Pairs)
    PROVE  /\ NewCall(at, n, kvs) \in CallType
           /\ NewCall(at, n, kvs).at = at /\ NewCall(at, n, kvs).frame = n
           /\ NewCall(at, n, kvs).todo = kvs /\ NewCall(at, n, kvs).raw = <<>>
           /\ ~NewCall(at, n, kvs).active /\ ~NewCall(at, n, kvs).stale
           /\ NewCall(at, n, kvs).snap = <<>>
BY DEF NewCall, CallType

\* But for its calls, and what the frame on top holds, r is e.
Calls(e, r, c) ==
    /\ Always(r)
    /\ r.path = e.path /\ r.depth = e.depth /\ r.rootDone = e.rootDone
    /\ r.wantRelease = e.wantRelease /\ r.releaseAt = e.releaseAt
    /\ r.suspendReq = e.suspendReq /\ r.dead = e.dead /\ r.code = e.code
    /\ Len(r.frames) = Len(e.frames)
    /\ \A k \in 1..Len(e.frames) : r.frames[k].ph = e.frames[k].ph
    /\ \A k \in 1..Len(e.frames) - 1 : r.frames[k] = e.frames[k]
    /\ r.frames[Len(e.frames)].deferred = <<>>
    /\ r.calls = Append(e.calls, c)

LEMMA ReleasedOK ==
    ASSUME NEW e, Always(e), Len(e.frames) >= 1,
           NEW at \in {"value", "leave", "close"}
    PROVE  Calls(e, Released(e, at), NewCall(at, Len(e.frames), Top(e).deferred))
<1> DEFINE f == forgetDeferred(e)
           n == Len(e.frames)
           c == NewCall(at, n, Top(e).deferred)
           r == Released(e, at)
           x == e.asked \ {n}
           cs == Append(e.calls, c)
<1>1. e \in Effect /\ n \in Nat /\ e.frames \in Seq(FrameType)
      /\ e.calls \in Seq(CallType) /\ e.asked \in SUBSET Nat
  BY DEF Always, Effect
<1>2. /\ Always(f) /\ Kept(e, f)
      /\ f.frames[n].deferred = <<>>
      /\ f.wantRelease = e.wantRelease /\ f.releaseAt = e.releaseAt
      /\ f.suspendReq = e.suspendReq /\ f.dead = e.dead
      /\ f.code = e.code /\ f.asked = e.asked
  BY ForgetOK
<1>3. f \in Effect /\ f.calls = e.calls
  BY <1>2 DEF Always, Kept
<1>4. r = [f EXCEPT !.asked = x, !.calls = cs]
  <2> HIDE DEF f
  <2>1. r = [f EXCEPT !.asked = @ \ {n}, !.calls = Append(@, c)]
    BY DEF Released, NewCall, f
  <2> HIDE DEF r, c, n
  <2> QED
    BY <1>2, <1>3, <2>1 DEF Effect
<1>5. Top(e).deferred \in Seq(Pairs)
  <2>1. n \in 1..n
    BY <1>1
  <2>2. Top(e) \in FrameType
    BY <1>1, <2>1 DEF Top, LastOf
  <2> QED
    BY <2>2 DEF FrameType
<1>6. c \in CallType /\ c.frame = n
  BY <1>1, <1>5, NewCallOK
<1> HIDE DEF f, r, c, n
<1>7. /\ cs \in Seq(CallType) /\ Len(cs) = Len(e.calls) + 1
      /\ Len(e.calls) \in Nat /\ cs[Len(e.calls) + 1] = c
      /\ \A k \in 1..Len(e.calls) : cs[k] = e.calls[k]
  BY <1>1, <1>6, AppendOK
<1>8. x \in SUBSET Nat
  BY <1>1
<1> HIDE DEF x, cs
<1>9. r \in Effect
  BY <1>3, <1>4, <1>7, <1>8 DEF Effect
<1>10. /\ r.frames = f.frames /\ r.path = f.path /\ r.depth = f.depth
       /\ r.calls = cs /\ r.rootDone = f.rootDone
       /\ r.wantRelease = f.wantRelease /\ r.releaseAt = f.releaseAt
       /\ r.deferredBytes = f.deferredBytes
       /\ r.suspendReq = f.suspendReq /\ r.code = f.code
       /\ r.dead = f.dead
  BY <1>3, <1>4, <1>9 DEF Effect
<1>11. Always(r)
  <2>1. r.deferredBytes = Total(r.frames)
    BY <1>2, <1>10 DEF Always
  <2>2. Len(r.frames) = n
    BY <1>2, <1>10 DEF Kept, n
  <2>3. ASSUME NEW k \in 1..Len(cs) PROVE cs[k].frame \in 1..n
    <3>1. CASE k = Len(e.calls) + 1
      BY <1>1, <1>6, <1>7, <3>1 DEF n
    <3>2. CASE k # Len(e.calls) + 1
      <4>1. k \in 1..Len(e.calls)
        BY <1>7, <3>2
      <4> QED
        BY <1>7, <4>1 DEF Always, n
    <3> QED
      BY <3>1, <3>2
  <2> QED
    BY <1>9, <1>10, <2>1, <2>2, <2>3 DEF Always
<1>12. Calls(e, r, c)
  <2>1. /\ Len(r.frames) = Len(e.frames)
        /\ \A k \in 1..Len(e.frames) : r.frames[k].ph = e.frames[k].ph
        /\ \A k \in 1..Len(e.frames) - 1 : r.frames[k] = e.frames[k]
        /\ r.path = e.path /\ r.depth = e.depth /\ r.rootDone = e.rootDone
    BY <1>2, <1>10 DEF Kept
  <2> QED
    BY <1>2, <1>10, <1>11, <2>1 DEF Calls, cs, n
<1> QED
  BY <1>12 DEF r, c, n

\* A value is over: r is e after it, perhaps with a replay to run.
Valued(e, r) ==
    LET n == Len(e.frames)
    IN  /\ Always(r)
        /\ r.depth = e.depth /\ r.rootDone = e.rootDone
        /\ r.suspendReq = e.suspendReq /\ r.dead = e.dead /\ r.code = e.code
        /\ r.path = Front(e.path)
        /\ Len(r.frames) = n /\ r.frames[n].ph = "phComma"
        /\ \A k \in 1..n - 1 : r.frames[k] = e.frames[k]
        /\ \/ /\ r.calls = e.calls /\ r.wantRelease = e.wantRelease
              /\ r.frames[n].deferred = e.frames[n].deferred
           \/ /\ e.wantRelease /\ e.releaseAt = n /\ ~r.wantRelease
              /\ r.frames[n].deferred = <<>>
              /\ r.calls = Append(e.calls,
                              NewCall("value", n, e.frames[n].deferred))

LEMMA ValuedOK ==
    ASSUME NEW e, Always(e), Len(e.frames) >= 1, e.path # <<>>
    PROVE  Valued(e, afterValue(e))
<1> DEFINE n  == Len(e.frames)
           fs == e.frames
           gs == [fs EXCEPT ![Len(fs)].ph = "phComma"]
           p  == Front(e.path)
           d  == [e EXCEPT !.frames = gs, !.path = p]
           q  == [d EXCEPT !.wantRelease = FALSE]
           r  == afterValue(e)
<1>1. e \in Effect /\ n \in Nat /\ fs \in Seq(FrameType) /\ n = Len(fs)
      /\ n >= 1 /\ e.path \in Seq(Ids)
  BY DEF Always, Effect
<1>2. gs \in Seq(FrameType) /\ Len(gs) = n
  <2> HIDE DEF gs, n, fs
  <2> QED
    BY <1>1, PhaseChanged, ZenonT(60) DEF gs
<1>3. gs[n].ph = "phComma" /\ gs[n].deferred = fs[n].deferred
  <2> HIDE DEF gs, n, fs
  <2> QED
    BY <1>1, PhaseChanged DEF gs
<1>4. \A k \in 1..n - 1 : gs[k] = fs[k]
  <2> HIDE DEF gs, n, fs
  <2> QED
    BY <1>1, PhaseChanged DEF gs
<1>5. p \in Seq(Ids)
  BY <1>1, FrontOK
<1>6. r = IF ReleaseDue(e) THEN Released(q, "value") ELSE d
  BY <1>1 DEF afterValue, Effect
<1> HIDE DEF gs, p
<1>7. /\ d \in Effect /\ d.frames = gs /\ d.path = p /\ d.depth = e.depth
      /\ d.calls = e.calls /\ d.rootDone = e.rootDone
      /\ d.wantRelease = e.wantRelease /\ d.deferredBytes = e.deferredBytes
      /\ d.suspendReq = e.suspendReq /\ d.dead = e.dead /\ d.code = e.code
  BY <1>1, <1>2, <1>5 DEF Effect
<1> HIDE DEF d
<1>8. /\ q \in Effect /\ q.frames = gs /\ q.path = p /\ q.depth = e.depth
      /\ q.calls = e.calls /\ q.rootDone = e.rootDone
      /\ q.wantRelease = FALSE /\ q.deferredBytes = e.deferredBytes
      /\ q.suspendReq = e.suspendReq /\ q.dead = e.dead /\ q.code = e.code
  BY <1>7 DEF Effect
<1> HIDE DEF q
<1>9. Total(gs) = Total(fs)
  <2>1. \A k \in 1..n : gs[k].deferred = fs[k].deferred
    <3>1. \A k \in 1..n : k = n \/ k \in 1..n - 1
      BY <1>1
    <3> QED
      BY <1>3, <1>4, <3>1
  <2> HIDE DEF fs, n
  <2> QED
    BY <1>1, <1>2, <2>1, TotalSame
<1>10. Always(d) /\ Always(q)
  BY <1>1, <1>2, <1>7, <1>8, <1>9 DEF Always
<1> HIDE DEF r
<1>11. CASE ~ReleaseDue(e)
  <2>1. r = d
    BY <1>6, <1>11
  <2> QED
    BY <1>2, <1>3, <1>4, <1>7, <1>10, <2>1 DEF Valued, r, p
<1>12. CASE ReleaseDue(e)
  <2>1. r = Released(q, "value") /\ e.wantRelease /\ e.releaseAt = n
    BY <1>6, <1>12 DEF ReleaseDue
  <2>2. Calls(q, r, NewCall("value", n, fs[n].deferred))
    <3>1. Len(q.frames) = n /\ Top(q).deferred = fs[n].deferred
      BY <1>1, <1>2, <1>3, <1>8 DEF Top, LastOf
    <3> HIDE DEF n, fs
    <3> QED
      BY <1>1, <1>10, <2>1, <3>1, ReleasedOK
  <2>3. /\ Always(r)
        /\ r.path = p /\ r.depth = e.depth /\ r.rootDone = e.rootDone
        /\ r.wantRelease = FALSE
        /\ r.suspendReq = e.suspendReq /\ r.dead = e.dead /\ r.code = e.code
        /\ Len(r.frames) = n
        /\ \A k \in 1..n : r.frames[k].ph = gs[k].ph
        /\ \A k \in 1..n - 1 : r.frames[k] = gs[k]
        /\ r.frames[n].deferred = <<>>
        /\ r.calls = Append(e.calls, NewCall("value", n, fs[n].deferred))
    BY <1>2, <1>8, <2>2 DEF Calls
  <2>4. r.frames[n].ph = "phComma" /\ \A k \in 1..n - 1 : r.frames[k] = fs[k]
    <3>1. n \in 1..n
      BY <1>1
    <3> QED
      BY <1>3, <1>4, <2>3, <3>1
  <2> QED
    BY <2>1, <2>3, <2>4 DEF Valued, r, p
<1> QED
  BY <1>11, <1>12 DEF r

\* OnKey was asked for the pair id.
Judged(e, r, id, cb) ==
    LET n == Len(e.frames)
    IN  /\ Always(r)
        /\ r.path = Append(e.path, id) /\ r.depth = e.depth
        /\ r.rootDone = e.rootDone /\ r.calls = Running(e.calls)
        /\ Len(r.frames) = n /\ r.frames[n].ph = "phValue"
        /\ \A k \in 1..n - 1 : r.frames[k] = e.frames[k]
        /\ r.frames[n].deferred \in {e.frames[n].deferred, <<>>}
        /\ ~r.dead =>
            /\ ~e.dead /\ (cb = "suspend" => ~Replaying(e))
            /\ r.suspendReq = (e.suspendReq \/ cb = "suspend")
            /\ r.wantRelease = (e.wantRelease \/ cb = "release")

LEMMA RunningOK ==
    ASSUME NEW cs \in Seq(CallType)
    PROVE  /\ Running(cs) \in Seq(CallType) /\ Len(Running(cs)) = Len(cs)
           /\ \A k \in 1..Len(cs) :
                /\ Running(cs)[k].at = cs[k].at /\ Running(cs)[k].frame = cs[k].frame
                /\ Running(cs)[k].todo = cs[k].todo /\ Running(cs)[k].raw = cs[k].raw
                /\ Running(cs)[k].stale = cs[k].stale /\ Running(cs)[k].snap = cs[k].snap
                /\ Running(cs)[k].active = (k = Len(cs) \/ cs[k].active)
           /\ \A k \in 1..Len(cs) - 1 : Running(cs)[k] = cs[k]
<1>1. CASE cs = <<>>
  BY <1>1 DEF Running
<1>2. CASE cs # <<>>
  <2> DEFINE n == Len(cs)
             c == cs[n]
             x == [c EXCEPT !.active = TRUE]
  <2>1. n \in Nat /\ n \in 1..Len(cs)
    BY <1>2, EmptySeq
  <2>2. c \in CallType
    BY <2>1
  <2>3. Running(cs) = [cs EXCEPT ![n] = x]
    BY <1>2 DEF Running
  <2> HIDE DEF c
  <2>4. /\ x \in CallType /\ x.at = c.at /\ x.frame = c.frame /\ x.todo = c.todo
        /\ x.raw = c.raw /\ x.active = TRUE /\ x.stale = c.stale /\ x.snap = c.snap
    BY <2>2 DEF CallType
  <2> HIDE DEF x, n
  <2>5. /\ [cs EXCEPT ![n] = x] \in Seq(CallType)
        /\ Len([cs EXCEPT ![n] = x]) = Len(cs)
        /\ [cs EXCEPT ![n] = x][n] = x
        /\ \A k \in 1..Len(cs) : k # n => [cs EXCEPT ![n] = x][k] = cs[k]
    BY <2>1, <2>4, ExceptSeq
  <2>6. \A k \in 1..Len(cs) : cs[k].active \in BOOLEAN
    <3>1. \A k \in 1..Len(cs) : cs[k] \in CallType
      OBVIOUS
    <3> QED
      BY <3>1, Zenon DEF CallType
  <2> DEFINE ds == Running(cs)
  <2>7. /\ ds \in Seq(CallType) /\ Len(ds) = Len(cs) /\ ds[n] = x
        /\ \A k \in 1..Len(cs) : k # n => ds[k] = cs[k]
    BY <2>3, <2>5
  <2> HIDE DEF ds
  <2>8. ASSUME NEW k \in 1..Len(cs)
        PROVE  /\ ds[k].at = cs[k].at /\ ds[k].frame = cs[k].frame
               /\ ds[k].todo = cs[k].todo /\ ds[k].raw = cs[k].raw
               /\ ds[k].stale = cs[k].stale /\ ds[k].snap = cs[k].snap
               /\ ds[k].active = (k = Len(cs) \/ cs[k].active)
    <3>1. CASE k = n
      BY <2>4, <2>7, <3>1 DEF c, n
    <3>2. CASE k # n
      BY <2>6, <2>7, <3>2 DEF n
    <3> QED
      BY <3>1, <3>2
  <2>9. \A k \in 1..Len(cs) - 1 : ds[k] = cs[k]
    <3>1. \A k \in 1..Len(cs) - 1 : k \in 1..Len(cs) /\ k # n
      BY <2>1 DEF n
    <3> QED
      BY <2>7, <3>1
  <2> QED
    BY <2>7, <2>8, <2>9 DEF ds
<1> QED
  BY <1>1, <1>2

LEMMA JudgedOK ==
    ASSUME NEW e, Always(e), Len(e.frames) >= 1, NEW id \in Ids, NEW cb
    PROVE  Judged(e, [Hook(cb, [e EXCEPT !.path = Append(@, id)]) EXCEPT
                          !.frames[Len(e.frames)].ph = "phValue",
                          !.calls = Running(@)], id, cb)
<1> DEFINE n  == Len(e.frames)
           p  == Append(e.path, id)
           d  == [e EXCEPT !.path = p]
           h  == Hook(cb, d)
           fs == h.frames
           gs == [fs EXCEPT ![Len(fs)].ph = "phValue"]
           cs == Running(h.calls)
           r  == [h EXCEPT !.frames = gs, !.calls = cs]
<1>1. e \in Effect /\ n \in Nat /\ n >= 1 /\ e.path \in Seq(Ids)
      /\ e.calls \in Seq(CallType)
  BY DEF Always, Effect
<1>2. p \in Seq(Ids)
  BY <1>1, AppendOK
<1> HIDE DEF p
<1>3. /\ d \in Effect /\ d.path = p /\ d.frames = e.frames /\ d.depth = e.depth
      /\ d.calls = e.calls /\ d.rootDone = e.rootDone
      /\ d.wantRelease = e.wantRelease /\ d.deferredBytes = e.deferredBytes
      /\ d.suspendReq = e.suspendReq /\ d.dead = e.dead /\ d.code = e.code
  BY <1>1, <1>2 DEF Effect
<1>4. Always(d)
  BY <1>3 DEF Always
<1> HIDE DEF d
<1>5. Hooked(d, h, cb)
  BY <1>1, <1>3, <1>4, HookOK
<1> HIDE DEF h
<1>6. /\ h \in Effect /\ Always(h) /\ h.path = p /\ h.depth = e.depth
      /\ h.calls = e.calls /\ h.rootDone = e.rootDone
      /\ Len(fs) = n /\ fs \in Seq(FrameType)
      /\ \A k \in 1..n - 1 : fs[k] = e.frames[k]
      /\ fs[n].deferred \in {e.frames[n].deferred, <<>>}
  BY <1>3, <1>5 DEF Hooked, Kept, Always, Effect
<1>7. gs \in Seq(FrameType) /\ Len(gs) = n
  <2> HIDE DEF gs, n, fs
  <2> QED
    BY <1>1, <1>6, PhaseChanged, ZenonT(60) DEF gs
<1>8. gs[n].ph = "phValue" /\ gs[n].deferred = fs[n].deferred
  <2> HIDE DEF gs, n, fs
  <2> QED
    BY <1>1, <1>6, PhaseChanged DEF gs
<1>9. \A k \in 1..n - 1 : gs[k] = fs[k]
  <2> HIDE DEF gs, n, fs
  <2> QED
    BY <1>1, <1>6, PhaseChanged DEF gs
<1>10. cs \in Seq(CallType) /\ Len(cs) = Len(e.calls)
       /\ \A k \in 1..Len(cs) : cs[k].frame = e.calls[k].frame
  BY <1>1, <1>6, RunningOK
<1>11. [h EXCEPT !.frames[Len(e.frames)].ph = "phValue", !.calls = Running(@)] = r
  BY <1>6 DEF Effect
<1> HIDE DEF gs, cs
<1>12. /\ r \in Effect /\ r.frames = gs /\ r.calls = cs /\ r.path = p
       /\ r.depth = e.depth /\ r.rootDone = e.rootDone
       /\ r.wantRelease = h.wantRelease /\ r.deferredBytes = h.deferredBytes
       /\ r.suspendReq = h.suspendReq /\ r.dead = h.dead
  BY <1>6, <1>7, <1>10 DEF Effect
<1> HIDE DEF r
<1>13. Total(gs) = Total(fs)
  <2>1. \A k \in 1..n : gs[k].deferred = fs[k].deferred
    <3>1. \A k \in 1..n : k = n \/ k \in 1..n - 1
      BY <1>1
    <3> QED
      BY <1>8, <1>9, <3>1
  <2> HIDE DEF fs, n
  <2> QED
    BY <1>6, <1>7, <2>1, TotalSame
<1>14. Always(r)
  <2>1. \A k \in 1..Len(e.calls) : e.calls[k].frame \in 1..n
    BY DEF Always
  <2>2. h.deferredBytes = Total(fs)
    BY <1>6 DEF Always
  <2> HIDE DEF fs
  <2> QED
    BY <1>7, <1>10, <1>12, <1>13, <2>1, <2>2 DEF Always
<1>15. Judged(e, r, id, cb)
  <2>1. /\ gs[n].deferred \in {e.frames[n].deferred, <<>>}
        /\ \A k \in 1..n - 1 : gs[k] = e.frames[k]
    BY <1>6, <1>8, <1>9
  <2>2. ~h.dead =>
            /\ ~e.dead /\ (cb = "suspend" => ~Replaying(e))
            /\ h.suspendReq = (e.suspendReq \/ cb = "suspend")
            /\ h.wantRelease = (e.wantRelease \/ cb = "release")
    BY <1>3, <1>5 DEF Hooked, Replaying
  <2>3. r.calls = Running(e.calls) /\ r.path = Append(e.path, id)
    BY <1>6, <1>12 DEF cs, p
  <2> QED
    BY <1>7, <1>8, <1>12, <1>14, <2>1, <2>2, <2>3 DEF Judged
<1> QED
  BY <1>11, <1>15 DEF h, d, p

-----------------------------------------------------------------------------
(* The frames and the calls stay in order.                                  *)

\* The call d is the call c, later.
Onward(c, d) ==
    /\ d.at = c.at /\ d.frame = c.frame /\ d.stale = c.stale /\ d.snap = c.snap
    /\ d.active \/ d.todo # <<>> => c.active \/ c.todo # <<>>

\* But for the frame and the call on top, r is e.
Near(e, r) ==
    /\ Len(r.frames) = Len(e.frames) /\ Len(r.calls) = Len(e.calls)
    /\ \A k \in 1..Len(e.frames) - 1 : r.frames[k] = e.frames[k]
    /\ \A k \in 1..Len(e.calls) - 1 : r.calls[k] = e.calls[k]
    /\ e.calls # <<>> => /\ Onward(LastOf(e.calls), LastOf(r.calls))
                         /\ Wholes(LastOf(r.calls).todo)
    /\ LET n == Len(e.frames)
       IN  \/ r.frames[n].deferred \in {e.frames[n].deferred, <<>>}
           \/ NotClosing(e) /\ Wholes(r.frames[n].deferred)

LEMMA WholesNone == Wholes(<<>>)
BY DEF Wholes

LEMMA NearOK ==
    ASSUME NEW e, NEW r, NEW dc, NEW dd, Always(e), Always(r), Stack(e, dc),
           Near(e, r), e.calls # <<>> => dd = dc
    PROVE  Stack(r, dd)
<1> DEFINE n  == Len(e.frames)
           l  == Len(e.calls)
           cs == e.calls
           ds == r.calls
           fs == e.frames
           gs == r.frames
<1>1. /\ n \in Nat /\ n >= 1 /\ l \in Nat /\ Len(gs) = n /\ Len(ds) = l
      /\ fs \in Seq(FrameType) /\ gs \in Seq(FrameType)
      /\ cs \in Seq(CallType) /\ ds \in Seq(CallType)
      /\ cs = <<>> <=> l = 0
  <2>1. fs \in Seq(FrameType) /\ gs \in Seq(FrameType)
        /\ cs \in Seq(CallType) /\ ds \in Seq(CallType)
    BY DEF Always, Effect
  <2>2. cs = <<>> <=> Len(cs) = 0
    BY <2>1, EmptySeq
  <2> QED
    BY <2>1, <2>2, LenProperties DEF Near, Stack
<1>2. \A k \in 1..l - 1 : ds[k] = cs[k]
  BY DEF Near
<1>3. ASSUME NEW k \in 1..l PROVE Onward(cs[k], ds[k])
  <2>1. CASE k = l
    BY <1>1, <2>1 DEF Near, LastOf
  <2>2. CASE k # l
    <3>1. k \in 1..l - 1
      BY <1>1, <2>2
    <3> QED
      BY <1>2, <3>1 DEF Onward
  <2> QED
    BY <2>1, <2>2
<1>4. \A k \in 1..n - 1 : gs[k] = fs[k]
  BY DEF Near
<1>5. \/ gs[n].deferred \in {fs[n].deferred, <<>>}
      \/ NotClosing(e) /\ Wholes(gs[n].deferred)
  BY DEF Near
<1>6. \A k \in 1..n : k = n \/ k \in 1..n - 1
  BY <1>1
<1>7. \A k \in 1..l : cs[k].frame \in 1..n
  BY DEF Always
<1>8. \A k \in 1..n - 1 : fs[k].ph = "phValue"
  BY DEF Stack
<1>9. \A k \in 1..n : Wholes(fs[k].deferred)
  BY DEF Stack
<1>10. \A k \in 1..l : Wholes(cs[k].todo)
  BY DEF Stack
<1>11. \A k \in 1..l : /\ Source(cs, dc, k - 1, Back(cs[k]), FALSE)
                       /\ \A j \in 1..k - 1 : cs[j].frame <= Back(cs[k])
  BY DEF Stack
<1>12. l # 0 => dd = dc /\ Wholes(ds[l].todo)
  BY <1>1 DEF Near, LastOf
<1>13. \A k \in 1..l : Closes(cs[k]) =>
          /\ k < l \/ Serving(cs[k]) => fs[cs[k].frame].deferred = <<>>
          /\ cs[k].stale => cs[k].snap = <<>>
          /\ \A j \in k + 1..l : cs[j].frame = cs[k].frame =>
                  cs[j].todo = <<>> /\ ~cs[j].active
  BY DEF Stack, Closing
<1>14. NotClosing(e) => \A k \in 1..l : Closes(cs[k]) => cs[k].frame # n
  BY DEF NotClosing
<1> HIDE DEF n, l, cs, ds, fs, gs
<1>15. \A k \in 1..n - 1 : gs[k].ph = "phValue"
  BY <1>4, <1>8
<1>16. \A k \in 1..n : Wholes(gs[k].deferred)
  BY <1>4, <1>5, <1>6, <1>9, WholesNone
<1>17. \A k \in 1..l : Wholes(ds[k].todo)
  <2>1. \A k \in 1..l : k = l \/ k \in 1..l - 1
    BY <1>1
  <2>2. \A k \in 1..l : l # 0
    BY <1>1
  <2> QED
    BY <1>2, <1>10, <1>12, <2>1, <2>2
<1>18. ASSUME NEW k \in 1..l
       PROVE  /\ Source(ds, dd, k - 1, Back(ds[k]), FALSE)
              /\ \A j \in 1..k - 1 : ds[j].frame <= Back(ds[k])
  <2>1. Back(ds[k]) = Back(cs[k])
    BY <1>3 DEF Onward, Back
  <2>2. l # 0 /\ \A j \in 1..k - 1 : j \in 1..l - 1
    BY <1>1
  <2>3. \A j \in 1..k - 1 : ds[j].frame <= Back(ds[k])
    BY <1>2, <1>11, <2>1, <2>2
  <2>4. Source(ds, dd, k - 1, Back(ds[k]), FALSE)
    <3>1. CASE k - 1 = 0
      BY <1>11, <1>12, <2>1, <2>2, <3>1 DEF Source
    <3>2. CASE k - 1 # 0
      <4>1. k - 1 \in 1..l - 1
        BY <1>1, <3>2
      <4>2. ds[k - 1] = cs[k - 1]
        BY <1>2, <4>1
      <4> QED
        BY <1>11, <2>1, <3>2, <4>2 DEF Source
    <3> QED
      BY <3>1, <3>2
  <2> QED
    BY <2>3, <2>4
<1>19. ASSUME NEW k \in 1..l, Closes(ds[k])
       PROVE  /\ k < l \/ Serving(ds[k]) => gs[ds[k].frame].deferred = <<>>
              /\ ds[k].stale => ds[k].snap = <<>>
              /\ \A j \in k + 1..l : ds[j].frame = ds[k].frame =>
                      ds[j].todo = <<>> /\ ~ds[j].active
  <2>1. Onward(cs[k], ds[k]) /\ cs[k].frame \in 1..n /\ Closes(cs[k])
    BY <1>3, <1>7, <1>19 DEF Onward, Closes
  <2>2. Serving(ds[k]) => Serving(cs[k])
    BY <2>1 DEF Onward, Serving
  <2>3. fs[cs[k].frame].deferred = <<>> => gs[cs[k].frame].deferred = <<>>
    BY <1>4, <1>5, <1>6, <1>14, <2>1
  <2>4. k < l \/ Serving(ds[k]) => gs[ds[k].frame].deferred = <<>>
    BY <1>13, <2>1, <2>2, <2>3 DEF Onward
  <2>5. ds[k].stale => ds[k].snap = <<>>
    BY <1>13, <2>1 DEF Onward
  <2>6. ASSUME NEW j \in k + 1..l, ds[j].frame = ds[k].frame
        PROVE  ds[j].todo = <<>> /\ ~ds[j].active
    <3>1. j \in 1..l
      BY <1>1
    <3>2. Onward(cs[j], ds[j])
      BY <1>3, <3>1
    <3>3. cs[j].todo = <<>> /\ ~cs[j].active
      BY <1>13, <2>1, <2>6, <3>2 DEF Onward
    <3> QED
      BY <3>2, <3>3 DEF Onward
  <2> QED
    BY <2>4, <2>5, <2>6
<1>20. Closing(r)
  BY <1>1, <1>19 DEF Closing, ds, gs
<1> QED
  BY <1>1, <1>15, <1>16, <1>17, <1>18, <1>20 DEF Stack, ds, gs

\* r is e with the call c, for the frame on top, just begun.
Pushed(e, r, c) ==
    LET n == Len(e.frames)
    IN  /\ c.frame = n /\ ~c.active
        /\ c.todo \in {<<>>, e.frames[n].deferred}
        /\ c.todo # <<>> \/ c.at = "close" \/ c.stale => r.frames[n].deferred = <<>>
        /\ c.stale => c.snap = <<>>
        /\ r.frames[n].deferred \in {e.frames[n].deferred, <<>>}
        /\ Len(r.frames) = n
        /\ \A k \in 1..n - 1 : r.frames[k] = e.frames[k]
        /\ r.calls = Append(e.calls, c)

LEMMA PushOK ==
    ASSUME NEW e, NEW r, NEW c \in CallType, NEW dc, Always(e), Always(r),
           Stack(e, dc), Pushed(e, r, c),
           Source(e.calls, dc, Len(e.calls), Back(c), FALSE),
           \A j \in 1..Len(e.calls) : e.calls[j].frame <= Back(c)
    PROVE  Stack(r, dc) /\ Waits(r) /\ LastOf(r.calls) = c
<1> DEFINE n  == Len(e.frames)
           l  == Len(e.calls)
           cs == e.calls
           ds == r.calls
           fs == e.frames
           gs == r.frames
<1>1. /\ n \in Nat /\ n >= 1 /\ Len(gs) = n
      /\ fs \in Seq(FrameType) /\ gs \in Seq(FrameType) /\ cs \in Seq(CallType)
  BY LenProperties DEF Always, Effect, Pushed, Stack
<1>2. /\ l \in Nat /\ Len(ds) = l + 1 /\ ds # <<>> /\ ds[l + 1] = c
      /\ LastOf(ds) = c /\ \A k \in 1..l : ds[k] = cs[k]
  BY <1>1, AppendOK DEF Pushed
<1>3. /\ \A k \in 1..n - 1 : gs[k] = fs[k]
      /\ gs[n].deferred \in {fs[n].deferred, <<>>}
      /\ c.frame = n /\ ~c.active /\ c.todo \in {<<>>, fs[n].deferred}
      /\ c.todo # <<>> \/ c.at = "close" \/ c.stale => gs[n].deferred = <<>>
      /\ c.stale => c.snap = <<>>
  BY DEF Pushed
<1>4. \A k \in 1..n : k = n \/ k \in 1..n - 1
  BY <1>1
<1>5. \A k \in 1..l + 1 : k = l + 1 \/ k \in 1..l
  BY <1>2
<1>6. \A k \in 1..l : cs[k].frame \in 1..n
  BY DEF Always
<1>7. \A k \in 1..n - 1 : fs[k].ph = "phValue"
  BY DEF Stack
<1>8. \A k \in 1..n : Wholes(fs[k].deferred)
  BY DEF Stack
<1>9. \A k \in 1..l : Wholes(cs[k].todo)
  BY DEF Stack
<1>10. \A k \in 1..l : /\ Source(cs, dc, k - 1, Back(cs[k]), FALSE)
                       /\ \A j \in 1..k - 1 : cs[j].frame <= Back(cs[k])
  BY DEF Stack
<1>11. \A k \in 1..l : Closes(cs[k]) =>
          /\ k < l \/ Serving(cs[k]) => fs[cs[k].frame].deferred = <<>>
          /\ cs[k].stale => cs[k].snap = <<>>
          /\ \A j \in k + 1..l : cs[j].frame = cs[k].frame =>
                  cs[j].todo = <<>> /\ ~cs[j].active
  BY DEF Stack, Closing
<1>12. Source(cs, dc, l, Back(c), FALSE) /\ \A j \in 1..l : cs[j].frame <= Back(c)
  OBVIOUS
<1> HIDE DEF n, l, cs, ds, fs, gs
<1>13. \A k \in 1..n - 1 : gs[k].ph = "phValue"
  BY <1>3, <1>7
<1>14. \A k \in 1..n : Wholes(gs[k].deferred)
  BY <1>3, <1>4, <1>8, WholesNone
<1>15. \A k \in 1..l + 1 : Wholes(ds[k].todo)
  <2>1. Wholes(c.todo)
    <3>1. n \in 1..n
      BY <1>1
    <3> QED
      BY <1>3, <1>8, <3>1, WholesNone
  <2> QED
    BY <1>2, <1>5, <1>9, <2>1
<1>16. ASSUME NEW k \in 1..l + 1
       PROVE  /\ Source(ds, dc, k - 1, Back(ds[k]), FALSE)
              /\ \A j \in 1..k - 1 : ds[j].frame <= Back(ds[k])
  <2>1. /\ \A j \in 1..k - 1 : j \in 1..l
        /\ k - 1 # 0 => k - 1 \in 1..l
    BY <1>2
  <2>2. CASE k = l + 1
    <3>1. ds[k] = c /\ k - 1 = l
      BY <1>2, <2>2
    <3>2. Source(ds, dc, k - 1, Back(c), FALSE)
      BY <1>2, <1>12, <2>1, <3>1 DEF Source
    <3> QED
      BY <1>2, <1>12, <2>1, <3>1, <3>2
  <2>3. CASE k # l + 1
    <3>1. k \in 1..l /\ ds[k] = cs[k]
      BY <1>2, <1>5, <2>3
    <3>2. Source(ds, dc, k - 1, Back(cs[k]), FALSE)
      BY <1>2, <1>10, <2>1, <3>1 DEF Source
    <3> QED
      BY <1>2, <1>10, <2>1, <3>1, <3>2
  <2> QED
    BY <2>2, <2>3
<1>17. \A k \in 1..l : Closes(cs[k]) => fs[cs[k].frame].deferred = <<>>
  <2>1. l # 0 => cs[l].active
    BY <1>12 DEF Source
  <2>2. \A k \in 1..l : k < l \/ Serving(cs[k])
    <3>1. \A k \in 1..l : k < l \/ (k = l /\ l # 0)
      BY <1>2
    <3> QED
      BY <2>1, <3>1 DEF Serving
  <2> QED
    BY <1>11, <2>2
<1>18. ASSUME NEW k \in 1..l + 1, Closes(ds[k])
       PROVE  /\ k < l + 1 \/ Serving(ds[k]) => gs[ds[k].frame].deferred = <<>>
              /\ ds[k].stale => ds[k].snap = <<>>
              /\ \A j \in k + 1..l + 1 : ds[j].frame = ds[k].frame =>
                      ds[j].todo = <<>> /\ ~ds[j].active
  <2>1. CASE k = l + 1
    <3>1. ds[k] = c /\ k + 1..l + 1 = {}
      BY <1>2, <2>1
    <3> QED
      BY <1>3, <2>1, <3>1, <1>2 DEF Serving
  <2>2. CASE k # l + 1
    <3>1. k \in 1..l /\ ds[k] = cs[k]
      BY <1>2, <1>5, <2>2
    <3>2. fs[cs[k].frame].deferred = <<>>
      BY <1>17, <1>18, <3>1
    <3>3. gs[cs[k].frame].deferred = <<>>
      BY <1>3, <1>4, <1>6, <3>1, <3>2
    <3>4. ASSUME NEW j \in k + 1..l + 1, ds[j].frame = ds[k].frame
          PROVE  ds[j].todo = <<>> /\ ~ds[j].active
      <4>1. CASE j = l + 1
        <5>1. ds[j] = c /\ cs[k].frame = n
          BY <1>2, <1>3, <3>1, <3>4, <4>1
        <5> QED
          BY <1>3, <3>2, <5>1
      <4>2. CASE j # l + 1
        <5>1. j \in k + 1..l /\ j \in 1..l /\ ds[j] = cs[j]
          BY <1>2, <3>1, <4>2
        <5> QED
          BY <1>11, <1>18, <3>1, <3>4, <5>1
      <4> QED
        BY <4>1, <4>2
    <3> QED
      BY <1>11, <1>18, <3>1, <3>3, <3>4
  <2> QED
    BY <2>1, <2>2
<1>19. Closing(r)
  BY <1>2, <1>18 DEF Closing, ds, gs
<1>20. Stack(r, dc)
  BY <1>1, <1>2, <1>13, <1>14, <1>15, <1>16, <1>19 DEF Stack, ds, gs
<1> QED
  BY <1>2, <1>3, <1>20 DEF Waits, ds

\* e without the call on top.
Popped(e, r) ==
    /\ Always(r) /\ r.frames = e.frames /\ r.path = e.path /\ r.depth = e.depth
    /\ r.wantRelease = e.wantRelease /\ r.releaseAt = e.releaseAt
    /\ r.suspendReq = e.suspendReq /\ r.rootDone = e.rootDone
    /\ r.dead = e.dead /\ r.code = e.code
    /\ Len(r.calls) = Len(e.calls) - 1
    /\ \A k \in 1..Len(e.calls) - 1 : r.calls[k] = e.calls[k]

LEMMA PoppedOK ==
    ASSUME NEW e, Always(e), e.calls # <<>>
    PROVE  Popped(e, [e EXCEPT !.calls = Front(@)])
<1> DEFINE ds == Front(e.calls)
           r  == [e EXCEPT !.calls = ds]
<1>1. e \in Effect /\ e.calls \in Seq(CallType)
  BY DEF Always, Effect
<1>2. /\ Len(e.calls) \in Nat \ {0} /\ ds \in Seq(CallType)
      /\ Len(ds) = Len(e.calls) - 1
      /\ \A k \in 1..Len(e.calls) - 1 : ds[k] = e.calls[k]
  BY <1>1, FrontOK
<1>3. [e EXCEPT !.calls = Front(@)] = r
  BY <1>1 DEF Effect
<1> HIDE DEF ds
<1>4. /\ r \in Effect /\ r.frames = e.frames /\ r.path = e.path /\ r.depth = e.depth
      /\ r.wantRelease = e.wantRelease /\ r.releaseAt = e.releaseAt
      /\ r.suspendReq = e.suspendReq /\ r.rootDone = e.rootDone
      /\ r.dead = e.dead /\ r.code = e.code /\ r.calls = ds
      /\ r.deferredBytes = e.deferredBytes
  BY <1>1, <1>2 DEF Effect
<1> HIDE DEF r
<1>5. \A k \in 1..Len(ds) : ds[k].frame \in 1..Len(e.frames)
  <2>1. \A k \in 1..Len(ds) : k \in 1..Len(e.calls) - 1 /\ k \in 1..Len(e.calls)
    BY <1>2
  <2> QED
    BY <1>2, <2>1 DEF Always
<1>6. Always(r)
  BY <1>4, <1>5 DEF Always
<1> QED
  BY <1>2, <1>3, <1>4, <1>6 DEF Popped

\* What the call on top interrupted goes on where it was.
LEMMA PopOK ==
    ASSUME NEW e, NEW r, NEW dc, Always(e), Stack(e, dc), e.calls # <<>>,
           Popped(e, r)
    PROVE  /\ Stack(r, dc) /\ ~Waits(r)
           /\ Source(r.calls, dc, Len(r.calls), Back(LastOf(e.calls)), FALSE)
           /\ \A j \in 1..Len(r.calls) : r.calls[j].frame <= Back(LastOf(e.calls))
<1> DEFINE l  == Len(e.calls)
           m  == Len(r.calls)
           cs == e.calls
           ds == r.calls
<1>1. /\ l \in Nat /\ m \in Nat /\ l = m + 1 /\ LastOf(cs) = cs[l] /\ l \in 1..l
      /\ r.frames = e.frames /\ ds \in Seq(CallType)
      /\ \A k \in 1..m : ds[k] = cs[k] /\ k \in 1..l
  <2>1. cs \in Seq(CallType) /\ ds \in Seq(CallType)
    BY DEF Always, Effect, Popped
  <2>2. l \in Nat /\ l # 0
    BY <2>1, EmptySeq
  <2> QED
    BY <2>1, <2>2 DEF Popped, LastOf
<1>2. \A k \in 1..l : /\ Source(cs, dc, k - 1, Back(cs[k]), FALSE)
                      /\ \A j \in 1..k - 1 : cs[j].frame <= Back(cs[k])
                      /\ Wholes(cs[k].todo)
  BY DEF Stack
<1>3. \A k \in 1..l : Closes(cs[k]) =>
          /\ k < l \/ Serving(cs[k]) => e.frames[cs[k].frame].deferred = <<>>
          /\ cs[k].stale => cs[k].snap = <<>>
          /\ \A j \in k + 1..l : cs[j].frame = cs[k].frame =>
                  cs[j].todo = <<>> /\ ~cs[j].active
  BY DEF Stack, Closing
<1> HIDE DEF l, m, cs, ds
<1>4. l - 1 = m
  BY <1>1
<1>5. Source(ds, dc, m, Back(cs[l]), FALSE)
  <2>1. Source(cs, dc, m, Back(cs[l]), FALSE)
    BY <1>1, <1>2, <1>4
  <2>2. m # 0 => m \in 1..m
    BY <1>1
  <2> QED
    BY <1>1, <2>1, <2>2 DEF Source
<1>6. \A j \in 1..m : ds[j].frame <= Back(cs[l])
  BY <1>1, <1>2, <1>4
<1>7. ds # <<>> => LastOf(ds).active
  <2>1. ds # <<>> => m # 0
    BY <1>1, EmptySeq DEF m, ds
  <2> QED
    BY <1>5, <2>1 DEF Source, LastOf, m, ds
<1>8. \A k \in 1..m : /\ Source(ds, dc, k - 1, Back(ds[k]), FALSE)
                      /\ \A j \in 1..k - 1 : ds[j].frame <= Back(ds[k])
                      /\ Wholes(ds[k].todo)
  <2> TAKE k \in 1..m
  <2>1. k \in 1..l /\ ds[k] = cs[k]
    BY <1>1
  <2>2. \A j \in 1..k - 1 : j \in 1..m
    BY <1>1
  <2>3. k - 1 # 0 => k - 1 \in 1..m
    BY <1>1
  <2>4. Source(ds, dc, k - 1, Back(ds[k]), FALSE)
    <3>1. Source(cs, dc, k - 1, Back(cs[k]), FALSE)
      BY <1>2, <2>1
    <3> QED
      BY <1>1, <2>1, <2>3, <3>1 DEF Source
  <2> QED
    BY <1>1, <1>2, <2>1, <2>2, <2>4
<1>9. Closing(r)
  <2>1. ASSUME NEW k \in 1..m, Closes(ds[k])
        PROVE  /\ e.frames[ds[k].frame].deferred = <<>>
               /\ ds[k].stale => ds[k].snap = <<>>
               /\ \A j \in k + 1..m : ds[j].frame = ds[k].frame =>
                        ds[j].todo = <<>> /\ ~ds[j].active
    <3>1. k \in 1..l /\ ds[k] = cs[k] /\ k < l
          /\ \A j \in k + 1..m : j \in k + 1..l /\ ds[j] = cs[j]
      BY <1>1
    <3> QED
      BY <1>3, <2>1, <3>1
  <2> QED
    BY <1>1, <2>1 DEF Closing, m, ds
<1>10. Stack(r, dc)
  <2>1. /\ Len(r.frames) >= 1
        /\ \A k \in 1..Len(r.frames) - 1 : r.frames[k].ph = "phValue"
        /\ \A k \in 1..Len(r.frames) : Wholes(r.frames[k].deferred)
    BY <1>1 DEF Stack
  <2> QED
    BY <1>8, <1>9, <2>1 DEF Stack, m, ds
<1> QED
  BY <1>1, <1>5, <1>6, <1>7, <1>10 DEF Waits, m, cs, ds

LEMMA SizeNone == SizeOf(<<>>) = 0
<1> DEFINE none == <<>>
<1>1. none \in Seq(Pairs) /\ Len(none) = 0
  BY EmptySeq
<1> HIDE DEF none
<1>2. /\ SizeOf(none) \in Nat
      /\ Adds([j \in 1..Len(none) |-> Size(none[j])], Len(none), SizeOf(none))
  BY <1>1, SizeAdds
<1>3. Adds([j \in 1..Len(none) |-> Size(none[j])], 0, SizeOf(none))
  BY <1>1, <1>2
<1>4. SizeOf(none) = 0
  BY <1>3, Zenon DEF Adds
<1> QED
  BY <1>4 DEF none

\* The frame on top, which holds nothing, is gone.
Gone(e, r) ==
    /\ Always(r) /\ r.path = e.path /\ r.depth = e.depth - 1 /\ r.calls = e.calls
    /\ r.wantRelease = e.wantRelease /\ r.releaseAt = e.releaseAt
    /\ r.suspendReq = e.suspendReq /\ r.rootDone = e.rootDone
    /\ r.dead = e.dead /\ r.code = e.code
    /\ Len(r.frames) = Len(e.frames) - 1
    /\ \A k \in 1..Len(e.frames) - 1 : r.frames[k] = e.frames[k]

LEMMA GoneOK ==
    ASSUME NEW e, Always(e), Len(e.frames) >= 1, e.depth >= 1,
           e.frames[Len(e.frames)].deferred = <<>>,
           \A j \in 1..Len(e.calls) : e.calls[j].frame <= Len(e.frames) - 1
    PROVE  Gone(e, [e EXCEPT !.frames = Front(@), !.depth = @ - 1,
                             !.asked = @ \ {Len(e.frames)}])
<1> DEFINE gs == Front(e.frames)
           d  == e.depth - 1
           x  == e.asked \ {Len(e.frames)}
           r  == [e EXCEPT !.frames = gs, !.depth = d, !.asked = x]
<1>1. e \in Effect /\ e.frames \in Seq(FrameType) /\ e.depth \in Nat
      /\ e.asked \in SUBSET Nat
  BY DEF Always, Effect
<1>2. /\ Len(e.frames) \in Nat \ {0} /\ e.frames # <<>>
  BY <1>1, LenProperties, EmptySeq
<1>3. /\ gs \in Seq(FrameType) /\ Len(gs) = Len(e.frames) - 1
      /\ \A k \in 1..Len(e.frames) - 1 : gs[k] = e.frames[k]
  BY <1>1, <1>2, FrontOK
<1>4. [e EXCEPT !.frames = Front(@), !.depth = @ - 1, !.asked = @ \ {Len(e.frames)}]
          = r
  BY <1>1 DEF Effect
<1>5. d \in Nat /\ x \in SUBSET Nat
  BY <1>1
<1>6. Total(gs) = Total(e.frames)
  <2> DEFINE fs == e.frames
             m  == Len(fs) - 1
  <2>1. fs \in Seq(FrameType) /\ m \in Nat /\ Len(fs) = m + 1 /\ Len(gs) = m
        /\ fs[m + 1].deferred = <<>>
        /\ \A k \in 1..m : fs[k].deferred = gs[k].deferred
    BY <1>1, <1>2, <1>3
  <2> HIDE DEF fs, m, gs
  <2>2. /\ Total(fs) = Total(gs) + SizeOf(fs[m + 1].deferred)
        /\ Total(gs) \in Nat
    BY <1>3, <2>1, TotalTop
  <2>3. SizeOf(fs[m + 1].deferred) = 0
    BY <2>1, SizeNone
  <2> QED
    BY <2>2, <2>3 DEF fs
<1> HIDE DEF gs, d, x
<1>7. /\ r \in Effect /\ r.frames = gs /\ r.path = e.path /\ r.depth = d
      /\ r.wantRelease = e.wantRelease /\ r.releaseAt = e.releaseAt
      /\ r.suspendReq = e.suspendReq /\ r.rootDone = e.rootDone
      /\ r.dead = e.dead /\ r.code = e.code /\ r.calls = e.calls
      /\ r.deferredBytes = e.deferredBytes
  BY <1>1, <1>3, <1>5 DEF Effect
<1> HIDE DEF r
<1>8. Always(r)
  <2>1. \A k \in 1..Len(e.calls) : e.calls[k].frame \in 1..Len(gs)
    BY <1>2, <1>3 DEF Always
  <2> QED
    BY <1>6, <1>7, <2>1 DEF Always
<1> QED
  BY <1>3, <1>4, <1>7, <1>8 DEF Gone, d

LEMMA GoneStack ==
    ASSUME NEW e, NEW r, NEW dc, Always(e), Stack(e, dc), Len(e.frames) >= 2,
           \A j \in 1..Len(e.calls) : e.calls[j].frame <= Len(e.frames) - 1,
           Gone(e, r)
    PROVE  Stack(r, dc) /\ Top(r).ph = "phValue"
<1> DEFINE n == Len(e.frames)
<1>1. n \in Nat /\ Len(r.frames) = n - 1 /\ r.calls = e.calls
      /\ \A k \in 1..n - 1 : r.frames[k] = e.frames[k] /\ k \in 1..n
  <2>1. n \in Nat
    BY LenProperties DEF Always, Effect
  <2> QED
    BY <2>1 DEF Gone
<1>2. /\ n - 1 \in 1..n - 1 /\ \A k \in 1..n - 1 - 1 : k \in 1..n - 1
      /\ n - 1 >= 1
  BY <1>1
<1>3. /\ \A k \in 1..n - 1 : e.frames[k].ph = "phValue"
      /\ \A k \in 1..n : Wholes(e.frames[k].deferred)
      /\ \A k \in 1..Len(e.calls) : Wholes(e.calls[k].todo)
      /\ \A k \in 1..Len(e.calls) :
            /\ Source(e.calls, dc, k - 1, Back(e.calls[k]), FALSE)
            /\ \A j \in 1..k - 1 : e.calls[j].frame <= Back(e.calls[k])
  BY DEF Stack
<1>4. \A k \in 1..Len(e.calls) : e.calls[k].frame \in 1..n - 1
  BY <1>1 DEF Always
<1>5. Closing(r)
  BY <1>1, <1>4, ZenonT(60) DEF Stack, Closing
<1> HIDE DEF n
<1>6. /\ \A k \in 1..n - 1 : r.frames[k].ph = "phValue"
      /\ \A k \in 1..n - 1 : Wholes(r.frames[k].deferred)
  BY <1>1, <1>3
<1>7. \A k \in 1..n - 1 - 1 : r.frames[k].ph = "phValue"
  BY <1>2, <1>6
<1>8. Stack(r, dc)
  BY <1>1, <1>2, <1>3, <1>5, <1>6, <1>7 DEF Stack
<1> QED
  BY <1>1, <1>2, <1>6, <1>8 DEF Top, LastOf

\* A frame of its own for a container.
Entered(e, r) ==
    /\ Always(r) /\ r.path = e.path /\ r.depth = e.depth + 1
    /\ r.wantRelease = e.wantRelease /\ r.suspendReq = e.suspendReq
    /\ r.rootDone = e.rootDone /\ r.dead = e.dead /\ r.code = e.code
    /\ Len(r.frames) = Len(e.frames) + 1
    /\ \A k \in 1..Len(e.frames) : r.frames[k] = e.frames[k]
    /\ r.frames[Len(e.frames) + 1] = NewFrame
    /\ Len(r.calls) = Len(e.calls)
    /\ \A k \in 1..Len(e.calls) :
        LET c == e.calls[k]
            d == r.calls[k]
        IN  /\ d.at = c.at /\ d.frame = c.frame /\ d.todo = c.todo
            /\ d.raw = c.raw /\ d.active = c.active
            /\ \/ d.stale = c.stale /\ d.snap = c.snap
               \/ d.snap = e.frames[c.frame].deferred

LEMMA EnteredOK ==
    ASSUME NEW e, Always(e)
    PROVE  Entered(e, [pushFrame(e) EXCEPT !.depth = @ + 1])
<1> DEFINE moves == Len(e.frames) = frameCap
           Seen(c) == IF moves /\ c.at # "value" /\ ~c.stale
                      THEN [c EXCEPT !.stale = TRUE,
                                     !.snap = e.frames[c.frame].deferred]
                      ELSE c
           cs == e.calls
           ds == [k \in 1..Len(cs) |-> Seen(cs[k])]
           gs == Append(e.frames, NewFrame)
           d  == e.depth + 1
           r  == [e EXCEPT !.frames = gs, !.calls = ds, !.depth = d]
<1>1. e \in Effect /\ e.frames \in Seq(FrameType) /\ cs \in Seq(CallType)
      /\ e.depth \in Nat /\ Len(e.frames) \in Nat /\ Len(cs) \in Nat
  BY LenProperties DEF Always, Effect
<1>2. NewFrame \in FrameType /\ NewFrame.deferred = <<>>
  <2> DEFINE none == <<>>
  <2>1. none \in Seq(Pairs)
    BY EmptySeq
  <2> HIDE DEF none
  <2>2. [ph |-> "phKey", deferred |-> none] \in FrameType
    BY <2>1 DEF FrameType
  <2> QED
    BY <2>2 DEF NewFrame, none
<1>3. /\ gs \in Seq(FrameType) /\ Len(gs) = Len(e.frames) + 1
      /\ gs[Len(e.frames) + 1] = NewFrame
      /\ \A k \in 1..Len(e.frames) : gs[k] = e.frames[k]
  BY <1>1, <1>2, AppendOK
<1>4. [pushFrame(e) EXCEPT !.depth = @ + 1] = r
  <2>1. DOMAIN cs = 1..Len(cs)
    BY <1>1
  <2> QED
    BY <1>1, <2>1 DEF pushFrame, Effect
<1>5. \A k \in 1..Len(cs) : cs[k] \in CallType /\ cs[k].frame \in 1..Len(e.frames)
  BY <1>1 DEF Always
<1>6. \A k \in 1..Len(e.frames) : e.frames[k].deferred \in Seq(Pairs)
  <2>1. \A k \in 1..Len(e.frames) : e.frames[k] \in FrameType
    BY <1>1
  <2> QED
    BY <2>1 DEF FrameType
<1>7. ASSUME NEW k \in 1..Len(cs)
      PROVE  LET c == cs[k]
                 b == Seen(c)
             IN  /\ b \in CallType
                 /\ b.at = c.at /\ b.frame = c.frame /\ b.todo = c.todo
                 /\ b.raw = c.raw /\ b.active = c.active
                 /\ \/ b.stale = c.stale /\ b.snap = c.snap
                    \/ b.snap = e.frames[c.frame].deferred
  <2> DEFINE c == cs[k]
             w == e.frames[c.frame].deferred
  <2>1. c \in CallType /\ w \in Seq(Pairs)
    BY <1>5, <1>6
  <2>2. \/ Seen(c) = c
        \/ Seen(c) = [c EXCEPT !.stale = TRUE, !.snap = w]
    OBVIOUS
  <2> HIDE DEF c, w
  <2>3. LET b == [c EXCEPT !.stale = TRUE, !.snap = w]
        IN  /\ b \in CallType
            /\ b.at = c.at /\ b.frame = c.frame /\ b.todo = c.todo
            /\ b.raw = c.raw /\ b.active = c.active /\ b.snap = w
    BY <2>1 DEF CallType
  <2> HIDE DEF Seen
  <2> QED
    BY <2>1, <2>2, <2>3 DEF c, w
<1>8. /\ Len(ds) = Len(cs) /\ ds \in Seq(CallType)
      /\ \A k \in 1..Len(cs) : ds[k] = Seen(cs[k])
  <2>1. \A k \in 1..Len(cs) : Seen(cs[k]) \in CallType
    BY <1>7
  <2> HIDE DEF Seen
  <2> QED
    BY <1>1, <2>1
<1>9. d \in Nat
  BY <1>1
<1> HIDE DEF gs, ds, d, Seen
<1>10. /\ r \in Effect /\ r.frames = gs /\ r.path = e.path /\ r.depth = d
       /\ r.wantRelease = e.wantRelease /\ r.releaseAt = e.releaseAt
       /\ r.suspendReq = e.suspendReq /\ r.rootDone = e.rootDone
       /\ r.dead = e.dead /\ r.code = e.code /\ r.calls = ds
       /\ r.deferredBytes = e.deferredBytes
  BY <1>1, <1>3, <1>8, <1>9 DEF Effect
<1> HIDE DEF r
<1>11. Total(gs) = Total(e.frames)
  <2> DEFINE fs == e.frames
             m  == Len(fs)
  <2>1. fs \in Seq(FrameType) /\ m \in Nat /\ Len(fs) = m /\ Len(gs) = m + 1
        /\ gs[m + 1].deferred = <<>>
        /\ \A k \in 1..m : gs[k].deferred = fs[k].deferred
    BY <1>1, <1>2, <1>3
  <2> HIDE DEF fs, m
  <2>2. /\ Total(gs) = Total(fs) + SizeOf(gs[m + 1].deferred)
        /\ Total(fs) \in Nat
    BY <1>3, <2>1, TotalTop
  <2>3. SizeOf(gs[m + 1].deferred) = 0
    BY <2>1, SizeNone
  <2> QED
    BY <2>2, <2>3 DEF fs
<1>12. Always(r)
  <2>1. \A k \in 1..Len(ds) : ds[k].frame \in 1..Len(gs)
    <3> SUFFICES ASSUME NEW k \in 1..Len(ds) PROVE ds[k].frame \in 1..Len(gs)
      OBVIOUS
    <3>1. k \in 1..Len(cs) /\ ds[k] = Seen(cs[k])
      BY <1>8
    <3>2. ds[k].frame = cs[k].frame
      BY <1>7, <3>1
    <3>3. cs[k].frame \in 1..Len(e.frames)
      BY <1>5, <3>1
    <3> QED
      BY <1>1, <1>3, <3>2, <3>3
  <2> QED
    BY <1>10, <1>11, <2>1 DEF Always
<1>13. Entered(e, r)
  BY <1>3, <1>7, <1>8, <1>10, <1>12 DEF Entered, cs, d
<1> QED
  BY <1>4, <1>13

LEMMA EnterStack ==
    ASSUME NEW e, NEW r, NEW dc, Always(e), Stack(e, dc), ~Waits(e),
           Top(e).ph = "phValue", Entered(e, r)
    PROVE  /\ Stack(r, dc) /\ ~Waits(r) /\ Top(r).ph = "phKey"
           /\ \A v : \A d : Source(e.calls, dc, Len(e.calls), d, v) =>
                            Source(r.calls, dc, Len(r.calls), d, v)
<1> DEFINE n  == Len(e.frames)
           l  == Len(e.calls)
           cs == e.calls
           ds == r.calls
           fs == e.frames
           gs == r.frames
<1>1. /\ n \in Nat /\ n >= 1 /\ Len(gs) = n + 1 /\ l \in Nat /\ Len(ds) = l
      /\ cs \in Seq(CallType) /\ ds \in Seq(CallType)
  BY LenProperties DEF Always, Effect, Entered, Stack
<1>2. /\ \A k \in 1..n : gs[k] = fs[k]
      /\ gs[n + 1] = NewFrame
      /\ \A k \in 1..l :
            /\ ds[k].at = cs[k].at /\ ds[k].frame = cs[k].frame
            /\ ds[k].todo = cs[k].todo
            /\ ds[k].raw = cs[k].raw /\ ds[k].active = cs[k].active
            /\ \/ ds[k].stale = cs[k].stale /\ ds[k].snap = cs[k].snap
               \/ ds[k].snap = fs[cs[k].frame].deferred
  BY DEF Entered
<1>3. \A k \in 1..n + 1 : k = n + 1 \/ k \in 1..n
  BY <1>1
<1>4. \A k \in 1..l : cs[k].frame \in 1..n
  BY DEF Always
<1>5. \A k \in 1..n : fs[k].ph = "phValue" /\ Wholes(fs[k].deferred)
  <2>1. \A k \in 1..n : k = n \/ k \in 1..n - 1
    BY <1>1
  <2> QED
    BY <2>1 DEF Stack, Top, LastOf
<1>6. \A k \in 1..l : /\ Source(cs, dc, k - 1, Back(cs[k]), FALSE)
                      /\ \A j \in 1..k - 1 : cs[j].frame <= Back(cs[k])
                      /\ Wholes(cs[k].todo)
  BY DEF Stack
<1>7. \A k \in 1..l : Closes(cs[k]) =>
          /\ k < l \/ Serving(cs[k]) => fs[cs[k].frame].deferred = <<>>
          /\ cs[k].stale => cs[k].snap = <<>>
          /\ \A j \in k + 1..l : cs[j].frame = cs[k].frame =>
                  cs[j].todo = <<>> /\ ~cs[j].active
  BY DEF Stack, Closing
<1>8. cs # <<>> => cs[l].active
  BY DEF Waits, LastOf
<1>9. cs = <<>> <=> l = 0
  BY <1>1, EmptySeq
<1>10. ds = <<>> <=> l = 0
  BY <1>1, EmptySeq
<1> HIDE DEF n, l, cs, ds, fs, gs
<1>11. \A k \in 1..n : gs[k].ph = "phValue"
  BY <1>2, <1>5
<1>12. \A k \in 1..n + 1 : Wholes(gs[k].deferred)
  <2>1. NewFrame.deferred = <<>>
    BY DEF NewFrame
  <2> QED
    BY <1>2, <1>3, <1>5, <2>1, WholesNone
<1>13. ASSUME NEW k \in 0..l, NEW d, NEW v, Source(cs, dc, k, d, v)
       PROVE  Source(ds, dc, k, d, v)
  <2>1. k # 0 => k \in 1..l
    BY <1>1
  <2> QED
    BY <1>2, <1>13, <2>1 DEF Source
<1>14. ASSUME NEW k \in 1..l
       PROVE  /\ Source(ds, dc, k - 1, Back(ds[k]), FALSE)
              /\ \A j \in 1..k - 1 : ds[j].frame <= Back(ds[k])
              /\ Wholes(ds[k].todo)
  <2>1. Back(ds[k]) = Back(cs[k]) /\ k - 1 \in 0..l /\ \A j \in 1..k - 1 : j \in 1..l
    BY <1>1, <1>2 DEF Back
  <2> QED
    BY <1>2, <1>6, <1>13, <2>1
<1>15. \A k \in 1..l : Closes(cs[k]) => fs[cs[k].frame].deferred = <<>>
  <2>1. \A k \in 1..l : k < l \/ (k = l /\ l # 0)
    BY <1>1
  <2>2. \A k \in 1..l : k < l \/ Serving(cs[k])
    BY <1>8, <1>9, <2>1 DEF Serving
  <2> QED
    BY <1>7, <2>2
<1>16. ASSUME NEW k \in 1..l, Closes(ds[k])
       PROVE  /\ gs[ds[k].frame].deferred = <<>>
              /\ ds[k].stale => ds[k].snap = <<>>
              /\ \A j \in k + 1..l : ds[j].frame = ds[k].frame =>
                      ds[j].todo = <<>> /\ ~ds[j].active
  <2>1. Closes(cs[k])
    BY <1>2, <1>16 DEF Closes
  <2>2. fs[cs[k].frame].deferred = <<>>
    BY <1>15, <2>1
  <2>3. \A j \in k + 1..l : j \in 1..l
    BY <1>1
  <2> QED
    BY <1>2, <1>4, <1>7, <2>1, <2>2, <2>3
<1>17. Closing(r)
  BY <1>1, <1>16 DEF Closing, ds, gs
<1>18. Stack(r, dc)
  <2> DEFINE m == n + 1
  <2>1. m - 1 = n /\ m >= 1 /\ Len(gs) = m
    BY <1>1
  <2>2. \A k \in 1..m : Wholes(gs[k].deferred)
    BY <1>12
  <2> HIDE DEF m
  <2>3. \A k \in 1..m - 1 : gs[k].ph = "phValue"
    BY <1>11, <2>1
  <2> QED
    BY <1>1, <1>14, <1>17, <2>1, <2>2, <2>3 DEF Stack, ds, gs
<1>19. ~Waits(r)
  <2>1. l # 0 => l \in 1..l
    BY <1>1
  <2> QED
    BY <1>1, <1>2, <1>8, <1>9, <1>10, <2>1 DEF Waits, LastOf, ds
<1>20. Top(r).ph = "phKey"
  BY <1>1, <1>2 DEF Top, LastOf, NewFrame, gs
<1>21. l \in 0..l
  BY <1>1
<1> QED
  BY <1>1, <1>13, <1>18, <1>19, <1>20, <1>21 DEF ds, cs, l

-----------------------------------------------------------------------------
(* A token is read.                                                         *)

Turn(tok) == IF tok = Open THEN 1 ELSE IF tok = Close THEN -1 ELSE 0

LEMMA TokensApart ==
    /\ Ids \subseteq Nat \ {0} /\ Ids \subseteq Tokens
    /\ \A tok \in Tokens : tok \in Ids <=> tok \notin {Simple, Open, Close}
    /\ Simple # Open /\ Simple # Close /\ Open # Close
    /\ {Simple, Open, Close} \subseteq Tokens
BY DeferralAssumption DEF Ids, Tokens, Simple, Open, Close

LEMMA ExtendedOK ==
    ASSUME doc \in DocType, NEW tok \in Tokens, Grows(tok), NEW d \in Nat \ {0},
           NEW v \in BOOLEAN, Source(<<>>, doc, 0, d, v)
    PROVE  /\ v = (tok \in {Simple, Open})
           /\ Extended(tok) \in DocType
           /\ Source(<<>>, Extended(tok), 0, d + Turn(tok), tok \in Ids)
<1> DEFINE x == Extended(tok)
           o == x.open
<1>1. /\ doc.open \in Seq(Ids) /\ doc.value \in 0..MaxKeys
      /\ doc.last \in 0..MaxKeys /\ doc.text \in [Ids -> Seq(Tokens)]
      /\ Len(doc.open) \in Nat
  BY LenProperties DEF DocType
<1>2. v = (doc.value # 0) /\ Len(doc.open) = d - 1
  BY DEF Source
<1>3. v = (tok \in {Simple, Open})
  <2>1. tok \in {Simple, Open} => doc.value # 0
    <3>1. doc.last + 1 # Simple /\ doc.last + 1 # Open
      BY <1>1 DEF Simple, Open
    <3> QED
      BY <3>1, TokensApart DEF Grows
  <2>2. tok \notin {Simple, Open} => doc.value = 0
    BY TokensApart DEF Grows
  <2>3. (doc.value # 0) = (tok \in {Simple, Open})
    BY <2>1, <2>2
  <2> QED
    BY <1>2, <2>3
<1>4. doc.open = <<>> <=> Len(doc.open) = 0
  BY <1>1, EmptySeq
<1>5. o = IF tok = Open THEN Append(doc.open, doc.value)
          ELSE IF tok = Close /\ doc.open # <<>> THEN Front(doc.open) ELSE doc.open
  BY DEF Extended
<1>6. /\ o \in Seq(Ids)
      /\ Len(o) = IF d + Turn(tok) = 0 THEN 0 ELSE d + Turn(tok) - 1
  <2>1. CASE tok = Open
    <3>1. doc.value \in Ids
      BY <1>1, <1>2, <1>3, <2>1 DEF Ids
    <3>2. o = Append(doc.open, doc.value)
      BY <1>5, <2>1
    <3> HIDE DEF o
    <3>3. o \in Seq(Ids) /\ Len(o) = Len(doc.open) + 1
      BY <1>1, <3>1, <3>2, AppendOK
    <3> QED
      BY <1>2, <2>1, <3>3 DEF Turn
  <2>2. CASE tok = Close /\ doc.open # <<>>
    <3>1. o = Front(doc.open)
      BY <1>5, <2>2, TokensApart
    <3> HIDE DEF o
    <3>2. o \in Seq(Ids) /\ Len(o) = Len(doc.open) - 1
      BY <1>1, <2>2, <3>1, FrontOK
    <3> QED
      BY <1>1, <1>2, <1>4, <2>2, <3>2, TokensApart DEF Turn
  <2>3. CASE tok = Close /\ doc.open = <<>>
    <3>1. o = doc.open
      BY <1>5, <2>3, TokensApart
    <3> HIDE DEF o
    <3> QED
      BY <1>1, <1>2, <1>4, <2>3, <3>1, TokensApart DEF Turn
  <2>4. CASE tok # Open /\ tok # Close
    <3>1. o = doc.open
      BY <1>5, <2>4
    <3> HIDE DEF o
    <3> QED
      BY <1>1, <1>2, <2>4, <3>1 DEF Turn
  <2> QED
    BY <2>1, <2>2, <2>3, <2>4
<1>7. x.value = (IF tok \in Ids THEN tok ELSE 0) /\ x.value \in 0..MaxKeys
      /\ x.last \in 0..MaxKeys
  <2>1. /\ x.value = IF tok \in Ids THEN tok ELSE 0
        /\ x.last = IF tok \in Ids THEN tok ELSE doc.last
    BY DEF Extended
  <2>2. 0 \in 0..MaxKeys /\ (tok \in Ids => tok \in 0..MaxKeys)
    BY DeferralAssumption DEF Ids
  <2> HIDE DEF x
  <2> QED
    BY <1>1, <2>1, <2>2
<1>8. x.text \in [Ids -> Seq(Tokens)]
  <2> DEFINE y == [id \in Ids |-> IF id \in Holders THEN Append(doc.text[id], tok)
                                                    ELSE doc.text[id]]
  <2>1. x.text = y
    BY DEF Extended
  <2>2. \A id \in Ids : doc.text[id] \in Seq(Tokens)
                        /\ Append(doc.text[id], tok) \in Seq(Tokens)
    BY <1>1, AppendProperties
  <2> HIDE DEF x
  <2> QED
    BY <2>1, <2>2
<1>9. x \in DocType
  <2>1. x = [open |-> x.open, value |-> x.value, last |-> x.last, text |-> x.text]
    BY DEF Extended
  <2> HIDE DEF x
  <2> QED
    BY <1>6, <1>7, <1>8, <2>1 DEF DocType
<1>10. (tok \in Ids) = (x.value # 0)
  <2> HIDE DEF x
  <2>1. tok \in Ids <=> x.value # 0
    BY <1>7, TokensApart
  <2> QED
    BY <2>1
<1> HIDE DEF x
<1>11. Source(<<>>, x, 0, d + Turn(tok), tok \in Ids)
  <2> DEFINE y == d + Turn(tok)
             z == tok \in Ids
  <2>1. z = (x.value # 0)
    BY <1>10
  <2> HIDE DEF z
  <2>2. Len(x.open) = IF y = 0 THEN 0 ELSE y - 1
    BY <1>1, <1>6 DEF Turn
  <2> HIDE DEF y, o
  <2>3. Source(<<>>, x, 0, y, z)
    BY <2>1, <2>2 DEF Source
  <2> QED
    BY <2>3 DEF y, z
<1> QED
  BY <1>3, <1>9, <1>11 DEF x

\* What the scan sees once it has read tok.
Reader(e, tok, v) ==
    /\ Always(e) /\ Near(Now, e) /\ ~Waits(Now) /\ ~Waits(e)
    /\ e.frames = frames /\ e.path = path /\ e.depth = depth
    /\ e.wantRelease = wantRelease /\ e.releaseAt = releaseAt
    /\ e.suspendReq = suspendReq /\ e.rootDone = rootDone
    /\ e.dead = dead /\ e.code = code /\ e.deferredBytes = deferredBytes
    /\ \A k \in 1..Len(calls) : e.calls[k].frame = calls[k].frame
                                /\ e.calls[k].at = calls[k].at
    /\ doc' \in DocType
    /\ calls # <<>> => doc' = doc
    /\ v = (tok \in {Simple, Open})
    /\ Source(e.calls, doc', Len(e.calls), depth + Turn(tok), tok \in Ids)
    /\ ~v => \A k \in 1..Len(calls) : calls[k].frame < depth
    /\ calls = <<>> <=> e.calls = <<>>

LEMMA ReadingOK ==
    ASSUME NEW tok \in Tokens, NEW n \in Nat, NEW m \in Nat, NEW v \in BOOLEAN,
           NEW u \in BOOLEAN, Reading(n, v, tok, m, u)
    PROVE  v = (tok \in {Simple, Open}) /\ m = n + Turn(tok) /\ u = (tok \in Ids)
           /\ (~v => n > 0)
<1>1. v <=> tok \in {Simple, Open}
  BY TokensApart DEF Reading
<1>2. u <=> tok \in Ids
  BY TokensApart DEF Reading
<1>3. v = (tok \in {Simple, Open}) /\ u = (tok \in Ids)
  BY <1>1, <1>2, Zenon
<1>4. m = n + Turn(tok) /\ (~v => n > 0)
  BY TokensApart DEF Reading, Turn
<1> QED
  BY <1>3, <1>4

LEMMA ReaderOK ==
    ASSUME Always(Now), RestType, Stack(Now, doc), NEW tok \in Tokens,
           Ready(tok), Reads(tok), NEW v \in BOOLEAN, Reads0(Now, doc, v), depth >= 1
    PROVE  Reader(Consumed(Now), tok, v)
<1> DEFINE e == Consumed(Now)
<1>1. /\ Now \in Effect /\ calls \in Seq(CallType) /\ Len(calls) \in Nat
      /\ depth \in Nat /\ doc \in DocType
      /\ calls = <<>> <=> Len(calls) = 0
      /\ Now.calls = calls /\ Now.depth = depth /\ Now.frames = frames
  <2>1. Now \in Effect /\ Now.calls = calls /\ Now.depth = depth
        /\ Now.frames = frames
    BY DEF Always, Now
  <2>2. calls \in Seq(CallType) /\ depth \in Nat
    BY <2>1 DEF Effect
  <2> QED
    BY <2>1, <2>2, EmptySeq DEF RestType
<1>2. CASE calls = <<>>
  <2>1. e = Now /\ doc' = Extended(tok) /\ Grows(tok)
    BY <1>2 DEF Consumed, Ready, Reads
  <2>2. Source(<<>>, doc, 0, depth, v)
    BY <1>1, <1>2 DEF Reads0
  <2>3. /\ v = (tok \in {Simple, Open})
        /\ doc' \in DocType
        /\ Source(<<>>, doc', 0, depth + Turn(tok), tok \in Ids)
    <3>1. depth \in Nat \ {0}
      BY <1>1
    <3> QED
      BY <1>1, <2>1, <2>2, <3>1, ExtendedOK
  <2>4. Near(Now, Now)
    BY <1>1, <1>2 DEF Near
  <2>5. ~Waits(Now)
    BY <1>1, <1>2 DEF Waits
  <2>6. Len(calls) = 0 /\ 1..Len(calls) = {}
    BY <1>1, <1>2
  <2>7. /\ Now.frames = frames /\ Now.path = path /\ Now.depth = depth
        /\ Now.wantRelease = wantRelease /\ Now.releaseAt = releaseAt
        /\ Now.suspendReq = suspendReq /\ Now.rootDone = rootDone
        /\ Now.dead = dead /\ Now.code = code
        /\ Now.deferredBytes = deferredBytes
    BY DEF Now
  <2> DEFINE y == depth + Turn(tok)
             z == tok \in Ids
  <2>8. Source(Now.calls, doc', Len(Now.calls), y, z)
    BY <1>1, <1>2, <2>3
  <2> HIDE DEF e, y, z
  <2>9. \A k \in 1..Len(calls) : FALSE
    BY <2>6
  <2>10. Reader(Now, tok, v)
    BY <1>1, <1>2, <2>1, <2>3, <2>4, <2>5, <2>7, <2>8, <2>9 DEF Reader, y, z
  <2> QED
    BY <2>1, <2>10 DEF e
<1>3. CASE calls # <<>>
  <2> DEFINE l == Len(calls)
             c == calls[l]
             w == Tail(c.raw)
             d == [c EXCEPT !.raw = w]
             ds == [calls EXCEPT ![l] = d]
  <2>1. /\ l \in Nat \ {0} /\ l \in 1..l /\ c \in CallType /\ LastOf(calls) = c
        /\ c.active /\ c.raw # <<>> /\ Head(c.raw) = tok /\ doc' = doc
    BY <1>1, <1>3 DEF Ready, InReplay, call, LastOf, Reads
  <2>2. c.raw \in Seq(Tokens) /\ c.frame \in Nat
    BY <2>1 DEF CallType
  <2>3. w \in Seq(Tokens)
    BY <2>1, <2>2, HeadTailProperties
  <2>4. [Now EXCEPT !.calls[Len(calls)].raw = Tail(@)] = [Now EXCEPT !.calls = ds]
    BY <1>1, <2>1
  <2>5. e = [Now EXCEPT !.calls = ds]
    BY <1>3, <2>4 DEF Consumed, Now
  <2>6. Walk(c.raw, depth - c.frame, v, 0, FALSE)
    BY <1>1, <2>1 DEF Reads0, Source
  <2> DEFINE b == depth - c.frame
             s == c.raw
             no == FALSE
  <2>7. Walk(s, b, v, 0, no) /\ s \in Seq(Tokens) /\ s # <<>> /\ Head(s) = tok
    BY <2>1, <2>2, <2>6
  <2> HIDE DEF b, s, no
  <2>71. b \in Nat
    BY <2>7, WalkTypes
  <2>72. PICK m \in Nat, u \in BOOLEAN :
            Reading(b, v, Head(s), m, u) /\ Walk(Tail(s), m, u, 0, no)
    BY <2>7, WalkRest
  <2>8. Walk(w, m, u, 0, FALSE)
    BY <2>72 DEF s, no
  <2>9. /\ v = (tok \in {Simple, Open}) /\ m = b + Turn(tok)
        /\ u = (tok \in Ids) /\ (~v => b > 0)
    BY <2>7, <2>71, <2>72, ReadingOK
  <2> HIDE DEF w, c
  <2>10. /\ d \in CallType /\ d.at = c.at /\ d.frame = c.frame /\ d.todo = c.todo
         /\ d.raw = w /\ d.active = c.active /\ d.stale = c.stale /\ d.snap = c.snap
    BY <2>1, <2>3 DEF CallType
  <2> HIDE DEF d, l
  <2>11. /\ [calls EXCEPT ![l] = d] \in Seq(CallType)
         /\ Len([calls EXCEPT ![l] = d]) = Len(calls)
         /\ [calls EXCEPT ![l] = d][l] = d
         /\ \A k \in 1..Len(calls) : k # l => [calls EXCEPT ![l] = d][k] = calls[k]
    <3>1. l \in 1..Len(calls)
      BY <2>1 DEF l
    <3> QED
      BY <1>1, <2>10, <3>1, ExceptSeq
  <2>12. /\ ds \in Seq(CallType) /\ Len(ds) = l /\ Len(calls) = l /\ ds[l] = d
         /\ \A k \in 1..l : k # l => ds[k] = calls[k]
    BY <2>11 DEF l
  <2> HIDE DEF ds, e
  <2>13. /\ e \in Effect /\ e.frames = frames /\ e.path = path /\ e.depth = depth
         /\ e.wantRelease = wantRelease /\ e.releaseAt = releaseAt
         /\ e.suspendReq = suspendReq /\ e.rootDone = rootDone
         /\ e.dead = dead /\ e.code = code /\ e.deferredBytes = deferredBytes
         /\ e.calls = ds
    <3> DEFINE z == [Now EXCEPT !.calls = ds]
    <3>1. z \in Effect
      BY <1>1, <2>12 DEF Effect
    <3>2. /\ z.frames = frames /\ z.path = path /\ z.depth = depth
          /\ z.wantRelease = wantRelease /\ z.releaseAt = releaseAt
          /\ z.suspendReq = suspendReq /\ z.rootDone = rootDone
          /\ z.dead = dead /\ z.code = code /\ z.deferredBytes = deferredBytes
          /\ z.calls = ds
      BY DEF Now
    <3> HIDE DEF z
    <3> QED
      BY <2>5, <3>1, <3>2 DEF z
  <2>14. \A k \in 1..l : /\ ds[k].frame = calls[k].frame /\ ds[k].at = calls[k].at
                         /\ calls[k].frame \in 1..Len(frames)
    <3>1. \A k \in 1..l : calls[k].frame \in 1..Len(frames)
      BY <1>1, <2>12 DEF Always
    <3>2. calls[l] = c
      BY DEF c, l
    <3> QED
      BY <2>10, <2>12, <3>1, <3>2
  <2>15. Always(e)
    <3>1. deferredBytes = Total(frames)
      BY DEF Always, Now
    <3> QED
      BY <2>12, <2>13, <2>14, <3>1 DEF Always
  <2>16. LastOf(ds) = d /\ ds # <<>>
    BY <2>1, <2>12, EmptySeq DEF LastOf
  <2>17. Near(Now, e)
    <3>1. Wholes(c.todo)
      BY <1>1, <2>1, <2>12 DEF Stack, c, l
    <3>2. \A k \in 1..l - 1 : k \in 1..l /\ k # l
      BY <2>1
    <3>3. \A k \in 1..l - 1 : ds[k] = calls[k]
      BY <2>12, <3>2
    <3>4. Onward(c, d)
      BY <2>10 DEF Onward
    <3>5. Wholes(d.todo)
      BY <2>10, <3>1
    <3> QED
      BY <1>1, <1>3, <2>1, <2>12, <2>13, <2>16, <3>3, <3>4, <3>5 DEF Near
  <2>18. ~Waits(Now) /\ ~Waits(e)
    BY <1>1, <2>1, <2>10, <2>13, <2>16 DEF Waits
  <2>19. Source(ds, doc, l, depth + Turn(tok), tok \in Ids)
    <3> DEFINE y == depth + Turn(tok)
               z == tok \in Ids
    <3>2. u = z
      BY <2>9
    <3>3. y - c.frame = m
      BY <1>1, <2>2, <2>9 DEF Turn, b
    <3> HIDE DEF y, z
    <3>4. Source(ds, doc, l, y, z)
      BY <2>1, <2>8, <2>10, <2>12, <3>2, <3>3 DEF Source
    <3> QED
      BY <3>4 DEF y, z
  <2>20. ~v => \A k \in 1..l : calls[k].frame < depth
    <3> SUFFICES ASSUME ~v, NEW k \in 1..l PROVE calls[k].frame < depth
      OBVIOUS
    <3>1. c.frame < depth
      BY <1>1, <2>2, <2>9 DEF b
    <3>2. CASE k = l
      BY <3>1, <3>2 DEF c, l
    <3>3. CASE k # l
      <4>1. k \in 1..l - 1 /\ l \in 1..l
        BY <2>1, <3>3
      <4>2. calls[k].frame <= Back(c)
        BY <1>1, <2>12, <4>1 DEF Stack, c, l
      <4>3. Back(c) <= c.frame
        BY <2>2 DEF Back, c
      <4>4. calls[k].frame \in Nat /\ c.frame \in Nat /\ Back(c) \in Int
        <5>1. calls[k].frame \in 1..Len(frames)
          BY <2>14
        <5> QED
          BY <2>2, <5>1 DEF Back, c
      <4> QED
        BY <1>1, <3>1, <4>2, <4>3, <4>4
    <3> QED
      BY <3>2, <3>3
  <2> QED
    BY <1>3, <2>1, <2>9, <1>1, <2>12, <2>13, <2>14, <2>15, <2>16, <2>17, <2>18, <2>19, <2>20
       DEF Reader, e
<1> QED
  BY <1>2, <1>3

-----------------------------------------------------------------------------
(* A value ends.                                                            *)

\* The scan is between two pairs of a frame, as is all that it interrupts.
AtRest(e, dc) == Always(e) /\ Stack(e, dc) /\ Rest(e, dc) /\ SuspendOK(e)

LEMMA OnwardSame ==
    ASSUME NEW e, NEW dc, Always(e), Stack(e, dc), e.calls # <<>>
    PROVE  /\ LastOf(e.calls) \in CallType
           /\ Onward(LastOf(e.calls), LastOf(e.calls))
           /\ Wholes(LastOf(e.calls).todo)
           /\ Len(e.calls) \in 1..Len(e.calls)
<1>1. e.calls \in Seq(CallType)
  BY DEF Always, Effect
<1>2. Len(e.calls) \in 1..Len(e.calls)
  BY <1>1, EmptySeq
<1>3. LastOf(e.calls) \in CallType /\ Wholes(LastOf(e.calls).todo)
  BY <1>1, <1>2 DEF LastOf, Stack
<1> QED
  BY <1>2, <1>3 DEF Onward

LEMMA KeptStack ==
    ASSUME NEW e, NEW h, NEW dc, Always(e), Always(h), Stack(e, dc), Kept(e, h)
    PROVE  /\ Stack(h, dc) /\ Top(h).ph = Top(e).ph
           /\ h.calls = e.calls /\ Len(h.frames) = Len(e.frames)
           /\ Waits(h) <=> Waits(e)
           /\ h.frames[Len(e.frames)].deferred
                \in {e.frames[Len(e.frames)].deferred, <<>>}
<1>1. /\ h.calls = e.calls /\ Len(h.frames) = Len(e.frames)
      /\ \A k \in 1..Len(e.frames) : h.frames[k].ph = e.frames[k].ph
      /\ \A k \in 1..Len(e.frames) - 1 : h.frames[k] = e.frames[k]
      /\ h.frames[Len(e.frames)].deferred
            \in {e.frames[Len(e.frames)].deferred, <<>>}
  BY DEF Kept
<1>2. Near(e, h)
  BY <1>1, OnwardSame DEF Near
<1>3. Stack(h, dc)
  BY <1>2, NearOK
<1>4. Len(e.frames) \in 1..Len(e.frames)
  BY LenProperties DEF Always, Effect, Stack
<1>5. Top(h).ph = Top(e).ph
  BY <1>1, <1>4 DEF Top, LastOf
<1> QED
  BY <1>1, <1>3, <1>5 DEF Waits

LEMMA ValuedRest ==
    ASSUME NEW e, NEW r, NEW dc, Always(e), Stack(e, dc), InPair(e),
           e.depth = Len(e.frames), Reads0(e, dc, FALSE), Valued(e, r),
           e.suspendReq =>
               e.calls = <<>> /\ ~(e.wantRelease /\ e.releaseAt = Len(e.frames))
    PROVE  AtRest(r, dc)
<1> DEFINE n == Len(e.frames)
<1>1. /\ n \in Nat /\ n >= 1 /\ n \in 1..n
      /\ e.calls \in Seq(CallType) /\ e.frames \in Seq(FrameType)
      /\ e.path \in Seq(Ids) /\ Len(e.path) = n /\ ~Waits(e)
  <2>1. e.calls \in Seq(CallType) /\ e.frames \in Seq(FrameType) /\ e.path \in Seq(Ids)
    BY DEF Always, Effect
  <2> QED
    BY <2>1, LenProperties DEF Stack, InPair
<1>2. /\ Always(r) /\ r.depth = n /\ r.suspendReq = e.suspendReq
      /\ r.path = Front(e.path) /\ Len(r.frames) = n /\ r.frames[n].ph = "phComma"
      /\ \A k \in 1..n - 1 : r.frames[k] = e.frames[k]
  BY DEF Valued
<1>3. Len(r.path) = n - 1
  <2>1. e.path # <<>>
    BY <1>1, EmptySeq
  <2> QED
    BY <1>1, <1>2, <2>1, FrontOK, ZenonT(60)
<1>4. Top(r).ph # "phValue"
  BY <1>2 DEF Top, LastOf
<1>5. CASE /\ r.calls = e.calls /\ r.wantRelease = e.wantRelease
           /\ r.frames[n].deferred = e.frames[n].deferred
  <2>1. Near(e, r)
    BY <1>2, <1>5, OnwardSame DEF Near
  <2>2. Stack(r, dc)
    BY <1>2, <2>1, NearOK
  <2>3. ~Waits(r)
    BY <1>1, <1>5 DEF Waits
  <2>4. Rest(r, dc)
    BY <1>2, <1>3, <1>4, <1>5, <2>3 DEF Rest, Reads0
  <2>5. SuspendOK(r)
    BY <1>2, <1>5 DEF SuspendOK
  <2> QED
    BY <1>2, <2>2, <2>4, <2>5 DEF AtRest
<1>6. CASE /\ e.wantRelease /\ e.releaseAt = n /\ ~r.wantRelease
           /\ r.frames[n].deferred = <<>>
           /\ r.calls = Append(e.calls, NewCall("value", n, e.frames[n].deferred))
  <2> DEFINE w == e.frames[n].deferred
             c == NewCall("value", n, w)
  <2>1. w \in Seq(Pairs)
    <3>1. e.frames[n] \in FrameType
      BY <1>1
    <3> QED
      BY <3>1 DEF FrameType
  <2> HIDE DEF n, w
  <2>2. /\ c \in CallType /\ c.at = "value" /\ c.frame = n /\ c.todo = w
        /\ ~c.active /\ ~c.stale /\ c.snap = <<>>
    BY <1>1, <2>1, NewCallOK
  <2> HIDE DEF c
  <2>3. Back(c) = n
    BY <2>2 DEF Back
  <2>4. Pushed(e, r, c)
    BY <1>2, <1>6, <2>2 DEF Pushed, n, w, c
  <2>5. Source(e.calls, dc, Len(e.calls), Back(c), FALSE)
    BY <2>3 DEF Reads0, n
  <2>6. \A j \in 1..Len(e.calls) : e.calls[j].frame <= Back(c)
    BY <1>1, <2>3 DEF Always, n
  <2>7. Stack(r, dc) /\ Waits(r) /\ LastOf(r.calls) = c
    BY <1>2, <2>2, <2>4, <2>5, <2>6, PushOK
  <2>8. Rest(r, dc)
    BY <1>2, <1>3, <1>4, <2>2, <2>7 DEF Rest
  <2>9. SuspendOK(r)
    BY <1>2, <1>6 DEF SuspendOK, n
  <2> QED
    BY <1>2, <2>7, <2>8, <2>9 DEF AtRest
<1> QED
  BY <1>5, <1>6 DEF Valued

\* A pair is held by the frame on top.
Deferring(e, h, kv) ==
    /\ Always(h) /\ h.path = e.path /\ h.depth = e.depth /\ h.calls = e.calls
    /\ h.wantRelease = e.wantRelease /\ h.releaseAt = e.releaseAt
    /\ h.suspendReq = e.suspendReq /\ h.rootDone = e.rootDone
    /\ h.dead = e.dead /\ h.code = e.code
    /\ LET n == Len(e.frames)
       IN  /\ Len(h.frames) = n /\ h.frames[n].ph = e.frames[n].ph
           /\ h.frames[n].deferred = Append(e.frames[n].deferred, kv)
           /\ \A k \in 1..n - 1 : h.frames[k] = e.frames[k]

LEMMA DeferringOK ==
    ASSUME NEW e, Always(e), Len(e.frames) >= 1, NEW kv \in Pairs
    PROVE  Deferring(e, [e EXCEPT !.frames[Len(e.frames)].deferred = Append(@, kv),
                                  !.deferredBytes = @ + Size(kv)], kv)
<1> DEFINE n  == Len(e.frames)
           fs == e.frames
           w  == fs[n].deferred
           ls == Append(w, kv)
           gs == [fs EXCEPT ![Len(fs)].deferred = ls]
           b  == e.deferredBytes + Size(kv)
           h  == [e EXCEPT !.frames = gs, !.deferredBytes = b]
<1>1. e \in Effect /\ n \in Nat /\ fs \in Seq(FrameType) /\ n = Len(fs) /\ n >= 1
      /\ e.deferredBytes \in Int /\ e.deferredBytes = Total(fs)
      /\ \A k \in 1..Len(e.calls) : e.calls[k].frame \in 1..n
  BY DEF Always, Effect
<1>2. w \in Seq(Pairs)
  <2>1. fs[n] \in FrameType
    BY <1>1
  <2> QED
    BY <2>1 DEF FrameType
<1>3. [e EXCEPT !.frames[Len(e.frames)].deferred = Append(@, kv),
                !.deferredBytes = @ + Size(kv)] = h
  BY <1>1 DEF Effect
<1>4. ls \in Seq(Pairs)
  BY <1>2, AppendProperties
<1>5. SizeOf(ls) = SizeOf(w) + Size(kv) /\ SizeOf(w) \in Nat /\ Size(kv) \in Nat
  <2> HIDE DEF w
  <2> QED
    BY <1>2, SizePushed
<1> HIDE DEF ls
<1>6. gs \in Seq(FrameType) /\ Len(gs) = n
  <2> HIDE DEF gs, n, fs
  <2> QED
    BY <1>1, <1>4, DeferredChanged DEF gs
<1>7. gs[n].ph = fs[n].ph /\ gs[n].deferred = ls
  <2> HIDE DEF gs, n, fs
  <2> QED
    BY <1>1, <1>4, DeferredChanged DEF gs
<1>8. \A k \in 1..n - 1 : gs[k] = fs[k]
  <2> HIDE DEF gs, n, fs
  <2> QED
    BY <1>1, <1>4, DeferredChanged DEF gs
<1>9. b = Total(gs) /\ b \in Int
  <2>1. \A k \in 1..n - 1 : gs[k].deferred = fs[k].deferred
    BY <1>8
  <2> HIDE DEF gs, fs, n
  <2>2. /\ Total(gs) - SizeOf(gs[n].deferred) = Total(fs) - SizeOf(fs[n].deferred)
        /\ Total(gs) \in Nat /\ Total(fs) \in Nat
    BY <1>1, <1>6, <2>1, TotalChanged
  <2> QED
    BY <1>1, <1>5, <1>7, <2>2
<1> HIDE DEF gs, b
<1>10. /\ h \in Effect /\ h.frames = gs /\ h.path = e.path /\ h.depth = e.depth
       /\ h.wantRelease = e.wantRelease /\ h.releaseAt = e.releaseAt
       /\ h.suspendReq = e.suspendReq /\ h.rootDone = e.rootDone
       /\ h.dead = e.dead /\ h.code = e.code /\ h.calls = e.calls
       /\ h.deferredBytes = b
  BY <1>1, <1>6, <1>9 DEF Effect
<1> HIDE DEF h
<1>11. Always(h)
  BY <1>1, <1>6, <1>9, <1>10 DEF Always
<1>12. Deferring(e, h, kv)
  BY <1>6, <1>7, <1>8, <1>10, <1>11 DEF Deferring, ls, w, fs, n
<1> QED
  BY <1>3, <1>12

LEMMA DeferringStack ==
    ASSUME NEW e, NEW h, NEW dc, NEW kv \in Pairs, Always(e), Stack(e, dc),
           NotClosing(e), Whole(kv.raw), Deferring(e, h, kv)
    PROVE  Stack(h, dc) /\ Top(h).ph = Top(e).ph
<1> DEFINE n == Len(e.frames)
           w == e.frames[n].deferred
<1>1. n \in Nat /\ n \in 1..n /\ w \in Seq(Pairs)
  <2>1. n \in Nat /\ n \in 1..n /\ e.frames \in Seq(FrameType)
    BY LenProperties DEF Always, Effect, Stack
  <2>2. e.frames[n] \in FrameType
    BY <2>1
  <2> QED
    BY <2>1, <2>2 DEF FrameType
<1>2. Wholes(w)
  BY <1>1 DEF Stack
<1>3. Wholes(Append(w, kv))
  <2> HIDE DEF w
  <2>1. /\ Len(Append(w, kv)) = Len(w) + 1 /\ Append(w, kv)[Len(w) + 1] = kv
        /\ Len(w) \in Nat
        /\ \A k \in 1..Len(w) : Append(w, kv)[k] = w[k]
    BY <1>1, AppendOK
  <2>2. \A k \in 1..Len(w) + 1 : k = Len(w) + 1 \/ k \in 1..Len(w)
    BY <2>1
  <2> QED
    BY <1>2, <2>1, <2>2 DEF Wholes
<1>4. Near(e, h)
  BY <1>3, OnwardSame DEF Deferring, Near
<1>5. Stack(h, dc)
  BY <1>4, NearOK DEF Deferring
<1>6. Top(h).ph = Top(e).ph
  BY DEF Deferring, Top, LastOf
<1> QED
  BY <1>5, <1>6

\* The scan has stopped or is at rest in a frame of what it reads.
Stops(r, dc) == Always(r) /\ ~r.rootDone /\ (~r.dead => AtRest(r, dc))

LEMMA EndRegionOK ==
    ASSUME NEW e, NEW dc, NEW raw \in Seq(Tokens), NEW cb, Always(e), Stack(e, dc),
           InPair(e), e.depth = Len(e.frames), Reads0(e, dc, FALSE),
           ~e.suspendReq, ~e.dead, ~e.rootDone,
           regT = "rtDefer" => /\ NotClosing(e) /\ Whole(raw)
                               /\ kvRaw \in Ids /\ regKey \in Ids,
           regT # "rtDefer" /\ cb = "suspend" =>
               ~(e.wantRelease /\ e.releaseAt = Len(e.frames))
    PROVE  Stops(endRegion(e, raw, cb), dc)
<1> DEFINE kv == [key |-> regKey, keyRaw |-> kvRaw, raw |-> raw]
           h  == IF regT = "rtDefer"
                 THEN [e EXCEPT !.frames[Len(e.frames)].deferred = Append(@, kv),
                                !.deferredBytes = @ + Size(kv)]
                 ELSE Hook(cb, e)
           r  == endRegion(e, raw, cb)
<1>1. r = IF h.dead THEN h ELSE afterValue(h)
  BY DEF endRegion
<1>2. Len(e.frames) >= 1 /\ Len(e.path) = Len(e.frames) /\ Top(e).ph = "phValue"
      /\ ~Waits(e)
  BY DEF Stack, InPair
<1>3. CASE regT = "rtDefer"
  <2>1. kv \in Pairs /\ kv.raw = raw
    BY <1>3 DEF Pairs
  <2> HIDE DEF kv
  <2>2. Deferring(e, h, kv)
    BY <1>2, <1>3, <2>1, DeferringOK
  <2> HIDE DEF h, r
  <2>3. Stack(h, dc) /\ Top(h).ph = "phValue"
    BY <1>2, <1>3, <2>1, <2>2, DeferringStack
  <2>4. /\ Always(h) /\ h.path = e.path /\ h.depth = e.depth /\ h.calls = e.calls
        /\ Len(h.frames) = Len(e.frames)
        /\ h.suspendReq = e.suspendReq /\ h.rootDone = e.rootDone
        /\ h.dead = e.dead
    BY <2>2 DEF Deferring
  <2>5. InPair(h) /\ Reads0(h, dc, FALSE)
    BY <1>2, <2>3, <2>4 DEF InPair, Waits, Reads0
  <2>6. r = afterValue(h) /\ h.path # <<>>
    <3>1. h.path \in Seq(Ids) /\ Len(h.path) >= 1
      BY <1>2, <2>4 DEF Always, Effect
    <3> QED
      BY <1>1, <2>4, <3>1, EmptySeq
  <2>7. Valued(h, r)
    BY <1>2, <2>4, <2>6, ValuedOK
  <2>8. AtRest(r, dc)
    BY <2>3, <2>4, <2>5, <2>7, ValuedRest
  <2>9. ~r.rootDone
    BY <2>4, <2>7 DEF Valued
  <2> QED
    BY <2>8, <2>9 DEF Stops, AtRest, r
<1>4. CASE regT # "rtDefer"
  <2>1. Hooked(e, h, cb)
    BY <1>2, <1>4, HookOK
  <2> HIDE DEF h, r
  <2>2. Always(h) /\ Kept(e, h)
    BY <2>1 DEF Hooked
  <2>3. /\ Stack(h, dc) /\ Top(h).ph = "phValue" /\ h.calls = e.calls
        /\ Len(h.frames) = Len(e.frames) /\ ~Waits(h)
    BY <1>2, <2>2, KeptStack
  <2>4. /\ h.path = e.path /\ h.depth = e.depth /\ h.rootDone = e.rootDone
    BY <2>2 DEF Kept
  <2>5. CASE h.dead
    <3>1. r = h
      BY <1>1, <2>5
    <3> QED
      BY <2>2, <2>4, <2>5, <3>1 DEF Stops, r
  <2>6. CASE ~h.dead
    <3>1. r = afterValue(h)
      BY <1>1, <2>6
    <3>2. InPair(h) /\ Reads0(h, dc, FALSE)
      BY <1>2, <2>3, <2>4 DEF InPair, Reads0
    <3>3. h.path # <<>>
      <4>1. h.path \in Seq(Ids) /\ Len(h.path) >= 1
        BY <1>2, <2>2, <2>4 DEF Always, Effect
      <4> QED
        BY <4>1, EmptySeq
    <3>4. Valued(h, r)
      BY <1>2, <2>2, <2>3, <3>1, <3>3, ValuedOK
    <3>5. h.suspendReq =>
              h.calls = <<>> /\ ~(h.wantRelease /\ h.releaseAt = Len(h.frames))
      <4> SUFFICES ASSUME h.suspendReq
                   PROVE  h.calls = <<>>
                          /\ ~(h.wantRelease /\ h.releaseAt = Len(h.frames))
        OBVIOUS
      <4>1. cb = "suspend" /\ ~Replaying(e) /\ h.releaseAt = e.releaseAt
            /\ (h.wantRelease <=> e.wantRelease)
        BY <2>1, <2>6 DEF Hooked
      <4>2. e.calls = <<>>
        <5>1. SUFFICES ASSUME e.calls # <<>> PROVE FALSE
          OBVIOUS
        <5>2. Len(e.calls) \in 1..Len(e.calls) /\ LastOf(e.calls).active
          BY <1>2, <5>1, OnwardSame DEF Waits
        <5> QED
          BY <4>1, <5>2 DEF Replaying, LastOf
      <4> QED
        BY <1>4, <2>3, <4>1, <4>2
    <3>6. AtRest(r, dc)
      BY <2>2, <2>3, <2>4, <3>2, <3>4, <3>5, ValuedRest
    <3>7. ~r.rootDone
      BY <2>4, <3>4 DEF Valued
    <3> QED
      BY <3>6, <3>7 DEF Stops, AtRest, r
  <2> QED
    BY <2>5, <2>6
<1> QED
  BY <1>3, <1>4

-----------------------------------------------------------------------------
(* Steps.                                                                   *)

LEMMA NowIs ==
    /\ Now.frames = frames /\ Now.path = path /\ Now.depth = depth
    /\ Now.wantRelease = wantRelease /\ Now.releaseAt = releaseAt
    /\ Now.deferredBytes = deferredBytes /\ Now.calls = calls
    /\ Now.suspendReq = suspendReq /\ Now.rootDone = rootDone
    /\ Now.dead = dead /\ Now.code = code
    /\ Now.dropped = dropped /\ Now.asked = asked
BY DEF Now

LEMMA NowBecomes ==
    ASSUME NEW r \in Effect, Becomes(r)
    PROVE  Now' = r
<1>1. Now' = [frames |-> frames', path |-> path', depth |-> depth',
              wantRelease |-> wantRelease', releaseAt |-> releaseAt',
              deferredBytes |-> deferredBytes', calls |-> calls',
              suspendReq |-> suspendReq', rootDone |-> rootDone',
              dead |-> dead', code |-> code',
              dropped |-> dropped', asked |-> asked']
  BY DEF Now
<1>2. Now' = [frames |-> r.frames, path |-> r.path, depth |-> r.depth,
              wantRelease |-> r.wantRelease, releaseAt |-> r.releaseAt,
              deferredBytes |-> r.deferredBytes, calls |-> r.calls,
              suspendReq |-> r.suspendReq, rootDone |-> r.rootDone,
              dead |-> r.dead, code |-> r.code,
              dropped |-> r.dropped, asked |-> r.asked]
  BY <1>1 DEF Becomes
<1> QED
  BY <1>2 DEF Effect

\* A step after which no region is open and no pair judged.
LEMMA StopsInv ==
    ASSUME NEW r, Becomes(r), Stops(r, doc'), RestType',
           ~r.dead => ~regOpen' /\ ~pendSet' /\ st' = "sIdle"
    PROVE  IInv'
<1>1. r \in Effect
  BY DEF Stops, Always
<1>2. Now' = r
  BY <1>1, NowBecomes
<1>3. dead' = r.dead /\ rootDone' = r.rootDone
  BY DEF Becomes
<1>4. Always(Now)' <=> Always(r)
  BY <1>2
<1>5. ASSUME ~r.dead PROVE Live'
  <2>1. AtRest(r, doc')
    BY <1>5 DEF Stops
  <2>2. /\ Stack(Now, doc)' <=> Stack(r, doc')
        /\ SuspendOK(Now)' <=> SuspendOK(r)
        /\ Rest(Now, doc)' <=> Rest(r, doc')
    BY <1>2
  <2> QED
    BY <1>5, <2>1, <2>2 DEF Live, AtRest
<1> QED
  BY <1>3, <1>4, <1>5 DEF IInv, Stops

\* No hook suspends where it asked for a release or in a replay, and none
\* answers Defer to a pair replayed as its container closes.
UsedPlainly == "suspend" \notin Uses /\ "redefer" \notin Uses

LEMMA SimpleEndOK ==
    ASSUME IInv, UsedPlainly, NEW cb \in Callbacks, SimpleEnd(cb)
    PROVE  IInv'
<1>1. /\ ~dead /\ ~rootDone /\ ~suspendReq /\ st = "sInStr" /\ Live
      /\ Always(Now) /\ RestType
  BY DEF SimpleEnd, Scanning, IInv
<1>2. regOpen /\ ~pendSet /\ InRegion /\ Stack(Now, doc)
  BY <1>1 DEF Live
<1>3. /\ InPair(Now) /\ depth = Len(frames) /\ depth = regDepth
      /\ Reads0(Now, doc, FALSE)
      /\ regT = "rtDefer" => /\ Walk(capBuf, 0, TRUE, depth - regDepth, FALSE)
                             /\ NotClosing(Now) /\ kvRaw \in Ids /\ regKey \in Ids
  <2>1. PICK v \in BOOLEAN :
            /\ Reads0(Now, doc, v) /\ ~v
            /\ regT = "rtDefer" => Walk(capBuf, 0, TRUE, depth - regDepth, v)
    BY <1>1, <1>2 DEF InRegion
  <2>2. v = FALSE
    BY <2>1
  <2> QED
    BY <1>1, <1>2, <2>1, <2>2 DEF InRegion
<1>4. regT = "rtDefer" => Whole(capBuf)
  <2>1. depth - regDepth = 0
    BY <1>1, <1>3 DEF RestType
  <2> QED
    BY <1>3, <2>1 DEF Whole
<1>5. regT # "rtDefer" /\ cb = "suspend" => ~(wantRelease /\ releaseAt = Len(frames))
  BY DEF SimpleEnd, RegionEnds, MayCall, UsedPlainly
<1>6. Stops(endRegion(Now, capBuf, cb), doc)
  BY <1>1, <1>2, <1>3, <1>4, <1>5, NowIs, EndRegionOK DEF RestType
<1>7. /\ Becomes(endRegion(Now, capBuf, cb)) /\ doc' = doc
      /\ regOpen' = FALSE /\ pendSet' = pendSet /\ st' = "sIdle"
      /\ regT' = "rtNone" /\ capBuf' = <<>> /\ regDepth' = regDepth
      /\ regKey' = regKey /\ frameCap' = frameCap /\ pend' = pend
      /\ kvRaw' = kvRaw /\ suspended' = suspended
  BY DEF SimpleEnd, RegionEnds
<1>8. RestType'
  <2>1. suspended \in BOOLEAN /\ pendSet \in BOOLEAN
    BY <1>1, Zenon DEF RestType
  <2>2. suspended' \in BOOLEAN /\ pendSet' \in BOOLEAN /\ regOpen' \in BOOLEAN
    BY <1>7, <2>1
  <2>3. <<>> \in Seq(Tokens)
    BY EmptySeq
  <2> QED
    BY <1>1, <1>7, <2>2, <2>3 DEF RestType
<1> QED
  BY <1>2, <1>6, <1>7, <1>8, StopsInv

\* The depth after the token.
Turned(e, r, tok) ==
    /\ Always(r) /\ r.frames = e.frames /\ r.path = e.path /\ r.calls = e.calls
    /\ r.depth = e.depth + Turn(tok)
    /\ r.wantRelease = e.wantRelease /\ r.releaseAt = e.releaseAt
    /\ r.suspendReq = e.suspendReq /\ r.rootDone = e.rootDone
    /\ r.dead = e.dead /\ r.code = e.code

LEMMA TurnedOK ==
    ASSUME NEW e, Always(e), e.depth >= 1, NEW tok \in Tokens, NEW d,
           d = e.depth + Turn(tok)
    PROVE  Turned(e, [e EXCEPT !.depth = d], tok)
<1> DEFINE r == [e EXCEPT !.depth = d]
<1>1. e \in Effect /\ e.depth \in Nat
  BY DEF Always, Effect
<1>2. d \in Nat
  BY <1>1 DEF Turn
<1>3. /\ r \in Effect /\ r.frames = e.frames /\ r.path = e.path /\ r.depth = d
      /\ r.wantRelease = e.wantRelease /\ r.releaseAt = e.releaseAt
      /\ r.suspendReq = e.suspendReq /\ r.rootDone = e.rootDone
      /\ r.dead = e.dead /\ r.code = e.code /\ r.calls = e.calls
      /\ r.deferredBytes = e.deferredBytes
  BY <1>1, <1>2 DEF Effect
<1> HIDE DEF r
<1>4. Turned(e, r, tok)
  BY <1>3 DEF Turned, Always
<1> QED
  BY <1>4 DEF r

LEMMA TurnedStack ==
    ASSUME NEW e, NEW r, NEW dc, NEW tok, Stack(e, dc), Turned(e, r, tok)
    PROVE  /\ Stack(r, dc)
           /\ Waits(r) <=> Waits(e)
           /\ Top(r) = Top(e)
           /\ NotClosing(r) <=> NotClosing(e)
<1>1. r.frames = e.frames /\ r.calls = e.calls
  BY DEF Turned
<1>2. Closing(r) <=> Closing(e)
  BY <1>1 DEF Closing
<1> QED
  BY <1>1, <1>2 DEF Stack, Waits, Top, NotClosing

LEMMA ReadingIs ==
    ASSUME NEW tok \in Tokens, NEW n \in Nat \ {0}, NEW v,
           v = (tok \in {Simple, Open})
    PROVE  Reading(n, v, tok, n + Turn(tok), tok \in Ids)
<1>1. v <=> tok \in {Simple, Open}
  OBVIOUS
<1>2. CASE tok = Simple
  BY <1>1, <1>2, TokensApart DEF Reading, Turn
<1>3. CASE tok = Open
  BY <1>1, <1>3, TokensApart DEF Reading, Turn
<1>4. CASE tok = Close
  <2>1. n > 0 /\ n + Turn(tok) = n - 1 /\ tok \notin Ids /\ ~v
    BY <1>1, <1>4, TokensApart DEF Turn
  <2> QED
    BY <1>4, <2>1 DEF Reading
<1>5. CASE tok \in Ids
  <2>1. n > 0 /\ n + Turn(tok) = n /\ ~v
    BY <1>1, <1>5, TokensApart DEF Turn
  <2> QED
    BY <1>5, <2>1 DEF Reading
<1> QED
  BY <1>2, <1>3, <1>4, <1>5, TokensApart

LEMMA RegionByteOK ==
    ASSUME IInv, UsedPlainly, NEW tok \in Tokens, NEW cb \in Callbacks,
           RegionByte(tok, cb)
    PROVE  IInv'
<1> DEFINE q == Consumed(Now)
           d == CASE tok = Open  -> q.depth + 1
                  [] tok = Close -> q.depth - 1
                  [] OTHER         -> q.depth
           e == [q EXCEPT !.depth = d]
           copy == IF Copies THEN Append(capBuf, tok) ELSE capBuf
           y == depth + Turn(tok)
           z == tok \in Ids
<1>1. /\ Ready(tok) /\ regOpen /\ Reads(tok)
      /\ IF tok = Close /\ e.depth = regDepth
         THEN RegionEnds(e, copy, cb)
         ELSE /\ Becomes(e) /\ capBuf' = copy /\ regOpen' = regOpen
              /\ regT' = regT /\ regDepth' = regDepth /\ regKey' = regKey
      /\ frameCap' = frameCap /\ pend' = pend /\ pendSet' = pendSet
      /\ kvRaw' = kvRaw /\ st' = st /\ suspended' = suspended
  <2>1. [q EXCEPT !.depth = CASE tok = Open  -> @ + 1
                              [] tok = Close -> @ - 1
                              [] OTHER         -> @] = e
    OBVIOUS
  <2> HIDE DEF q
  <2> QED
    BY <2>1, Zenon DEF RegionByte, q
<1>2. /\ ~dead /\ ~rootDone /\ ~suspendReq /\ st = "sIdle" /\ Live
      /\ Always(Now) /\ RestType
  BY <1>1 DEF Ready, Scanning, IInv
<1>3. ~pendSet /\ InRegion /\ Stack(Now, doc)
  BY <1>1, <1>2 DEF Live
<1>4. /\ InPair(Now) /\ regDepth = Len(frames) /\ depth > regDepth
      /\ regT = "rtDefer" => NotClosing(Now) /\ kvRaw \in Ids /\ regKey \in Ids
  BY <1>2, <1>3 DEF InRegion
<1>5. PICK v \in BOOLEAN :
          /\ Reads0(Now, doc, v)
          /\ regT = "rtDefer" => Walk(capBuf, 0, TRUE, depth - regDepth, v)
  BY <1>3 DEF InRegion
<1>6. Len(frames) >= 1 /\ depth \in Nat /\ regDepth \in Nat /\ depth >= 1
  <2>1. Len(frames) >= 1 /\ regDepth \in Nat
    BY <1>2, <1>3, NowIs DEF Stack, RestType
  <2>2. depth \in Nat
    BY <1>2, NowIs DEF Always, Effect
  <2> QED
    BY <1>4, <2>1, <2>2
<1>7. Reader(q, tok, v)
  BY <1>1, <1>2, <1>3, <1>5, <1>6, ReaderOK
<1> HIDE DEF q
<1>8. /\ Always(q) /\ Near(Now, q) /\ ~Waits(q) /\ q.frames = frames
      /\ q.path = path /\ q.depth = depth /\ q.wantRelease = wantRelease
      /\ q.releaseAt = releaseAt /\ q.suspendReq = suspendReq
      /\ q.rootDone = rootDone /\ q.dead = dead
      /\ \A k \in 1..Len(calls) : q.calls[k].frame = calls[k].frame
                                  /\ q.calls[k].at = calls[k].at
      /\ doc' \in DocType
      /\ calls # <<>> => doc' = doc
  BY <1>7 DEF Reader
<1>9. v = (tok \in {Simple, Open}) /\ Source(q.calls, doc', Len(q.calls), y, z)
  BY <1>7 DEF Reader
<1>10. d = y
  BY <1>6, <1>8, TokensApart DEF Turn
<1> HIDE DEF d
<1>11. Turned(q, e, tok)
  BY <1>6, <1>8, <1>10, TurnedOK
<1> HIDE DEF e, z
<1>12. Stack(q, doc')
  BY <1>2, <1>3, <1>8, NowIs, NearOK
<1>13. /\ Stack(e, doc') /\ ~Waits(e) /\ e.frames = frames /\ e.path = path
       /\ e.depth = y /\ e.calls = q.calls /\ e.wantRelease = wantRelease
       /\ e.releaseAt = releaseAt /\ ~e.suspendReq /\ ~e.dead /\ ~e.rootDone
       /\ Always(e) /\ Top(e) = Top(Now)
  <2>1. Top(q) = Top(Now)
    BY <1>8, NowIs DEF Top
  <2> QED
    BY <1>2, <1>8, <1>11, <1>12, <2>1, TurnedStack DEF Turned
<1>14. InPair(e) /\ Reads0(e, doc', z)
  BY <1>4, <1>9, <1>13, NowIs DEF InPair, Reads0
<1>15. regT = "rtDefer" => NotClosing(e)
  <2>1. Len(q.calls) = Len(calls)
    BY <1>8, NowIs DEF Near
  <2>2. NotClosing(Now) => NotClosing(q)
    BY <1>8, <2>1, NowIs DEF NotClosing, Closes
  <2> QED
    BY <1>4, <1>11, <1>12, <2>2, TurnedStack
<1>16. copy \in Seq(Tokens) /\ capBuf \in Seq(Tokens)
  <2>1. capBuf \in Seq(Tokens)
    BY <1>2 DEF RestType
  <2> QED
    BY <2>1, AppendProperties
<1>17. regT = "rtDefer" => Walk(copy, 0, TRUE, y - regDepth, z)
  <2> SUFFICES ASSUME regT = "rtDefer" PROVE Walk(copy, 0, TRUE, y - regDepth, z)
    OBVIOUS
  <2> DEFINE n == depth - regDepth
             m == n + Turn(tok)
             yes == TRUE
  <2>1. n \in Nat \ {0} /\ m = y - regDepth /\ m \in Nat
    BY <1>4, <1>6 DEF Turn
  <2>2. Walk(capBuf, 0, yes, n, v)
    BY <1>5
  <2> HIDE DEF n
  <2>3. Reading(n, v, tok, m, z)
    BY <1>9, <2>1, ReadingIs DEF z
  <2>4. z \in BOOLEAN
    BY DEF z
  <2>5. copy = Append(capBuf, tok)
    BY DEF Copies
  <2> HIDE DEF m, copy, y, yes
  <2>6. Walk(Append(capBuf, tok), 0, yes, m, z)
    BY <1>16, <2>1, <2>2, <2>3, <2>4, WalkOn
  <2> QED
    BY <2>1, <2>5, <2>6 DEF yes
<1>18. pendSet' \in BOOLEAN /\ suspended' \in BOOLEAN
  BY <1>1, <1>2, Zenon DEF RestType
<1>19. CASE tok = Close /\ e.depth = regDepth
  <2>1. RegionEnds(e, copy, cb)
    BY <1>1, <1>19
  <2>2. z = FALSE
    BY <1>19, TokensApart DEF z
  <2>3. regT = "rtDefer" => Whole(copy)
    <3>1. y - regDepth = 0
      BY <1>6, <1>13, <1>19 DEF Turn
    <3> QED
      BY <1>17, <2>2, <3>1 DEF Whole
  <2>4. regT # "rtDefer" /\ cb = "suspend" =>
            ~(wantRelease /\ releaseAt = Len(frames))
    BY <2>1 DEF RegionEnds, MayCall, UsedPlainly
  <2>5. e.depth = Len(e.frames) /\ Reads0(e, doc', FALSE)
    BY <1>4, <1>13, <1>14, <1>19, <2>2
  <2> HIDE DEF copy, y
  <2>6. Stops(endRegion(e, copy, cb), doc')
    BY <1>4, <1>13, <1>14, <1>15, <1>16, <2>3, <2>4, <2>5, EndRegionOK
  <2>7. /\ Becomes(endRegion(e, copy, cb)) /\ regOpen' = FALSE
        /\ regT' = "rtNone" /\ capBuf' = <<>> /\ regDepth' = regDepth
        /\ regKey' = regKey
    BY <2>1 DEF RegionEnds
  <2>8. RestType'
    <3>1. <<>> \in Seq(Tokens) /\ regOpen' \in BOOLEAN
      BY <2>7, EmptySeq
    <3> QED
      BY <1>1, <1>2, <1>8, <1>18, <2>7, <3>1 DEF RestType
  <2> QED
    BY <1>1, <1>2, <1>3, <2>6, <2>7, <2>8, StopsInv
<1>20. CASE ~(tok = Close /\ e.depth = regDepth)
  <2>1. /\ Becomes(e) /\ capBuf' = copy /\ regOpen' = regOpen
        /\ regT' = regT /\ regDepth' = regDepth /\ regKey' = regKey
    BY <1>1, <1>20
  <2>2. Now' = e
    BY <1>13, <2>1, NowBecomes DEF Always
  <2>3. RestType'
    <3>1. regOpen' \in BOOLEAN
      BY <1>1, <2>1
    <3> QED
      BY <1>1, <1>2, <1>8, <1>16, <1>18, <2>1, <3>1 DEF RestType
  <2>4. dead' = e.dead /\ rootDone' = e.rootDone /\ depth' = y /\ frames' = frames
    BY <1>13, <2>1 DEF Becomes
  <2>5. Stack(Now, doc)' /\ SuspendOK(Now)' /\ Always(Now)' /\ InPair(Now)'
    BY <1>13, <1>14, <2>2 DEF SuspendOK
  <2>6. Reads0(Now, doc, z)'
    BY <1>14, <2>2
  <2>7. y > regDepth
    BY <1>2, <1>4, <1>6, <1>13, <1>20, TokensApart DEF Turn
  <2>8. InRegion'
    <3>1. z \in BOOLEAN
      BY DEF z
    <3>2. NotClosing(Now)' <=> NotClosing(e)
      BY <2>2
    <3>3. Reads0(Now', doc', z)
      BY <1>14, <2>2
    <3>4. depth' - regDepth' = y - regDepth
      BY <2>1, <2>4
    <3> HIDE DEF y, copy
    <3>5. regT' = "rtDefer" => Walk(capBuf', 0, TRUE, depth' - regDepth', z)
      BY <1>17, <2>1, <3>4
    <3>6. st' = "sIdle" /\ "sIdle" # "sInStr"
      BY <1>1, <1>2
    <3>7. \E w \in BOOLEAN :
            /\ Reads0(Now', doc', w)
            /\ st' = "sInStr" => ~w
            /\ regT' = "rtDefer" => Walk(capBuf', 0, TRUE, depth' - regDepth', w)
      BY <3>1, <3>3, <3>5, <3>6
    <3>8. regT' = "rtDefer" => NotClosing(Now)' /\ kvRaw' \in Ids /\ regKey' \in Ids
      BY <1>1, <1>4, <1>15, <2>1, <3>2
    <3> QED
      BY <1>4, <2>1, <2>4, <2>5, <2>7, <3>6, <3>7, <3>8 DEF InRegion
  <2>9. Live'
    BY <1>1, <1>3, <2>1, <2>5, <2>8 DEF Live
  <2> QED
    BY <1>13, <2>3, <2>4, <2>5, <2>9 DEF IInv
<1> QED
  BY <1>19, <1>20

\* The pair of e, which goes on from b, was judged.
LEMMA JudgedAsked ==
    ASSUME NEW b, NEW e, NEW r, NEW dc, NEW id \in Ids, NEW cb,
           Always(b), Stack(b, dc), Always(e), e.frames = b.frames,
           Len(e.calls) = Len(b.calls),
           \A k \in 1..Len(b.calls) - 1 : e.calls[k] = b.calls[k],
           b.calls # <<>> =>
               /\ Onward(LastOf(b.calls), LastOf(e.calls))
               /\ Wholes(LastOf(e.calls).todo)
               /\ LastOf(b.calls).active \/ LastOf(b.calls).todo # <<>>
               /\ Walk(LastOf(e.calls).raw, e.depth - LastOf(e.calls).frame,
                       TRUE, 0, FALSE),
           b.calls = <<>> => Source(<<>>, dc, 0, e.depth, TRUE),
           e.depth = Len(e.frames), Len(e.path) = Len(e.frames) - 1,
           ~e.suspendReq, cb = "suspend" /\ ~Replaying(e) => e.calls = <<>>,
           Judged(e, r, id, cb)
    PROVE  /\ Stack(r, dc) /\ Asked(r, dc)
           /\ ~r.dead => SuspendOK(r)
           /\ NotClosing(r) <=> NotClosing(b)
<1> DEFINE n  == Len(b.frames)
           l  == Len(b.calls)
           bs == b.calls
           cs == e.calls
           ds == r.calls
<1>1. /\ n \in Nat /\ n >= 1 /\ l \in Nat /\ Len(cs) = l
      /\ bs \in Seq(CallType) /\ cs \in Seq(CallType)
  <2>1. bs \in Seq(CallType) /\ cs \in Seq(CallType)
    BY DEF Always, Effect
  <2> QED
    BY <2>1, LenProperties DEF Always, Effect, Stack
<1>2. (bs = <<>> <=> l = 0) /\ (cs = <<>> <=> l = 0)
  BY <1>1, EmptySeq
<1>3. /\ Always(r) /\ r.path = Append(e.path, id) /\ r.depth = n
      /\ ds = Running(cs) /\ Len(r.frames) = n /\ r.frames[n].ph = "phValue"
      /\ \A k \in 1..n - 1 : r.frames[k] = b.frames[k]
      /\ r.frames[n].deferred \in {b.frames[n].deferred, <<>>}
      /\ ~r.dead => /\ cb = "suspend" => ~Replaying(e)
                    /\ r.suspendReq = (e.suspendReq \/ cb = "suspend")
  BY DEF Judged
<1>4. /\ ds \in Seq(CallType) /\ Len(ds) = l
      /\ \A k \in 1..l :
            /\ ds[k].at = cs[k].at /\ ds[k].frame = cs[k].frame
            /\ ds[k].todo = cs[k].todo /\ ds[k].raw = cs[k].raw
            /\ ds[k].stale = cs[k].stale /\ ds[k].snap = cs[k].snap
            /\ ds[k].active = (k = l \/ cs[k].active)
      /\ \A k \in 1..l - 1 : ds[k] = cs[k]
  BY <1>1, <1>3, RunningOK
<1>5. l # 0 => /\ l \in 1..l /\ LastOf(bs) = bs[l] /\ LastOf(cs) = cs[l]
               /\ LastOf(ds) = ds[l] /\ ds # <<>>
  BY <1>1, <1>4, EmptySeq DEF LastOf
<1>6. l # 0 => ds[l].active
  BY <1>4, <1>5
<1>7. Near(b, r)
  <2>1. l # 0 => Onward(bs[l], ds[l]) /\ Wholes(ds[l].todo)
    <3> SUFFICES ASSUME l # 0 PROVE Onward(bs[l], ds[l]) /\ Wholes(ds[l].todo)
      OBVIOUS
    <3>1. /\ Onward(bs[l], cs[l]) /\ Wholes(cs[l].todo)
          /\ bs[l].active \/ bs[l].todo # <<>>
      BY <1>2, <1>5
    <3> QED
      BY <1>4, <1>5, <3>1 DEF Onward
  <2>2. \A k \in 1..l - 1 : ds[k] = bs[k]
    BY <1>4
  <2> QED
    BY <1>2, <1>3, <1>4, <1>5, <2>1, <2>2 DEF Near
<1>8. Stack(r, dc)
  BY <1>3, <1>7, NearOK
<1>9. InPair(r)
  <2>1. Len(r.path) = n
    <3>1. e.path \in Seq(Ids)
      BY DEF Always, Effect
    <3> QED
      BY <1>1, <1>3, <3>1, AppendProperties
  <2>2. ~Waits(r)
    <3>1. ds # <<>> => l # 0
      BY <1>4, EmptySeq
    <3> QED
      BY <1>5, <1>6, <3>1 DEF Waits
  <2> QED
    BY <1>3, <2>1, <2>2 DEF InPair, Top, LastOf
<1>10. Reads0(r, dc, TRUE)
  <2>1. CASE l = 0
    BY <1>2, <1>3, <1>4, <2>1 DEF Reads0, Source
  <2>2. CASE l # 0
    <3>1. Walk(cs[l].raw, n - cs[l].frame, TRUE, 0, FALSE)
      BY <1>2, <1>5, <2>2
    <3>2. Walk(ds[l].raw, n - ds[l].frame, TRUE, 0, FALSE)
      BY <1>4, <1>5, <2>2, <3>1
    <3> QED
      BY <1>3, <1>4, <1>6, <2>2, <3>2 DEF Reads0, Source
  <2> QED
    BY <2>1, <2>2
<1>11. ~r.dead => SuspendOK(r)
  <2>1. r.calls # <<>> => cs # <<>>
    BY <1>3 DEF Running
  <2> QED
    BY <1>3, <2>1 DEF SuspendOK
<1>12. NotClosing(r) <=> NotClosing(b)
  <2>1. \A k \in 1..l : ds[k].at = bs[k].at /\ ds[k].frame = bs[k].frame
    <3>1. \A k \in 1..l : (k = l /\ l # 0) \/ k \in 1..l - 1
      BY <1>1
    <3>2. l # 0 => Onward(bs[l], cs[l])
      BY <1>2, <1>5
    <3> QED
      BY <1>4, <3>1, <3>2 DEF Onward
  <2> QED
    BY <1>3, <1>4, <2>1, SMTT(40) DEF NotClosing, Closes
<1> QED
  BY <1>3, <1>8, <1>9, <1>10, <1>11, <1>12 DEF Asked

LEMMA AskedInv ==
    ASSUME NEW r, Becomes(r), Always(r), ~r.rootDone, RestType',
           ~r.dead => /\ Stack(r, doc') /\ SuspendOK(r) /\ Asked(r, doc')
                      /\ ~regOpen' /\ pendSet' /\ st' = "sIdle"
                      /\ kvRaw' \in Ids /\ (pend' = "Defer" => NotClosing(r))
    PROVE  IInv'
<1>1. Now' = r
  BY NowBecomes DEF Always
<1>2. dead' = r.dead /\ rootDone' = r.rootDone
  BY DEF Becomes
<1>3. Always(Now)' <=> Always(r)
  BY <1>1
<1>4. ASSUME ~r.dead PROVE Live'
  <2>1. /\ Stack(Now, doc)' <=> Stack(r, doc')
        /\ SuspendOK(Now)' <=> SuspendOK(r)
        /\ Asked(Now, doc)' <=> Asked(r, doc')
        /\ NotClosing(Now)' <=> NotClosing(r)
    BY <1>1
  <2>2. Pending'
    BY <1>4, <2>1 DEF Pending
  <2> QED
    BY <1>4, <2>1, <2>2 DEF Live
<1> QED
  BY <1>2, <1>3, <1>4 DEF IInv

\* Whether the next token is one that starts a value.
LEMMA SeesOK ==
    ASSUME Always(Now), RestType, NEW tok \in Tokens, Ready(tok),
           NEW v \in BOOLEAN, Reads0(Now, doc, v)
    PROVE  v = (tok \in {Simple, Open})
<1>1. calls \in Seq(CallType) /\ doc \in DocType
  BY NowIs DEF Always, Effect, RestType
<1>2. CASE calls = <<>>
  <2>1. v = (doc.value # 0)
    BY <1>2, NowIs DEF Reads0, Source
  <2>2. Grows(tok) /\ doc.last \in 0..MaxKeys
    BY <1>1, <1>2 DEF Ready, DocType
  <2>3. tok \in {Simple, Open} => doc.value # 0
    <3>1. doc.last + 1 # Simple /\ doc.last + 1 # Open
      BY <2>2, DeferralAssumption DEF Simple, Open
    <3> QED
      BY <2>2, <3>1, TokensApart DEF Grows
  <2>4. tok \notin {Simple, Open} => doc.value = 0
    BY <2>2, TokensApart DEF Grows
  <2>5. (doc.value # 0) = (tok \in {Simple, Open})
    BY <2>3, <2>4
  <2> QED
    BY <2>1, <2>5
<1>3. CASE calls # <<>>
  <2> DEFINE c == LastOf(calls)
             b == depth - c.frame
             s == c.raw
             no == FALSE
  <2>1. Len(calls) \in 1..Len(calls)
    BY <1>1, <1>3, EmptySeq
  <2>2. c \in CallType /\ s # <<>> /\ Head(s) = tok
    BY <1>1, <1>3, <2>1 DEF LastOf, Ready, call
  <2>3. s \in Seq(Tokens)
    BY <2>2 DEF CallType
  <2>4. Walk(s, b, v, 0, no)
    <3>1. Len(calls) # 0
      BY <2>1
    <3>2. Source(calls, doc, Len(calls), depth, v)
      BY <3>1, NowIs DEF Reads0
    <3>3. Walk(calls[Len(calls)].raw, depth - calls[Len(calls)].frame, v, 0, FALSE)
      BY <3>1, <3>2 DEF Source
    <3> QED
      BY <3>3 DEF LastOf
  <2> HIDE DEF s, b, no
  <2>5. b \in Nat
    BY <2>3, <2>4, WalkTypes
  <2>6. PICK m \in Nat, u \in BOOLEAN : Reading(b, v, Head(s), m, u)
    BY <2>2, <2>3, <2>4, WalkRest
  <2> QED
    BY <2>2, <2>5, <2>6, ReadingOK
<1> QED
  BY <1>2, <1>3

LEMMA KeyOK ==
    ASSUME IInv, UsedPlainly, NEW id \in Ids, NEW act \in Answers,
           NEW cb \in Callbacks, Key(id, act, cb)
    PROVE  IInv'
<1> DEFINE e == Consumed(Now)
           r == [Hook(cb, [e EXCEPT !.path = Append(@, id)]) EXCEPT
                     !.frames[Len(e.frames)].ph = "phValue",
                     !.calls = Running(@)]
<1>1. Ready(id) /\ ~regOpen
  BY DEF Key
<1>2. /\ ~dead /\ ~rootDone /\ ~suspendReq /\ st = "sIdle" /\ Live
      /\ Always(Now) /\ RestType
  BY <1>1 DEF Ready, Scanning, IInv
<1>3. Stack(Now, doc)
  BY <1>2 DEF Live
<1>4. id \in Tokens /\ id \notin {Simple, Open, Close} /\ Len(frames) >= 1
  BY <1>3, NowIs, TokensApart DEF Stack
<1>5. ~pendSet
  <2> SUFFICES ASSUME pendSet PROVE FALSE
    OBVIOUS
  <2>1. Asked(Now, doc)
    BY <1>1, <1>2 DEF Live, Pending
  <2> DEFINE yes == TRUE
  <2>2. yes \in BOOLEAN /\ Reads0(Now, doc, yes)
    BY <1>2, <2>1 DEF Asked
  <2> HIDE DEF yes
  <2>3. yes = (id \in {Simple, Open})
    BY <1>1, <1>2, <1>4, <2>2, SeesOK
  <2> QED
    BY <1>4, <2>3 DEF yes
<1>6. Rest(Now, doc)
  BY <1>1, <1>2, <1>5 DEF Live
<1>7. topFrame.ph # "phValue" /\ depth = Len(frames) /\ Len(path) = Len(frames) - 1
  BY <1>6, NowIs DEF Rest, Top, topFrame
<1>8. Dispatched(e, id, id, act, cb) /\ Reads(id)
  BY <1>7 DEF Key
<1>9. /\ Becomes(r) /\ pend' = act /\ pendSet' = TRUE /\ kvRaw' = id
      /\ frameCap' = frameCap /\ st' = st /\ suspended' = suspended
      /\ regOpen' = regOpen /\ regT' = regT /\ regDepth' = regDepth
      /\ regKey' = regKey /\ capBuf' = capBuf
  BY <1>8 DEF Dispatched, regVars
<1>10. ~Waits(Now)
  BY <1>1, NowIs DEF Ready, InReplay, call, Waits
<1>11. Reads0(Now, doc, FALSE)
  BY <1>6, <1>10 DEF Rest
<1>12. Reader(e, id, FALSE)
  <2> DEFINE no == FALSE
  <2>1. no \in BOOLEAN /\ Reads0(Now, doc, no) /\ depth >= 1
    BY <1>4, <1>7, <1>11
  <2> HIDE DEF no, e
  <2>2. Reader(Consumed(Now), id, no)
    BY <1>1, <1>2, <1>3, <1>4, <1>8, <2>1, ReaderOK
  <2> QED
    BY <2>2 DEF no, e
<1> HIDE DEF e
<1>13. /\ Always(e) /\ Near(Now, e) /\ ~Waits(e) /\ e.frames = frames
       /\ e.path = path /\ e.depth = depth /\ ~e.suspendReq /\ ~e.rootDone
       /\ \A k \in 1..Len(calls) : e.calls[k].frame = calls[k].frame
       /\ doc' \in DocType
       /\ calls # <<>> => doc' = doc
       /\ \A k \in 1..Len(calls) : calls[k].frame < depth
  BY <1>2, <1>12 DEF Reader
<1>14. Source(e.calls, doc', Len(e.calls), depth, TRUE)
  <2> DEFINE z == id \in Ids
  <2>1. depth + Turn(id) = depth
    <3>1. depth \in Nat
      BY <1>2, NowIs DEF Always, Effect
    <3> QED
      BY <1>4, <3>1 DEF Turn
  <2>2. z = TRUE
    OBVIOUS
  <2>3. Source(e.calls, doc', Len(e.calls), depth + Turn(id), z)
    BY <1>12 DEF Reader
  <2> HIDE DEF z
  <2> QED
    BY <2>1, <2>2, <2>3
<1>15. Stack(e, doc')
  BY <1>2, <1>3, <1>13, NowIs, NearOK
<1>16. Judged(e, r, id, cb)
  BY <1>4, <1>13, JudgedOK
<1> HIDE DEF r
<1>17. e.calls # <<>> => e.calls \in Seq(CallType) /\ Len(e.calls) # 0
  BY <1>13, EmptySeq DEF Always, Effect
<1>18. e.calls # <<>> =>
           /\ Onward(LastOf(e.calls), LastOf(e.calls)) /\ Wholes(LastOf(e.calls).todo)
           /\ LastOf(e.calls).active
           /\ Walk(LastOf(e.calls).raw, e.depth - LastOf(e.calls).frame, TRUE, 0, FALSE)
  <2> SUFFICES ASSUME e.calls # <<>>
               PROVE  /\ Onward(LastOf(e.calls), LastOf(e.calls))
                      /\ Wholes(LastOf(e.calls).todo) /\ LastOf(e.calls).active
                      /\ Walk(LastOf(e.calls).raw, e.depth - LastOf(e.calls).frame,
                              TRUE, 0, FALSE)
    OBVIOUS
  <2>1. Onward(LastOf(e.calls), LastOf(e.calls)) /\ Wholes(LastOf(e.calls).todo)
    BY <1>13, <1>15, OnwardSame
  <2>2. LastOf(e.calls).active
    BY <1>13 DEF Waits
  <2>3. Walk(LastOf(e.calls).raw, e.depth - LastOf(e.calls).frame, TRUE, 0, FALSE)
    BY <1>13, <1>14, <1>17 DEF Source, LastOf
  <2> QED
    BY <2>1, <2>2, <2>3
<1>19. e.calls = <<>> => Source(<<>>, doc', 0, e.depth, TRUE)
  BY <1>13, <1>14
<1>20. cb = "suspend" /\ ~Replaying(e) => e.calls = <<>>
  <2> SUFFICES ASSUME e.calls # <<>> PROVE Replaying(e)
    OBVIOUS
  <2>1. LastOf(e.calls).active /\ Len(e.calls) \in 1..Len(e.calls)
    BY <1>13, <1>15, <1>18, OnwardSame
  <2> QED
    BY <2>1 DEF Replaying, LastOf
<1>21. /\ Stack(r, doc') /\ Asked(r, doc')
       /\ ~r.dead => SuspendOK(r)
       /\ NotClosing(r) <=> NotClosing(e)
  <2>1. /\ e.depth = Len(e.frames) /\ Len(e.path) = Len(e.frames) - 1
        /\ \A k \in 1..Len(e.calls) - 1 : e.calls[k] = e.calls[k]
    BY <1>7, <1>13
  <2> QED
    BY <1>13, <1>15, <1>16, <1>18, <1>19, <1>20, <2>1, JudgedAsked
<1>22. NotClosing(e)
  <2>1. Len(e.calls) = Len(calls)
    BY <1>13, NowIs DEF Near
  <2>2. \A k \in 1..Len(calls) : calls[k].frame \in 1..Len(frames)
    BY <1>2, NowIs DEF Always
  <2>3. depth \in Nat
    BY <1>2, NowIs DEF Always, Effect
  <2> QED
    BY <1>7, <1>13, <2>1, <2>2, <2>3 DEF NotClosing
<1>23. RestType'
  <2>1. regOpen \in BOOLEAN /\ suspended \in BOOLEAN
    BY <1>2, Zenon DEF RestType
  <2>2. regOpen' \in BOOLEAN /\ suspended' \in BOOLEAN /\ pendSet' \in BOOLEAN
    BY <1>9, <2>1
  <2>3. kvRaw' \in 0..MaxKeys
    BY <1>9 DEF Ids
  <2> QED
    BY <1>2, <1>9, <1>13, <2>2, <2>3 DEF RestType
<1>24. Always(r) /\ ~r.rootDone
  BY <1>13, <1>16 DEF Judged
<1> QED
  BY <1>1, <1>2, <1>9, <1>21, <1>22, <1>23, <1>24, AskedInv

LEMMA ValueOK ==
    ASSUME IInv, NEW tok \in Tokens, Value(tok)
    PROVE  IInv'
<1> DEFINE e == Consumed(Now)
           d == IF tok = Open THEN e.depth + 1 ELSE e.depth
           x == [e EXCEPT !.depth = d]
           w == [pushFrame(e) EXCEPT !.depth = @ + 1]
           y == depth + Turn(tok)
           copy == IF pend = "Pass" THEN <<>> ELSE <<tok>>
           no == FALSE
           yes == TRUE
<1>1. tok \in {Simple, Open} /\ Ready(tok) /\ ~regOpen
  BY DEF Value
<1>2. /\ ~dead /\ ~rootDone /\ ~suspendReq /\ st = "sIdle" /\ Live
      /\ Always(Now) /\ RestType
  BY <1>1 DEF Ready, Scanning, IInv
<1>3. Stack(Now, doc)
  BY <1>2 DEF Live
<1>4. tok \notin Ids /\ Len(frames) >= 1 /\ depth \in Nat
  <2>1. depth \in Nat
    BY <1>2, NowIs DEF Always, Effect
  <2> QED
    BY <1>1, <1>3, <2>1, NowIs, TokensApart DEF Stack
<1>5. pendSet
  <2> SUFFICES ASSUME ~pendSet PROVE FALSE
    OBVIOUS
  <2>1. Rest(Now, doc)
    BY <1>1, <1>2 DEF Live
  <2>2. ~Waits(Now)
    BY <1>1, NowIs DEF Ready, InReplay, call, Waits
  <2>3. no \in BOOLEAN /\ Reads0(Now, doc, no)
    BY <2>1, <2>2 DEF Rest
  <2> HIDE DEF no
  <2>4. no = (tok \in {Simple, Open})
    BY <1>1, <1>2, <2>3, SeesOK
  <2> QED
    BY <1>1, <2>4 DEF no
<1>6. /\ Asked(Now, doc) /\ kvRaw \in Ids
      /\ pend = "Defer" => NotClosing(Now)
  BY <1>1, <1>2, <1>5 DEF Live, Pending
<1>7. /\ InPair(Now) /\ depth = Len(frames) /\ depth >= 1 /\ Len(path) = Len(frames)
      /\ topFrame.ph = "phValue" /\ Top(Now) = topFrame
  BY <1>4, <1>6, NowIs DEF Asked, InPair, Top, topFrame
<1>8. /\ pendSet' = FALSE /\ Reads(tok) /\ pend' = pend /\ kvRaw' = kvRaw
      /\ suspended' = suspended
      /\ pend = "Enter" => /\ regOpen' = regOpen /\ regT' = regT
                           /\ regDepth' = regDepth /\ regKey' = regKey
                           /\ capBuf' = capBuf /\ st' = st
  BY <1>7 DEF Value, regVars
<1>9. Reader(e, tok, TRUE)
  <2>1. yes \in BOOLEAN /\ Reads0(Now, doc, yes)
    BY <1>6 DEF Asked
  <2> HIDE DEF yes, e
  <2>2. Reader(Consumed(Now), tok, yes)
    BY <1>1, <1>2, <1>3, <1>7, <1>8, <2>1, ReaderOK
  <2> QED
    BY <2>2 DEF yes, e
<1>10. /\ pend = "Enter" /\ tok = Simple =>
            Becomes(Bailed(Now, "unsupported")) /\ frameCap' = frameCap
       /\ pend = "Enter" /\ tok = Open =>
            /\ Becomes(w)
            /\ frameCap' = IF Len(frames) = frameCap THEN 2 * frameCap ELSE frameCap
  BY <1>1, <1>7, TokensApart DEF Value
<1>11. pend # "Enter" =>
            /\ Becomes(x) /\ frameCap' = frameCap
            /\ regOpen' = TRUE /\ regT' = TargetOf(pend) /\ regDepth' = depth
            /\ regKey' = IF pend = "Defer" THEN LastOf(path) ELSE regKey
            /\ capBuf' = copy /\ st' = IF tok = Simple THEN "sInStr" ELSE "sIdle"
  <2>1. [e EXCEPT !.depth = IF tok = Open THEN @ + 1 ELSE @] = x
    OBVIOUS
  <2> HIDE DEF e, x, w
  <2>2. pend # "Enter" => Becomes([e EXCEPT !.depth = IF tok = Open THEN @ + 1 ELSE @])
    BY <1>7 DEF Value, e
  <2>3. pend # "Enter" =>
            /\ frameCap' = frameCap
            /\ regOpen' = TRUE /\ regT' = TargetOf(pend) /\ regDepth' = depth
            /\ regKey' = IF pend = "Defer" THEN LastOf(path) ELSE regKey
            /\ capBuf' = copy /\ st' = IF tok = Simple THEN "sInStr" ELSE "sIdle"
    BY <1>7 DEF Value
  <2> QED
    BY <2>1, <2>2, <2>3
<1> HIDE DEF e, copy
<1>12. /\ Always(e) /\ Near(Now, e) /\ ~Waits(e) /\ e.frames = frames
       /\ e.path = path /\ e.depth = depth /\ ~e.suspendReq /\ ~e.rootDone /\ ~e.dead
       /\ \A k \in 1..Len(calls) : e.calls[k].frame = calls[k].frame
                                   /\ e.calls[k].at = calls[k].at
       /\ doc' \in DocType
       /\ calls # <<>> => doc' = doc
  BY <1>2, <1>9 DEF Reader
<1>13. Source(e.calls, doc', Len(e.calls), y, no)
  <2> DEFINE z == tok \in Ids
  <2>1. z = no
    BY <1>4
  <2>2. Source(e.calls, doc', Len(e.calls), depth + Turn(tok), z)
    BY <1>9 DEF Reader
  <2> HIDE DEF z, no
  <2> QED
    BY <2>1, <2>2
<1>14. Stack(e, doc') /\ Top(e) = topFrame
  <2>1. Stack(e, doc')
    BY <1>2, <1>3, <1>12, NowIs, NearOK
  <2> QED
    BY <1>12, <2>1 DEF Top, topFrame
<1>15. suspended' \in BOOLEAN /\ pendSet' \in BOOLEAN /\ regOpen \in BOOLEAN
  <2>1. suspended \in BOOLEAN /\ regOpen \in BOOLEAN
    BY <1>2, Zenon DEF RestType
  <2> QED
    BY <1>8, <2>1
<1>16. CASE pend = "Enter" /\ tok = Simple
  <2> DEFINE r == Bailed(Now, "unsupported")
  <2>1. Always(r) /\ r.dead /\ r.rootDone = rootDone
    BY <1>2, NowIs, BailedOK DEF Kept
  <2>2. Becomes(r) /\ frameCap' = frameCap
    BY <1>10, <1>16
  <2> HIDE DEF r
  <2>3. Stops(r, doc')
    BY <1>2, <2>1 DEF Stops
  <2>4. regOpen' \in BOOLEAN
    BY <1>8, <1>15, <1>16
  <2>5. RestType'
    BY <1>2, <1>8, <1>12, <1>15, <1>16, <2>2, <2>4 DEF RestType
  <2> QED
    BY <2>1, <2>2, <2>3, <2>5, StopsInv
<1>17. CASE pend = "Enter" /\ tok = Open
  <2>1. Entered(e, w)
    BY <1>12, EnteredOK
  <2>2. Becomes(w) /\ frameCap' = IF Len(frames) = frameCap THEN 2 * frameCap
                                                            ELSE frameCap
    BY <1>10, <1>17
  <2> HIDE DEF w
  <2>3. /\ Stack(w, doc') /\ ~Waits(w) /\ Top(w).ph = "phKey"
        /\ \A v : \A k : Source(e.calls, doc', Len(e.calls), k, v) =>
                         Source(w.calls, doc', Len(w.calls), k, v)
    BY <1>7, <1>12, <1>14, <2>1, EnterStack
  <2>4. w.depth = y /\ y = Len(w.frames) /\ Len(w.path) = Len(w.frames) - 1
        /\ ~w.suspendReq /\ ~w.rootDone /\ ~w.dead /\ Always(w)
    BY <1>4, <1>7, <1>12, <1>17, <2>1 DEF Entered, Turn
  <2>5. Reads0(w, doc', FALSE)
    <3> HIDE DEF y, no
    <3>1. Source(w.calls, doc', Len(w.calls), y, no)
      BY <1>13, <2>3
    <3>2. Reads0(w, doc', no)
      BY <2>4, <3>1 DEF Reads0
    <3> QED
      BY <3>2 DEF no
  <2>6. Rest(w, doc')
    BY <2>3, <2>4, <2>5 DEF Rest
  <2>7. Stops(w, doc')
    BY <2>3, <2>4, <2>6 DEF Stops, AtRest, SuspendOK
  <2>8. RestType'
    <3>1. regOpen' \in BOOLEAN
      BY <1>8, <1>15, <1>17
    <3>2. frameCap' \in Nat
      BY <1>2, <2>2 DEF RestType
    <3> QED
      BY <1>2, <1>8, <1>12, <1>15, <1>17, <3>1, <3>2 DEF RestType
  <2> QED
    BY <1>1, <1>2, <1>8, <1>17, <2>2, <2>7, <2>8, StopsInv
<1>18. CASE pend # "Enter"
  <2>1. d = y /\ d = e.depth + Turn(tok)
    BY <1>1, <1>4, <1>12, TokensApart DEF Turn
  <2> HIDE DEF d
  <2>2. Turned(e, x, tok)
    BY <1>7, <1>12, <2>1, TurnedOK
  <2> HIDE DEF x
  <2>3. /\ Becomes(x) /\ frameCap' = frameCap /\ regOpen' = TRUE
        /\ regT' = TargetOf(pend) /\ regDepth' = depth
        /\ regKey' = IF pend = "Defer" THEN LastOf(path) ELSE regKey
        /\ capBuf' = copy /\ st' = IF tok = Simple THEN "sInStr" ELSE "sIdle"
    BY <1>11, <1>18
  <2>4. /\ Stack(x, doc') /\ ~Waits(x) /\ Top(x) = topFrame
        /\ NotClosing(x) <=> NotClosing(e)
    BY <1>12, <1>14, <2>2, TurnedStack
  <2>5. /\ Always(x) /\ x.frames = frames /\ x.path = path /\ x.calls = e.calls
        /\ x.depth = y /\ ~x.suspendReq /\ ~x.rootDone /\ ~x.dead
    BY <1>12, <2>1, <2>2 DEF Turned
  <2>6. NotClosing(Now) => NotClosing(x)
    <3>1. Len(e.calls) = Len(calls)
      BY <1>12, NowIs DEF Near
    <3>2. NotClosing(Now) => NotClosing(e)
      BY <1>12, <3>1, NowIs DEF NotClosing, Closes
    <3> QED
      BY <2>4, <3>2
  <2>7. Now' = x
    BY <2>3, <2>5, NowBecomes DEF Always
  <2>8. dead' = x.dead /\ rootDone' = x.rootDone /\ depth' = y /\ frames' = frames
    BY <2>3, <2>5 DEF Becomes
  <2>9. InPair(x) /\ SuspendOK(x)
    BY <1>7, <2>4, <2>5 DEF InPair, SuspendOK
  <2>10. Reads0(x, doc', no)
    <3> HIDE DEF y, no
    <3> QED
      BY <1>13, <2>5 DEF Reads0
  <2>11. path \in Seq(Ids) /\ LastOf(path) \in Ids
    <3>1. path \in Seq(Ids)
      BY <1>2, NowIs DEF Always, Effect
    <3>2. path # <<>>
      BY <1>7, <3>1, EmptySeq
    <3> QED
      BY <3>1, <3>2, FrontOK
  <2>12. regT' = "rtDefer" <=> pend = "Defer"
    <3>1. pend \in Answers
      BY <1>2 DEF RestType
    <3> QED
      BY <1>18, <2>3, <3>1 DEF TargetOf, Answers
  <2>13. copy \in Seq(Tokens) /\ capBuf \in Seq(Tokens)
    <3>1. capBuf \in Seq(Tokens) /\ <<tok>> \in Seq(Tokens)
      BY <1>2 DEF RestType
    <3>2. <<>> \in Seq(Tokens)
      BY EmptySeq
    <3> QED
      BY <3>1, <3>2 DEF copy
  <2>14. RestType'
    <3>1. regOpen' \in BOOLEAN
      BY <2>3
    <3>2. regT' \in {"rtNone", "rtOut", "rtCapture", "rtDefer"}
      <4>1. pend \in Answers
        BY <1>2 DEF RestType
      <4> QED
        BY <2>3, <4>1 DEF TargetOf, Answers
    <3>3. regKey' \in 0..MaxKeys
      <4>1. regKey \in 0..MaxKeys
        BY <1>2 DEF RestType
      <4> QED
        BY <2>3, <2>11, <4>1 DEF Ids
    <3>4. st' \in {"sIdle", "sInStr"} /\ regDepth' \in Nat
      BY <1>4, <2>3
    <3> QED
      BY <1>2, <1>8, <1>12, <1>15, <2>3, <2>13, <3>1, <3>2, <3>3, <3>4 DEF RestType
  <2>15. regT' = "rtDefer" => Walk(capBuf', 0, TRUE, depth' - regDepth', no)
    <3> SUFFICES ASSUME regT' = "rtDefer"
                 PROVE  Walk(capBuf', 0, TRUE, depth' - regDepth', no)
      OBVIOUS
    <3> DEFINE none == <<>>
               m == Turn(tok)
    <3>1. none \in Seq(Tokens) /\ yes \in BOOLEAN /\ no \in BOOLEAN /\ m \in Nat
      BY <1>1, EmptySeq, TokensApart DEF Turn
    <3>2. Reading(0, yes, tok, m, no)
      BY <1>1, TokensApart DEF Reading, Turn
    <3>3. capBuf' = Append(none, tok)
      BY <2>3, <2>12 DEF copy
    <3>4. depth' - regDepth' = m
      BY <1>4, <2>3, <2>8, <3>1
    <3> HIDE DEF none, yes, no, m
    <3>5. Walk(none, 0, yes, 0, yes)
      BY <3>1, WalkNone DEF none
    <3>6. Walk(Append(none, tok), 0, yes, m, no)
      BY <3>1, <3>2, <3>5, WalkOn
    <3>7. Walk(capBuf', 0, yes, depth' - regDepth', no)
      BY <3>3, <3>4, <3>6
    <3> QED
      BY <3>7 DEF yes
  <2>16. InRegion'
    <3>1. NotClosing(Now)' <=> NotClosing(x)
      BY <2>7
    <3>2. no \in BOOLEAN /\ ~no
      OBVIOUS
    <3>3. Reads0(Now', doc', no)
      BY <2>7, <2>10
    <3>4. IF st' = "sIdle" THEN depth' > regDepth' ELSE depth' = regDepth'
      BY <1>1, <1>4, <2>3, <2>8, TokensApart DEF Turn
    <3> HIDE DEF no
    <3>5. \E v \in BOOLEAN :
            /\ Reads0(Now', doc', v)
            /\ st' = "sInStr" => ~v
            /\ regT' = "rtDefer" => Walk(capBuf', 0, TRUE, depth' - regDepth', v)
      BY <3>2, <3>3, <2>15
    <3>6. regT' = "rtDefer" => NotClosing(Now)' /\ kvRaw' \in Ids /\ regKey' \in Ids
      BY <1>6, <1>8, <2>3, <2>6, <2>11, <2>12, <3>1
    <3>7. InPair(Now)'
      BY <2>7, <2>9
    <3> QED
      BY <1>7, <2>3, <2>8, <3>4, <3>5, <3>6, <3>7 DEF InRegion
  <2>17. Live'
    <3>1. Stack(Now, doc)' /\ SuspendOK(Now)'
      BY <2>4, <2>7, <2>9
    <3> QED
      BY <1>8, <2>3, <2>16, <3>1 DEF Live
  <2>18. Always(Now)'
    BY <2>5, <2>7
  <2> QED
    BY <2>5, <2>8, <2>14, <2>17, <2>18 DEF IInv
<1> QED
  BY <1>1, <1>16, <1>17, <1>18

\* The closing of the frame on top goes on as the call c.
LEMMA ClosesOK ==
    ASSUME NEW h, NEW r, NEW c \in CallType, NEW dc, Always(h), Stack(h, dc),
           Always(r), Pushed(h, r, c), Closes(c), r.depth = h.depth, r.path = h.path,
           h.depth = Len(h.frames), Len(h.path) = Len(h.frames) - 1,
           r.frames[Len(h.frames)].ph # "phValue",
           Source(h.calls, dc, Len(h.calls), h.depth - 1, FALSE),
           \A j \in 1..Len(h.calls) : h.calls[j].frame < h.depth,
           SuspendOK(r), ~r.rootDone
    PROVE  Stops(r, dc)
<1> DEFINE n == Len(h.frames)
<1>1. n \in Nat /\ n >= 1 /\ Len(r.frames) = n /\ c.frame = n
  <2>1. h.frames \in Seq(FrameType)
    BY DEF Always, Effect
  <2> QED
    BY <2>1, LenProperties DEF Stack, Pushed
<1>2. Back(c) = h.depth - 1
  BY <1>1 DEF Back, Closes
<1>3. \A j \in 1..Len(h.calls) : h.calls[j].frame <= Back(c)
  <2>1. \A j \in 1..Len(h.calls) : h.calls[j].frame \in 1..n
    BY DEF Always
  <2> QED
    BY <1>1, <1>2, <2>1
<1>4. Stack(r, dc) /\ Waits(r) /\ LastOf(r.calls) = c
  <2> DEFINE no == FALSE
             b == h.depth - 1
  <2>1. Source(h.calls, dc, Len(h.calls), b, no) /\ b = Back(c)
    BY <1>2
  <2> HIDE DEF no, b
  <2>2. Source(h.calls, dc, Len(h.calls), Back(c), no)
    BY <2>1
  <2>3. Source(h.calls, dc, Len(h.calls), Back(c), FALSE)
    BY <2>2, <1>1 DEF no
  <2> QED
    BY <1>3, <2>3, PushOK
<1>5. Rest(r, dc)
  BY <1>1, <1>4 DEF Rest, Top, LastOf
<1> QED
  BY <1>4, <1>5 DEF Stops, AtRest

LEMMA CloseFrameOK ==
    ASSUME IInv, UsedPlainly, NEW cb \in Callbacks \union {"releaseNow"},
           CloseFrame(cb)
    PROVE  IInv'
<1> DEFINE e == Consumed(Now)
           hb == IF cb = "releaseNow" THEN "nothing" ELSE cb
           h == Hook(hb, e)
           n == Len(frames)
           c == NewCall("leave", n, <<>>)
           x == [h EXCEPT !.calls = Append(@, c)]
           w == Released(h, "leave")
           no == FALSE
           yes == TRUE
<1>1. Ready(Close) /\ ~regOpen
  BY DEF CloseFrame
<1>2. /\ ~dead /\ ~rootDone /\ ~suspendReq /\ st = "sIdle" /\ Live
      /\ Always(Now) /\ RestType
  BY <1>1 DEF Ready, Scanning, IInv
<1>3. Stack(Now, doc)
  BY <1>2 DEF Live
<1>4. /\ Close \in Tokens /\ Close \notin Ids /\ Close \notin {Simple, Open}
      /\ n >= 1 /\ n \in Nat /\ depth \in Nat
  <2>1. depth \in Nat /\ frames \in Seq(FrameType)
    BY <1>2, NowIs DEF Always, Effect
  <2>2. n \in Nat
    BY <2>1, LenProperties
  <2> QED
    BY <1>3, <2>1, <2>2, NowIs, TokensApart DEF Stack
<1>5. ~pendSet
  <2> SUFFICES ASSUME pendSet PROVE FALSE
    OBVIOUS
  <2>1. yes \in BOOLEAN /\ Reads0(Now, doc, yes)
    BY <1>1, <1>2 DEF Live, Pending, Asked
  <2> HIDE DEF yes
  <2>2. yes = (Close \in {Simple, Open})
    BY <1>1, <1>2, <1>4, <2>1, SeesOK
  <2> QED
    BY <1>4, <2>2 DEF yes
<1>6. Rest(Now, doc)
  BY <1>1, <1>2, <1>5 DEF Live
<1>7. /\ topFrame.ph # "phValue" /\ depth = n /\ Len(path) = n - 1
      /\ frames[n].ph # "phValue"
  BY <1>6, NowIs DEF Rest, Top, topFrame, LastOf
<1>8. /\ Reads(Close)
      /\ cb = "suspend" => ~wantRelease
      /\ Becomes(IF h.dead THEN h ELSE IF cb = "releaseNow" THEN w ELSE x)
      /\ frameCap' = frameCap /\ pend' = pend /\ pendSet' = pendSet /\ kvRaw' = kvRaw
      /\ st' = st /\ suspended' = suspended
      /\ regOpen' = regOpen /\ regT' = regT /\ regDepth' = regDepth
      /\ regKey' = regKey /\ capBuf' = capBuf
  <2>1. h = IF cb = "releaseNow" THEN Hook("nothing", e) ELSE Hook(cb, e)
    OBVIOUS
  <2>2. CloseFrame(cb) /\ topFrame.ph # "phValue"
    BY <1>7
  <2> HIDE DEF h, e
  <2>3. Reads(Close) /\ UNCHANGED OthersOnClose
    BY <2>2 DEF CloseFrame
  <2>4. cb = "suspend" => ~wantRelease
    BY <2>2 DEF CloseFrame, UsedPlainly
  <2>5. Becomes(IF h.dead THEN h ELSE IF cb = "releaseNow" THEN w ELSE x)
    BY <2>1, <2>2 DEF CloseFrame, e, NewCall
  <2> QED
    BY <2>3, <2>4, <2>5 DEF OthersOnClose, regVars
<1>9. ~Waits(Now)
  BY <1>1, NowIs DEF Ready, InReplay, call, Waits
<1>10. Reader(e, Close, FALSE)
  <2>1. no \in BOOLEAN /\ Reads0(Now, doc, no) /\ depth >= 1
    BY <1>4, <1>6, <1>7, <1>9 DEF Rest
  <2> HIDE DEF no, e
  <2>2. Reader(Consumed(Now), Close, no)
    BY <1>1, <1>2, <1>3, <1>4, <1>8, <2>1, ReaderOK
  <2> QED
    BY <2>2 DEF no, e
<1> HIDE DEF e
<1>11. /\ Always(e) /\ Near(Now, e) /\ ~Waits(e) /\ e.frames = frames
       /\ e.path = path /\ e.depth = depth /\ ~e.suspendReq /\ ~e.rootDone
       /\ e.wantRelease = wantRelease
       /\ \A k \in 1..Len(calls) : e.calls[k].frame = calls[k].frame
       /\ doc' \in DocType
       /\ calls # <<>> => doc' = doc
       /\ \A k \in 1..Len(calls) : calls[k].frame < depth
       /\ Len(e.calls) = Len(calls)
  BY <1>2, <1>10, NowIs DEF Reader, Near
<1>12. Source(e.calls, doc', Len(e.calls), n - 1, FALSE)
  <2> DEFINE z == Close \in Ids
  <2>1. depth + Turn(Close) = n - 1
    BY <1>4, <1>7, TokensApart DEF Turn
  <2>2. z = no
    BY <1>4
  <2>3. Source(e.calls, doc', Len(e.calls), depth + Turn(Close), z)
    BY <1>10 DEF Reader
  <2> HIDE DEF z
  <2> QED
    BY <2>1, <2>2, <2>3
<1>13. Stack(e, doc')
  BY <1>2, <1>3, <1>11, NowIs, NearOK
<1>14. Hooked(e, h, hb)
  BY <1>4, <1>11, HookOK
<1> HIDE DEF h
<1>15. /\ Always(h) /\ h.path = path /\ h.depth = n /\ h.calls = e.calls
       /\ ~h.rootDone /\ Len(h.frames) = n /\ h.frames[n].ph # "phValue"
       /\ \A k \in 1..n - 1 : h.frames[k] = frames[k]
  <2>1. n \in 1..n
    BY <1>4
  <2> QED
    BY <1>7, <1>11, <1>14, <2>1 DEF Hooked, Kept
<1>16. Stack(h, doc')
  BY <1>11, <1>13, <1>14, <1>15, KeptStack DEF Hooked
<1>17. ~h.dead => /\ hb = "suspend" => ~Replaying(e)
                  /\ h.suspendReq = (hb = "suspend")
                  /\ h.wantRelease = (wantRelease \/ hb = "release")
  BY <1>11, <1>14 DEF Hooked
<1>18. RestType'
  <2>1. suspended \in BOOLEAN /\ regOpen \in BOOLEAN /\ pendSet \in BOOLEAN
    BY <1>2, Zenon DEF RestType
  <2>2. suspended' \in BOOLEAN /\ regOpen' \in BOOLEAN /\ pendSet' \in BOOLEAN
    BY <1>8, <2>1
  <2> QED
    BY <1>2, <1>8, <1>11, <2>2 DEF RestType
<1>19. \A j \in 1..Len(h.calls) : h.calls[j].frame < n
  BY <1>7, <1>11, <1>15
<1>20. CASE h.dead
  <2>1. Becomes(h)
    BY <1>8, <1>20
  <2>2. Stops(h, doc')
    BY <1>15, <1>20 DEF Stops
  <2> QED
    BY <1>18, <1>20, <2>1, <2>2, StopsInv
<1>21. CASE ~h.dead /\ cb = "releaseNow"
  <2> DEFINE b == NewCall("leave", n, Top(h).deferred)
  <2>1. Calls(h, w, b)
    BY <1>4, <1>15, ReleasedOK
  <2>2. Becomes(w)
    BY <1>8, <1>21
  <2> HIDE DEF w
  <2>3. Top(h) = h.frames[n] /\ Top(h).deferred \in Seq(Pairs)
    <3>1. h.frames \in Seq(FrameType) /\ n \in 1..Len(h.frames)
      BY <1>4, <1>15 DEF Always, Effect
    <3>2. h.frames[n] \in FrameType
      BY <3>1
    <3> QED
      BY <1>15, <3>2 DEF Top, LastOf, FrameType
  <2>4. /\ b \in CallType /\ b.at = "leave" /\ b.frame = n /\ b.todo = Top(h).deferred
        /\ ~b.active /\ ~b.stale
    BY <1>4, <2>3, NewCallOK
  <2> HIDE DEF b
  <2>5. Pushed(h, w, b)
    BY <1>15, <2>1, <2>3, <2>4 DEF Pushed, Calls
  <2>6. ~w.suspendReq
    BY <1>17, <1>21, <2>1 DEF Calls
  <2>7. w.frames[n].ph # "phValue"
    <3>1. n \in 1..n
      BY <1>4
    <3> QED
      BY <1>15, <2>1, <3>1 DEF Calls
  <2>8. /\ Always(w) /\ w.depth = h.depth /\ w.path = h.path /\ ~w.rootDone
        /\ w.dead = h.dead
    BY <1>15, <2>1 DEF Calls
  <2>9. Stops(w, doc')
    BY <1>7, <1>12, <1>15, <1>16, <1>19, <2>4, <2>5, <2>6, <2>7, <2>8, ClosesOK
        DEF Closes, SuspendOK
  <2> QED
    BY <1>1, <1>2, <1>5, <1>8, <1>18, <2>2, <2>9, StopsInv
<1>22. CASE ~h.dead /\ cb # "releaseNow"
  <2>1. Becomes(x)
    BY <1>8, <1>22
  <2>2. /\ c \in CallType /\ c.at = "leave" /\ c.frame = n /\ c.todo = <<>>
        /\ ~c.active /\ ~c.stale
    <3> DEFINE none == <<>>
    <3>1. none \in Seq(Pairs)
      BY EmptySeq
    <3> HIDE DEF none
    <3>2. /\ NewCall("leave", n, none) \in CallType
          /\ NewCall("leave", n, none).at = "leave"
          /\ NewCall("leave", n, none).frame = n
          /\ NewCall("leave", n, none).todo = none
          /\ ~NewCall("leave", n, none).active
          /\ ~NewCall("leave", n, none).stale
      BY <1>4, <3>1, NewCallOK
    <3> QED
      BY <3>2 DEF none
  <2> HIDE DEF c
  <2>3. h.calls \in Seq(CallType) /\ h \in Effect
    BY <1>15 DEF Always, Effect
  <2> DEFINE ds == Append(h.calls, c)
  <2>4. /\ ds \in Seq(CallType) /\ Len(ds) = Len(h.calls) + 1 /\ Len(h.calls) \in Nat
        /\ ds[Len(h.calls) + 1] = c /\ LastOf(ds) = c
        /\ \A k \in 1..Len(h.calls) : ds[k] = h.calls[k]
    BY <2>2, <2>3, AppendOK
  <2>5. x = [h EXCEPT !.calls = ds]
    BY <2>3 DEF Effect
  <2> HIDE DEF x, ds
  <2>6. /\ x \in Effect /\ x.calls = ds /\ x.frames = h.frames /\ x.depth = h.depth
        /\ x.path = h.path /\ x.rootDone = h.rootDone /\ x.dead = h.dead
        /\ x.suspendReq = h.suspendReq /\ x.wantRelease = h.wantRelease
        /\ x.deferredBytes = h.deferredBytes
    BY <2>3, <2>4, <2>5 DEF Effect
  <2>7. Always(x)
    <3>1. \A k \in 1..Len(ds) : ds[k].frame \in 1..n
      <4> SUFFICES ASSUME NEW k \in 1..Len(ds) PROVE ds[k].frame \in 1..n
        OBVIOUS
      <4>1. \A j \in 1..Len(h.calls) : h.calls[j].frame \in 1..n
        BY <1>15 DEF Always
      <4>2. k \in 1..Len(h.calls) \/ k = Len(h.calls) + 1
        BY <2>4
      <4>3. c.frame \in 1..n
        BY <1>4, <2>2
      <4> QED
        BY <2>4, <4>1, <4>2, <4>3
    <3> QED
      BY <1>15, <2>6, <3>1 DEF Always
  <2>8. Pushed(h, x, c)
    BY <1>15, <2>2, <2>6 DEF Pushed, ds
  <2>9. SuspendOK(x)
    <3> SUFFICES ASSUME x.suspendReq
                 PROVE  /\ Len(ds) = 1 /\ ~x.wantRelease
                        /\ c.at = "leave" /\ c.todo = <<>> /\ ~c.active
      BY <2>4, <2>6 DEF SuspendOK
    <3>1. hb = "suspend" /\ cb = "suspend" /\ ~Replaying(e)
      BY <1>17, <1>22, <2>6
    <3>2. e.calls = <<>>
      <4> SUFFICES ASSUME e.calls # <<>> PROVE FALSE
        OBVIOUS
      <4>1. LastOf(e.calls).active /\ Len(e.calls) \in 1..Len(e.calls)
        BY <1>11, <1>13, OnwardSame DEF Waits
      <4> QED
        BY <3>1, <4>1 DEF Replaying, LastOf
    <3>3. Len(ds) = 1
      BY <1>15, <2>4, <3>2
    <3>4. ~wantRelease /\ ~(hb = "release")
      BY <1>8, <3>1
    <3>5. ~x.wantRelease
      BY <1>17, <1>22, <2>6, <3>4
    <3> QED
      BY <2>2, <3>3, <3>5
  <2>10. Stops(x, doc')
    BY <1>7, <1>12, <1>15, <1>16, <1>19, <2>2, <2>6, <2>7, <2>8, <2>9, ClosesOK
        DEF Closes
  <2> QED
    BY <1>1, <1>2, <1>5, <1>8, <1>18, <2>1, <2>10, StopsInv
<1> QED
  BY <1>20, <1>21, <1>22

\* The state once the call on top has become d.
Called(e, d) ==
    /\ Always(e) /\ e.frames = frames /\ e.path = path /\ e.depth = depth
    /\ e.wantRelease = wantRelease /\ e.releaseAt = releaseAt
    /\ e.suspendReq = suspendReq /\ e.rootDone = rootDone
    /\ e.dead = dead /\ e.code = code
    /\ e.calls # <<>> /\ Len(e.calls) = Len(calls) /\ LastOf(e.calls) = d
    /\ \A k \in 1..Len(calls) - 1 : e.calls[k] = calls[k]

LEMMA CalledOK ==
    ASSUME Always(Now), calls # <<>>, NEW d \in CallType,
           d.frame = LastOf(calls).frame, NEW e,
           e = [Now EXCEPT !.calls = [calls EXCEPT ![Len(calls)] = d]]
    PROVE  Called(e, d)
<1> DEFINE l == Len(calls)
           ds == [calls EXCEPT ![l] = d]
<1>1. Now \in Effect /\ calls \in Seq(CallType) /\ l \in 1..l /\ l \in Nat
  <2>1. Now \in Effect
    BY DEF Always
  <2>2. calls \in Seq(CallType)
    BY <2>1, NowIs DEF Effect
  <2> QED
    BY <2>1, <2>2, EmptySeq, LenProperties
<1>2. /\ ds \in Seq(CallType) /\ Len(ds) = l /\ ds[l] = d
      /\ \A k \in 1..l : k # l => ds[k] = calls[k]
  <2> HIDE DEF l
  <2>1. /\ [calls EXCEPT ![l] = d] \in Seq(CallType)
        /\ Len([calls EXCEPT ![l] = d]) = Len(calls)
        /\ [calls EXCEPT ![l] = d][l] = d
        /\ \A k \in 1..Len(calls) : k # l => [calls EXCEPT ![l] = d][k] = calls[k]
    <3>1. l \in 1..Len(calls)
      BY <1>1 DEF l
    <3> QED
      BY <1>1, <3>1, ExceptSeq
  <2> QED
    BY <2>1 DEF l
<1>3. e = [Now EXCEPT !.calls = ds]
  OBVIOUS
<1> HIDE DEF ds
<1>4. /\ e \in Effect /\ e.frames = frames /\ e.path = path /\ e.depth = depth
      /\ e.wantRelease = wantRelease /\ e.releaseAt = releaseAt
      /\ e.suspendReq = suspendReq /\ e.rootDone = rootDone
      /\ e.dead = dead /\ e.code = code /\ e.deferredBytes = deferredBytes
      /\ e.calls = ds
  <2> DEFINE z == [Now EXCEPT !.calls = ds]
  <2>1. z \in Effect
    BY <1>1, <1>2 DEF Effect
  <2>2. /\ z.frames = frames /\ z.path = path /\ z.depth = depth
        /\ z.wantRelease = wantRelease /\ z.releaseAt = releaseAt
        /\ z.suspendReq = suspendReq /\ z.rootDone = rootDone
        /\ z.dead = dead /\ z.code = code /\ z.deferredBytes = deferredBytes
        /\ z.calls = ds
    BY DEF Now
  <2> HIDE DEF z
  <2> QED
    BY <1>3, <2>1, <2>2 DEF z
<1>5. \A k \in 1..l - 1 : k \in 1..l /\ k # l
  BY <1>1
<1>6. Always(e)
  <2>1. deferredBytes = Total(frames) /\ \A k \in 1..l : calls[k].frame \in 1..Len(frames)
    BY NowIs DEF Always
  <2>2. d.frame \in 1..Len(frames)
    BY <1>1, <2>1 DEF LastOf
  <2>3. \A k \in 1..l : ds[k].frame \in 1..Len(frames)
    BY <1>2, <2>1, <2>2
  <2> QED
    BY <1>2, <1>4, <2>1, <2>3 DEF Always
<1>7. ds # <<>> /\ LastOf(ds) = d
  BY <1>1, <1>2, EmptySeq DEF LastOf
<1> QED
  BY <1>2, <1>4, <1>5, <1>6, <1>7 DEF Called

\* Between two replays the scan is between two pairs.
LEMMA BetweenOK ==
    ASSUME IInv, Between
    PROVE  /\ ~dead /\ ~rootDone /\ Always(Now) /\ RestType /\ Stack(Now, doc)
           /\ SuspendOK(Now) /\ Rest(Now, doc) /\ Waits(Now)
           /\ ~regOpen /\ ~pendSet /\ st = "sIdle"
           /\ LastOf(calls) = call /\ call \in CallType /\ ~call.active
           /\ call.frame = Len(frames) /\ depth = Len(frames)
           /\ Len(path) = Len(frames) - 1 /\ topFrame.ph # "phValue"
           /\ Len(calls) \in 1..Len(calls) /\ Len(frames) >= 1
<1>1. /\ ~dead /\ calls # <<>> /\ ~call.active /\ Always(Now) /\ RestType
      /\ ~rootDone /\ Live
  BY DEF Between, IInv, Over
<1>2. Waits(Now) /\ LastOf(calls) = call
  BY <1>1, NowIs DEF Waits, call
<1>3. ~InPair(Now)
  BY <1>2 DEF InPair
<1>4. ~regOpen /\ ~pendSet /\ st = "sIdle" /\ Rest(Now, doc)
  BY <1>1, <1>3 DEF Live, InRegion, Pending, Asked
<1>5. Stack(Now, doc) /\ SuspendOK(Now)
  BY <1>1 DEF Live
<1>6. call \in CallType /\ Len(calls) \in 1..Len(calls) /\ Len(frames) >= 1
  BY <1>1, <1>2, <1>5, NowIs, OnwardSame DEF Stack
<1>7. /\ call.frame = Len(frames) /\ depth = Len(frames)
      /\ Len(path) = Len(frames) - 1 /\ topFrame.ph # "phValue"
  BY <1>2, <1>4, NowIs DEF Rest, Top, topFrame
<1> QED
  BY <1>1, <1>2, <1>4, <1>5, <1>6, <1>7

\* The next pair is taken off the call on top, its value to be read.
LEMMA NextPairOK ==
    ASSUME IInv, Between, call.todo # <<>>
    PROVE  LET kv == Head(call.todo)
               d == [call EXCEPT !.todo = Tail(@), !.raw = kv.raw]
               e == [Now EXCEPT !.calls[Len(calls)].todo = Tail(@),
                                !.calls[Len(calls)].raw = kv.raw]
           IN  /\ kv = call.todo[1] /\ kv.key \in Ids /\ kv.keyRaw \in Ids
               /\ d \in CallType /\ d.at = call.at /\ d.frame = call.frame
               /\ d.todo = Tail(call.todo) /\ d.raw = kv.raw
               /\ d.active = call.active
               /\ d.stale = call.stale /\ d.snap = call.snap
               /\ Called(e, d)
<1> DEFINE l == Len(calls)
           kv == Head(call.todo)
           d == [call EXCEPT !.todo = Tail(@), !.raw = kv.raw]
           e == [Now EXCEPT !.calls[Len(calls)].todo = Tail(@),
                            !.calls[Len(calls)].raw = kv.raw]
<1>2. /\ Always(Now) /\ LastOf(calls) = call /\ call \in CallType /\ l \in 1..l
  BY BetweenOK
<1>5. /\ calls \in Seq(CallType) /\ calls # <<>> /\ calls[l] = call
  BY <1>2, NowIs DEF Always, Effect, Between, LastOf
<1>6. /\ kv \in Pairs /\ Tail(call.todo) \in Seq(Pairs)
      /\ Len(Tail(call.todo)) = Len(call.todo) - 1 /\ call.todo \in Seq(Pairs)
      /\ \A j \in 1..Len(call.todo) - 1 : Tail(call.todo)[j] = call.todo[j + 1]
      /\ kv = call.todo[1] /\ Len(call.todo) \in Nat \ {0}
  <2>1. call.todo \in Seq(Pairs)
    BY <1>2 DEF CallType
  <2>2. Len(call.todo) \in Nat \ {0}
    BY <2>1, EmptySeq, LenProperties
  <2>3. call.todo[1] \in Pairs
    BY <2>1, <2>2
  <2> QED
    BY <2>1, <2>2, <2>3, HeadTailProperties
<1>7. kv.key \in Ids /\ kv.keyRaw \in Ids /\ kv.raw \in Seq(Tokens)
  BY <1>6 DEF Pairs
<1>9. e = [Now EXCEPT !.calls = [calls EXCEPT ![l] = d]]
  <2> DEFINE a == [call EXCEPT !.todo = Tail(@)]
             cs == [calls EXCEPT ![l] = a]
             m == [Now EXCEPT !.calls = cs]
             raw == kv.raw
  <2> HIDE DEF kv, raw
  <2>1. Now \in Effect /\ Now.calls = calls /\ DOMAIN calls = 1..l
    BY <1>2, <1>5, NowIs DEF Always
  <2>2. [Now EXCEPT !.calls[Len(calls)].todo = Tail(@)] = m
    BY <1>2, <1>5, <2>1
  <2>3. m.calls = cs /\ cs[l] = a
    BY <1>2, <2>1 DEF Effect
  <2>4. d = [a EXCEPT !.raw = raw]
    BY DEF raw
  <2>5. e = [m EXCEPT !.calls[Len(calls)].raw = raw]
    BY <2>2 DEF raw
  <2> HIDE DEF m, cs, a, e, d
  <2>6. e = [m EXCEPT !.calls = [cs EXCEPT ![l] = d]]
    BY <2>3, <2>4, <2>5
  <2>7. [cs EXCEPT ![l] = d] = [calls EXCEPT ![l] = d]
    BY DEF cs
  <2> QED
    BY <2>6, <2>7 DEF m
<1> HIDE DEF kv
<1>10. /\ d \in CallType /\ d.at = call.at /\ d.frame = call.frame
       /\ d.todo = Tail(call.todo) /\ d.raw = kv.raw /\ d.active = call.active
       /\ d.stale = call.stale /\ d.snap = call.snap
  BY <1>2, <1>6, <1>7 DEF CallType
<1> HIDE DEF d, e
<1>11. Called(e, d)
  BY <1>2, <1>5, <1>9, <1>10, CalledOK
<1>12. kv = call.todo[1] /\ kv.key \in Ids /\ kv.keyRaw \in Ids
  BY <1>6, <1>7
<1> QED
  BY <1>10, <1>11, <1>12 DEF kv, d, e

LEMMA ReplayNextOK ==
    ASSUME IInv, UsedPlainly, NEW act \in Answers, NEW cb \in Callbacks,
           ReplayNext(act, cb)
    PROVE  IInv'
<1> DEFINE n == Len(frames)
           l == Len(calls)
           kv == Head(call.todo)
           d == [call EXCEPT !.todo = Tail(@), !.raw = kv.raw]
           e == [Now EXCEPT !.calls[Len(calls)].todo = Tail(@),
                            !.calls[Len(calls)].raw = kv.raw]
           r == [Hook(cb, [e EXCEPT !.path = Append(@, kv.key)]) EXCEPT
                     !.frames[Len(e.frames)].ph = "phValue",
                     !.calls = Running(@)]
<1>1. /\ Between /\ call.todo # <<>> /\ cb # "suspend"
      /\ act = "Defer" => call.at = "value"
      /\ doc' = doc
  BY DEF ReplayNext, UsedPlainly
<1>2. /\ ~dead /\ ~rootDone /\ Always(Now) /\ RestType /\ Stack(Now, doc)
      /\ SuspendOK(Now) /\ Rest(Now, doc) /\ Waits(Now)
      /\ ~regOpen /\ ~pendSet /\ st = "sIdle"
      /\ LastOf(calls) = call /\ call \in CallType /\ ~call.active
      /\ call.frame = n /\ depth = n /\ Len(path) = n - 1
      /\ l \in 1..l /\ n >= 1
  BY <1>1, BetweenOK
<1>3. Dispatched(e, kv.key, kv.keyRaw, act, cb)
  BY DEF ReplayNext
<1>4. /\ Becomes(r) /\ pend' = act /\ pendSet' = TRUE /\ kvRaw' = kv.keyRaw
      /\ frameCap' = frameCap /\ st' = st /\ suspended' = suspended
      /\ regOpen' = regOpen /\ regT' = regT /\ regDepth' = regDepth
      /\ regKey' = regKey /\ capBuf' = capBuf
  <2> HIDE DEF e, kv
  <2> QED
    BY <1>3 DEF Dispatched, regVars, r
<1>5. /\ calls \in Seq(CallType) /\ calls # <<>> /\ calls[l] = call
  BY <1>1, <1>2, NowIs DEF Always, Effect, Between, LastOf
<1>6. /\ call.todo \in Seq(Pairs) /\ Len(call.todo) \in Nat \ {0}
      /\ Len(Tail(call.todo)) = Len(call.todo) - 1
      /\ \A j \in 1..Len(call.todo) - 1 : Tail(call.todo)[j] = call.todo[j + 1]
  <2>1. call.todo \in Seq(Pairs)
    BY <1>2 DEF CallType
  <2>2. Len(call.todo) \in Nat \ {0}
    BY <1>1, <2>1, EmptySeq, LenProperties
  <2> QED
    BY <1>1, <2>1, <2>2, HeadTailProperties
<1>7. /\ kv = call.todo[1] /\ kv.key \in Ids /\ kv.keyRaw \in Ids
      /\ d \in CallType /\ d.at = call.at /\ d.frame = call.frame
      /\ d.todo = Tail(call.todo) /\ d.raw = kv.raw /\ d.active = call.active
      /\ d.stale = call.stale /\ d.snap = call.snap
      /\ Called(e, d)
  BY <1>1, NextPairOK
<1>8. Whole(kv.raw) /\ Wholes(Tail(call.todo))
  <2>1. Wholes(call.todo)
    BY <1>2, <1>5, NowIs, OnwardSame
  <2>2. \A j \in 1..Len(call.todo) : Whole(call.todo[j].raw)
    BY <2>1 DEF Wholes
  <2>3. Whole(kv.raw)
    BY <1>6, <1>7, <2>2
  <2>4. \A j \in 1..Len(Tail(call.todo)) : Whole(Tail(call.todo)[j].raw)
    <3> TAKE j \in 1..Len(Tail(call.todo))
    <3>1. j \in 1..Len(call.todo) - 1 /\ j + 1 \in 1..Len(call.todo)
      BY <1>6
    <3> QED
      BY <1>6, <2>2, <3>1
  <2> QED
    BY <2>3, <2>4 DEF Wholes
<1> HIDE DEF kv, d, e
<1>12. /\ Always(e) /\ e.frames = frames /\ e.path = path /\ e.depth = n
       /\ e.suspendReq = suspendReq /\ e.rootDone = rootDone /\ e.calls # <<>>
       /\ Len(e.calls) = l /\ LastOf(e.calls) = d
       /\ \A k \in 1..l - 1 : e.calls[k] = calls[k]
  BY <1>2, <1>7 DEF Called
<1>13. Judged(e, r, kv.key, cb)
  BY <1>2, <1>7, <1>12, JudgedOK
<1> HIDE DEF r
<1>14. ~suspendReq
  BY <1>1, <1>2, <1>5, NowIs DEF SuspendOK
<1>15. Onward(call, d)
  BY <1>1, <1>7 DEF Onward
<1>16. Walk(d.raw, n - d.frame, TRUE, 0, FALSE)
  <2>1. n \in Nat
    BY <1>2, NowIs, LenProperties DEF Always, Effect
  <2>2. n - d.frame = 0
    BY <1>2, <1>7, <2>1
  <2> QED
    BY <1>8, <1>7, <2>2 DEF Whole
<1>17. /\ Stack(r, doc) /\ Asked(r, doc)
       /\ ~r.dead => SuspendOK(r)
       /\ NotClosing(r) <=> NotClosing(Now)
  BY ZenonT(60), <1>1, <1>2, <1>5, <1>7, <1>8, <1>12, <1>13, <1>14, <1>15, <1>16,
     NowIs, JudgedAsked
<1>18. act = "Defer" => NotClosing(Now)
  <2> SUFFICES ASSUME act = "Defer", NEW k \in 1..l, Closes(calls[k]), calls[k].frame = n
               PROVE  FALSE
    BY NowIs DEF NotClosing
  <2>1. k # l
    BY <1>1, <1>5 DEF Closes
  <2>2. l \in k + 1..l
    BY <1>2, <2>1
  <2>3. Closing(Now)
    BY <1>2 DEF Stack
  <2>4. calls[l].todo = <<>>
    BY <1>2, <1>5, <2>2, <2>3, NowIs DEF Closing
  <2> QED
    BY <1>1, <1>5, <2>4
<1>19. RestType'
  <2>1. regOpen \in BOOLEAN /\ suspended \in BOOLEAN
    BY <1>2, Zenon DEF RestType
  <2>2. regOpen' \in BOOLEAN /\ suspended' \in BOOLEAN /\ pendSet' \in BOOLEAN
    BY <1>4, <2>1
  <2>3. kvRaw' \in 0..MaxKeys
    BY <1>4, <1>7 DEF Ids
  <2> QED
    BY <1>1, <1>2, <1>4, <2>2, <2>3 DEF RestType
<1>20. Always(r) /\ ~r.rootDone
  BY <1>2, <1>12, <1>13 DEF Judged
<1> QED
  BY <1>1, <1>2, <1>4, <1>7, <1>17, <1>18, <1>19, <1>20, AskedInv

LEMMA ReplayEndOK ==
    ASSUME IInv, ReplayEnd
    PROVE  IInv'
<1> DEFINE n == Len(frames)
           l == Len(calls)
           none == <<>>
           no == FALSE
           d == [call EXCEPT !.raw = <<>>, !.active = FALSE]
           e == [Now EXCEPT !.calls[Len(calls)].raw = <<>>,
                            !.calls[Len(calls)].active = FALSE]
<1>1. /\ ~dead /\ calls # <<>> /\ call.active /\ st = "sIdle" /\ doc' = doc
      /\ frameCap' = frameCap /\ pend' = pend /\ pendSet' = pendSet /\ kvRaw' = kvRaw
      /\ st' = st /\ suspended' = suspended
      /\ regOpen' = regOpen /\ regT' = regT /\ regDepth' = regDepth
      /\ regKey' = regKey /\ capBuf' = capBuf
  BY DEF ReplayEnd, InReplay, OthersOnClose, regVars
<1>2. Becomes(e) /\ (call.raw = <<>> \/ suspendReq)
  BY DEF ReplayEnd
<1>3. Always(Now) /\ RestType /\ ~rootDone /\ Live /\ Stack(Now, doc) /\ SuspendOK(Now)
  BY <1>1 DEF IInv, Over, Live
<1>4. /\ calls \in Seq(CallType) /\ LastOf(calls) = call /\ calls[l] = call
      /\ call \in CallType /\ l \in 1..l /\ n >= 1 /\ n \in Nat
      /\ Wholes(call.todo) /\ Onward(call, call)
  <2>1. LastOf(calls) = call /\ calls[l] = call
    BY DEF LastOf, call
  <2>2. calls \in Seq(CallType) /\ frames \in Seq(FrameType)
    BY <1>3, NowIs DEF Always, Effect
  <2> QED
    BY <1>1, <1>3, <2>1, <2>2, NowIs, OnwardSame, LenProperties DEF Stack
<1>5. ~suspendReq /\ call.raw = <<>>
  BY <1>1, <1>2, <1>3, <1>4, NowIs DEF SuspendOK
<1>6. call.frame \in 1..n /\ depth \in Nat
  <2>1. call.frame \in 1..n
    BY <1>3, <1>4, NowIs DEF Always
  <2> QED
    BY <1>3, <2>1, NowIs DEF Always, Effect
<1>7. \A v \in BOOLEAN : Reads0(Now, doc, v) => depth = call.frame /\ ~v
  <2> SUFFICES ASSUME NEW v \in BOOLEAN, Reads0(Now, doc, v)
               PROVE  depth = call.frame /\ ~v
    OBVIOUS
  <2> DEFINE b == depth - call.frame
  <2>1. l # 0 /\ none \in Seq(Tokens)
    BY <1>4, EmptySeq
  <2>2. Source(calls, doc, l, depth, v)
    BY <2>1, NowIs DEF Reads0
  <2>3. Walk(call.raw, depth - call.frame, v, 0, FALSE)
    BY <1>4, <2>1, <2>2 DEF Source
  <2>4. Walk(none, b, v, 0, no)
    BY <1>5, <2>3
  <2> HIDE DEF b, no
  <2>5. b \in Nat
    BY <2>1, <2>4, WalkTypes
  <2>6. 0 = b /\ no = v
    BY <2>4, <2>5, WalkNone
  <2> QED
    BY <1>6, <2>6 DEF b, no
<1>8. ~regOpen
  <2> SUFFICES ASSUME regOpen PROVE FALSE
    OBVIOUS
  <2>1. InRegion
    BY <1>3 DEF Live
  <2>2. regDepth = n /\ depth > regDepth /\ \E v \in BOOLEAN : Reads0(Now, doc, v)
    BY <1>1, <2>1 DEF InRegion
  <2>3. depth = call.frame
    BY <1>7, <2>2
  <2> QED
    BY <1>4, <1>6, <2>2, <2>3
<1>9. ~pendSet
  <2> SUFFICES ASSUME pendSet PROVE FALSE
    OBVIOUS
  <2>1. Reads0(Now, doc, TRUE)
    BY <1>3, <1>8 DEF Live, Pending, Asked
  <2>2. TRUE \in BOOLEAN /\ (Reads0(Now, doc, TRUE) => ~TRUE)
    BY <1>7
  <2> QED
    BY <2>1, <2>2
<1>10. Rest(Now, doc) /\ depth = n /\ call.frame = n
  <2>1. Rest(Now, doc) /\ ~Waits(Now)
    BY <1>1, <1>3, <1>4, <1>8, <1>9, NowIs DEF Live, Waits
  <2>2. Reads0(Now, doc, FALSE) /\ FALSE \in BOOLEAN
    BY <2>1 DEF Rest
  <2>3. depth = call.frame
    BY <1>7, <2>2
  <2> QED
    BY <2>1, <2>3, NowIs DEF Rest
<1>11. e = [Now EXCEPT !.calls = [calls EXCEPT ![l] = d]]
  <2> DEFINE a == [call EXCEPT !.raw = <<>>]
             cs == [calls EXCEPT ![l] = a]
             m == [Now EXCEPT !.calls = cs]
  <2>1. Now \in Effect /\ Now.calls = calls /\ DOMAIN calls = 1..l
    BY <1>3, <1>4, NowIs DEF Always
  <2>2. [Now EXCEPT !.calls[Len(calls)].raw = <<>>] = m
    BY <1>4, <2>1
  <2>3. m.calls = cs /\ cs[l] = a
    BY <1>4, <2>1 DEF Effect
  <2>4. d = [a EXCEPT !.active = FALSE]
    OBVIOUS
  <2>5. e = [m EXCEPT !.calls[Len(calls)].active = FALSE]
    BY <2>2
  <2> HIDE DEF m, cs, a, e, d
  <2>6. e = [m EXCEPT !.calls = [cs EXCEPT ![l] = d]]
    BY <2>3, <2>4, <2>5
  <2>7. [cs EXCEPT ![l] = d] = [calls EXCEPT ![l] = d]
    BY DEF cs
  <2> QED
    BY <2>6, <2>7 DEF m
<1>12. /\ d \in CallType /\ d.at = call.at /\ d.frame = call.frame
       /\ d.todo = call.todo /\ ~d.active
       /\ d.stale = call.stale /\ d.snap = call.snap
  <2>1. none \in Seq(Tokens)
    BY EmptySeq
  <2> HIDE DEF none
  <2>2. [call EXCEPT !.raw = none, !.active = FALSE] \in CallType
    BY <1>4, <2>1 DEF CallType
  <2> QED
    BY <1>4, <2>2 DEF CallType, none
<1> HIDE DEF d, e
<1>13. Called(e, d)
  BY <1>1, <1>3, <1>4, <1>11, <1>12, CalledOK
<1>14. /\ Always(e) /\ e.frames = frames /\ e.path = path /\ e.depth = n
       /\ ~e.suspendReq /\ ~e.rootDone /\ e.calls # <<>>
       /\ Len(e.calls) = l /\ LastOf(e.calls) = d
       /\ \A k \in 1..l - 1 : e.calls[k] = calls[k]
  BY <1>3, <1>5, <1>10, <1>13 DEF Called
<1>15. Near(Now, e)
  <2>1. Onward(call, d) /\ Wholes(d.todo)
    BY <1>1, <1>4, <1>12 DEF Onward
  <2> QED
    BY <1>4, <1>14, <2>1, NowIs DEF Near
<1>16. Stack(e, doc)
  BY <1>3, <1>14, <1>15, NearOK
<1>17. Rest(e, doc)
  <2>1. Waits(e)
    BY <1>12, <1>14 DEF Waits
  <2>2. Top(e) = Top(Now) /\ Len(e.path) = Len(Now.path) /\ Len(Now.path) = n - 1
        /\ Top(Now).ph # "phValue"
    BY <1>10, <1>14, NowIs DEF Rest, Top
  <2> QED
    BY <1>10, <1>12, <1>14, <2>1, <2>2 DEF Rest
<1>18. Stops(e, doc')
  BY <1>1, <1>14, <1>16, <1>17 DEF Stops, AtRest, SuspendOK
<1>19. RestType'
  <2>1. regOpen \in BOOLEAN /\ suspended \in BOOLEAN /\ pendSet \in BOOLEAN
    BY <1>3, Zenon DEF RestType
  <2>2. regOpen' \in BOOLEAN /\ suspended' \in BOOLEAN /\ pendSet' \in BOOLEAN
    BY <1>1, <2>1
  <2> QED
    BY <1>1, <1>3, <2>2 DEF RestType
<1> QED
  BY <1>1, <1>2, <1>8, <1>9, <1>18, <1>19, StopsInv

\* A request served as its frame closes: the call c goes on as the closing.
LEMMA ClosingReleaseOK ==
    ASSUME NEW e, NEW dc, NEW c \in CallType, Always(e), Stack(e, dc), ~Waits(e),
           Closes(c), c.stale => c.snap = <<>>, ~e.suspendReq, ~e.rootDone,
           e.depth = Len(e.frames), Len(e.path) = Len(e.frames) - 1,
           Top(e).ph # "phValue",
           Source(e.calls, dc, Len(e.calls), e.depth - 1, FALSE),
           \A j \in 1..Len(e.calls) : e.calls[j].frame < e.depth,
           NEW m, m = Len(e.calls) + 1
    PROVE  Stops([Released([e EXCEPT !.wantRelease = FALSE], "close")
                      EXCEPT !.calls[m].stale = c.stale, !.calls[m].snap = c.snap], dc)
<1> DEFINE n == Len(e.frames)
           x == [e EXCEPT !.wantRelease = FALSE]
           y == Released(x, "close")
           b == NewCall("close", n, Top(x).deferred)
           d == [b EXCEPT !.stale = c.stale, !.snap = c.snap]
           ds == Append(e.calls, d)
           r == [y EXCEPT !.calls[m].stale = c.stale, !.calls[m].snap = c.snap]
<1>1. /\ e \in Effect /\ e.calls \in Seq(CallType) /\ e.frames \in Seq(FrameType)
      /\ n \in Nat /\ n >= 1 /\ Len(e.calls) \in Nat
  BY LenProperties DEF Always, Effect, Stack
<1>2. /\ x \in Effect /\ x.frames = e.frames /\ x.calls = e.calls
      /\ x.depth = e.depth /\ x.path = e.path /\ x.suspendReq = e.suspendReq
      /\ x.rootDone = e.rootDone /\ x.dead = e.dead /\ ~x.wantRelease
      /\ x.deferredBytes = e.deferredBytes
  BY <1>1 DEF Effect
<1> HIDE DEF x
<1>3. Always(x)
  BY <1>2 DEF Always
<1>4. Stack(x, dc)
  <2>1. Closing(x) <=> Closing(e)
    BY <1>2 DEF Closing
  <2> QED
    BY <1>2, <2>1 DEF Stack
<1>5. Calls(x, y, b)
  BY <1>1, <1>2, <1>3, ReleasedOK
<1> HIDE DEF y
<1>6. /\ Top(x) = e.frames[n] /\ Top(x).deferred \in Seq(Pairs)
      /\ e.frames[n].ph # "phValue" /\ x.frames[n] = e.frames[n]
  <2>1. e.frames[n] \in FrameType
    BY <1>1
  <2>2. Top(x) = e.frames[n] /\ Top(e) = e.frames[n]
    BY <1>2 DEF Top, LastOf
  <2> QED
    BY <1>2, <2>1, <2>2 DEF FrameType
<1>7. /\ b \in CallType /\ b.at = "close" /\ b.frame = n /\ b.todo = Top(x).deferred
      /\ ~b.active
  BY <1>1, <1>6, NewCallOK
<1> HIDE DEF b
<1>8. /\ d \in CallType /\ d.at = "close" /\ d.frame = n /\ d.todo = Top(x).deferred
      /\ ~d.active /\ d.stale = c.stale /\ d.snap = c.snap
  BY <1>7 DEF CallType
<1>9. y \in Effect /\ y.calls = Append(e.calls, b) /\ m \in Nat
  BY <1>1, <1>2, <1>5 DEF Calls, Always
<1>10. /\ y.calls \in Seq(CallType) /\ Len(y.calls) = m /\ y.calls[m] = b
       /\ \A k \in 1..Len(e.calls) : y.calls[k] = e.calls[k]
  BY <1>1, <1>7, <1>9, AppendOK
<1>11. /\ ds \in Seq(CallType) /\ Len(ds) = m /\ ds[m] = d
       /\ \A k \in 1..Len(e.calls) : ds[k] = e.calls[k]
  <2> HIDE DEF d
  <2> QED
    BY <1>1, <1>8, AppendOK
<1>12. r = [y EXCEPT !.calls = ds]
  <2> DEFINE a == [b EXCEPT !.stale = c.stale]
             cs == [y.calls EXCEPT ![m] = a]
             w == [y EXCEPT !.calls = cs]
  <2>1. m \in DOMAIN y.calls /\ DOMAIN y.calls = 1..m
    BY <1>1, <1>9, <1>10
  <2>2. [y EXCEPT !.calls[m].stale = c.stale] = w
    BY <1>10
  <2>3. w.calls = cs /\ cs[m] = a
    BY <1>9, <2>1 DEF Effect
  <2>4. d = [a EXCEPT !.snap = c.snap]
    OBVIOUS
  <2>5. r = [w EXCEPT !.calls[m].snap = c.snap]
    BY <2>2
  <2> HIDE DEF w, cs, a, r, d, ds
  <2>6. r = [w EXCEPT !.calls = [cs EXCEPT ![m] = d]]
    BY <2>3, <2>4, <2>5
  <2>7. [cs EXCEPT ![m] = d] = [y.calls EXCEPT ![m] = d]
    BY DEF cs
  <2>8. [y.calls EXCEPT ![m] = d] = ds
    <3>1. /\ [y.calls EXCEPT ![m] = d] \in Seq(CallType)
          /\ Len([y.calls EXCEPT ![m] = d]) = Len(y.calls)
          /\ [y.calls EXCEPT ![m] = d][m] = d
          /\ \A k \in 1..Len(y.calls) : k # m => [y.calls EXCEPT ![m] = d][k] = y.calls[k]
      <4>1. m \in 1..Len(y.calls)
        BY <1>1, <1>10
      <4> QED
        BY <1>8, <1>10, <4>1, ExceptSeq
    <3> DEFINE z == [y.calls EXCEPT ![m] = d]
    <3>2. z \in Seq(CallType) /\ Len(z) = m /\ z[m] = d
          /\ \A k \in 1..m : k # m => z[k] = y.calls[k]
      BY <1>10, <3>1
    <3> HIDE DEF z
    <3>3. \A k \in 1..m : z[k] = ds[k]
      <4>1. \A k \in 1..m : k = m \/ k \in 1..Len(e.calls)
        BY <1>1
      <4> QED
        BY <1>10, <1>11, <3>2, <4>1
    <3>4. z = ds
      BY <1>11, <3>2, <3>3, SeqEqual
    <3> QED
      BY <3>4 DEF z
  <2> QED
    BY <2>6, <2>7, <2>8 DEF w
<1> HIDE DEF r, d
<1>13. /\ r \in Effect /\ r.calls = ds /\ r.frames = y.frames /\ r.depth = e.depth
       /\ r.path = e.path /\ r.rootDone = e.rootDone /\ r.dead = e.dead
       /\ r.suspendReq = e.suspendReq /\ r.deferredBytes = y.deferredBytes
  <2> DEFINE z == [y EXCEPT !.calls = ds]
  <2> HIDE DEF ds
  <2>1. /\ z \in Effect /\ z.calls = ds /\ z.frames = y.frames /\ z.depth = y.depth
        /\ z.path = y.path /\ z.rootDone = y.rootDone /\ z.dead = y.dead
        /\ z.suspendReq = y.suspendReq /\ z.deferredBytes = y.deferredBytes
    BY <1>9, <1>11 DEF Effect
  <2> HIDE DEF z
  <2>2. /\ y.depth = e.depth /\ y.path = e.path /\ y.rootDone = e.rootDone
        /\ y.dead = e.dead /\ y.suspendReq = e.suspendReq
    BY <1>2, <1>5 DEF Calls
  <2> QED
    BY <1>12, <2>1, <2>2 DEF z
<1>14. /\ Len(r.frames) = n /\ r.frames[n].ph = e.frames[n].ph
       /\ r.frames[n].deferred = <<>>
       /\ \A k \in 1..n - 1 : r.frames[k] = e.frames[k]
  <2>1. n \in 1..n
    BY <1>1
  <2> QED
    BY <1>2, <1>5, <1>13, <2>1 DEF Calls
<1> HIDE DEF ds
<1>15. Always(r)
  <2>1. y.deferredBytes = Total(y.frames)
    BY <1>5 DEF Calls, Always
  <2>2. \A k \in 1..m : ds[k].frame \in 1..n
    <3>1. \A k \in 1..Len(e.calls) : e.calls[k].frame \in 1..n
      BY DEF Always
    <3>2. \A k \in 1..m : k = m \/ k \in 1..Len(e.calls)
      BY <1>1
    <3>3. d.frame \in 1..n
      BY <1>1, <1>8
    <3> QED
      BY <1>11, <3>1, <3>2, <3>3
  <2> QED
    BY <1>11, <1>13, <1>14, <2>1, <2>2 DEF Always
<1>16. Pushed(x, r, d)
  <2>1. r.calls = Append(x.calls, d)
    BY <1>2, <1>13 DEF ds
  <2> QED
    BY <1>2, <1>6, <1>8, <1>14, <2>1 DEF Pushed
<1>17. Stops(r, dc)
  BY <1>2, <1>3, <1>4, <1>6, <1>8, <1>13, <1>14, <1>15, <1>16, ClosesOK
     DEF Closes, SuspendOK
<1> QED
  BY <1>17 DEF r, y, x

\* What the call on top returns to, and the frame it closes.
LEMMA ReturnsOK ==
    ASSUME IInv, Between, call.todo = <<>>
    PROVE  LET n == Len(frames)
               e == [Now EXCEPT !.calls = Front(@)]
               p == [e EXCEPT !.frames = Front(@), !.depth = @ - 1,
                              !.asked = @ \ {Len(e.frames)}]
           IN  /\ Popped(Now, e) /\ Stack(e, doc) /\ ~Waits(e)
               /\ Source(e.calls, doc, Len(e.calls), Back(call), FALSE)
               /\ \A j \in 1..Len(e.calls) : e.calls[j].frame <= Back(call)
               /\ call.at # "value" =>
                    /\ Back(call) = n - 1
                    /\ call.stale => call.snap = <<>> /\ frames[n].deferred = <<>>
                    /\ \A j \in 1..Len(e.calls) : e.calls[j].frame < n
                    /\ LeftIn(e, call) = <<>> => Gone(e, p)
<1> DEFINE n == Len(frames)
           l == Len(calls)
           e == [Now EXCEPT !.calls = Front(@)]
           p == [e EXCEPT !.frames = Front(@), !.depth = @ - 1,
                          !.asked = @ \ {Len(e.frames)}]
<1>1. Between /\ call.todo = <<>>
  OBVIOUS
<1>2. /\ ~dead /\ ~rootDone /\ Always(Now) /\ RestType /\ Stack(Now, doc)
      /\ SuspendOK(Now) /\ Rest(Now, doc) /\ Waits(Now)
      /\ ~regOpen /\ ~pendSet /\ st = "sIdle"
      /\ LastOf(calls) = call /\ call \in CallType /\ ~call.active
      /\ call.frame = n /\ depth = n /\ Len(path) = n - 1
      /\ topFrame.ph # "phValue" /\ l \in 1..l /\ n >= 1
  BY <1>1, BetweenOK
<1>4. /\ calls # <<>> /\ calls \in Seq(CallType) /\ calls[l] = call /\ n \in Nat
      /\ frames \in Seq(FrameType) /\ path \in Seq(Ids)
  <2>1. calls \in Seq(CallType) /\ frames \in Seq(FrameType) /\ path \in Seq(Ids)
    BY <1>2, NowIs DEF Always, Effect
  <2> QED
    BY <1>1, <1>2, <2>1, LenProperties DEF Between, LastOf
<1>5. Popped(Now, e)
  BY <1>2, <1>4, NowIs, PoppedOK
<1> HIDE DEF e
<1>6. /\ Stack(e, doc) /\ ~Waits(e)
      /\ Source(e.calls, doc, Len(e.calls), Back(call), FALSE)
      /\ \A j \in 1..Len(e.calls) : e.calls[j].frame <= Back(call)
  BY <1>2, <1>4, <1>5, NowIs, PopOK
<1>7. /\ Always(e) /\ e.frames = frames /\ e.path = path /\ e.depth = n
      /\ e.wantRelease = wantRelease /\ e.releaseAt = releaseAt
      /\ e.suspendReq = suspendReq /\ ~e.rootDone /\ ~e.dead
      /\ Len(e.calls) = l - 1 /\ Top(e) = topFrame /\ Top(e) = frames[n]
      /\ frames[n].ph # "phValue"
  BY <1>2, <1>5, NowIs DEF Popped, Top, topFrame, LastOf
<1>12. Closes(call) <=> call.at # "value"
  BY DEF Closes
<1>13. Closing(Now)
  BY <1>2 DEF Stack
<1>14. call.at # "value" =>
           /\ Back(call) = n - 1
           /\ call.stale => call.snap = <<>> /\ frames[n].deferred = <<>>
           /\ \A j \in 1..Len(e.calls) : e.calls[j].frame < n
  <2> SUFFICES ASSUME call.at # "value"
               PROVE  /\ Back(call) = n - 1
                      /\ call.stale => call.snap = <<>> /\ frames[n].deferred = <<>>
                      /\ \A j \in 1..Len(e.calls) : e.calls[j].frame < n
    OBVIOUS
  <2>1. Back(call) = n - 1
    BY <1>2 DEF Back
  <2>2. call.stale => call.snap = <<>> /\ frames[n].deferred = <<>>
    BY <1>2, <1>4, <1>12, <1>13, NowIs DEF Closing, Serving
  <2>3. \A j \in 1..Len(e.calls) : e.calls[j].frame \in 1..n
    BY <1>7 DEF Always
  <2> QED
    BY <1>4, <1>6, <2>1, <2>2, <2>3
<1>15. ASSUME call.at # "value", LeftIn(e, call) = <<>> PROVE Gone(e, p)
  <2>1. e.frames[n].deferred = <<>>
    BY <1>7, <1>14, <1>15 DEF LeftIn
  <2>2. /\ Len(e.frames) >= 1 /\ e.depth >= 1
        /\ e.frames[Len(e.frames)].deferred = <<>>
        /\ \A j \in 1..Len(e.calls) : e.calls[j].frame <= Len(e.frames) - 1
    BY <1>2, <1>6, <1>7, <1>14, <1>15, <2>1
  <2> QED
    BY <1>7, <2>2, GoneOK
<1> HIDE DEF p
<1>16. /\ Popped(Now, e) /\ Stack(e, doc) /\ ~Waits(e)
       /\ Source(e.calls, doc, Len(e.calls), Back(call), FALSE)
       /\ \A j \in 1..Len(e.calls) : e.calls[j].frame <= Back(call)
       /\ call.at # "value" =>
            /\ Back(call) = n - 1
            /\ call.stale => call.snap = <<>> /\ frames[n].deferred = <<>>
            /\ \A j \in 1..Len(e.calls) : e.calls[j].frame < n
            /\ LeftIn(e, call) = <<>> => Gone(e, p)
  BY <1>5, <1>6, <1>14, <1>15
<1> QED
  BY <1>16 DEF e, p

LEMMA ReturnOK ==
    ASSUME IInv, Return
    PROVE  IInv'
<1> DEFINE n == Len(frames)
           l == Len(calls)
           no == FALSE
           e == [Now EXCEPT !.calls = Front(@)]
           w == [Released([e EXCEPT !.wantRelease = FALSE], "close")
                    EXCEPT !.calls[Len(calls)].stale = call.stale,
                           !.calls[Len(calls)].snap = call.snap]
           p == [e EXCEPT !.frames = Front(@), !.depth = @ - 1,
                          !.asked = @ \ {Len(e.frames)}]
<1>1. Between /\ call.todo = <<>>
  BY DEF Return
<1>2. /\ ~dead /\ ~rootDone /\ Always(Now) /\ RestType /\ Stack(Now, doc)
      /\ SuspendOK(Now) /\ Rest(Now, doc) /\ Waits(Now)
      /\ ~regOpen /\ ~pendSet /\ st = "sIdle"
      /\ LastOf(calls) = call /\ call \in CallType /\ ~call.active
      /\ call.frame = n /\ depth = n /\ Len(path) = n - 1
      /\ topFrame.ph # "phValue" /\ l \in 1..l /\ n >= 1
  BY <1>1, BetweenOK
<1>3. /\ Becomes(CASE call.at = "value" -> e
                   [] call.at = "leave" /\ ReleaseDue(e) -> w
                   [] OTHER -> CloseEnd(e, call))
      /\ doc' = doc /\ frameCap' = frameCap /\ pend' = pend /\ pendSet' = pendSet
      /\ kvRaw' = kvRaw /\ st' = st /\ suspended' = suspended
      /\ regOpen' = regOpen /\ regT' = regT /\ regDepth' = regDepth
      /\ regKey' = regKey /\ capBuf' = capBuf
  BY DEF Return, OthersOnClose, regVars
<1>4. /\ calls # <<>> /\ calls \in Seq(CallType) /\ calls[l] = call /\ n \in Nat
      /\ frames \in Seq(FrameType) /\ path \in Seq(Ids)
  <2>1. calls \in Seq(CallType) /\ frames \in Seq(FrameType) /\ path \in Seq(Ids)
    BY <1>2, NowIs DEF Always, Effect
  <2> QED
    BY <1>1, <1>2, <2>1, LenProperties DEF Between, LastOf
<1>5. /\ Popped(Now, e) /\ Stack(e, doc) /\ ~Waits(e)
      /\ Source(e.calls, doc, Len(e.calls), Back(call), FALSE)
      /\ \A j \in 1..Len(e.calls) : e.calls[j].frame <= Back(call)
      /\ call.at # "value" =>
           /\ Back(call) = n - 1
           /\ call.stale => call.snap = <<>> /\ frames[n].deferred = <<>>
           /\ \A j \in 1..Len(e.calls) : e.calls[j].frame < n
           /\ LeftIn(e, call) = <<>> => Gone(e, p)
  BY <1>1, ReturnsOK
<1> HIDE DEF e
<1>7. /\ Always(e) /\ e.frames = frames /\ e.path = path /\ e.depth = n
      /\ e.wantRelease = wantRelease /\ e.releaseAt = releaseAt
      /\ e.suspendReq = suspendReq /\ ~e.rootDone /\ ~e.dead
      /\ Len(e.calls) = l - 1 /\ Top(e) = topFrame /\ Top(e) = frames[n]
      /\ frames[n].ph # "phValue"
  BY <1>2, <1>5, NowIs DEF Popped, Top, topFrame, LastOf
<1>8. suspendReq => e.calls = <<>> /\ ~wantRelease
  <2> SUFFICES ASSUME suspendReq PROVE e.calls = <<>> /\ ~wantRelease
    OBVIOUS
  <2>1. l = 1 /\ ~wantRelease
    BY <1>2, <1>4, NowIs DEF SuspendOK
  <2>2. e.calls \in Seq(CallType) /\ Len(e.calls) = 0
    BY <1>7, <2>1 DEF Always, Effect
  <2> QED
    BY <2>1, <2>2, EmptySeq
<1>9. RestType'
  <2>1. regOpen \in BOOLEAN /\ suspended \in BOOLEAN /\ pendSet \in BOOLEAN
    BY <1>2, Zenon DEF RestType
  <2>2. regOpen' \in BOOLEAN /\ suspended' \in BOOLEAN /\ pendSet' \in BOOLEAN
    BY <1>3, <2>1
  <2> QED
    BY <1>2, <1>3, <2>2 DEF RestType
<1>10. ASSUME NEW r, Becomes(r), Stops(r, doc) PROVE IInv'
  BY <1>2, <1>3, <1>9, <1>10, StopsInv
<1>11. CASE call.at = "value"
  <2>1. Becomes(e)
    BY <1>3, <1>11
  <2>2. Back(call) = n
    BY <1>2, <1>11 DEF Back
  <2>3. Reads0(e, doc, no)
    <3> HIDE DEF no
    <3>1. Source(e.calls, doc, Len(e.calls), Back(call), no)
      BY <1>5 DEF no
    <3> QED
      BY <1>7, <2>2, <3>1 DEF Reads0
  <2>4. Rest(e, doc)
    BY <1>2, <1>5, <1>7, <2>3 DEF Rest
  <2>5. Stops(e, doc)
    BY <1>5, <1>7, <1>8, <2>4 DEF Stops, AtRest, SuspendOK
  <2> QED
    BY <1>10, <2>1, <2>5
<1>12. Closes(call) <=> call.at # "value"
  BY DEF Closes
<1>15. call.at # "value" => Source(e.calls, doc, Len(e.calls), n - 1, no)
  <2> SUFFICES ASSUME call.at # "value"
               PROVE  Source(e.calls, doc, Len(e.calls), n - 1, no)
    OBVIOUS
  <2>1. Source(e.calls, doc, Len(e.calls), Back(call), no)
    BY <1>5
  <2> HIDE DEF no
  <2> QED
    BY <1>5, <2>1
<1>16. CASE call.at = "leave" /\ ReleaseDue(e)
  <2>1. Becomes(w)
    BY <1>3, <1>16
  <2>2. ~suspendReq
    BY <1>7, <1>8, <1>16 DEF ReleaseDue
  <2>3. Stops(w, doc)
    <3> DEFINE x == [Released([e EXCEPT !.wantRelease = FALSE], "close")
                        EXCEPT !.calls[l].stale = call.stale,
                               !.calls[l].snap = call.snap]
    <3>1. l = Len(e.calls) + 1
      BY <1>2, <1>7
    <3>2. w = x
      OBVIOUS
    <3>3. Source(e.calls, doc, Len(e.calls), e.depth - 1, FALSE)
      BY <1>7, <1>15, <1>16
    <3> HIDE DEF l, w
    <3>4. Stops(x, doc)
      <4>1. /\ Closes(call) /\ call \in CallType /\ Always(e) /\ Stack(e, doc)
            /\ ~Waits(e) /\ ~e.suspendReq /\ ~e.rootDone
            /\ e.depth = Len(e.frames) /\ Len(e.path) = Len(e.frames) - 1
            /\ Top(e).ph # "phValue" /\ l = Len(e.calls) + 1
        BY <1>2, <1>5, <1>7, <1>12, <1>16, <2>2, <3>1
      <4>2. /\ call.stale => call.snap = <<>>
            /\ \A j \in 1..Len(e.calls) : e.calls[j].frame < e.depth
        BY <1>7, <1>5, <1>16
      <4> QED
        BY <3>3, <4>1, <4>2, ClosingReleaseOK
    <3> QED
      BY <3>2, <3>4
  <2> QED
    BY <1>10, <2>1, <2>3
<1>17. CASE call.at # "value" /\ ~(call.at = "leave" /\ ReleaseDue(e))
  <2>1. Becomes(CloseEnd(e, call))
    BY <1>3, <1>17
  <2>3. CASE LeftIn(e, call) # <<>>
    <3> DEFINE r == Bailed(e, "leftover")
    <3>1. Always(r) /\ r.dead /\ ~r.rootDone
      BY <1>7, BailedOK DEF Kept
    <3>2. CloseEnd(e, call) = r
      BY <2>3 DEF CloseEnd
    <3> HIDE DEF r
    <3>3. Becomes(r) /\ Stops(r, doc)
      BY <2>1, <3>1, <3>2 DEF Stops
    <3> QED
      BY <1>10, <3>3
  <2>4. ASSUME LeftIn(e, call) = <<>>
        PROVE  /\ CloseEnd(e, call) = IF p.depth = 0
                                      THEN [p EXCEPT !.rootDone = TRUE]
                                      ELSE afterValue(p)
               /\ Gone(e, p)
    <3>1. CloseEnd(e, call) = IF p.depth = 0 THEN [p EXCEPT !.rootDone = TRUE]
                              ELSE afterValue(p)
      BY <2>4 DEF CloseEnd
    <3> QED
      BY <1>5, <1>17, <2>4, <3>1
  <2> HIDE DEF p
  <2>5. CASE LeftIn(e, call) = <<>> /\ n = 1
    <3> DEFINE r == [p EXCEPT !.rootDone = TRUE]
    <3>1. Gone(e, p) /\ p.depth = 0 /\ CloseEnd(e, call) = r
      BY <1>7, <2>4, <2>5 DEF Gone
    <3>2. /\ Always(p) /\ p \in Effect /\ Len(p.frames) = 0 /\ p.calls = e.calls
          /\ p.frames \in Seq(FrameType) /\ e.calls \in Seq(CallType)
      BY <1>7, <2>5, <3>1 DEF Gone, Always, Effect
    <3>3. /\ r \in Effect /\ r.frames = p.frames /\ r.calls = p.calls
          /\ r.deferredBytes = p.deferredBytes /\ r.rootDone = TRUE
      BY <3>2 DEF Effect
    <3> HIDE DEF r
    <3>4. Always(r)
      BY <3>2, <3>3 DEF Always
    <3>5. e.calls = <<>> /\ p.frames = <<>>
      <4> SUFFICES ASSUME e.calls # <<>> PROVE FALSE
        BY <3>2, EmptySeq
      <4>1. Len(e.calls) \in 1..Len(e.calls)
        BY <3>2, EmptySeq
      <4>2. e.calls[Len(e.calls)].frame < 1
        BY <1>5, <1>17, <2>5, <4>1
      <4>3. e.calls[Len(e.calls)].frame \in 1..1
        BY <1>7, <2>5, <4>1 DEF Always
      <4> QED
        BY <4>2, <4>3
    <3>6. Becomes(r)
      BY <2>1, <3>1
    <3>7. Now' = r
      BY <3>3, <3>6, NowBecomes
    <3>8. rootDone' /\ calls' = <<>> /\ frames' = <<>>
      BY <3>2, <3>3, <3>5, <3>6 DEF Becomes
    <3>9. Always(Now)'
      BY <3>4, <3>7
    <3> QED
      BY <1>9, <3>8, <3>9 DEF IInv, Over
  <2>6. CASE LeftIn(e, call) = <<>> /\ n # 1
    <3> DEFINE r == afterValue(p)
    <3>1. Gone(e, p) /\ p.depth = n - 1 /\ n >= 2
      BY <1>2, <1>4, <1>7, <2>4, <2>6 DEF Gone
    <3>2. Becomes(r)
      BY <1>4, <2>1, <2>4, <2>6, <3>1
    <3>3. /\ Always(p) /\ Len(p.frames) = n - 1 /\ p.path = path /\ p.calls = e.calls
          /\ p.wantRelease = wantRelease /\ p.suspendReq = suspendReq
          /\ ~p.rootDone /\ ~p.dead
      BY <1>7, <3>1 DEF Gone
    <3>4. p.path # <<>> /\ Len(p.frames) >= 1
      BY <1>2, <1>4, <3>1, <3>3, EmptySeq
    <3>5. Valued(p, r)
      BY <3>3, <3>4, ValuedOK
    <3>6. Stack(p, doc) /\ Top(p).ph = "phValue"
      <4>1. \A j \in 1..Len(e.calls) : e.calls[j].frame <= Len(e.frames) - 1
        BY <1>5, <1>7, <1>17
      <4> QED
        BY <1>5, <1>7, <3>1, <4>1, GoneStack
    <3>7. InPair(p)
      <4>1. ~Waits(p)
        BY <1>5, <3>3 DEF Waits
      <4> QED
        BY <1>2, <3>3, <3>6, <4>1 DEF InPair
    <3>8. Reads0(p, doc, no)
      <4> HIDE DEF no
      <4> QED
        BY <1>15, <1>17, <3>1, <3>3 DEF Reads0
    <3> HIDE DEF r
    <3>9. AtRest(r, doc)
      <4>1. p.suspendReq => p.calls = <<>> /\ ~(p.wantRelease /\ p.releaseAt = Len(p.frames))
        BY <1>8, <3>3
      <4> QED
        BY <3>1, <3>3, <3>5, <3>6, <3>7, <3>8, <4>1, ValuedRest
    <3>10. Stops(r, doc)
      BY <3>3, <3>5, <3>9 DEF Stops, Valued
    <3> QED
      BY <1>10, <3>2, <3>10
  <2> QED
    BY <2>3, <2>5, <2>6
<1> QED
  BY <1>11, <1>16, <1>17

\* A step that moves nothing the scan and the replays stand on.
LEMMA StillInv ==
    ASSUME IInv, NEW r, Becomes(r), Always(r), r.frames = frames, r.path = path,
           r.depth = depth, r.calls = calls, r.rootDone = rootDone, r.dead = dead,
           SuspendOK(Now) => SuspendOK(r), RestType', doc' = doc,
           pend' = pend, pendSet' = pendSet, kvRaw' = kvRaw, st' = st,
           regOpen' = regOpen, regT' = regT, regDepth' = regDepth,
           regKey' = regKey, capBuf' = capBuf
    PROVE  IInv'
<1>1. Now' = r
  BY NowBecomes DEF Always
<1>2. /\ dead' = dead /\ rootDone' = rootDone /\ frames' = frames
      /\ calls' = calls /\ depth' = depth /\ path' = path
  BY DEF Becomes
<1>3. /\ Stack(r, doc) <=> Stack(Now, doc)
      /\ InPair(r) <=> InPair(Now)
      /\ NotClosing(r) <=> NotClosing(Now)
  <2>1. Closing(r) <=> Closing(Now)
    BY NowIs DEF Closing
  <2>2. Waits(r) <=> Waits(Now)
    BY NowIs DEF Waits
  <2> QED
    BY <2>1, <2>2, NowIs DEF Stack, InPair, NotClosing, Top
<1>4. \A v : Reads0(r, doc, v) <=> Reads0(Now, doc, v)
  <2> TAKE v
  <2>1. r.calls = Now.calls /\ r.depth = Now.depth
    BY NowIs
  <2> QED
    BY <2>1 DEF Reads0
<1>5. Rest(r, doc) <=> Rest(Now, doc)
  <2>1. Waits(r) <=> Waits(Now)
    BY NowIs DEF Waits
  <2>2. Reads0(r, doc, FALSE) <=> Reads0(Now, doc, FALSE)
    BY <1>4
  <2> QED
    BY <2>1, <2>2, NowIs DEF Rest, Top
<1>6. Asked(r, doc) <=> Asked(Now, doc)
  <2>1. Reads0(r, doc, TRUE) <=> Reads0(Now, doc, TRUE)
    BY <1>4
  <2> QED
    BY <1>3, <2>1, NowIs DEF Asked
<1>7. InRegion => InRegion'
  <2> SUFFICES ASSUME InRegion PROVE InRegion'
    OBVIOUS
  <2>1. PICK v \in BOOLEAN :
            /\ Reads0(Now, doc, v)
            /\ st = "sInStr" => ~v
            /\ regT = "rtDefer" => Walk(capBuf, 0, TRUE, depth - regDepth, v)
    BY DEF InRegion
  <2>2. Reads0(Now', doc', v)
    BY <1>1, <1>4, <2>1
  <2>3. InPair(Now)' /\ (NotClosing(Now)' <=> NotClosing(Now))
    BY <1>1, <1>3 DEF InRegion
  <2>4. \E w \in BOOLEAN :
            /\ Reads0(Now', doc', w)
            /\ st' = "sInStr" => ~w
            /\ regT' = "rtDefer" => Walk(capBuf', 0, TRUE, depth' - regDepth', w)
    BY <1>2, <2>1, <2>2
  <2> QED
    BY <1>2, <2>3, <2>4 DEF InRegion
<1>8. Pending => Pending'
  <2>1. /\ Asked(Now, doc)' <=> Asked(r, doc)
        /\ NotClosing(Now)' <=> NotClosing(r)
    BY <1>1
  <2> QED
    BY <1>3, <1>6, <2>1 DEF Pending
<1>9. Live => Live'
  <2>1. /\ Stack(Now, doc)' <=> Stack(r, doc)
        /\ SuspendOK(Now)' <=> SuspendOK(r)
        /\ Rest(Now, doc)' <=> Rest(r, doc)
    BY <1>1
  <2> QED
    BY <1>3, <1>5, <1>7, <1>8, <2>1 DEF Live
<1>10. Always(Now)'
  BY <1>1
<1> QED
  BY <1>2, <1>9, <1>10 DEF IInv, Over

LEMMA SuspendsOK ==
    ASSUME IInv, Suspends
    PROVE  IInv'
<1> DEFINE r == [Now EXCEPT !.suspendReq = FALSE]
<1>1. /\ Becomes(r) /\ suspended' = TRUE /\ doc' = doc /\ frameCap' = frameCap
      /\ pend' = pend /\ pendSet' = pendSet /\ kvRaw' = kvRaw /\ st' = st
      /\ regOpen' = regOpen /\ regT' = regT /\ regDepth' = regDepth
      /\ regKey' = regKey /\ capBuf' = capBuf
  BY DEF Suspends, regVars
<1>2. Always(Now) /\ RestType
  BY DEF IInv
<1>3. /\ r \in Effect /\ r.frames = frames /\ r.path = path /\ r.depth = depth
      /\ r.calls = calls /\ r.rootDone = rootDone /\ r.dead = dead
      /\ r.deferredBytes = deferredBytes /\ ~r.suspendReq
  <2>1. Now \in Effect
    BY <1>2 DEF Always
  <2>2. /\ r \in Effect /\ r.frames = Now.frames /\ r.path = Now.path
        /\ r.depth = Now.depth /\ r.calls = Now.calls /\ r.rootDone = Now.rootDone
        /\ r.dead = Now.dead /\ r.deferredBytes = Now.deferredBytes /\ ~r.suspendReq
    BY <2>1 DEF Effect
  <2> HIDE DEF r
  <2> QED
    BY <2>2, NowIs
<1> HIDE DEF r
<1>4. Always(r)
  BY <1>2, <1>3, NowIs DEF Always
<1>5. RestType'
  <2>1. regOpen \in BOOLEAN /\ pendSet \in BOOLEAN
    BY <1>2, Zenon DEF RestType
  <2>2. regOpen' \in BOOLEAN /\ suspended' \in BOOLEAN /\ pendSet' \in BOOLEAN
    BY <1>1, <2>1
  <2> QED
    BY <1>1, <1>2, <2>2 DEF RestType
<1>6. SuspendOK(r)
  BY <1>3 DEF SuspendOK
<1> QED
  BY <1>1, <1>3, <1>4, <1>5, <1>6, StillInv

LEMMA ResumeOK ==
    ASSUME IInv, Resume \/ UNCHANGED vars
    PROVE  IInv'
<1>1. /\ Becomes(Now) /\ (suspended' = suspended \/ suspended' = FALSE)
      /\ doc' = doc /\ frameCap' = frameCap
      /\ pend' = pend /\ pendSet' = pendSet /\ kvRaw' = kvRaw /\ st' = st
      /\ regOpen' = regOpen /\ regT' = regT /\ regDepth' = regDepth
      /\ regKey' = regKey /\ capBuf' = capBuf
  <2>1. CASE Resume
    BY <2>1, NowIs DEF Resume, readVars, regVars, heldVars, histVars, Becomes
  <2>2. CASE UNCHANGED vars
    BY <2>2, NowIs DEF vars, readVars, regVars, heldVars, stopVars, histVars, Becomes
  <2> QED
    BY <2>1, <2>2
<1>2. Always(Now) /\ RestType
  BY DEF IInv
<1>3. RestType'
  <2>1. regOpen \in BOOLEAN /\ pendSet \in BOOLEAN /\ suspended \in BOOLEAN
    BY <1>2, Zenon DEF RestType
  <2>2. regOpen' \in BOOLEAN /\ suspended' \in BOOLEAN /\ pendSet' \in BOOLEAN
    BY <1>1, <2>1
  <2> QED
    BY <1>1, <1>2, <2>2 DEF RestType
<1> QED
  BY <1>1, <1>2, <1>3, NowIs, StillInv

LEMMA InitInv == Init => IInv
<1> SUFFICES ASSUME Init PROVE IInv
  OBVIOUS
<1> DEFINE none == <<>>
           fs == <<NewFrame>>
<1>1. NewFrame \in FrameType /\ NewFrame.deferred = <<>> /\ NewFrame.ph = "phKey"
  <2>1. none \in Seq(Pairs)
    BY EmptySeq
  <2> HIDE DEF none
  <2>2. [ph |-> "phKey", deferred |-> none] \in FrameType
    BY <2>1 DEF FrameType
  <2> QED
    BY <2>2 DEF NewFrame, none
<1>2. fs \in Seq(FrameType) /\ Len(fs) = 1 /\ fs[1] = NewFrame
  BY <1>1
<1>3. Total(fs) = 0
  <2>1. none \in Seq(FrameType) /\ Len(none) = 0
    BY EmptySeq
  <2>2. Total(none) = 0
    <3> HIDE DEF none
    <3>1. /\ Total(none) \in Nat
          /\ Adds([j \in 1..Len(none) |-> SizeOf(none[j].deferred)], Len(none), Total(none))
      BY <2>1, TotalAdds
    <3>2. Adds([j \in 1..Len(none) |-> SizeOf(none[j].deferred)], 0, Total(none))
      BY <2>1, <3>1
    <3> QED
      BY <3>2, Zenon DEF Adds
  <2> HIDE DEF none, fs
  <2>3. Total(fs) = Total(none) + SizeOf(fs[0 + 1].deferred)
    <3>1. 0 \in Nat /\ Len(fs) = 0 + 1
          /\ \A k \in 1..0 : fs[k].deferred = none[k].deferred
      BY <1>2
    <3> QED
      BY <1>2, <2>1, <3>1, TotalTop
  <2> QED
    BY <1>1, <1>2, <2>2, <2>3, SizeNone
<1>4. /\ frames = fs /\ path = <<>> /\ depth = 1 /\ wantRelease = FALSE
      /\ releaseAt = 0 /\ deferredBytes = 0 /\ calls = <<>> /\ suspendReq = FALSE
      /\ rootDone = FALSE /\ dead = FALSE /\ code = "none" /\ dropped = {} /\ asked = {}
  BY DEF Init
<1>5. /\ regOpen = FALSE /\ regT = "rtNone" /\ regDepth = 0 /\ regKey = 0
      /\ capBuf = <<>> /\ pend = "Pass" /\ pendSet = FALSE /\ kvRaw = 0
      /\ st = "sIdle" /\ frameCap = 1 /\ suspended = FALSE
      /\ doc = [open |-> <<>>, value |-> 0, last |-> 0, text |-> [id \in Ids |-> <<>>]]
  BY DEF Init
<1>6. \A S : none \in Seq(S) /\ Len(none) = 0
  BY EmptySeq
<1> HIDE DEF fs, none
<1>7. Now \in Effect
  <2>1. /\ path \in Seq(Ids) /\ calls \in Seq(CallType) /\ frames \in Seq(FrameType)
    BY <1>2, <1>4, <1>6 DEF none
  <2>2. wantRelease \in BOOLEAN /\ suspendReq \in BOOLEAN /\ rootDone \in BOOLEAN
        /\ dead \in BOOLEAN
    BY <1>4
  <2>3. /\ depth \in Nat /\ releaseAt \in Nat /\ deferredBytes \in Int
        /\ dropped \in SUBSET Ids /\ asked \in SUBSET Nat
        /\ code \in {"none", "misuse", "protocol", "unsupported", "leftover"}
    BY <1>4
  <2> QED
    BY <2>1, <2>2, <2>3 DEF Now, Effect
<1>8. Len(calls) = 0 /\ Len(path) = 0
  BY <1>4, <1>6 DEF none
<1>9. Always(Now)
  BY <1>3, <1>4, <1>7, <1>8, NowIs DEF Always
<1>10. doc \in DocType
  <2>1. none \in Seq(Ids) /\ none \in Seq(Tokens)
    BY <1>6
  <2>2. doc = [open |-> none, value |-> 0, last |-> 0, text |-> [id \in Ids |-> none]]
    BY <1>5 DEF none
  <2>3. 0 \in 0..MaxKeys
    BY DeferralAssumption
  <2> QED
    BY <2>1, <2>2, <2>3 DEF DocType
<1>11. RestType
  <2>1. capBuf \in Seq(Tokens)
    BY <1>5, <1>6 DEF none
  <2>2. kvRaw \in 0..MaxKeys /\ regKey \in 0..MaxKeys
    BY <1>5, DeferralAssumption
  <2>3. pendSet \in BOOLEAN /\ regOpen \in BOOLEAN /\ suspended \in BOOLEAN
    BY <1>5
  <2> QED
    BY <1>5, <1>10, <2>1, <2>2, <2>3 DEF RestType, Answers
<1>12. Stack(Now, doc)
  <2>1. Len(frames) = 1 /\ Wholes(frames[1].deferred)
    BY <1>1, <1>2, <1>4, WholesNone
  <2>2. Closing(Now)
    BY <1>8, NowIs DEF Closing
  <2>3. (\A k \in 1..Len(frames) : k = 1) /\ (\A k \in 1..Len(frames) - 1 : FALSE)
        /\ (\A k \in 1..Len(calls) : FALSE)
    BY <1>8, <2>1
  <2>31. \A k \in 1..Len(frames) : Wholes(frames[k].deferred)
    <3> SUFFICES ASSUME NEW k \in 1..Len(frames) PROVE Wholes(frames[k].deferred)
      OBVIOUS
    <3>1. k = 1
      BY <2>3
    <3> QED
      BY <2>1, <3>1
  <2>4. /\ Len(Now.frames) >= 1
        /\ \A k \in 1..Len(Now.frames) - 1 : Now.frames[k].ph = "phValue"
        /\ \A k \in 1..Len(Now.frames) : Wholes(Now.frames[k].deferred)
    <3>1. Now.frames = frames
      BY NowIs
    <3>2. Len(frames) >= 1
      BY <2>1
    <3>3. \A k \in 1..Len(frames) - 1 : frames[k].ph = "phValue"
      BY <2>3
    <3> QED
      BY <2>31, <3>1, <3>2, <3>3, Zenon
  <2>5. \A k \in 1..Len(Now.calls) : FALSE
    BY <2>3, NowIs
  <2> QED
    BY <2>2, <2>4, <2>5, Zenon DEF Stack
<1>13. Rest(Now, doc)
  <2>1. Top(Now).ph # "phValue" /\ ~Waits(Now)
    BY <1>1, <1>2, <1>4, NowIs DEF Top, LastOf, Waits
  <2>2. Reads0(Now, doc, FALSE)
    <3>1. doc.value = 0 /\ Len(doc.open) = 0
      BY <1>5, <1>6 DEF none
    <3>2. FALSE = (doc.value # 0)
      BY <3>1
    <3> QED
      BY <1>4, <1>8, <3>1, <3>2, NowIs DEF Reads0, Source
  <2>3. depth = Len(frames) /\ Len(path) = Len(frames) - 1
    BY <1>2, <1>4, <1>8
  <2> QED
    BY <2>1, <2>2, <2>3, NowIs DEF Rest
<1>14. Live
  BY <1>4, <1>5, <1>12, <1>13, NowIs DEF Live, SuspendOK
<1> QED
  BY <1>4, <1>9, <1>11, <1>14 DEF IInv

LEMMA NextInv ==
    ASSUME IInv, UsedPlainly, [Next]_vars
    PROVE  IInv'
<1>1. ASSUME NEW id \in Ids, NEW act \in Answers, NEW cb \in Callbacks,
             Key(id, act, cb)
      PROVE  IInv'
  BY <1>1, KeyOK
<1>2. ASSUME NEW tok \in Tokens, Value(tok) PROVE IInv'
  BY <1>2, ValueOK
<1>3. ASSUME NEW tok \in Tokens, NEW cb \in Callbacks, RegionByte(tok, cb) PROVE IInv'
  BY <1>3, RegionByteOK
<1>4. ASSUME NEW cb \in Callbacks, SimpleEnd(cb) PROVE IInv'
  BY <1>4, SimpleEndOK
<1>5. ASSUME NEW cb \in Callbacks \union {"releaseNow"}, CloseFrame(cb) PROVE IInv'
  BY <1>5, CloseFrameOK
<1>6. ASSUME NEW act \in Answers, NEW cb \in Callbacks, ReplayNext(act, cb) PROVE IInv'
  BY <1>6, ReplayNextOK
<1>7. CASE ReplayEnd
  BY <1>7, ReplayEndOK
<1>8. CASE Return
  BY <1>8, ReturnOK
<1>9. CASE Suspends
  BY <1>9, SuspendsOK
<1>10. CASE Resume \/ UNCHANGED vars
  BY <1>10, ResumeOK
<1> QED
  BY <1>1, <1>2, <1>3, <1>4, <1>5, <1>6, <1>7, <1>8, <1>9, <1>10 DEF Next, ScanStep

-----------------------------------------------------------------------------
(* Requests to release: none is forgotten, so that whenever one waits it is *)
(* the one of wantRelease and releaseAt.                                    *)

Req(e) == ~e.dead => \A k \in e.asked : e.wantRelease /\ e.releaseAt = k

\* What Req is about.
SameReq(e, r) ==
    /\ r.dead = e.dead /\ r.asked = e.asked
    /\ r.wantRelease = e.wantRelease /\ r.releaseAt = e.releaseAt

LEMMA ReqSame ==
    ASSUME NEW e, NEW r, SameReq(e, r)
    PROVE  Req(r) <=> Req(e)
BY DEF SameReq, Req

LEMMA HookReq ==
    ASSUME NEW e, Always(e), Req(e), NEW cb,
           cb = "release" /\ e.wantRelease => e.releaseAt = Len(e.frames)
    PROVE  Req(Hook(cb, e))
<1>1. e \in Effect
  BY DEF Always
<1>2. CASE cb = "release"
  BY <1>1, <1>2 DEF Hook, Req, Effect
<1>3. CASE cb = "drop"
  <2> DEFINE f == forgetDeferred(e)
             d == e.dropped \union {kv.key : kv \in Members(Top(e).deferred)}
  <2>1. /\ f.dead = e.dead /\ f.asked = e.asked /\ f.wantRelease = e.wantRelease
        /\ f.releaseAt = e.releaseAt /\ DOMAIN f = DOMAIN e
        /\ f.dropped = e.dropped
    BY <1>1 DEF forgetDeferred, Effect
  <2>2. Hook(cb, e) = [f EXCEPT !.dropped = d]
    BY <1>3, <2>1 DEF Hook
  <2> HIDE DEF f, d
  <2>3. SameReq(e, [f EXCEPT !.dropped = d])
    BY <1>1, <2>1 DEF SameReq, Effect
  <2> QED
    BY <2>2, <2>3, ReqSame
<1>4. CASE cb = "suspend"
  <2>1. Req(Bailed(e, "misuse"))
    BY <1>1 DEF Req, Bailed, Effect
  <2>2. Req([e EXCEPT !.suspendReq = TRUE])
    BY <1>1 DEF Req, Effect
  <2> QED
    BY <1>4, <2>1, <2>2 DEF Hook
<1>5. CASE cb = "bail"
  BY <1>1, <1>5 DEF Req, Bailed, Effect, Hook
<1>6. CASE cb \notin {"release", "drop", "suspend", "bail"}
  BY <1>6 DEF Hook
<1> QED
  BY <1>2, <1>3, <1>4, <1>5, <1>6

LEMMA ReleasedReq ==
    ASSUME NEW e, Always(e), NEW at
    PROVE  /\ Released(e, at).dead = e.dead
           /\ Released(e, at).asked = e.asked \ {Len(e.frames)}
           /\ Released(e, at).wantRelease = e.wantRelease
           /\ Released(e, at).releaseAt = e.releaseAt
<1> DEFINE f == forgetDeferred(e)
           c == [at |-> at, frame |-> Len(e.frames), todo |-> Top(e).deferred,
                 raw |-> <<>>, active |-> FALSE, stale |-> FALSE, snap |-> <<>>]
           a == e.asked \ {Len(e.frames)}
<1>1. e \in Effect
  BY DEF Always
<1>2. /\ f.dead = e.dead /\ f.asked = e.asked /\ f.wantRelease = e.wantRelease
      /\ f.releaseAt = e.releaseAt /\ DOMAIN f = DOMAIN e /\ f.calls = e.calls
  BY <1>1 DEF forgetDeferred, Effect
<1>3. Released(e, at) = [f EXCEPT !.asked = a, !.calls = Append(e.calls, c)]
  BY <1>2 DEF Released
<1> HIDE DEF f, c
<1> DEFINE r == [f EXCEPT !.asked = a, !.calls = Append(e.calls, c)]
<1>4. /\ r.dead = f.dead /\ r.asked = a /\ r.wantRelease = f.wantRelease
      /\ r.releaseAt = f.releaseAt
  BY <1>1, <1>2 DEF Effect
<1> HIDE DEF r, a
<1> QED
  BY <1>2, <1>3, <1>4 DEF r, a

\* The request of the frame on top is served.
LEMMA ServedReq ==
    ASSUME NEW e, Always(e), Req(e), ReleaseDue(e), NEW at
    PROVE  Req(Released([e EXCEPT !.wantRelease = FALSE], at))
<1> DEFINE x == [e EXCEPT !.wantRelease = FALSE]
<1>1. e \in Effect
  BY DEF Always
<1>2. /\ x \in Effect /\ x.dead = e.dead /\ x.asked = e.asked
      /\ x.frames = e.frames /\ x.deferredBytes = e.deferredBytes
      /\ x.calls = e.calls
  BY <1>1 DEF Effect
<1> HIDE DEF x
<1>3. Always(x)
  BY <1>2 DEF Always
<1>4. /\ Released(x, at).dead = e.dead
      /\ Released(x, at).asked = e.asked \ {Len(e.frames)}
  BY <1>2, <1>3, ReleasedReq
<1>5. ~e.dead => e.asked \ {Len(e.frames)} = {}
  BY DEF Req, ReleaseDue
<1>6. Req(Released(x, at))
  BY <1>4, <1>5 DEF Req
<1> QED
  BY <1>6 DEF x

LEMMA ValuedReq ==
    ASSUME NEW e, Always(e), Len(e.frames) >= 1, e.path # <<>>, Req(e)
    PROVE  Req(afterValue(e))
<1> DEFINE fs == e.frames
           gs == [fs EXCEPT ![Len(fs)].ph = "phComma"]
           q == Front(e.path)
           x == [e EXCEPT !.frames = gs, !.path = q]
<1>1. e \in Effect /\ fs \in Seq(FrameType) /\ Len(fs) >= 1 /\ e.path \in Seq(Ids)
  BY DEF Always, Effect
<1>2. /\ gs \in Seq(FrameType) /\ Len(gs) = Len(fs)
      /\ gs[Len(fs)].deferred = fs[Len(fs)].deferred
      /\ \A k \in 1..Len(fs) - 1 : gs[k] = fs[k]
  <2> HIDE DEF gs, fs
  <2>1. gs \in Seq(FrameType) /\ Len(gs) = Len(fs)
    BY <1>1, PhaseChanged, ZenonT(60) DEF gs
  <2>2. gs[Len(fs)].deferred = fs[Len(fs)].deferred
    BY <1>1, PhaseChanged DEF gs
  <2>3. \A k \in 1..Len(fs) - 1 : gs[k] = fs[k]
    BY <1>1, PhaseChanged DEF gs
  <2> QED
    BY <2>1, <2>2, <2>3
<1>3. afterValue(e) = IF ReleaseDue(e)
                      THEN Released([x EXCEPT !.wantRelease = FALSE], "value") ELSE x
  BY <1>1 DEF afterValue, Effect
<1>4. q \in Seq(Ids)
  BY <1>1, FrontOK
<1> HIDE DEF gs, q
<1>5. /\ x \in Effect /\ x.frames = gs /\ x.dead = e.dead /\ x.asked = e.asked
      /\ x.wantRelease = e.wantRelease /\ x.releaseAt = e.releaseAt
      /\ x.calls = e.calls /\ x.deferredBytes = e.deferredBytes
  BY <1>1, <1>2, <1>4 DEF Effect
<1>6. ReleaseDue(x) <=> ReleaseDue(e)
  BY <1>2, <1>5 DEF ReleaseDue
<1> HIDE DEF x
<1>7. Always(x)
  <2>1. \A k \in 1..Len(fs) : gs[k].deferred = fs[k].deferred
    <3>1. \A k \in 1..Len(fs) : k = Len(fs) \/ k \in 1..Len(fs) - 1
      BY <1>1, LenProperties
    <3> QED
      BY <1>2, <3>1
  <2>2. Total(gs) = Total(fs)
    BY <1>1, <1>2, <2>1, TotalSame
  <2> QED
    BY <1>2, <1>5, <2>2 DEF Always
<1>8. Req(x)
  BY <1>5, ReqSame DEF SameReq
<1>9. ReleaseDue(x) => Req(Released([x EXCEPT !.wantRelease = FALSE], "value"))
  BY <1>7, <1>8, ServedReq
<1> QED
  BY <1>3, <1>6, <1>8, <1>9

LEMMA RequestIs ==
    /\ RequestKept <=> Req(Now)
    /\ \A r : Becomes(r) => (RequestKept' <=> Req(r))
BY NowIs DEF RequestKept, Req, Becomes

LEMMA JudgedReq ==
    ASSUME NEW e, Always(e), Len(e.frames) >= 1, Req(e), NEW id \in Ids, NEW cb,
           cb = "release" /\ e.wantRelease => e.releaseAt = Len(e.frames)
    PROVE  Req([Hook(cb, [e EXCEPT !.path = Append(@, id)]) EXCEPT
                    !.frames[Len(e.frames)].ph = "phValue",
                    !.calls = Running(@)])
<1> DEFINE x == [e EXCEPT !.path = Append(@, id)]
           h == Hook(cb, x)
           r == [h EXCEPT !.frames[Len(e.frames)].ph = "phValue",
                          !.calls = Running(@)]
<1>1. e \in Effect
  BY DEF Always
<1>2. /\ x \in Effect /\ x.frames = e.frames /\ x.calls = e.calls
      /\ x.deferredBytes = e.deferredBytes /\ SameReq(e, x)
  <2>1. Append(e.path, id) \in Seq(Ids)
    BY <1>1, AppendProperties DEF Effect
  <2> QED
    BY <1>1, <2>1 DEF Effect, SameReq
<1> HIDE DEF x
<1>3. Always(x) /\ Req(x)
  BY <1>2, ReqSame DEF Always
<1>4. Req(h)
  BY <1>2, <1>3, HookReq DEF SameReq
<1>5. h \in Effect
  BY <1>2, <1>3, HookOK DEF Hooked, Always
<1> HIDE DEF h
<1>6. SameReq(h, r)
  BY <1>5 DEF SameReq, Effect
<1>7. Req(r)
  BY <1>4, <1>6, ReqSame
<1> QED
  BY <1>7 DEF h, x

LEMMA EndRegionMoves ==
    ASSUME NEW e, Always(e), Len(e.frames) >= 1, e.path # <<>>,
           NEW raw \in Seq(Tokens), NEW cb,
           regT = "rtDefer" => kvRaw \in Ids /\ regKey \in Ids
    PROVE  LET r == endRegion(e, raw, cb)
           IN  /\ r.dead \/ r.path = Front(e.path)
               /\ /\ Req(e)
                  /\ regT # "rtDefer" /\ cb = "release" /\ e.wantRelease =>
                        e.releaseAt = Len(e.frames)
                  => Req(r)
<1> DEFINE kv == [key |-> regKey, keyRaw |-> kvRaw, raw |-> raw]
           d == [e EXCEPT !.frames[Len(e.frames)].deferred = Append(@, kv),
                          !.deferredBytes = @ + Size(kv)]
           h == Hook(cb, e)
           r == endRegion(e, raw, cb)
<1>1. e \in Effect
  BY DEF Always
<1>2. /\ regT = "rtDefer" => r = IF d.dead THEN d ELSE afterValue(d)
      /\ regT # "rtDefer" => r = IF h.dead THEN h ELSE afterValue(h)
  BY DEF endRegion
<1> HIDE DEF r
<1>3. CASE regT = "rtDefer"
  <2>1. kv \in Pairs
    BY <1>3 DEF Pairs
  <2> HIDE DEF kv
  <2>2. Deferring(e, d, kv)
    BY <2>1, DeferringOK
  <2>3. d.asked = e.asked
    BY <1>1 DEF Effect
  <2> HIDE DEF d
  <2>4. /\ Always(d) /\ Len(d.frames) >= 1 /\ d.path = e.path /\ SameReq(e, d)
    BY <2>2, <2>3 DEF Deferring, SameReq
  <2>5. Req(e) => Req(d)
    BY <2>4, ReqSame
  <2>6. Valued(d, afterValue(d)) /\ (Req(d) => Req(afterValue(d)))
    BY <2>4, ValuedOK, ValuedReq
  <2> QED
    BY <1>2, <1>3, <2>4, <2>5, <2>6 DEF r, Valued
<1>4. CASE regT # "rtDefer"
  <2>1. Hooked(e, h, cb)
    BY HookOK
  <2>2. Req(e) /\ (cb = "release" /\ e.wantRelease => e.releaseAt = Len(e.frames))
            => Req(h)
    BY HookReq
  <2> HIDE DEF h
  <2>3. Always(h) /\ h.path = e.path /\ Len(h.frames) >= 1
    BY <2>1 DEF Hooked, Kept
  <2>4. Valued(h, afterValue(h)) /\ (Req(h) => Req(afterValue(h)))
    BY <2>3, ValuedOK, ValuedReq
  <2> QED
    BY <1>2, <1>4, <2>2, <2>3, <2>4 DEF r, Valued
<1> QED
  BY <1>3, <1>4

\* What a step does to the path and to the document.
Goes ==
    \/ dead'
    \/ doc' = doc /\ path' = path
    \/ doc' = doc /\ path # <<>> /\ path' = Front(path)
    \/ /\ doc' = doc /\ calls # <<>> /\ Len(path) = Len(frames) - 1
       /\ \E id \in Ids : path' = Append(path, id)
    \/ /\ calls = <<>>
       /\ \E tok \in Tokens :
            /\ Ready(tok) /\ doc' = Extended(tok)
            /\ \/ path' = path /\ (tok \in Ids => regOpen)
               \/ tok = Close /\ path # <<>> /\ path' = Front(path)
               \/ /\ tok \in Ids /\ ~regOpen /\ topFrame.ph # "phValue"
                  /\ path' = Append(path, tok)

\* The requests kept, and the path.
Moves == Goes /\ ("overlap" \notin Uses /\ RequestKept => RequestKept')

\* A token is read.
LEMMA TokenOK ==
    ASSUME IInv, NEW tok \in Tokens, Ready(tok), Reads(tok)
    PROVE  LET e == Consumed(Now)
           IN  /\ Always(e) /\ e.frames = frames /\ e.path = path
               /\ Len(frames) >= 1 /\ Len(frames) \in Nat /\ path \in Seq(Ids)
               /\ SameReq(Now, e) /\ e.wantRelease = wantRelease
               /\ e.releaseAt = releaseAt
               /\ \/ calls = <<>> /\ doc' = Extended(tok)
                  \/ calls # <<>> /\ doc' = doc
<1>1. /\ ~dead /\ ~rootDone /\ st = "sIdle" /\ Live /\ Always(Now) /\ RestType
  BY DEF Ready, Scanning, IInv
<1>2. Stack(Now, doc)
  BY <1>1 DEF Live
<1>3. frames \in Seq(FrameType) /\ path \in Seq(Ids) /\ Len(frames) \in Nat
      /\ Len(frames) >= 1 /\ depth \in Nat
  <2>1. frames \in Seq(FrameType) /\ path \in Seq(Ids) /\ depth \in Nat
    BY <1>1, NowIs DEF Always, Effect
  <2> QED
    BY <1>2, <2>1, NowIs, LenProperties DEF Stack
<1>4. ~Waits(Now)
  BY NowIs DEF Ready, InReplay, call, Waits
<1>5. PICK v \in BOOLEAN : Reads0(Now, doc, v) /\ depth >= 1
  <2>1. CASE regOpen
    <3>1. /\ regDepth = Len(frames) /\ depth > regDepth
          /\ \E v \in BOOLEAN : Reads0(Now, doc, v)
      BY <1>1, <2>1 DEF Live, InRegion
    <3> QED
      BY <1>3, <3>1
  <2>2. CASE ~regOpen /\ pendSet
    <3>1. Reads0(Now, doc, TRUE) /\ depth = Len(frames)
      BY <1>1, <2>2, NowIs DEF Live, Pending, Asked
    <3>2. TRUE \in BOOLEAN
      OBVIOUS
    <3>3. depth >= 1
      BY <1>3, <3>1
    <3> QED
      BY <3>1, <3>2, <3>3, Zenon
  <2>3. CASE ~regOpen /\ ~pendSet
    <3>1. Reads0(Now, doc, FALSE) /\ depth = Len(frames)
      BY <1>1, <1>4, <2>3, NowIs DEF Live, Rest
    <3>2. FALSE \in BOOLEAN
      OBVIOUS
    <3>3. depth >= 1
      BY <1>3, <3>1
    <3> QED
      BY <3>1, <3>2, <3>3, Zenon
  <2> QED
    BY <2>1, <2>2, <2>3
<1> DEFINE e == Consumed(Now)
<1>6. Reader(e, tok, v)
  BY <1>1, <1>2, <1>5, ReaderOK
<1>7. e.asked = asked
  BY DEF Consumed, Now
<1>8. \/ calls = <<>> /\ doc' = Extended(tok)
      \/ calls # <<>> /\ doc' = doc
  BY DEF Reads
<1> HIDE DEF e
<1>9. SameReq(Now, e)
  BY <1>6, <1>7, NowIs DEF Reader, SameReq
<1> QED
  BY <1>3, <1>6, <1>8, <1>9 DEF Reader, e

LEMMA KeyMoves ==
    ASSUME IInv, NEW id \in Ids, NEW act \in Answers, NEW cb \in Callbacks,
           Key(id, act, cb)
    PROVE  Moves
<1> DEFINE e == Consumed(Now)
           r == [Hook(cb, [e EXCEPT !.path = Append(@, id)]) EXCEPT
                     !.frames[Len(e.frames)].ph = "phValue",
                     !.calls = Running(@)]
<1>1. Ready(id) /\ ~regOpen
  BY DEF Key
<1>2. CASE topFrame.ph = "phValue"
  <2>1. Becomes(Bailed(Now, "syntax"))
    BY <1>2 DEF Key, SyntaxError
  <2>2. dead'
    BY <2>1 DEF Becomes, Bailed, Now
  <2> QED
    BY <2>2 DEF Moves, Goes, RequestKept
<1>3. CASE topFrame.ph # "phValue"
  <2>1. Dispatched(e, id, id, act, cb) /\ Reads(id)
    BY <1>3 DEF Key
  <2>2. Becomes(r) /\ MayCall(cb)
    BY <2>1 DEF Dispatched
  <2>3. id \in Tokens /\ id \notin {Simple, Open, Close}
    BY TokensApart
  <2>4. /\ Always(e) /\ e.frames = frames /\ e.path = path
        /\ Len(frames) >= 1 /\ Len(frames) \in Nat /\ path \in Seq(Ids)
        /\ SameReq(Now, e) /\ e.wantRelease = wantRelease
        /\ e.releaseAt = releaseAt
        /\ \/ calls = <<>> /\ doc' = Extended(id)
           \/ calls # <<>> /\ doc' = doc
    BY <1>1, <2>1, <2>3, TokenOK
  <2> HIDE DEF e
  <2>5. Judged(e, r, id, cb)
    BY <2>4, JudgedOK
  <2>6. "overlap" \notin Uses /\ RequestKept => Req(r)
    <3> SUFFICES ASSUME "overlap" \notin Uses, RequestKept PROVE Req(r)
      OBVIOUS
    <3>1. Req(e)
      BY <2>4, RequestIs, ReqSame
    <3>2. cb = "release" /\ e.wantRelease => e.releaseAt = Len(e.frames)
      BY <2>2, <2>4 DEF MayCall
    <3> QED
      BY <2>4, <3>1, <3>2, JudgedReq
  <2> HIDE DEF r
  <2>7. path' = Append(path, id)
    BY <2>2, <2>4, <2>5 DEF Judged, Becomes
  <2>8. calls # <<>> => Len(path) = Len(frames) - 1
    <3>1. Live
      BY <1>1 DEF IInv, Ready, Scanning
    <3>2. ~pendSet
      BY <1>1, <1>3, <3>1, NowIs DEF Live, Pending, Asked, InPair, Top, topFrame
    <3> QED
      BY <1>1, <3>1, <3>2, NowIs DEF Live, Rest
  <2>9. Goes
    BY <1>1, <1>3, <2>3, <2>4, <2>7, <2>8 DEF Goes
  <2> QED
    BY <2>2, <2>6, <2>9, RequestIs DEF Moves
<1> QED
  BY <1>2, <1>3

LEMMA ValueMoves ==
    ASSUME IInv, NEW tok \in Tokens, Value(tok)
    PROVE  Moves
<1> DEFINE e == Consumed(Now)
           x == [e EXCEPT !.depth = IF tok = Open THEN @ + 1 ELSE @]
           w == [pushFrame(e) EXCEPT !.depth = @ + 1]
<1>1. tok \in {Simple, Open} /\ Ready(tok) /\ ~regOpen
  BY DEF Value
<1>2. CASE topFrame.ph # "phValue"
  <2>1. Becomes(Bailed(Now, "syntax"))
    BY <1>2 DEF Value, SyntaxError
  <2>2. dead'
    BY <2>1 DEF Becomes, Bailed, Now
  <2> QED
    BY <2>2 DEF Moves, Goes, RequestKept
<1>3. CASE topFrame.ph = "phValue"
  <2>1. /\ Reads(tok)
        /\ \/ Becomes(Bailed(Now, "unsupported"))
           \/ Becomes(w)
           \/ Becomes(x)
    BY <1>1, <1>3 DEF Value
  <2>2. /\ Always(e) /\ e.frames = frames /\ e.path = path
        /\ SameReq(Now, e) /\ tok \notin Ids
        /\ \/ calls = <<>> /\ doc' = Extended(tok)
           \/ calls # <<>> /\ doc' = doc
    BY <1>1, <2>1, TokenOK, TokensApart
  <2> HIDE DEF e
  <2>3. e \in Effect
    BY <2>2 DEF Always
  <2>4. CASE Becomes(Bailed(Now, "unsupported"))
    <3>1. dead'
      BY <2>4 DEF Becomes, Bailed, Now
    <3> QED
      BY <3>1 DEF Moves, Goes, RequestKept
  <2>5. ASSUME NEW r, Becomes(r), r.path = e.path, SameReq(e, r) PROVE Moves
    <3>1. path' = path
      BY <2>2, <2>5 DEF Becomes
    <3>2. Goes
      BY <1>1, <2>2, <3>1 DEF Goes
    <3>3. RequestKept => RequestKept'
      <4>1. Req(r) <=> Req(Now)
        BY <2>2, <2>5, ReqSame
      <4> QED
        BY <2>5, <4>1, RequestIs
    <3> QED
      BY <3>2, <3>3 DEF Moves
  <2>6. CASE Becomes(w)
    <3>1. Entered(e, w)
      BY <2>2, EnteredOK
    <3>2. w.asked = e.asked /\ w.releaseAt = e.releaseAt
      BY <2>3 DEF pushFrame, Effect
    <3> HIDE DEF w
    <3>3. w.path = e.path /\ SameReq(e, w)
      BY <3>1, <3>2 DEF Entered, SameReq
    <3> QED
      BY <2>5, <2>6, <3>3
  <2>7. CASE Becomes(x)
    <3>1. x.path = e.path /\ SameReq(e, x)
      BY <2>3 DEF Effect, SameReq
    <3> HIDE DEF x
    <3> QED
      BY <2>5, <2>7, <3>1
  <2> QED
    BY <2>1, <2>4, <2>6, <2>7
<1> QED
  BY <1>2, <1>3

LEMMA RegionByteMoves ==
    ASSUME IInv, NEW tok \in Tokens, NEW cb \in Callbacks, RegionByte(tok, cb)
    PROVE  Moves
<1> DEFINE q == Consumed(Now)
           e == [q EXCEPT !.depth = CASE tok = Open  -> @ + 1
                                      [] tok = Close -> @ - 1
                                      [] OTHER         -> @]
           copy == IF Copies THEN Append(capBuf, tok) ELSE capBuf
<1>1. /\ Ready(tok) /\ regOpen /\ Reads(tok)
      /\ IF tok = Close /\ e.depth = regDepth THEN RegionEnds(e, copy, cb)
         ELSE Becomes(e)
  BY Zenon DEF RegionByte
<1>2. /\ Always(q) /\ q.frames = frames /\ q.path = path
      /\ Len(frames) >= 1 /\ Len(frames) \in Nat /\ path \in Seq(Ids)
      /\ SameReq(Now, q) /\ q.wantRelease = wantRelease
      /\ q.releaseAt = releaseAt
      /\ \/ calls = <<>> /\ doc' = Extended(tok)
         \/ calls # <<>> /\ doc' = doc
  BY <1>1, TokenOK
<1>3. /\ Always(Now) /\ RestType /\ InRegion /\ Stack(Now, doc) /\ st = "sIdle"
  BY <1>1 DEF IInv, Live, Ready, Scanning
<1>4. /\ Len(path) = Len(frames) /\ path # <<>>
      /\ regT = "rtDefer" => kvRaw \in Ids /\ regKey \in Ids
      /\ depth > regDepth /\ regDepth = Len(frames) /\ depth \in Nat
  <2>1. Len(path) = Len(frames) /\ depth > regDepth /\ regDepth = Len(frames)
    BY <1>3, NowIs DEF InRegion, InPair
  <2>2. path # <<>>
    BY <1>2, <2>1, EmptySeq
  <2>3. depth \in Nat
    BY <1>3, NowIs DEF Always, Effect
  <2> QED
    BY <1>3, <2>1, <2>2, <2>3 DEF InRegion
<1>5. q \in Effect /\ q.depth = depth
  BY <1>2 DEF Always, Consumed, Now
<1> HIDE DEF q
<1> DEFINE d == CASE tok = Open  -> q.depth + 1
                  [] tok = Close -> q.depth - 1
                  [] OTHER         -> q.depth
<1>6. e = [q EXCEPT !.depth = d]
  OBVIOUS
<1>7. d \in Nat
  <2>1. tok = Open => d = depth + 1
    BY <1>5, TokensApart
  <2>2. tok = Close => d = depth - 1
    BY <1>5, TokensApart
  <2>3. tok # Open /\ tok # Close => d = depth
    BY <1>5
  <2> QED
    BY <1>2, <1>4, <2>1, <2>2, <2>3
<1> HIDE DEF d, e
<1>8. /\ e \in Effect /\ e.frames = frames /\ e.path = path /\ e.calls = q.calls
      /\ e.deferredBytes = q.deferredBytes /\ SameReq(q, e)
  BY <1>2, <1>5, <1>6, <1>7 DEF Effect, SameReq
<1>9. Always(e)
  BY <1>2, <1>8 DEF Always
<1>10. RequestKept <=> Req(e)
  BY <1>2, <1>8, RequestIs, ReqSame
<1>11. CASE tok = Close /\ e.depth = regDepth
  <2> DEFINE r == endRegion(e, copy, cb)
  <2>1. RegionEnds(e, copy, cb)
    BY <1>1, <1>11
  <2>2. Becomes(r) /\ (regT # "rtDefer" => cb = "nothing" \/ MayCall(cb))
    BY <2>1 DEF RegionEnds
  <2>3. copy \in Seq(Tokens)
    <3>1. capBuf \in Seq(Tokens)
      BY <1>3 DEF RestType
    <3> QED
      BY <3>1, AppendProperties
  <2> HIDE DEF copy
  <2>4. /\ r.dead \/ r.path = Front(path)
        /\ /\ Req(e)
           /\ regT # "rtDefer" /\ cb = "release" /\ e.wantRelease =>
                e.releaseAt = Len(e.frames)
           => Req(r)
    BY <1>2, <1>4, <1>8, <1>9, <2>3, EndRegionMoves
  <2> HIDE DEF r
  <2>6. "overlap" \notin Uses /\ RequestKept => Req(r)
    BY <1>2, <1>8, <1>10, <2>2, <2>4 DEF MayCall, SameReq
  <2>7. Goes
    BY <1>1, <1>2, <1>4, <1>11, <2>2, <2>4 DEF Goes, Becomes
  <2> QED
    BY <2>2, <2>6, <2>7, RequestIs DEF Moves
<1>12. CASE ~(tok = Close /\ e.depth = regDepth)
  <2>1. Becomes(e)
    BY <1>1, <1>12
  <2>2. path' = path
    BY <1>8, <2>1 DEF Becomes
  <2>3. Goes
    BY <1>1, <1>2, <2>2 DEF Goes
  <2> QED
    BY <1>10, <2>1, <2>3, RequestIs DEF Moves
<1> QED
  BY <1>11, <1>12

LEMMA SimpleEndMoves ==
    ASSUME IInv, NEW cb \in Callbacks, SimpleEnd(cb)
    PROVE  Moves
<1> DEFINE r == endRegion(Now, capBuf, cb)
<1>1. /\ ~dead /\ ~rootDone /\ st = "sInStr" /\ doc' = doc
      /\ RegionEnds(Now, capBuf, cb)
  BY DEF SimpleEnd, Scanning
<1>2. Becomes(r) /\ (cb = "nothing" \/ MayCall(cb))
  BY <1>1 DEF RegionEnds
<1>3. Always(Now) /\ RestType /\ InRegion /\ Stack(Now, doc)
  BY <1>1 DEF IInv, Live
<1>4. /\ Len(path) = Len(frames) /\ Len(frames) >= 1 /\ path # <<>>
      /\ regT = "rtDefer" => kvRaw \in Ids /\ regKey \in Ids
      /\ capBuf \in Seq(Tokens)
  <2>1. Len(path) = Len(frames) /\ Len(frames) >= 1
    BY <1>3, NowIs DEF InRegion, InPair, Stack
  <2> QED
    BY <1>3, <2>1, EmptySeq DEF InRegion, RestType
<1>5. /\ r.dead \/ r.path = Front(path)
      /\ /\ Req(Now)
         /\ regT # "rtDefer" /\ cb = "release" /\ wantRelease =>
              releaseAt = Len(frames)
         => Req(r)
  BY <1>3, <1>4, NowIs, EndRegionMoves
<1> HIDE DEF r
<1>6. "overlap" \notin Uses /\ RequestKept => Req(r)
  BY <1>2, <1>5, RequestIs DEF MayCall
<1>7. Goes
  BY <1>1, <1>2, <1>4, <1>5 DEF Goes, Becomes
<1> QED
  BY <1>2, <1>6, <1>7, RequestIs DEF Moves

LEMMA CloseFrameMoves ==
    ASSUME IInv, NEW cb \in Callbacks \union {"releaseNow"}, CloseFrame(cb)
    PROVE  Moves
<1> DEFINE e == Consumed(Now)
           hb == IF cb = "releaseNow" THEN "nothing" ELSE cb
           h == Hook(hb, e)
           c == [at |-> "leave", frame |-> Len(frames), todo |-> <<>>, raw |-> <<>>,
                 active |-> FALSE, stale |-> FALSE, snap |-> <<>>]
           x == [h EXCEPT !.calls = Append(@, c)]
           w == Released(h, "leave")
<1>1. Ready(Close) /\ ~regOpen
  BY DEF CloseFrame
<1>2. Close \in Tokens /\ Close \notin Ids
  BY TokensApart
<1>3. CASE topFrame.ph = "phValue"
  <2>1. Becomes(Bailed(Now, "syntax"))
    BY <1>3 DEF CloseFrame, SyntaxError
  <2>2. dead'
    BY <2>1 DEF Becomes, Bailed, Now
  <2> QED
    BY <2>2 DEF Moves, Goes, RequestKept
<1>4. CASE topFrame.ph # "phValue"
  <2>1. /\ Reads(Close)
        /\ cb = "releaseNow" \/ MayCall(cb)
        /\ Becomes(IF h.dead THEN h ELSE IF cb = "releaseNow" THEN w ELSE x)
    <3>1. h = IF cb = "releaseNow" THEN Hook("nothing", e) ELSE Hook(cb, e)
      OBVIOUS
    <3>2. CloseFrame(cb)
      OBVIOUS
    <3> HIDE DEF h, e
    <3>3. Becomes(IF h.dead THEN h ELSE IF cb = "releaseNow" THEN w ELSE x)
      BY <1>4, <3>1, <3>2 DEF CloseFrame, e
    <3> QED
      BY <1>4, <3>2, <3>3 DEF CloseFrame
  <2>2. /\ Always(e) /\ e.frames = frames /\ e.path = path /\ Len(frames) >= 1
        /\ SameReq(Now, e) /\ e.wantRelease = wantRelease
        /\ e.releaseAt = releaseAt
        /\ \/ calls = <<>> /\ doc' = Extended(Close)
           \/ calls # <<>> /\ doc' = doc
    BY <1>1, <1>2, <2>1, TokenOK
  <2> HIDE DEF e
  <2>3. Hooked(e, h, hb)
    BY <2>2, HookOK
  <2>4. "overlap" \notin Uses /\ RequestKept => Req(h)
    <3> SUFFICES ASSUME "overlap" \notin Uses, RequestKept PROVE Req(h)
      OBVIOUS
    <3>1. Req(e)
      BY <2>2, RequestIs, ReqSame
    <3>2. hb = "release" /\ e.wantRelease => e.releaseAt = Len(e.frames)
      BY <2>1, <2>2 DEF MayCall
    <3> QED
      BY <2>2, <3>1, <3>2, HookReq
  <2> HIDE DEF h
  <2>5. Always(h) /\ h \in Effect /\ h.path = path /\ Len(h.frames) >= 1
    BY <2>2, <2>3 DEF Hooked, Kept, Always
  <2>6. ASSUME NEW r, Becomes(r), r.path = path, Req(h) => Req(r) PROVE Moves
    <3>1. path' = path
      BY <2>6 DEF Becomes
    <3>2. Goes
      BY <1>1, <1>2, <2>2, <3>1 DEF Goes
    <3> QED
      BY <2>4, <2>6, <3>2, RequestIs DEF Moves
  <2>7. w.path = path /\ (Req(h) => Req(w))
    <3>1. w.path = path
      BY <2>5, ReleasedOK DEF Calls
    <3>2. /\ w.dead = h.dead /\ w.asked = h.asked \ {Len(h.frames)}
          /\ w.wantRelease = h.wantRelease /\ w.releaseAt = h.releaseAt
      BY <2>5, ReleasedReq
    <3> HIDE DEF w
    <3>3. Req(h) => Req(w)
      BY <3>2 DEF Req
    <3> QED
      BY <3>1, <3>3
  <2> HIDE DEF w, c
  <2>8. x.path = path /\ (Req(h) => Req(x))
    <3>1. x.path = path /\ SameReq(h, x)
      BY <2>5 DEF Effect, SameReq
    <3> HIDE DEF x
    <3> QED
      BY <3>1, ReqSame
  <2> HIDE DEF x
  <2>9. Becomes(h) \/ Becomes(w) \/ Becomes(x)
    BY <2>1
  <2> QED
    BY <2>5, <2>6, <2>7, <2>8, <2>9
<1> QED
  BY <1>3, <1>4

LEMMA ReplayNextMoves ==
    ASSUME IInv, NEW act \in Answers, NEW cb \in Callbacks, ReplayNext(act, cb)
    PROVE  Moves
<1> DEFINE kv == Head(call.todo)
           d == [call EXCEPT !.todo = Tail(@), !.raw = kv.raw]
           e == [Now EXCEPT !.calls[Len(calls)].todo = Tail(@),
                            !.calls[Len(calls)].raw = kv.raw]
           r == [Hook(cb, [e EXCEPT !.path = Append(@, kv.key)]) EXCEPT
                     !.frames[Len(e.frames)].ph = "phValue",
                     !.calls = Running(@)]
<1>1. /\ Between /\ call.todo # <<>> /\ doc' = doc /\ calls # <<>>
      /\ Dispatched(e, kv.key, kv.keyRaw, act, cb)
  BY DEF ReplayNext, Between
<1>2. Len(path) = Len(frames) - 1 /\ Len(frames) >= 1
  BY <1>1, BetweenOK
<1>3. kv.key \in Ids /\ Called(e, d)
  BY <1>1, NextPairOK
<1>4. SameReq(Now, e)
  BY DEF Now, SameReq
<1> HIDE DEF kv, d, e
<1>5. Becomes(r) /\ MayCall(cb)
  BY <1>1 DEF Dispatched
<1>6. /\ Always(e) /\ e.frames = frames /\ e.path = path
      /\ e.wantRelease = wantRelease /\ e.releaseAt = releaseAt
  BY <1>3 DEF Called
<1>7. Judged(e, r, kv.key, cb)
  BY <1>2, <1>3, <1>6, JudgedOK
<1>8. "overlap" \notin Uses /\ RequestKept => Req(r)
  <2> SUFFICES ASSUME "overlap" \notin Uses, RequestKept PROVE Req(r)
    OBVIOUS
  <2>1. Req(e)
    BY <1>4, RequestIs, ReqSame
  <2>2. cb = "release" /\ e.wantRelease => e.releaseAt = Len(e.frames)
    BY <1>5, <1>6 DEF MayCall
  <2> QED
    BY <1>2, <1>3, <1>6, <2>1, <2>2, JudgedReq
<1> HIDE DEF r
<1>9. path' = Append(path, kv.key)
  BY <1>5, <1>6, <1>7 DEF Judged, Becomes
<1>10. Goes
  BY <1>1, <1>2, <1>3, <1>9 DEF Goes
<1> QED
  BY <1>5, <1>8, <1>10, RequestIs DEF Moves

\* A step that concerns neither.
LEMMA StillMoves ==
    ASSUME NEW r, Becomes(r), r.path = path, SameReq(Now, r), doc' = doc
    PROVE  Moves
<1>1. path' = path
  BY DEF Becomes
<1>2. Goes
  BY <1>1 DEF Goes
<1> QED
  BY <1>2, RequestIs, ReqSame DEF Moves

LEMMA ReplayEndMoves ==
    ASSUME ReplayEnd
    PROVE  Moves
<1> DEFINE e == [Now EXCEPT !.calls[Len(calls)].raw = <<>>,
                            !.calls[Len(calls)].active = FALSE]
<1>1. e.path = path /\ SameReq(Now, e)
  BY DEF Now, SameReq
<1>2. Becomes(e) /\ doc' = doc
  BY DEF ReplayEnd
<1> HIDE DEF e
<1> QED
  BY <1>1, <1>2, StillMoves

LEMMA PausesMoves ==
    ASSUME Suspends \/ Resume \/ UNCHANGED vars
    PROVE  Moves
<1> DEFINE r == [Now EXCEPT !.suspendReq = FALSE]
<1>1. r.path = path /\ SameReq(Now, r) /\ Now.path = path /\ SameReq(Now, Now)
  BY DEF Now, SameReq
<1>2. doc' = doc /\ (Becomes(r) \/ Becomes(Now))
  <2>1. CASE Suspends
    BY <2>1 DEF Suspends
  <2>2. CASE Resume
    BY <2>2, NowIs DEF Resume, readVars, regVars, heldVars, histVars, Becomes
  <2>3. CASE UNCHANGED vars
    BY <2>3, NowIs DEF vars, readVars, regVars, heldVars, stopVars, histVars, Becomes
  <2> QED
    BY <2>1, <2>2, <2>3
<1> HIDE DEF r
<1> QED
  BY <1>1, <1>2, StillMoves

LEMMA ReturnMoves ==
    ASSUME IInv, Return
    PROVE  Moves
<1> DEFINE n == Len(frames)
           e == [Now EXCEPT !.calls = Front(@)]
           x == [e EXCEPT !.wantRelease = FALSE]
           y == Released(x, "close")
           w == [y EXCEPT !.calls[Len(calls)].stale = call.stale,
                          !.calls[Len(calls)].snap = call.snap]
           p == [e EXCEPT !.frames = Front(@), !.depth = @ - 1,
                          !.asked = @ \ {Len(e.frames)}]
<1>1. Between /\ call.todo = <<>> /\ doc' = doc
  BY DEF Return
<1>2. Becomes(CASE call.at = "value" -> e
                [] call.at = "leave" /\ ReleaseDue(e) -> w
                [] OTHER -> CloseEnd(e, call))
  BY DEF Return
<1>3. /\ Always(Now) /\ Len(path) = n - 1 /\ n >= 1 /\ n \in Nat /\ path \in Seq(Ids)
      /\ depth = n
  <2>1. Always(Now) /\ Len(path) = n - 1 /\ n >= 1 /\ depth = n
    BY <1>1, BetweenOK
  <2> QED
    BY <2>1, NowIs, LenProperties DEF Always, Effect
<1>4. Popped(Now, e) /\ (call.at # "value" /\ LeftIn(e, call) = <<>> => Gone(e, p))
  BY <1>1, ReturnsOK
<1>5. e.asked = asked
  BY DEF Now
<1> HIDE DEF e
<1>6. /\ Always(e) /\ e.path = path /\ e.frames = frames /\ e.depth = n
      /\ SameReq(Now, e)
  BY <1>3, <1>4, <1>5, NowIs DEF Popped, SameReq
<1>7. RequestKept => Req(e)
  BY <1>6, RequestIs, ReqSame
<1>8. ASSUME NEW r, Becomes(r), r.path = path \/ (path # <<>> /\ r.path = Front(path)),
             Req(e) => Req(r)
      PROVE  Moves
  <2>1. Goes
    BY <1>1, <1>8 DEF Goes, Becomes
  <2> QED
    BY <1>7, <1>8, <2>1, RequestIs DEF Moves
<1>9. CASE call.at = "value"
  BY <1>2, <1>6, <1>8, <1>9
<1>10. CASE call.at = "leave" /\ ReleaseDue(e)
  <2>1. Becomes(w)
    BY <1>2, <1>10
  <2>2. Req(e) => Req(y)
    BY <1>6, <1>10, ServedReq
  <2>3. /\ x \in Effect /\ x.path = path /\ x.frames = frames /\ x.calls = e.calls
        /\ x.deferredBytes = e.deferredBytes
    BY <1>6 DEF Always, Effect
  <2> HIDE DEF x
  <2>4. Always(x) /\ Len(x.frames) >= 1
    BY <1>3, <1>6, <2>3 DEF Always
  <2>5. y \in Effect /\ y.path = path
    BY <2>3, <2>4, ReleasedOK DEF Calls, Always
  <2> HIDE DEF y
  <2>6. w.path = y.path /\ SameReq(y, w)
    BY <2>5 DEF Effect, SameReq
  <2> HIDE DEF w
  <2> QED
    BY <1>8, <2>1, <2>2, <2>5, <2>6, ReqSame
<1>11. CASE call.at # "value" /\ ~(call.at = "leave" /\ ReleaseDue(e))
  <2>1. Becomes(CloseEnd(e, call))
    BY <1>2, <1>11
  <2>2. CASE LeftIn(e, call) # <<>>
    <3>1. Becomes(Bailed(e, "leftover"))
      BY <2>1, <2>2 DEF CloseEnd
    <3>2. Bailed(e, "leftover").dead
      BY <1>6, BailedOK
    <3>3. dead'
      BY <3>1, <3>2 DEF Becomes
    <3> QED
      BY <3>3 DEF Moves, Goes, RequestKept
  <2>3. CASE LeftIn(e, call) = <<>>
    <3>1. CloseEnd(e, call) = IF p.depth = 0 THEN [p EXCEPT !.rootDone = TRUE]
                              ELSE afterValue(p)
      BY <2>3 DEF CloseEnd
    <3>2. Gone(e, p)
      BY <1>4, <1>11, <2>3
    <3>3. /\ p.asked = e.asked \ {Len(e.frames)} /\ p.dead = e.dead
          /\ p.wantRelease = e.wantRelease /\ p.releaseAt = e.releaseAt
      BY <1>6 DEF Always, Effect
    <3> HIDE DEF p
    <3>4. Req(e) => Req(p)
      BY <3>3 DEF Req
    <3>5. /\ Always(p) /\ p \in Effect /\ p.path = path /\ p.depth = n - 1
          /\ Len(p.frames) = n - 1
      BY <1>6, <3>2 DEF Gone, Always
    <3>6. CASE n = 1
      <4> DEFINE r == [p EXCEPT !.rootDone = TRUE]
      <4>1. Becomes(r)
        BY <2>1, <3>1, <3>5, <3>6
      <4>2. r.path = path /\ SameReq(p, r)
        BY <3>5 DEF Effect, SameReq
      <4> HIDE DEF r
      <4> QED
        BY <1>8, <3>4, <4>1, <4>2, ReqSame
    <3>7. CASE n # 1
      <4>1. Becomes(afterValue(p))
        BY <1>3, <2>1, <3>1, <3>5, <3>7
      <4>2. path # <<>> /\ Len(p.frames) >= 1
        BY <1>3, <3>5, <3>7, EmptySeq
      <4>3. afterValue(p).path = Front(path)
        BY <3>5, <4>2, ValuedOK DEF Valued
      <4>4. Req(p) => Req(afterValue(p))
        BY <3>5, <4>2, ValuedReq
      <4> QED
        BY <1>8, <3>4, <4>1, <4>2, <4>3, <4>4
    <3> QED
      BY <3>6, <3>7
  <2> QED
    BY <2>2, <2>3
<1> QED
  BY <1>9, <1>10, <1>11

LEMMA NextMoves ==
    ASSUME IInv, [Next]_vars
    PROVE  Moves
<1>1. ASSUME NEW id \in Ids, NEW act \in Answers, NEW cb \in Callbacks,
             Key(id, act, cb)
      PROVE  Moves
  BY <1>1, KeyMoves
<1>2. ASSUME NEW tok \in Tokens, Value(tok) PROVE Moves
  BY <1>2, ValueMoves
<1>3. ASSUME NEW tok \in Tokens, NEW cb \in Callbacks, RegionByte(tok, cb) PROVE Moves
  BY <1>3, RegionByteMoves
<1>4. ASSUME NEW cb \in Callbacks, SimpleEnd(cb) PROVE Moves
  BY <1>4, SimpleEndMoves
<1>5. ASSUME NEW cb \in Callbacks \union {"releaseNow"}, CloseFrame(cb) PROVE Moves
  BY <1>5, CloseFrameMoves
<1>6. ASSUME NEW act \in Answers, NEW cb \in Callbacks, ReplayNext(act, cb) PROVE Moves
  BY <1>6, ReplayNextMoves
<1>7. CASE ReplayEnd
  BY <1>7, ReplayEndMoves
<1>8. CASE Return
  BY <1>8, ReturnMoves
<1>9. CASE Suspends \/ Resume \/ UNCHANGED vars
  BY <1>9, PausesMoves
<1> QED
  BY <1>1, <1>2, <1>3, <1>4, <1>5, <1>6, <1>7, <1>8, <1>9 DEF Next, ScanStep

-----------------------------------------------------------------------------
(* The path.                                                                *)

\* The path agrees with the keys that are open in the document, as far as
\* both go.
Agree == \A k \in 1..Len(path) : k <= Len(docPath) => path[k] = docPath[k]

PathOf(dc) == dc.open \o (IF dc.value # 0 THEN <<dc.value>> ELSE <<>>)

LEMMA PathOfOK ==
    ASSUME NEW dc \in DocType
    PROVE  /\ PathOf(dc) \in Seq(Ids) /\ Len(dc.open) \in Nat /\ dc.open \in Seq(Ids)
           /\ Len(PathOf(dc)) = IF dc.value # 0 THEN Len(dc.open) + 1 ELSE Len(dc.open)
           /\ \A k \in 1..Len(dc.open) : PathOf(dc)[k] = dc.open[k]
           /\ dc.value # 0 => PathOf(dc)[Len(dc.open) + 1] = dc.value
<1> DEFINE o == dc.open
           none == <<>>
           one == <<dc.value>>
<1>1. o \in Seq(Ids) /\ dc.value \in 0..MaxKeys /\ Len(o) \in Nat
  BY LenProperties DEF DocType
<1>2. CASE dc.value = 0
  <2>1. none \in Seq(Ids) /\ Len(none) = 0
    BY EmptySeq
  <2>2. PathOf(dc) = o
    BY <1>1, <1>2, ConcatEmptySeq DEF PathOf
  <2> QED
    BY <1>1, <1>2, <2>2
<1>3. CASE dc.value # 0
  <2>1. dc.value \in Ids
    BY <1>1, <1>3, DeferralAssumption DEF Ids
  <2>2. PathOf(dc) = Append(o, dc.value)
    BY <1>1, <1>3, <2>1, AppendIsConcat DEF PathOf
  <2> HIDE DEF o
  <2>3. /\ Append(o, dc.value) \in Seq(Ids) /\ Len(Append(o, dc.value)) = Len(o) + 1
        /\ Append(o, dc.value)[Len(o) + 1] = dc.value
        /\ \A k \in 1..Len(o) : Append(o, dc.value)[k] = o[k]
    BY <1>1, <2>1, AppendOK
  <2> QED
    BY <1>1, <1>3, <2>2, <2>3 DEF o
<1> QED
  BY <1>2, <1>3

\* Where the scan of the document is, no replay running.
LEMMA DocumentAt ==
    ASSUME IInv, ~dead, ~rootDone, calls = <<>>, st = "sIdle"
    PROVE  /\ Len(frames) \in Nat /\ Len(frames) >= 1 /\ depth \in Nat
           /\ Len(doc.open) = depth - 1 /\ path \in Seq(Ids) /\ doc \in DocType
           /\ regOpen =>
                /\ Len(path) = Len(frames) /\ regDepth = Len(frames)
                /\ depth > regDepth /\ topFrame.ph = "phValue"
           /\ ~regOpen =>
                /\ depth = Len(frames)
                /\ doc.value # 0 <=> topFrame.ph = "phValue"
                /\ Len(path) = IF doc.value # 0 THEN Len(frames) ELSE Len(frames) - 1
<1>1. Always(Now) /\ RestType /\ Live /\ Stack(Now, doc)
  BY DEF IInv, Live
<1>2. /\ Len(frames) \in Nat /\ Len(frames) >= 1 /\ depth \in Nat /\ path \in Seq(Ids)
      /\ doc \in DocType
  <2>1. frames \in Seq(FrameType) /\ depth \in Nat /\ path \in Seq(Ids)
    BY <1>1, NowIs DEF Always, Effect
  <2> QED
    BY <1>1, <2>1, NowIs, LenProperties DEF Stack, RestType
<1>3. Len(calls) = 0 /\ ~Waits(Now)
  BY NowIs DEF Waits
<1>4. ASSUME NEW v \in BOOLEAN, Reads0(Now, doc, v), depth >= 1
      PROVE  v = (doc.value # 0) /\ Len(doc.open) = depth - 1
  BY <1>2, <1>3, <1>4, NowIs DEF Reads0, Source
<1> DEFINE yes == TRUE
           no == FALSE
<1>5. CASE regOpen
  <2>1. /\ Len(path) = Len(frames) /\ regDepth = Len(frames) /\ depth > regDepth
        /\ topFrame.ph = "phValue" /\ \E v \in BOOLEAN : Reads0(Now, doc, v)
    BY <1>1, <1>5, NowIs DEF Live, InRegion, InPair, Top, topFrame
  <2> QED
    BY <1>2, <1>4, <1>5, <2>1
<1>6. CASE ~regOpen /\ pendSet
  <2>1. /\ Len(path) = Len(frames) /\ depth = Len(frames)
        /\ topFrame.ph = "phValue" /\ Reads0(Now, doc, yes)
    BY <1>1, <1>6, NowIs DEF Live, Pending, Asked, InPair, Top, topFrame
  <2>2. yes \in BOOLEAN
    OBVIOUS
  <2> HIDE DEF yes
  <2>3. yes = (doc.value # 0) /\ Len(doc.open) = depth - 1
    BY <1>2, <1>4, <2>1, <2>2
  <2> QED
    BY <1>2, <1>6, <2>1, <2>3 DEF yes
<1>7. CASE ~regOpen /\ ~pendSet
  <2>1. /\ Len(path) = Len(frames) - 1 /\ depth = Len(frames)
        /\ topFrame.ph # "phValue" /\ Reads0(Now, doc, no)
    BY <1>1, <1>3, <1>7, NowIs DEF Live, Rest, Top, topFrame
  <2>2. no \in BOOLEAN
    OBVIOUS
  <2> HIDE DEF no
  <2>3. no = (doc.value # 0) /\ Len(doc.open) = depth - 1
    BY <1>2, <1>4, <2>1, <2>2
  <2> QED
    BY <1>2, <1>7, <2>1, <2>3 DEF no
<1> QED
  BY <1>5, <1>6, <1>7

\* What a token of the document does to its path.
LEMMA PathExtended ==
    ASSUME NEW tok \in Tokens, doc \in DocType, Extended(tok) \in DocType, Grows(tok)
    PROVE  LET q == PathOf(doc)
               r == PathOf(Extended(tok))
           IN  /\ tok \notin Ids => Len(r) <= Len(q) /\ \A k \in 1..Len(r) : r[k] = q[k]
               /\ tok \in Ids =>
                    /\ Len(q) = Len(doc.open) /\ Len(r) = Len(doc.open) + 1
                    /\ r[Len(doc.open) + 1] = tok
                    /\ \A k \in 1..Len(doc.open) : r[k] = q[k]
<1> DEFINE q == PathOf(doc)
           x == Extended(tok)
           r == PathOf(x)
           o == doc.open
<1>1. /\ x.open = (IF tok = Open THEN Append(o, doc.value)
                   ELSE IF tok = Close /\ o # <<>> THEN Front(o) ELSE o)
      /\ x.value = (IF tok \in Ids THEN tok ELSE 0)
  BY DEF Extended
<1>2. tok \in Ids => tok # 0 /\ tok # Open /\ tok # Close /\ doc.value = 0
  BY TokensApart DEF Grows, Simple, Open, Close
<1>3. /\ tok = Open => doc.value # 0 /\ tok # Close
      /\ tok = Simple => doc.value # 0 /\ tok # Close /\ tok # Open
      /\ tok = Close => doc.value = 0 /\ tok # Open
  <2>1. doc.last + 1 \in Nat \ {0}
    BY DeferralAssumption DEF DocType
  <2>2. doc.last + 1 \notin {Simple, Open, Close}
    BY <2>1 DEF Simple, Open, Close
  <2> QED
    BY <2>2, TokensApart DEF Grows
<1>4. /\ Len(q) = IF doc.value # 0 THEN Len(o) + 1 ELSE Len(o)
      /\ \A k \in 1..Len(o) : q[k] = o[k]
      /\ doc.value # 0 => q[Len(o) + 1] = doc.value
      /\ o \in Seq(Ids) /\ Len(o) \in Nat /\ (doc.value # 0 => doc.value \in Ids)
  <2>1. doc.value # 0 => doc.value \in Ids
    BY DeferralAssumption DEF DocType, Ids
  <2> QED
    BY <2>1, PathOfOK
<1>5. /\ Len(r) = IF x.value # 0 THEN Len(x.open) + 1 ELSE Len(x.open)
      /\ \A k \in 1..Len(x.open) : r[k] = x.open[k]
      /\ x.value # 0 => r[Len(x.open) + 1] = x.value
  BY PathOfOK
<1> HIDE DEF q, r, x, o
<1>6. CASE tok \in Ids
  <2>1. x.open = o /\ x.value = tok /\ x.value # 0
    BY <1>1, <1>2, <1>6
  <2> QED
    BY <1>2, <1>4, <1>5, <1>6, <2>1 DEF q, r, x, o
<1>7. CASE tok = Open
  <2>1. x.open = Append(o, doc.value) /\ x.value = 0 /\ doc.value \in Ids
    BY <1>1, <1>2, <1>3, <1>4, <1>7
  <2>2. /\ Len(x.open) = Len(o) + 1 /\ x.open[Len(o) + 1] = doc.value
        /\ \A k \in 1..Len(o) : x.open[k] = o[k]
    BY <1>4, <2>1, AppendOK
  <2>3. \A k \in 1..Len(o) + 1 : k \in 1..Len(o) \/ k = Len(o) + 1
    BY <1>4
  <2>4. Len(r) = Len(q) /\ \A k \in 1..Len(r) : r[k] = q[k]
    BY <1>3, <1>4, <1>5, <1>7, <2>1, <2>2, <2>3
  <2>5. Len(q) \in Nat /\ tok \notin Ids
    BY <1>2, <1>3, <1>4, <1>7
  <2> QED
    BY <2>4, <2>5 DEF q, r, x
<1>8. CASE tok = Simple \/ (tok = Close /\ o = <<>>)
  <2>1. x.open = o /\ x.value = 0 /\ tok \notin Ids
    BY <1>1, <1>2, <1>3, <1>8, TokensApart
  <2>2. Len(r) = Len(o) /\ Len(r) <= Len(q) /\ \A k \in 1..Len(r) : r[k] = q[k]
    BY <1>4, <1>5, <2>1
  <2> QED
    BY <2>1, <2>2 DEF q, r, x
<1>9. CASE tok = Close /\ o # <<>>
  <2>1. x.open = Front(o) /\ x.value = 0 /\ tok \notin Ids
    BY <1>1, <1>2, <1>3, <1>9
  <2>2. /\ Len(x.open) = Len(o) - 1 /\ Len(o) \in Nat \ {0}
        /\ \A k \in 1..Len(o) - 1 : x.open[k] = o[k] /\ k \in 1..Len(o)
    <3>1. /\ Len(Front(o)) = Len(o) - 1 /\ Len(o) \in Nat \ {0}
          /\ \A k \in 1..Len(o) - 1 : Front(o)[k] = o[k]
      BY <1>4, <1>9, FrontOK
    <3>2. \A k \in 1..Len(o) - 1 : k \in 1..Len(o)
      BY <1>4
    <3> QED
      BY <2>1, <3>1, <3>2
  <2>3. Len(r) = Len(o) - 1 /\ Len(r) <= Len(q) /\ \A k \in 1..Len(r) : r[k] = q[k]
    BY <1>4, <1>5, <2>1, <2>2
  <2> QED
    BY <2>1, <2>3 DEF q, r, x
<1> QED
  BY <1>6, <1>7, <1>8, <1>9, TokensApart

\* While replays run, the path is no shorter than that of the document once
\* it is between two pairs.
LEMMA ReplayPath ==
    ASSUME IInv, ~dead, calls # <<>>, Len(path) = Len(frames) - 1
    PROVE  Len(PathOf(doc)) <= Len(path)
<1>1. ~rootDone /\ Always(Now) /\ Stack(Now, doc) /\ doc \in DocType
  BY DEF IInv, Over, Live, RestType
<1>2. /\ calls \in Seq(CallType) /\ 1 \in 1..Len(calls) /\ Len(frames) \in Nat
      /\ Len(frames) >= 1
  <2>1. calls \in Seq(CallType) /\ frames \in Seq(FrameType)
    BY <1>1, NowIs DEF Always, Effect
  <2> QED
    BY <1>1, <2>1, NowIs, EmptySeq, LenProperties DEF Stack
<1> DEFINE c == calls[1]
           b == Back(c)
           no == FALSE
<1>3. c.frame \in 1..Len(frames) /\ Source(calls, doc, 1 - 1, b, no)
  <2> HIDE DEF no
  <2>1. c.frame \in 1..Len(frames)
    BY <1>1, <1>2, NowIs DEF Always
  <2>2. Source(calls, doc, 1 - 1, b, FALSE)
    BY <1>1, <1>2, NowIs DEF Stack
  <2> QED
    BY <2>1, <2>2 DEF no
<1>4. b \in 0..Len(frames)
  <2> HIDE DEF c
  <2> QED
    BY <1>2, <1>3 DEF Back
<1> HIDE DEF b, no
<1>5. no = (doc.value # 0) /\ Len(doc.open) = IF b = 0 THEN 0 ELSE b - 1
  BY <1>3 DEF Source
<1>6. doc.value = 0
  BY <1>5 DEF no
<1>7. Len(PathOf(doc)) = Len(doc.open)
  BY <1>1, <1>6, PathOfOK
<1> QED
  BY <1>2, <1>4, <1>5, <1>7

LEMMA AgreeNext ==
    ASSUME IInv, IInv', ~dead => Agree, Goes, dead => dead'
    PROVE  ~dead' => Agree'
<1> DEFINE q == PathOf(doc)
           r == PathOf(doc')
           agree(s, t) == \A k \in 1..Len(s) : k <= Len(t) => s[k] = t[k]
<1> SUFFICES ASSUME ~dead' PROVE agree(path', r)
  BY DEF Agree, docPath, PathOf
<1>1. ~dead /\ agree(path, q)
  BY DEF Agree, docPath, PathOf
<1>2. path \in Seq(Ids) /\ Len(path) \in Nat /\ doc \in DocType /\ doc' \in DocType
  <2>1. path \in Seq(Ids) /\ doc \in DocType /\ doc' \in DocType
    BY NowIs DEF IInv, Always, Effect, RestType
  <2> QED
    BY <2>1, LenProperties
<1>3. Len(q) \in Nat /\ Len(r) \in Nat
  BY <1>2, PathOfOK
<1>4. path # <<>> => /\ Len(Front(path)) = Len(path) - 1
                     /\ \A k \in 1..Len(path) - 1 : Front(path)[k] = path[k]
  BY <1>2, FrontOK
<1>5. \A id \in Ids : /\ Len(Append(path, id)) = Len(path) + 1
                      /\ Append(path, id)[Len(path) + 1] = id
                      /\ \A k \in 1..Len(path) : Append(path, id)[k] = path[k]
  BY <1>2, AppendOK
<1>6. \A k \in 1..Len(path) - 1 : k \in 1..Len(path)
  BY <1>2
<1> HIDE DEF q, r
<1>7. doc' = doc => r = q
  BY DEF q, r
<1>8. CASE doc' = doc /\ path' = path
  BY <1>1, <1>7, <1>8
<1>9. CASE doc' = doc /\ path # <<>> /\ path' = Front(path)
  BY <1>1, <1>4, <1>6, <1>7, <1>9
<1>10. ASSUME doc' = doc, calls # <<>>, Len(path) = Len(frames) - 1,
              NEW id \in Ids, path' = Append(path, id)
       PROVE  agree(path', r)
  <2>1. Len(q) <= Len(path)
    BY <1>1, <1>10, ReplayPath DEF q
  <2>2. \A k \in 1..Len(path) + 1 : k <= Len(q) => k \in 1..Len(path)
    BY <1>2, <1>3, <2>1
  <2> QED
    BY <1>1, <1>5, <1>7, <1>10, <2>2
<1>11. ASSUME calls = <<>>, NEW tok \in Tokens, Ready(tok), doc' = Extended(tok),
              \/ path' = path /\ (tok \in Ids => regOpen)
              \/ tok = Close /\ path # <<>> /\ path' = Front(path)
              \/ /\ tok \in Ids /\ ~regOpen /\ topFrame.ph # "phValue"
                 /\ path' = Append(path, tok)
       PROVE  agree(path', r)
  <2>1. Grows(tok) /\ ~rootDone /\ st = "sIdle"
    BY <1>11 DEF Ready, Scanning
  <2>2. /\ tok \notin Ids => Len(r) <= Len(q) /\ \A k \in 1..Len(r) : r[k] = q[k]
        /\ tok \in Ids =>
             /\ Len(q) = Len(doc.open) /\ Len(r) = Len(doc.open) + 1
             /\ r[Len(doc.open) + 1] = tok
             /\ \A k \in 1..Len(doc.open) : r[k] = q[k]
    BY <1>2, <1>11, <2>1, PathExtended DEF q, r
  <2>3. /\ regOpen => Len(path) <= Len(doc.open)
        /\ ~regOpen /\ topFrame.ph # "phValue" => Len(path) = Len(doc.open)
        /\ Len(doc.open) \in Nat
    <3>1. /\ Len(frames) \in Nat /\ depth \in Nat /\ Len(doc.open) = depth - 1
          /\ regOpen => Len(path) = Len(frames) /\ depth > Len(frames)
          /\ ~regOpen /\ topFrame.ph # "phValue" =>
               depth = Len(frames) /\ Len(path) = Len(frames) - 1
      BY <1>1, <1>11, <2>1, DocumentAt
    <3>2. Len(doc.open) \in Nat
      BY <1>2, PathOfOK
    <3> QED
      BY <3>1, <3>2
  <2>4. CASE tok \notin Ids
    <3>1. \A k \in 1..Len(path) : k <= Len(r) => path[k] = r[k]
      <4>1. \A k \in 1..Len(path) : k <= Len(r) => k \in 1..Len(r) /\ k <= Len(q)
        BY <1>2, <1>3, <2>2, <2>4
      <4> QED
        BY <1>1, <2>2, <2>4, <4>1
    <3> QED
      BY <1>4, <1>6, <1>11, <2>4, <3>1
  <2>5. CASE tok \in Ids
    <3>1. \A k \in 1..Len(path) : k <= Len(doc.open) => path[k] = r[k]
      <4>1. \A k \in 1..Len(path) :
               k <= Len(doc.open) => k \in 1..Len(doc.open) /\ k <= Len(q)
        BY <1>2, <2>2, <2>3, <2>5
      <4> QED
        BY <1>1, <2>2, <2>5, <4>1
    <3>2. CASE regOpen
      <4>1. path' = path
        BY <1>11, <2>5, <3>2, TokensApart
      <4>2. \A k \in 1..Len(path) : k <= Len(doc.open)
        BY <1>2, <2>3, <3>2
      <4> QED
        BY <3>1, <4>1, <4>2
    <3>3. CASE ~regOpen
      <4>1. path' = Append(path, tok) /\ Len(path) = Len(doc.open)
        BY <1>11, <2>3, <2>5, <3>3, TokensApart
      <4>2. \A k \in 1..Len(path) + 1 : k = Len(path) + 1 \/ k \in 1..Len(path)
        BY <1>2
      <4>3. \A k \in 1..Len(path) : k <= Len(doc.open)
        BY <1>2, <4>1
      <4> QED
        BY <1>5, <2>2, <2>5, <3>1, <4>1, <4>2, <4>3
    <3> QED
      BY <3>2, <3>3
  <2> QED
    BY <2>4, <2>5
<1> QED
  BY <1>8, <1>9, <1>10, <1>11 DEF Goes

LEMMA PlaceOK ==
    ASSUME IInv, ~dead => Agree
    PROVE  PlaceIsDocument
<1> DEFINE q == PathOf(doc)
<1>1. code # "syntax"
  BY NowIs DEF IInv, Always, Effect
<1> SUFFICES ASSUME ~dead, calls = <<>>, st = "sIdle", ~rootDone
             PROVE  /\ Len(path) <= Len(q) /\ path = SubSeq(q, 1, Len(path))
                    /\ Len(path) = IF topFrame.ph = "phValue" THEN Len(frames)
                                                              ELSE Len(frames) - 1
                    /\ IF regOpen
                       THEN /\ topFrame.ph = "phValue" /\ regDepth = Len(frames)
                            /\ depth = Len(doc.open) + 1
                       ELSE path = q /\ depth = Len(frames)
  BY <1>1 DEF PlaceIsDocument, docPath, PathOf
<1>2. /\ Len(frames) \in Nat /\ depth \in Nat
      /\ Len(doc.open) = depth - 1 /\ path \in Seq(Ids) /\ doc \in DocType
      /\ regOpen =>
           /\ Len(path) = Len(frames) /\ regDepth = Len(frames)
           /\ depth > regDepth /\ topFrame.ph = "phValue"
      /\ ~regOpen =>
           /\ depth = Len(frames)
           /\ doc.value # 0 <=> topFrame.ph = "phValue"
           /\ Len(path) = IF doc.value # 0 THEN Len(frames) ELSE Len(frames) - 1
  BY DocumentAt
<1>3. /\ q \in Seq(Ids) /\ Len(path) \in Nat
      /\ Len(q) = IF doc.value # 0 THEN Len(doc.open) + 1 ELSE Len(doc.open)
  BY <1>2, PathOfOK, LenProperties
<1>4. Len(path) <= Len(q) /\ (~regOpen => Len(path) = Len(q))
  <2> HIDE DEF q
  <2> QED
    BY <1>2, <1>3
<1>5. \A k \in 1..Len(path) : path[k] = q[k] /\ k \in 1..Len(q)
  <2>1. \A k \in 1..Len(path) : k <= Len(q) => path[k] = q[k]
    BY DEF Agree, docPath, PathOf
  <2> HIDE DEF q
  <2>2. Len(q) \in Nat
    BY <1>3, LenProperties
  <2> QED
    BY <1>3, <1>4, <2>1, <2>2
<1> HIDE DEF q
<1>6. path = SubSeq(q, 1, Len(path))
  <2> DEFINE m == Len(path)
             s == SubSeq(q, 1, m)
  <2>1. m \in Nat /\ \A i \in 1..m : q[i] \in Ids
    BY <1>3, <1>5
  <2>2. /\ s \in Seq(Ids) /\ Len(s) = IF 1 <= m THEN m - 1 + 1 ELSE 0
        /\ \A i \in 1..m - 1 + 1 : s[i] = q[1 + i - 1]
    <3> HIDE DEF m
    <3> QED
      BY <2>1, SubSeqProperties
  <2>3. Len(s) = m /\ \A i \in 1..m : s[i] = q[i]
    <3> HIDE DEF m, s
    <3> QED
      BY <2>1, <2>2
  <2> HIDE DEF s
  <2>4. path = s
    BY <1>2, <1>5, <2>2, <2>3, SeqEqual
  <2> QED
    BY <2>4 DEF s
<1>7. ~regOpen => path = q
  BY <1>2, <1>3, <1>4, <1>5, SeqEqual
<1>8. Len(path) = IF topFrame.ph = "phValue" THEN Len(frames) ELSE Len(frames) - 1
  BY <1>2
<1>9. regOpen => topFrame.ph = "phValue" /\ regDepth = Len(frames)
                 /\ depth = Len(doc.open) + 1
  BY <1>2
<1>10. ~regOpen => depth = Len(frames)
  BY <1>2
<1> QED
  BY <1>4, <1>6, <1>7, <1>8, <1>9, <1>10

LEMMA DeadStays ==
    ASSUME dead, [Next]_vars
    PROVE  dead'
<1>1. UNCHANGED vars
  <2>1. ~Scanning /\ ~Between
    BY DEF Scanning, Between
  <2>2. \A tok : ~Ready(tok)
    BY <2>1 DEF Ready
  <2>3. /\ \A id, act, cb : ~Key(id, act, cb)
        /\ \A tok : ~Value(tok)
        /\ \A tok, cb : ~RegionByte(tok, cb)
        /\ \A cb : ~SimpleEnd(cb)
        /\ \A cb : ~CloseFrame(cb)
    BY <2>1, <2>2, Zenon DEF Key, Value, RegionByte, SimpleEnd, CloseFrame
  <2>4. \A act, cb : ~ReplayNext(act, cb)
    BY <2>1 DEF ReplayNext
  <2>5. ~ReplayEnd /\ ~Return /\ ~Suspends /\ ~Resume
    BY <2>1 DEF ReplayEnd, Return, Suspends, Resume
  <2> QED
    BY <2>3, <2>4, <2>5 DEF Next, ScanStep
<1> QED
  BY <1>1 DEF vars, stopVars

-----------------------------------------------------------------------------
(* The theorems.                                                            *)

\* The inductive invariant: the frames and the replays nested in the scan fit
\* (closeContainer, doRelease and replayKV of region.go and lifecycle.go go on
\* where they were called), what they hold are whole values, and the count of
\* held bytes is exact, for any documents and any number of deferred pairs.
THEOREM Invariance ==
    ASSUME UsedPlainly
    PROVE  Spec => []IInv
<1>1. Init => IInv
  BY InitInv
<1>2. IInv /\ [Next]_vars => IInv'
  BY NextInv
<1> QED
  BY <1>1, <1>2, PTL DEF Spec

\* The state of deferral stays in its types; the count of held bytes
\* (sc.deferredBytes), which decides Aligned and the budget, is never negative.
THEOREM TypeCorrect ==
    ASSUME UsedPlainly
    PROVE  Spec => []TypeOK
<1>1. ASSUME IInv PROVE TypeOK
  <2>1. Always(Now) /\ RestType
    BY <1>1 DEF IInv
  <2>2. /\ frames \in Seq(FrameType) /\ calls \in Seq(CallType) /\ depth \in Nat
        /\ path \in Seq(Ids) /\ releaseAt \in Nat /\ deferredBytes = Total(frames)
        /\ wantRelease \in BOOLEAN /\ suspendReq \in BOOLEAN /\ rootDone \in BOOLEAN
        /\ dead \in BOOLEAN
        /\ \A k \in 1..Len(calls) : calls[k].frame \in 1..Len(frames)
    BY <2>1, NowIs DEF Always, Effect
  <2>3. \A k \in DOMAIN frames : /\ frames[k].ph \in {"phKey", "phValue", "phComma"}
                                 /\ frames[k].deferred \in Seq(Pairs)
    <3>1. \A k \in DOMAIN frames : frames[k] \in FrameType
      BY <2>2
    <3> QED
      BY <3>1 DEF FrameType
  <2>4. \A k \in DOMAIN calls :
           /\ calls[k].at \in {"value", "leave", "close"}
           /\ calls[k].frame \in 1..Len(frames)
           /\ calls[k].todo \in Seq(Pairs) /\ calls[k].snap \in Seq(Pairs)
           /\ calls[k].raw \in Seq(Tokens)
    <3>1. \A k \in DOMAIN calls : calls[k] \in CallType /\ k \in 1..Len(calls)
      BY <2>2
    <3> QED
      BY <2>2, <3>1 DEF CallType
  <2>5. deferredBytes \in Nat
    BY <2>2, TotalAdds
  <2>6. pendSet \in BOOLEAN /\ regOpen \in BOOLEAN /\ suspended \in BOOLEAN
    BY <2>1, Zenon DEF RestType
  <2>7. {pendSet, regOpen, wantRelease, suspendReq, suspended, rootDone, dead}
            \subseteq BOOLEAN
    BY <2>2, <2>6, Zenon
  <2> QED
    BY <2>1, <2>2, <2>3, <2>4, <2>5, <2>7 DEF TypeOK, RestType
<1> QED
  BY <1>1, Invariance, PTL

\* The count of held bytes is the bytes the frames hold, whatever was
\* replayed, dropped or deferred again (lifecycle.go and the budget rest on
\* it: endRegion adds, forgetDeferred subtracts a whole frame).
THEOREM BytesCorrect ==
    ASSUME UsedPlainly
    PROVE  Spec => []BytesExact
<1>1. IInv => BytesExact
  BY NowIs DEF IInv, Always, BytesExact, Total
<1> QED
  BY <1>1, Invariance, PTL

\* A request to release (lc.Release) is kept until the safe point of its frame
\* serves it, provided that no hook asks for another while it waits: there is
\* one wantRelease and one releaseAt for all frames.
THEOREM RequestsCorrect ==
    ASSUME UsedPlainly, "overlap" \notin Uses
    PROVE  Spec => []RequestKept
<1>1. Init => RequestKept
  BY DEF Init, RequestKept
<1>2. IInv /\ RequestKept /\ [Next]_vars => RequestKept'
  BY NextMoves DEF Moves
<1> QED
  BY <1>1, <1>2, Invariance, PTL DEF Spec

\* Where no replay runs the scanner is where the document is: the path, the
\* frames, the phase and the depth are as if no pair had ever been deferred,
\* and a well-formed document is never refused (onKeyDone, afterValue and
\* closeContainer leave the place as they found it, for replays too).
THEOREM PlaceCorrect ==
    ASSUME UsedPlainly
    PROVE  Spec => []PlaceIsDocument
<1> DEFINE Follows == ~dead => Agree
<1>1. Init => Follows
  BY DEF Init, Agree
<1>2. IInv /\ IInv' /\ Follows /\ [Next]_vars => Follows'
  <2> SUFFICES ASSUME IInv, IInv', Follows, [Next]_vars PROVE Follows'
    OBVIOUS
  <2>1. dead => dead'
    BY DeadStays
  <2>2. Goes
    BY NextMoves DEF Moves
  <2> QED
    BY <2>1, <2>2, AgreeNext
<1>3. IInv /\ Follows => PlaceIsDocument
  BY PlaceOK
<1> QED
  BY <1>1, <1>2, <1>3, Invariance, PTL DEF Spec

=============================================================================
