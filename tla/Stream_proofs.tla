---------------------------- MODULE Stream_proofs ----------------------------
(***************************************************************************)
(* Proofs about the life of a stream, for documents, chunks, windows and   *)
(* runs of every length: its invariants, and that it keeps the promise of  *)
(* OutputStream.  They hold of a transformer that is used as the README    *)
(* asks; the run stream_suspend and the instance of MCStreamOpen.cfg show  *)
(* that they fail when it is not.                                          *)
(***************************************************************************)
EXTENDS Stream, SequenceTheorems, TLAPS

-----------------------------------------------------------------------------
(* What the operations of the writer do to the output it holds, for every  *)
(* content and every size of a run.                                        *)

\* All of the output so far: handed over, buffered, in the virtual run.
Content(v) == (v.sent \o v.buf) \o Run(v)

Writers(M) ==
    [buf : Seq(Int), virt : BOOLEAN, vp : 0..M, vfrom : 0..M, vlen : 0..M,
     flushRun : BOOLEAN, fixed : BOOLEAN, opened : BOOLEAN, n : {0, 1},
     sent : Seq(Int)]

\* A writer as the operations leave it.  A run is held only beside an empty
\* buffer, once the level is open; before that only whitespace is buffered,
\* and the run is empty.  The bracket of a level that is open has been handed
\* over or is still buffered.
WellFormed(v, M) ==
    /\ v \in Writers(M)
    /\ v.virt => v.vfrom <= v.vlen
    /\ v.virt /\ v.opened => v.buf = <<>>
    /\ v.virt /\ ~v.opened => v.vfrom = v.vlen
    /\ v.opened /\ v.sent = <<>> => v.buf # <<>>

\* Only a level that has had a child is open: nobody calls Open early.
OpenHasChild(v) == v.opened <=> v.n = 1

\* s continues r.
Continues(s, r) == \E t \in Seq(Int) : s = r \o t

-----------------------------------------------------------------------------
(* Sequences of units.                                                     *)

LEMMA Assoc ==
    ASSUME NEW r \in Seq(Int), NEW s \in Seq(Int), NEW t \in Seq(Int)
    PROVE  (r \o s) \o t = r \o (s \o t)
BY ConcatAssociative

LEMMA Concat ==
    ASSUME NEW r \in Seq(Int), NEW s \in Seq(Int)
    PROVE  /\ r \o s \in Seq(Int)
           /\ r \o <<>> = r
           /\ <<>> \o r = r
           /\ r \o s = <<>> => r = <<>> /\ s = <<>>
           /\ <<>> \in Seq(Int)
<1>1. r \o s \in Seq(Int)
  BY ConcatProperties
<1>2. r \o <<>> = r /\ <<>> \o r = r
  BY ConcatEmptySeq
<1>3. r \o s = <<>> => r = <<>> /\ s = <<>>
  BY ConcatEqualIffEmpty
<1> QED
  BY <1>1, <1>2, <1>3

LEMMA ContinuesTransitive ==
    ASSUME NEW r \in Seq(Int), NEW s \in Seq(Int), NEW t \in Seq(Int),
           Continues(s, r), Continues(t, s)
    PROVE  Continues(t, r)
<1>1. PICK a \in Seq(Int) : s = r \o a
  BY DEF Continues
<1>2. PICK b \in Seq(Int) : t = s \o b
  BY DEF Continues
<1>3. (r \o a) \o b = r \o (a \o b)
  BY Assoc, SMTT(40)
<1>4. a \o b \in Seq(Int)
  BY Concat
<1> QED
  BY <1>1, <1>2, <1>3, <1>4 DEF Continues

LEMMA ContinuesItself ==
    ASSUME NEW r \in Seq(Int)
    PROVE  Continues(r, r)
BY Concat DEF Continues

LEMMA BytesFacts ==
    ASSUME NEW a \in Nat, NEW b \in Nat
    PROVE  /\ Bytes(a, b) \in Seq(Int)
           /\ Len(Bytes(a, b)) = IF a <= b THEN b - a ELSE 0
           /\ b <= a => Bytes(a, b) = <<>>
           /\ a < b => Bytes(a, b) # <<>>
<1>1. CASE a <= b
  <2>1. b - a \in Nat
    BY <1>1
  <2>2. Bytes(a, b) \in Seq(Int) /\ Len(Bytes(a, b)) = b - a
    BY <2>1 DEF Bytes
  <2>3. a = b => Bytes(a, b) = <<>>
    BY <2>2, EmptySeq, SeqEqual
  <2> QED
    BY <1>1, <2>2, <2>3, EmptySeq
<1>2. CASE b < a
  <2>1. 1..(b - a) = 1..0
    BY <1>2
  <2>2. Bytes(a, b) = [k \in 1..0 |-> a + k - 1]
    BY <2>1 DEF Bytes
  <2>3. Bytes(a, b) = <<>>
    BY <2>2, SMT
  <2> QED
    BY <1>2, <2>3, EmptySeq
<1> QED
  BY <1>1, <1>2

LEMMA BytesConcat ==
    ASSUME NEW a \in Nat, NEW b \in Nat, NEW c \in Nat, a <= b, b <= c
    PROVE  Bytes(a, b) \o Bytes(b, c) = Bytes(a, c)
<1>1. Bytes(a, b) \in Seq(Int) /\ Len(Bytes(a, b)) = b - a
  BY BytesFacts
<1>2. Bytes(b, c) \in Seq(Int) /\ Len(Bytes(b, c)) = c - b
  BY BytesFacts
<1>3. a <= c
  OBVIOUS
<1>4. Bytes(a, c) \in Seq(Int) /\ Len(Bytes(a, c)) = c - a
  BY <1>3, BytesFacts
<1>5. Bytes(a, b) \o Bytes(b, c) \in Seq(Int)
  BY <1>1, <1>2, ConcatProperties
<1>6. Len(Bytes(a, b) \o Bytes(b, c)) = c - a
  <2>1. Len(Bytes(a, b) \o Bytes(b, c)) = Len(Bytes(a, b)) + Len(Bytes(b, c))
    BY <1>1, <1>2, ConcatProperties
  <2> QED
    BY <1>1, <1>2, <2>1
<1>7. ASSUME NEW k \in 1..c - a
      PROVE  (Bytes(a, b) \o Bytes(b, c))[k] = Bytes(a, c)[k]
  <2>1. (Bytes(a, b) \o Bytes(b, c))[k] = IF k <= b - a THEN Bytes(a, b)[k]
                                          ELSE Bytes(b, c)[k - (b - a)]
    BY <1>1, <1>2, ConcatProperties
  <2>2. CASE k <= b - a
    BY <2>1, <2>2 DEF Bytes
  <2>3. CASE k > b - a
    <3>1. k - (b - a) \in 1..c - b
      BY <2>3
    <3> QED
      BY <2>1, <2>3, <3>1 DEF Bytes
  <2>4. k <= b - a \/ k > b - a
    OBVIOUS
  <2> QED
    BY <2>2, <2>3, <2>4
<1> QED
  BY <1>4, <1>5, <1>6, <1>7, SeqEqual

-----------------------------------------------------------------------------
(* The operations.                                                         *)

\* v2 is v after the units u have been written: they come after all that was
\* there, and nothing is handed over unless flushRun allows it.
Writes(v2, v, u, M) ==
    /\ WellFormed(v2, M)
    /\ Content(v2) = Content(v) \o u
    /\ v2.flushRun = v.flushRun
    /\ v2.fixed = v.fixed
    /\ Continues(v2.sent, v.sent)
    /\ ~v.flushRun => v2.sent = v.sent

LEMMA ContentFacts ==
    ASSUME NEW M \in Nat, NEW v \in Writers(M)
    PROVE  /\ Run(v) \in Seq(Int)
           /\ Content(v) \in Seq(Int)
           /\ ~v.virt => Run(v) = <<>> /\ Content(v) = v.sent \o v.buf
           /\ v.vlen <= v.vfrom => Run(v) = <<>>
           /\ v.virt /\ v.vfrom < v.vlen => Run(v) # <<>>
<1>1. v.vp + v.vfrom \in Nat /\ v.vp + v.vlen \in Nat
  BY DEF Writers
<1>2. Run(v) \in Seq(Int)
  BY <1>1, BytesFacts, Concat DEF Run
<1>3. v.sent \in Seq(Int) /\ v.buf \in Seq(Int)
  BY DEF Writers
<1>4. v.sent \o v.buf \in Seq(Int)
  BY <1>3, Concat
<1>5. Content(v) \in Seq(Int)
  BY <1>2, <1>4, Concat DEF Content
<1>6. ~v.virt => Run(v) = <<>> /\ Content(v) = v.sent \o v.buf
  BY <1>4, Concat DEF Run, Content
<1>7. v.vlen <= v.vfrom => Run(v) = <<>>
  <2>1. v.vlen <= v.vfrom => v.vp + v.vlen <= v.vp + v.vfrom
    BY DEF Writers
  <2> QED
    BY <1>1, <2>1, BytesFacts DEF Run
<1>8. v.virt /\ v.vfrom < v.vlen => Run(v) # <<>>
  <2>1. v.vfrom < v.vlen => v.vp + v.vfrom < v.vp + v.vlen
    BY DEF Writers
  <2> QED
    BY <1>1, <2>1, BytesFacts DEF Run
<1> QED
  BY <1>2, <1>5, <1>6, <1>7, <1>8

LEMMA MaterialiseFacts ==
    ASSUME NEW M \in Nat, NEW v, WellFormed(v, M)
    PROVE  /\ Writes(materialise(v), v, <<>>, M)
           /\ materialise(v).virt = FALSE
           /\ materialise(v).opened = v.opened
           /\ materialise(v).n = v.n
           /\ materialise(v).vp = v.vp
<1> DEFINE m == materialise(v)
<1>1. v \in Writers(M)
  BY DEF WellFormed
<1>2. v.sent \in Seq(Int) /\ v.buf \in Seq(Int) /\ Run(v) \in Seq(Int)
      /\ Content(v) \in Seq(Int) /\ Content(v) \o <<>> = Content(v)
      /\ v.sent \o <<>> = v.sent
  BY <1>1, ContentFacts, Concat DEF Writers
<1>3. CASE ~v.virt
  BY <1>1, <1>2, <1>3, ContinuesItself DEF materialise, Writes, WellFormed, Writers
<1>4. CASE v.virt /\ v.flushRun /\ v.vlen - v.vfrom >= FlushRunMin /\ v.buf = <<>>
  <2>1. m = [v EXCEPT !.virt = FALSE, !.sent = @ \o Run(v), !.vfrom = v.vlen]
    BY <1>4 DEF materialise
  <2>2. v.sent \o Run(v) \in Seq(Int)
    BY <1>2, Concat
  <2>3. m \in Writers(M) /\ m.virt = FALSE /\ m.sent = v.sent \o Run(v)
        /\ m.buf = v.buf /\ m.opened = v.opened /\ m.n = v.n /\ m.vp = v.vp
        /\ m.flushRun = v.flushRun /\ m.fixed = v.fixed
    BY <1>1, <2>1, <2>2 DEF Writers
  <2>4. v.vfrom < v.vlen
    BY <1>1, <1>4, FlushRunMinAssumption DEF Writers
  <2>5. Run(v) # <<>>
    BY <1>1, <1>4, <2>4, ContentFacts
  <2>6. m.sent # <<>>
    BY <1>2, <2>3, <2>5, Concat
  <2>7. WellFormed(m, M)
    BY <2>3, <2>6 DEF WellFormed
  <2>8. Content(m) = Content(v)
    <3>1. Content(m) = m.sent \o m.buf
      BY <2>3, ContentFacts
    <3>2. Content(v) = v.sent \o Run(v)
      BY <1>2, <1>4 DEF Content
    <3> QED
      BY <1>2, <1>4, <2>2, <2>3, <3>1, <3>2, Concat
  <2>9. Continues(m.sent, v.sent)
    BY <1>2, <2>3 DEF Continues
  <2> QED
    BY <1>2, <1>4, <2>3, <2>7, <2>8, <2>9 DEF Writes
<1>5. CASE v.virt /\ ~(v.flushRun /\ v.vlen - v.vfrom >= FlushRunMin /\ v.buf = <<>>)
  <2>1. m = [v EXCEPT !.virt = FALSE, !.buf = @ \o Run(v)]
    BY <1>5 DEF materialise
  <2>2. v.buf \o Run(v) \in Seq(Int)
    BY <1>2, Concat
  <2>3. m \in Writers(M) /\ m.virt = FALSE /\ m.sent = v.sent
        /\ m.buf = v.buf \o Run(v) /\ m.opened = v.opened /\ m.n = v.n
        /\ m.vp = v.vp /\ m.flushRun = v.flushRun /\ m.fixed = v.fixed
    BY <1>1, <2>1, <2>2 DEF Writers
  <2>4. m.buf = <<>> => v.buf = <<>>
    BY <1>2, <2>3, Concat
  <2>5. WellFormed(m, M)
    BY <2>3, <2>4 DEF WellFormed
  <2>6. Content(m) = Content(v)
    <3>1. Content(m) = m.sent \o m.buf
      BY <2>3, ContentFacts
    <3>2. Content(v) = v.sent \o (v.buf \o Run(v))
      BY <1>2, Assoc DEF Content
    <3> QED
      BY <2>3, <3>1, <3>2
  <2>7. Continues(m.sent, v.sent)
    BY <1>2, <2>3, ContinuesItself
  <2> QED
    BY <1>2, <2>3, <2>5, <2>6, <2>7 DEF Writes
<1> QED
  BY <1>1, <1>3, <1>4, <1>5 DEF Writers

LEMMA WritesTwice ==
    ASSUME NEW M \in Nat, NEW v, NEW v2, NEW v3, NEW r \in Seq(Int), NEW s \in Seq(Int),
           WellFormed(v, M), Writes(v2, v, r, M), Writes(v3, v2, s, M)
    PROVE  Writes(v3, v, r \o s, M)
<1>1. v \in Writers(M) /\ v2 \in Writers(M) /\ v3 \in Writers(M)
  BY DEF Writes, WellFormed
<1>2. Content(v) \in Seq(Int)
  BY <1>1, ContentFacts
<1>3. Content(v3) = Content(v) \o (r \o s)
  <2>1. (Content(v) \o r) \o s = Content(v) \o (r \o s)
    BY <1>2, Assoc
  <2>2. Content(v3) = (Content(v) \o r) \o s
    BY DEF Writes
  <2> QED
    BY <2>1, <2>2
<1>4. v.sent \in Seq(Int) /\ v2.sent \in Seq(Int) /\ v3.sent \in Seq(Int)
  BY <1>1 DEF Writers
<1>5. Continues(v3.sent, v.sent)
  BY <1>4, ContinuesTransitive DEF Writes
<1> QED
  BY <1>3, <1>5 DEF Writes

\* Before an append there is no run, or nothing to come before it.
LEMMA AppendFacts ==
    ASSUME NEW M \in Nat, NEW v, WellFormed(v, M), NEW u \in Seq(Int),
           ~v.virt \/ ~v.opened
    PROVE  /\ Writes(append(v, u), v, u, M)
           /\ append(v, u).virt = v.virt
           /\ append(v, u).opened = v.opened
           /\ append(v, u).n = v.n
           /\ append(v, u).vp = v.vp
           /\ u # <<>> => append(v, u).buf # <<>>
<1> DEFINE a == append(v, u)
<1>1. v \in Writers(M)
  BY DEF WellFormed
<1>2. v.sent \in Seq(Int) /\ v.buf \in Seq(Int) /\ v.buf \o u \in Seq(Int)
  BY <1>1, Concat DEF Writers
<1>3. /\ a \in Writers(M) /\ a.virt = v.virt /\ a.sent = v.sent
      /\ a.buf = v.buf \o u /\ a.opened = v.opened /\ a.n = v.n
      /\ a.vp = v.vp /\ a.vfrom = v.vfrom /\ a.vlen = v.vlen
      /\ a.flushRun = v.flushRun /\ a.fixed = v.fixed
  BY <1>1, <1>2 DEF append, Writers
<1>4. a.buf = <<>> => v.buf = <<>> /\ u = <<>>
  BY <1>2, <1>3, Concat
<1>5. WellFormed(a, M)
  BY <1>3, <1>4 DEF WellFormed
<1>6. Run(v) = <<>> /\ Run(a) = <<>>
  BY <1>1, <1>3, ContentFacts DEF WellFormed, Writers
<1>7. Content(a) = v.sent \o (v.buf \o u)
  BY <1>2, <1>3, <1>6, Concat DEF Content
<1>8. Content(v) = v.sent \o v.buf
  BY <1>2, <1>6, Concat DEF Content
<1>9. Content(a) = Content(v) \o u
  <2>1. (v.sent \o v.buf) \o u = v.sent \o (v.buf \o u)
    BY <1>2, Assoc
  <2> QED
    BY <1>7, <1>8, <2>1
<1>10. Continues(a.sent, v.sent)
  BY <1>2, <1>3, ContinuesItself
<1> QED
  BY <1>3, <1>4, <1>5, <1>9, <1>10 DEF Writes

LEMMA RawFacts ==
    ASSUME NEW M \in Nat, NEW v, WellFormed(v, M), NEW u \in Seq(Int)
    PROVE  /\ Writes(Raw(v, u), v, u, M)
           /\ Raw(v, u).virt = FALSE
           /\ Raw(v, u).opened = v.opened
           /\ Raw(v, u).n = v.n
           /\ Raw(v, u).vp = v.vp
           /\ u # <<>> => Raw(v, u).buf # <<>>
<1> DEFINE m == materialise(v)
<1>1. /\ Writes(m, v, <<>>, M) /\ m.virt = FALSE
      /\ m.opened = v.opened /\ m.n = v.n /\ m.vp = v.vp
  BY MaterialiseFacts
<1>2. WellFormed(m, M)
  BY <1>1 DEF Writes
<1>3. /\ Writes(append(m, u), m, u, M) /\ append(m, u).virt = m.virt
      /\ append(m, u).opened = m.opened /\ append(m, u).n = m.n
      /\ append(m, u).vp = m.vp
      /\ u # <<>> => append(m, u).buf # <<>>
  BY <1>1, <1>2, AppendFacts
<1>4. <<>> \o u = u /\ <<>> \in Seq(Int)
  BY Concat
<1>5. Writes(append(m, u), v, u, M)
  BY <1>1, <1>3, <1>4, WritesTwice
<1> QED
  BY <1>1, <1>3, <1>5 DEF Raw

\* What opening the level writes.
Opening(v) == IF v.opened THEN <<>> ELSE <<OpenUnit>>

LEMMA EnsureOpenFacts ==
    ASSUME NEW M \in Nat, NEW v, WellFormed(v, M)
    PROVE  /\ Writes(ensureOpen(v), v, Opening(v), M)
           /\ Opening(v) \in Seq(Int)
           /\ ensureOpen(v).opened = TRUE
           /\ ensureOpen(v).n = v.n
           /\ ensureOpen(v).vp = v.vp
           /\ ~v.opened => ensureOpen(v).virt = FALSE
           /\ v.opened => ensureOpen(v) = v
<1>1. v \in Writers(M)
  BY DEF WellFormed
<1>2. CASE v.opened
  <2>1. Content(v) \in Seq(Int) /\ v.sent \in Seq(Int)
    BY <1>1, ContentFacts DEF Writers
  <2>2. Content(v) \o <<>> = Content(v) /\ Continues(v.sent, v.sent)
    BY <2>1, Concat, ContinuesItself
  <2>3. Opening(v) = <<>> /\ ensureOpen(v) = v /\ v.opened = TRUE
    BY <1>1, <1>2 DEF Opening, ensureOpen, Writers
  <2> QED
    BY <1>2, <2>2, <2>3, Concat DEF Writes
<1>3. CASE ~v.opened
  <2> DEFINE r == Raw(v, <<OpenUnit>>)
             o == ensureOpen(v)
  <2>1. <<OpenUnit>> \in Seq(Int) /\ <<OpenUnit>> # <<>>
    BY DEF OpenUnit
  <2>2. /\ Writes(r, v, <<OpenUnit>>, M) /\ r.virt = FALSE /\ r.n = v.n
        /\ r.vp = v.vp /\ r.buf # <<>>
    BY <2>1, RawFacts
  <2>3. o = [r EXCEPT !.opened = TRUE]
    BY <1>3 DEF ensureOpen
  <2>4. r \in Writers(M)
    BY <2>2 DEF Writes, WellFormed
  <2>5. /\ o \in Writers(M) /\ o.virt = FALSE /\ o.buf = r.buf /\ o.sent = r.sent
        /\ o.opened = TRUE /\ o.n = r.n /\ o.vp = r.vp
        /\ o.flushRun = r.flushRun /\ o.fixed = r.fixed
    BY <2>2, <2>3, <2>4 DEF Writers
  <2>6. WellFormed(o, M)
    BY <2>2, <2>5 DEF WellFormed
  <2>7. Content(o) = Content(r)
    BY <2>2, <2>4, <2>5, ContentFacts
  <2>8. Opening(v) = <<OpenUnit>>
    BY <1>3 DEF Opening
  <2> QED
    BY <1>3, <2>1, <2>2, <2>5, <2>6, <2>7, <2>8 DEF Writes
<1> QED
  BY <1>2, <1>3

LEMMA SepFacts ==
    ASSUME NEW M \in Nat, NEW v, WellFormed(v, M), v.n = 0 => ~v.virt
    PROVE  /\ Writes(sep(v), v, <<>>, M)
           /\ sep(v).virt = FALSE
           /\ sep(v).opened = v.opened
           /\ sep(v).n = 1
           /\ sep(v).vp = v.vp
<1> DEFINE m == IF v.n > 0 THEN materialise(v) ELSE v
<1>1. v \in Writers(M)
  BY DEF WellFormed
<1>2. Content(v) \in Seq(Int) /\ v.sent \in Seq(Int)
  BY <1>1, ContentFacts DEF Writers
<1>3. Writes(v, v, <<>>, M)
  BY <1>2, Concat, ContinuesItself DEF Writes
<1>4. Writes(m, v, <<>>, M) /\ m.opened = v.opened /\ m.vp = v.vp /\ m.virt = FALSE
  <2>1. CASE v.n > 0
    BY <2>1, MaterialiseFacts
  <2>2. CASE ~(v.n > 0)
    <3>1. v.n = 0
      BY <1>1, <2>2 DEF Writers
    <3>2. v.virt = FALSE
      BY <1>1, <3>1 DEF Writers
    <3> QED
      BY <1>3, <2>2, <3>2
  <2> QED
    BY <2>1, <2>2
<1>5. sep(v) = [m EXCEPT !.n = 1]
  BY DEF sep
<1>6. m \in Writers(M) /\ WellFormed(m, M)
  BY <1>4 DEF Writes, WellFormed
<1> DEFINE s == sep(v)
<1>7. /\ s \in Writers(M) /\ s.virt = m.virt /\ s.buf = m.buf /\ s.sent = m.sent
      /\ s.opened = m.opened /\ s.n = 1 /\ s.vp = m.vp
      /\ s.flushRun = m.flushRun /\ s.fixed = m.fixed
  BY <1>5, <1>6 DEF Writers
<1>8. WellFormed(s, M)
  BY <1>4, <1>6, <1>7 DEF WellFormed
<1>9. Content(s) = Content(m)
  BY <1>4, <1>6, <1>7, ContentFacts
<1> HIDE DEF m, s
<1> QED
  BY <1>4, <1>7, <1>8, <1>9 DEF Writes, s

LEMMA KeyRawAtFacts ==
    ASSUME NEW M \in Nat, NEW v, NEW u \in Seq(Int),
           WellFormed(v, M), OpenHasChild(v)
    PROVE  /\ Writes(KeyRawAt(v, u), v, Opening(v) \o u, M)
           /\ KeyRawAt(v, u).virt = FALSE
           /\ KeyRawAt(v, u).opened = TRUE
           /\ KeyRawAt(v, u).n = 1
           /\ KeyRawAt(v, u).vp = v.vp
<1> DEFINE o == ensureOpen(v)
           s == sep(o)
<1>1. /\ Writes(o, v, Opening(v), M) /\ Opening(v) \in Seq(Int)
      /\ o.opened = TRUE /\ o.n = v.n /\ o.vp = v.vp
      /\ ~v.opened => o.virt = FALSE
  BY EnsureOpenFacts
<1>2. WellFormed(o, M)
  BY <1>1 DEF Writes
<1>3. o.n = 0 => ~o.virt
  BY <1>1 DEF OpenHasChild
<1>4. Writes(s, o, <<>>, M) /\ s.virt = FALSE /\ s.opened = TRUE /\ s.n = 1
      /\ s.vp = v.vp
  BY <1>1, <1>2, <1>3, SepFacts
<1>5. WellFormed(s, M)
  BY <1>4 DEF Writes
<1>6. Opening(v) \o <<>> = Opening(v) /\ <<>> \in Seq(Int)
  BY <1>1, Concat
<1>7. Writes(s, v, Opening(v), M)
  BY <1>1, <1>4, <1>6, WritesTwice
<1>8. /\ Writes(append(s, u), s, u, M) /\ append(s, u).virt = FALSE
      /\ append(s, u).opened = TRUE /\ append(s, u).n = 1
      /\ append(s, u).vp = v.vp
  BY <1>4, <1>5, AppendFacts
<1>9. Writes(append(s, u), v, Opening(v) \o u, M)
  BY <1>1, <1>7, <1>8, WritesTwice
<1> QED
  BY <1>8, <1>9 DEF KeyRawAt

\* A level that has a child may be given a range of the chunk: it extends the
\* run, starts one once everything else has left, or is copied.
LEMMA PassthroughFacts ==
    ASSUME NEW M \in Nat, NEW v, WellFormed(v, M), v.opened,
           NEW p \in 0..M, v.virt => v.vp = p,
           NEW from \in 0..M, NEW to \in 0..M, from <= to
    PROVE  /\ Writes(passthroughAt(v, p, from, to), v, Bytes(p + from, p + to), M)
           /\ passthroughAt(v, p, from, to).opened = v.opened
           /\ passthroughAt(v, p, from, to).n = v.n
           /\ passthroughAt(v, p, from, to).virt
                => passthroughAt(v, p, from, to).vp = p
<1> DEFINE q == passthroughAt(v, p, from, to)
           m == materialise(v)
           b == Bytes(p + from, p + to)
<1>1. v \in Writers(M)
  BY DEF WellFormed
<1>2. p + from \in Nat /\ p + to \in Nat /\ p + from <= p + to
  OBVIOUS
<1> <<>> \in Seq(Int)
  BY Concat
<1>3. b \in Seq(Int)
  BY <1>2, BytesFacts
<1>4. v.sent \in Seq(Int) /\ v.buf \in Seq(Int) /\ v.sent \o v.buf \in Seq(Int)
  BY <1>1, Concat DEF Writers
<1>5. CASE v.virt /\ from = v.vlen
  <2>1. q = [v EXCEPT !.vlen = to]
    BY <1>5 DEF passthroughAt
  <2>2. /\ q \in Writers(M) /\ q.virt /\ q.sent = v.sent /\ q.buf = v.buf
        /\ q.opened = v.opened /\ q.n = v.n /\ q.vp = p
        /\ q.vfrom = v.vfrom /\ q.vlen = to
        /\ q.flushRun = v.flushRun /\ q.fixed = v.fixed
    BY <1>1, <1>5, <2>1, ZenonT(60) DEF Writers
  <2>3. v.vfrom \in Nat /\ v.vfrom <= from
    BY <1>1, <1>5 DEF WellFormed, Writers
  <2>4. WellFormed(q, M)
    BY <1>1, <1>5, <2>2, <2>3 DEF WellFormed
  <2>5. Run(v) = Bytes(p + v.vfrom, p + from)
    BY <1>5 DEF Run
  <2>6. Run(q) = Bytes(p + v.vfrom, p + to)
    BY <2>2 DEF Run
  <2>7. p + v.vfrom \in Nat /\ p + v.vfrom <= p + from
    BY <2>3
  <2>8. Run(v) \o b = Run(q)
    <3>1. Bytes(p + v.vfrom, p + from) \o Bytes(p + from, p + to)
            = Bytes(p + v.vfrom, p + to)
      BY <1>2, <2>7, BytesConcat
    <3> QED
      BY <2>5, <2>6, <3>1
  <2>9. Run(v) \in Seq(Int)
    BY <1>1, ContentFacts
  <2>10. ((v.sent \o v.buf) \o Run(v)) \o b = (v.sent \o v.buf) \o (Run(v) \o b)
    BY <1>3, <1>4, <2>9, Assoc, ZenonT(60)
  <2>11. Content(q) = Content(v) \o b
    BY <2>2, <2>8, <2>10 DEF Content
  <2>12. Continues(q.sent, v.sent)
    BY <1>4, <2>2, ContinuesItself
  <2> QED
    BY <2>2, <2>4, <2>11, <2>12 DEF Writes
<1> SUFFICES ASSUME ~(v.virt /\ from = v.vlen)
             PROVE  /\ Writes(q, v, b, M) /\ q.opened = v.opened /\ q.n = v.n
                    /\ q.virt => q.vp = p
  BY <1>5
<1>6. /\ Writes(m, v, <<>>, M) /\ m.virt = FALSE
      /\ m.opened = v.opened /\ m.n = v.n
  BY MaterialiseFacts
<1>7. m \in Writers(M) /\ WellFormed(m, M)
  BY <1>6 DEF Writes, WellFormed
<1>8. <<>> \in Seq(Int) /\ <<>> \o b = b
  BY <1>3, Concat
<1>9. Writes(q, m, b, M) => Writes(q, v, b, M)
  BY <1>3, <1>6, <1>8, WritesTwice
<1>10. CASE ~(m.flushRun /\ to - from >= FlushRunMin)
  <2>1. q = append(m, b)
    BY <1>10 DEF passthroughAt
  <2>2. ~m.virt
    BY <1>6
  <2>3. /\ Writes(append(m, b), m, b, M) /\ append(m, b).opened = m.opened
        /\ append(m, b).n = m.n /\ append(m, b).virt = m.virt
    BY <1>3, <1>7, <2>2, AppendFacts
  <2>4. Writes(q, m, b, M) /\ q.opened = m.opened /\ q.n = m.n /\ ~q.virt
    BY <2>1, <2>2, <2>3
  <2> QED
    BY <1>6, <1>9, <2>4
<1>11. CASE m.flushRun /\ to - from >= FlushRunMin
  <2>1. q = [m EXCEPT !.sent = @ \o m.buf, !.buf = <<>>,
                      !.vp = p, !.vfrom = from, !.vlen = to, !.virt = TRUE]
    BY <1>11 DEF passthroughAt
  <2>2. m.sent \in Seq(Int) /\ m.buf \in Seq(Int) /\ m.sent \o m.buf \in Seq(Int)
    BY <1>7, Concat DEF Writers
  <2>3. /\ q \in Writers(M) /\ q.virt /\ q.sent = m.sent \o m.buf
        /\ q.buf = <<>> /\ q.opened = m.opened /\ q.n = m.n /\ q.vp = p
        /\ q.vfrom = from /\ q.vlen = to
        /\ q.flushRun = m.flushRun /\ q.fixed = m.fixed
    <3> HIDE DEF m, q
    <3> QED
      BY <1>7, <2>1, <2>2 DEF Writers
  <2>4. q.sent # <<>>
    BY <1>6, <1>7, <2>2, <2>3, Concat DEF WellFormed
  <2>5. WellFormed(q, M)
    BY <1>6, <2>3, <2>4 DEF WellFormed
  <2>6. Run(q) = b
    BY <2>3 DEF Run
  <2>7. (m.sent \o m.buf) \o <<>> = m.sent \o m.buf
    BY <2>2, Concat
  <2>8. Content(m) = m.sent \o m.buf
    BY <1>6, <1>7, ContentFacts
  <2>9. Content(q) = Content(m) \o b
    BY <2>3, <2>6, <2>7, <2>8 DEF Content
  <2>10. Continues(q.sent, m.sent)
    BY <2>2, <2>3 DEF Continues
  <2>11. Writes(q, m, b, M)
    BY <1>11, <2>3, <2>5, <2>9, <2>10 DEF Writes
  <2> QED
    BY <1>6, <1>9, <2>3, <2>11
<1> QED
  BY <1>10, <1>11

\* A chunk begins, or its bytes are let go of, when no run is held.
LEMMA StartChunkFacts ==
    ASSUME NEW M \in Nat, NEW v, WellFormed(v, M), Run(v) = <<>>, NEW p \in 0..M
    PROVE  /\ Writes(startChunk(v, p), v, <<>>, M)
           /\ startChunk(v, p).sent = v.sent
           /\ startChunk(v, p).opened = v.opened
           /\ startChunk(v, p).n = v.n
           /\ startChunk(v, p).vp = p
<1> DEFINE c == startChunk(v, p)
<1>1. v \in Writers(M)
  BY DEF WellFormed
<1> 0 \in 0..M /\ <<>> \in Seq(Int)
  BY Concat
<1>2. /\ c \in Writers(M) /\ (c.virt <=> v.buf = <<>>) /\ c.buf = v.buf
      /\ c.sent = v.sent /\ c.opened = v.opened /\ c.n = v.n
      /\ c.vp = p /\ c.vfrom = 0 /\ c.vlen = 0
      /\ c.flushRun = v.flushRun /\ c.fixed = v.fixed
  BY <1>1 DEF startChunk, Writers
<1>3. WellFormed(c, M)
  BY <1>2 DEF WellFormed
<1>4. Run(c) = <<>>
  <2>1. c.vlen <= c.vfrom
    BY <1>2
  <2> QED
    BY <1>2, <2>1, ContentFacts
<1>5. Content(c) = Content(v)
  BY <1>2, <1>4 DEF Content
<1>6. v.sent \in Seq(Int) /\ Content(v) \in Seq(Int)
  BY <1>1, ContentFacts DEF Writers
<1>7. Content(v) \o <<>> = Content(v) /\ Continues(c.sent, v.sent)
  BY <1>2, <1>6, Concat, ContinuesItself
<1> QED
  BY <1>2, <1>3, <1>5, <1>7 DEF Writes

\* v2 is v after some output was handed over, in order.
HandsOver(v2, v, M) ==
    /\ WellFormed(v2, M)
    /\ Content(v2) = Content(v)
    /\ Continues(v2.sent, v.sent)
    /\ v2.flushRun = v.flushRun
    /\ v2.fixed = v.fixed
    /\ v2.opened = v.opened
    /\ v2.n = v.n

\* Whatever the run, a writer that has let go of it is well formed.
LEMMA ReleaseShape ==
    ASSUME NEW M \in Nat, NEW v, WellFormed(v, M)
    PROVE  /\ WellFormed(release(v), M)
           /\ release(v).sent = v.sent
           /\ release(v).buf = v.buf
           /\ release(v).virt = FALSE
           /\ release(v).opened = v.opened
           /\ release(v).n = v.n
           /\ release(v).flushRun = v.flushRun
           /\ release(v).fixed = v.fixed
<1> DEFINE c == release(v)
<1>1. v \in Writers(M)
  BY DEF WellFormed
<1> 0 \in 0..M
  OBVIOUS
<1>2. /\ c \in Writers(M) /\ c.virt = FALSE /\ c.buf = v.buf
      /\ c.sent = v.sent /\ c.opened = v.opened /\ c.n = v.n
      /\ c.flushRun = v.flushRun /\ c.fixed = v.fixed
  BY <1>1 DEF release, Writers
<1>3. WellFormed(c, M)
  BY <1>2 DEF WellFormed
<1> QED
  BY <1>2, <1>3

LEMMA ReleaseFacts ==
    ASSUME NEW M \in Nat, NEW v, WellFormed(v, M), Run(v) = <<>>
    PROVE  HandsOver(release(v), v, M)
<1> DEFINE c == release(v)
<1>1. /\ WellFormed(c, M) /\ c.sent = v.sent /\ c.buf = v.buf
      /\ c.virt = FALSE /\ c.opened = v.opened /\ c.n = v.n
      /\ c.flushRun = v.flushRun /\ c.fixed = v.fixed
  BY ReleaseShape
<1>2. v \in Writers(M) /\ c \in Writers(M)
  BY <1>1 DEF WellFormed
<1>3. Run(c) = <<>>
  BY <1>1, <1>2, ContentFacts
<1>4. Content(c) = Content(v)
  BY <1>1, <1>3 DEF Content
<1>5. v.sent \in Seq(Int)
  BY <1>2 DEF Writers
<1>6. Continues(c.sent, v.sent)
  BY <1>1, <1>5, ContinuesItself
<1> QED
  BY <1>1, <1>4, <1>6 DEF HandsOver

\* Where the run and the buffer are not both held, handing one over leaves
\* the output in order.
LEMMA OneIsEmpty ==
    ASSUME NEW M \in Nat, NEW v, WellFormed(v, M), v.virt
    PROVE  (v.sent \o Run(v)) \o v.buf = Content(v)
<1>1. v \in Writers(M)
  BY DEF WellFormed
<1> 0 \in 0..M /\ <<>> \in Seq(Int)
  BY Concat
<1>2. v.sent \in Seq(Int) /\ v.buf \in Seq(Int) /\ Run(v) \in Seq(Int)
  BY <1>1, ContentFacts DEF Writers
<1>3. Run(v) = <<>> \/ v.buf = <<>>
  BY <1>1, ContentFacts DEF WellFormed, Writers
<1>4. v.sent \o Run(v) \in Seq(Int) /\ v.sent \o v.buf \in Seq(Int)
  BY <1>2, Concat
<1>5. CASE Run(v) = <<>>
  BY <1>2, <1>4, <1>5, Concat DEF Content
<1>6. CASE v.buf = <<>>
  BY <1>2, <1>4, <1>6, Concat DEF Content
<1> QED
  BY <1>3, <1>5, <1>6

LEMMA DrainFacts ==
    ASSUME NEW M \in Nat, NEW v, WellFormed(v, M)
    PROVE  /\ HandsOver(drain(v), v, M)
           /\ Run(drain(v)) = <<>>
           /\ drain(v).virt = v.virt
           /\ drain(v).vp = v.vp
           /\ ~v.virt => drain(v).sent = Content(v)
<1> DEFINE d == drain(v)
<1>1. v \in Writers(M)
  BY DEF WellFormed
<1> 0 \in 0..M /\ <<>> \in Seq(Int)
  BY Concat
<1>2. v.sent \in Seq(Int) /\ v.buf \in Seq(Int) /\ Run(v) \in Seq(Int)
  BY <1>1, ContentFacts DEF Writers
<1>3. v.sent \o Run(v) \in Seq(Int) /\ v.sent \o v.buf \in Seq(Int)
  BY <1>2, Concat
<1>4. CASE v.virt
  <2>1. d = [v EXCEPT !.sent = @ \o Run(v), !.vfrom = v.vlen]
    BY <1>4 DEF drain
  <2>2. /\ d \in Writers(M) /\ d.virt = v.virt /\ d.sent = v.sent \o Run(v)
        /\ d.buf = v.buf /\ d.opened = v.opened /\ d.n = v.n /\ d.vp = v.vp
        /\ d.vfrom = v.vlen /\ d.vlen = v.vlen
        /\ d.flushRun = v.flushRun /\ d.fixed = v.fixed
    BY <1>1, <1>3, <2>1 DEF Writers
  <2>3. d.sent = <<>> => v.sent = <<>>
    BY <1>2, <2>2, Concat
  <2>4. WellFormed(d, M)
    BY <1>1, <1>4, <2>2, <2>3 DEF WellFormed, Writers
  <2>5. Run(d) = <<>>
    <3>1. d.vlen <= d.vfrom
      BY <1>1, <2>2 DEF Writers
    <3> QED
      BY <2>2, <3>1, ContentFacts
  <2>6. Content(d) = (v.sent \o Run(v)) \o v.buf
    <3>1. ((v.sent \o Run(v)) \o v.buf) \o <<>> = (v.sent \o Run(v)) \o v.buf
      BY <1>2, <1>3, Concat
    <3> QED
      BY <2>2, <2>5, <3>1 DEF Content
  <2>7. Continues(d.sent, v.sent)
    BY <1>2, <2>2 DEF Continues
  <2> QED
    BY <1>4, <2>2, <2>4, <2>5, <2>6, <2>7, OneIsEmpty DEF HandsOver
<1>5. CASE ~v.virt
  <2>1. d = [v EXCEPT !.sent = @ \o v.buf, !.buf = <<>>]
    BY <1>5 DEF drain
  <2>2. /\ d \in Writers(M) /\ d.virt = v.virt /\ d.sent = v.sent \o v.buf
        /\ d.buf = <<>> /\ d.opened = v.opened /\ d.n = v.n /\ d.vp = v.vp
        /\ d.flushRun = v.flushRun /\ d.fixed = v.fixed
    BY <1>1, <1>3, <2>1 DEF Writers
  <2>3. d.sent = <<>> => v.sent = <<>> /\ v.buf = <<>>
    BY <1>2, <2>2, Concat
  <2>4. WellFormed(d, M)
    BY <1>5, <2>2, <2>3 DEF WellFormed
  <2>5. Run(d) = <<>> /\ Content(d) = (v.sent \o v.buf) \o <<>>
    BY <1>5, <2>2, ContentFacts
  <2>6. Content(v) = v.sent \o v.buf /\ (v.sent \o v.buf) \o <<>> = v.sent \o v.buf
    BY <1>1, <1>3, <1>5, ContentFacts, Concat
  <2>7. Continues(d.sent, v.sent)
    BY <1>2, <2>2 DEF Continues
  <2> QED
    BY <1>5, <2>2, <2>4, <2>5, <2>6, <2>7 DEF HandsOver
<1> QED
  BY <1>4, <1>5

LEMMA TakeFacts ==
    ASSUME NEW M \in Nat, NEW v, WellFormed(v, M)
    PROVE  /\ HandsOver(take(v), v, M)
           /\ take(v).virt = FALSE
           /\ ~v.virt => take(v).sent = Content(v)
<1> DEFINE d == take(v)
<1>1. v \in Writers(M)
  BY DEF WellFormed
<1> 0 \in 0..M /\ <<>> \in Seq(Int)
  BY Concat
<1>2. v.sent \in Seq(Int) /\ v.buf \in Seq(Int) /\ Run(v) \in Seq(Int)
  BY <1>1, ContentFacts DEF Writers
<1>3. v.sent \o Run(v) \in Seq(Int) /\ v.sent \o v.buf \in Seq(Int)
  BY <1>2, Concat
<1>4. CASE v.virt
  <2>1. d = [release(v) EXCEPT !.sent = @ \o Run(v)]
    BY <1>4 DEF take
  <2>2. /\ d \in Writers(M) /\ d.virt = FALSE /\ d.sent = v.sent \o Run(v)
        /\ d.buf = v.buf /\ d.opened = v.opened /\ d.n = v.n
        /\ d.flushRun = v.flushRun /\ d.fixed = v.fixed
    BY <1>1, <1>3, <2>1 DEF release, Writers
  <2>3. d.sent = <<>> => v.sent = <<>>
    BY <1>2, <2>2, Concat
  <2>4. WellFormed(d, M)
    BY <1>4, <2>2, <2>3 DEF WellFormed
  <2>5. Content(d) = (v.sent \o Run(v)) \o v.buf
    BY <2>2, ContentFacts
  <2>6. Continues(d.sent, v.sent)
    BY <1>2, <2>2 DEF Continues
  <2> QED
    BY <1>4, <2>2, <2>4, <2>5, <2>6, OneIsEmpty DEF HandsOver
<1>5. CASE ~v.virt
  <2>1. d = [release(v) EXCEPT !.sent = @ \o v.buf, !.buf = <<>>]
    BY <1>5 DEF take
  <2>2. /\ d \in Writers(M) /\ d.virt = FALSE /\ d.sent = v.sent \o v.buf
        /\ d.buf = <<>> /\ d.opened = v.opened /\ d.n = v.n
        /\ d.flushRun = v.flushRun /\ d.fixed = v.fixed
    BY <1>1, <1>3, <2>1 DEF release, Writers
  <2>3. d.sent = <<>> => v.sent = <<>> /\ v.buf = <<>>
    BY <1>2, <2>2, Concat, ZenonT(60)
  <2>4. WellFormed(d, M)
    BY <1>5, <2>2, <2>3 DEF WellFormed
  <2>5. Content(d) = (v.sent \o v.buf) \o <<>>
    BY <2>2, ContentFacts
  <2>6. Content(v) = v.sent \o v.buf /\ (v.sent \o v.buf) \o <<>> = v.sent \o v.buf
    BY <1>1, <1>3, <1>5, ContentFacts, Concat
  <2>7. Continues(d.sent, v.sent)
    BY <1>2, <2>2 DEF Continues
  <2> QED
    BY <1>5, <2>2, <2>4, <2>5, <2>6, <2>7 DEF HandsOver
<1> QED
  BY <1>4, <1>5

-----------------------------------------------------------------------------
(* The stream.                                                             *)

\* A hook suspends only between values and lets the writer open the level;
\* the caller takes the output after each call (README: "Call Out() after
\* each Write").
UsedAsDocumented ==
    /\ ~SuspendsAtValue
    /\ ~OpensEarly
    /\ TakesBefore = {"Write", "Resume", "Compact"}

-----------------------------------------------------------------------------
(* The inductive invariant.                                                *)

\* The writer is well formed, its run is a part of the chunk, and nothing has
\* left it before the commit point.
OutputSound ==
    /\ WellFormed(w, MaxIn)
    /\ w.virt => w.vp = scanBase
    /\ ~finished => OpenHasChild(w)
    /\ ~committed => w.sent = <<>> /\ ~w.flushRun

\* What has been handed over is always a beginning of what is wanted; while
\* the transformer lives, nothing is missing.
OutputComplete ==
    /\ want \in Seq(Int)
    /\ Continues(want, w.sent)
    /\ ~dead => Content(w) \o Pending = want

FlagsOK ==
    /\ sink \in BOOLEAN /\ committed \in BOOLEAN /\ dead \in BOOLEAN
    /\ finished \in BOOLEAN /\ suspendReq \in BOOLEAN /\ suspended \in BOOLEAN
    /\ rootSeen \in BOOLEAN /\ rootDone \in BOOLEAN
    /\ lead \in BOOLEAN /\ tail \in BOOLEAN
    /\ ready \in BOOLEAN /\ regOpen \in BOOLEAN /\ regInner \in BOOLEAN
    /\ regT \in Targets
    /\ gens \in 0..MaxGen

\* Before the root nothing is open and nobody has asked to suspend, after it
\* no region is open; a region whose bytes are wanted has an open level to
\* write them to.
RootOK ==
    /\ rootSeen \/ (~w.opened /\ ~suspendReq /\ ~suspended /\ ~rootDone /\ ~regOpen)
    /\ rootDone => ~regOpen
    /\ regOpen /\ Emits(regT) => w.opened

\* The bytes kept by a suspension fit the document.
HeldOK ==
    /\ scanned \in Nat /\ held \in Nat /\ scanBase \in Nat
    /\ scanned + held <= MaxIn
    /\ scanBase <= scanned
    /\ ~suspended => held = 0

\* Between calls nothing of a chunk is left; inside one the place is in it
\* and a region is either open from some place on, or not.
PlaceOK ==
    \/ /\ pc = "caller"
       /\ sink => ~w.virt
       /\ ~suspendReq
       /\ i = 0 /\ len = 0 /\ rs = -1
    \/ /\ pc = "scan"
       /\ ~finished /\ ~suspended
       /\ i \in Nat /\ len \in Nat /\ i <= len
       /\ scanBase + len = scanned
       /\ \/ regOpen /\ rs \in 0..i /\ ~suspendReq
          \/ ~regOpen /\ rs = -1

IInv ==
    OutputSound /\ OutputComplete /\ FlagsOK /\ RootOK /\ HeldOK /\ PlaceOK

-----------------------------------------------------------------------------
(* Effects.                                                                *)

Effects ==
    [w : Writers(MaxIn), committed : BOOLEAN, dead : BOOLEAN,
     suspendReq : BOOLEAN, want : Seq(Int)]

\* OutputSound of an effect.
Sound(e) ==
    /\ e \in Effects
    /\ WellFormed(e.w, MaxIn)
    /\ OpenHasChild(e.w)
    /\ e.w.virt => e.w.vp = scanBase
    /\ ~e.committed => e.w.sent = <<>> /\ ~e.w.flushRun

Complete(e) == Content(e.w) = e.want

\* What is wanted and what has been handed over only grow, the commit point
\* stays past, a level stays open.
Follows(f, e) ==
    /\ Continues(f.want, e.want)
    /\ Continues(f.w.sent, e.w.sent)
    /\ e.committed => f.committed
    /\ e.w.opened => f.w.opened

LEMMA FollowsItself ==
    ASSUME NEW e \in Effects
    PROVE  Follows(e, e)
<1>1. e.want \in Seq(Int) /\ e.w.sent \in Seq(Int)
  BY DEF Effects, Writers
<1> QED
  BY <1>1, ContinuesItself DEF Follows

LEMMA FollowsTransitive ==
    ASSUME NEW e \in Effects, NEW f \in Effects, NEW g \in Effects,
           Follows(f, e), Follows(g, f)
    PROVE  Follows(g, e)
<1>1. /\ e.want \in Seq(Int) /\ e.w.sent \in Seq(Int)
      /\ f.want \in Seq(Int) /\ f.w.sent \in Seq(Int)
      /\ g.want \in Seq(Int) /\ g.w.sent \in Seq(Int)
  BY DEF Effects, Writers
<1>2. Continues(g.want, e.want)
  BY <1>1, ContinuesTransitive DEF Follows
<1>3. Continues(g.w.sent, e.w.sent)
  BY <1>1, ContinuesTransitive DEF Follows
<1> QED
  BY <1>2, <1>3 DEF Follows

\* The writer writes the units u and they are wanted.
LEMMA WritingFacts ==
    ASSUME NEW e, NEW u \in Seq(Int), NEW v, Sound(e), Complete(e),
           Writes(v, e.w, u, MaxIn), OpenHasChild(v),
           v.virt => v.vp = scanBase, e.w.opened => v.opened
    PROVE  LET f == Wanting([e EXCEPT !.w = v], u) IN
           /\ Sound(f) /\ Complete(f) /\ Follows(f, e)
           /\ f.w = v /\ f.committed = e.committed /\ f.dead = e.dead
           /\ f.suspendReq = e.suspendReq
<1> DEFINE f == Wanting([e EXCEPT !.w = v], u)
<1>1. e \in Effects /\ v \in Writers(MaxIn)
  BY DEF Sound, Writes, WellFormed
<1>2. e.want \o u \in Seq(Int) /\ e.want \in Seq(Int)
  BY <1>1, Concat DEF Effects
<1>3. /\ f \in Effects /\ f.w = v /\ f.committed = e.committed
      /\ f.dead = e.dead /\ f.suspendReq = e.suspendReq
      /\ f.want = e.want \o u
  BY <1>1, <1>2 DEF Effects, Wanting
<1>4. Sound(f)
  BY <1>3 DEF Sound, Writes
<1>5. Complete(f)
  BY <1>3 DEF Complete, Writes
<1>6. Follows(f, e)
  BY <1>2, <1>3 DEF Follows, Writes, Continues
<1> QED
  BY <1>3, <1>4, <1>5, <1>6

\* The writer hands over part of its output; what is wanted stays.
LEMMA HandingFacts ==
    ASSUME NEW e, NEW v, Sound(e), HandsOver(v, e.w, MaxIn), e.committed,
           v.virt => v.vp = scanBase
    PROVE  LET f == [e EXCEPT !.w = v] IN
           /\ Sound(f) /\ Follows(f, e)
           /\ f.w = v /\ f.committed = e.committed /\ f.dead = e.dead
           /\ f.suspendReq = e.suspendReq /\ f.want = e.want
<1> DEFINE f == [e EXCEPT !.w = v]
<1>1. e \in Effects /\ v \in Writers(MaxIn)
  BY DEF Sound, HandsOver, WellFormed
<1>2. e.want \in Seq(Int)
  BY <1>1 DEF Effects
<1>3. /\ f \in Effects /\ f.w = v /\ f.committed = e.committed
      /\ f.dead = e.dead /\ f.suspendReq = e.suspendReq
      /\ f.want = e.want
  BY <1>1 DEF Effects
<1>4. OpenHasChild(v)
  BY DEF Sound, HandsOver, OpenHasChild
<1>5. Sound(f)
  BY <1>3, <1>4 DEF Sound, HandsOver
<1>6. Follows(f, e)
  BY <1>2, <1>3, ContinuesItself DEF Follows, HandsOver
<1> QED
  BY <1>3, <1>5, <1>6

LEMMA CommitFacts ==
    ASSUME NEW e, Sound(e), sink \in BOOLEAN
    PROVE  /\ Sound(Commit(e)) /\ Follows(Commit(e), e)
           /\ Commit(e).committed
           /\ Commit(e).dead = e.dead /\ Commit(e).suspendReq = e.suspendReq
           /\ Commit(e).want = e.want
           /\ Commit(e).w.sent = e.w.sent /\ Commit(e).w.buf = e.w.buf
           /\ Commit(e).w.virt = e.w.virt /\ Commit(e).w.vp = e.w.vp
           /\ Commit(e).w.opened = e.w.opened
           /\ Content(Commit(e).w) = Content(e.w)
<1> DEFINE c == Commit(e)
           v == [e.w EXCEPT !.flushRun = sink /\ ~e.w.fixed]
<1>1. e \in Effects /\ e.w \in Writers(MaxIn)
  BY DEF Sound, Effects
<1>2. (sink /\ ~e.w.fixed) \in BOOLEAN
  OBVIOUS
<1>3. /\ v \in Writers(MaxIn)
      /\ v.buf = e.w.buf /\ v.virt = e.w.virt /\ v.vp = e.w.vp
      /\ v.vfrom = e.w.vfrom /\ v.vlen = e.w.vlen
      /\ v.opened = e.w.opened /\ v.n = e.w.n /\ v.sent = e.w.sent
  BY <1>1, <1>2 DEF Writers
<1>4. c = [e EXCEPT !.committed = TRUE, !.w = v]
  BY <1>1 DEF Commit, Effects
<1> HIDE DEF v
<1>5. /\ c \in Effects /\ c.w = v /\ c.committed /\ c.dead = e.dead
      /\ c.suspendReq = e.suspendReq /\ c.want = e.want
  BY <1>1, <1>3, <1>4 DEF Effects
<1>6. WellFormed(v, MaxIn) /\ OpenHasChild(v) /\ (v.virt => v.vp = scanBase)
  BY <1>3 DEF Sound, WellFormed, OpenHasChild
<1>7. Sound(c)
  BY <1>5, <1>6 DEF Sound
<1>8. Content(v) = Content(e.w)
  BY <1>3 DEF Content, Run
<1>9. e.want \in Seq(Int) /\ e.w.sent \in Seq(Int)
  BY <1>1 DEF Effects, Writers
<1>10. Follows(c, e)
  BY <1>3, <1>5, <1>9, ContinuesItself DEF Follows
<1> QED
  BY <1>3, <1>5, <1>7, <1>8, <1>10

LEMMA CommitNowFacts ==
    ASSUME NEW e, Sound(e), sink \in BOOLEAN
    PROVE  LET f == CommitNow(e) IN
           /\ Sound(f) /\ Follows(f, e)
           /\ f.dead = e.dead /\ f.suspendReq = e.suspendReq
           /\ f.want = e.want /\ Content(f.w) = Content(e.w)
           /\ f.w.virt = e.w.virt /\ f.w.opened = e.w.opened
<1> DEFINE c == Commit(e)
           d == [c EXCEPT !.w = drain(c.w)]
<1>1. e \in Effects
  BY DEF Sound
<1>2. CASE e.committed
  BY <1>1, <1>2, FollowsItself DEF CommitNow
<1>3. /\ Sound(c) /\ Follows(c, e) /\ c.committed
      /\ c.dead = e.dead /\ c.suspendReq = e.suspendReq /\ c.want = e.want
      /\ c.w.virt = e.w.virt /\ Content(c.w) = Content(e.w)
      /\ c.w.opened = e.w.opened
  BY CommitFacts
<1>4. CASE ~e.committed /\ ~sink
  <2>1. CommitNow(e) = c
    BY <1>4 DEF CommitNow
  <2> QED
    BY <1>3, <2>1
<1>5. CASE ~e.committed /\ sink
  <2>1. CommitNow(e) = d
    BY <1>5 DEF CommitNow
  <2>2. WellFormed(c.w, MaxIn) /\ (c.w.virt => c.w.vp = scanBase) /\ c \in Effects
    BY <1>3 DEF Sound
  <2>3. /\ HandsOver(drain(c.w), c.w, MaxIn) /\ drain(c.w).virt = c.w.virt
        /\ drain(c.w).vp = c.w.vp
    BY <2>2, StreamAssumption, DrainFacts
  <2>4. drain(c.w).virt => drain(c.w).vp = scanBase
    BY <2>2, <2>3
  <2>5. /\ Sound(d) /\ Follows(d, c) /\ d.w = drain(c.w)
        /\ d.dead = c.dead /\ d.suspendReq = c.suspendReq /\ d.want = c.want
    BY <1>3, <2>3, <2>4, HandingFacts
  <2>6. d \in Effects
    BY <2>5 DEF Sound
  <2>7. Follows(d, e)
    BY <1>1, <1>3, <2>2, <2>5, <2>6, FollowsTransitive
  <2>8. Content(d.w) = Content(e.w) /\ d.w.opened = e.w.opened
    BY <1>3, <2>3, <2>5 DEF HandsOver
  <2> HIDE DEF c, d
  <2> QED
    BY <1>3, <2>1, <2>3, <2>5, <2>7, <2>8
<1> QED
  BY <1>2, <1>4, <1>5

LEMMA HookWritesFacts ==
    ASSUME NEW e, NEW u \in Seq(Int), Sound(e), Complete(e)
    PROVE  LET f == HookWrites(e, u) IN
           /\ Sound(f) /\ Complete(f) /\ Follows(f, e)
           /\ f.dead = e.dead /\ f.suspendReq = e.suspendReq
           /\ ~f.w.virt /\ f.w.opened
<1> DEFINE k == KeyRawAt(e.w, u)
           m == materialise(k)
           o == Opening(e.w)
<1>1. WellFormed(e.w, MaxIn) /\ OpenHasChild(e.w) /\ MaxIn \in Nat
  BY StreamAssumption DEF Sound
<1>2. /\ Writes(k, e.w, o \o u, MaxIn) /\ k.opened = TRUE /\ k.n = 1
  BY <1>1, KeyRawAtFacts DEF OpenHasChild
<1>3. WellFormed(k, MaxIn)
  BY <1>2 DEF Writes
<1>4. /\ Writes(m, k, <<>>, MaxIn) /\ m.virt = FALSE /\ m.opened = k.opened
      /\ m.n = k.n
  BY <1>1, <1>3, MaterialiseFacts
<1>5. o \o u \in Seq(Int) /\ (o \o u) \o <<>> = o \o u /\ <<>> \in Seq(Int)
  <2>1. o \in Seq(Int)
    BY <1>1, EnsureOpenFacts
  <2>2. o \o u \in Seq(Int)
    BY <2>1, Concat
  <2> HIDE DEF o
  <2> QED
    BY <2>2, Concat
<1>6. Writes(m, e.w, o \o u, MaxIn)
  <2>1. Writes(m, e.w, (o \o u) \o <<>>, MaxIn)
    BY <1>1, <1>2, <1>4, <1>5, WritesTwice
  <2> QED
    BY <1>5, <2>1
<1>7. OpenHasChild(m) /\ (m.virt => m.vp = scanBase)
  BY <1>2, <1>4 DEF OpenHasChild
<1>8. HookWrites(e, u) = Wanting([e EXCEPT !.w = m], o \o u)
  BY DEF HookWrites, OpenIfNeeded, Opening
<1>9. e.w.opened => m.opened
  BY <1>2, <1>4
<1> HIDE DEF m, o, k
<1>10. ASSUME NEW r \in Seq(Int), r = o \o u, NEW v, v = m
       PROVE  LET f == Wanting([e EXCEPT !.w = v], r) IN
              /\ Sound(f) /\ Complete(f) /\ Follows(f, e)
              /\ f.w = v /\ f.dead = e.dead /\ f.suspendReq = e.suspendReq
  <2>1. /\ Writes(v, e.w, r, MaxIn) /\ OpenHasChild(v)
        /\ v.virt => v.vp = scanBase
        /\ e.w.opened => v.opened
    BY <1>6, <1>7, <1>9, <1>10
  <2> QED
    BY <2>1, WritingFacts DEF OpenHasChild
<1>11. LET f == Wanting([e EXCEPT !.w = m], o \o u) IN
       /\ Sound(f) /\ Complete(f) /\ Follows(f, e)
       /\ f.w = m /\ f.dead = e.dead /\ f.suspendReq = e.suspendReq
  BY <1>5, <1>10
<1> QED
  BY <1>2, <1>4, <1>8, <1>11

LEMMA HookFacts ==
    ASSUME NEW e, NEW cb \in Callbacks, UsedAsDocumented, Sound(e), Complete(e),
           sink \in BOOLEAN, gens \in Nat
    PROVE  LET f == Hook(cb, e) IN
           /\ Sound(f) /\ Complete(f) /\ Follows(f, e)
           /\ f.dead <=> e.dead \/ cb = "bail"
           /\ f.suspendReq <=> e.suspendReq \/ cb = "suspend"
           /\ ~e.w.virt => ~f.w.virt
<1>1. e \in Effects
  BY DEF Sound
<1>2. cb \in {"nothing", "write", "suspend", "commit", "bail"}
  BY DEF Callbacks, UsedAsDocumented
<1>3. CASE cb = "nothing"
  BY <1>1, <1>3, FollowsItself DEF Hook
<1>4. CASE cb = "write"
  <2>1. <<GenUnit(gens)>> \in Seq(Int)
    BY DEF GenUnit
  <2>2. Hook(cb, e) = HookWrites(e, <<GenUnit(gens)>>)
    BY <1>4 DEF Hook
  <2>3. LET f == HookWrites(e, <<GenUnit(gens)>>) IN
        /\ Sound(f) /\ Complete(f) /\ Follows(f, e)
        /\ f.dead = e.dead /\ f.suspendReq = e.suspendReq
        /\ ~f.w.virt
    BY <2>1, HookWritesFacts
  <2> QED
    BY <1>4, <2>2, <2>3
<1>5. e.want \in Seq(Int) /\ e.w.sent \in Seq(Int)
  BY <1>1 DEF Effects, Writers
<1>6. CASE cb = "suspend"
  <2> DEFINE f == [e EXCEPT !.suspendReq = TRUE]
  <2>1. Hook(cb, e) = f
    BY <1>6 DEF Hook
  <2>2. /\ f \in Effects /\ f.w = e.w /\ f.committed = e.committed
        /\ f.dead = e.dead /\ f.suspendReq /\ f.want = e.want
    BY <1>1 DEF Effects
  <2>3. Sound(f) /\ Complete(f) /\ Follows(f, e)
    BY <1>5, <2>2, ContinuesItself DEF Sound, Complete, Follows
  <2> QED
    BY <1>6, <2>1, <2>2, <2>3
<1>7. CASE cb = "bail"
  <2> DEFINE f == [e EXCEPT !.dead = TRUE]
  <2>1. Hook(cb, e) = f
    BY <1>7 DEF Hook
  <2>2. /\ f \in Effects /\ f.w = e.w /\ f.committed = e.committed
        /\ f.dead /\ f.suspendReq = e.suspendReq /\ f.want = e.want
    BY <1>1 DEF Effects
  <2>3. Sound(f) /\ Complete(f) /\ Follows(f, e)
    BY <1>5, <2>2, ContinuesItself DEF Sound, Complete, Follows
  <2> QED
    BY <1>7, <2>1, <2>2, <2>3
<1>8. CASE cb = "commit"
  <2>1. Hook(cb, e) = CommitNow(e)
    BY <1>8 DEF Hook
  <2>2. LET f == CommitNow(e) IN
        /\ Sound(f) /\ Follows(f, e)
        /\ f.dead = e.dead /\ f.suspendReq = e.suspendReq
        /\ f.want = e.want /\ Content(f.w) = Content(e.w)
        /\ f.w.virt = e.w.virt
    BY CommitNowFacts
  <2> QED
    BY <1>8, <2>1, <2>2 DEF Complete
<1> QED
  BY <1>2, <1>3, <1>4, <1>6, <1>7, <1>8

-----------------------------------------------------------------------------
(* A region's bytes on their way to the writer.                            *)

\* f is e after the units u have been written on the way of a region: wanted
\* before or after, not here.
Passes(f, e, u) ==
    /\ Sound(f)
    /\ Content(f.w) = Content(e.w) \o u
    /\ Continues(f.w.sent, e.w.sent)
    /\ f.w.opened = e.w.opened
    /\ e.committed => f.committed
    /\ f.dead = e.dead /\ f.suspendReq = e.suspendReq /\ f.want = e.want

\* The bytes of a region's run that reach the output.
Emitted(from, to) ==
    IF Emits(regT) THEN Bytes(scanBase + from, scanBase + to) ELSE <<>>

LEMMA EmitRunFacts ==
    ASSUME NEW v, NEW from \in 0..MaxIn, NEW to \in 0..MaxIn, from <= to,
           WellFormed(v, MaxIn), v.virt => v.vp = scanBase,
           scanBase \in 0..MaxIn, regT \in Targets, Emits(regT) => v.opened
    PROVE  /\ Writes(emitRun(v, from, to), v, Emitted(from, to), MaxIn)
           /\ emitRun(v, from, to).opened = v.opened
           /\ emitRun(v, from, to).n = v.n
           /\ emitRun(v, from, to).virt => emitRun(v, from, to).vp = scanBase
<1> DEFINE b == Bytes(scanBase + from, scanBase + to)
<1>1. MaxIn \in Nat
  BY StreamAssumption
<1>2. b \in Seq(Int)
  <2>1. scanBase + from \in Nat /\ scanBase + to \in Nat
    OBVIOUS
  <2> QED
    BY <2>1, BytesFacts
<1>3. CASE regT = "rtOut"
  <2>1. emitRun(v, from, to) = passthroughAt(v, scanBase, from, to)
    BY <1>3 DEF emitRun
  <2>2. Emitted(from, to) = b /\ v.opened
    BY <1>3 DEF Emitted, Emits
  <2>3. /\ Writes(passthroughAt(v, scanBase, from, to), v, b, MaxIn)
        /\ passthroughAt(v, scanBase, from, to).opened = v.opened
        /\ passthroughAt(v, scanBase, from, to).n = v.n
        /\ passthroughAt(v, scanBase, from, to).virt
             => passthroughAt(v, scanBase, from, to).vp = scanBase
    BY <1>1, <2>2, PassthroughFacts
  <2> QED
    BY <2>1, <2>2, <2>3
<1>4. CASE regT = "rtObserve"
  <2>1. emitRun(v, from, to) = Raw(v, b)
    BY <1>4 DEF emitRun
  <2>2. Emitted(from, to) = b
    BY <1>4 DEF Emitted, Emits
  <2>3. /\ Writes(Raw(v, b), v, b, MaxIn) /\ Raw(v, b).virt = FALSE
        /\ Raw(v, b).opened = v.opened /\ Raw(v, b).n = v.n
    <3> HIDE DEF b
    <3> QED
      BY <1>1, <1>2, RawFacts
  <2> QED
    BY <2>1, <2>2, <2>3
<1>5. CASE regT \notin {"rtOut", "rtObserve"}
  <2>1. emitRun(v, from, to) = v /\ Emitted(from, to) = <<>>
    BY <1>5 DEF emitRun, Emitted, Emits
  <2>2. v \in Writers(MaxIn) /\ v.sent \in Seq(Int)
    BY DEF WellFormed, Writers
  <2>3. Content(v) \o <<>> = Content(v) /\ Continues(v.sent, v.sent)
    BY <1>1, <2>2, ContentFacts, Concat, ContinuesItself
  <2> QED
    BY <2>1, <2>3 DEF Writes
<1> QED
  BY <1>3, <1>4, <1>5

LEMMA PassesTwice ==
    ASSUME NEW e, NEW f, NEW g, NEW u \in Seq(Int), NEW v \in Seq(Int),
           Sound(e), Passes(f, e, u), Passes(g, f, v)
    PROVE  Passes(g, e, u \o v)
<1>1. e \in Effects /\ f \in Effects /\ g \in Effects
  BY DEF Passes, Sound
<1>2. /\ e.w \in Writers(MaxIn) /\ MaxIn \in Nat
      /\ e.w.sent \in Seq(Int) /\ f.w.sent \in Seq(Int) /\ g.w.sent \in Seq(Int)
  BY <1>1, StreamAssumption DEF Effects, Writers
<1>3. Content(e.w) \in Seq(Int)
  BY <1>2, ContentFacts
<1>4. (Content(e.w) \o u) \o v = Content(e.w) \o (u \o v)
  BY <1>3, Assoc
<1>5. Content(g.w) = (Content(e.w) \o u) \o v
  BY DEF Passes
<1>6. Continues(g.w.sent, e.w.sent)
  BY <1>2, ContinuesTransitive DEF Passes
<1> QED
  BY <1>4, <1>5, <1>6 DEF Passes

LEMMA CommitPasses ==
    ASSUME NEW e, Sound(e), sink \in BOOLEAN
    PROVE  Passes(Commit(e), e, <<>>) /\ Commit(e).committed
<1>1. e \in Effects /\ e.w \in Writers(MaxIn) /\ MaxIn \in Nat
  BY StreamAssumption DEF Sound, Effects
<1>2. e.w.sent \in Seq(Int) /\ Content(e.w) \o <<>> = Content(e.w)
  BY <1>1, ContentFacts, Concat DEF Writers
<1>3. Continues(Commit(e).w.sent, e.w.sent)
  BY CommitFacts DEF Follows
<1> QED
  BY <1>2, <1>3, CommitFacts DEF Passes

\* What a region needs of the state for its bytes to be written.
MayEmit(e) ==
    /\ sink \in BOOLEAN
    /\ scanBase \in 0..MaxIn
    /\ regT \in Targets
    /\ Emits(regT) => e.w.opened

LEMMA EmitFacts ==
    ASSUME NEW e, NEW from \in 0..MaxIn, NEW to \in 0..MaxIn, from <= to,
           Sound(e), MayEmit(e)
    PROVE  Passes([e EXCEPT !.w = emitRun(e.w, from, to)], e, Emitted(from, to))
<1> DEFINE v == emitRun(e.w, from, to)
           f == [e EXCEPT !.w = v]
<1>1. e \in Effects /\ WellFormed(e.w, MaxIn) /\ (e.w.virt => e.w.vp = scanBase)
  BY DEF Sound
<1>2. scanBase \in 0..MaxIn /\ regT \in Targets /\ (Emits(regT) => e.w.opened)
  BY DEF MayEmit
<1>3. /\ Writes(v, e.w, Emitted(from, to), MaxIn)
      /\ v.opened = e.w.opened /\ v.n = e.w.n
      /\ v.virt => v.vp = scanBase
  BY <1>1, <1>2, EmitRunFacts
<1>4. v \in Writers(MaxIn)
  BY <1>3 DEF Writes, WellFormed
<1> HIDE DEF v
<1>5. /\ f \in Effects /\ f.w = v /\ f.committed = e.committed
      /\ f.dead = e.dead /\ f.suspendReq = e.suspendReq /\ f.want = e.want
  BY <1>1, <1>4 DEF Effects
<1>6. Sound(f)
  <2>1. WellFormed(v, MaxIn) /\ OpenHasChild(v)
    BY <1>3 DEF Writes, Sound, OpenHasChild
  <2>2. ~e.committed => v.sent = <<>> /\ ~v.flushRun
    BY <1>3 DEF Writes, Sound
  <2> QED
    BY <1>3, <1>5, <2>1, <2>2 DEF Sound
<1>7. /\ Content(v) = Content(e.w) \o Emitted(from, to)
      /\ Continues(v.sent, e.w.sent)
  BY <1>3 DEF Writes
<1> HIDE DEF f
<1>8. Passes(f, e, Emitted(from, to))
  BY <1>3, <1>5, <1>6, <1>7 DEF Passes
<1> QED
  BY <1>8 DEF f, v

LEMMA EmittedFacts ==
    ASSUME NEW from \in 0..MaxIn, NEW to \in 0..MaxIn, scanBase \in 0..MaxIn
    PROVE  Emitted(from, to) \in Seq(Int)
<1>1. scanBase + from \in Nat /\ scanBase + to \in Nat
  OBVIOUS
<1> QED
  BY <1>1, BytesFacts, Concat DEF Emitted

LEMMA EmittedConcat ==
    ASSUME NEW from \in 0..MaxIn, NEW mid \in 0..MaxIn, NEW to \in 0..MaxIn,
           from <= mid, mid <= to, scanBase \in 0..MaxIn
    PROVE  Emitted(from, mid) \o Emitted(mid, to) = Emitted(from, to)
<1>1. /\ scanBase + from \in Nat /\ scanBase + mid \in Nat /\ scanBase + to \in Nat
      /\ scanBase + from <= scanBase + mid /\ scanBase + mid <= scanBase + to
  BY StreamAssumption
<1>2. CASE Emits(regT)
  BY <1>1, <1>2, BytesConcat DEF Emitted
<1>3. CASE ~Emits(regT)
  BY <1>3, Concat DEF Emitted
<1> QED
  BY <1>2, <1>3

\* A run that crosses the commit window is written in two parts, and both
\* arrive.
LEMMA EmitRegionFacts ==
    ASSUME NEW e, NEW from \in 0..MaxIn, NEW to \in 0..MaxIn, from <= to,
           Sound(e), MayEmit(e)
    PROVE  Passes(emitRegionAt(e, from, to), e, Emitted(from, to))
<1> DEFINE room   == CommitBytes - (scanBase + from)
           splits == sink /\ ~e.committed /\ room < to - from
           mid    == from + room
           early  == [e EXCEPT !.w = emitRun(e.w, from, mid)]
           c      == Commit(e)
           d      == Commit(early)
<1>1. scanBase \in 0..MaxIn /\ MaxIn \in Nat /\ CommitBytes \in Nat /\ sink \in BOOLEAN
  BY StreamAssumption DEF MayEmit
<1>2. CASE ~splits
  <2>1. emitRegionAt(e, from, to) = [e EXCEPT !.w = emitRun(e.w, from, to)]
    BY <1>2 DEF emitRegionAt
  <2> QED
    BY <2>1, EmitFacts
<1>3. CASE splits /\ ~(room > 0)
  <2>1. emitRegionAt(e, from, to) = [c EXCEPT !.w = emitRun(c.w, from, to)]
    BY <1>3 DEF emitRegionAt
  <2>2. Passes(c, e, <<>>)
    BY <1>1, CommitPasses
  <2>3. Sound(c) /\ MayEmit(c)
    BY <2>2 DEF Passes, MayEmit
  <2>4. Passes([c EXCEPT !.w = emitRun(c.w, from, to)], c, Emitted(from, to))
    BY <2>3, EmitFacts
  <2>5. <<>> \in Seq(Int) /\ Emitted(from, to) \in Seq(Int)
        /\ <<>> \o Emitted(from, to) = Emitted(from, to)
    BY <1>1, EmittedFacts, Concat
  <2> QED
    BY <2>1, <2>2, <2>4, <2>5, PassesTwice
<1>4. CASE splits /\ room > 0
  <2>1. mid \in 0..MaxIn /\ from <= mid /\ mid <= to
    BY <1>1, <1>4
  <2>2. emitRegionAt(e, from, to) = [d EXCEPT !.w = emitRun(d.w, mid, to)]
    BY <1>4 DEF emitRegionAt
  <2> HIDE DEF mid
  <2>3. Passes(early, e, Emitted(from, mid))
    BY <2>1, EmitFacts
  <2>4. Sound(early)
    BY <2>3 DEF Passes
  <2>5. Passes(d, early, <<>>)
    BY <1>1, <2>4, CommitPasses
  <2>6. Sound(d) /\ d.w.opened = e.w.opened
    BY <2>3, <2>5 DEF Passes
  <2>7. MayEmit(d)
    BY <2>6 DEF MayEmit
  <2>8. Passes([d EXCEPT !.w = emitRun(d.w, mid, to)], d, Emitted(mid, to))
    BY <2>1, <2>6, <2>7, EmitFacts
  <2>9. /\ Emitted(from, mid) \in Seq(Int) /\ Emitted(mid, to) \in Seq(Int)
        /\ Emitted(from, mid) \o Emitted(mid, to) = Emitted(from, to)
    <3>1. Emitted(from, mid) \in Seq(Int)
      BY <1>1, <2>1, EmittedFacts
    <3>2. Emitted(mid, to) \in Seq(Int)
      BY <1>1, <2>1, EmittedFacts
    <3>3. Emitted(from, mid) \o Emitted(mid, to) = Emitted(from, to)
      BY <1>1, <2>1, EmittedConcat
    <3> QED
      BY <3>1, <3>2, <3>3
  <2>10. <<>> \in Seq(Int) /\ Emitted(from, mid) \o <<>> = Emitted(from, mid)
    BY <2>9, Concat
  <2> HIDE DEF early, d
  <2>11. Passes(d, e, Emitted(from, mid))
    BY <2>3, <2>5, <2>9, <2>10, PassesTwice
  <2>12. Passes([d EXCEPT !.w = emitRun(d.w, mid, to)], e, Emitted(from, to))
    BY <2>8, <2>9, <2>11, PassesTwice
  <2> QED
    BY <2>2, <2>12
<1> QED
  BY <1>2, <1>3, <1>4

\* flush emits the bytes of the run that are not yet out.
LEMMA FlushFacts ==
    ASSUME NEW e, NEW end \in 0..MaxIn, rs \in 0..MaxIn, rs <= end,
           Sound(e), MayEmit(e)
    PROVE  Passes(flush(e, end), e, Emitted(rs, end))
<1>1. e \in Effects /\ e.w \in Writers(MaxIn) /\ MaxIn \in Nat
  BY StreamAssumption DEF Sound, Effects
<1>2. CASE end > rs
  <2>1. flush(e, end) = emitRegionAt(e, rs, end)
    BY <1>2 DEF flush
  <2> QED
    BY <2>1, EmitRegionFacts
<1>3. CASE end = rs
  <2>1. flush(e, end) = e
    BY <1>3 DEF flush
  <2>2. scanBase + rs \in Nat
    BY <1>1 DEF MayEmit
  <2>3. Emitted(rs, end) = <<>>
    BY <1>3, <2>2, BytesFacts DEF Emitted
  <2>4. Content(e.w) \o <<>> = Content(e.w) /\ Continues(e.w.sent, e.w.sent)
    BY <1>1, ContentFacts, Concat, ContinuesItself DEF Writers
  <2> QED
    BY <2>1, <2>3, <2>4 DEF Passes
<1> QED
  BY <1>2, <1>3

-----------------------------------------------------------------------------
(* A step of the stream, as OutputStream sees it.                          *)

\* A transformer that is dead or finished does nothing more; one that is
\* neither goes on, and finishes only with all of its output handed over.
Advances ==
    IF dead \/ finished
    THEN /\ want' = want /\ w'.sent = w.sent
         /\ committed' = committed /\ dead' = dead /\ finished' = finished
    ELSE /\ Continues(want', want) /\ Continues(w'.sent, w.sent)
         /\ committed => committed'
         /\ finished' => ~dead' /\ w'.sent = want'

LEMMA ContentContinues ==
    ASSUME NEW v \in Writers(MaxIn), NEW c \in Seq(Int), NEW r, r = Content(v) \o c
    PROVE  Continues(r, v.sent)
<1>1. v.sent \in Seq(Int) /\ v.buf \in Seq(Int) /\ Run(v) \in Seq(Int)
  BY StreamAssumption, ContentFacts DEF Writers
<1>2. v.buf \o Run(v) \in Seq(Int)
  BY <1>1, Concat
<1>3. (v.buf \o Run(v)) \o c \in Seq(Int)
  BY <1>2, Concat
<1>4. Content(v) = v.sent \o (v.buf \o Run(v))
  BY <1>1, Assoc, ZenonT(60) DEF Content
<1>5. (v.sent \o (v.buf \o Run(v))) \o c = v.sent \o ((v.buf \o Run(v)) \o c)
  BY <1>1, <1>2, Assoc, ZenonT(60)
<1> QED
  BY <1>3, <1>4, <1>5 DEF Continues

LEMMA NowFacts ==
    ASSUME IInv, ~finished
    PROVE  /\ Sound(Now)
           /\ Now.w = w /\ Now.want = want /\ Now.committed = committed
           /\ Now.dead = dead /\ Now.suspendReq = suspendReq
           /\ Pending = <<>> /\ ~dead => Complete(Now)
<1>1. /\ Now.w = w /\ Now.want = want /\ Now.committed = committed
      /\ Now.dead = dead /\ Now.suspendReq = suspendReq
  BY DEF Now
<1>2. w \in Writers(MaxIn) /\ want \in Seq(Int)
      /\ committed \in BOOLEAN /\ dead \in BOOLEAN /\ suspendReq \in BOOLEAN
  BY DEF IInv, OutputSound, OutputComplete, FlagsOK, WellFormed
<1>3. Now \in Effects
  BY <1>2 DEF Now, Effects
<1>4. Sound(Now)
  BY <1>1, <1>3 DEF Sound, IInv, OutputSound
<1>5. Pending = <<>> /\ ~dead => Complete(Now)
  <2>1. Content(w) \in Seq(Int)
    BY <1>2, StreamAssumption, ContentFacts
  <2>2. Content(w) \o <<>> = Content(w)
    BY <2>1, Concat
  <2> QED
    BY <1>1, <2>2 DEF Complete, IInv, OutputComplete
<1> QED
  BY <1>1, <1>4, <1>5

\* What every step that assigns the output through an effect has in common.
LEMMA OutputStep ==
    ASSUME NEW f, IInv, ~dead, ~finished, Becomes(f), Sound(f), Follows(f, Now),
           Continues(f.want, f.w.sent), scanBase' = scanBase, ~finished'
    PROVE  /\ OutputSound'
           /\ want' \in Seq(Int) /\ Continues(want', w'.sent)
           /\ Advances
           /\ committed' \in BOOLEAN /\ dead' \in BOOLEAN
           /\ suspendReq' \in BOOLEAN
           /\ w.opened => w'.opened
<1>1. /\ w' = f.w /\ committed' = f.committed /\ dead' = f.dead
      /\ suspendReq' = f.suspendReq /\ want' = f.want
  BY DEF Becomes
<1>2. f \in Effects
  BY DEF Sound
<1>3. /\ want' \in Seq(Int) /\ committed' \in BOOLEAN /\ dead' \in BOOLEAN
      /\ suspendReq' \in BOOLEAN
  BY <1>1, <1>2 DEF Effects
<1>4. OutputSound'
  BY <1>1 DEF OutputSound, Sound
<1>5. /\ Continues(want', want) /\ Continues(w'.sent, w.sent)
      /\ committed => committed'
      /\ w.opened => w'.opened
  BY <1>1, NowFacts DEF Follows
<1> QED
  BY <1>1, <1>3, <1>4, <1>5 DEF Advances

\* ... and c is what the loop carries after it.
LEMMA CarryStep ==
    ASSUME NEW f, NEW c \in Seq(Int), IInv, ~dead, ~finished, Becomes(f), Sound(f),
           Content(f.w) \o c = f.want, Pending' = c,
           Follows(f, Now), scanBase' = scanBase, ~finished'
    PROVE  /\ OutputSound' /\ OutputComplete'
           /\ Advances
           /\ committed' \in BOOLEAN /\ dead' \in BOOLEAN
           /\ suspendReq' \in BOOLEAN
           /\ w.opened => w'.opened
<1>1. f \in Effects /\ f.w \in Writers(MaxIn)
  BY DEF Sound, Effects
<1>2. Continues(f.want, f.w.sent)
  BY <1>1, ContentContinues
<1>3. /\ OutputSound'
      /\ want' \in Seq(Int) /\ Continues(want', w'.sent)
      /\ Advances
      /\ committed' \in BOOLEAN /\ dead' \in BOOLEAN
      /\ suspendReq' \in BOOLEAN
      /\ w.opened => w'.opened
  BY <1>2, OutputStep
<1>4. Content(w') \o Pending' = want'
  BY DEF Becomes
<1>5. OutputComplete'
  BY <1>3, <1>4 DEF OutputComplete
<1> QED
  BY <1>3, <1>5

LEMMA CompleteStep ==
    ASSUME NEW f, IInv, ~dead, ~finished, Becomes(f), Sound(f), Complete(f),
           Follows(f, Now), scanBase' = scanBase, ~finished', Pending' = <<>>
    PROVE  /\ OutputSound' /\ OutputComplete'
           /\ Advances
           /\ committed' \in BOOLEAN /\ dead' \in BOOLEAN
           /\ suspendReq' \in BOOLEAN
           /\ w.opened => w'.opened
<1>1. f \in Effects /\ f.w \in Writers(MaxIn) /\ f.want = Content(f.w)
  BY DEF Sound, Effects, Complete
<1>2. Content(f.w) \in Seq(Int)
  BY <1>1, StreamAssumption, ContentFacts
<1>3. Content(f.w) \o <<>> = f.want /\ <<>> \in Seq(Int)
  BY <1>1, <1>2, Concat
<1> QED
  BY <1>3, CarryStep

LEMMA GeneratedFacts ==
    ASSUME NEW cb, gens \in 0..MaxGen, MayCall(cb), Generated(cb)
    PROVE  gens' \in 0..MaxGen
BY StreamAssumption DEF MayCall, Generated

-----------------------------------------------------------------------------
(* The steps of the scan.                                                  *)

LEMMA InitInvariant == Init => IInv
<1> SUFFICES ASSUME Init PROVE IInv
  OBVIOUS
<1> <<>> \in Seq(Int) /\ MaxIn \in Nat /\ MaxGen \in Nat /\ 0 \in 0..MaxIn
  BY StreamAssumption, Concat
<1>1. PICK fixed \in BOOLEAN : w = NewWriter(fixed)
  BY DEF Init
<1>2. /\ w \in Writers(MaxIn) /\ ~w.virt /\ w.buf = <<>> /\ w.sent = <<>>
      /\ ~w.opened /\ w.n = 0 /\ ~w.flushRun
  BY <1>1 DEF NewWriter, Writers
<1>3. OutputSound
  BY <1>2 DEF Init, OutputSound, WellFormed, OpenHasChild
<1>4. Content(w) = <<>>
  BY <1>2, Concat DEF Content, Run
<1>5. Pending = <<>>
  BY DEF Init, Pending
<1>6. OutputComplete
  BY <1>2, <1>4, <1>5, Concat, ContinuesItself DEF Init, OutputComplete
<1>7. FlagsOK
  <2>1. gens \in 0..MaxGen /\ regT \in Targets
    BY DEF Init, Targets
  <2>2. /\ sink \in BOOLEAN /\ committed = FALSE /\ dead = FALSE
        /\ finished = FALSE /\ suspendReq = FALSE /\ suspended = FALSE
        /\ rootSeen = FALSE /\ rootDone = FALSE /\ lead = FALSE /\ tail = FALSE
        /\ ready = FALSE /\ regOpen = FALSE /\ regInner = FALSE
    BY DEF Init
  <2> QED
    BY <2>1, <2>2 DEF FlagsOK
<1>8. RootOK /\ HeldOK /\ PlaceOK
  BY <1>2 DEF Init, RootOK, HeldOK, PlaceOK, Emits
<1> QED
  BY <1>3, <1>6, <1>7, <1>8 DEF IInv

\* What scanning says of the place: there is a byte left.
LEMMA ScanningFacts ==
    ASSUME IInv, Scanning
    PROVE  /\ pc = "scan" /\ ~dead /\ ~suspendReq /\ ~finished /\ ~suspended
           /\ i \in Nat /\ len \in Nat /\ i < len /\ scanBase + i < MaxIn
           /\ scanBase \in 0..MaxIn /\ i \in 0..MaxIn /\ i + 1 \in 0..MaxIn
           /\ i + 1 <= len
           /\ IF regOpen THEN rs \in 0..MaxIn /\ rs <= i ELSE rs = -1 /\ Pending = <<>>
<1>1. pc = "scan" /\ ~dead /\ ~suspendReq /\ i < len
  BY DEF Scanning
<1>2. /\ ~finished /\ ~suspended /\ i \in Nat /\ len \in Nat
      /\ scanBase + len = scanned
      /\ \/ regOpen /\ rs \in 0..i
         \/ ~regOpen /\ rs = -1
  BY <1>1 DEF IInv, PlaceOK
<1>3. scanned \in Nat /\ held \in Nat /\ scanBase \in Nat /\ scanned + held <= MaxIn
  BY DEF IInv, HeldOK
<1>4. ~regOpen => Pending = <<>>
  BY DEF Pending
<1> QED
  BY <1>1, <1>2, <1>3, <1>4, StreamAssumption

LEMMA OutsideRootByteStep ==
    ASSUME IInv, OutsideRootByte
    PROVE  IInv' /\ Advances
<1> USE DEF OutsideRootByte
<1>1. /\ pc = "scan" /\ ~dead /\ ~suspendReq /\ ~finished
      /\ i \in Nat /\ i < len
  BY ScanningFacts
<1>2. ~regOpen
  BY DEF IInv, RootOK
<1>3. Pending = <<>> /\ Pending' = <<>>
  BY <1>2 DEF Pending, regVars
<1>4. OutputSound'
  BY DEF IInv, OutputSound, outVars, callVars, chunkVars
<1>5. OutputComplete'
  BY <1>3 DEF IInv, OutputComplete, outVars
<1>6. FlagsOK'
  BY ZenonT(60) DEF IInv, FlagsOK, outVars, callVars, regVars
<1>7. RootOK' /\ HeldOK'
  BY DEF IInv, RootOK, HeldOK, outVars, callVars, chunkVars, regVars
<1>8. PlaceOK'
  BY <1>1, <1>2 DEF IInv, PlaceOK, outVars, callVars, chunkVars, regVars
<1>9. Advances
  <2>1. want \in Seq(Int) /\ w.sent \in Seq(Int)
    BY DEF IInv, OutputComplete, OutputSound, WellFormed, Writers
  <2> QED
    BY <1>1, <2>1, ContinuesItself DEF Advances, outVars, callVars
<1> QED
  BY <1>4, <1>5, <1>6, <1>7, <1>8, <1>9 DEF IInv

LEMMA RootStep ==
    ASSUME IInv, Root
    PROVE  IInv' /\ Advances
<1> DEFINE u == IF lead THEN <<LeadUnit>> ELSE <<>>
           v == append(w, u)
           f == Wanting([Now EXCEPT !.w = v], u)
<1> USE DEF Root
<1>1. /\ pc = "scan" /\ ~dead /\ ~suspendReq /\ ~finished /\ ~suspended
      /\ i \in Nat /\ i < len
  BY ScanningFacts
<1>2. ~regOpen /\ ~rootDone /\ ~w.opened /\ rs = -1 /\ Pending = <<>>
  BY ScanningFacts DEF IInv, RootOK
<1>3. Pending' = <<>>
  BY <1>2 DEF Pending
<1>4. Sound(Now) /\ Complete(Now) /\ Now.w = w /\ Now.suspendReq = suspendReq
  BY <1>1, <1>2, NowFacts
<1>5. u \in Seq(Int)
  BY Concat DEF LeadUnit
<1>6. /\ WellFormed(w, MaxIn) /\ OpenHasChild(w) /\ (w.virt => w.vp = scanBase)
      /\ MaxIn \in Nat
  BY <1>1, StreamAssumption DEF IInv, OutputSound
<1>7. /\ Writes(v, w, u, MaxIn) /\ v.virt = w.virt /\ v.opened = w.opened
      /\ v.n = w.n /\ v.vp = w.vp
  <2> HIDE DEF u
  <2> QED
    BY <1>2, <1>5, <1>6, AppendFacts
<1>8. OpenHasChild(v) /\ (v.virt => v.vp = scanBase)
  BY <1>6, <1>7 DEF OpenHasChild
<1> HIDE DEF u, v
<1>9. /\ Sound(f) /\ Complete(f) /\ Follows(f, Now)
      /\ f.w = v /\ f.suspendReq = Now.suspendReq
  BY <1>4, <1>5, <1>7, <1>8, WritingFacts DEF OpenHasChild
<1>10. Becomes(f)
  BY DEF u, v
<1> HIDE DEF f
<1>11. /\ OutputSound' /\ OutputComplete' /\ Advances
       /\ committed' \in BOOLEAN /\ dead' \in BOOLEAN
       /\ suspendReq' \in BOOLEAN
  BY <1>1, <1>3, <1>9, <1>10, CompleteStep DEF callVars, chunkVars
<1>12. FlagsOK'
  BY <1>11 DEF IInv, FlagsOK, callVars
<1>13. ~suspendReq' /\ ~w'.opened
  BY <1>1, <1>2, <1>4, <1>7, <1>9, <1>10 DEF Becomes
<1>14. RootOK' /\ HeldOK'
  BY <1>2, <1>13 DEF IInv, RootOK, HeldOK, callVars, chunkVars
<1>15. PlaceOK'
  BY <1>1, <1>2 DEF IInv, PlaceOK, callVars, chunkVars
<1> QED
  BY <1>11, <1>12, <1>14, <1>15 DEF IInv

\* A callback that runs when no region is open.
LEMMA CallbackFacts ==
    ASSUME NEW cb, UsedAsDocumented, IInv, ~dead, ~finished, ~suspendReq,
           Pending = <<>>, MayCall(cb)
    PROVE  LET f == Hook(cb, Now) IN
           /\ Sound(f) /\ Complete(f) /\ Follows(f, Now)
           /\ f.dead <=> cb = "bail"
           /\ f.suspendReq <=> cb = "suspend"
           /\ ~w.virt => ~f.w.virt
<1>1. /\ Sound(Now) /\ Complete(Now) /\ Now.w = w /\ Now.dead = dead
      /\ Now.suspendReq = suspendReq
  BY NowFacts
<1>2. sink \in BOOLEAN /\ gens \in Nat /\ cb \in Callbacks
  BY DEF IInv, FlagsOK, MayCall
<1>3. LET f == Hook(cb, Now) IN
      /\ Sound(f) /\ Complete(f) /\ Follows(f, Now)
      /\ f.dead <=> Now.dead \/ cb = "bail"
      /\ f.suspendReq <=> Now.suspendReq \/ cb = "suspend"
      /\ ~Now.w.virt => ~f.w.virt
  BY <1>1, <1>2, HookFacts
<1> QED
  BY <1>1, <1>3

LEMMA FrameByteStep ==
    ASSUME NEW cb, UsedAsDocumented, IInv, FrameByte(cb) \/ RootClose(cb)
    PROVE  IInv' /\ Advances
<1> DEFINE f == Hook(cb, Now)
<1>1. /\ InFrame /\ MayCall(cb) /\ Becomes(f) /\ Generated(cb)
      /\ i' = i + 1
      /\ pc' = pc /\ rs' = rs /\ lead' = lead /\ tail' = tail
      /\ rootSeen' = rootSeen
      /\ regOpen' = regOpen /\ regT' = regT /\ regInner' = regInner
      /\ UNCHANGED <<callVars, chunkVars>>
      /\ rootDone' \in BOOLEAN /\ ready' \in BOOLEAN
  <2> rootDone \in BOOLEAN /\ ready \in BOOLEAN
    BY DEF IInv, FlagsOK
  <2>1. CASE FrameByte(cb)
    BY <2>1 DEF FrameByte, rootVars
  <2>2. CASE RootClose(cb)
    BY <2>2 DEF RootClose, regVars
  <2> QED
    BY <2>1, <2>2
<1>2. Scanning /\ rootSeen /\ ~regOpen
  BY <1>1 DEF InFrame
<1>3. /\ pc = "scan" /\ ~dead /\ ~suspendReq /\ ~finished /\ ~suspended
      /\ i \in Nat /\ i < len /\ rs = -1 /\ Pending = <<>>
  BY <1>2, ScanningFacts
<1>4. Pending' = <<>>
  BY <1>1, <1>2 DEF Pending
<1>5. Sound(f) /\ Complete(f) /\ Follows(f, Now)
  BY <1>1, <1>3, CallbackFacts
<1> HIDE DEF f
<1>6. /\ OutputSound' /\ OutputComplete' /\ Advances
      /\ committed' \in BOOLEAN /\ dead' \in BOOLEAN
      /\ suspendReq' \in BOOLEAN
      /\ w.opened => w'.opened
  BY <1>1, <1>3, <1>4, <1>5, CompleteStep DEF callVars, chunkVars
<1>7. gens' \in 0..MaxGen
  BY <1>1, GeneratedFacts DEF IInv, FlagsOK
<1>8. FlagsOK'
  BY <1>1, <1>6, <1>7 DEF IInv, FlagsOK, callVars
<1>9. RootOK' /\ HeldOK'
  BY <1>1, <1>2 DEF IInv, RootOK, HeldOK, callVars, chunkVars
<1>10. PlaceOK'
  BY <1>1, <1>2, <1>3 DEF IInv, PlaceOK, callVars, chunkVars
<1> QED
  BY <1>6, <1>8, <1>9, <1>10 DEF IInv

\* A byte is wanted that the loop carries.
LEMMA WantingFacts ==
    ASSUME NEW e, NEW u \in Seq(Int), Sound(e)
    PROVE  LET f == Wanting(e, u) IN
           /\ Sound(f) /\ Follows(f, e)
           /\ f.w = e.w /\ f.committed = e.committed /\ f.dead = e.dead
           /\ f.suspendReq = e.suspendReq /\ f.want = e.want \o u
<1> DEFINE f == Wanting(e, u)
<1>1. e \in Effects /\ e.want \in Seq(Int) /\ e.w.sent \in Seq(Int)
  BY DEF Sound, Effects, Writers
<1>2. e.want \o u \in Seq(Int)
  BY <1>1, Concat
<1>3. /\ f \in Effects /\ f.w = e.w /\ f.committed = e.committed
      /\ f.dead = e.dead /\ f.suspendReq = e.suspendReq /\ f.want = e.want \o u
  BY <1>1, <1>2 DEF Effects, Wanting
<1>4. Sound(f)
  BY <1>3 DEF Sound
<1>5. Follows(f, e)
  BY <1>1, <1>3, ContinuesItself DEF Follows, Continues
<1> QED
  BY <1>3, <1>4, <1>5

LEMMA OneByte ==
    ASSUME NEW a \in Nat
    PROVE  Bytes(a, a + 1) = <<a>> /\ <<a>> \in Seq(Int)
<1>1. (a + 1) - a = 1
  OBVIOUS
<1>2. Bytes(a, a + 1) = [k \in 1..1 |-> a + k - 1]
  BY <1>1 DEF Bytes
<1>3. <<a>> = [k \in 1..1 |-> a]
  OBVIOUS
<1>4. [k \in 1..1 |-> a + k - 1] = [k \in 1..1 |-> a]
  OBVIOUS
<1> QED
  BY <1>2, <1>3, <1>4

LEMMA RegionByteStep ==
    ASSUME IInv, RegionByte
    PROVE  IInv' /\ Advances
<1> DEFINE b == <<scanBase + i>>
           f == IF Emits(regT) THEN Wanting(Now, b) ELSE Now
           c == Pending \o (IF Emits(regT) THEN b ELSE <<>>)
<1> USE DEF RegionByte
<1>1. /\ pc = "scan" /\ ~dead /\ ~suspendReq /\ ~finished /\ ~suspended
      /\ i \in 0..MaxIn /\ i < len /\ scanBase \in 0..MaxIn
      /\ i + 1 \in 0..MaxIn /\ rs \in 0..MaxIn /\ rs <= i
  BY ScanningFacts
<1>2. /\ Sound(Now) /\ Now.w = w /\ Now.want = want /\ Now.committed = committed
      /\ Now.dead = dead /\ Now.suspendReq = suspendReq /\ Now \in Effects
  BY <1>1, NowFacts DEF Sound
<1>3. Pending = Emitted(rs, i) /\ Pending' = Emitted(rs, i + 1)
  BY <1>1 DEF Pending, Emitted, chunkVars, regVars
<1>4. Emitted(i, i + 1) = IF Emits(regT) THEN b ELSE <<>>
  <2>1. scanBase + i \in Nat /\ scanBase + (i + 1) = (scanBase + i) + 1
    BY <1>1
  <2> QED
    BY <2>1, OneByte DEF Emitted
<1>5. b \in Seq(Int)
  BY <1>1
<1> HIDE DEF b
<1>6. Pending' = c /\ Pending \in Seq(Int) /\ c \in Seq(Int)
  <2>1. Pending \in Seq(Int)
    BY <1>1, <1>3, EmittedFacts
  <2>2. Emitted(rs, i + 1) \in Seq(Int)
    BY <1>1, EmittedFacts
  <2>3. Emitted(rs, i) \o Emitted(i, i + 1) = Emitted(rs, i + 1)
    BY <1>1, EmittedConcat, SMTT(40)
  <2> QED
    BY <1>3, <1>4, <2>1, <2>2, <2>3
<1>7. w \in Writers(MaxIn) /\ Content(w) \in Seq(Int) /\ want \in Seq(Int)
  <2>1. w \in Writers(MaxIn) /\ want \in Seq(Int)
    BY <1>2 DEF Effects
  <2> QED
    BY <2>1, StreamAssumption, ContentFacts
<1>8. /\ Sound(f) /\ Follows(f, Now) /\ f.w = w /\ f.suspendReq = suspendReq
      /\ f.want = want \o (IF Emits(regT) THEN b ELSE <<>>)
  <2>1. CASE Emits(regT)
    BY <1>2, <1>5, <2>1, WantingFacts
  <2>2. CASE ~Emits(regT)
    BY <1>2, <1>7, <2>2, FollowsItself, Concat
  <2> QED
    BY <2>1, <2>2
<1>9. Content(f.w) \o c = f.want
  <2> DEFINE u == IF Emits(regT) THEN b ELSE <<>>
  <2>1. u \in Seq(Int)
    BY <1>5, Concat
  <2> HIDE DEF u
  <2>2. (Content(w) \o Pending) \o u = Content(w) \o (Pending \o u)
    BY <1>6, <1>7, <2>1, Assoc, ZenonT(60)
  <2>3. Content(w) \o Pending = want
    BY <1>1 DEF IInv, OutputComplete
  <2> QED
    BY <1>8, <2>2, <2>3 DEF u
<1>10. Becomes(f)
  BY DEF b
<1> HIDE DEF f, c
<1>11. /\ OutputSound' /\ OutputComplete' /\ Advances
       /\ committed' \in BOOLEAN /\ dead' \in BOOLEAN
       /\ suspendReq' \in BOOLEAN
       /\ w.opened => w'.opened
  BY <1>1, <1>6, <1>8, <1>9, <1>10, CarryStep DEF callVars, chunkVars
<1>12. FlagsOK'
  BY <1>11 DEF IInv, FlagsOK, callVars, rootVars, regVars
<1>13. ~suspendReq'
  BY <1>1, <1>8, <1>10 DEF Becomes
<1>14. RootOK' /\ HeldOK'
  <2>1. rootSeen
    BY DEF IInv, RootOK
  <2> QED
    BY <1>11, <2>1 DEF IInv, RootOK, HeldOK, callVars, chunkVars, rootVars, regVars
<1>15. PlaceOK'
  <2>1. rs \in 0..i + 1
    BY <1>1
  <2> QED
    BY <1>1, <1>13, <2>1 DEF IInv, PlaceOK, callVars, chunkVars, regVars
<1> QED
  BY <1>11, <1>12, <1>14, <1>15 DEF IInv

\* A value's key is written: the level is open from here on.
LEMMA KeyFacts ==
    ASSUME NEW e, NEW u \in Seq(Int), Sound(e), Complete(e)
    PROVE  LET f == Wanting([e EXCEPT !.w = KeyRawAt(e.w, u)], OpenIfNeeded(e) \o u) IN
           /\ Sound(f) /\ Complete(f) /\ Follows(f, e)
           /\ f.w.opened /\ f.dead = e.dead /\ f.suspendReq = e.suspendReq
<1> DEFINE k == KeyRawAt(e.w, u)
           r == OpenIfNeeded(e) \o u
           f == Wanting([e EXCEPT !.w = k], r)
<1>1. WellFormed(e.w, MaxIn) /\ OpenHasChild(e.w) /\ MaxIn \in Nat
  BY StreamAssumption DEF Sound
<1>2. OpenIfNeeded(e) = Opening(e.w)
  BY DEF OpenIfNeeded, Opening
<1>3. /\ Writes(k, e.w, Opening(e.w) \o u, MaxIn) /\ k.opened = TRUE /\ k.n = 1
      /\ k.virt = FALSE
  BY <1>1, KeyRawAtFacts DEF OpenHasChild
<1>4. Opening(e.w) \in Seq(Int)
  BY <1>1, EnsureOpenFacts
<1>5. r \in Seq(Int)
  BY <1>2, <1>4, Concat
<1>6. Writes(k, e.w, r, MaxIn)
  BY <1>2, <1>3
<1>7. OpenHasChild(k) /\ (k.virt => k.vp = scanBase) /\ (e.w.opened => k.opened)
  BY <1>3 DEF OpenHasChild
<1> HIDE DEF k, r
<1>8. /\ Sound(f) /\ Complete(f) /\ Follows(f, e)
      /\ f.w = k /\ f.dead = e.dead /\ f.suspendReq = e.suspendReq
  BY <1>5, <1>6, <1>7, WritingFacts DEF OpenHasChild
<1> QED
  BY <1>3, <1>8 DEF k, r

\* A hook that bails at a value: no region opens.
LEMMA ValueBailStep ==
    ASSUME NEW target \in Targets, NEW inner \in BOOLEAN, UsedAsDocumented, IInv,
           ValueStart(target, inner, "bail")
    PROVE  IInv' /\ Advances
<1> DEFINE f == Hook("bail", Now)
<1>1. /\ InFrame /\ MayCall("bail") /\ Becomes(f)
      /\ UNCHANGED <<regVars, posVars, gens, pc, callVars, chunkVars, rootVars>>
  BY DEF ValueStart
<1>2. Scanning /\ rootSeen /\ ~regOpen
  BY <1>1 DEF InFrame
<1>3. /\ pc = "scan" /\ ~dead /\ ~suspendReq /\ ~finished /\ ~suspended
      /\ Pending = <<>>
  BY <1>2, ScanningFacts
<1>4. Pending' = <<>>
  BY <1>1, <1>2 DEF Pending, regVars
<1>5. Sound(f) /\ Complete(f) /\ Follows(f, Now) /\ (f.suspendReq <=> FALSE)
  BY <1>1, <1>3, CallbackFacts
<1> HIDE DEF f
<1>6. /\ OutputSound' /\ OutputComplete' /\ Advances
      /\ committed' \in BOOLEAN /\ dead' \in BOOLEAN
      /\ suspendReq' \in BOOLEAN
      /\ w.opened => w'.opened
  BY <1>1, <1>3, <1>4, <1>5, CompleteStep DEF callVars, chunkVars
<1>7. FlagsOK'
  BY <1>1, <1>6 DEF IInv, FlagsOK, callVars, rootVars, regVars
<1>8. RootOK' /\ HeldOK'
  BY <1>1, <1>2, <1>6 DEF IInv, RootOK, HeldOK, callVars, chunkVars, rootVars, regVars
<1>9. PlaceOK'
  BY <1>1, <1>2, <1>3 DEF IInv, PlaceOK, callVars, chunkVars, posVars, regVars
<1> QED
  BY <1>6, <1>7, <1>8, <1>9 DEF IInv

LEMMA ValueStartStep ==
    ASSUME NEW target \in Targets, NEW inner \in BOOLEAN, NEW cb,
           UsedAsDocumented, IInv, ValueStart(target, inner, cb), cb # "bail"
    PROVE  IInv' /\ Advances
<1> DEFINE unit   == <<KeyUnit(scanBase + i)>>
           called == Hook(cb, Now)
           opened == IF ~Emits(target) THEN called
                     ELSE Wanting([called EXCEPT !.w = KeyRawAt(called.w, unit)],
                                  OpenIfNeeded(called) \o unit)
           b      == <<scanBase + i>>
           f      == IF Emits(target) /\ ~inner THEN Wanting(opened, b) ELSE opened
           c      == IF Emits(target) /\ ~inner THEN b ELSE <<>>
<1>1. /\ InFrame /\ MayCall(cb) /\ Becomes(f) /\ Generated(cb)
      /\ cb # "suspend"
      /\ inner => target = "rtOut"
      /\ regOpen' = TRUE /\ regT' = target /\ regInner' = inner /\ ready' = FALSE
      /\ rs' = (IF inner THEN i + 1 ELSE i) /\ i' = i + 1
      /\ UNCHANGED <<pc, callVars, chunkVars, rootVars>>
  BY DEF ValueStart, UsedAsDocumented
<1>2. Scanning /\ rootSeen /\ ~regOpen /\ ~rootDone
  BY <1>1 DEF InFrame
<1>3. /\ pc = "scan" /\ ~dead /\ ~suspendReq /\ ~finished /\ ~suspended
      /\ Pending = <<>> /\ i \in Nat /\ i + 1 <= len /\ scanBase \in 0..MaxIn
      /\ i \in 0..MaxIn /\ i + 1 \in 0..MaxIn
  BY <1>2, ScanningFacts
<1>4. /\ Sound(called) /\ Complete(called) /\ Follows(called, Now)
      /\ ~called.dead /\ ~called.suspendReq
  BY <1>1, <1>3, CallbackFacts
<1>5. unit \in Seq(Int) /\ b \in Seq(Int) /\ c \in Seq(Int)
  <2>1. unit \in Seq(Int) /\ b \in Seq(Int)
    BY <1>3 DEF KeyUnit
  <2> QED
    BY <2>1, Concat
<1> HIDE DEF called, unit, b
<1>6. /\ Sound(opened) /\ Complete(opened) /\ Follows(opened, Now)
      /\ ~opened.suspendReq
      /\ Emits(target) => opened.w.opened
  <2>1. CASE Emits(target)
    <3>1. /\ Sound(opened) /\ Complete(opened) /\ Follows(opened, called)
          /\ opened.w.opened /\ opened.suspendReq = called.suspendReq
      BY <1>4, <1>5, <2>1, KeyFacts
    <3>2. opened \in Effects /\ called \in Effects /\ Now \in Effects
      BY <1>3, <1>4, <3>1, NowFacts DEF Sound
    <3> HIDE DEF opened
    <3>3. Follows(opened, Now)
      BY <1>4, <3>1, <3>2, FollowsTransitive
    <3> QED
      BY <1>4, <3>1, <3>3
  <2>2. CASE ~Emits(target)
    BY <1>4, <2>2
  <2> QED
    BY <2>1, <2>2
<1> HIDE DEF opened
<1>7. opened \in Effects /\ Now \in Effects /\ opened.w \in Writers(MaxIn)
  BY <1>3, <1>6, NowFacts DEF Sound, Effects
<1>8. Content(opened.w) \in Seq(Int) /\ Content(opened.w) = opened.want
  BY <1>6, <1>7, StreamAssumption, ContentFacts DEF Complete
<1>9. /\ Sound(f) /\ Follows(f, Now) /\ f.w = opened.w /\ ~f.suspendReq
      /\ Content(f.w) \o c = f.want
  <2>1. CASE Emits(target) /\ ~inner
    <3>1. f = Wanting(opened, b) /\ c = b
      BY <2>1
    <3> HIDE DEF f, c
    <3>2. /\ Sound(f) /\ Follows(f, opened) /\ f.w = opened.w
          /\ f.suspendReq = opened.suspendReq /\ f.want = opened.want \o b
      BY <1>5, <1>6, <3>1, WantingFacts
    <3>3. f \in Effects
      BY <3>2 DEF Sound
    <3>4. Follows(f, Now)
      BY <1>6, <1>7, <3>2, <3>3, FollowsTransitive
    <3> QED
      BY <1>6, <1>8, <3>1, <3>2, <3>4
  <2>2. CASE ~(Emits(target) /\ ~inner)
    <3>1. f = opened /\ c = <<>>
      BY <2>2
    <3> QED
      BY <1>6, <1>8, <3>1, Concat
  <2> QED
    BY <2>1, <2>2
<1>10. Pending' = c
  <2>1. CASE ~Emits(target)
    BY <1>1, <2>1 DEF Pending
  <2>2. CASE Emits(target) /\ inner
    <3>1. /\ pc' = "scan" /\ rs' = i + 1 /\ i' = i + 1 /\ scanBase' = scanBase
          /\ scanBase + (i + 1) \in Nat
      BY <1>1, <1>3, <2>2 DEF chunkVars
    <3>2. Pending' = Bytes(scanBase + (i + 1), scanBase + (i + 1))
      BY <1>1, <1>3, <2>2, <3>1 DEF Pending
    <3> QED
      BY <2>2, <3>1, <3>2, BytesFacts
  <2>3. CASE Emits(target) /\ ~inner
    <3>1. /\ pc' = "scan" /\ rs' = i /\ i' = i + 1 /\ scanBase' = scanBase
          /\ scanBase + i \in Nat /\ scanBase + (i + 1) = (scanBase + i) + 1
      BY <1>1, <1>3, <2>3 DEF chunkVars
    <3>2. Pending' = Bytes(scanBase + i, (scanBase + i) + 1)
      BY <1>1, <1>3, <2>3, <3>1 DEF Pending
    <3>3. Pending' = b
      BY <3>1, <3>2, OneByte DEF b
    <3> QED
      BY <2>3, <3>3
  <2> QED
    BY <2>1, <2>2, <2>3
<1> HIDE DEF f, c
<1>11. /\ OutputSound' /\ OutputComplete' /\ Advances
       /\ committed' \in BOOLEAN /\ dead' \in BOOLEAN
       /\ suspendReq' \in BOOLEAN
  BY <1>1, <1>3, <1>5, <1>9, <1>10, CarryStep DEF callVars, chunkVars
<1>12. ~suspendReq' /\ (Emits(target) => w'.opened)
  BY <1>1, <1>6, <1>9 DEF Becomes
<1>13. gens' \in 0..MaxGen
  BY <1>1, GeneratedFacts DEF IInv, FlagsOK
<1>14. FlagsOK'
  BY <1>1, <1>11, <1>13 DEF IInv, FlagsOK, callVars, rootVars
<1>15. RootOK' /\ HeldOK'
  BY <1>1, <1>2, <1>12 DEF IInv, RootOK, HeldOK, callVars, chunkVars, rootVars
<1>16. PlaceOK'
  <2>1. rs' \in 0..i'
    BY <1>1, <1>3
  <2>2. i' \in Nat /\ i' <= len
    BY <1>1, <1>3
  <2> QED
    BY <1>1, <1>3, <1>12, <2>1, <2>2 DEF IInv, PlaceOK, callVars, chunkVars
<1> QED
  BY <1>11, <1>14, <1>15, <1>16 DEF IInv

\* Once the run of a region is flushed up to end, and the byte that ended it
\* is wanted if it belongs to it, nothing is carried.
LEMMA FlushedFacts ==
    ASSUME NEW end \in 0..MaxIn, NEW b \in BOOLEAN, IInv, Scanning, regOpen,
           end = IF b THEN i + 1 ELSE i
    PROVE  LET f == IF b /\ Emits(regT)
                    THEN Wanting(flush(Now, end), <<scanBase + i>>)
                    ELSE flush(Now, end) IN
           /\ Sound(f) /\ Complete(f) /\ Follows(f, Now)
           /\ ~f.dead /\ ~f.suspendReq
<1> DEFINE g == flush(Now, end)
           u == <<scanBase + i>>
           f == IF b /\ Emits(regT) THEN Wanting(g, u) ELSE g
<1>1. /\ pc = "scan" /\ ~dead /\ ~suspendReq /\ ~finished
      /\ i \in 0..MaxIn /\ scanBase \in 0..MaxIn /\ i + 1 \in 0..MaxIn
      /\ rs \in 0..MaxIn /\ rs <= i
  BY ScanningFacts
<1>2. /\ Sound(Now) /\ Now.w = w /\ Now.want = want /\ Now.dead = dead
      /\ Now.suspendReq = suspendReq /\ Now \in Effects
  BY <1>1, NowFacts DEF Sound
<1>3. MayEmit(Now)
  BY <1>1, <1>2 DEF MayEmit, IInv, FlagsOK, RootOK
<1>4. rs <= end
  BY <1>1
<1>5. Passes(g, Now, Emitted(rs, end))
  BY <1>1, <1>2, <1>3, <1>4, FlushFacts
<1> HIDE DEF g
<1>6. Pending = Emitted(rs, i)
  BY <1>1 DEF Pending, Emitted
<1>7. /\ w \in Writers(MaxIn) /\ Content(w) \in Seq(Int) /\ want \in Seq(Int)
      /\ g \in Effects
  <2>1. w \in Writers(MaxIn) /\ want \in Seq(Int)
    BY <1>2 DEF Effects
  <2>2. g \in Effects
    BY <1>5 DEF Passes, Sound
  <2> QED
    BY <2>1, <2>2, StreamAssumption, ContentFacts
<1>8. Content(w) \o Emitted(rs, i) = want
  BY <1>1, <1>6 DEF IInv, OutputComplete
<1>9. /\ Content(g.w) = Content(w) \o Emitted(rs, end) /\ g.want = want
      /\ g.dead = dead /\ g.suspendReq = suspendReq /\ Sound(g)
  BY <1>2, <1>5 DEF Passes
<1>10. Follows(g, Now)
  BY <1>2, <1>5, <1>7, ContinuesItself DEF Passes, Follows
<1>11. CASE b /\ Emits(regT)
  <2>1. u \in Seq(Int) /\ Emitted(i, i + 1) = u
    <3>1. scanBase + i \in Nat /\ scanBase + (i + 1) = (scanBase + i) + 1
      BY <1>1
    <3> QED
      BY <1>11, <3>1, OneByte DEF Emitted
  <2> HIDE DEF u
  <2>2. /\ Sound(f) /\ Follows(f, g) /\ f.w = g.w /\ f.dead = g.dead
        /\ f.suspendReq = g.suspendReq /\ f.want = g.want \o u
    BY <1>9, <1>11, <2>1, WantingFacts
  <2>3. Emitted(rs, end) = Emitted(rs, i) \o u
    <3>1. end = i + 1 /\ i <= i + 1
      BY <1>1, <1>11
    <3>2. Emitted(rs, i) \o Emitted(i, i + 1) = Emitted(rs, i + 1)
      BY <1>1, <3>1, EmittedConcat
    <3> QED
      BY <2>1, <3>1, <3>2
  <2>4. Emitted(rs, i) \in Seq(Int)
    BY <1>1, EmittedFacts
  <2>5. (Content(w) \o Emitted(rs, i)) \o u = Content(w) \o (Emitted(rs, i) \o u)
    BY <1>7, <2>1, <2>4, Assoc, ZenonT(60)
  <2>6. Complete(f)
    BY <1>8, <1>9, <2>2, <2>3, <2>5 DEF Complete
  <2>7. Follows(f, Now)
    <3>1. f \in Effects
      BY <2>2 DEF Sound
    <3> HIDE DEF f
    <3> QED
      BY <1>2, <1>7, <1>10, <2>2, <3>1, FollowsTransitive
  <2> QED
    BY <1>1, <1>9, <2>2, <2>6, <2>7 DEF u, g
<1>12. CASE ~(b /\ Emits(regT))
  <2>1. Emitted(rs, end) = Emitted(rs, i)
    <3>1. CASE ~Emits(regT)
      BY <3>1 DEF Emitted
    <3>2. CASE ~b
      BY <3>2
    <3> QED
      BY <1>12, <3>1, <3>2
  <2>2. Complete(g)
    BY <1>8, <1>9, <2>1 DEF Complete
  <2> QED
    BY <1>1, <1>9, <1>10, <1>12, <2>2 DEF g
<1> QED
  BY <1>11, <1>12 DEF g

LEMMA RegionEndStep ==
    ASSUME NEW how \in {"with", "before", "inside"}, NEW cb,
           UsedAsDocumented, IInv, RegionEnd(how, cb)
    PROVE  IInv' /\ Advances
<1> DEFINE with    == how = "with"
           end     == IF with THEN i + 1 ELSE i
           emitted == flush(Now, end)
           wanted  == IF with /\ Emits(regT)
                      THEN Wanting(emitted, <<scanBase + i>>) ELSE emitted
           f       == Hook(cb, wanted)
<1>1. /\ Scanning /\ regOpen /\ MayCall(cb) /\ Becomes(f) /\ Generated(cb)
      /\ regOpen' = FALSE /\ rs' = -1
      /\ i' = (IF how = "before" THEN i ELSE i + 1)
      /\ ready' = ready /\ regT' = regT /\ regInner' = regInner
      /\ UNCHANGED <<pc, callVars, chunkVars, rootVars>>
  BY DEF RegionEnd
<1>2. /\ pc = "scan" /\ ~dead /\ ~suspendReq /\ ~finished /\ ~suspended
      /\ i \in 0..MaxIn /\ i + 1 \in 0..MaxIn /\ i + 1 <= len /\ len \in Nat
  BY <1>1, ScanningFacts
<1>3. Pending' = <<>>
  BY <1>1 DEF Pending
<1>4. end \in 0..MaxIn /\ with \in BOOLEAN
  BY <1>2
<1>5. /\ Sound(wanted) /\ Complete(wanted) /\ Follows(wanted, Now)
      /\ ~wanted.dead /\ ~wanted.suspendReq
  <2> HIDE DEF with
  <2>1. end = IF with THEN i + 1 ELSE i
    OBVIOUS
  <2> HIDE DEF end
  <2> QED
    BY <1>1, <1>4, <2>1, FlushedFacts
<1>6. sink \in BOOLEAN /\ gens \in Nat /\ cb \in Callbacks
  BY <1>1 DEF IInv, FlagsOK, MayCall
<1> HIDE DEF wanted
<1>7. Sound(f) /\ Complete(f) /\ Follows(f, wanted)
  BY <1>5, <1>6, HookFacts
<1> HIDE DEF f
<1>8. f \in Effects /\ wanted \in Effects /\ Now \in Effects
  BY <1>2, <1>5, <1>7, NowFacts DEF Sound
<1>9. Follows(f, Now)
  BY <1>5, <1>7, <1>8, FollowsTransitive
<1>10. /\ OutputSound' /\ OutputComplete' /\ Advances
       /\ committed' \in BOOLEAN /\ dead' \in BOOLEAN
       /\ suspendReq' \in BOOLEAN
       /\ w.opened => w'.opened
  BY <1>1, <1>2, <1>3, <1>7, <1>9, CompleteStep DEF callVars, chunkVars
<1>11. gens' \in 0..MaxGen
  BY <1>1, GeneratedFacts DEF IInv, FlagsOK
<1>12. FlagsOK'
  BY <1>1, <1>10, <1>11 DEF IInv, FlagsOK, callVars, rootVars
<1>13. RootOK' /\ HeldOK'
  <2>1. rootSeen
    BY <1>1 DEF IInv, RootOK
  <2> QED
    BY <1>1, <2>1 DEF IInv, RootOK, HeldOK, callVars, chunkVars, rootVars
<1>14. PlaceOK'
  <2>1. i' \in Nat /\ i' <= len
    BY <1>1, <1>2
  <2> QED
    BY <1>1, <1>2, <2>1 DEF IInv, PlaceOK, callVars, chunkVars
<1> QED
  BY <1>10, <1>12, <1>13, <1>14 DEF IInv

\* Before the commit point no run is held: there is nothing to let go of.
LEMMA UncommittedFacts ==
    ASSUME NEW e, Sound(e), ~e.committed
    PROVE  Run(e.w) = <<>>
<1>1. WellFormed(e.w, MaxIn) /\ e.w \in Writers(MaxIn) /\ e.w.sent = <<>>
  BY DEF Sound, WellFormed
<1>2. ~e.w.virt \/ e.w.vlen <= e.w.vfrom
  BY <1>1 DEF WellFormed, Writers
<1> QED
  BY <1>1, <1>2, StreamAssumption, ContentFacts

LEMMA LettingGoFacts ==
    ASSUME NEW e, Sound(e)
    PROVE  LET f == [e EXCEPT !.w = release(e.w)] IN
           /\ Sound(f)
           /\ f.committed = e.committed /\ f.dead = e.dead
           /\ f.suspendReq = e.suspendReq /\ f.want = e.want
           /\ ~f.w.virt /\ f.w.sent = e.w.sent /\ f.w.buf = e.w.buf
           /\ f.w.opened = e.w.opened
           /\ Run(e.w) = <<>> => Content(f.w) = Content(e.w)
<1> DEFINE v == release(e.w)
           f == [e EXCEPT !.w = v]
<1>1. e \in Effects /\ WellFormed(e.w, MaxIn) /\ MaxIn \in Nat
  BY StreamAssumption DEF Sound
<1>2. /\ WellFormed(v, MaxIn) /\ v.sent = e.w.sent /\ v.buf = e.w.buf
      /\ v.virt = FALSE /\ v.opened = e.w.opened /\ v.n = e.w.n
      /\ v.flushRun = e.w.flushRun
  BY <1>1, ReleaseShape
<1>3. Run(e.w) = <<>> => Content(v) = Content(e.w)
  BY <1>1, ReleaseFacts DEF HandsOver
<1>4. v \in Writers(MaxIn)
  BY <1>2 DEF WellFormed
<1> HIDE DEF v
<1>5. /\ f \in Effects /\ f.w = v /\ f.committed = e.committed
      /\ f.dead = e.dead /\ f.suspendReq = e.suspendReq /\ f.want = e.want
  BY <1>1, <1>4 DEF Effects
<1>6. OpenHasChild(v)
  BY <1>2 DEF Sound, OpenHasChild
<1>7. Sound(f)
  BY <1>2, <1>5, <1>6 DEF Sound
<1> QED
  BY <1>2, <1>3, <1>5, <1>7 DEF v

\* The end of Write for one that lives: everything read is in the output, and
\* with a sink the final part of it has been handed over.
LEMMA HandOverFacts ==
    ASSUME NEW e, Sound(e), Complete(e), ~e.dead, ~dead
    PROVE  LET f == [e EXCEPT !.w = release(HandOver(e))] IN
           /\ Sound(f) /\ Complete(f) /\ Follows(f, e)
           /\ f.committed = e.committed /\ f.dead = e.dead /\ ~f.w.virt
           /\ f.want = e.want /\ f.w.opened = e.w.opened
<1> DEFINE f == [e EXCEPT !.w = release(HandOver(e))]
<1>1. /\ e \in Effects /\ WellFormed(e.w, MaxIn) /\ MaxIn \in Nat
      /\ (e.w.virt => e.w.vp = scanBase)
      /\ e.want \in Seq(Int) /\ e.w.sent \in Seq(Int)
  BY StreamAssumption DEF Sound, Effects, Writers
<1>2. CASE e.committed
  <2> DEFINE d == drain(e.w)
             g == [e EXCEPT !.w = d]
  <2>1. /\ HandsOver(d, e.w, MaxIn) /\ Run(d) = <<>> /\ d.virt = e.w.virt
        /\ d.vp = e.w.vp
    BY <1>1, DrainFacts
  <2>2. HandOver(e) = d
    BY <1>2 DEF HandOver
  <2> HIDE DEF d
  <2>3. /\ Sound(g) /\ Follows(g, e) /\ g.w = d /\ g.committed = e.committed
        /\ g.dead = e.dead /\ g.want = e.want
    <3>1. d.virt => d.vp = scanBase
      BY <1>1, <2>1
    <3> QED
      BY <1>2, <2>1, <3>1, HandingFacts
  <2>4. f = [g EXCEPT !.w = release(g.w)]
    BY <1>1, <2>2, <2>3 DEF Effects
  <2> HIDE DEF f, g
  <2>5. /\ Sound(f) /\ f.committed = g.committed /\ f.dead = g.dead
        /\ f.want = g.want /\ ~f.w.virt /\ f.w.sent = g.w.sent
        /\ f.w.opened = g.w.opened /\ Content(f.w) = Content(g.w)
    BY <2>1, <2>3, <2>4, LettingGoFacts
  <2>6. Complete(f) /\ f.w.opened = e.w.opened
    BY <2>1, <2>3, <2>5 DEF Complete, HandsOver
  <2>7. Follows(f, e)
    BY <2>3, <2>5 DEF Follows
  <2> QED
    BY <2>3, <2>5, <2>6, <2>7 DEF f
<1>3. CASE ~e.committed
  <2>1. HandOver(e) = e.w
    BY <1>3 DEF HandOver
  <2>2. Run(e.w) = <<>>
    BY <1>3, UncommittedFacts
  <2>3. f = [e EXCEPT !.w = release(e.w)]
    BY <2>1
  <2> HIDE DEF f
  <2>4. /\ Sound(f) /\ f.committed = e.committed /\ f.dead = e.dead
        /\ f.want = e.want /\ ~f.w.virt /\ f.w.sent = e.w.sent
        /\ f.w.opened = e.w.opened /\ Content(f.w) = Content(e.w)
    BY <2>2, <2>3, LettingGoFacts
  <2>5. Complete(f) /\ Follows(f, e)
    BY <1>1, <2>4, ContinuesItself DEF Complete, Follows
  <2> QED
    BY <2>4, <2>5 DEF f
<1> QED
  BY <1>2, <1>3

\* What Write leaves of the control state, dead or alive.
LEMMA ReturnedFacts ==
    ASSUME IInv, WriteReturns, suspendReq' = FALSE, w'.opened = w.opened,
           sink => ~w'.virt
    PROVE  RootOK' /\ HeldOK' /\ PlaceOK' /\ Pending' = <<>>
<1> DEFINE stops == suspendReq /\ ~dead
<1>1. /\ pc = "scan" /\ pc' = "caller"
      /\ suspended' = stops
      /\ held' = (IF stops THEN len - i ELSE held)
      /\ scanned' = (IF stops THEN scanBase + i ELSE scanned)
      /\ rs' = -1 /\ i' = 0 /\ len' = 0
      /\ UNCHANGED <<sink, finished, scanBase, rootVars, regVars, gens>>
  BY DEF WriteReturns, ScannedAfter
<1>2. /\ ~finished /\ ~suspended
      /\ i \in Nat /\ len \in Nat /\ i <= len /\ scanBase + len = scanned
  BY <1>1 DEF IInv, PlaceOK
<1>3. /\ scanned \in Nat /\ held \in Nat /\ scanBase \in Nat
      /\ scanned + held <= MaxIn /\ held = 0
  BY <1>2 DEF IInv, HeldOK
<1>4. HeldOK'
  <2>1. CASE stops
    <3>1. /\ held' = len - i /\ scanned' = scanBase + i /\ scanBase' = scanBase
          /\ suspended'
      BY <1>1, <2>1
    <3> QED
      BY <1>2, <1>3, <3>1, StreamAssumption DEF HeldOK
  <2>2. CASE ~stops
    <3>1. held' = 0 /\ scanned' = scanned /\ scanBase' = scanBase
      BY <1>1, <1>3, <2>2
    <3> QED
      BY <1>2, <1>3, <3>1, StreamAssumption DEF HeldOK
  <2> QED
    BY <2>1, <2>2
<1>5. RootOK'
  <2>1. suspended' => suspendReq
    BY <1>1
  <2> QED
    BY <1>1, <2>1 DEF IInv, RootOK, rootVars, regVars
<1>6. PlaceOK'
  BY <1>1 DEF PlaceOK
<1>7. Pending' = <<>>
  BY <1>1 DEF Pending
<1> QED
  BY <1>4, <1>5, <1>6, <1>7

LEMMA WriteReturnsStep ==
    ASSUME IInv, WriteReturns
    PROVE  IInv' /\ Advances
<1> DEFINE left    == IF regOpen /\ ~dead THEN flush(Now, len) ELSE Now
           stops   == suspendReq /\ ~dead
           total   == ScannedAfter(stops)
           gated   == IF ~dead /\ ~left.committed /\ total >= CommitBytes
                      THEN Commit(left) ELSE left
           drained == IF ~sink THEN gated
                      ELSE [gated EXCEPT !.w = release(HandOver(gated))]
           f       == [drained EXCEPT !.suspendReq = FALSE]
<1>1. /\ pc = "scan" /\ ~Scanning /\ Becomes(f) /\ finished' = finished
      /\ scanBase' = scanBase /\ sink' = sink
      /\ UNCHANGED <<rootVars, regVars, gens>>
      /\ suspended' = stops
  BY DEF WriteReturns
<1>2. /\ ~finished /\ ~suspended /\ sink \in BOOLEAN
      /\ i \in Nat /\ len \in Nat /\ i <= len /\ scanBase + len = scanned
      /\ regOpen => rs \in 0..i /\ ~suspendReq
  BY <1>1 DEF IInv, PlaceOK, FlagsOK
<1>3. /\ Sound(Now) /\ Now.w = w /\ Now.want = want /\ Now.dead = dead
      /\ Now.committed = committed /\ Now.suspendReq = suspendReq /\ Now \in Effects
      /\ Pending = <<>> /\ ~dead => Complete(Now)
  BY <1>2, NowFacts DEF Sound
<1>4. CASE dead
  <2>1. left = Now
    BY <1>4
  <2>2. gated = Now
    BY <1>4, <2>1
  <2> HIDE DEF gated
  <2>3. /\ Sound(drained) /\ drained.committed = committed /\ drained.dead = dead
        /\ drained.want = want /\ drained.w.sent = w.sent
        /\ drained.w.opened = w.opened /\ (sink => ~drained.w.virt)
    <3>1. CASE ~sink
      BY <1>3, <2>2, <3>1
    <3>2. CASE sink
      <4>1. HandOver(gated) = gated.w
        BY <1>4 DEF HandOver
      <4>2. drained = [gated EXCEPT !.w = release(gated.w)]
        BY <3>2, <4>1
      <4> HIDE DEF drained
      <4> QED
        BY <1>3, <2>2, <4>2, LettingGoFacts
    <3> QED
      BY <3>1, <3>2
  <2> HIDE DEF drained
  <2>4. drained \in Effects
    BY <2>3 DEF Sound
  <2>5. /\ f \in Effects /\ f.w = drained.w /\ f.committed = committed
        /\ f.dead = dead /\ f.suspendReq = FALSE /\ f.want = want
    BY <2>3, <2>4 DEF Effects
  <2> HIDE DEF f
  <2>6. /\ w' = drained.w /\ committed' = committed /\ dead' = dead
        /\ suspendReq' = FALSE /\ want' = want
    BY <1>1, <2>5 DEF Becomes
  <2>7. OutputSound'
    BY <1>1, <1>2, <2>3, <2>6 DEF Sound, OutputSound
  <2>8. OutputComplete'
    BY <1>4, <2>3, <2>6 DEF IInv, OutputComplete
  <2>9. RootOK' /\ HeldOK' /\ PlaceOK'
    BY <2>3, <2>6, ReturnedFacts
  <2>10. FlagsOK'
    <3>1. stops \in BOOLEAN
      OBVIOUS
    <3> QED
      BY <1>1, <2>6, <3>1, ZenonT(60) DEF IInv, FlagsOK, rootVars, regVars
  <2>11. Advances
    BY <1>1, <1>4, <2>3, <2>6 DEF Advances
  <2> QED
    BY <2>7, <2>8, <2>9, <2>10, <2>11 DEF IInv
<1>5. CASE ~dead
  <2>1. /\ Sound(left) /\ Complete(left) /\ Follows(left, Now) /\ ~left.dead
        /\ left.w.opened = w.opened
    <3>1. CASE regOpen
      <4>1. i = len /\ rs \in 0..i
        BY <1>1, <1>2, <1>5, <3>1 DEF Scanning
      <4>2. /\ scanBase \in 0..MaxIn /\ len \in 0..MaxIn /\ rs \in 0..MaxIn
            /\ rs <= len
        BY <1>2, <4>1, StreamAssumption DEF IInv, HeldOK
      <4>3. MayEmit(Now)
        BY <1>2, <1>3, <3>1, <4>2 DEF MayEmit, IInv, FlagsOK, RootOK
      <4>4. left = flush(Now, len)
        BY <1>5, <3>1
      <4> HIDE DEF left
      <4>5. Passes(left, Now, Emitted(rs, len))
        BY <1>3, <4>2, <4>3, <4>4, FlushFacts
      <4>6. Pending = Emitted(rs, len)
        BY <1>1, <3>1, <4>1 DEF Pending, Emitted
      <4>7. Content(w) \o Emitted(rs, len) = want
        BY <1>5, <4>6 DEF IInv, OutputComplete
      <4>8. want \in Seq(Int)
        BY <1>3 DEF Effects
      <4> QED
        BY <1>3, <1>5, <4>5, <4>7, <4>8, ContinuesItself
           DEF Passes, Complete, Follows
    <3>2. CASE ~regOpen
      <4>1. left = Now /\ Pending = <<>>
        BY <3>2 DEF Pending
      <4> QED
        BY <1>3, <1>5, <4>1, FollowsItself
    <3> QED
      BY <3>1, <3>2
  <2> HIDE DEF left
  <2>2. left \in Effects
    BY <2>1 DEF Sound
  <2>3. /\ Sound(gated) /\ Complete(gated) /\ Follows(gated, left) /\ ~gated.dead
        /\ gated.w.opened = w.opened
    <3>1. CASE gated = left
      BY <2>1, <2>2, <3>1, FollowsItself
    <3>2. CASE gated = Commit(left)
      <4> HIDE DEF gated
      <4> QED
        BY <1>2, <2>1, <3>2, CommitFacts DEF Complete
    <3> QED
      BY <3>1, <3>2
  <2> HIDE DEF gated
  <2>4. gated \in Effects
    BY <2>3 DEF Sound
  <2>5. /\ Sound(drained) /\ Complete(drained) /\ Follows(drained, gated)
        /\ ~drained.dead /\ (sink => ~drained.w.virt)
        /\ drained.w.opened = w.opened
    <3>1. CASE ~sink
      BY <2>3, <2>4, <3>1, FollowsItself
    <3>2. CASE sink
      <4>1. drained = [gated EXCEPT !.w = release(HandOver(gated))]
        BY <3>2
      <4> HIDE DEF drained
      <4> QED
        BY <1>5, <2>3, <4>1, HandOverFacts
    <3> QED
      BY <3>1, <3>2
  <2> HIDE DEF drained
  <2>6. drained \in Effects
    BY <2>5 DEF Sound
  <2>7. /\ f \in Effects /\ f.w = drained.w /\ f.committed = drained.committed
        /\ f.dead = drained.dead /\ f.suspendReq = FALSE /\ f.want = drained.want
    BY <2>6 DEF Effects
  <2> HIDE DEF f
  <2>8. Sound(f) /\ Complete(f)
    BY <2>5, <2>7 DEF Sound, Complete
  <2>9. Follows(f, Now)
    <3>1. Follows(gated, Now)
      BY <1>3, <2>1, <2>2, <2>3, <2>4, FollowsTransitive
    <3>2. Follows(drained, Now)
      BY <1>3, <2>4, <2>5, <2>6, <3>1, FollowsTransitive
    <3> QED
      BY <2>7, <3>2 DEF Follows
  <2>10. Pending' = <<>>
    BY DEF WriteReturns, Pending
  <2>11. /\ OutputSound' /\ OutputComplete' /\ Advances
         /\ committed' \in BOOLEAN /\ dead' \in BOOLEAN
    BY <1>1, <1>2, <1>5, <2>8, <2>9, <2>10, CompleteStep
  <2>12. suspendReq' = FALSE /\ w'.opened = w.opened /\ (sink => ~w'.virt)
    BY <1>1, <2>5, <2>7 DEF Becomes
  <2>13. RootOK' /\ HeldOK' /\ PlaceOK'
    BY <2>12, ReturnedFacts
  <2>14. FlagsOK'
    <3>1. stops \in BOOLEAN
      OBVIOUS
    <3> QED
      BY <1>1, <2>11, <2>12, <3>1 DEF IInv, FlagsOK, rootVars, regVars
  <2> QED
    BY <2>11, <2>13, <2>14 DEF IInv
<1> QED
  BY <1>4, <1>5

-----------------------------------------------------------------------------
(* The steps of the caller.                                                *)

LEMMA CallingFacts ==
    ASSUME IInv, Calling
    PROVE  /\ pc = "caller" /\ ~dead /\ ~finished /\ ~suspendReq /\ Pending = <<>>
           /\ sink => ~w.virt
           /\ i = 0 /\ len = 0 /\ rs = -1
           /\ Sound(Now) /\ Complete(Now) /\ Now.w = w /\ Now.want = want
           /\ Now.committed = committed /\ Now.dead = dead
           /\ Now.suspendReq = suspendReq /\ Now \in Effects
<1>1. pc = "caller" /\ ~dead /\ ~finished
  BY DEF Calling
<1>2. ~suspendReq /\ (sink => ~w.virt) /\ i = 0 /\ len = 0 /\ rs = -1
  BY <1>1 DEF IInv, PlaceOK
<1>3. Pending = <<>>
  BY <1>1 DEF Pending
<1> QED
  BY <1>1, <1>2, <1>3, NowFacts DEF Sound

\* A caller that takes the output after each call leaves no run behind when
\* the chunk goes.
LEMMA TakenFacts ==
    ASSUME NEW call \in {"Write", "Resume", "Compact"}, UsedAsDocumented, IInv,
           Calling, Taken(call)
    PROVE  Run(w) = <<>>
<1>1. CASE ~committed
  BY <1>1, CallingFacts, UncommittedFacts
<1>2. CASE committed /\ sink
  BY <1>2, CallingFacts DEF Run
<1>3. CASE committed /\ ~sink
  BY <1>3 DEF Taken, UsedAsDocumented
<1> QED
  BY <1>1, <1>2, <1>3 DEF IInv, FlagsOK

LEMMA BeginStep ==
    ASSUME NEW n \in Nat, IInv, Calling, Begin(n), Run(w) = <<>>,
           scanned + n <= MaxIn, suspended' = FALSE, held' = 0
    PROVE  IInv' /\ Advances
<1>1. /\ pc' = "scan" /\ scanBase' = scanned /\ len' = n /\ scanned' = scanned + n
      /\ w' = startChunk(w, scanned) /\ i' = 0
      /\ rs' = (IF regOpen THEN 0 ELSE -1)
      /\ UNCHANGED <<committed, dead, suspendReq, want, sink, finished,
                     rootVars, regVars, gens>>
  BY DEF Begin
<1>2. /\ ~dead /\ ~finished /\ ~suspendReq /\ Pending = <<>>
  BY CallingFacts
<1>3. scanned \in 0..MaxIn /\ MaxIn \in Nat
  BY StreamAssumption DEF IInv, HeldOK
<1>4. WellFormed(w, MaxIn) /\ OpenHasChild(w)
  BY <1>2 DEF IInv, OutputSound
<1>5. /\ Writes(w', w, <<>>, MaxIn) /\ w'.sent = w.sent /\ w'.opened = w.opened
      /\ w'.n = w.n /\ w'.vp = scanned
  BY <1>1, <1>3, <1>4, StartChunkFacts
<1>6. OutputSound'
  <2>1. OpenHasChild(w')
    BY <1>4, <1>5 DEF OpenHasChild
  <2> QED
    BY <1>1, <1>5, <2>1 DEF IInv, OutputSound, Writes
<1>7. Pending' = <<>>
  <2>1. CASE regOpen
    <3>1. scanned + 0 \in Nat
      BY <1>3
    <3>2. Bytes(scanned + 0, scanned + 0) = <<>>
      BY <3>1, BytesFacts
    <3> QED
      BY <1>1, <2>1, <3>2 DEF Pending
  <2>2. CASE ~regOpen
    BY <1>1, <2>2 DEF Pending, regVars
  <2> QED
    BY <2>1, <2>2
<1>8. OutputComplete'
  <2>1. Content(w') = Content(w) \o <<>>
    BY <1>5 DEF Writes
  <2>2. Content(w) \in Seq(Int)
    BY <1>3, <1>4, ContentFacts DEF WellFormed
  <2>3. Content(w) \o <<>> = Content(w)
    BY <2>2, Concat
  <2>4. Content(w') \o Pending' = Content(w) \o Pending
    BY <1>2, <1>7, <2>1, <2>3
  <2> QED
    BY <1>1, <1>2, <1>5, <2>4 DEF IInv, OutputComplete
<1>9. FlagsOK'
  BY <1>1, ZenonT(60) DEF IInv, FlagsOK, rootVars, regVars
<1>10. RootOK'
  BY <1>1, <1>5 DEF IInv, RootOK, rootVars, regVars
<1>11. HeldOK'
  BY <1>1, <1>3 DEF IInv, HeldOK
<1>12. PlaceOK'
  BY <1>1, <1>2 DEF PlaceOK, regVars
<1>13. Advances
  <2>1. want \in Seq(Int) /\ w.sent \in Seq(Int)
    BY <1>4 DEF IInv, OutputComplete, WellFormed, Writers
  <2> QED
    BY <1>1, <1>2, <1>5, <2>1, ContinuesItself DEF Advances
<1> QED
  BY <1>6, <1>8, <1>9, <1>10, <1>11, <1>12, <1>13 DEF IInv

LEMMA WriteStep ==
    ASSUME NEW n \in 0..ChunkMax, UsedAsDocumented, IInv, Write(n)
    PROVE  IInv' /\ Advances
<1>1. /\ Calling /\ ~suspended /\ Taken("Write") /\ scanned + n <= MaxIn /\ Begin(n)
      /\ suspended' = suspended /\ held' = held
  BY DEF Write
<1>2. Run(w) = <<>>
  BY <1>1, TakenFacts
<1>3. held' = 0 /\ suspended' = FALSE
  BY <1>1 DEF IInv, HeldOK, FlagsOK
<1>4. n \in Nat
  BY StreamAssumption
<1> QED
  BY <1>1, <1>2, <1>3, <1>4, BeginStep

LEMMA ResumeStep ==
    ASSUME UsedAsDocumented, IInv, Resume
    PROVE  IInv' /\ Advances
<1>1. /\ Calling /\ Taken("Resume") /\ Begin(held)
      /\ suspended' = FALSE /\ held' = 0
  BY DEF Resume
<1>2. Run(w) = <<>>
  BY <1>1, TakenFacts
<1>3. held \in Nat /\ scanned + held <= MaxIn
  BY DEF IInv, HeldOK
<1> QED
  BY <1>1, <1>2, <1>3, BeginStep

\* A call between chunks that only touches the output.
LEMMA CallerKeepsStep ==
    ASSUME NEW f, IInv, Calling, CallerKeeps, Becomes(f), Sound(f), Complete(f),
           Follows(f, Now), ~f.suspendReq, sink => ~f.w.virt,
           f.w.opened => w.opened \/ rootSeen, gens' \in 0..MaxGen
    PROVE  IInv' /\ Advances
<1>1. /\ pc = "caller" /\ ~dead /\ ~finished /\ ~suspendReq /\ Pending = <<>>
      /\ i = 0 /\ len = 0 /\ rs = -1
  BY CallingFacts
<1>2. UNCHANGED <<pc, callVars, chunkVars, posVars, rootVars, regVars>>
  BY DEF CallerKeeps
<1>3. Pending' = <<>>
  BY <1>1, <1>2 DEF Pending
<1>4. /\ OutputSound' /\ OutputComplete' /\ Advances
      /\ committed' \in BOOLEAN /\ dead' \in BOOLEAN
      /\ suspendReq' \in BOOLEAN
      /\ w.opened => w'.opened
  BY <1>1, <1>2, <1>3, CompleteStep DEF callVars, chunkVars
<1>5. w' = f.w /\ suspendReq' = f.suspendReq
  BY DEF Becomes
<1>6. FlagsOK'
  BY <1>2, <1>4 DEF IInv, FlagsOK, callVars, rootVars, regVars
<1>7. RootOK'
  BY <1>2, <1>4, <1>5 DEF IInv, RootOK, callVars, rootVars, regVars
<1>8. HeldOK'
  BY <1>2 DEF IInv, HeldOK, callVars, chunkVars
<1>9. PlaceOK'
  BY <1>1, <1>2, <1>5 DEF PlaceOK, callVars, chunkVars, posVars
<1> QED
  BY <1>4, <1>6, <1>7, <1>8, <1>9 DEF IInv

\* The transformer gives up: its output stays as it is.
LEMMA DyingFacts ==
    ASSUME IInv, Calling
    PROVE  LET f == [Now EXCEPT !.dead = TRUE] IN
           /\ Sound(f) /\ Complete(f) /\ Follows(f, Now) /\ ~f.suspendReq
           /\ f.w = w
<1> DEFINE f == [Now EXCEPT !.dead = TRUE]
<1>1. /\ Sound(Now) /\ Complete(Now) /\ Now \in Effects /\ Now.w = w
      /\ ~Now.suspendReq
  BY CallingFacts
<1>2. /\ f \in Effects /\ f.w = Now.w /\ f.committed = Now.committed
      /\ f.suspendReq = Now.suspendReq /\ f.want = Now.want
  BY <1>1 DEF Effects
<1>3. Now.want \in Seq(Int) /\ Now.w.sent \in Seq(Int)
  BY <1>1 DEF Effects, Writers
<1>4. Sound(f) /\ Complete(f) /\ Follows(f, Now)
  BY <1>1, <1>2, <1>3, ContinuesItself DEF Sound, Complete, Follows
<1> QED
  BY <1>1, <1>2, <1>4

LEMMA MisuseStep ==
    ASSUME IInv, Misuse
    PROVE  IInv' /\ Advances
<1> DEFINE f == [Now EXCEPT !.dead = TRUE]
<1>1. Calling /\ Becomes(f) /\ CallerKeeps /\ gens' = gens
  BY DEF Misuse
<1>2. /\ Sound(f) /\ Complete(f) /\ Follows(f, Now) /\ ~f.suspendReq /\ f.w = w
  BY <1>1, DyingFacts
<1>3. sink => ~f.w.virt
  BY <1>1, <1>2, CallingFacts
<1>4. f.w.opened => w.opened \/ rootSeen
  BY <1>2
<1>5. gens' \in 0..MaxGen
  BY <1>1 DEF IInv, FlagsOK
<1> HIDE DEF f
<1> QED
  BY <1>1, <1>2, <1>3, <1>4, <1>5, CallerKeepsStep

\* Out and Flush: past the commit point, some of the output is handed over.
LEMMA HandingStep ==
    ASSUME NEW v, IInv, Calling, CallerKeeps, committed,
           Becomes([Now EXCEPT !.w = v]),
           HandsOver(v, w, MaxIn), v.virt => w.virt /\ v.vp = w.vp, gens' = gens
    PROVE  IInv' /\ Advances
<1> DEFINE f == [Now EXCEPT !.w = v]
<1>1. /\ Sound(Now) /\ Complete(Now) /\ Now.w = w /\ Now.committed = committed
      /\ ~Now.suspendReq /\ (sink => ~w.virt)
  BY CallingFacts
<1>2. v.virt => v.vp = scanBase
  BY <1>1 DEF Sound
<1>3. /\ Sound(f) /\ Follows(f, Now) /\ f.w = v /\ f.suspendReq = Now.suspendReq
      /\ f.want = Now.want
  BY <1>1, <1>2, HandingFacts
<1>4. Complete(f)
  BY <1>1, <1>3 DEF Complete, HandsOver
<1>5. (sink => ~f.w.virt) /\ (f.w.opened => w.opened \/ rootSeen)
  BY <1>1, <1>3 DEF HandsOver
<1>6. gens' \in 0..MaxGen
  BY DEF IInv, FlagsOK
<1>7. Becomes(f) /\ ~f.suspendReq
  BY <1>1, <1>3
<1> HIDE DEF f
<1> QED
  BY <1>3, <1>4, <1>5, <1>6, <1>7, CallerKeepsStep

LEMMA OutStep ==
    ASSUME IInv, Out
    PROVE  IInv' /\ Advances
<1>1. /\ Calling /\ committed /\ Becomes([Now EXCEPT !.w = take(w)])
      /\ CallerKeeps /\ gens' = gens
  BY DEF Out
<1>2. WellFormed(w, MaxIn) /\ MaxIn \in Nat
  BY StreamAssumption DEF IInv, OutputSound
<1>3. HandsOver(take(w), w, MaxIn) /\ ~take(w).virt
  BY <1>2, TakeFacts
<1> QED
  BY <1>1, <1>3, HandingStep

LEMMA FlushStep ==
    ASSUME IInv, Flush
    PROVE  IInv' /\ Advances
<1>1. /\ Calling /\ committed /\ Becomes([Now EXCEPT !.w = drain(w)])
      /\ CallerKeeps /\ gens' = gens
  BY DEF Flush
<1>2. WellFormed(w, MaxIn) /\ MaxIn \in Nat
  BY StreamAssumption DEF IInv, OutputSound
<1>3. /\ HandsOver(drain(w), w, MaxIn) /\ drain(w).virt = w.virt
      /\ drain(w).vp = w.vp
  BY <1>2, DrainFacts
<1>4. drain(w).virt => w.virt /\ drain(w).vp = w.vp
  BY <1>3
<1> QED
  BY <1>1, <1>3, <1>4, HandingStep

LEMMA CompactStep ==
    ASSUME UsedAsDocumented, IInv, Compact
    PROVE  IInv' /\ Advances
<1> DEFINE f == [Now EXCEPT !.w = release(Now.w)]
<1>1. /\ Calling /\ Taken("Compact") /\ CallerKeeps /\ gens' = gens
      /\ Becomes([Now EXCEPT !.w = release(w)])
  BY DEF Compact
<1>2. /\ Sound(Now) /\ Complete(Now) /\ Now.w = w /\ ~Now.suspendReq
      /\ Now \in Effects
  BY <1>1, CallingFacts
<1>3. Run(w) = <<>>
  BY <1>1, TakenFacts
<1>4. /\ Sound(f) /\ f.committed = Now.committed
      /\ f.suspendReq = Now.suspendReq /\ f.want = Now.want
      /\ ~f.w.virt /\ f.w.sent = w.sent /\ f.w.opened = w.opened
      /\ Content(f.w) = Content(w)
  BY <1>2, <1>3, LettingGoFacts
<1>5. Becomes(f)
  BY <1>1, <1>2
<1> HIDE DEF f
<1>6. Now.want \in Seq(Int) /\ w.sent \in Seq(Int)
  BY <1>2 DEF Effects, Writers
<1>7. Complete(f) /\ Follows(f, Now)
  BY <1>2, <1>4, <1>6, ContinuesItself DEF Complete, Follows
<1>8. gens' \in 0..MaxGen
  BY <1>1 DEF IInv, FlagsOK
<1> QED
  BY <1>1, <1>2, <1>4, <1>5, <1>7, <1>8, CallerKeepsStep

LEMMA CallerCommitsStep ==
    ASSUME IInv, CallerCommits
    PROVE  IInv' /\ Advances
<1> DEFINE f == CommitNow(Now)
<1>1. Calling /\ Becomes(f) /\ CallerKeeps /\ gens' = gens
  BY DEF CallerCommits
<1>2. /\ Sound(Now) /\ Complete(Now) /\ Now.w = w /\ ~Now.suspendReq
      /\ (sink => ~w.virt) /\ sink \in BOOLEAN
  BY <1>1, CallingFacts DEF IInv, FlagsOK
<1>3. /\ Sound(f) /\ Follows(f, Now)
      /\ f.suspendReq = Now.suspendReq
      /\ f.want = Now.want /\ Content(f.w) = Content(Now.w)
      /\ f.w.virt = Now.w.virt /\ f.w.opened = Now.w.opened
  BY <1>2, CommitNowFacts
<1> HIDE DEF f
<1>4. Complete(f)
  BY <1>2, <1>3 DEF Complete
<1>5. gens' \in 0..MaxGen
  BY <1>1 DEF IInv, FlagsOK
<1> QED
  BY <1>1, <1>2, <1>3, <1>4, <1>5, CallerKeepsStep

LEMMA WriteOutsideStep ==
    ASSUME UsedAsDocumented, IInv, WriteOutside
    PROVE  IInv' /\ Advances
<1> DEFINE f == Hook("write", Now)
<1>1. /\ Calling /\ suspended /\ Becomes(f) /\ Generated("write") /\ CallerKeeps
      /\ MayCall("write")
  BY DEF WriteOutside, MayCall, Callbacks
<1>2. /\ ~dead /\ ~finished /\ ~suspendReq /\ Pending = <<>> /\ (sink => ~w.virt)
  BY <1>1, CallingFacts
<1>3. /\ Sound(f) /\ Complete(f) /\ Follows(f, Now)
      /\ ~f.suspendReq /\ (~w.virt => ~f.w.virt)
  BY <1>1, <1>2, CallbackFacts
<1> HIDE DEF f
<1>4. rootSeen
  BY <1>1 DEF IInv, RootOK
<1>5. gens' \in 0..MaxGen
  BY <1>1, GeneratedFacts DEF IInv, FlagsOK
<1> QED
  BY <1>1, <1>2, <1>3, <1>4, <1>5, CallerKeepsStep

\* Finish writes the end and hands over all there is.
LEMMA FinalFacts ==
    ASSUME NEW v, NEW u \in Seq(Int), NEW x \in BOOLEAN, WellFormed(v, MaxIn)
    PROVE  LET r == [Raw(ensureOpen(v), u) EXCEPT !.flushRun = x] IN
           /\ WellFormed(r, MaxIn) /\ ~r.virt /\ r.opened = TRUE
           /\ Content(r) = Content(v) \o (Opening(v) \o u)
           /\ Continues(r.sent, v.sent)
<1> DEFINE o == ensureOpen(v)
           q == Raw(o, u)
           r == [q EXCEPT !.flushRun = x]
<1>1. MaxIn \in Nat
  BY StreamAssumption
<1>2. /\ Writes(o, v, Opening(v), MaxIn) /\ Opening(v) \in Seq(Int)
      /\ o.opened = TRUE
  BY <1>1, EnsureOpenFacts
<1>3. WellFormed(o, MaxIn)
  BY <1>2 DEF Writes
<1> HIDE DEF o
<1>4. /\ Writes(q, o, u, MaxIn) /\ q.virt = FALSE /\ q.opened = o.opened
  BY <1>1, <1>3, RawFacts
<1>5. Writes(q, v, Opening(v) \o u, MaxIn)
  BY <1>1, <1>2, <1>4, WritesTwice
<1>6. q \in Writers(MaxIn) /\ WellFormed(q, MaxIn)
  BY <1>5 DEF Writes, WellFormed
<1> HIDE DEF q
<1>7. /\ r \in Writers(MaxIn) /\ r.virt = q.virt /\ r.vfrom = q.vfrom
      /\ r.vlen = q.vlen /\ r.vp = q.vp /\ r.buf = q.buf /\ r.sent = q.sent
      /\ r.opened = q.opened
  BY <1>6 DEF Writers
<1> HIDE DEF r
<1>8. WellFormed(r, MaxIn)
  BY <1>6, <1>7 DEF WellFormed
<1>9. Content(r) = Content(q)
  <2>1. Run(r) = Run(q)
    BY <1>7 DEF Run
  <2> QED
    BY <1>7, <2>1 DEF Content
<1> QED
  BY <1>2, <1>4, <1>5, <1>7, <1>8, <1>9 DEF Writes, r, q, o

LEMMA LeavingFacts ==
    ASSUME NEW v, WellFormed(v, MaxIn), ~v.virt
    PROVE  LET z == IF sink THEN release(drain(v)) ELSE take(v) IN
           /\ WellFormed(z, MaxIn) /\ ~z.virt /\ z.opened = v.opened
           /\ Content(z) = Content(v) /\ z.sent = Content(v)
           /\ Continues(z.sent, v.sent)
<1>1. MaxIn \in Nat
  BY StreamAssumption
<1>2. CASE sink
  <2> DEFINE d == drain(v)
             z == release(d)
  <2>1. /\ HandsOver(d, v, MaxIn) /\ Run(d) = <<>> /\ d.sent = Content(v)
    BY <1>1, DrainFacts
  <2>2. WellFormed(d, MaxIn)
    BY <2>1 DEF HandsOver
  <2> HIDE DEF d
  <2>3. HandsOver(z, d, MaxIn) /\ z.sent = d.sent /\ z.virt = FALSE
    BY <1>1, <2>1, <2>2, ReleaseFacts, ReleaseShape
  <2> QED
    BY <1>2, <2>1, <2>3 DEF HandsOver, d
<1>3. CASE ~sink
  <2>1. /\ HandsOver(take(v), v, MaxIn) /\ take(v).virt = FALSE
        /\ take(v).sent = Content(v)
    BY <1>1, TakeFacts
  <2> QED
    BY <1>3, <2>1 DEF HandsOver
<1> QED
  BY <1>2, <1>3

LEMMA FinishStep ==
    ASSUME NEW cb, UsedAsDocumented, IInv, Finish(cb)
    PROVE  IInv' /\ Advances
<1>1. /\ Calling /\ cb \in {"nothing", "write", "bail"} /\ MayCall(cb)
      /\ UNCHANGED <<pc, sink, suspended, held, chunkVars, posVars, rootVars, regVars>>
  BY DEF Finish
<1>2. /\ pc = "caller" /\ ~dead /\ ~finished /\ ~suspendReq /\ Pending = <<>>
      /\ i = 0 /\ len = 0 /\ rs = -1 /\ (sink => ~w.virt)
      /\ Now \in Effects /\ Now.w = w /\ Now.want = want
      /\ sink \in BOOLEAN
  BY <1>1, CallingFacts DEF IInv, FlagsOK
<1>3. CASE ~rootDone \/ cb = "bail"
  <2> DEFINE f == [Now EXCEPT !.dead = TRUE]
  <2>1. Becomes(f) /\ finished' = finished /\ gens' = gens
    BY <1>3 DEF Finish
  <2>2. CallerKeeps
    BY <1>1, <2>1 DEF CallerKeeps, callVars
  <2>3. /\ Sound(f) /\ Complete(f) /\ Follows(f, Now) /\ ~f.suspendReq /\ f.w = w
    BY <1>1, DyingFacts
  <2>4. (sink => ~f.w.virt) /\ (f.w.opened => w.opened \/ rootSeen)
    BY <1>2, <2>3
  <2>5. gens' \in 0..MaxGen
    BY <2>1 DEF IInv, FlagsOK
  <2> HIDE DEF f
  <2> QED
    BY <1>1, <2>1, <2>2, <2>3, <2>4, <2>5, CallerKeepsStep
<1>4. CASE ~(~rootDone \/ cb = "bail")
  <2> DEFINE tailed == Hook(cb, Now)
             units  == <<CloseUnit>> \o (IF tail THEN <<TailUnit>> ELSE <<>>)
             r      == Raw(ensureOpen(tailed.w), units)
             closed == [tailed EXCEPT !.w = r]
             u      == OpenIfNeeded(tailed) \o units
             final  == Commit(Wanting(closed, u))
             x      == sink /\ ~r.fixed
             v      == [r EXCEPT !.flushRun = x]
             z      == IF sink THEN release(drain(v)) ELSE take(v)
  <2>1. /\ Becomes([final EXCEPT !.w = IF sink THEN release(drain(final.w))
                                               ELSE take(final.w)])
        /\ finished' = TRUE /\ Generated(cb)
    BY <1>4 DEF Finish
  <2>2. /\ Sound(tailed) /\ Complete(tailed) /\ Follows(tailed, Now)
        /\ ~tailed.dead /\ ~tailed.suspendReq
    BY <1>1, <1>2, <1>4, CallbackFacts
  <2>3. units \in Seq(Int)
    <3>1. <<CloseUnit>> \in Seq(Int) /\ <<TailUnit>> \in Seq(Int) /\ <<>> \in Seq(Int)
      BY DEF CloseUnit, TailUnit
    <3> QED
      BY <3>1, Concat
  <2> HIDE DEF tailed, units
  <2>4. /\ tailed \in Effects /\ WellFormed(tailed.w, MaxIn)
        /\ tailed.want = Content(tailed.w) /\ tailed.want \in Seq(Int)
        /\ tailed.w.sent \in Seq(Int) /\ MaxIn \in Nat
    BY <2>2, StreamAssumption DEF Sound, Complete, Effects, Writers
  <2>5. /\ WellFormed(v, MaxIn) /\ ~v.virt /\ v.opened = TRUE
        /\ Content(v) = Content(tailed.w) \o (Opening(tailed.w) \o units)
        /\ Continues(v.sent, tailed.w.sent)
    <3>1. x \in BOOLEAN
      OBVIOUS
    <3> HIDE DEF x
    <3> QED
      BY <2>3, <2>4, <3>1, FinalFacts
  <2>6. u = Opening(tailed.w) \o units /\ u \in Seq(Int)
    <3>1. u = Opening(tailed.w) \o units
      BY DEF OpenIfNeeded, Opening
    <3>2. Opening(tailed.w) \in Seq(Int)
      BY <2>4, EnsureOpenFacts
    <3> QED
      BY <2>3, <3>1, <3>2, Concat
  <2>7. r \in Writers(MaxIn)
    <3>1. WellFormed(ensureOpen(tailed.w), MaxIn)
      BY <2>4, EnsureOpenFacts DEF Writes
    <3>2. WellFormed(r, MaxIn)
      BY <2>3, <2>4, <3>1, RawFacts DEF Writes
    <3> QED
      BY <3>2 DEF WellFormed
  <2> HIDE DEF r, u
  <2>8. /\ final.w = v /\ final.committed = TRUE /\ final.dead = tailed.dead
        /\ final.suspendReq = tailed.suspendReq /\ final.want = tailed.want \o u
        /\ final \in Effects
    <3> DEFINE q == Wanting(closed, u)
    <3>1. /\ closed \in Effects /\ closed.w = r /\ closed.dead = tailed.dead
          /\ closed.suspendReq = tailed.suspendReq /\ closed.want = tailed.want
      BY <2>4, <2>7 DEF Effects
    <3> HIDE DEF closed
    <3>2. tailed.want \o u \in Seq(Int)
      BY <2>4, <2>6, Concat
    <3>3. /\ q \in Effects /\ q.w = r /\ q.dead = tailed.dead
          /\ q.suspendReq = tailed.suspendReq /\ q.want = tailed.want \o u
      BY <3>1, <3>2 DEF Effects, Wanting
    <3> HIDE DEF q
    <3>4. v \in Writers(MaxIn)
      BY <2>5 DEF WellFormed
    <3>5. Commit(q) = [q EXCEPT !.committed = TRUE, !.w = v]
      BY <3>3 DEF Commit, Effects
    <3> HIDE DEF v
    <3>6. final = [q EXCEPT !.committed = TRUE, !.w = v]
      BY <3>5 DEF q
    <3> HIDE DEF final
    <3> QED
      BY <3>3, <3>4, <3>6 DEF Effects
  <2> HIDE DEF v, final
  <2>9. /\ WellFormed(z, MaxIn) /\ ~z.virt /\ z.opened = TRUE
        /\ Content(z) = Content(v) /\ z.sent = Content(v)
        /\ Continues(z.sent, v.sent)
    BY <2>5, LeavingFacts
  <2> HIDE DEF z
  <2>10. /\ w' = z /\ committed' = TRUE /\ dead' = tailed.dead
         /\ suspendReq' = tailed.suspendReq /\ want' = tailed.want \o u
    BY <2>1, <2>8 DEF Becomes, Effects, z
  <2>11. w'.sent = want' /\ Content(w') = want' /\ want' \in Seq(Int)
    BY <2>4, <2>5, <2>6, <2>9, <2>10, Concat
  <2>12. v \in Writers(MaxIn) /\ v.sent \in Seq(Int) /\ w \in Writers(MaxIn)
         /\ w.sent \in Seq(Int) /\ want \in Seq(Int) /\ z.sent \in Seq(Int)
    BY <1>2, <2>5, <2>9 DEF WellFormed, Writers, Effects
  <2>13. Continues(w'.sent, w.sent) /\ Continues(want', want)
    <3>1. Continues(tailed.w.sent, w.sent) /\ Continues(tailed.want, want)
      BY <1>2, <2>2 DEF Follows
    <3>2. Continues(v.sent, w.sent)
      BY <2>4, <2>5, <2>12, <3>1, ContinuesTransitive
    <3>3. Continues(z.sent, w.sent)
      BY <2>9, <2>12, <3>2, ContinuesTransitive
    <3>4. Continues(want', tailed.want)
      BY <2>6, <2>10 DEF Continues
    <3>5. Continues(want', want)
      BY <2>4, <2>11, <2>12, <3>1, <3>4, ContinuesTransitive
    <3> QED
      BY <2>10, <3>3, <3>5
  <2>14. OutputSound'
    BY <2>1, <2>9, <2>10 DEF OutputSound
  <2>15. OutputComplete'
    <3>1. Pending' = <<>>
      BY <1>1, <1>2 DEF Pending
    <3>2. want' \o <<>> = want' /\ Continues(want', want')
      BY <2>11, Concat, ContinuesItself
    <3> QED
      BY <2>11, <3>1, <3>2 DEF OutputComplete
  <2>16. dead' \in BOOLEAN /\ committed' \in BOOLEAN /\ suspendReq' \in BOOLEAN
         /\ ~dead' /\ ~suspendReq'
    BY <2>2, <2>4, <2>10 DEF Effects
  <2>17. gens' \in 0..MaxGen
    BY <1>1, <2>1, GeneratedFacts DEF IInv, FlagsOK
  <2>18. FlagsOK'
    BY <1>1, <2>1, <2>16, <2>17 DEF IInv, FlagsOK, rootVars, regVars
  <2>19. RootOK'
    BY <1>1, <1>4, <2>9, <2>10 DEF IInv, RootOK, rootVars, regVars
  <2>20. HeldOK'
    BY <1>1 DEF IInv, HeldOK, chunkVars
  <2>21. PlaceOK'
    BY <1>1, <1>2, <2>9, <2>10, <2>16 DEF PlaceOK, chunkVars, posVars
  <2>22. Advances
    BY <1>2, <2>10, <2>11, <2>13, <2>16 DEF Advances
  <2> QED
    BY <2>14, <2>15, <2>18, <2>19, <2>20, <2>21, <2>22 DEF IInv
<1> QED
  BY <1>3, <1>4

-----------------------------------------------------------------------------
(* The theorems.                                                           *)

LEMMA NextStep ==
    ASSUME UsedAsDocumented, IInv, Next
    PROVE  IInv' /\ Advances
<1>1. CASE OutsideRootByte
  BY <1>1, OutsideRootByteStep
<1>2. CASE Root
  BY <1>2, RootStep
<1>3. CASE RegionByte
  BY <1>3, RegionByteStep
<1>4. ASSUME NEW cb \in Callbacks, FrameByte(cb) \/ RootClose(cb)
      PROVE  IInv' /\ Advances
  BY <1>4, FrameByteStep
<1>5. ASSUME NEW cb \in Callbacks, NEW target \in Targets, NEW inner \in BOOLEAN,
             ValueStart(target, inner, cb)
      PROVE  IInv' /\ Advances
  <2>1. CASE cb = "bail"
    BY <1>5, <2>1, ValueBailStep
  <2>2. CASE cb # "bail"
    BY <1>5, <2>2, ValueStartStep
  <2> QED
    BY <2>1, <2>2
<1>6. ASSUME NEW cb \in Callbacks, NEW how \in {"with", "before", "inside"},
             RegionEnd(how, cb)
      PROVE  IInv' /\ Advances
  BY <1>6, RegionEndStep
<1>7. CASE WriteReturns
  BY <1>7, WriteReturnsStep
<1>8. ASSUME NEW n \in 0..ChunkMax, Write(n) PROVE IInv' /\ Advances
  BY <1>8, WriteStep
<1>9. CASE Resume
  BY <1>9, ResumeStep
<1>10. CASE Misuse
  BY <1>10, MisuseStep
<1>11. CASE Out
  BY <1>11, OutStep
<1>12. CASE Flush
  BY <1>12, FlushStep
<1>13. CASE Compact
  BY <1>13, CompactStep
<1>14. CASE CallerCommits
  BY <1>14, CallerCommitsStep
<1>15. CASE WriteOutside
  BY <1>15, WriteOutsideStep
<1>16. ASSUME NEW cb \in Callbacks, Finish(cb) PROVE IInv' /\ Advances
  BY <1>16, FinishStep
<1>17. CASE ScanStep
  BY <1>17, <1>1, <1>2, <1>3, <1>4, <1>5, <1>6, <1>7 DEF ScanStep
<1>18. CASE CallerStep
  BY <1>18, <1>8, <1>9, <1>10, <1>11, <1>12, <1>13, <1>14, <1>15, <1>16
     DEF CallerStep
<1> QED
  BY <1>17, <1>18 DEF Next

LEMMA StutterStep ==
    ASSUME IInv, UNCHANGED vars
    PROVE  IInv'
<1> USE DEF vars, outVars, callVars, chunkVars, posVars, rootVars, regVars
<1>1. OutputSound'
  BY DEF IInv, OutputSound
<1>2. OutputComplete'
  BY DEF IInv, OutputComplete, Pending
<1>3. FlagsOK' /\ RootOK' /\ HeldOK' /\ PlaceOK'
  BY DEF IInv, FlagsOK, RootOK, HeldOK, PlaceOK
<1> QED
  BY <1>1, <1>2, <1>3 DEF IInv

\* The invariant of the stream: for every document, every way to cut it into
\* chunks, every hook and every order of calls.
THEOREM Invariance == ASSUME UsedAsDocumented PROVE Spec => []IInv
<1>1. Init => IInv
  BY InitInvariant
<1>2. IInv /\ [Next]_vars => IInv'
  BY NextStep, StutterStep
<1> QED
  BY <1>1, <1>2, PTL DEF Spec

\* The stream's state stays in its types.
THEOREM TypeCorrect == ASSUME UsedAsDocumented PROVE Spec => []TypeOK
<1>1. IInv => TypeOK
  <2> SUFFICES ASSUME IInv PROVE TypeOK
    OBVIOUS
  <2>1. MaxIn \in Nat /\ MaxGen \in Nat
    BY StreamAssumption
  <2>2. w \in Writers(MaxIn) /\ want \in Seq(Int)
    BY DEF IInv, OutputSound, OutputComplete, WellFormed
  <2>3. /\ w.buf \in Seq(Int) /\ w.sent \in Seq(Int)
        /\ w.virt \in BOOLEAN /\ w.fixed \in BOOLEAN /\ w.flushRun \in BOOLEAN
        /\ w.opened \in BOOLEAN
        /\ w.vp \in 0..MaxIn /\ w.vfrom \in 0..MaxIn /\ w.vlen \in 0..MaxIn
        /\ w.n \in {0, 1}
    BY <2>2 DEF Writers
  <2>4. /\ scanned \in 0..MaxIn /\ scanBase \in 0..MaxIn /\ held \in 0..MaxIn
        /\ len \in 0..MaxIn /\ i \in 0..MaxIn /\ rs \in -1..MaxIn
        /\ pc \in {"caller", "scan"}
    <3>1. scanned \in 0..MaxIn /\ scanBase \in 0..MaxIn /\ held \in 0..MaxIn
      BY <2>1 DEF IInv, HeldOK
    <3>2. /\ len \in 0..MaxIn /\ i \in 0..MaxIn /\ rs \in -1..MaxIn
          /\ pc \in {"caller", "scan"}
      BY <2>1, <3>1 DEF IInv, PlaceOK
    <3> QED
      BY <3>1, <3>2
  <2>5. /\ scanned \in 0..MaxIn + MaxGen /\ scanBase \in 0..MaxIn + MaxGen
        /\ len \in 0..MaxIn + MaxGen /\ i \in 0..MaxIn + MaxGen
        /\ held \in 0..MaxIn + MaxGen /\ gens \in 0..MaxIn + MaxGen
    BY <2>1, <2>4 DEF IInv, FlagsOK
  <2>6. {scanned, scanBase, len, i, held, gens} \subseteq 0..MaxIn + MaxGen
    BY <2>5
  <2>7. {w.virt, w.fixed, w.flushRun, w.opened} \subseteq BOOLEAN
        /\ {w.vp, w.vfrom, w.vlen} \subseteq 0..MaxIn
    BY <2>3
  <2>8. /\ {sink, committed, dead, finished, suspendReq, suspended, rootSeen,
            rootDone, lead, tail, ready, regOpen, regInner} \subseteq BOOLEAN
        /\ regT \in Targets
    BY DEF IInv, FlagsOK
  <2> QED
    BY <2>2, <2>3, <2>4, <2>6, <2>7, <2>8 DEF TypeOK
<1> QED
  BY Invariance, <1>1, PTL

\* Nothing is lost, repeated or moved, however the document is cut into
\* chunks and whenever output leaves (writer.go, engine.go emitRegion,
\* lifecycle.go Write).
THEOREM OutputCorrect == ASSUME UsedAsDocumented PROVE Spec => []NothingLost
<1>1. IInv => NothingLost
  BY DEF IInv, OutputComplete, NothingLost, Content
<1> QED
  BY Invariance, <1>1, PTL

\* The run and the buffer are never both held: what is in the buffer cannot
\* leave after a run that came later (writer.go).
THEOREM RunCorrect == ASSUME UsedAsDocumented PROVE Spec => []RunOrBuffer
<1>1. IInv => RunOrBuffer
  <2> SUFFICES ASSUME IInv, Run(w) # <<>> PROVE w.buf = <<>>
    BY DEF RunOrBuffer
  <2>1. WellFormed(w, MaxIn) /\ w \in Writers(MaxIn) /\ MaxIn \in Nat
    BY StreamAssumption DEF IInv, OutputSound, WellFormed
  <2>2. w.virt /\ ~(w.vlen <= w.vfrom)
    BY <2>1, ContentFacts
  <2> QED
    BY <2>1, <2>2 DEF WellFormed, Writers
<1> QED
  BY Invariance, <1>1, PTL

\* Between calls before the commit point nothing has left and nothing refers
\* to the caller's chunk (lifecycle.go Write, which drops it).
THEOREM CommitCorrect == ASSUME UsedAsDocumented PROVE Spec => []HeldBeforeCommit
<1>1. IInv => HeldBeforeCommit
  <2> SUFFICES ASSUME IInv, ~committed PROVE Run(w) = <<>> /\ w.sent = <<>>
    BY DEF HeldBeforeCommit
  <2>1. WellFormed(w, MaxIn) /\ w \in Writers(MaxIn) /\ MaxIn \in Nat
        /\ w.sent = <<>>
    BY StreamAssumption DEF IInv, OutputSound, WellFormed
  <2>2. ~w.virt \/ w.vlen <= w.vfrom
    BY <2>1 DEF WellFormed, Writers
  <2> QED
    BY <2>1, <2>2, ContentFacts
<1> QED
  BY Invariance, <1>1, PTL

\* A caller that sees Aligned and forwards the rest of the input itself skips
\* and repeats nothing (lifecycle.go Aligned).
THEOREM AlignedCorrect == ASSUME UsedAsDocumented PROVE Spec => []AlignedIsCaughtUp
<1>1. IInv => AlignedIsCaughtUp
  <2> SUFFICES ASSUME IInv, pc = "caller", Aligned PROVE w.sent = want
    BY DEF AlignedIsCaughtUp
  <2>1. ~dead /\ Run(w) = <<>> /\ w.buf = <<>>
    BY DEF Aligned
  <2>2. Pending = <<>>
    BY DEF Pending
  <2>3. w.sent \in Seq(Int)
    BY DEF IInv, OutputSound, WellFormed, Writers
  <2>4. ((w.sent \o <<>>) \o <<>>) \o <<>> = w.sent
    BY <2>3, Concat
  <2> QED
    BY <2>1, <2>2, <2>4 DEF IInv, OutputComplete, Content
<1> QED
  BY Invariance, <1>1, PTL

LEMMA PrefixFacts ==
    ASSUME NEW r \in Seq(Int), NEW s \in Seq(Int), Continues(s, r)
    PROVE  Promise!IsPrefix(r, s)
<1>1. PICK t \in Seq(Int) : s = r \o t
  BY DEF Continues
<1>2. Len(s) = Len(r) + Len(t) /\ Len(r) \in Nat /\ Len(t) \in Nat
  BY <1>1, ConcatProperties, LenProperties
<1>3. SubSeq(s, 1, Len(r)) = SubSeq(r, 1, Len(r))
  BY <1>1, <1>2, SubSeqOfConcat1
<1>4. SubSeq(r, 1, Len(r)) = r
  BY SubSeqFull
<1> QED
  BY <1>2, <1>3, <1>4 DEF Promise!IsPrefix

\* The transformer implements OutputStream: an ordered, gap-free output, none
\* of it before the commit point, all of it after Finish.
THEOREM StreamKeepsPromise == ASSUME UsedAsDocumented PROVE Spec => KeepsPromise
<1>1. Init => Promise!Init
  <2> SUFFICES ASSUME Init PROVE Promise!Init
    OBVIOUS
  <2>1. w.sent = <<>>
    BY DEF Init, NewWriter
  <2> QED
    BY <2>1 DEF Init, Promise!Init
<1>2. IInv /\ IInv' /\ [Next]_vars => [Promise!Next]_(Promise!vars)
  <2> SUFFICES ASSUME IInv, IInv', [Next]_vars
               PROVE  [Promise!Next]_(Promise!vars)
    OBVIOUS
  <2>1. CASE UNCHANGED vars
    BY <2>1 DEF vars, outVars, callVars, Promise!vars
  <2>2. CASE Next
    <3>1. Advances
      BY <2>2, NextStep
    <3>2. CASE dead \/ finished
      BY <3>1, <3>2 DEF Advances, Promise!vars
    <3>3. CASE ~(dead \/ finished)
      <4>1. /\ Continues(want', want) /\ Continues(w'.sent, w.sent)
            /\ committed => committed'
            /\ finished' => ~dead' /\ w'.sent = want'
        BY <3>1, <3>3 DEF Advances
      <4>2. /\ want \in Seq(Int) /\ want' \in Seq(Int)
            /\ w.sent \in Seq(Int) /\ w'.sent \in Seq(Int)
            /\ Continues(want', w'.sent)
        BY DEF IInv, OutputComplete, OutputSound, WellFormed, Writers
      <4>3. /\ Promise!IsPrefix(want, want')
            /\ Promise!IsPrefix(w.sent, w'.sent)
            /\ Promise!IsPrefix(w'.sent, want')
        BY <4>1, <4>2, PrefixFacts
      <4>4. w'.sent # w.sent => committed'
        BY <4>1 DEF IInv, OutputSound
      <4>5. Promise!Next
        BY <3>3, <4>1, <4>3, <4>4 DEF Promise!Next
      <4> QED
        BY <4>5
    <3> QED
      BY <3>2, <3>3
  <2> QED
    BY <2>1, <2>2
<1>3. Spec => [][Next]_vars
  BY PTL DEF Spec
<1>4. Spec => Init
  BY PTL DEF Spec
<1> QED
  BY Invariance, <1>1, <1>2, <1>3, <1>4, PTL DEF KeepsPromise, Promise!Spec
=============================================================================
