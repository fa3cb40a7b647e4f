---------------------------- MODULE OutputWriter ----------------------------
(***************************************************************************)
(* The output side as a data structure (src/engine/writer.go): what a      *)
(* write does to the buffer and to the virtual run.                        *)
(*                                                                         *)
(* Output is a sequence of units.  The input byte at position b of the     *)
(* whole stream is the unit b; what is written otherwise (an opening       *)
(* bracket, a separator with its key, a value a hook generated) is one     *)
(* negative unit per write.  A writer is a record:                         *)
(*   buf           the real buffer                                         *)
(*   virt          output is still counted through the chunk, not copied   *)
(*   vp            where the chunk starts in the stream                    *)
(*   vfrom, vlen   the run still held is chunk[vfrom, vlen)                *)
(*   flushRun      finished output may go to the sink instead of a copy    *)
(*   fixed         the buffer is the caller's (SetOutBuffer)               *)
(*   opened, n     the output level: opened yet, has a child yet (one      *)
(*                 level here; LazyLevels has the stack of them)           *)
(*   sent          what the sink or Out has handed over so far             *)
(* The buffer's storage (reserve, take, the pool, capacities) is left out: *)
(* no unit of output depends on it.                                        *)
(***************************************************************************)
EXTENDS Integers, Sequences

CONSTANT FlushRunMin    \* flushRunMin, 16KB in the code

ASSUME FlushRunMinAssumption == FlushRunMin \in Nat \ {0}

OpenUnit == -1

\* The stream's bytes from position a up to b.
Bytes(a, b) == [k \in 1..b - a |-> a + k - 1]

Run(w) == IF w.virt THEN Bytes(w.vp + w.vfrom, w.vp + w.vlen) ELSE <<>>

NewWriter(fixed) ==
    [buf |-> <<>>, virt |-> FALSE, vp |-> 0, vfrom |-> 0, vlen |-> 0,
     flushRun |-> FALSE, fixed |-> fixed, opened |-> FALSE, n |-> 0,
     sent |-> <<>>]

append(w, u) == [w EXCEPT !.buf = @ \o u]

\* The virtual run becomes real: handed over when it is large, final and
\* alone, copied otherwise.
materialise(w) ==
    IF ~w.virt THEN w
    ELSE IF w.flushRun /\ w.vlen - w.vfrom >= FlushRunMin /\ w.buf = <<>>
    THEN [w EXCEPT !.virt = FALSE, !.sent = @ \o Run(w), !.vfrom = w.vlen]
    ELSE [w EXCEPT !.virt = FALSE, !.buf = @ \o Run(w)]

Raw(w, u) == append(materialise(w), u)

ensureOpen(w) ==
    IF w.opened THEN w
    ELSE [Raw(w, <<OpenUnit>>) EXCEPT !.opened = TRUE]

\* The comma is part of the unit the caller appends next.
sep(w) ==
    [(IF w.n > 0 THEN materialise(w) ELSE w) EXCEPT !.n = 1]

\* KeyRawAt, KeyAt, ElemRawAt, ElemAt: the start of a member.
KeyRawAt(w, u) == append(sep(ensureOpen(w)), u)

\* Mutant: the buffer is not handed over before the run begins.
passthroughKeepsBuffer(w, p, from, to) ==
    IF w.virt /\ from = w.vlen THEN [w EXCEPT !.vlen = to]
    ELSE LET m == materialise(w) IN
         IF m.flushRun /\ to - from >= FlushRunMin
         THEN [m EXCEPT !.vp = p, !.vfrom = from, !.vlen = to, !.virt = TRUE]
         ELSE append(m, Bytes(p + from, p + to))

\* chunk[from, to), where the chunk starts at p in the stream.
passthroughAt(w, p, from, to) ==
    IF w.virt /\ from = w.vlen THEN [w EXCEPT !.vlen = to]
    ELSE LET m == materialise(w) IN
         IF m.flushRun /\ to - from >= FlushRunMin
         THEN [m EXCEPT !.sent = @ \o m.buf, !.buf = <<>>,
                        !.vp = p, !.vfrom = from, !.vlen = to, !.virt = TRUE]
         ELSE append(m, Bytes(p + from, p + to))

\* Mutant: output is counted through the chunk even after buffered output.
startChunkAlways(w, p) ==
    [w EXCEPT !.vp = p, !.vfrom = 0, !.vlen = 0, !.virt = TRUE]

startChunk(w, p) ==
    [w EXCEPT !.vp = p, !.vfrom = 0, !.vlen = 0, !.virt = (w.buf = <<>>)]

release(w) ==
    [w EXCEPT !.vp = 0, !.vfrom = 0, !.vlen = 0, !.virt = FALSE]

\* Transformer.drain, once the commit point is known to be past.
drain(w) ==
    IF w.virt THEN [w EXCEPT !.sent = @ \o Run(w), !.vfrom = w.vlen]
    ELSE [w EXCEPT !.sent = @ \o w.buf, !.buf = <<>>]

\* Mutant: the run taken is still held.
takeKeeps(w) ==
    IF w.virt THEN [w EXCEPT !.sent = @ \o Run(w)]
    ELSE [release(w) EXCEPT !.sent = @ \o w.buf, !.buf = <<>>]

\* Transformer.Out: the run if there is one, else the buffer.
take(w) ==
    IF w.virt THEN [release(w) EXCEPT !.sent = @ \o Run(w)]
    ELSE [release(w) EXCEPT !.sent = @ \o w.buf, !.buf = <<>>]
=============================================================================
