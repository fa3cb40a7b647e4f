------------------------------- MODULE Budget -------------------------------
(***************************************************************************)
(* What a transformer holds and when it gives up: the bounded copies of    *)
(* Capture, Observe, Defer, Prefix and of a type check, the output kept    *)
(* before the commit point, the budget over all of them, and the offset an *)
(* overflow is reported at (src/engine/region.go, lifecycle.go,            *)
(* errors.go).                                                             *)
(*                                                                         *)
(* Buffers are lengths.  A document is a sequence of byte positions, cut   *)
(* into chunks anywhere; a step of the scan is a byte of the frame (with a *)
(* callback), the first byte of a value and the region it opens, a byte of *)
(* that region, its last byte.  The key of a pair counts for KeyLen bytes. *)
(* A replay would only repeat these steps with limits off (Deferral).      *)
(*                                                                         *)
(* CommitBytes is the commit window and ValCap the bound of a checked copy *)
(* (64KB both, in the code).  Budgets and Caps are the limits tried (0 is  *)
(* none), Targets what a value may be answered with.  MaxIn bounds the     *)
(* bytes of a document.                                                    *)
(***************************************************************************)
EXTENDS Integers

CONSTANTS CommitBytes, ValCap, KeyLen, Budgets, Caps, Targets, MaxIn

ASSUME BudgetAssumption ==
    /\ {CommitBytes, ValCap, KeyLen} \subseteq Nat \ {0}
    /\ Budgets \subseteq Nat /\ Caps \subseteq Nat /\ MaxIn \in Nat
    /\ Targets \subseteq {"rtOut", "rtSkip", "rtCapture", "rtObserve",
                          "rtDefer", "rtPrefix", "rtValidate"}

VARIABLES
    pc,                         \* "caller" between calls, "scan" inside Write
    sink, budget,               \* SetSink was called, SetBudget's bound
    scanned, scanBase, len, i, rs,   \* the chunk is [scanBase, scanBase+len)
    committed, dead, code, offset, limitAt,
    buf,                        \* length of the output kept before the commit
    capBuf,                     \* length of the open region's copy
    deferredBytes,
    regOpen, regT, regInner, regCap, valOver, valEmit,
    start,      \* history, read by the properties only: where the copy starts,
    unfit,      \* the first byte for which there was no room (-1: none yet),
    split,      \* the run that did not fit was split at the window,
    copies,     \* hooks of a stream that still runs were given whole copies,
    late,       \* OnPrefix was called though the stream was over,
    early       \* CommitNow was called

chunkVars  == <<scanned, scanBase, len>>
regionVars == <<regOpen, regInner, regCap, valEmit, start>>
effectVars == <<committed, dead, code, offset, limitAt, buf, capBuf, regT,
                valOver, unfit, split, copies, late>>
vars == <<pc, sink, budget, chunkVars, i, rs, deferredBytes, regionVars,
          effectVars, early>>

Now == [committed |-> committed, dead |-> dead, code |-> code,
        offset |-> offset, limitAt |-> limitAt, buf |-> buf, capBuf |-> capBuf,
        regT |-> regT, valOver |-> valOver, unfit |-> unfit, split |-> split,
        copies |-> copies, late |-> late]

Becomes(e) ==
    /\ committed' = e.committed /\ dead' = e.dead /\ code' = e.code
    /\ offset' = e.offset /\ limitAt' = e.limitAt
    /\ buf' = e.buf /\ capBuf' = e.capBuf
    /\ regT' = e.regT /\ valOver' = e.valOver
    /\ unfit' = e.unfit /\ split' = e.split
    /\ copies' = e.copies /\ late' = e.late

----------------------------------------------------------------------------
\* BailCode: the first reason is kept, its offset not known yet.
Bail(e, c) ==
    IF e.dead THEN e ELSE [e EXCEPT !.dead = TRUE, !.code = c, !.offset = -1]

fixOffset(e, off) ==
    IF e.code # "none" /\ e.offset < 0 THEN [e EXCEPT !.offset = off] ELSE e

Buffered(e) ==
    e.capBuf + deferredBytes + (IF e.committed THEN 0 ELSE e.buf)

checkBudget(e, extra) ==
    IF budget > 0 /\ Buffered(e) + extra > budget THEN Bail(e, "limit") ELSE e

\* Output is written: before the commit point it is kept, and never as a
\* virtual run, the root's opening bracket being in the buffer before it.
Raw(e, n) == IF e.committed THEN e ELSE [e EXCEPT !.buf = @ + n]

\* Mutant: what is over the cap is cut off.
capAppendCuts(e, n) ==
    LET room == regCap - e.capBuf IN
    [e EXCEPT !.capBuf = IF regCap > 0 /\ n > room THEN @ + room ELSE @ + n]

capAppend(e, n) ==
    IF regCap > 0 /\ e.capBuf + n > regCap
    THEN Bail([e EXCEPT !.limitAt = regCap - e.capBuf], "limit")
    ELSE IF budget > 0 /\ Buffered(e) + n > budget
    THEN Bail([e EXCEPT !.limitAt = IF budget < Buffered(e) THEN 0
                                    ELSE budget - Buffered(e)], "limit")
    ELSE [e EXCEPT !.capBuf = @ + n]

\* What OnPrefix may answer.
PrefixAnswers == {"Pass", "Skip", "Bail"}

\* The window goes to OnPrefix, and nothing is changed when the stream is over
\* by then.  The budget was not asked of the bytes that filled the window.
runPrefix(e, whole, answer) ==
    LET seen == [e EXCEPT !.copies = @ /\ whole, !.unfit = -1] IN
    CASE e.dead -> [e EXCEPT !.late = TRUE]
      [] ~e.dead /\ answer = "Bail" -> Bail(seen, "protocol")
      [] ~e.dead /\ answer = "Skip" ->
            [seen EXCEPT !.regT = "rtSkip", !.capBuf = 0]
      [] ~e.dead /\ answer = "Pass" ->
            [Raw(seen, seen.capBuf) EXCEPT !.regT = "rtOut", !.capBuf = 0]

\* Mutant: the copy for the type check is not bounded.
ValidateAppendUnbounded(e, n) == [e EXCEPT !.capBuf = @ + n]

\* The copy for a type check gives up softly.
ValidateAppend(e, n) ==
    IF e.valOver THEN e
    ELSE IF e.capBuf + n > regCap THEN [e EXCEPT !.valOver = TRUE, !.capBuf = 0]
    ELSE [e EXCEPT !.capBuf = @ + n]

emitPlain(e, n) ==
    CASE e.regT = "rtOut"     -> Raw(e, n)
      [] e.regT = "rtObserve" -> capAppend(Raw(e, n), n)
      [] e.regT \in {"rtCapture", "rtDefer"} -> capAppend(e, n)
      [] e.regT = "rtValidate" ->
            ValidateAppend(IF valEmit THEN Raw(e, n) ELSE e, n)
      [] OTHER -> e

\* emitRun and emitRegion: the n bytes from at on for the region's target.
emitRegion(e, at, n, answer) ==
    LET room   == regCap - e.capBuf
        turned == runPrefix([e EXCEPT !.capBuf = regCap],
                            e.capBuf = at - start, answer)
    IN  IF e.regT # "rtPrefix" THEN emitPlain(e, n)
        ELSE IF room >= n
        THEN LET c == checkBudget(e, n) IN
             IF c.dead THEN c ELSE [c EXCEPT !.capBuf = @ + n]
        ELSE IF turned.dead THEN turned ELSE emitPlain(turned, n - room)

\* With a sink, a run that crosses the commit window is split there; the rest
\* is handed on even when the stream is over by then.
emitRegionAt(e, from, to, answer) ==
    LET at      == scanBase + from
        room    == CommitBytes - at
        crosses == sink /\ ~e.committed /\ room < to - from
        half    == crosses /\ room > 0
        before  == IF half THEN emitRegion(e, at, room, answer) ELSE e
        past    == IF crosses THEN [before EXCEPT !.committed = TRUE] ELSE e
        done    == IF half THEN room ELSE 0
    IN  [emitRegion(past, at + done, to - from - done, answer) EXCEPT
            !.split = half]

\* Mutant: an overflow is reported at the end of the run.
flushAtEnd(e, end, answer) ==
    IF rs < 0 \/ end <= rs THEN e
    ELSE LET f == emitRegionAt(e, rs, end, answer)
         IN  IF f.dead THEN fixOffset(f, scanBase + end) ELSE f

flush(e, end, answer) ==
    IF rs < 0 \/ end <= rs THEN e
    ELSE LET f == emitRegionAt(e, rs, end, answer)
         IN  IF f.dead THEN fixOffset(f, scanBase + rs + f.limitAt) ELSE f

\* CommitNow.
Committing(e) ==
    LET c == checkBudget(e, 0) IN
    IF e.committed \/ e.dead THEN e
    ELSE IF c.dead THEN c ELSE [c EXCEPT !.committed = TRUE]

----------------------------------------------------------------------------
Init ==
    /\ pc = "caller" /\ sink \in BOOLEAN /\ budget \in Budgets
    /\ scanned = 0 /\ scanBase = 0 /\ len = 0 /\ i = 0 /\ rs = -1
    /\ committed = FALSE /\ dead = FALSE /\ code = "none"
    /\ offset = 0 /\ limitAt = 0
    /\ buf = 0 /\ capBuf = 0 /\ deferredBytes = 0
    /\ regOpen = FALSE /\ regT = "rtNone" /\ regInner = FALSE /\ regCap = 0
    /\ valOver = FALSE /\ valEmit = FALSE
    /\ start = 0 /\ unfit = -1 /\ split = FALSE
    /\ copies = TRUE /\ late = FALSE /\ early = FALSE

Scanning == pc = "scan" /\ i < len /\ ~dead

Callbacks == {"nothing", "commit", "bail"}

Hook(cb, e) ==
    CASE cb = "nothing" -> e
      [] cb = "commit"  -> Committing(e)
      [] cb = "bail"    -> Bail(e, "protocol")

Early(cb) == early' = (early \/ (cb = "commit" /\ ~committed))

\* A byte of a dispatch frame; OnKey or OnLeave may run.
FrameByte(cb) ==
    /\ Scanning /\ ~regOpen
    /\ Becomes(Hook(cb, Now)) /\ Early(cb)
    /\ i' = i + 1
    /\ UNCHANGED <<pc, sink, budget, chunkVars, rs, deferredBytes, regionVars>>

Emits(target, emit) ==
    target \in {"rtOut", "rtObserve"} \/ (target = "rtValidate" /\ emit)

\* The output that is kept, besides the copy, when the byte b of the run from r
\* on is taken: none past the commit point, and Observe's bytes are output too.
Kept(e, r, b) ==
    IF e.committed \/ (sink /\ b >= CommitBytes) THEN 0
    ELSE e.buf + (IF e.regT = "rtObserve" THEN b - r + 1 ELSE 0)

\* Is the budget asked of the byte b of the copy that started at s?  A byte
\* past OnPrefix's window is not copied.
Asked(e, cap, s, b) ==
    /\ budget > 0
    /\ \/ e.regT \in {"rtCapture", "rtDefer", "rtObserve"}
       \/ e.regT = "rtPrefix" /\ b - s < cap

\* The copy that started at s takes the byte b: is there room?
Fits(e, cap, s, r, b) ==
    /\ e.regT \in {"rtCapture", "rtDefer", "rtObserve"} /\ cap > 0
        => b - s + 1 <= cap
    /\ Asked(e, cap, s, b)
        => b - s + 1 + deferredBytes + Kept(e, r, b) <= budget

Judged(e, cap, s, r, b) ==
    [e EXCEPT !.unfit = IF @ = -1 /\ ~Fits(e, cap, s, r, b) THEN b ELSE @]

\* The actions that take a cap.
Capped == {"rtCapture", "rtObserve", "rtDefer", "rtPrefix"}

\* valueStart and apply: OnElem or OnStart, the key is written, the region
\* opens.  An Inner one starts at the string's content, as a Prefix does.
ValueStart(target, cap, emit, inner, cb) ==
    LET called == Hook(cb, Now)
        begun  == [(IF Emits(target, emit) THEN Raw(called, KeyLen) ELSE called)
                    EXCEPT !.regT = target, !.capBuf = 0, !.valOver = FALSE]
        first  == scanBase + i + (IF inner THEN 1 ELSE 0)
    IN
    /\ Scanning /\ ~regOpen
    /\ cap > 0 => target \in Capped
    /\ emit => target = "rtValidate"
    /\ target = "rtPrefix" => inner
    /\ inner => target \in {"rtOut", "rtObserve", "rtPrefix"}
    /\ Early(cb)
    /\ IF called.dead
       THEN /\ Becomes(called)
            /\ UNCHANGED <<regionVars, rs, i>>
       ELSE /\ Becomes(IF inner THEN begun
                       ELSE Judged(begun, cap, first, first, first))
            /\ regOpen' = TRUE /\ regInner' = inner /\ valEmit' = emit
            /\ regCap' = IF target = "rtValidate" THEN ValCap ELSE cap
            /\ start' = first /\ rs' = first - scanBase
            /\ i' = i + 1
    /\ UNCHANGED <<pc, sink, budget, chunkVars, deferredBytes>>

\* The next byte of the open region, which its run does not hold yet.
Seen == Judged(Now, regCap, start, scanBase + rs, scanBase + i)

\* A byte of the region that is not its last: only the lexer sees it.
RegionByte ==
    /\ Scanning /\ regOpen
    /\ Becomes(Seen)
    /\ i' = i + 1
    /\ UNCHANGED <<pc, sink, budget, chunkVars, rs, deferredBytes, regionVars,
                   early>>

\* endRegion with its OnValue or OnPrefix: the region ended before end.
endRegion(f, end, answer, cb) ==
    LET whole == f.capBuf = scanBase + end - start
        given == [f EXCEPT !.copies = @ /\ whole]
    IN  IF f.dead THEN f
        ELSE CASE f.regT \in {"rtCapture", "rtObserve"} -> Hook(cb, given)
               [] f.regT = "rtDefer"  -> given
               [] f.regT = "rtPrefix" -> runPrefix(f, whole, answer)
               [] OTHER -> f

\* The closing quote is not part of an Inner region, whatever OnPrefix made it.
RegionEnd(answer, cb) ==
    LET end  == IF regInner THEN i ELSE i + 1
        done == endRegion(flush(IF regInner THEN Now ELSE Seen, end, answer),
                          end, answer, cb)
    IN
    /\ Scanning /\ regOpen
    /\ cb # "nothing" => regT \in {"rtCapture", "rtObserve"}
    /\ Early(cb)
    /\ Becomes(IF done.dead THEN done ELSE [done EXCEPT !.capBuf = 0,
                                                       !.regT = "rtNone"])
    /\ deferredBytes' = IF ~done.dead /\ done.regT = "rtDefer"
                        THEN deferredBytes + KeyLen + done.capBuf
                        ELSE deferredBytes
    /\ regOpen' = done.dead /\ rs' = -1
    /\ i' = i + 1
    /\ UNCHANGED <<pc, sink, budget, chunkVars, regInner, regCap, valEmit, start>>

\* Mutant: the commit window is not looked at when a Write ends.
GateOpen(e) == TRUE

\* The loop is left: the rest of an open region is flushed, an error gets the
\* scan's position, the kept output is held against the budget, the commit
\* window is looked at.
Gate(e) == scanned >= CommitBytes

WriteReturns(answer) ==
    LET left   == IF regOpen /\ ~dead THEN flush(Now, len, answer) ELSE Now
        placed == IF left.dead THEN fixOffset(left, scanBase + i) ELSE left
        asked  == checkBudget(placed, 0)
    IN
    /\ pc = "scan" /\ ~Scanning
    /\ Becomes(IF placed.dead \/ placed.committed THEN placed
               ELSE IF asked.dead THEN asked
               ELSE [asked EXCEPT !.committed = Gate(asked)])
    /\ pc' = "caller" /\ rs' = -1 /\ i' = 0 /\ len' = 0
    /\ UNCHANGED <<sink, budget, scanned, scanBase, deferredBytes, regionVars,
                   early>>

----------------------------------------------------------------------------
Write(n) ==
    /\ pc = "caller" /\ ~dead
    /\ scanned + n <= MaxIn
    /\ pc' = "scan"
    /\ scanBase' = scanned /\ len' = n /\ scanned' = scanned + n
    /\ i' = 0 /\ rs' = IF regOpen THEN 0 ELSE -1
    /\ UNCHANGED <<sink, budget, deferredBytes, regionVars, effectVars, early>>

CallerCommits ==
    /\ pc = "caller" /\ ~dead /\ ~committed
    /\ Becomes(Committing(Now)) /\ early' = TRUE
    /\ UNCHANGED <<pc, sink, budget, chunkVars, i, rs, deferredBytes, regionVars>>

\* The held pairs are replayed or dropped (Deferral): their bytes are free.
Forget ==
    /\ pc = "scan" /\ ~dead /\ ~regOpen /\ deferredBytes > 0
    /\ deferredBytes' = 0
    /\ UNCHANGED <<pc, sink, budget, chunkVars, i, rs, regionVars, effectVars,
                   early>>

Next ==
    \/ \E cb \in Callbacks :
        \/ FrameByte(cb)
        \/ \E target \in Targets, cap \in Caps, emit, inner \in BOOLEAN :
                ValueStart(target, cap, emit, inner, cb)
        \/ \E answer \in PrefixAnswers : RegionEnd(answer, cb)
    \/ RegionByte \/ Forget \/ CallerCommits
    \/ \E answer \in PrefixAnswers : WriteReturns(answer)
    \/ \E n \in 0..MaxIn : Write(n)

Spec == Init /\ [][Next]_vars

----------------------------------------------------------------------------
Codes == {"none", "limit", "protocol"}

OneLimit == budget = 0 \/ regCap = 0

\* Before the commit point Observe's output is counted before its copy asks.
CountedTwice == regT = "rtObserve" /\ budget > 0 /\ ~committed

\* Where the run that was flushed last starts.
RunStart == IF start > scanBase THEN start ELSE scanBase

\* Every variable has its type.
TypeOK ==
    /\ pc \in {"caller", "scan"}
    /\ {sink, committed, dead, regOpen, regInner, valOver, valEmit, split,
        copies, late, early} \subseteq BOOLEAN
    /\ {scanned, scanBase, len, i, start} \subseteq 0..MaxIn + 1
    /\ {budget, limitAt, buf, capBuf, deferredBytes, regCap} \subseteq Nat
    /\ rs \in -1..MaxIn /\ offset \in -1..MaxIn /\ unfit \in -1..MaxIn
    /\ code \in Codes
    /\ regT \in Targets \cup {"rtNone", "rtOut", "rtSkip"}

\* Between two calls a stream that still runs holds no more than its budget,
\* a key that came with the last pair put aside, and the bounded copy of a
\* type check: whatever mixture of captures, replays, early commits and
\* chunk borders came before (lifecycle.go:13, 29, region.go:336).
HoldBounded ==
    /\ TypeOK
    /\ pc = "caller" /\ ~dead /\ budget > 0 =>
          Buffered(Now) <= budget + (IF deferredBytes > 0 THEN KeyLen ELSE 0)
                                  + (IF regT = "rtValidate" THEN ValCap ELSE 0)

\* As long as the stream runs, OnValue, OnPrefix and a held pair get the value
\* whole, or OnPrefix the first regCap bytes when it is told that there is
\* more; never a copy that a chunk border or a full window cut.  Once it is
\* over only OnPrefix is called, and may see a hole (region.go:316, 331, 380).
CopiesWhole == copies

\* A byte for which a copy had no room has ended the stream by the time the
\* call returns, with an error that lies in the run that did not fit.  A
\* Prefix's names the start of that run, which depends on the chunks
\* (region.go:313 leaves limitAt alone).  Any other copy's names the byte,
\* unless the run was split at the commit window; or a later one when a cap and
\* the budget both ran out, an earlier one when Observe's bytes were counted as
\* output and as a copy (region.go:296, 330-340, engine.go:462).
OverflowStops ==
    pc = "caller" /\ unfit # -1 =>
        /\ dead /\ code = "limit" /\ offset \in RunStart..scanned - 1
        /\ regT = "rtPrefix" => offset = RunStart
        /\ regT # "rtPrefix" /\ ~split =>
              /\ ~CountedTwice => offset >= unfit
              /\ OneLimit => offset <= unfit

\* The caller can still fall back on its raw bytes for as long as the window
\* has not been scanned, and cannot once it has (lifecycle.go:299).
WindowHeld ==
    pc = "caller" /\ ~dead => (committed <=> scanned >= CommitBytes \/ early)

----------------------------------------------------------------------------
\* "Cap or budget overflow: the first byte that did not fit" (README.md:343).
FirstByteNamed == pc = "caller" /\ unfit # -1 => offset = unfit

\* "A Bail such as a buffer overflow already happened; do not hand truncated
\* data to the protocol" (region.go:380).
NoLateHook == ~late

\* "Within that window a Bail costs nothing" (README.md:326): a byte that did
\* not fit inside the window leaves the fallback open.
FallbackKept ==
    pc = "caller" /\ unfit \in 0..CommitBytes - 1 /\ ~early => ~committed
=============================================================================
