------------------------------- MODULE Stream -------------------------------
(***************************************************************************)
(* The life of one stream: Write and the scan it runs, the commit window,  *)
(* Out or the sink, Suspend and Resume, Flush, Compact, CommitNow, Finish  *)
(* (src/engine/lifecycle.go, with the parts of engine.go and region.go     *)
(* that hand bytes to the writer).                                         *)
(*                                                                         *)
(* A document is a sequence of byte positions.  A step of the scan is one  *)
(* byte and what the loop does with it: a byte of the root's own frame (a  *)
(* key, whitespace, punctuation, anything inside an entered container),    *)
(* the first byte of a value whose action opens a region, a byte of that   *)
(* region, its end.  Which bytes these are is ScanGrammar's concern; here  *)
(* they come in every order the grammar allows.  The hooks are every hook: *)
(* a callback may write, suspend, commit, bail.                            *)
(*                                                                         *)
(* MaxIn bounds the bytes of a document, ChunkMax a chunk, MaxGen the      *)
(* values hooks generate.  Three CONSTANTS describe how the transformer    *)
(* is used, for the runs to vary:                                          *)
(*   SuspendsAtValue  a hook may suspend in OnElem or OnStart and still    *)
(*                    answer with an action that opens a region            *)
(*   OpensEarly       a hook may force the level open (Writer.Open) before *)
(*                    it has a child                                       *)
(*   TakesBefore      the calls before which the caller takes the output   *)
(*                    of a transformer without a sink (README: "Call Out() *)
(*                    after each Write")                                   *)
(***************************************************************************)
EXTENDS OutputWriter

CONSTANTS CommitBytes, MaxIn, ChunkMax, MaxGen,
          SuspendsAtValue, OpensEarly, TakesBefore

ASSUME StreamAssumption ==
    /\ CommitBytes \in Nat \ {0}
    /\ {MaxIn, ChunkMax, MaxGen} \subseteq Nat
    /\ {SuspendsAtValue, OpensEarly} \subseteq BOOLEAN
    /\ TakesBefore \subseteq {"Write", "Resume", "Compact"}

VARIABLES
    pc,          \* "caller" between calls, "scan" inside Write
    w,           \* the writer
    sink,        \* SetSink was called
    committed, dead, finished,
    suspendReq, suspended, held,     \* held: how many bytes are kept
    scanned, scanBase, len, i, rs,   \* the chunk is [scanBase, scanBase+len)
    rootSeen, rootDone, lead, tail,  \* lead, tail: whitespace outside the root
    ready,       \* a value may start here
    regOpen, regT, regInner,
    gens,        \* values generated so far
    want         \* history: what the output must be, unit by unit

outVars   == <<w, committed, dead, suspendReq, want>>
callVars  == <<sink, finished, suspended, held>>
chunkVars == <<scanned, scanBase, len>>
posVars   == <<i, rs>>
rootVars  == <<rootSeen, rootDone, lead, tail>>
regVars   == <<ready, regOpen, regT, regInner>>
vars == <<pc, outVars, callVars, chunkVars, posVars, rootVars, regVars, gens>>

\* Where the bytes of a region go: to the output as a range of the chunk
\* ("rtOut"), to the output and a copy ("rtObserve"; also a checked or
\* suffixed Pass), to a copy only ("rtCapture"), nowhere ("rtSkip").
Targets == {"rtOut", "rtObserve", "rtCapture", "rtSkip"}
Emits(target) == target \in {"rtOut", "rtObserve"}

CloseUnit   == -2
LeadUnit    == -3
TailUnit    == -4
KeyUnit(b)  == -(10 + b)
GenUnit(k)  == -(100 + k)

----------------------------------------------------------------------------
(* Effects.  A step computes what becomes of the output in a record and    *)
(* assigns it once.                                                        *)

Now == [w |-> w, committed |-> committed, dead |-> dead,
        suspendReq |-> suspendReq, want |-> want]

Becomes(e) ==
    /\ w' = e.w /\ committed' = e.committed /\ dead' = e.dead
    /\ suspendReq' = e.suspendReq /\ want' = e.want

Wanting(e, u) == [e EXCEPT !.want = @ \o u]

\* The opening bracket, the first time something is written inside.
OpenIfNeeded(e) == IF e.w.opened THEN <<>> ELSE <<OpenUnit>>

\* syncFlushRun after the commit point.
Commit(e) ==
    [e EXCEPT !.committed = TRUE,
              !.w.flushRun = sink /\ ~e.w.fixed]

CommitNow(e) ==
    IF e.committed THEN e
    ELSE LET c == Commit(e) IN
         IF sink THEN [c EXCEPT !.w = drain(c.w)] ELSE c

\* A hook writes a member: its key through Key, its value through Raw.
HookWrites(e, u) ==
    Wanting([e EXCEPT !.w = materialise(KeyRawAt(e.w, u))],
            OpenIfNeeded(e) \o u)

HookOpens(e) == Wanting([e EXCEPT !.w = ensureOpen(e.w)], OpenIfNeeded(e))

Callbacks ==
    {"nothing", "write", "suspend", "commit", "bail"}
        \union (IF OpensEarly THEN {"open"} ELSE {})

\* What a hook did during a callback.
Hook(cb, e) ==
    CASE cb = "nothing" -> e
      [] cb = "write"   -> HookWrites(e, <<GenUnit(gens)>>)
      [] cb = "open"    -> HookOpens(e)
      [] cb = "suspend" -> [e EXCEPT !.suspendReq = TRUE]
      [] cb = "commit"  -> CommitNow(e)
      [] cb = "bail"    -> [e EXCEPT !.dead = TRUE]

MayCall(cb) ==
    /\ cb \in Callbacks
    /\ cb = "write" => gens < MaxGen

Generated(cb) == gens' = IF cb = "write" THEN gens + 1 ELSE gens

----------------------------------------------------------------------------
(* Region bytes on their way to the writer.                                *)

emitRun(v, from, to) ==
    CASE regT = "rtOut"     -> passthroughAt(v, scanBase, from, to)
      [] regT = "rtObserve" -> Raw(v, Bytes(scanBase + from, scanBase + to))
      [] OTHER              -> v

\* With a sink, a run that crosses the commit window is split there.
emitRegionAt(e, from, to) ==
    LET room   == CommitBytes - (scanBase + from)
        splits == sink /\ ~e.committed /\ room < to - from
        before == IF splits /\ room > 0
                  THEN [e EXCEPT !.w = emitRun(e.w, from, from + room)] ELSE e
        past   == IF splits THEN Commit(before) ELSE before
        rest   == IF splits /\ room > 0 THEN from + room ELSE from
    IN  [past EXCEPT !.w = emitRun(past.w, rest, to)]

flush(e, end) ==
    IF rs >= 0 /\ end > rs THEN emitRegionAt(e, rs, end) ELSE e

----------------------------------------------------------------------------
Init ==
    /\ pc = "caller"
    /\ sink \in BOOLEAN
    /\ \E fixed \in BOOLEAN : w = NewWriter(fixed)
    /\ want = <<>>
    /\ committed = FALSE /\ dead = FALSE /\ finished = FALSE
    /\ suspendReq = FALSE /\ suspended = FALSE /\ held = 0
    /\ scanned = 0 /\ scanBase = 0 /\ len = 0
    /\ i = 0 /\ rs = -1
    /\ rootSeen = FALSE /\ rootDone = FALSE /\ lead = FALSE /\ tail = FALSE
    /\ ready = FALSE /\ regOpen = FALSE
    /\ regT = "rtSkip" /\ regInner = FALSE
    /\ gens = 0

----------------------------------------------------------------------------
(* The scan: one byte at a time, until the chunk is used up, a hook asked  *)
(* to suspend, or the transformer is dead.                                 *)

Scanning == pc = "scan" /\ i < len /\ ~suspendReq /\ ~dead

InFrame == Scanning /\ rootSeen /\ ~rootDone /\ ~regOpen

\* Mutant: the whitespace branch does not advance.
OutsideRootStays ==
    /\ Scanning
    /\ \/ ~rootSeen /\ lead' = TRUE /\ UNCHANGED tail
       \/ rootDone /\ tail' = TRUE /\ UNCHANGED lead
    /\ UNCHANGED <<pc, outVars, callVars, chunkVars, posVars, rootSeen, rootDone,
                   regVars, gens>>

OutsideRootByte ==
    /\ Scanning
    /\ \/ ~rootSeen /\ lead' = TRUE /\ UNCHANGED tail
       \/ rootDone /\ tail' = TRUE /\ UNCHANGED lead
    /\ i' = i + 1
    /\ UNCHANGED <<pc, outVars, callVars, chunkVars, rs, rootSeen, rootDone,
                   regVars, gens>>

\* The root opens: its level is registered, the whitespace before it goes to
\* the buffer as it is.
Root ==
    /\ Scanning /\ ~rootSeen
    /\ LET u == IF lead THEN <<LeadUnit>> ELSE <<>>
       IN  Becomes(Wanting([Now EXCEPT !.w = append(w, u)], u))
    /\ rootSeen' = TRUE /\ ready' = TRUE
    /\ i' = i + 1
    /\ UNCHANGED <<pc, callVars, chunkVars, rs, rootDone, lead, tail,
                   regOpen, regT, regInner, gens>>

\* A byte of the frame: it may end a key (OnKey) or leave an entered
\* container (OnLeave).
FrameByte(cb) ==
    /\ InFrame /\ MayCall(cb)
    /\ Becomes(Hook(cb, Now)) /\ Generated(cb)
    /\ ready' = TRUE
    /\ i' = i + 1
    /\ UNCHANGED <<pc, callVars, chunkVars, rs, rootVars, regOpen, regT, regInner>>

RootClose(cb) ==
    /\ InFrame /\ MayCall(cb)
    /\ Becomes(Hook(cb, Now)) /\ Generated(cb)
    /\ rootDone' = TRUE
    /\ i' = i + 1
    /\ UNCHANGED <<pc, callVars, chunkVars, rs, rootSeen, lead, tail, regVars>>

\* valueStart and apply: OnElem or OnStart runs, the key is written, the
\* region opens at this byte (after it, for the content of a string).
ValueStart(target, inner, cb) ==
    LET called == Hook(cb, Now)
        unit   == <<KeyUnit(scanBase + i)>>
        opened == IF ~Emits(target) THEN called
                  ELSE Wanting([called EXCEPT !.w = KeyRawAt(called.w, unit)],
                               OpenIfNeeded(called) \o unit)
    IN
    /\ InFrame /\ ready /\ MayCall(cb)
    /\ cb = "suspend" => SuspendsAtValue
    /\ inner => target = "rtOut"
    /\ IF cb = "bail"
       THEN /\ Becomes(called)
            /\ UNCHANGED <<regVars, posVars, gens>>
       ELSE /\ Becomes(IF Emits(target) /\ ~inner
                       THEN Wanting(opened, <<scanBase + i>>) ELSE opened)
            /\ Generated(cb)
            /\ regOpen' = TRUE /\ regT' = target /\ regInner' = inner
            /\ ready' = FALSE
            /\ rs' = IF inner THEN i + 1 ELSE i
            /\ i' = i + 1
    /\ UNCHANGED <<pc, callVars, chunkVars, rootVars>>

RegionByte ==
    /\ Scanning /\ regOpen
    /\ Becomes(IF Emits(regT) THEN Wanting(Now, <<scanBase + i>>) ELSE Now)
    /\ i' = i + 1
    /\ UNCHANGED <<pc, callVars, chunkVars, rs, rootVars, regVars, gens>>

\* The region ends: with this byte (a bracket, a quote), just before it (a
\* literal, the byte then belonging to the frame), or with it but without it
\* in the output (the closing quote of a string's content).  flush, then
\* endRegion, whose OnValue only a captured or observed value has.
RegionEnd(how, cb) ==
    LET with    == how = "with"
        end     == IF with THEN i + 1 ELSE i
        emitted == flush(Now, end)
        wanted  == IF with /\ Emits(regT)
                   THEN Wanting(emitted, <<scanBase + i>>) ELSE emitted
    IN
    /\ Scanning /\ regOpen /\ MayCall(cb)
    /\ regInner <=> how = "inside"
    /\ cb # "nothing" => regT \in {"rtObserve", "rtCapture"}
    /\ Becomes(Hook(cb, wanted)) /\ Generated(cb)
    /\ regOpen' = FALSE
    /\ rs' = -1
    /\ i' = IF how = "before" THEN i ELSE i + 1
    /\ UNCHANGED <<pc, callVars, chunkVars, rootVars, ready, regT, regInner>>

\* Mutant: a suspended Write counts the bytes it keeps as scanned.
ScannedWithKept(stops) == scanned

\* What Write has scanned: not the bytes it keeps.
ScannedAfter(stops) == IF stops THEN scanBase + i ELSE scanned

\* Mutant: the sink is given output before the commit point.
HandOverEarly(e) == IF ~dead THEN drain(e.w) ELSE e.w

\* With a sink, Write ends by handing over what is final.
HandOver(e) == IF ~dead /\ e.committed THEN drain(e.w) ELSE e.w

\* The loop is left: the run of an open region is emitted, and Write decides
\* what is kept, whether the commit point is past, and what leaves.
WriteReturns ==
    LET left    == IF regOpen /\ ~dead THEN flush(Now, len) ELSE Now
        stops   == suspendReq /\ ~dead
        total   == ScannedAfter(stops)
        gated   == IF ~dead /\ ~left.committed /\ total >= CommitBytes
                   THEN Commit(left) ELSE left
        drained == IF ~sink THEN gated
                   ELSE [gated EXCEPT !.w = release(HandOver(gated))]
    IN
    /\ pc = "scan" /\ ~Scanning
    /\ Becomes([drained EXCEPT !.suspendReq = FALSE])
    /\ suspended' = stops
    /\ held' = IF stops THEN len - i ELSE held
    /\ scanned' = total
    /\ pc' = "caller" /\ rs' = -1 /\ i' = 0 /\ len' = 0
    /\ UNCHANGED <<sink, finished, scanBase, rootVars, regVars, gens>>

ScanStep ==
    \/ OutsideRootByte \/ Root \/ RegionByte
    \/ \E cb \in Callbacks :
        \/ FrameByte(cb) \/ RootClose(cb)
        \/ \E target \in Targets, inner \in BOOLEAN : ValueStart(target, inner, cb)
        \/ \E how \in {"with", "before", "inside"} : RegionEnd(how, cb)
    \/ WriteReturns

----------------------------------------------------------------------------
(* The caller.                                                             *)

Calling == pc = "caller" /\ ~dead /\ ~finished

\* The caller has taken what a transformer without a sink had for it.
Taken(call) ==
    (call \in TakesBefore /\ committed /\ ~sink) => Run(w) = <<>>

Begin(n) ==
    /\ pc' = "scan"
    /\ scanBase' = scanned /\ len' = n /\ scanned' = scanned + n
    /\ w' = startChunk(w, scanned)
    /\ i' = 0
    /\ rs' = IF regOpen THEN 0 ELSE -1
    /\ UNCHANGED <<committed, dead, suspendReq, want, sink, finished,
                   rootVars, regVars, gens>>

Write(n) ==
    /\ Calling /\ ~suspended /\ Taken("Write")
    /\ scanned + n <= MaxIn
    /\ Begin(n)
    /\ UNCHANGED <<suspended, held>>

Resume ==
    /\ Calling /\ suspended /\ Taken("Resume")
    /\ suspended' = FALSE /\ held' = 0
    /\ Begin(held)

CallerKeeps == UNCHANGED <<pc, callVars, chunkVars, posVars, rootVars, regVars>>

\* Write or Finish while suspended.
Misuse ==
    /\ Calling /\ suspended
    /\ Becomes([Now EXCEPT !.dead = TRUE])
    /\ CallerKeeps /\ UNCHANGED gens

Out ==
    /\ Calling /\ committed /\ ~sink
    /\ Becomes([Now EXCEPT !.w = take(w)])
    /\ CallerKeeps /\ UNCHANGED gens

Flush ==
    /\ Calling /\ sink /\ committed
    /\ Becomes([Now EXCEPT !.w = drain(w)])
    /\ CallerKeeps /\ UNCHANGED gens

Compact ==
    /\ Calling /\ Taken("Compact")
    /\ Becomes([Now EXCEPT !.w = release(w)])
    /\ CallerKeeps /\ UNCHANGED gens

CallerCommits ==
    /\ Calling
    /\ Becomes(CommitNow(Now))
    /\ CallerKeeps /\ UNCHANGED gens

\* While suspended between two members the protocol owns the output.
WriteOutside ==
    /\ Calling /\ suspended /\ ~regOpen /\ ~rootDone
    /\ gens < MaxGen
    /\ Becomes(Hook("write", Now)) /\ Generated("write")
    /\ CallerKeeps

\* Finish: Tail, the root's bracket, the whitespace after it, and out.
Finish(cb) ==
    LET tailed == Hook(cb, Now)
        units  == <<CloseUnit>> \o (IF tail THEN <<TailUnit>> ELSE <<>>)
        closed == [tailed EXCEPT !.w = Raw(ensureOpen(tailed.w), units)]
        final  == Commit(Wanting(closed, OpenIfNeeded(tailed) \o units))
    IN
    /\ Calling /\ ~suspended
    /\ cb \in {"nothing", "write", "bail"} /\ MayCall(cb)
    /\ IF ~rootDone \/ cb = "bail"
       THEN /\ Becomes([Now EXCEPT !.dead = TRUE])
            /\ UNCHANGED <<finished, gens>>
       ELSE /\ Becomes([final EXCEPT !.w = IF sink THEN release(drain(final.w))
                                                   ELSE take(final.w)])
            /\ finished' = TRUE
            /\ Generated(cb)
    /\ UNCHANGED <<pc, sink, suspended, held, chunkVars, posVars, rootVars, regVars>>

CallerStep ==
    \/ \E n \in 0..ChunkMax : Write(n)
    \/ Resume \/ Misuse \/ Out \/ Flush \/ Compact \/ CallerCommits
    \/ WriteOutside
    \/ \E cb \in Callbacks : Finish(cb)

Next == ScanStep \/ CallerStep

\* The scan is a loop that runs; whether the caller calls is its affair.
Spec == Init /\ [][Next]_vars /\ WF_vars(ScanStep)

----------------------------------------------------------------------------
(* Properties.                                                             *)

\* The stream's state stays in its types.
TypeOK ==
    /\ pc \in {"caller", "scan"}
    /\ {sink, committed, dead, finished, suspendReq, suspended, rootSeen,
        rootDone, lead, tail, ready, regOpen, regInner} \subseteq BOOLEAN
    /\ regT \in Targets
    /\ {scanned, scanBase, len, i, held, gens} \subseteq 0..MaxIn + MaxGen
    /\ rs \in -1..MaxIn
    /\ w.buf \in Seq(Int) /\ w.sent \in Seq(Int) /\ want \in Seq(Int)
    /\ {w.virt, w.fixed, w.flushRun, w.opened} \subseteq BOOLEAN
    /\ {w.vp, w.vfrom, w.vlen} \subseteq 0..MaxIn /\ w.n \in {0, 1}

\* The bytes of an open region the loop has read and not yet emitted.
Pending ==
    IF pc = "scan" /\ regOpen /\ Emits(regT) /\ rs >= 0
    THEN Bytes(scanBase + rs, scanBase + i) ELSE <<>>

\* Nothing is lost, repeated or moved: at every point what has been handed
\* over, what is held and what the loop is carrying are, in this order, the
\* output the protocol's answers describe -- across every chunk boundary,
\* hand-over, suspension and commit (README, invariant 1; writer.go:259-311,
\* engine.go:443-466, lifecycle.go:207-308).
NothingLost ==
    ~dead => w.sent \o w.buf \o Run(w) \o Pending = want

\* The run and the buffer are never both held (writethrough_test.go): what is
\* in the buffer would leave after a run that came later.
RunOrBuffer == Run(w) # <<>> => w.buf = <<>>

\* Before the commit point everything is in the buffer, none of it a view of
\* the caller's chunk: Write drops its reference to the chunk when there is a
\* sink (lifecycle.go:306) and hands nothing over yet.
HeldBeforeCommit == pc = "caller" /\ ~committed => Run(w) = <<>> /\ w.sent = <<>>

\* Mutant: buffered output is forgotten.
AlignedUnlessRun ==
    /\ committed /\ ~dead /\ ~suspended
    /\ regOpen /\ regT = "rtOut"
    /\ Run(w) = <<>>
    /\ rootSeen => w.opened

\* Aligned().  pendSet, a replay, deferred bytes and trailing whitespace are
\* outside this module; a suffixed Pass is an rtObserve here.
Aligned ==
    /\ committed /\ ~dead /\ ~suspended
    /\ regOpen /\ regT = "rtOut"
    /\ Run(w) = <<>> /\ w.buf = <<>>
    /\ rootSeen => w.opened

\* When Aligned says so, all of the output so far has been handed over: the
\* caller may stop and forward the rest of the input itself
\* (lifecycle.go:50-63).
AlignedIsCaughtUp == pc = "caller" /\ Aligned => w.sent = want

\* Write always returns: the loop leaves every chunk.
WriteTerminates == pc = "scan" ~> pc = "caller"

Promise == INSTANCE OutputStream WITH sent <- w.sent

\* The transformer keeps the promise of OutputStream: an ordered, gap-free
\* output, none of it before the commit point, all of it after Finish.
KeepsPromise == Promise!Spec
=============================================================================
