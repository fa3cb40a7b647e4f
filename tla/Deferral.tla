------------------------------ MODULE Deferral ------------------------------
(***************************************************************************)
(* Defer and Release: pairs held by a frame and dispatched again, by a     *)
(* scan that runs inside the scan (src/engine/region.go, lifecycle.go).    *)
(*                                                                         *)
(* A document is a stream of tokens, generated one by one: a key (a        *)
(* number, its place among all keys), a simple value, the bracket that     *)
(* opens an object or closes it.  Commas and colons are left out, arrays   *)
(* too: an element cannot be deferred.  A deferred value is held as the    *)
(* tokens the region copied, and a replay scans these tokens with the same *)
(* actions as the document.  The Go calls this nests (doRelease inside     *)
(* afterValue or closeContainer inside scan) are the records of calls,     *)
(* innermost last.                                                         *)
(*                                                                         *)
(* closeContainer keeps a pointer to its frame while replays run.  When    *)
(* one of them enters a container and frames has no room, append moves the *)
(* frames and the pointer keeps showing the old copy: frameCap is the room *)
(* and the field snap of a call the copy its pointer shows.                *)
(*                                                                         *)
(* MaxKeys and MaxNest bound the documents, MaxDefers the answers Defer.   *)
(* Uses names what the protocols do beyond the plain use:                  *)
(*   "overlap"  ask for a release while an outer frame's request waits     *)
(*   "suspend"  suspend in a callback that asked for a release, or in      *)
(*              OnKey of a replay                                          *)
(*   "redefer"  answer Defer to a pair replayed as its container closes    *)
(***************************************************************************)
EXTENDS Integers, Sequences, FiniteSets, FiniteSetsExt

CONSTANTS MaxKeys, MaxNest, MaxDefers, Uses

ASSUME DeferralAssumption ==
    /\ {MaxKeys, MaxNest, MaxDefers} \subseteq Nat
    /\ Uses \subseteq {"overlap", "suspend", "redefer"}

VARIABLES
    frames,     \* dispatch frames: [ph, deferred]
    frameCap,   \* capacity of the slice
    path, pend, pendSet, kvRaw,
    depth, st,
    regOpen, regT, regDepth, regKey, capBuf,
    wantRelease, releaseAt, deferredBytes,
    calls,      \* replays under way
    suspendReq, suspended, rootDone, dead, code,
    doc,        \* the document so far: open keys, key awaiting a value, the
                \* number of keys, and the text of each pair's value
    met, taken, defers, dropped,   \* history: the pairs OnKey was asked about,
                \* how often each was dispatched for good, the answers Defer,
                \* the pairs dropped
    asked       \* history: frames whose request is not served

regVars  == <<regOpen, regT, regDepth, regKey, capBuf>>
readVars == <<path, pend, pendSet, kvRaw, depth, st, regVars>>
heldVars == <<frames, frameCap, wantRelease, releaseAt, deferredBytes, calls>>
stopVars == <<suspendReq, suspended, rootDone, dead, code>>
tallies  == <<met, taken, defers>>
histVars == <<doc, tallies, dropped, asked>>
vars == <<readVars, heldVars, stopVars, histVars>>

Ids     == 1..MaxKeys

Simple == 0
Open   == -1
Close  == -2
Tokens == Ids \union {Simple, Open, Close}

Answers == {"Pass", "Capture", "Defer", "Enter"}
NewFrame == [ph |-> "phKey", deferred |-> <<>>]

Front(s) == SubSeq(s, 1, Len(s) - 1)
LastOf(s) == s[Len(s)]
Members(s) == {s[k] : k \in 1..Len(s)}

\* Bytes a held pair counts for: its key and its value.
Size(kv) == 1 + Len(kv.raw)
SizeOf(kvs) == MapThenSumSet(LAMBDA k : Size(kvs[k]), DOMAIN kvs)

----------------------------------------------------------------------------
(* Effects.  A step computes what becomes of the state that callbacks and  *)
(* safe points change in a record and assigns it once.                     *)

Now == [frames |-> frames, path |-> path, depth |-> depth,
        wantRelease |-> wantRelease, releaseAt |-> releaseAt,
        deferredBytes |-> deferredBytes, calls |-> calls,
        suspendReq |-> suspendReq, rootDone |-> rootDone,
        dead |-> dead, code |-> code,
        dropped |-> dropped, asked |-> asked]

Becomes(e) ==
    /\ frames' = e.frames /\ path' = e.path /\ depth' = e.depth
    /\ wantRelease' = e.wantRelease /\ releaseAt' = e.releaseAt
    /\ deferredBytes' = e.deferredBytes /\ calls' = e.calls
    /\ suspendReq' = e.suspendReq /\ rootDone' = e.rootDone
    /\ dead' = e.dead /\ code' = e.code
    /\ dropped' = e.dropped /\ asked' = e.asked

Top(e)     == LastOf(e.frames)
topFrame   == LastOf(frames)
call       == LastOf(calls)
Bailed(e, c) == [e EXCEPT !.dead = TRUE, !.code = c]

Replaying(e) == \E k \in 1..Len(e.calls) : e.calls[k].active

\* Mutant: the bytes are subtracted, the pairs stay.
forgetDeferredKeeps(e) == [e EXCEPT !.deferredBytes = @ - SizeOf(Top(e).deferred)]

forgetDeferred(e) ==
    [e EXCEPT !.deferredBytes = @ - SizeOf(Top(e).deferred),
              !.frames[Len(e.frames)].deferred = <<>>]

\* What a hook did during a callback.  Suspend is refused in a replay.
Hook(cb, e) ==
    CASE cb = "release" ->
            [e EXCEPT !.wantRelease = TRUE, !.releaseAt = Len(e.frames),
                      !.asked = @ \union {Len(e.frames)}]
      [] cb = "drop"    ->
            [forgetDeferred(e) EXCEPT
                !.dropped = @ \union {kv.key : kv \in Members(Top(e).deferred)}]
      [] cb = "suspend" ->
            IF Replaying(e) THEN Bailed(e, "misuse")
                            ELSE [e EXCEPT !.suspendReq = TRUE]
      [] cb = "bail"    -> Bailed(e, "protocol")
      [] OTHER          -> e

Callbacks == {"nothing", "release", "drop", "suspend", "bail"}

MayCall(cb) ==
    /\ cb = "release" /\ wantRelease /\ releaseAt # Len(frames)
           => "overlap" \in Uses
    /\ cb = "suspend" /\ wantRelease /\ releaseAt = Len(frames)
           => "suspend" \in Uses

\* doRelease: the held pairs of the frame on top are to be replayed; at is
\* where the code goes on afterwards.
Released(e, at) ==
    [forgetDeferred(e) EXCEPT
        !.asked = @ \ {Len(e.frames)},
        !.calls = Append(@, [at |-> at, frame |-> Len(e.frames),
                             todo |-> Top(e).deferred,
                             raw |-> <<>>, active |-> FALSE,
                             stale |-> FALSE, snap |-> <<>>])]

\* Mutant: any frame's safe point serves the request.
ReleaseDueAnywhere(e) == e.wantRelease

ReleaseDue(e) == e.wantRelease /\ e.releaseAt = Len(e.frames)

afterValue(e) ==
    LET done == [e EXCEPT !.frames[Len(e.frames)].ph = "phComma",
                          !.path = Front(@)]
    IN  IF ReleaseDue(e) THEN Released([done EXCEPT !.wantRelease = FALSE], "value")
        ELSE done

\* Entering a container: a frame of its own.  When frames is full it moves,
\* and the closings under way keep their pointer to the old copy.
pushFrame(e) ==
    LET moves == Len(e.frames) = frameCap
        Seen(c) == IF moves /\ c.at # "value" /\ ~c.stale
                   THEN [c EXCEPT !.stale = TRUE,
                                  !.snap = e.frames[c.frame].deferred]
                   ELSE c
    IN  [e EXCEPT !.frames = Append(@, NewFrame),
                  !.calls = [k \in DOMAIN @ |-> Seen(@[k])]]

----------------------------------------------------------------------------
(* The document, and the tokens of a held value.                           *)

Scanning == ~dead /\ ~suspended /\ ~suspendReq /\ ~rootDone

InReplay == calls # <<>> /\ call.active

\* The documents fed: objects of at most MaxKeys pairs, nested to MaxNest.
Grows(tok) ==
    \/ doc.value # 0 /\ tok = Simple
    \/ doc.value # 0 /\ tok = Open /\ Len(doc.open) < MaxNest - 1
    \/ doc.value = 0 /\ tok = Close
    \/ doc.value = 0 /\ tok = doc.last + 1

\* The next token the running scan reads is tok.
Ready(tok) ==
    /\ Scanning /\ st = "sIdle"
    /\ IF calls = <<>> THEN Grows(tok)
       ELSE InReplay /\ call.raw # <<>> /\ Head(call.raw) = tok

Holders == Members(doc.open) \union (IF doc.value # 0 THEN {doc.value} ELSE {})

Extended(tok) ==
    [open  |-> IF tok = Open THEN Append(doc.open, doc.value)
               ELSE IF tok = Close /\ doc.open # <<>> THEN Front(doc.open)
               ELSE doc.open,
     value |-> IF tok \in Ids THEN tok ELSE 0,
     last  |-> IF tok \in Ids THEN tok ELSE doc.last,
     text  |-> [id \in Ids |-> IF id \in Holders THEN Append(doc.text[id], tok)
                                                 ELSE doc.text[id]]]

\* The token is consumed: doc follows the document, not the held values.
Reads(tok) ==
    doc' = IF calls = <<>> THEN Extended(tok) ELSE doc

Consumed(e) ==
    IF calls = <<>> THEN e
    ELSE [e EXCEPT !.calls[Len(calls)].raw = Tail(@)]

SyntaxError ==
    /\ Becomes(Bailed(Now, "syntax"))
    /\ UNCHANGED <<frameCap, pend, pendSet, kvRaw, st, regVars, suspended,
                   doc, tallies>>

----------------------------------------------------------------------------
Init ==
    /\ frames = <<NewFrame>> /\ frameCap = 1
    /\ path = <<>> /\ pend = "Pass" /\ pendSet = FALSE /\ kvRaw = 0
    /\ depth = 1 /\ st = "sIdle"
    /\ regOpen = FALSE /\ regT = "rtNone" /\ regDepth = 0
    /\ regKey = 0 /\ capBuf = <<>>
    /\ wantRelease = FALSE /\ releaseAt = 0 /\ deferredBytes = 0
    /\ calls = <<>>
    /\ suspendReq = FALSE /\ suspended = FALSE
    /\ rootDone = FALSE /\ dead = FALSE /\ code = "none"
    /\ doc = [open |-> <<>>, value |-> 0, last |-> 0,
              text |-> [id \in Ids |-> <<>>]]
    /\ met = {} /\ taken = [id \in Ids |-> 0] /\ defers = 0
    /\ dropped = {} /\ asked = {}

\* The replay whose pair OnKey has judged scans its value: replaying counts
\* it only then.
Running(cs) == IF cs = <<>> THEN cs ELSE [cs EXCEPT ![Len(cs)].active = TRUE]

\* Mutant: the raw key stays that of the last pair read.
DispatchedOverKey(e, id, raw, act, cb) ==
    /\ MayCall(cb)
    /\ act = "Defer" => defers < MaxDefers
    /\ Becomes([Hook(cb, [e EXCEPT !.path = Append(@, id)]) EXCEPT
                    !.frames[Len(e.frames)].ph = "phValue",
                    !.calls = Running(@)])
    /\ pend' = act /\ pendSet' = TRUE
    /\ kvRaw' = IF calls = <<>> THEN raw ELSE kvRaw
    /\ taken' = IF act = "Defer" THEN taken ELSE [taken EXCEPT ![id] = @ + 1]
    /\ met' = met \union {id}
    /\ defers' = IF act = "Defer" THEN defers + 1 ELSE defers
    /\ UNCHANGED <<frameCap, st, regVars, suspended>>

\* OnKey is asked for the pair id and answers act; e is the state it sees.
Dispatched(e, id, raw, act, cb) ==
    /\ MayCall(cb)
    /\ act = "Defer" => defers < MaxDefers
    /\ Becomes([Hook(cb, [e EXCEPT !.path = Append(@, id)]) EXCEPT
                    !.frames[Len(e.frames)].ph = "phValue",
                    !.calls = Running(@)])
    /\ pend' = act /\ pendSet' = TRUE /\ kvRaw' = raw
    /\ taken' = IF act = "Defer" THEN taken ELSE [taken EXCEPT ![id] = @ + 1]
    /\ met' = met \union {id}
    /\ defers' = IF act = "Defer" THEN defers + 1 ELSE defers
    /\ UNCHANGED <<frameCap, st, regVars, suspended>>

\* A key and its colon: onKeyDone.
Key(id, act, cb) ==
    /\ Ready(id) /\ ~regOpen
    /\ IF topFrame.ph = "phValue" THEN SyntaxError
       ELSE Dispatched(Consumed(Now), id, id, act, cb) /\ Reads(id)

TargetOf(act) ==
    CASE act = "Capture" -> "rtCapture" [] act = "Defer" -> "rtDefer"
      [] OTHER -> "rtOut"

\* valueStart and apply.
Value(tok) ==
    /\ tok \in {Simple, Open}
    /\ Ready(tok) /\ ~regOpen
    /\ IF topFrame.ph # "phValue" THEN SyntaxError
       ELSE
       /\ pendSet' = FALSE
       /\ Reads(tok)
       /\ IF pend = "Enter"
          THEN IF tok = Simple
               THEN Becomes(Bailed(Now, "unsupported")) /\ UNCHANGED frameCap
               ELSE LET e == Consumed(Now) IN
                    /\ Becomes([pushFrame(e) EXCEPT !.depth = @ + 1])
                    /\ frameCap' = IF Len(frames) = frameCap THEN 2 * frameCap
                                                             ELSE frameCap
          ELSE LET e == Consumed(Now) IN
               /\ Becomes([e EXCEPT !.depth = IF tok = Open THEN @ + 1 ELSE @])
               /\ UNCHANGED frameCap
       /\ IF pend = "Enter" THEN UNCHANGED <<regVars, st>>
          ELSE /\ regOpen' = TRUE /\ regT' = TargetOf(pend)
               /\ regDepth' = depth
               /\ regKey' = IF pend = "Defer" THEN LastOf(path) ELSE regKey
               /\ capBuf' = IF pend = "Pass" THEN <<>> ELSE <<tok>>
               /\ st' = IF tok = Simple THEN "sInStr" ELSE "sIdle"
       /\ UNCHANGED <<pend, kvRaw, suspended, tallies>>

\* Mutant: the bytes of the value are not counted.
endRegionKeyOnly(e, raw, cb) ==
    LET kv     == [key |-> regKey, keyRaw |-> kvRaw, raw |-> raw]
        closed == IF regT = "rtDefer"
                  THEN [e EXCEPT !.frames[Len(e.frames)].deferred = Append(@, kv),
                                 !.deferredBytes = @ + 1]
                  ELSE Hook(cb, e)
    IN  IF closed.dead THEN closed ELSE afterValue(closed)

\* endRegion and afterValue, raw being what the region has copied.
endRegion(e, raw, cb) ==
    LET kv     == [key |-> regKey, keyRaw |-> kvRaw, raw |-> raw]
        closed == IF regT = "rtDefer"
                  THEN [e EXCEPT !.frames[Len(e.frames)].deferred = Append(@, kv),
                                 !.deferredBytes = @ + Size(kv)]
                  ELSE Hook(cb, e)
    IN  IF closed.dead THEN closed ELSE afterValue(closed)

RegionEnds(e, raw, cb) ==
    /\ IF regT = "rtCapture" THEN MayCall(cb) ELSE cb = "nothing"
    /\ Becomes(endRegion(e, raw, cb))
    /\ regOpen' = FALSE /\ regT' = "rtNone" /\ capBuf' = <<>>
    /\ UNCHANGED <<regDepth, regKey>>

Copies == regT \in {"rtCapture", "rtDefer"}

\* A byte of a region: a member of the value, or the bracket it ends with.
RegionByte(tok, cb) ==
    LET e    == [Consumed(Now) EXCEPT
                    !.depth = CASE tok = Open  -> @ + 1
                                [] tok = Close -> @ - 1
                                [] OTHER         -> @]
        copy == IF Copies THEN Append(capBuf, tok) ELSE capBuf
    IN
    /\ Ready(tok) /\ regOpen
    /\ Reads(tok)
    /\ IF tok = Close /\ e.depth = regDepth
       THEN RegionEnds(e, copy, cb)
       ELSE /\ cb = "nothing"
            /\ Becomes(e)
            /\ capBuf' = copy
            /\ UNCHANGED <<regOpen, regT, regDepth, regKey>>
    /\ UNCHANGED <<frameCap, pend, pendSet, kvRaw, st, suspended, tallies>>

\* The end of a string or a literal that is the region's own value.
SimpleEnd(cb) ==
    /\ Scanning /\ st = "sInStr"
    /\ st' = "sIdle"
    /\ RegionEnds(Now, capBuf, cb)
    /\ UNCHANGED <<frameCap, pend, pendSet, kvRaw, suspended, doc, tallies>>

----------------------------------------------------------------------------
(* The closing of a dispatch frame: OnLeave, a replay asked for in it with *)
(* ReleaseNow, one requested with Release, the check for leftovers.        *)

OthersOnClose == <<frameCap, pend, pendSet, kvRaw, st, regVars, suspended,
                   tallies>>

CloseFrame(cb) ==
    LET e == Consumed(Now)
        h == IF cb = "releaseNow" THEN Hook("nothing", e) ELSE Hook(cb, e)
    IN
    /\ Ready(Close) /\ ~regOpen
    /\ IF topFrame.ph = "phValue" THEN SyntaxError
       ELSE /\ cb = "releaseNow" \/ MayCall(cb)
            /\ cb = "suspend" /\ wantRelease => "suspend" \in Uses
            /\ Becomes(IF h.dead THEN h
                       ELSE IF cb = "releaseNow" THEN Released(h, "leave")
                       ELSE [h EXCEPT !.calls = Append(@,
                                [at |-> "leave", frame |-> Len(frames),
                                 todo |-> <<>>, raw |-> <<>>, active |-> FALSE,
                                 stale |-> FALSE, snap |-> <<>>])])
            /\ Reads(Close)
            /\ UNCHANGED OthersOnClose

\* What closeContainer's pointer shows of the frame it closes.
LeftIn(e, c) == IF c.stale THEN c.snap ELSE Top(e).deferred

\* Mutant: a frame closes over what it still holds.
CloseEndUnchecked(e, c) ==
    LET popped == [e EXCEPT !.frames = Front(@), !.depth = @ - 1,
                            !.asked = @ \ {Len(e.frames)}]
    IN  IF popped.depth = 0 THEN [popped EXCEPT !.rootDone = TRUE]
        ELSE afterValue(popped)

\* The frame is popped, its container a value of the one around it.
CloseEnd(e, c) ==
    IF LeftIn(e, c) # <<>> THEN Bailed(e, "leftover")
    ELSE LET popped == [e EXCEPT !.frames = Front(@), !.depth = @ - 1,
                                 !.asked = @ \ {Len(e.frames)}]
         IN  IF popped.depth = 0 THEN [popped EXCEPT !.rootDone = TRUE]
             ELSE afterValue(popped)

----------------------------------------------------------------------------
(* doRelease and replayKV.                                                 *)

Between == ~dead /\ calls # <<>> /\ ~call.active

\* The next held pair goes through OnKey again, and its value is scanned.
ReplayNext(act, cb) ==
    LET kv == Head(call.todo) IN
    /\ Between /\ call.todo # <<>>
    /\ cb = "suspend" => "suspend" \in Uses
    /\ act = "Defer" /\ call.at # "value" => "redefer" \in Uses
    /\ LET e == [Now EXCEPT !.calls[Len(calls)].todo = Tail(@),
                        !.calls[Len(calls)].raw = kv.raw]
       IN  Dispatched(e, kv.key, kv.keyRaw, act, cb)
    /\ UNCHANGED doc

\* Mutant: a replay is cut as soon as the value's first token is read.
ReplayEndEarly ==
    /\ ~dead /\ InReplay /\ st = "sIdle"
    /\ Becomes([Now EXCEPT !.calls[Len(calls)].raw = <<>>,
                         !.calls[Len(calls)].active = FALSE])
    /\ UNCHANGED <<OthersOnClose, doc>>

ReplayEnd ==
    /\ ~dead /\ InReplay /\ st = "sIdle"
    /\ call.raw = <<>> \/ suspendReq
    /\ Becomes([Now EXCEPT !.calls[Len(calls)].raw = <<>>,
                         !.calls[Len(calls)].active = FALSE])
    /\ UNCHANGED <<OthersOnClose, doc>>

\* All held pairs are replayed: back to where doRelease was called.
Return ==
    LET e == [Now EXCEPT !.calls = Front(@)] IN
    /\ Between /\ call.todo = <<>>
    /\ Becomes(CASE call.at = "value" -> e
                 [] call.at = "leave" /\ ReleaseDue(e) ->
                        [Released([e EXCEPT !.wantRelease = FALSE], "close")
                            EXCEPT !.calls[Len(calls)].stale = call.stale,
                                   !.calls[Len(calls)].snap = call.snap]
                 [] OTHER -> CloseEnd(e, call))
    /\ UNCHANGED <<OthersOnClose, doc>>

----------------------------------------------------------------------------
\* Write returns suspended; Resume goes on with the kept bytes.
Suspends ==
    /\ ~dead /\ suspendReq /\ calls = <<>>
    /\ suspended' = TRUE
    /\ Becomes([Now EXCEPT !.suspendReq = FALSE])
    /\ UNCHANGED <<frameCap, pend, pendSet, kvRaw, st, regVars, doc, tallies>>

Resume ==
    /\ ~dead /\ suspended
    /\ suspended' = FALSE
    /\ UNCHANGED <<readVars, heldVars, suspendReq, rootDone, dead, code, histVars>>

ScanStep ==
    \/ \E id \in Ids, act \in Answers, cb \in Callbacks : Key(id, act, cb)
    \/ \E tok \in Tokens :
        \/ Value(tok)
        \/ \E cb \in Callbacks : RegionByte(tok, cb)
    \/ \E cb \in Callbacks : SimpleEnd(cb)
    \/ \E cb \in Callbacks \union {"releaseNow"} : CloseFrame(cb)
    \/ \E act \in Answers, cb \in Callbacks : ReplayNext(act, cb)
    \/ ReplayEnd \/ Return

Next == ScanStep \/ Suspends \/ Resume

Spec == Init /\ [][Next]_vars

----------------------------------------------------------------------------
(* Properties.                                                             *)

Pairs == [key : Ids, keyRaw : Ids, raw : Seq(Tokens)]

\* The state of deferral stays in its types; the count of held bytes, which
\* decides Aligned and the budget, never goes below zero.
TypeOK ==
    /\ \A k \in DOMAIN frames :
        /\ frames[k].ph \in {"phKey", "phValue", "phComma"}
        /\ frames[k].deferred \in Seq(Pairs)
    /\ \A k \in DOMAIN calls :
        /\ calls[k].at \in {"value", "leave", "close"}
        /\ calls[k].frame \in 1..Len(frames)
        /\ calls[k].todo \in Seq(Pairs) /\ calls[k].snap \in Seq(Pairs)
        /\ calls[k].raw \in Seq(Tokens)
    /\ frameCap \in Nat /\ depth \in Nat /\ regDepth \in Nat
    /\ path \in Seq(Ids) /\ kvRaw \in 0..MaxKeys /\ regKey \in 0..MaxKeys
    /\ pend \in Answers /\ st \in {"sIdle", "sInStr"}
    /\ regT \in {"rtNone", "rtOut", "rtCapture", "rtDefer"}
    /\ capBuf \in Seq(Tokens)
    /\ deferredBytes \in Nat /\ releaseAt \in Nat
    /\ {pendSet, regOpen, wantRelease, suspendReq, suspended, rootDone, dead}
           \subseteq BOOLEAN

\* Where the pair id is: held by a frame, waiting in a replay, being copied.
Places(id) ==
    {x \in {"frame"} \X (DOMAIN frames) \X Ids :
        /\ x[3] \in DOMAIN frames[x[2]].deferred
        /\ frames[x[2]].deferred[x[3]].key = id}
    \union
    {x \in {"replay"} \X (DOMAIN calls) \X Ids :
        /\ x[3] \in DOMAIN calls[x[2]].todo
        /\ calls[x[2]].todo[x[3]].key = id}
    \union (IF \/ regOpen /\ regT = "rtDefer" /\ regKey = id
               \/ pendSet /\ pend = "Defer" /\ LastOf(path) = id
            THEN {<<"read", 0, 0>>} ELSE {})

\* No pair is lost or dispatched twice: one that a hook was asked about and
\* answered Defer is in exactly one place until it is dispatched for good or
\* dropped by the hook -- through nested replays, pairs deferred again and
\* frames closed and opened over the same storage (region.go:513-517, README:
\* "dropping them silently would change what the document means").
PairsAccounted ==
    ~dead =>
        \A id \in met :
            Cardinality(Places(id)) + taken[id] + (IF id \in dropped THEN 1 ELSE 0) = 1

Held == UNION ({Members(frames[k].deferred) : k \in DOMAIN frames}
               \union {Members(calls[k].todo) : k \in DOMAIN calls})

\* The count of held bytes is the bytes held by the frames (lifecycle.go:13-19
\* and 65 rest on it), whatever was replayed, dropped or deferred again.
BytesExact ==
    ~dead => deferredBytes =
        MapThenSumSet(LAMBDA k : SizeOf(frames[k].deferred), DOMAIN frames)

\* What a frame holds is what the document had: the raw key of that very pair
\* and the whole of its value, also for pairs that were inside a held value
\* and were deferred in its replay.  kvRaw, capBuf and regKey are single
\* fields every replay overwrites.
HeldIsValue ==
    ~dead => \A kv \in Held : kv.keyRaw = kv.key /\ kv.raw = doc.text[kv.key]

\* A request to release is kept until it is served (lifecycle.go:420-421: "if
\* the callback returned Enter into a child frame, the replay waits until
\* this frame is back").
RequestKept == ~dead => \A k \in asked : wantRelease /\ releaseAt = k

docPath == doc.open \o (IF doc.value # 0 THEN <<doc.value>> ELSE <<>>)

\* When no replay is running the scanner is where the document is: the path,
\* the frames and the phase are as if no pair had ever been replayed, and a
\* well-formed document is never refused.
PlaceIsDocument ==
    /\ code # "syntax"
    /\ ~dead /\ calls = <<>> /\ st = "sIdle" /\ ~rootDone =>
        /\ Len(path) <= Len(docPath) /\ path = SubSeq(docPath, 1, Len(path))
        /\ Len(path) = IF topFrame.ph = "phValue" THEN Len(frames)
                                                  ELSE Len(frames) - 1
        /\ IF regOpen
           THEN /\ topFrame.ph = "phValue" /\ regDepth = Len(frames)
                /\ depth = Len(doc.open) + 1
           ELSE path = docPath /\ depth = Len(frames)
=============================================================================
