---------------------------- MODULE ScanGrammar ----------------------------
(***************************************************************************)
(* The grammar half of the scan loop (src/engine/engine.go): which         *)
(* structural byte is accepted where, inside dispatch frames (containers   *)
(* the protocol entered, one frame record each) and inside regions         *)
(* (subtrees carried as raw bytes, with no frame: a depth count, a phase   *)
(* and one bit per open level, 64 of them in a word and the rest in a      *)
(* slice).                                                                 *)
(*                                                                         *)
(* A step is one structural byte, the start or the end of a string or a    *)
(* literal, or a chunk boundary.  The bytes inside strings and literals    *)
(* are another component's (Lexical): here they begin and end.  The        *)
(* protocol is every protocol: each callback may answer anything.          *)
(*                                                                         *)
(* BitLevels is the width of regKinds (64 in the code).  MaxDepth bounds   *)
(* the nesting of the documents fed, MaxDeep the growth of regDeep.        *)
(***************************************************************************)
EXTENDS Integers, Sequences

CONSTANTS BitLevels, MaxDepth, MaxDeep, RootKinds

ASSUME BoundsAssumption ==
    /\ BitLevels \in Nat \ {0}
    /\ MaxDepth \in Nat \ {0}
    /\ MaxDeep \in Nat
    /\ RootKinds \subseteq {"obj", "arr"}

VARIABLES
    st,        \* scanState: "sIdle", "sInKey", "sInStr", "sInScalar"
    frames,    \* dispatch frames, innermost last
    depth,     \* open containers, dispatched or not
    rootSeen, rootDone,
    regOpen, regDepth, regPh, regN,
    regKinds,  \* the set of levels whose bit says "array"
    regDeep,   \* kinds of the levels past BitLevels (TRUE = array)
    inLoop,    \* the tight region loop is running ...
    ph,        \* ... on its local copy of regPh
    dead, code, finished,
    tok,       \* history, read by the properties only: the last token ...
    kinds      \* ... and the kinds of the containers opened and not closed

frameVars  == <<frames, depth, rootSeen, rootDone>>
regionVars == <<regOpen, regDepth, regPh, regN, regKinds, regDeep>>
loopVars   == <<inLoop, ph>>
endVars    == <<dead, code, finished>>
readVars   == <<tok, kinds>>
vars == <<st, frameVars, regionVars, loopVars, endVars, readVars>>

Opens  == {"{", "["}
Closes == {"}", "]"}
KindOf(c) == IF c \in {"{", "}"} THEN "obj" ELSE "arr"

Phases == {"phKey", "phColon", "phValue", "phComma"}
RegPhases == {"rTop", "rKey0", "rKey", "rColon", "rOValue", "rOComma",
              "rAValue0", "rAValue", "rAComma"}

----------------------------------------------------------------------------
(* The phase tables of a region (state.go); "rErr" is "not allowed here".  *)

regAfterStr == [p \in RegPhases |->
    CASE p \in {"rKey0", "rKey"}       -> "rColon"
      [] p = "rOValue"                 -> "rOComma"
      [] p \in {"rAValue0", "rAValue"} -> "rAComma"
      [] OTHER                         -> "rErr"]

regAfterVal == [p \in RegPhases |->
    CASE p = "rOValue"                 -> "rOComma"
      [] p \in {"rAValue0", "rAValue"} -> "rAComma"
      [] OTHER                         -> "rErr"]

regAfterComma == [p \in RegPhases |->
    CASE p = "rOComma" -> "rKey"
      [] p = "rAComma" -> "rAValue"
      [] OTHER         -> "rErr"]

regClose == [p \in RegPhases |->
    CASE p \in {"rKey0", "rOComma"}    -> "obj"
      [] p \in {"rAValue0", "rAComma"} -> "arr"
      [] OTHER                         -> "none"]

----------------------------------------------------------------------------
(* Frames.  Of the counters idx and n the grammar only asks whether they   *)
(* have left their initial value, so they stop at the first one.           *)

NewFrame(k) ==
    [kind |-> k, ph |-> IF k = "arr" THEN "phValue" ELSE "phKey",
     idx |-> -1, n |-> 0]

top == frames[Len(frames)]
SetTop(fs, f) == [fs EXCEPT ![Len(fs)] = f]

\* afterValue: the frame on top has one more value and wants a comma.
\* Mutant: the frame forgets that it has a member.
WantsCommaUncounted(f) ==
    [kind |-> f.kind, ph |-> "phComma", idx |-> f.idx, n |-> f.n]

WantsComma(f) == [kind |-> f.kind, ph |-> "phComma", idx |-> f.idx, n |-> 1]

AfterValue(fs) ==
    IF fs = <<>> THEN fs ELSE SetTop(fs, WantsComma(fs[Len(fs)]))

----------------------------------------------------------------------------
(* The stack of region levels (region.go).                                 *)

\* Mutant: the bit of an object is left as an earlier region had it.
regPushKeepsBit(k) ==
    /\ regN' = regN + 1
    /\ IF regN + 1 <= BitLevels
       THEN /\ regKinds' = IF k = "arr" THEN regKinds \union {regN + 1}
                                        ELSE regKinds
            /\ UNCHANGED regDeep
       ELSE /\ regDeep' = Append(regDeep, k = "arr")
            /\ UNCHANGED regKinds
    /\ regPh' = IF k = "arr" THEN "rAValue0" ELSE "rKey0"

regPush(k) ==
    /\ regN' = regN + 1
    /\ IF regN + 1 <= BitLevels
       THEN /\ regKinds' = IF k = "arr" THEN regKinds \union {regN + 1}
                                        ELSE regKinds \ {regN + 1}
            /\ UNCHANGED regDeep
       ELSE /\ regDeep' = Append(regDeep, k = "arr")
            /\ UNCHANGED regKinds
    /\ regPh' = IF k = "arr" THEN "rAValue0" ELSE "rKey0"

\* Is the container at level n an array, as regPop finds it?
ParentArr(n) ==
    IF n <= BitLevels THEN n \in regKinds ELSE regDeep[n - BitLevels]

PhaseAfterPop ==
    IF regN = 1 THEN "rTop"
    ELSE IF ParentArr(regN - 1) THEN "rAComma" ELSE "rOComma"

regPop ==
    /\ regN' = regN - 1
    /\ regDeep' = IF regN - 1 > BitLevels
                  THEN SubSeq(regDeep, 1, regN - 1 - BitLevels)
                  ELSE regDeep
    /\ UNCHANGED regKinds

----------------------------------------------------------------------------
Init ==
    /\ st = "sIdle"
    /\ frames = <<>> /\ depth = 0
    /\ rootSeen = FALSE /\ rootDone = FALSE
    /\ regOpen = FALSE /\ regDepth = 0 /\ regPh = "rTop" /\ regN = 0
    /\ regKinds = {} /\ regDeep = <<>>
    /\ inLoop = FALSE /\ ph = "rTop"
    /\ dead = FALSE /\ code = "none" /\ finished = FALSE
    /\ tok = "eof" /\ kinds = <<>>

Live == ~dead /\ ~finished

\* BailCode: what a dead transformer leaves behind is never read again.
Bail(e) ==
    /\ dead' = TRUE /\ code' = e
    /\ UNCHANGED <<finished, frameVars, regionVars, loopVars>>

BailAt(c, e) == Bail(e) /\ tok' = c /\ UNCHANGED <<st, kinds>>

NoBail == UNCHANGED endVars

\* The history of a step that reads the token c, and of one that reads none.
Read(c) ==
    /\ tok' = c
    /\ kinds' = IF c \in Opens THEN Append(kinds, KindOf(c))
                ELSE IF c \in Closes THEN SubSeq(kinds, 1, Len(kinds) - 1)
                ELSE kinds

ReadNothing == UNCHANGED readVars

\* Documents are fed only down to MaxDepth, and past BitLevels only while
\* regDeep is short.
MayOpen ==
    /\ depth < MaxDepth
    /\ regN < BitLevels \/ Len(regDeep) < MaxDeep

----------------------------------------------------------------------------
(* The root, and what follows it.                                          *)

AtRoot == Live /\ st = "sIdle" /\ ~regOpen /\ frames = <<>>

Root(c) ==
    /\ AtRoot /\ ~rootDone
    /\ IF c \in Opens /\ KindOf(c) \in RootKinds
       THEN /\ rootSeen' = TRUE
            /\ depth' = 1
            /\ frames' = <<NewFrame(KindOf(c))>>
            /\ Read(c)
            /\ NoBail
            /\ UNCHANGED <<st, rootDone, regionVars, loopVars>>
       ELSE BailAt(c, "root")

Trailing(c) ==
    /\ AtRoot /\ rootDone
    /\ BailAt(c, "trailing")

\* Tail may bail.
Finish ==
    /\ Live /\ ~inLoop
    /\ IF rootDone
       THEN \/ /\ finished' = TRUE /\ Read("eof")
               /\ UNCHANGED <<st, frameVars, regionVars, loopVars, dead, code>>
            \/ BailAt("eof", "protocol")
       ELSE BailAt("eof", "incomplete")

----------------------------------------------------------------------------
(* Structural bytes of a dispatch frame.                                   *)

InFrame == Live /\ st = "sIdle" /\ ~regOpen /\ frames # <<>>

\* Mutant: a trailing comma closes an object.
FrameMayCloseAfterComma(k) ==
    /\ top.kind = k
    /\ k = "obj" => top.ph \notin {"phColon", "phValue"}
    /\ k = "arr" => ~(top.ph = "phValue" /\ top.idx >= 0)

FrameMayClose(k) ==
    /\ top.kind = k
    /\ k = "obj" => /\ top.ph \notin {"phColon", "phValue"}
                    /\ ~(top.ph = "phKey" /\ top.n > 0)
    /\ k = "arr" => ~(top.ph = "phValue" /\ top.idx >= 0)

\* closeContainer; OnLeave or a leftover Defer may bail instead.
FrameClose(c) ==
    /\ InFrame
    /\ c \in Closes
    /\ IF ~FrameMayClose(KindOf(c)) THEN BailAt(c, "syntax")
       ELSE \/ BailAt(c, "protocol")
            \/ /\ frames' = AfterValue(SubSeq(frames, 1, Len(frames) - 1))
               /\ depth' = depth - 1
               /\ rootDone' = (depth = 1)
               /\ Read(c)
               /\ NoBail
               /\ UNCHANGED <<st, rootSeen, regionVars, loopVars>>

FrameColon ==
    /\ InFrame
    /\ IF top.kind # "obj" \/ top.ph # "phColon" THEN BailAt(":", "syntax")
       ELSE /\ frames' = SetTop(frames, [top EXCEPT !.ph = "phValue"])
            /\ Read(":")
            /\ NoBail
            /\ UNCHANGED <<st, depth, rootSeen, rootDone, regionVars, loopVars>>

FrameComma ==
    /\ InFrame
    /\ IF top.ph # "phComma" THEN BailAt(",", "syntax")
       ELSE /\ frames' = SetTop(frames, [top EXCEPT
                             !.ph = IF top.kind = "obj" THEN "phKey"
                                                        ELSE "phValue"])
            /\ Read(",")
            /\ NoBail
            /\ UNCHANGED <<st, depth, rootSeen, rootDone, regionVars, loopVars>>

AtKey == top.kind = "obj" /\ top.ph = "phKey"

KeyStart ==
    /\ InFrame /\ AtKey
    /\ st' = "sInKey"
    /\ frames' = SetTop(frames, [top EXCEPT !.ph = "phColon"])
    /\ Read("str")
    /\ NoBail
    /\ UNCHANGED <<depth, rootSeen, rootDone, regionVars, loopVars>>

\* onKeyDone: OnKey, the duplicate-key policy or the decoding may bail.
KeyEnd ==
    /\ Live /\ st = "sInKey"
    /\ st' = "sIdle"
    /\ ReadNothing
    /\ \/ Bail("protocol")
       \/ NoBail /\ UNCHANGED <<frameVars, regionVars, loopVars>>

\* The state of the lexer once the first byte of value c is consumed.
LexAfter(c) ==
    CASE c = "str" -> "sInStr" [] c = "lit" -> "sInScalar" [] OTHER -> "sIdle"

\* The element counter moves before OnElem is asked.
Counted == IF top.kind = "arr" THEN SetTop(frames, [top EXCEPT !.idx = 0])
                               ELSE frames

\* Mutant: the depth forgets an entered container.
EnterUncounted(c) ==
    /\ c \in Opens
    /\ frames' = Append(Counted, NewFrame(KindOf(c)))
    /\ st' = "sIdle"
    /\ UNCHANGED <<depth, regionVars, rootSeen, rootDone>>

\* apply, with Enter: a frame of its own for the container.
Enter(c) ==
    /\ c \in Opens
    /\ frames' = Append(Counted, NewFrame(KindOf(c)))
    /\ depth' = depth + 1
    /\ st' = "sIdle"
    /\ UNCHANGED <<regionVars, rootSeen, rootDone>>

\* apply, with any other action (and a lenient Enter of a simple value):
\* beginRegion, and regPush when the value is a container.
Region(c) ==
    /\ frames' = Counted
    /\ regOpen' = TRUE
    /\ regDepth' = depth
    /\ regDeep' = <<>>
    /\ depth' = IF c \in Opens THEN depth + 1 ELSE depth
    /\ IF c \in Opens
       THEN /\ regN' = 1
            /\ regKinds' = IF c = "[" THEN regKinds \union {1}
                                      ELSE regKinds \ {1}
            /\ regPh' = IF c = "[" THEN "rAValue0" ELSE "rKey0"
       ELSE regN' = 0 /\ regPh' = "rTop" /\ UNCHANGED regKinds
    /\ st' = LexAfter(c)
    /\ UNCHANGED <<rootSeen, rootDone>>

\* valueStart and apply for a value whose first token is c.
FrameValue(c) ==
    /\ InFrame /\ ~(c = "str" /\ AtKey)
    /\ c \in Opens => MayOpen
    /\ IF top.ph # "phValue" THEN BailAt(c, "syntax")
       ELSE \/ BailAt(c, "protocol")
            \/ /\ Enter(c) \/ Region(c)
               /\ Read(c) /\ NoBail /\ UNCHANGED loopVars

FrameJunk ==
    /\ InFrame
    /\ BailAt("junk", "syntax")

----------------------------------------------------------------------------
(* The tight loop over the bytes of a region.                              *)

EnterLoop ==
    /\ Live /\ st = "sIdle" /\ regOpen /\ ~inLoop
    /\ inLoop' = TRUE /\ ph' = regPh
    /\ UNCHANGED <<st, frameVars, regionVars, endVars, readVars>>

\* The chunk ends inside the loop: the phase is written back.
LeaveLoop ==
    /\ Live /\ inLoop
    /\ inLoop' = FALSE /\ regPh' = ph
    /\ UNCHANGED <<st, frameVars, regOpen, regDepth, regN, regKinds, regDeep,
                   ph, endVars, readVars>>

InRegion == Live /\ inLoop

\* Mutant: the phase table's refusal is not looked at.
RegionSimpleUnchecked(c) ==
    LET table == IF c = "str" THEN regAfterStr ELSE regAfterVal IN
    /\ InRegion
    /\ c \in {"str", "lit"}
    /\ regPh' = table[ph] /\ ph' = table[ph]
    /\ inLoop' = FALSE
    /\ st' = LexAfter(c)
    /\ Read(c)
    /\ NoBail
    /\ UNCHANGED <<frameVars, regOpen, regDepth, regN, regKinds, regDeep>>

\* A string (key or value) or a literal starts: out of the loop, phase saved.
RegionSimple(c) ==
    LET table == IF c = "str" THEN regAfterStr ELSE regAfterVal IN
    /\ InRegion
    /\ c \in {"str", "lit"}
    /\ IF table[ph] = "rErr" THEN BailAt(c, "syntax")
       ELSE /\ regPh' = table[ph] /\ ph' = table[ph]
            /\ inLoop' = FALSE
            /\ st' = LexAfter(c)
            /\ Read(c)
            /\ NoBail
            /\ UNCHANGED <<frameVars, regOpen, regDepth, regN, regKinds, regDeep>>

RegionOpen(c) ==
    /\ InRegion
    /\ c \in Opens /\ MayOpen
    /\ IF regAfterVal[ph] = "rErr" THEN BailAt(c, "syntax")
       ELSE /\ depth' = depth + 1
            /\ regPush(KindOf(c))
            /\ ph' = regPh'
            /\ Read(c)
            /\ NoBail
            /\ UNCHANGED <<st, frames, rootSeen, rootDone,
                           regOpen, regDepth, inLoop>>

RegionColon ==
    /\ InRegion
    /\ IF ph # "rColon" THEN BailAt(":", "syntax")
       ELSE /\ ph' = "rOValue"
            /\ Read(":")
            /\ NoBail
            /\ UNCHANGED <<st, frameVars, regionVars, inLoop>>

RegionComma ==
    /\ InRegion
    /\ IF regAfterComma[ph] = "rErr" THEN BailAt(",", "syntax")
       ELSE /\ ph' = regAfterComma[ph]
            /\ Read(",")
            /\ NoBail
            /\ UNCHANGED <<st, frameVars, regionVars, inLoop>>

RegionJunk ==
    /\ InRegion
    /\ BailAt("junk", "syntax")

\* A closing bracket that leaves the region open.
RegionInnerClose ==
    /\ regPop
    /\ ph' = PhaseAfterPop
    /\ UNCHANGED <<frames, regOpen, regPh, inLoop>>

\* The bracket the region ends with: endRegion and afterValue.
RegionLastClose ==
    /\ regPop
    /\ regPh' = PhaseAfterPop /\ ph' = PhaseAfterPop
    /\ inLoop' = FALSE /\ regOpen' = FALSE
    /\ frames' = AfterValue(frames)

RegionClose(c) ==
    /\ InRegion
    /\ c \in Closes
    /\ IF regClose[ph] # KindOf(c) THEN BailAt(c, "syntax")
       ELSE \/ depth - 1 = regDepth /\ BailAt(c, "protocol")
            \/ /\ IF depth - 1 = regDepth THEN RegionLastClose
                                          ELSE RegionInnerClose
               /\ depth' = depth - 1
               /\ Read(c)
               /\ NoBail
               /\ UNCHANGED <<st, rootSeen, rootDone, regDepth>>

----------------------------------------------------------------------------
(* The end of a string or a literal: of the region too, when it is the     *)
(* region's own value and not a member of it.                              *)

SimpleEnd ==
    /\ Live /\ st \in {"sInStr", "sInScalar"}
    /\ st' = "sIdle"
    /\ ReadNothing
    /\ \/ depth = regDepth /\ Bail("protocol")
       \/ /\ IF depth = regDepth
             THEN regOpen' = FALSE /\ frames' = AfterValue(frames)
             ELSE UNCHANGED <<regOpen, frames>>
          /\ NoBail
          /\ UNCHANGED <<depth, rootSeen, rootDone, regDepth, regPh, regN,
                         regKinds, regDeep, loopVars>>

\* Bytes the grammar of strings and literals refuses (Lexical): a raw
\* control character, a bad escape, "tru" before a comma.
LexicalError ==
    /\ Live /\ st # "sIdle"
    /\ BailAt("junk", "syntax")

----------------------------------------------------------------------------
Structural == Opens \union Closes \union {"str", "lit", ":", ",", "junk"}

Next ==
    \/ \E c \in Structural : Root(c) \/ Trailing(c)
    \/ Finish
    \/ \E c \in Closes : FrameClose(c) \/ RegionClose(c)
    \/ FrameColon \/ FrameComma \/ FrameJunk \/ KeyStart \/ KeyEnd
    \/ \E c \in Opens \union {"str", "lit"} : FrameValue(c)
    \/ EnterLoop \/ LeaveLoop
    \/ \E c \in {"str", "lit"} : RegionSimple(c)
    \/ \E c \in Opens : RegionOpen(c)
    \/ RegionColon \/ RegionComma \/ RegionJunk
    \/ SimpleEnd \/ LexicalError

Spec == Init /\ [][Next]_vars

----------------------------------------------------------------------------
(* Properties.                                                             *)

Frames == [kind : {"obj", "arr"}, ph : Phases, idx : {-1, 0}, n : {0, 1}]

FlagsOK ==
    /\ rootSeen \in BOOLEAN /\ rootDone \in BOOLEAN
    /\ regOpen \in BOOLEAN /\ inLoop \in BOOLEAN
    /\ dead \in BOOLEAN /\ finished \in BOOLEAN

DataOK ==
    /\ st \in {"sIdle", "sInKey", "sInStr", "sInScalar"}
    /\ frames \in Seq(Frames)
    /\ depth \in Nat /\ regDepth \in Nat /\ regN \in Nat
    /\ regPh \in RegPhases /\ ph \in RegPhases
    /\ regKinds \subseteq 1..BitLevels
    /\ regDeep \in Seq(BOOLEAN)
    /\ code \in {"none", "syntax", "root", "trailing", "incomplete", "protocol"}
    /\ tok \in Structural \union {"eof"}
    /\ kinds \in Seq({"obj", "arr"})

\* The scanner's state stays in its types.
TypeOK == FlagsOK /\ DataOK

Phase == IF inLoop THEN ph ELSE regPh

\* The kind of container a region phase speaks of.
PhaseKind(p) ==
    IF p \in {"rKey0", "rKey", "rColon", "rOValue", "rOComma"}
    THEN "obj" ELSE "arr"

\* The two depth counters agree: depth counts the frames and the levels of
\* the open region.  The end of a region is found by comparing depth with
\* regDepth (engine.go:116, 205, 267) while the stack of kinds is driven by
\* regN (region.go:177, 197): were they to drift apart a region would end at
\* the wrong bracket.
DepthsAgree ==
    Live => /\ depth = Len(frames) + (IF regOpen THEN regN ELSE 0)
            /\ regOpen => /\ regDepth = Len(frames)
                          /\ regN = 0 <=> st # "sIdle" /\ depth = regDepth

\* The open containers as the parser holds them: the kind of the innermost
\* region level in the phase, of the others in the bits.
LevelKind(n) ==
    IF n = regN THEN PhaseKind(Phase)
    ELSE IF ParentArr(n) THEN "arr" ELSE "obj"

OpenKinds ==
    [k \in 1..Len(frames) + (IF regOpen THEN regN ELSE 0) |->
        IF k <= Len(frames) THEN frames[k].kind
                            ELSE LevelKind(k - Len(frames))]

\* The parser's containers are those of the document, at every depth and
\* whatever regions came before (bits of earlier regions stay in regKinds):
\* a comma, a colon and a closing bracket consult only the phase
\* (engine.go:246-283), a pop only the stack (region.go:203-208).
StackIsDocument == Live => OpenKinds = kinds

\* What the scanner remembers besides the containers is consistent with where
\* it is in the document: the loop runs only between the members of a region,
\* a frame that waits for a comma has a value and a counted element, and a
\* frame with something open inside it has counted that element.  The checks
\* for a trailing comma (engine.go:351-358) rest on it.
ProgressIsDocument ==
    Live =>
        /\ inLoop => regOpen /\ st = "sIdle"
        /\ st \in {"sInStr", "sInScalar"} => regOpen
        /\ st = "sInKey" => ~regOpen /\ frames # <<>>
        /\ regOpen => frames # <<>> /\ (Phase = "rTop" <=> regN = 0)
        /\ rootDone => frames = <<>>
        /\ \A k \in 1..Len(frames) :
            LET f == frames[k] IN
            /\ f.kind = "arr" => f.ph \in {"phValue", "phComma"}
            /\ f.ph = "phComma" => f.n = 1
            /\ f.kind = "arr" /\ (f.ph = "phComma" \/ regOpen \/ k < Len(frames))
                => f.idx = 0

\* What the scanner takes next.
RegionExpects ==
    CASE Phase = "rTop"                  -> "more"
      [] Phase = "rKey0"                 -> "first"
      [] Phase = "rKey"                  -> "key"
      [] Phase = "rColon"                -> "colon"
      [] Phase \in {"rOValue", "rAValue"} -> "value"
      [] Phase = "rAValue0"              -> "elem"
      [] OTHER                           -> "more"

FrameExpects(f) ==
    CASE f.ph = "phKey"   -> IF f.n = 0 THEN "first" ELSE "key"
      [] f.ph = "phColon" -> "colon"
      [] f.ph = "phComma" -> "more"
      [] OTHER -> IF f.kind = "arr" /\ f.idx = -1 THEN "elem" ELSE "value"

Expects ==
    IF regOpen THEN RegionExpects
    ELSE IF frames # <<>> THEN FrameExpects(top)
    ELSE IF rootDone THEN "end" ELSE "root"

Verdict ==
    IF finished THEN "valid"
    ELSE IF ~dead THEN "reading"
    ELSE IF code \in {"syntax", "trailing", "incomplete"} THEN "invalid"
    ELSE "stopped"

Doc == INSTANCE JSONDoc WITH
    stack <- kinds, expect <- Expects, tok <- tok, verdict <- Verdict

\* Every mixture of dispatch frames and regions, cut into chunks anywhere,
\* accepts and refuses exactly the documents the JSON grammar does, at the
\* same token (README, "Strict": the rejection rules of encoding/json).
RejectsLikeJSON == Doc!Spec
=============================================================================
