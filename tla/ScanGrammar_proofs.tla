------------------------- MODULE ScanGrammar_proofs -------------------------
(***************************************************************************)
(* Proofs about ScanGrammar, for every width of the kinds word and every   *)
(* nesting.  What depends on the kinds of the levels, StackIsDocument and  *)
(* the refinement of JSONDoc, needs regions of at most one level more than *)
(* the word holds.                                                         *)
(***************************************************************************)
EXTENDS ScanGrammar, SequenceTheorems, TLAPS

\* A region starts below at least one frame, so a document MaxDepth deep has
\* regions of at most MaxDepth - 1 levels.
NestingFits == MaxDepth <= BitLevels + 2

\* The parser's containers, read one level at a time: the frames, the phase
\* for the innermost level, the bits for the levels of the word.  Past the
\* word the slice has at least the levels a pop asks it for; that their kinds
\* are the document's is so only while there is one of them.
LevelsAreDocument ==
    Live =>
        /\ Len(kinds) = depth
        /\ depth <= MaxDepth
        /\ \A k \in 1..Len(frames) : frames[k].kind = kinds[k]
        /\ NestingFits => (regOpen /\ regN > 0 => PhaseKind(Phase) = kinds[depth])
        /\ regOpen /\ regN > BitLevels => Len(regDeep) >= regN - BitLevels
        /\ regOpen => \A n \in 1..BitLevels :
              n <= regN => (n \in regKinds <=> kinds[Len(frames) + n] = "arr")

IInv == TypeOK /\ DepthsAgree /\ LevelsAreDocument /\ ProgressIsDocument

-----------------------------------------------------------------------------
\* A step that bails leaves nothing but its types to be checked.
LEMMA BailStep ==
    ASSUME IInv,
           NEW e \in {"syntax", "root", "trailing", "incomplete", "protocol"},
           Bail(e),
           st' \in {"sIdle", "sInKey", "sInStr", "sInScalar"},
           tok' \in Structural \union {"eof"}, kinds' = kinds
    PROVE  IInv'
BY DEF IInv, TypeOK, FlagsOK, DataOK, DepthsAgree, LevelsAreDocument,
       ProgressIsDocument, Live, Bail, frameVars, regionVars, loopVars

LEMMA BailAtStep ==
    ASSUME IInv, NEW c \in Structural \union {"eof"},
           NEW e \in {"syntax", "root", "trailing", "incomplete", "protocol"},
           BailAt(c, e)
    PROVE  IInv'
BY BailStep DEF BailAt, IInv, TypeOK, DataOK

LEMMA InitInv == Init => IInv
<1> SUFFICES ASSUME Init PROVE IInv
  OBVIOUS
<1>1. FlagsOK
  BY DEF Init, FlagsOK
<1>2. DataOK
  BY DEF Init, DataOK, RegPhases
<1>3. DepthsAgree
  BY DEF Init, DepthsAgree
<1>4. LevelsAreDocument
  BY BoundsAssumption DEF Init, LevelsAreDocument
<1>5. ProgressIsDocument
  BY DEF Init, ProgressIsDocument
<1> QED
  BY <1>1, <1>2, <1>3, <1>4, <1>5 DEF IInv, TypeOK

LEMMA TopFacts ==
    ASSUME frames \in Seq(Frames), frames # <<>>
    PROVE  top \in Frames /\ Len(frames) \in Nat \ {0}
BY DEF top

LEMMA SetTopFacts ==
    ASSUME NEW fs \in Seq(Frames), fs # <<>>, NEW f \in Frames
    PROVE  /\ SetTop(fs, f) \in Seq(Frames)
           /\ Len(SetTop(fs, f)) = Len(fs)
           /\ SetTop(fs, f)[Len(fs)] = f
           /\ \A k \in 1..Len(fs) - 1 : SetTop(fs, f)[k] = fs[k]
BY DEF SetTop

\* A frame on top of others, or of a region, that is in order.
InOrder(f, covered) ==
    /\ f.kind = "arr" => f.ph \in {"phValue", "phComma"}
    /\ f.ph = "phComma" => f.n = 1
    /\ f.kind = "arr" /\ (f.ph = "phComma" \/ covered) => f.idx = 0

\* A step that only moves the frame on top.
LEMMA TopStep ==
    ASSUME IInv, Live, regOpen = FALSE, frames # <<>>,
           NEW f \in Frames, f.kind = top.kind, InOrder(f, FALSE),
           frames' = SetTop(frames, f),
           st' \in {"sIdle", "sInKey"},
           tok' \in Structural \union {"eof"},
           UNCHANGED <<depth, rootSeen, rootDone, kinds, regionVars, loopVars, endVars>>
    PROVE  IInv'
<1>1. FlagsOK'
  BY DEF IInv, TypeOK, FlagsOK, regionVars, loopVars, endVars
<1>2. frames \in Seq(Frames)
  BY DEF IInv, TypeOK, DataOK
<1>3. /\ frames' \in Seq(Frames)
      /\ Len(frames') = Len(frames)
      /\ frames'[Len(frames)] = f
      /\ \A k \in 1..Len(frames) - 1 : frames'[k] = frames[k]
  BY <1>2, SetTopFacts
<1>4. DataOK'
  BY <1>3 DEF IInv, TypeOK, DataOK, regionVars, loopVars, endVars
<1>5. frames' # <<>> /\ regOpen' = FALSE /\ Live'
  BY <1>2, <1>3 DEF Live, endVars, regionVars
<1>6. DepthsAgree'
  BY <1>3, <1>5 DEF IInv, DepthsAgree
<1>7. LevelsAreDocument'
  BY <1>2, <1>3, <1>5 DEF IInv, LevelsAreDocument, top
<1>8. ProgressIsDocument'
  BY <1>2, <1>3, <1>5 DEF IInv, ProgressIsDocument, InOrder, regionVars, loopVars
<1> QED
  BY <1>1, <1>4, <1>6, <1>7, <1>8 DEF IInv, TypeOK

LEMMA FrameColonStep == IInv /\ FrameColon => IInv'
<1> SUFFICES ASSUME IInv, FrameColon PROVE IInv'
  OBVIOUS
<1>1. CASE top.kind # "obj" \/ top.ph # "phColon"
  BY <1>1, BailAtStep DEF FrameColon, Structural
<1>2. CASE top.kind = "obj" /\ top.ph = "phColon"
  <2> DEFINE f == [top EXCEPT !.ph = "phValue"]
  <2>1. frames \in Seq(Frames) /\ frames # <<>> /\ Live /\ regOpen = FALSE
    BY DEF IInv, TypeOK, FlagsOK, DataOK, FrameColon, InFrame
  <2>2. f \in Frames /\ f.kind = top.kind /\ InOrder(f, FALSE)
    BY <1>2, <2>1, TopFacts DEF Frames, Phases, InOrder
  <2>3. frames' = SetTop(frames, f)
    BY <1>2 DEF FrameColon
  <2>4. st' = "sIdle" /\ tok' \in Structural
    BY <1>2 DEF FrameColon, InFrame, Read, Structural
  <2>5. kinds' = kinds
    BY <1>2 DEF FrameColon, Read, Opens, Closes
  <2>6. UNCHANGED <<depth, rootSeen, rootDone, regionVars, loopVars, endVars>>
    BY <1>2 DEF FrameColon, NoBail
  <2> QED
    BY <2>1, <2>2, <2>3, <2>4, <2>5, <2>6, TopStep
<1> QED
  BY <1>1, <1>2

LEMMA FrameCommaStep == IInv /\ FrameComma => IInv'
<1> SUFFICES ASSUME IInv, FrameComma PROVE IInv'
  OBVIOUS
<1>1. CASE top.ph # "phComma"
  BY <1>1, BailAtStep DEF FrameComma, Structural
<1>2. CASE top.ph = "phComma"
  <2> DEFINE f == [top EXCEPT !.ph = IF top.kind = "obj" THEN "phKey"
                                                         ELSE "phValue"]
  <2>1. frames \in Seq(Frames) /\ frames # <<>> /\ Live /\ regOpen = FALSE
    BY DEF IInv, TypeOK, FlagsOK, DataOK, FrameComma, InFrame
  <2>2. f \in Frames /\ f.kind = top.kind /\ InOrder(f, FALSE)
    BY <1>2, <2>1, TopFacts DEF Frames, Phases, InOrder
  <2>3. frames' = SetTop(frames, f)
    BY <1>2 DEF FrameComma
  <2>4. st' = "sIdle" /\ tok' \in Structural
    BY <1>2 DEF FrameComma, InFrame, Read, Structural
  <2>5. kinds' = kinds
    BY <1>2 DEF FrameComma, Read, Opens, Closes
  <2>6. UNCHANGED <<depth, rootSeen, rootDone, regionVars, loopVars, endVars>>
    BY <1>2 DEF FrameComma, NoBail
  <2> QED
    BY <2>1, <2>2, <2>3, <2>4, <2>5, <2>6, TopStep
<1> QED
  BY <1>1, <1>2

LEMMA KeyStartStep == IInv /\ KeyStart => IInv'
<1> SUFFICES ASSUME IInv, KeyStart PROVE IInv'
  OBVIOUS
<1> DEFINE f == [top EXCEPT !.ph = "phColon"]
<1>1. frames \in Seq(Frames) /\ frames # <<>> /\ Live /\ regOpen = FALSE
  BY DEF IInv, TypeOK, FlagsOK, DataOK, KeyStart, InFrame
<1>2. f \in Frames /\ f.kind = top.kind /\ InOrder(f, FALSE)
  BY <1>1, TopFacts DEF KeyStart, AtKey, Frames, Phases, InOrder
<1>3. frames' = SetTop(frames, f) /\ st' = "sInKey" /\ tok' \in Structural
  BY DEF KeyStart, Read, Structural
<1>4. kinds' = kinds
  BY DEF KeyStart, Read, Opens, Closes
<1>5. UNCHANGED <<depth, rootSeen, rootDone, regionVars, loopVars, endVars>>
  BY DEF KeyStart, NoBail
<1> QED
  BY <1>1, <1>2, <1>3, <1>4, <1>5, TopStep

\* A step inside a region that opens and closes nothing.
LEMMA RegionStep ==
    ASSUME IInv, Live, regOpen = TRUE,
           UNCHANGED <<frameVars, regOpen, regDepth, regN, regKinds, regDeep,
                       kinds, endVars>>,
           st' \in {"sIdle", "sInStr", "sInScalar"},
           st' = st \/ regN > 0,
           inLoop' \in BOOLEAN, inLoop' => st' = "sIdle",
           regPh' \in RegPhases, ph' \in RegPhases,
           tok' \in Structural \union {"eof"},
           Phase' = "rTop" <=> regN = 0,
           PhaseKind(Phase)' = PhaseKind(Phase)
    PROVE  IInv'
<1>1. FlagsOK'
  BY DEF IInv, TypeOK, FlagsOK, frameVars, endVars
<1>2. DataOK'
  BY DEF IInv, TypeOK, DataOK, frameVars, endVars
<1>3. Live' /\ regOpen' = TRUE
  BY DEF Live, endVars
<1>4. DepthsAgree'
  BY <1>3 DEF IInv, TypeOK, DataOK, DepthsAgree, frameVars
<1>5. LevelsAreDocument'
  BY <1>3 DEF IInv, LevelsAreDocument, frameVars
<1>6. ProgressIsDocument'
  BY <1>3 DEF IInv, ProgressIsDocument, frameVars
<1> QED
  BY <1>1, <1>2, <1>4, <1>5, <1>6 DEF IInv, TypeOK

\* In the loop the innermost container is one of the region's.
LEMMA LoopFacts ==
    ASSUME IInv, InRegion
    PROVE  /\ Live /\ regOpen = TRUE /\ st = "sIdle" /\ inLoop = TRUE
           /\ regN \in Nat /\ regN > 0 /\ Phase = ph /\ ph \in RegPhases
BY DEF IInv, TypeOK, FlagsOK, DataOK, DepthsAgree, ProgressIsDocument,
       InRegion, Phase

LEMMA LoopPhaseStep ==
    ASSUME IInv, InRegion, NEW p \in RegPhases \ {"rTop"},
           PhaseKind(p) = PhaseKind(ph),
           ph' = p, inLoop' = TRUE \/ (inLoop' = FALSE /\ regPh' = p),
           regPh' \in RegPhases,
           st' \in {"sIdle", "sInStr", "sInScalar"}, inLoop' => st' = "sIdle",
           UNCHANGED <<frameVars, regOpen, regDepth, regN, regKinds, regDeep,
                       kinds, endVars>>,
           tok' \in Structural \union {"eof"}
    PROVE  IInv'
<1>1. Phase' = p
  BY DEF Phase
<1>2. PhaseKind(Phase)' = PhaseKind(Phase)
  BY <1>1, LoopFacts DEF PhaseKind
<1>3. Live /\ regOpen = TRUE /\ regN \in Nat /\ regN > 0
  BY LoopFacts
<1>4. Phase' = "rTop" <=> regN = 0
  BY <1>1, <1>3
<1>5. ph' \in RegPhases /\ inLoop' \in BOOLEAN
  OBVIOUS
<1> QED
  BY <1>2, <1>3, <1>4, <1>5, RegionStep

LEMMA EnterLoopStep == IInv /\ EnterLoop => IInv'
<1> SUFFICES ASSUME IInv, EnterLoop PROVE IInv'
  OBVIOUS
<1>1. Phase' = Phase /\ PhaseKind(Phase)' = PhaseKind(Phase)
  BY DEF EnterLoop, Phase, PhaseKind
<1>2. Live /\ regOpen = TRUE /\ (Phase = "rTop" <=> regN = 0)
  BY DEF IInv, TypeOK, FlagsOK, EnterLoop, ProgressIsDocument
<1>3. /\ regPh' \in RegPhases /\ ph' \in RegPhases
      /\ tok' \in Structural \union {"eof"}
      /\ st' = st /\ st' = "sIdle" /\ inLoop' \in BOOLEAN
  BY DEF IInv, TypeOK, DataOK, EnterLoop, regionVars, readVars
<1>4. UNCHANGED <<frameVars, regOpen, regDepth, regN, regKinds, regDeep,
                  kinds, endVars>>
  BY DEF EnterLoop, regionVars, readVars
<1> QED
  BY <1>1, <1>2, <1>3, <1>4, RegionStep

LEMMA LeaveLoopStep == IInv /\ LeaveLoop => IInv'
<1> SUFFICES ASSUME IInv, LeaveLoop PROVE IInv'
  OBVIOUS
<1>1. Phase' = Phase /\ PhaseKind(Phase)' = PhaseKind(Phase)
  BY DEF LeaveLoop, Phase, PhaseKind
<1>2. Live /\ regOpen = TRUE /\ (Phase = "rTop" <=> regN = 0) /\ st = "sIdle"
  BY DEF IInv, TypeOK, FlagsOK, LeaveLoop, ProgressIsDocument
<1>3. /\ regPh' \in RegPhases /\ ph' \in RegPhases
      /\ tok' \in Structural \union {"eof"}
      /\ st' = st /\ inLoop' \in BOOLEAN
  BY DEF IInv, TypeOK, DataOK, LeaveLoop, readVars
<1>4. UNCHANGED <<frameVars, regOpen, regDepth, regN, regKinds, regDeep,
                  kinds, endVars>>
  BY DEF LeaveLoop, readVars
<1> QED
  BY <1>1, <1>2, <1>3, <1>4, RegionStep

LEMMA RegionColonStep == IInv /\ RegionColon => IInv'
<1> SUFFICES ASSUME IInv, RegionColon PROVE IInv'
  OBVIOUS
<1>1. CASE ph # "rColon"
  BY <1>1, BailAtStep DEF RegionColon, Structural
<1>2. CASE ph = "rColon"
  <2>1. ph' = "rOValue" /\ PhaseKind("rOValue") = PhaseKind(ph) /\ InRegion
    BY <1>2 DEF RegionColon, PhaseKind
  <2>2. /\ UNCHANGED <<st, frameVars, regionVars, inLoop, endVars>>
        /\ tok' = ":"
    BY <1>2 DEF RegionColon, NoBail, Read
  <2>3. kinds' = kinds
    BY <1>2 DEF RegionColon, Read, Opens, Closes
  <2> QED
    BY <2>1, <2>2, <2>3, LoopFacts, LoopPhaseStep
       DEF regionVars, RegPhases, Structural, IInv, TypeOK, DataOK
<1> QED
  BY <1>1, <1>2

LEMMA RegionCommaStep == IInv /\ RegionComma => IInv'
<1> SUFFICES ASSUME IInv, RegionComma PROVE IInv'
  OBVIOUS
<1>1. CASE regAfterComma[ph] = "rErr"
  BY <1>1, BailAtStep DEF RegionComma, Structural
<1>2. CASE regAfterComma[ph] # "rErr"
  <2> DEFINE p == regAfterComma[ph]
  <2>1. InRegion /\ ph' = p
    BY <1>2 DEF RegionComma
  <2>2. p \in RegPhases \ {"rTop"} /\ PhaseKind(p) = PhaseKind(ph)
    BY <1>2, <2>1, LoopFacts DEF regAfterComma, PhaseKind, RegPhases
  <2>3. /\ UNCHANGED <<st, frameVars, regionVars, inLoop, endVars>>
        /\ tok' = ","
    BY <1>2 DEF RegionComma, NoBail, Read
  <2>4. kinds' = kinds
    BY <1>2 DEF RegionComma, Read, Opens, Closes
  <2> QED
    BY <2>1, <2>2, <2>3, <2>4, LoopFacts, LoopPhaseStep
       DEF regionVars, Structural, IInv, TypeOK, DataOK
<1> QED
  BY <1>1, <1>2

LEMMA RegionSimpleStep ==
    ASSUME IInv, NEW c \in {"str", "lit"}, RegionSimple(c) PROVE IInv'
<1> DEFINE p == IF c = "str" THEN regAfterStr[ph] ELSE regAfterVal[ph]
<1>1. CASE p = "rErr"
  BY <1>1, BailAtStep DEF RegionSimple, Structural
<1>2. CASE p # "rErr"
  <2>1. InRegion /\ ph' = p /\ regPh' = p /\ inLoop' = FALSE
    BY <1>2 DEF RegionSimple
  <2>2. p \in RegPhases \ {"rTop"} /\ PhaseKind(p) = PhaseKind(ph)
    BY <1>2, <2>1, LoopFacts DEF regAfterStr, regAfterVal, PhaseKind, RegPhases
  <2>3. /\ UNCHANGED <<frameVars, regOpen, regDepth, regN, regKinds, regDeep, endVars>>
        /\ tok' = c /\ st' \in {"sInStr", "sInScalar"}
    BY <1>2 DEF RegionSimple, NoBail, Read, LexAfter
  <2>4. kinds' = kinds
    BY <1>2 DEF RegionSimple, Read, Opens, Closes
  <2> QED
    BY <2>1, <2>2, <2>3, <2>4, LoopPhaseStep DEF Structural
<1> QED
  BY <1>1, <1>2

LEMMA KeyEndStep == IInv /\ KeyEnd => IInv'
<1> SUFFICES ASSUME IInv, KeyEnd PROVE IInv'
  OBVIOUS
<1>1. CASE Bail("protocol")
  BY <1>1, BailStep DEF KeyEnd, ReadNothing, readVars, IInv, TypeOK, DataOK
<1>2. CASE NoBail /\ UNCHANGED <<frameVars, regionVars, loopVars>>
  BY <1>2 DEF KeyEnd, ReadNothing, readVars, IInv, TypeOK, FlagsOK, DataOK,
      NoBail, endVars, frameVars, regionVars, loopVars, Live, Phase,
      DepthsAgree, LevelsAreDocument, ProgressIsDocument
<1> QED
  BY <1>1, <1>2 DEF KeyEnd

-----------------------------------------------------------------------------
\* What is left of a stack once its top is popped.
LEMMA PopFacts ==
    ASSUME NEW S, NEW s \in Seq(S), s # <<>>
    PROVE  /\ SubSeq(s, 1, Len(s) - 1) \in Seq(S)
           /\ Len(SubSeq(s, 1, Len(s) - 1)) = Len(s) - 1
           /\ \A k \in 1..Len(s) - 1 : SubSeq(s, 1, Len(s) - 1)[k] = s[k]
<1>1. Len(s) \in Nat \ {0} /\ \A k \in 1..Len(s) : s[k] \in S
  OBVIOUS
<1> DEFINE n == Len(s) - 1
<1>2. n \in Nat /\ \A k \in 1..n : s[k] \in S
  BY <1>1
<1>3. /\ SubSeq(s, 1, n) \in Seq(S)
      /\ Len(SubSeq(s, 1, n)) = IF 1 <= n THEN n - 1 + 1 ELSE 0
      /\ \A k \in 1..n - 1 + 1 : SubSeq(s, 1, n)[k] = s[1 + k - 1]
  <2> HIDE DEF n
  <2> QED
    BY <1>2, SubSeqProperties
<1>4. Len(SubSeq(s, 1, n)) = n /\ \A k \in 1..n : SubSeq(s, 1, n)[k] = s[k]
  <2> HIDE DEF n
  <2> QED
    BY <1>2, <1>3
<1> QED
  BY <1>3, <1>4

LEMMA AfterValueFacts ==
    ASSUME NEW fs \in Seq(Frames)
    PROVE  /\ AfterValue(fs) \in Seq(Frames)
           /\ Len(AfterValue(fs)) = Len(fs)
           /\ \A k \in 1..Len(fs) - 1 : AfterValue(fs)[k] = fs[k]
           /\ fs # <<>> => AfterValue(fs)[Len(fs)] = WantsComma(fs[Len(fs)])
<1>1. CASE fs = <<>>
  BY <1>1 DEF AfterValue
<1>2. CASE fs # <<>>
  <2> DEFINE f == WantsComma(fs[Len(fs)])
  <2>0. fs[Len(fs)] \in Frames
    BY <1>2
  <2>1. f \in Frames
    BY <2>0 DEF WantsComma, Frames, Phases
  <2>2. AfterValue(fs) = SetTop(fs, f)
    BY <1>2 DEF AfterValue
  <2>3. /\ SetTop(fs, f) \in Seq(Frames)
        /\ Len(SetTop(fs, f)) = Len(fs)
        /\ SetTop(fs, f)[Len(fs)] = f
        /\ \A k \in 1..Len(fs) - 1 : SetTop(fs, f)[k] = fs[k]
    <3> HIDE DEF f
    <3> QED
      BY <1>2, <2>1, SetTopFacts
  <2> QED
    BY <2>2, <2>3
<1> QED
  BY <1>1, <1>2

\* The frame under a value that has ended waits for a comma, and is in order
\* if its element was counted.
LEMMA AfterValueInOrder ==
    ASSUME NEW fs \in Seq(Frames),
           \A k \in 1..Len(fs) : InOrder(fs[k], TRUE)
    PROVE  \A k \in 1..Len(fs) : InOrder(AfterValue(fs)[k], TRUE)
<1> SUFFICES ASSUME NEW k \in 1..Len(fs) PROVE InOrder(AfterValue(fs)[k], TRUE)
  OBVIOUS
<1>1. CASE k < Len(fs)
  <2>1. AfterValue(fs)[k] = fs[k]
    BY <1>1, AfterValueFacts
  <2> QED
    BY <2>1 DEF InOrder
<1>2. CASE k = Len(fs)
  <2>1. fs # <<>> /\ fs[k] \in Frames
    BY <1>2
  <2>2. AfterValue(fs)[k] = WantsComma(fs[k])
    BY <1>2, <2>1, AfterValueFacts
  <2> QED
    BY <2>1, <2>2 DEF WantsComma, InOrder, Frames
<1>3. k < Len(fs) \/ k = Len(fs)
  OBVIOUS
<1> QED
  BY <1>1, <1>2, <1>3

\* Every frame under something that is open is in order.
LEMMA FramesInOrder ==
    ASSUME IInv, Live
    PROVE  /\ frames \in Seq(Frames)
           /\ \A k \in 1..Len(frames) : InOrder(frames[k], regOpen \/ k < Len(frames))
BY DEF IInv, TypeOK, DataOK, ProgressIsDocument, InOrder

\* A region that ends, with its last bracket or with its only value.
LEMMA RegionEndStep ==
    ASSUME IInv, Live, regOpen = TRUE,
           frames' = AfterValue(frames), regOpen' = FALSE, inLoop' = FALSE,
           st' = "sIdle", depth' = Len(frames),
           kinds' \in Seq({"obj", "arr"}), Len(kinds') = Len(frames),
           \A k \in 1..Len(frames) : kinds'[k] = kinds[k],
           regN' \in Nat, regPh' \in RegPhases, ph' \in RegPhases,
           regDeep' \in Seq(BOOLEAN), tok' \in Structural \union {"eof"},
           UNCHANGED <<rootSeen, rootDone, regDepth, regKinds, endVars>>
    PROVE  IInv'
<1>1. FlagsOK'
  BY DEF IInv, TypeOK, FlagsOK, endVars
<1>2. frames \in Seq(Frames)
  BY DEF IInv, TypeOK, DataOK
<1>3. /\ frames' \in Seq(Frames) /\ Len(frames') = Len(frames)
      /\ Len(frames) \in Nat
      /\ \A k \in 1..Len(frames) - 1 : frames'[k] = frames[k]
  BY <1>2, AfterValueFacts
<1>4. DataOK'
  BY <1>2, <1>3 DEF IInv, TypeOK, DataOK, endVars
<1>5. Live' /\ frames # <<>> /\ rootDone' = FALSE
  BY DEF IInv, TypeOK, FlagsOK, ProgressIsDocument, Live, endVars
<1>6. DepthsAgree'
  BY <1>3 DEF DepthsAgree
<1>7. \A k \in 1..Len(frames) : frames'[k].kind = frames[k].kind
  <2> SUFFICES ASSUME NEW k \in 1..Len(frames)
               PROVE  frames'[k].kind = frames[k].kind
    OBVIOUS
  <2>1. CASE k < Len(frames)
    BY <1>3, <2>1
  <2>2. CASE k = Len(frames)
    <3>1. frames[k] \in Frames
      BY <1>2
    <3>2. frames'[k] = WantsComma(frames[k])
      BY <1>2, <1>5, <2>2, AfterValueFacts
    <3> QED
      BY <3>1, <3>2 DEF WantsComma, Frames
  <2> QED
    BY <2>1, <2>2
<1>8. Len(frames) <= MaxDepth
  BY <1>2, BoundsAssumption DEF IInv, TypeOK, DataOK, DepthsAgree, LevelsAreDocument
<1>9. LevelsAreDocument'
  BY <1>3, <1>7, <1>8 DEF IInv, LevelsAreDocument
<1>10. \A k \in 1..Len(frames) : InOrder(frames'[k], TRUE)
  BY <1>2, FramesInOrder, AfterValueInOrder
<1>11. ProgressIsDocument'
  BY <1>3, <1>5, <1>10 DEF ProgressIsDocument, InOrder
<1> QED
  BY <1>1, <1>4, <1>6, <1>9, <1>11 DEF IInv, TypeOK

LEMMA SimpleEndStep == IInv /\ SimpleEnd => IInv'
<1> SUFFICES ASSUME IInv, SimpleEnd PROVE IInv'
  OBVIOUS
<1>0. /\ Live /\ st \in {"sInStr", "sInScalar"} /\ st' = "sIdle"
      /\ tok' = tok /\ kinds' = kinds
  BY DEF SimpleEnd, ReadNothing, readVars
<1>1. CASE Bail("protocol")
  BY <1>0, <1>1, BailStep DEF IInv, TypeOK, DataOK
<1>2. CASE ~Bail("protocol") /\ depth = regDepth
  <2>1. /\ regOpen = TRUE /\ inLoop = FALSE /\ depth = Len(frames)
        /\ Len(kinds) = Len(frames)
    BY <1>0, <1>2 DEF IInv, TypeOK, FlagsOK, DepthsAgree, LevelsAreDocument,
                      ProgressIsDocument
  <2>2. /\ regOpen' = FALSE /\ frames' = AfterValue(frames)
        /\ UNCHANGED <<depth, rootSeen, rootDone, regDepth, regPh, regN,
                       regKinds, regDeep, loopVars, endVars>>
    BY <1>2 DEF SimpleEnd, NoBail
  <2> QED
    BY <1>0, <2>1, <2>2, RegionEndStep DEF IInv, TypeOK, DataOK, loopVars
<1>3. CASE ~Bail("protocol") /\ depth # regDepth
  <2>1. UNCHANGED <<frameVars, regionVars, loopVars, endVars>>
    BY <1>3 DEF SimpleEnd, NoBail, frameVars, regionVars
  <2>2. /\ regOpen = TRUE /\ regN \in Nat /\ regN > 0
        /\ Phase = "rTop" <=> regN = 0
    BY <1>0, <1>3 DEF IInv, TypeOK, FlagsOK, DataOK, DepthsAgree, ProgressIsDocument
  <2>3. Phase' = Phase /\ PhaseKind(Phase)' = PhaseKind(Phase)
    BY <2>1 DEF Phase, PhaseKind, regionVars, loopVars
  <2>4. /\ regPh' \in RegPhases /\ ph' \in RegPhases /\ inLoop' \in BOOLEAN
        /\ tok' \in Structural \union {"eof"}
    BY <1>0, <2>1 DEF IInv, TypeOK, FlagsOK, DataOK, regionVars, loopVars
  <2>5. UNCHANGED <<frameVars, regOpen, regDepth, regN, regKinds, regDeep,
                    kinds, endVars>>
    BY <1>0, <2>1 DEF regionVars
  <2> QED
    BY <1>0, <2>2, <2>3, <2>4, <2>5, RegionStep
<1> QED
  BY <1>1, <1>2, <1>3

-----------------------------------------------------------------------------
\* The root, its end, and the bytes no grammar takes.
LEMMA RootStep ==
    ASSUME IInv, NEW c \in Structural, Root(c) PROVE IInv'
<1>1. CASE ~(c \in Opens /\ KindOf(c) \in RootKinds)
  BY <1>1, BailAtStep DEF Root
<1>2. CASE c \in Opens /\ KindOf(c) \in RootKinds
  <2>1. /\ Live /\ regOpen = FALSE /\ frames = <<>> /\ rootDone = FALSE
        /\ rootSeen' = TRUE /\ depth' = 1 /\ tok' = c
        /\ frames' = <<NewFrame(KindOf(c))>> /\ st' = "sIdle"
        /\ UNCHANGED <<rootDone, regionVars, loopVars, endVars>>
    BY <1>2 DEF Root, AtRoot, Read, NoBail, IInv, TypeOK, FlagsOK
  <2>2. kinds' = Append(kinds, KindOf(c))
    BY <1>2 DEF Root, Read
  <2>3. depth = 0 /\ kinds \in Seq({"obj", "arr"}) /\ Len(kinds) = 0
    BY <2>1 DEF IInv, TypeOK, DataOK, DepthsAgree, LevelsAreDocument
  <2>4. KindOf(c) \in {"obj", "arr"} /\ NewFrame(KindOf(c)) \in Frames
    BY <1>2 DEF KindOf, NewFrame, Frames, Phases, Opens
  <2>5. /\ kinds' \in Seq({"obj", "arr"}) /\ Len(kinds') = 1
        /\ kinds'[1] = KindOf(c)
    BY <2>2, <2>3, <2>4
  <2>6. /\ frames' \in Seq(Frames) /\ Len(frames') = 1
        /\ frames'[1].kind = KindOf(c)
    BY <2>1, <2>4 DEF NewFrame
  <2>7. FlagsOK'
    BY <2>1 DEF IInv, TypeOK, FlagsOK, regionVars, loopVars, endVars
  <2>8. DataOK'
    BY <2>1, <2>5, <2>6 DEF IInv, TypeOK, DataOK, regionVars, loopVars, endVars, Structural
  <2>9. regOpen' = FALSE /\ inLoop' = FALSE
    BY <2>1 DEF IInv, TypeOK, FlagsOK, ProgressIsDocument, regionVars, loopVars
  <2>10. DepthsAgree'
    BY <2>1, <2>6, <2>9 DEF DepthsAgree
  <2>11. LevelsAreDocument'
    BY <2>1, <2>5, <2>6, <2>9, BoundsAssumption DEF LevelsAreDocument
  <2>12. InOrder(frames'[1], FALSE)
    BY <2>1, <2>4 DEF NewFrame, InOrder, Frames
  <2>13. ProgressIsDocument'
    BY <2>1, <2>6, <2>9, <2>12 DEF ProgressIsDocument, InOrder
  <2> QED
    BY <2>7, <2>8, <2>10, <2>11, <2>13 DEF IInv, TypeOK
<1> QED
  BY <1>1, <1>2

LEMMA TrailingStep ==
    ASSUME IInv, NEW c \in Structural, Trailing(c) PROVE IInv'
BY BailAtStep DEF Trailing

LEMMA FinishStep == IInv /\ Finish => IInv'
<1> SUFFICES ASSUME IInv, Finish PROVE IInv'
  OBVIOUS
<1>1. CASE BailAt("eof", "incomplete") \/ BailAt("eof", "protocol")
  BY <1>1, BailAtStep
<1>2. CASE /\ rootDone /\ finished' = TRUE /\ Read("eof")
           /\ UNCHANGED <<st, frameVars, regionVars, loopVars, dead, code>>
  <2>1. /\ finished' = TRUE /\ tok' = "eof"
        /\ UNCHANGED <<st, frameVars, regionVars, loopVars, dead, code>>
    BY <1>2 DEF Read
  <2>2. kinds' = kinds
    BY <1>2 DEF Read, Opens, Closes
  <2> QED
    BY <2>1, <2>2 DEF IInv, TypeOK, FlagsOK, DataOK, DepthsAgree,
       LevelsAreDocument, ProgressIsDocument, Live, frameVars, regionVars, loopVars
<1> QED
  BY <1>1, <1>2 DEF Finish

LEMMA JunkStep == IInv /\ (FrameJunk \/ RegionJunk \/ LexicalError) => IInv'
BY BailAtStep DEF FrameJunk, RegionJunk, LexicalError, Structural

-----------------------------------------------------------------------------
\* Containers open and close.
LEMMA FrameCloseStep ==
    ASSUME IInv, NEW c \in Closes, FrameClose(c) PROVE IInv'
<1>1. CASE BailAt(c, "syntax") \/ BailAt(c, "protocol")
  BY <1>1, BailAtStep DEF Structural
<1>2. CASE ~(BailAt(c, "syntax") \/ BailAt(c, "protocol"))
  <2> DEFINE fs == SubSeq(frames, 1, Len(frames) - 1)
             ks == SubSeq(kinds, 1, Len(kinds) - 1)
  <2>1. /\ Live /\ st' = "sIdle" /\ frames # <<>> /\ regOpen = FALSE
        /\ frames' = AfterValue(fs) /\ depth' = depth - 1
        /\ rootDone' = (depth = 1) /\ tok' = c
        /\ UNCHANGED <<rootSeen, regionVars, loopVars, endVars>>
    BY <1>2 DEF FrameClose, InFrame, Read, NoBail, IInv, TypeOK, FlagsOK
  <2>2. kinds' = ks
    BY <1>2 DEF FrameClose, Read, Opens, Closes
  <2>3. /\ frames \in Seq(Frames) /\ kinds \in Seq({"obj", "arr"})
        /\ depth = Len(frames) /\ Len(kinds) = depth /\ depth <= MaxDepth
        /\ depth \in Nat \ {0} /\ inLoop = FALSE
        /\ \A k \in 1..Len(frames) : frames[k].kind = kinds[k]
    BY <2>1 DEF IInv, TypeOK, FlagsOK, DataOK, DepthsAgree, LevelsAreDocument,
                ProgressIsDocument
  <2>4. /\ fs \in Seq(Frames) /\ Len(fs) = depth - 1
        /\ \A k \in 1..depth - 1 : fs[k] = frames[k]
    BY <2>1, <2>3, PopFacts
  <2>5. /\ ks \in Seq({"obj", "arr"}) /\ Len(ks) = depth - 1
        /\ \A k \in 1..depth - 1 : ks[k] = kinds[k]
    BY <2>3, PopFacts
  <2> HIDE DEF fs, ks
  <2>6. /\ frames' \in Seq(Frames) /\ Len(frames') = depth - 1
        /\ \A k \in 1..depth - 2 : frames'[k] = fs[k]
        /\ depth > 1 => frames'[depth - 1] = WantsComma(fs[depth - 1])
    <3>1. /\ AfterValue(fs) \in Seq(Frames)
          /\ Len(AfterValue(fs)) = Len(fs)
          /\ \A k \in 1..Len(fs) - 1 : AfterValue(fs)[k] = fs[k]
          /\ fs # <<>> => AfterValue(fs)[Len(fs)] = WantsComma(fs[Len(fs)])
      BY <2>4, AfterValueFacts
    <3>2. depth > 1 => fs # <<>>
      BY <2>3, <2>4
    <3>3. depth - 1 - 1 = depth - 2 /\ frames' = AfterValue(fs)
      BY <2>1, <2>3
    <3> QED
      BY <2>4, <3>1, <3>2, <3>3
  <2>7. \A k \in 1..depth - 1 : InOrder(fs[k], TRUE)
    <3>1. \A k \in 1..Len(frames) : InOrder(frames[k], regOpen \/ k < Len(frames))
      BY <2>1, FramesInOrder
    <3> QED
      BY <2>3, <2>4, <3>1 DEF InOrder
  <2>8. \A k \in 1..depth - 1 : InOrder(frames'[k], TRUE)
    BY <2>1, <2>4, <2>7, AfterValueInOrder
  <2>9. \A k \in 1..depth - 1 : frames'[k].kind = kinds'[k]
    <3> SUFFICES ASSUME NEW k \in 1..depth - 1
                 PROVE  frames'[k].kind = fs[k].kind
      BY <2>2, <2>3, <2>4, <2>5, SMTT(40)
    <3>1. CASE k < depth - 1
      BY <2>3, <2>6, <3>1
    <3>2. CASE k = depth - 1
      <4>1. frames'[k] = WantsComma(fs[k])
        BY <2>3, <2>6, <3>2
      <4> QED
        BY <4>1 DEF WantsComma
    <3> QED
      BY <2>3, <3>1, <3>2
  <2>10. FlagsOK'
    BY <2>1 DEF IInv, TypeOK, FlagsOK, regionVars, loopVars, endVars
  <2>11. DataOK'
    <3>0. tok' = c /\ c \in Structural
      BY <2>1 DEF Structural
    <3>1. depth' \in Nat /\ tok' \in Structural
      BY <2>1, <2>3, <3>0
    <3>2. frames' \in Seq(Frames) /\ kinds' \in Seq({"obj", "arr"})
      BY <2>2, <2>5, <2>6
    <3>3. st' = "sIdle" /\ UNCHANGED <<regionVars, loopVars, endVars>>
      BY <2>1
    <3> QED
      BY <3>1, <3>2, <3>3 DEF IInv, TypeOK, DataOK, regionVars, loopVars, endVars
  <2>12. regOpen' = FALSE /\ inLoop' = FALSE
    BY <2>1, <2>3 DEF regionVars, loopVars
  <2>13. DepthsAgree'
    BY <2>1, <2>3, <2>6, <2>12 DEF DepthsAgree
  <2>14. LevelsAreDocument'
    BY <2>1, <2>2, <2>3, <2>5, <2>6, <2>9, <2>12, BoundsAssumption
       DEF LevelsAreDocument
  <2>15. rootDone' => frames' = <<>>
    <3>1. rootDone' => Len(frames') = 0
      <4>1. depth # 1 => rootDone' = FALSE
        BY <2>1, ZenonT(30)
      <4>2. depth \in Nat /\ Len(frames') = depth - 1
        BY <2>3, <2>6
      <4> QED
        BY <4>1, <4>2
    <3>2. frames' \in Seq(Frames)
      BY <2>6
    <3> QED
      BY <3>1, <3>2
  <2>16. ProgressIsDocument'
    BY <2>1, <2>6, <2>8, <2>12, <2>15 DEF ProgressIsDocument, InOrder
  <2> QED
    BY <2>10, <2>11, <2>13, <2>14, <2>16 DEF IInv, TypeOK
<1> QED
  BY <1>1, <1>2

\* The frame a value starts in: its element is counted, and nothing else.
LEMMA CountedFacts ==
    ASSUME IInv, InFrame, top.ph = "phValue"
    PROVE  /\ Live /\ regOpen = FALSE /\ inLoop = FALSE /\ rootDone = FALSE
           /\ frames \in Seq(Frames) /\ Len(frames) \in Nat \ {0}
           /\ depth = Len(frames)
           /\ Counted \in Seq(Frames) /\ Len(Counted) = Len(frames)
           /\ \A k \in 1..Len(frames) : InOrder(Counted[k], TRUE)
           /\ \A k \in 1..Len(frames) : Counted[k].kind = kinds[k]
<1>1. /\ Live /\ regOpen = FALSE /\ inLoop = FALSE /\ rootDone = FALSE
      /\ frames \in Seq(Frames) /\ Len(frames) \in Nat \ {0} /\ frames # <<>>
      /\ depth = Len(frames)
      /\ \A k \in 1..Len(frames) : frames[k].kind = kinds[k]
  BY DEF InFrame, IInv, TypeOK, FlagsOK, DataOK, DepthsAgree, LevelsAreDocument,
         ProgressIsDocument
<1>2. \A k \in 1..Len(frames) : InOrder(frames[k], k < Len(frames))
  <2>1. \A k \in 1..Len(frames) : InOrder(frames[k], regOpen \/ k < Len(frames))
    BY <1>1, FramesInOrder
  <2> QED
    BY <1>1, <2>1 DEF InOrder
<1>3. CASE top.kind # "arr"
  <2>1. Counted = frames
    BY <1>3 DEF Counted
  <2> QED
    BY <1>1, <1>2, <1>3, <2>1 DEF InOrder, top
<1>4. CASE top.kind = "arr"
  <2> DEFINE f == [top EXCEPT !.idx = 0]
  <2>1. f \in Frames /\ f.kind = top.kind /\ InOrder(f, TRUE)
    BY <1>1, <1>4, TopFacts DEF Frames, InOrder
  <2>2. Counted = SetTop(frames, f)
    BY <1>4 DEF Counted
  <2> HIDE DEF f
  <2>3. /\ Counted \in Seq(Frames) /\ Len(Counted) = Len(frames)
        /\ Counted[Len(frames)] = f
        /\ \A k \in 1..Len(frames) - 1 : Counted[k] = frames[k]
    BY <1>1, <2>1, <2>2, SetTopFacts
  <2>4. \A k \in 1..Len(frames) : k = Len(frames) \/ k \in 1..Len(frames) - 1
    BY <1>1
  <2>5. \A k \in 1..Len(frames) : InOrder(Counted[k], TRUE)
    BY <1>1, <1>2, <2>1, <2>3, <2>4 DEF InOrder
  <2>6. \A k \in 1..Len(frames) : Counted[k].kind = kinds[k]
    BY <1>1, <2>1, <2>3, <2>4 DEF top
  <2> QED
    BY <1>1, <2>3, <2>5, <2>6
<1> QED
  BY <1>3, <1>4

LEMMA EnterStep ==
    ASSUME IInv, InFrame, top.ph = "phValue", NEW c \in Opens, MayOpen,
           Enter(c), Read(c), NoBail, UNCHANGED loopVars
    PROVE  IInv'
<1> DEFINE g == NewFrame(KindOf(c))
<1>1. /\ frames' = Append(Counted, g) /\ depth' = depth + 1 /\ st' = "sIdle"
      /\ tok' = c
      /\ UNCHANGED <<regionVars, rootSeen, rootDone, loopVars, endVars>>
  BY DEF Enter, Read, NoBail
<1>2. kinds' = Append(kinds, KindOf(c))
  BY DEF Read
<1>3. KindOf(c) \in {"obj", "arr"}
  BY DEF KindOf
<1>4. g \in Frames /\ g.kind = KindOf(c) /\ InOrder(g, FALSE)
  BY <1>3 DEF NewFrame, Frames, Phases, InOrder
<1> HIDE DEF g
<1>5. /\ Live /\ regOpen = FALSE /\ inLoop = FALSE /\ rootDone = FALSE
      /\ Len(frames) \in Nat \ {0} /\ depth = Len(frames)
      /\ Counted \in Seq(Frames) /\ Len(Counted) = depth
      /\ \A k \in 1..depth : InOrder(Counted[k], TRUE)
      /\ \A k \in 1..depth : Counted[k].kind = kinds[k]
  BY CountedFacts
<1>6. /\ kinds \in Seq({"obj", "arr"}) /\ Len(kinds) = depth /\ depth < MaxDepth
  BY <1>5 DEF IInv, TypeOK, DataOK, LevelsAreDocument, MayOpen
<1>7. /\ kinds' \in Seq({"obj", "arr"}) /\ Len(kinds') = depth + 1
      /\ kinds'[depth + 1] = KindOf(c)
      /\ \A k \in 1..depth : kinds'[k] = kinds[k]
  BY <1>2, <1>3, <1>5, <1>6
<1>8. /\ frames' \in Seq(Frames) /\ Len(frames') = depth + 1
      /\ frames'[depth + 1] = g
      /\ \A k \in 1..depth : frames'[k] = Counted[k]
  BY <1>1, <1>4, <1>5
<1>9. \A k \in 1..depth + 1 : k = depth + 1 \/ k \in 1..depth
  BY <1>5
<1>10. FlagsOK'
  BY <1>1 DEF IInv, TypeOK, FlagsOK, regionVars, loopVars, endVars
<1>11. DataOK'
  <2>0. tok' = c /\ c \in Structural
    BY <1>1 DEF Structural
  <2>1. depth' \in Nat /\ tok' \in Structural
    BY <1>1, <1>5, <2>0
  <2>2. frames' \in Seq(Frames) /\ kinds' \in Seq({"obj", "arr"})
    BY <1>7, <1>8
  <2>3. st' = "sIdle" /\ UNCHANGED <<regionVars, loopVars, endVars>>
    BY <1>1
  <2> QED
    BY <2>1, <2>2, <2>3 DEF IInv, TypeOK, DataOK, regionVars, loopVars, endVars
<1>12. regOpen' = FALSE /\ inLoop' = FALSE /\ rootDone' = FALSE
  BY <1>1, <1>5 DEF regionVars, loopVars
<1>13. DepthsAgree'
  BY <1>1, <1>8, <1>12 DEF DepthsAgree
<1>14. \A k \in 1..depth + 1 : frames'[k].kind = kinds'[k]
  BY <1>4, <1>5, <1>7, <1>8, <1>9
<1>15. LevelsAreDocument'
  BY <1>1, <1>5, <1>6, <1>7, <1>8, <1>12, <1>14, BoundsAssumption
     DEF LevelsAreDocument
<1>16. \A k \in 1..depth + 1 : InOrder(frames'[k], k < depth + 1)
  BY <1>4, <1>5, <1>8, <1>9 DEF InOrder
<1>17. ProgressIsDocument'
  BY <1>1, <1>8, <1>12, <1>16 DEF ProgressIsDocument, InOrder
<1> QED
  BY <1>10, <1>11, <1>13, <1>15, <1>17 DEF IInv, TypeOK

\* A region opened in the frame on top, for a container or a simple value.
LEMMA RegionStartStep ==
    ASSUME IInv, InFrame, top.ph = "phValue",
           NEW c \in Opens \union {"str", "lit"}, c \in Opens => MayOpen,
           Region(c), Read(c), NoBail, UNCHANGED loopVars
    PROVE  IInv'
<1>1. /\ frames' = Counted /\ regOpen' = TRUE /\ regDepth' = depth
      /\ regDeep' = <<>> /\ tok' = c
      /\ UNCHANGED <<rootSeen, rootDone, loopVars, endVars>>
  BY DEF Region, Read, NoBail
<1>2. /\ Live /\ regOpen = FALSE /\ inLoop = FALSE /\ rootDone = FALSE
      /\ Len(frames) \in Nat \ {0} /\ depth = Len(frames)
      /\ Counted \in Seq(Frames) /\ Len(Counted) = depth
      /\ \A k \in 1..depth : InOrder(Counted[k], TRUE)
      /\ \A k \in 1..depth : Counted[k].kind = kinds[k]
  BY CountedFacts
<1>3. /\ kinds \in Seq({"obj", "arr"}) /\ Len(kinds) = depth /\ depth <= MaxDepth
      /\ regKinds \subseteq 1..BitLevels
  BY <1>2 DEF IInv, TypeOK, DataOK, LevelsAreDocument
<1>4. inLoop' = FALSE /\ rootDone' = FALSE /\ Live' /\ ph' \in RegPhases
  BY <1>1, <1>2 DEF loopVars, endVars, Live, IInv, TypeOK, DataOK
<1>5. FlagsOK'
  BY <1>1 DEF IInv, TypeOK, FlagsOK, loopVars, endVars
<1>6. code' \in {"none", "syntax", "root", "trailing", "incomplete", "protocol"}
  BY <1>1 DEF IInv, TypeOK, DataOK, endVars
<1>7. tok' \in Structural \union {"eof"}
  <2>1. c \in Structural
    BY DEF Structural
  <2> QED
    BY <1>1, <2>1
<1>8. frames' \in Seq(Frames) /\ Len(frames') = depth /\ regDepth' \in Nat
      /\ regDeep' \in Seq(BOOLEAN)
  BY <1>1, <1>2
<1>9. \A k \in 1..depth : InOrder(frames'[k], TRUE)
  BY <1>1, <1>2
<1>10. CASE c \in Opens
  <2>1. /\ depth' = depth + 1 /\ regN' = 1
        /\ regKinds' = IF c = "[" THEN regKinds \union {1} ELSE regKinds \ {1}
        /\ regPh' = IF c = "[" THEN "rAValue0" ELSE "rKey0"
    BY <1>10 DEF Region
  <2>2. st' = "sIdle"
    BY <1>10 DEF Region, LexAfter, Opens
  <2>3. kinds' = Append(kinds, KindOf(c))
    BY <1>10 DEF Read
  <2>4. KindOf(c) = (IF c = "[" THEN "arr" ELSE "obj") /\ depth < MaxDepth
    BY <1>10 DEF KindOf, Opens, MayOpen
  <2>5. /\ kinds' \in Seq({"obj", "arr"}) /\ Len(kinds') = depth + 1
        /\ kinds'[depth + 1] = IF c = "[" THEN "arr" ELSE "obj"
        /\ \A k \in 1..depth : kinds'[k] = kinds[k]
    BY <1>2, <1>3, <2>3, <2>4
  <2>6. /\ regPh' \in RegPhases \ {"rTop"} /\ depth' \in Nat /\ regN' \in Nat
        /\ PhaseKind(regPh') = kinds'[depth + 1]
    BY <1>2, <2>1, <2>5 DEF RegPhases, PhaseKind
  <2>7. regKinds' \subseteq 1..BitLevels
    BY <1>3, <2>1, BoundsAssumption
  <2>8. DataOK'
    BY <1>4, <1>6, <1>7, <1>8, <2>2, <2>5, <2>6, <2>7 DEF DataOK
  <2>9. DepthsAgree'
    BY <1>1, <1>2, <1>8, <2>1, <2>2 DEF DepthsAgree
  <2>10. Phase' = regPh'
    BY <1>4 DEF Phase
  <2>11. PhaseKind(Phase)' = kinds'[depth + 1]
    BY <2>6, <2>10 DEF PhaseKind
  <2>12. \A k \in 1..depth : frames'[k].kind = kinds'[k]
    BY <1>1, <1>2, <2>5
  <2>13. \A n \in 1..BitLevels :
           n <= regN' => (n \in regKinds' <=> kinds'[depth + n] = "arr")
    <3>1. 1 \in regKinds' <=> kinds'[depth + 1] = "arr"
      BY <2>1, <2>5
    <3>2. \A n \in 1..BitLevels : n <= regN' => n = 1
      BY <2>1, BoundsAssumption
    <3> QED
      BY <3>1, <3>2
  <2>14. LevelsAreDocument'
    BY <1>1, <1>2, <1>8, <2>1, <2>4, <2>5, <2>11, <2>12, <2>13, BoundsAssumption
       DEF LevelsAreDocument
  <2>15. ProgressIsDocument'
    BY <1>1, <1>2, <1>4, <1>8, <1>9, <2>1, <2>2, <2>6, <2>10
       DEF ProgressIsDocument, InOrder
  <2> QED
    BY <1>5, <2>8, <2>9, <2>14, <2>15 DEF IInv, TypeOK
<1>11. CASE c \in {"str", "lit"}
  <2>1. /\ depth' = depth /\ regN' = 0 /\ regPh' = "rTop" /\ regKinds' = regKinds
    BY <1>11 DEF Region, Opens
  <2>2. st' \in {"sInStr", "sInScalar"}
    BY <1>11 DEF Region, LexAfter
  <2>3. kinds' = kinds
    BY <1>11 DEF Read, Opens, Closes
  <2>4. DataOK'
    BY <1>2, <1>3, <1>4, <1>6, <1>7, <1>8, <2>1, <2>2, <2>3 DEF DataOK, RegPhases
  <2>5. DepthsAgree'
    BY <1>1, <1>2, <1>8, <2>1, <2>2 DEF DepthsAgree
  <2>6. Phase' = "rTop"
    BY <1>4, <2>1 DEF Phase
  <2>7. \A k \in 1..depth : frames'[k].kind = kinds'[k]
    BY <1>1, <1>2, <2>3
  <2>8. LevelsAreDocument'
    BY <1>1, <1>3, <1>8, <2>1, <2>3, <2>7, BoundsAssumption DEF LevelsAreDocument
  <2>9. ProgressIsDocument'
    BY <1>1, <1>2, <1>4, <1>8, <1>9, <2>1, <2>2, <2>6
       DEF ProgressIsDocument, InOrder
  <2> QED
    BY <1>5, <2>4, <2>5, <2>8, <2>9 DEF IInv, TypeOK
<1> QED
  BY <1>10, <1>11

LEMMA FrameValueStep ==
    ASSUME IInv, NEW c \in Opens \union {"str", "lit"}, FrameValue(c) PROVE IInv'
<1>1. CASE BailAt(c, "syntax") \/ BailAt(c, "protocol")
  <2>1. c \in Structural
    BY DEF Structural
  <2> QED
    BY <1>1, <2>1, BailAtStep
<1>2. CASE ~(BailAt(c, "syntax") \/ BailAt(c, "protocol"))
  <2>1. /\ InFrame /\ top.ph = "phValue"
        /\ c \in Opens => MayOpen
        /\ Read(c) /\ NoBail /\ UNCHANGED loopVars
        /\ Enter(c) \/ Region(c)
    BY <1>2 DEF FrameValue
  <2>2. CASE Enter(c)
    <3>1. c \in Opens /\ MayOpen
      BY <2>1, <2>2 DEF Enter
    <3> QED
      BY <2>1, <2>2, <3>1, EnterStep
  <2>3. CASE Region(c)
    BY <2>1, <2>3, RegionStartStep
  <2> QED
    BY <2>1, <2>2, <2>3
<1> QED
  BY <1>1, <1>2

LEMMA RegionOpenStep ==
    ASSUME IInv, NEW c \in Opens, RegionOpen(c) PROVE IInv'
<1>1. CASE BailAt(c, "syntax")
  BY <1>1, BailAtStep DEF Structural
<1>2. CASE ~BailAt(c, "syntax")
  <2>1. /\ Live /\ regOpen = TRUE /\ st = "sIdle" /\ inLoop = TRUE
        /\ regN \in Nat \ {0} /\ ph \in RegPhases
    <3>1. InRegion
      BY DEF RegionOpen
    <3> QED
      BY <3>1, LoopFacts
  <2>2. /\ depth' = depth + 1 /\ regPush(KindOf(c)) /\ ph' = regPh' /\ tok' = c
        /\ MayOpen /\ st' = "sIdle"
        /\ UNCHANGED <<frames, rootSeen, rootDone, regOpen, regDepth, inLoop, endVars>>
    BY <1>2, <2>1 DEF RegionOpen, Read, NoBail
  <2>3. kinds' = Append(kinds, KindOf(c))
    BY <1>2 DEF RegionOpen, Read
  <2>4. /\ regN' = regN + 1
        /\ regPh' = IF KindOf(c) = "arr" THEN "rAValue0" ELSE "rKey0"
    BY <2>2 DEF regPush
  <2>5. KindOf(c) \in {"obj", "arr"}
    BY DEF KindOf
  <2>6. /\ frames \in Seq(Frames) /\ Len(frames) \in Nat
        /\ depth = Len(frames) + regN /\ depth \in Nat \ {0} /\ depth < MaxDepth
        /\ regDepth = Len(frames) /\ rootDone \in BOOLEAN
        /\ kinds \in Seq({"obj", "arr"}) /\ Len(kinds) = depth
        /\ regKinds \subseteq 1..BitLevels /\ regDeep \in Seq(BOOLEAN)
    BY <2>1, <2>2 DEF IInv, TypeOK, FlagsOK, DataOK, DepthsAgree,
                      LevelsAreDocument, MayOpen
  <2>7. /\ kinds' \in Seq({"obj", "arr"}) /\ Len(kinds') = depth + 1
        /\ kinds'[depth + 1] = KindOf(c)
        /\ \A k \in 1..depth : kinds'[k] = kinds[k]
    BY <2>3, <2>5, <2>6
  <2>8. /\ regPh' \in RegPhases \ {"rTop"} /\ PhaseKind(regPh') = KindOf(c)
    BY <2>4, <2>5 DEF RegPhases, PhaseKind
  <2>9. regKinds' \subseteq 1..BitLevels /\ regDeep' \in Seq(BOOLEAN)
    <3>1. CASE regN + 1 <= BitLevels
      <4>1. /\ regDeep' = regDeep
            /\ regKinds' = IF KindOf(c) = "arr" THEN regKinds \union {regN + 1}
                                               ELSE regKinds \ {regN + 1}
        BY <2>2, <3>1 DEF regPush
      <4> QED
        BY <2>1, <2>6, <3>1, <4>1
    <3>2. CASE ~(regN + 1 <= BitLevels)
      <4>1. regKinds' = regKinds /\ regDeep' = Append(regDeep, KindOf(c) = "arr")
        BY <2>2, <3>2 DEF regPush
      <4>2. (KindOf(c) = "arr") \in BOOLEAN
        OBVIOUS
      <4> DEFINE b == KindOf(c) = "arr"
      <4> HIDE DEF b
      <4>3. \A d \in Seq(BOOLEAN), x \in BOOLEAN : Append(d, x) \in Seq(BOOLEAN)
        OBVIOUS
      <4> QED
        BY <2>6, <4>1, <4>2, <4>3, ZenonT(30)
    <3> QED
      BY <3>1, <3>2
  <2>10. FlagsOK'
    BY <2>2 DEF IInv, TypeOK, FlagsOK, endVars
  <2>11. DataOK'
    <3>1. tok' \in Structural \union {"eof"}
      <4>1. c \in Structural
        BY DEF Structural
      <4> QED
        BY <2>2, <4>1
    <3>2. /\ frames' \in Seq(Frames) /\ depth' \in Nat /\ regDepth' \in Nat
          /\ regN' \in Nat /\ st' = "sIdle"
          /\ code' \in {"none", "syntax", "root", "trailing", "incomplete", "protocol"}
      BY <2>1, <2>2, <2>4, <2>6 DEF IInv, TypeOK, DataOK, endVars
    <3>3. regPh' \in RegPhases /\ ph' \in RegPhases /\ kinds' \in Seq({"obj", "arr"})
      BY <2>2, <2>7, <2>8
    <3> QED
      BY <2>9, <3>1, <3>2, <3>3 DEF DataOK
  <2>12. Live' /\ regOpen' = TRUE /\ inLoop' = TRUE /\ Phase' = regPh'
    BY <2>1, <2>2 DEF Live, endVars, Phase
  <2>13. DepthsAgree'
    BY <2>1, <2>2, <2>4, <2>6, <2>12 DEF DepthsAgree
  <2>14. \A n \in 1..BitLevels :
            n <= regN + 1 => (n \in regKinds' <=> kinds'[Len(frames) + n] = "arr")
    <3>1. \A n \in 1..BitLevels :
            n <= regN => (n \in regKinds <=> kinds[Len(frames) + n] = "arr")
      BY <2>1 DEF IInv, LevelsAreDocument
    <3>2. \A n \in 1..BitLevels :
            n <= regN => (n \in regKinds <=> kinds'[Len(frames) + n] = "arr")
      BY <2>1, <2>6, <2>7, <3>1, BoundsAssumption
    <3>3. CASE regN + 1 <= BitLevels
      <4>1. regKinds' = IF KindOf(c) = "arr" THEN regKinds \union {regN + 1}
                                             ELSE regKinds \ {regN + 1}
        BY <2>2, <3>3 DEF regPush
      <4> SUFFICES ASSUME NEW n \in 1..BitLevels, n <= regN + 1
                   PROVE  n \in regKinds' <=> kinds'[Len(frames) + n] = "arr"
        OBVIOUS
      <4>2. CASE n <= regN
        <5>1. n # regN + 1
          BY <2>1, <4>2, BoundsAssumption
        <5> QED
          BY <3>2, <4>1, <4>2, <5>1
      <4>3. CASE n = regN + 1
        <5>1. Len(frames) + n = depth + 1
          BY <2>1, <2>6, <4>3
        <5> QED
          BY <2>5, <2>7, <4>1, <4>3, <5>1
      <4> QED
        BY <2>1, <4>2, <4>3, BoundsAssumption
    <3>4. CASE ~(regN + 1 <= BitLevels)
      <4>1. regKinds' = regKinds
        BY <2>2, <3>4 DEF regPush
      <4>2. \A n \in 1..BitLevels : n <= regN
        BY <2>1, <3>4, BoundsAssumption
      <4> QED
        BY <3>2, <4>1, <4>2
    <3> QED
      BY <3>3, <3>4
  <2>15. PhaseKind(Phase)' = KindOf(c)
    BY <2>8, <2>12 DEF PhaseKind
  <2>16. \A k \in 1..Len(frames) : frames'[k].kind = kinds'[k]
    BY <2>1, <2>2, <2>6, <2>7 DEF IInv, LevelsAreDocument
  <2>17. regN' > BitLevels => Len(regDeep') >= regN' - BitLevels
    <3> SUFFICES ASSUME regN' > BitLevels PROVE Len(regDeep') >= regN' - BitLevels
      OBVIOUS
    <3>1. regDeep' = Append(regDeep, KindOf(c) = "arr")
      BY <2>1, <2>2, <2>4, BoundsAssumption DEF regPush
    <3>2. Len(regDeep') = Len(regDeep) + 1 /\ Len(regDeep) \in Nat
      BY <2>6, <3>1
    <3>3. regN > BitLevels => Len(regDeep) >= regN - BitLevels
      BY <2>1 DEF IInv, LevelsAreDocument
    <3> QED
      BY <2>1, <2>4, <3>2, <3>3, BoundsAssumption
  <2>19. LevelsAreDocument'
    BY <2>2, <2>4, <2>6, <2>7, <2>14, <2>15, <2>16, <2>17, BoundsAssumption
       DEF LevelsAreDocument
  <2>18. ProgressIsDocument'
    BY <2>1, <2>2, <2>4, <2>8, <2>12 DEF IInv, ProgressIsDocument
  <2> QED
    BY <2>10, <2>11, <2>13, <2>18, <2>19 DEF IInv, TypeOK
<1> QED
  BY <1>1, <1>2

LEMMA RegionCloseStep ==
    ASSUME IInv, NEW c \in Closes, RegionClose(c) PROVE IInv'
<1>1. CASE BailAt(c, "syntax") \/ BailAt(c, "protocol")
  BY <1>1, BailAtStep DEF Structural
<1>2. CASE ~(BailAt(c, "syntax") \/ BailAt(c, "protocol"))
  <2> DEFINE ks == SubSeq(kinds, 1, Len(kinds) - 1)
  <2>1. /\ Live /\ regOpen = TRUE /\ st = "sIdle" /\ inLoop = TRUE
        /\ regN \in Nat \ {0} /\ ph \in RegPhases
    <3>1. InRegion
      BY DEF RegionClose
    <3> QED
      BY <3>1, LoopFacts
  <2>2. /\ IF depth - 1 = regDepth THEN RegionLastClose ELSE RegionInnerClose
        /\ depth' = depth - 1 /\ tok' = c /\ st' = "sIdle"
        /\ UNCHANGED <<rootSeen, rootDone, regDepth, endVars>>
    BY <1>2, <2>1 DEF RegionClose, Read, NoBail
  <2>3. kinds' = ks
    BY <1>2 DEF RegionClose, Read, Opens, Closes
  <2>4. /\ frames \in Seq(Frames) /\ Len(frames) \in Nat \ {0}
        /\ depth = Len(frames) + regN /\ depth \in Nat \ {0} /\ depth <= MaxDepth
        /\ regDepth = Len(frames) /\ rootDone \in BOOLEAN
        /\ kinds \in Seq({"obj", "arr"}) /\ Len(kinds) = depth
        /\ regKinds \subseteq 1..BitLevels /\ regDeep \in Seq(BOOLEAN)
        /\ regPh \in RegPhases
    BY <2>1 DEF IInv, TypeOK, FlagsOK, DataOK, DepthsAgree, LevelsAreDocument,
                ProgressIsDocument
  <2>5. /\ ks \in Seq({"obj", "arr"}) /\ Len(ks) = depth - 1
        /\ \A k \in 1..depth - 1 : ks[k] = kinds[k]
    BY <2>4, PopFacts
  <2> HIDE DEF ks
  <2>6. NestingFits => regN <= BitLevels + 1
    BY <2>1, <2>4, BoundsAssumption DEF NestingFits
  <2>7. /\ regN' = regN - 1 /\ regKinds' = regKinds /\ regDeep' \in Seq(BOOLEAN)
        /\ regN' > BitLevels => Len(regDeep') >= regN' - BitLevels
    <3>1. regPop
      BY <2>2 DEF RegionLastClose, RegionInnerClose
    <3>2. CASE ~(regN - 1 > BitLevels)
      BY <2>4, <3>1, <3>2 DEF regPop
    <3>3. CASE regN - 1 > BitLevels
      <4> DEFINE n == regN - 1 - BitLevels
      <4>1. /\ regN' = regN - 1 /\ regKinds' = regKinds
            /\ regDeep' = SubSeq(regDeep, 1, n)
        BY <3>1, <3>3 DEF regPop
      <4>2. n \in Nat /\ n <= Len(regDeep)
        BY <2>1, <2>4, <3>3, BoundsAssumption DEF IInv, LevelsAreDocument
      <4>3. regN' - BitLevels = n
        BY <4>1
      <4> HIDE DEF n
      <4>4. SubSeq(regDeep, 1, n) \in Seq(BOOLEAN) /\ Len(SubSeq(regDeep, 1, n)) = n
        BY <2>4, <4>2
      <4> QED
        BY <4>1, <4>2, <4>3, <4>4
    <3> QED
      BY <3>2, <3>3
  <2>8. PhaseAfterPop \in RegPhases
    BY DEF PhaseAfterPop, RegPhases
  <2>9. tok' \in Structural \union {"eof"}
    <3>1. c \in Structural
      BY DEF Structural
    <3> QED
      BY <2>2, <3>1
  <2>10. CASE depth - 1 = regDepth
    <3>1. /\ regPh' = PhaseAfterPop /\ ph' = PhaseAfterPop /\ inLoop' = FALSE
          /\ regOpen' = FALSE /\ frames' = AfterValue(frames)
      BY <2>2, <2>10 DEF RegionLastClose
    <3>2. /\ depth' = Len(frames) /\ Len(kinds') = Len(frames)
          /\ kinds' \in Seq({"obj", "arr"})
          /\ \A k \in 1..Len(frames) : kinds'[k] = kinds[k]
      BY <2>2, <2>3, <2>4, <2>5, <2>10
    <3>3. regN' \in Nat /\ regDeep' \in Seq(BOOLEAN)
      BY <2>1, <2>7
    <3>4. UNCHANGED <<rootSeen, rootDone, regDepth, regKinds, endVars>>
      BY <2>2, <2>7
    <3>5. st' = "sIdle" /\ regPh' \in RegPhases /\ ph' \in RegPhases
      BY <2>2, <2>8, <3>1
    <3> QED
      BY <2>1, <2>9, <3>1, <3>2, <3>3, <3>4, <3>5, RegionEndStep
  <2>11. CASE depth - 1 # regDepth
    <3>1. /\ ph' = PhaseAfterPop /\ inLoop' = TRUE
          /\ UNCHANGED <<frames, regOpen, regPh>>
      BY <2>1, <2>2, <2>11 DEF RegionInnerClose
    <3>2. regN >= 2
      BY <2>1, <2>4, <2>11
    <3>3. NestingFits => regN - 1 \in 1..BitLevels
      BY <2>1, <2>6, <3>2, BoundsAssumption
    <3>4. NestingFits => (regN - 1 \in regKinds <=> kinds[depth - 1] = "arr")
      <4>1. \A n \in 1..BitLevels :
              n <= regN => (n \in regKinds <=> kinds[Len(frames) + n] = "arr")
        BY <2>1 DEF IInv, LevelsAreDocument
      <4>2. Len(frames) + (regN - 1) = depth - 1 /\ regN - 1 <= regN
        BY <2>1, <2>4
      <4> QED
        BY <3>3, <4>1, <4>2
    <3>5. kinds'[depth - 1] = kinds[depth - 1] /\ kinds[depth - 1] \in {"obj", "arr"}
      <4>1. depth - 1 \in 1..depth - 1 /\ depth - 1 \in 1..depth
        BY <2>1, <2>4, <3>2
      <4> QED
        BY <2>3, <2>4, <2>5, <4>1
    <3>6. /\ ph' # "rTop"
          /\ NestingFits => ph' = IF regN - 1 \in regKinds THEN "rAComma" ELSE "rOComma"
      <4>1. ph' = IF ParentArr(regN - 1) THEN "rAComma" ELSE "rOComma"
        BY <2>1, <3>1, <3>2 DEF PhaseAfterPop
      <4>2. NestingFits => ParentArr(regN - 1) = (regN - 1 \in regKinds)
        BY <3>3, BoundsAssumption DEF ParentArr
      <4> QED
        BY <4>1, <4>2
    <3>7. NestingFits => PhaseKind(ph') = kinds'[depth - 1]
      BY <3>4, <3>5, <3>6 DEF PhaseKind
    <3>8. Live' /\ regOpen' = TRUE /\ inLoop' = TRUE /\ Phase' = ph'
      BY <2>1, <2>2, <3>1 DEF Live, endVars, Phase
    <3>9. FlagsOK'
      BY <2>2, <3>1 DEF IInv, TypeOK, FlagsOK, endVars
    <3>10. DataOK'
      <4>1. /\ frames' \in Seq(Frames) /\ depth' \in Nat /\ regDepth' \in Nat
            /\ regN' \in Nat /\ st' = "sIdle"
            /\ code' \in {"none", "syntax", "root", "trailing", "incomplete", "protocol"}
        BY <2>1, <2>2, <2>4, <2>7, <3>1 DEF IInv, TypeOK, DataOK, endVars
      <4>2. /\ regPh' \in RegPhases /\ ph' \in RegPhases
            /\ kinds' \in Seq({"obj", "arr"})
            /\ regKinds' \subseteq 1..BitLevels /\ regDeep' \in Seq(BOOLEAN)
        BY <2>3, <2>4, <2>5, <2>7, <2>8, <3>1
      <4> QED
        BY <2>9, <4>1, <4>2 DEF DataOK
    <3>11. DepthsAgree'
      BY <2>1, <2>2, <2>4, <2>7, <3>1, <3>2, <3>8 DEF DepthsAgree
    <3>12. \A n \in 1..BitLevels :
             n <= regN' => (n \in regKinds' <=> kinds'[Len(frames) + n] = "arr")
      <4> SUFFICES ASSUME NEW n \in 1..BitLevels, n <= regN - 1
                   PROVE  n \in regKinds <=> kinds'[Len(frames) + n] = "arr"
        BY <2>7
      <4>1. n \in regKinds <=> kinds[Len(frames) + n] = "arr"
        BY <2>1, BoundsAssumption DEF IInv, LevelsAreDocument
      <4>2. Len(frames) + n \in 1..depth - 1
        BY <2>1, <2>4, BoundsAssumption
      <4>3. kinds'[Len(frames) + n] = kinds[Len(frames) + n]
        BY <2>3, <2>5, <4>2
      <4> QED
        BY <4>1, <4>3
    <3>13. \A k \in 1..Len(frames) : frames'[k].kind = kinds'[k]
      BY <2>1, <2>3, <2>4, <2>5, <3>1, <3>2, SMTT(40) DEF IInv, LevelsAreDocument
    <3>14. NestingFits => PhaseKind(Phase)' = kinds'[depth - 1]
      BY <3>7, <3>8 DEF PhaseKind
    <3>15. LevelsAreDocument'
      BY <2>2, <2>3, <2>4, <2>5, <2>7, <3>1, <3>12, <3>13, <3>14, BoundsAssumption
         DEF LevelsAreDocument
    <3>16. ProgressIsDocument'
      BY <2>1, <2>2, <2>7, <3>1, <3>2, <3>6, <3>8 DEF IInv, ProgressIsDocument
    <3> QED
      BY <3>9, <3>10, <3>11, <3>15, <3>16 DEF IInv, TypeOK
  <2> QED
    BY <2>10, <2>11
<1> QED
  BY <1>1, <1>2

-----------------------------------------------------------------------------
LEMMA NextInv == IInv /\ [Next]_vars => IInv'
<1> SUFFICES ASSUME IInv, [Next]_vars PROVE IInv'
  OBVIOUS
<1>1. CASE \E c \in Structural : Root(c) \/ Trailing(c)
  BY <1>1, RootStep, TrailingStep
<1>2. CASE Finish
  BY <1>2, FinishStep
<1>3. CASE \E c \in Closes : FrameClose(c) \/ RegionClose(c)
  BY <1>3, FrameCloseStep, RegionCloseStep
<1>4. CASE FrameColon \/ FrameComma \/ KeyStart \/ KeyEnd
  BY <1>4, FrameColonStep, FrameCommaStep, KeyStartStep, KeyEndStep
<1>5. CASE FrameJunk \/ RegionJunk \/ LexicalError
  BY <1>5, JunkStep
<1>6. CASE \E c \in Opens \union {"str", "lit"} : FrameValue(c)
  BY <1>6, FrameValueStep
<1>7. CASE EnterLoop \/ LeaveLoop
  BY <1>7, EnterLoopStep, LeaveLoopStep
<1>8. CASE \E c \in {"str", "lit"} : RegionSimple(c)
  BY <1>8, RegionSimpleStep
<1>9. CASE \E c \in Opens : RegionOpen(c)
  BY <1>9, RegionOpenStep
<1>10. CASE RegionColon \/ RegionComma \/ SimpleEnd
  BY <1>10, RegionColonStep, RegionCommaStep, SimpleEndStep
<1>11. CASE UNCHANGED vars
  BY <1>11 DEF vars, frameVars, regionVars, loopVars, endVars, readVars,
     IInv, TypeOK, FlagsOK, DataOK, DepthsAgree, LevelsAreDocument,
     ProgressIsDocument, Live, Phase
<1> QED
  BY <1>1, <1>2, <1>3, <1>4, <1>5, <1>6, <1>7, <1>8, <1>9, <1>10, <1>11 DEF Next

\* The inductive invariant of the scan grammar, for every width of the kinds
\* word and every nesting.
THEOREM Invariance == Spec => []IInv
BY InitInv, NextInv, PTL DEF Spec

\* The scanner's state stays in its types (engine.go's scan loop never
\* indexes a frame or a level that is not there).
THEOREM TypeCorrect == Spec => []TypeOK
<1>1. IInv => TypeOK
  BY DEF IInv
<1> QED
  BY Invariance, <1>1, PTL

\* depth and regN agree, so a region ends at its own bracket (engine.go:267).
THEOREM DepthsCorrect == Spec => []DepthsAgree
<1>1. IInv => DepthsAgree
  BY DEF IInv
<1> QED
  BY Invariance, <1>1, PTL

\* The scanner's flags say where it is in the document: what the checks for a
\* trailing comma (engine.go:351-358) and for the loop's phase rest on.
THEOREM ProgressCorrect == Spec => []ProgressIsDocument
<1>1. IInv => ProgressIsDocument
  BY DEF IInv
<1> QED
  BY Invariance, <1>1, PTL

\* The containers the parser holds, in frames, bits and a phase, are those
\* the document has open.
THEOREM StackCorrect == ASSUME NestingFits PROVE Spec => []StackIsDocument
<1>1. IInv => StackIsDocument
  <2> SUFFICES ASSUME IInv, Live PROVE OpenKinds = kinds
    BY DEF StackIsDocument
  <2> DEFINE d == Len(frames) + (IF regOpen THEN regN ELSE 0)
  <2>1. /\ frames \in Seq(Frames) /\ Len(frames) \in Nat /\ regN \in Nat
        /\ regOpen \in BOOLEAN /\ kinds \in Seq({"obj", "arr"})
        /\ Len(kinds) = d /\ d <= MaxDepth
        /\ regOpen => Len(frames) > 0
    BY DEF IInv, TypeOK, FlagsOK, DataOK, DepthsAgree, LevelsAreDocument,
           ProgressIsDocument
  <2>2. \A k \in 1..d : OpenKinds[k] = kinds[k]
    <3> SUFFICES ASSUME NEW k \in 1..d PROVE OpenKinds[k] = kinds[k]
      OBVIOUS
    <3>1. OpenKinds[k] = IF k <= Len(frames) THEN frames[k].kind
                                             ELSE LevelKind(k - Len(frames))
      BY DEF OpenKinds
    <3>2. CASE k <= Len(frames)
      BY <2>1, <3>1, <3>2 DEF IInv, LevelsAreDocument
    <3>3. CASE ~(k <= Len(frames))
      <4> DEFINE n == k - Len(frames)
      <4>1. regOpen = TRUE /\ n \in 1..regN /\ Len(frames) + n = k
        BY <2>1, <3>3
      <4>2. OpenKinds[k] = LevelKind(n) /\ kinds[k] \in {"obj", "arr"}
        BY <2>1, <3>1, <3>3
      <4>3. CASE n = regN
        <5>1. LevelKind(n) = PhaseKind(Phase)
          BY <4>3 DEF LevelKind
        <5>2. PhaseKind(Phase) = kinds[depth] /\ depth = k
          BY <2>1, <4>1, <4>3 DEF IInv, DepthsAgree, LevelsAreDocument
        <5> QED
          BY <4>2, <5>1, <5>2
      <4>4. CASE n # regN
        <5>1. n \in 1..BitLevels /\ n <= regN
          BY <2>1, <4>1, <4>4, BoundsAssumption DEF NestingFits
        <5>2. n \in regKinds <=> kinds[Len(frames) + n] = "arr"
          BY <4>1, <5>1 DEF IInv, LevelsAreDocument
        <5>3. LevelKind(n) = IF n \in regKinds THEN "arr" ELSE "obj"
          BY <4>4, <5>1, BoundsAssumption DEF LevelKind, ParentArr
        <5> QED
          BY <4>1, <4>2, <5>2, <5>3
      <4> QED
        BY <4>3, <4>4
    <3> QED
      BY <3>2, <3>3
  <2>3. DOMAIN OpenKinds = 1..d
    BY DEF OpenKinds
  <2>4. OpenKinds = [k \in 1..d |-> OpenKinds[k]]
    BY DEF OpenKinds
  <2>5. kinds = [k \in 1..d |-> kinds[k]]
    BY <2>1
  <2> HIDE DEF d
  <2> QED
    BY <2>2, <2>4, <2>5
<1> QED
  BY Invariance, <1>1, PTL

-----------------------------------------------------------------------------
(* The refinement of JSONDoc.                                              *)

\* What the scanner expects next, and the container it is in.
LEMMA FrameFacts ==
    ASSUME IInv, InFrame
    PROVE  /\ Live /\ regOpen = FALSE /\ rootDone = FALSE /\ inLoop = FALSE
           /\ frames \in Seq(Frames) /\ Len(frames) \in Nat \ {0}
           /\ frames # <<>> /\ top \in Frames /\ InOrder(top, FALSE)
           /\ depth = Len(frames) /\ Len(kinds) = Len(frames)
           /\ Expects = FrameExpects(top) /\ Verdict = "reading"
           /\ Doc!Top = top.kind
<1>1. /\ Live /\ regOpen = FALSE /\ rootDone = FALSE /\ inLoop = FALSE
      /\ frames \in Seq(Frames) /\ Len(frames) \in Nat \ {0} /\ frames # <<>>
      /\ depth = Len(frames) /\ Len(kinds) = depth
      /\ \A k \in 1..Len(frames) : frames[k].kind = kinds[k]
  BY DEF InFrame, IInv, TypeOK, FlagsOK, DataOK, DepthsAgree, LevelsAreDocument,
         ProgressIsDocument
<1>2. \A k \in 1..Len(frames) : InOrder(frames[k], k < Len(frames))
  BY <1>1, FramesInOrder
<1>3. Len(frames) \in 1..Len(frames) /\ ~(Len(frames) < Len(frames))
  BY <1>1
<1>4. InOrder(top, FALSE)
  BY <1>2, <1>3 DEF top, InOrder
<1>5. top \in Frames
  BY <1>1, TopFacts
<1>6. Doc!Top = top.kind
  BY <1>1, <1>3 DEF top, Doc!Top
<1>7. Expects = FrameExpects(top) /\ Verdict = "reading"
  BY <1>1 DEF Expects, Verdict, Live
<1> QED
  BY <1>1, <1>4, <1>5, <1>6, <1>7

LEMMA LoopExpects ==
    ASSUME NestingFits, IInv, InRegion
    PROVE  /\ Expects = RegionExpects /\ Phase = ph /\ ph \in RegPhases \ {"rTop"}
           /\ Verdict = "reading" /\ Doc!Top = PhaseKind(ph)
           /\ Len(kinds) = depth /\ depth = Len(frames) + regN
           /\ regDepth = Len(frames) /\ Len(frames) \in Nat \ {0}
           /\ frames \in Seq(Frames)
<1>1. /\ Live /\ regOpen = TRUE /\ regN \in Nat /\ regN > 0 /\ Phase = ph
      /\ ph \in RegPhases
  BY LoopFacts
<1>2. /\ depth = Len(frames) + regN /\ regDepth = Len(frames) /\ Len(kinds) = depth
      /\ PhaseKind(Phase) = kinds[depth] /\ Phase # "rTop" /\ frames # <<>>
      /\ frames \in Seq(Frames)
  BY <1>1 DEF IInv, TypeOK, DataOK, DepthsAgree, LevelsAreDocument, ProgressIsDocument
<1>3. Expects = RegionExpects /\ Verdict = "reading"
  BY <1>1 DEF Expects, Verdict, Live
<1> QED
  BY <1>1, <1>2, <1>3 DEF Doc!Top

\* A dead transformer is left as it was.
LEMMA BailKeeps ==
    ASSUME Live, NEW e, Bail(e)
    PROVE  /\ Expects' = Expects /\ Verdict = "reading"
           /\ Verdict' = IF e \in {"syntax", "trailing", "incomplete"}
                         THEN "invalid" ELSE "stopped"
<1>1. UNCHANGED <<regOpen, inLoop, ph, regPh, frames, rootDone, finished>>
      /\ dead' = TRUE /\ code' = e
  BY DEF Bail, frameVars, regionVars, loopVars
<1>2. Expects' = Expects
  BY <1>1 DEF Expects, RegionExpects, Phase, FrameExpects, top
<1>3. Verdict = "reading"
  BY DEF Verdict, Live
<1> QED
  BY <1>1, <1>2, <1>3 DEF Verdict, Live

LEMMA Tokens == Structural \union {"eof"} = Doc!Tokens
BY DEF Structural, Opens, Closes, Doc!Tokens, Doc!Opens, Doc!Closes

\* A token that the grammar does not allow is refused.
LEMMA Refuses ==
    ASSUME Live, NEW c \in Structural \union {"eof"},
           NEW e \in {"syntax", "trailing", "incomplete"},
           BailAt(c, e), ~Doc!Legal(c)
    PROVE  Doc!Next
<1>1. Expects' = Expects /\ Verdict = "reading" /\ Verdict' = "invalid"
  BY BailKeeps DEF BailAt
<1>2. c \in Doc!Tokens /\ tok' = c /\ kinds' = kinds
  BY Tokens DEF BailAt
<1> QED
  BY <1>1, <1>2 DEF Doc!Next, Doc!Refuse

\* A hook, or a root that is no container, stops the transformer.
LEMMA StopsAt ==
    ASSUME Live, NEW e \in {"root", "protocol"}, Bail(e), kinds' = kinds,
           tok' \in Structural \union {"eof"}
    PROVE  Doc!Next
<1>1. Expects' = Expects /\ Verdict = "reading" /\ Verdict' = "stopped"
  BY BailKeeps
<1>2. tok' \in Doc!Tokens
  BY Tokens
<1> QED
  BY <1>1, <1>2 DEF Doc!Next, Doc!Stop

\* A token the grammar allows is accepted.
LEMMA Accepts ==
    ASSUME NEW c \in Structural \union {"eof"}, Verdict = "reading",
           Doc!Legal(c), tok' = c,
           \/ Doc!Open(c) \/ Doc!Close(c) \/ Doc!Key(c) \/ Doc!Simple(c)
           \/ Doc!Colon(c) \/ Doc!Comma(c) \/ Doc!Complete(c)
    PROVE  Doc!Next
BY Tokens DEF Doc!Next, Doc!Accept

\* The transformer goes on.
LEMMA GoesOn ==
    ASSUME Live, NoBail
    PROVE  Verdict = "reading" /\ Verdict' = Verdict /\ Live'
BY DEF Live, NoBail, endVars, Verdict

\* What is legal where, of the structural bytes.
LEMMA LegalAt ==
    ASSUME NEW c
    PROVE  Doc!Legal(c) <=>
             \/ c \in Opens /\ Expects \in {"root", "value", "elem"}
             \/ c = "lit" /\ Expects \in {"value", "elem"}
             \/ c = "str" /\ Expects \in {"first", "key", "value", "elem"}
             \/ c = ":" /\ Expects = "colon"
             \/ c = "," /\ Expects = "more"
             \/ /\ c \in Closes /\ Expects \in {"more", "first", "elem"}
                /\ Doc!Top = KindOf(c)
             \/ c = "eof" /\ Expects = "end"
BY DEF Doc!Legal, Opens, Closes, KindOf, Doc!Opens, Doc!Closes, Doc!KindOf

-----------------------------------------------------------------------------
(* One lemma per action.                                                   *)

LEMMA RootReads ==
    ASSUME IInv, NEW c \in Structural, Root(c)
    PROVE  Doc!Next
<1>1. Live /\ frames = <<>> /\ regOpen = FALSE /\ ~rootDone /\ Verdict = "reading"
  BY DEF Root, AtRoot, IInv, TypeOK, FlagsOK, Live, Verdict
<1>2. CASE ~(c \in Opens /\ KindOf(c) \in RootKinds)
  BY <1>1, <1>2, StopsAt DEF Root, BailAt
<1>3. CASE c \in Opens /\ KindOf(c) \in RootKinds
  <2>1. /\ frames' = <<NewFrame(KindOf(c))>> /\ regOpen' = FALSE
        /\ kinds' = Append(kinds, KindOf(c)) /\ tok' = c /\ NoBail
    BY <1>1, <1>3 DEF Root, Read, regionVars
  <2>2. Expects = "root"
    BY <1>1 DEF Expects
  <2>3. Expects' = FrameExpects(NewFrame(KindOf(c)))
    BY <2>1 DEF Expects, top
  <2>4. Expects' = IF c = "{" THEN "first" ELSE "elem"
    BY <1>3, <2>3 DEF FrameExpects, NewFrame, KindOf, Opens
  <2>5. Doc!Open(c)
    BY <1>1, <1>3, <2>1, <2>4, GoesOn
       DEF Doc!Open, Doc!Opens, Opens, Doc!KindOf, KindOf
  <2>6. Doc!Legal(c)
    BY <1>3, <2>2, LegalAt
  <2> QED
    BY <1>1, <2>1, <2>5, <2>6, Accepts
<1> QED
  BY <1>2, <1>3

LEMMA TrailingReads ==
    ASSUME IInv, NEW c \in Structural, Trailing(c)
    PROVE  Doc!Next
<1>1. Live /\ frames = <<>> /\ regOpen = FALSE /\ rootDone
  BY DEF Trailing, AtRoot, IInv, TypeOK, FlagsOK
<1>2. Expects = "end" /\ c # "eof"
  BY <1>1 DEF Expects, Structural, Opens, Closes
<1>3. ~Doc!Legal(c)
  BY <1>2, LegalAt
<1> QED
  BY <1>1, <1>3, Refuses DEF Trailing

LEMMA FinishReads ==
    ASSUME IInv, Finish
    PROVE  Doc!Next
<1>1. Live /\ Verdict = "reading" /\ regOpen \in BOOLEAN
  BY DEF Finish, Live, Verdict, IInv, TypeOK, FlagsOK
<1>2. Doc!Legal("eof") <=> Expects = "end"
  BY LegalAt DEF Opens, Closes
<1>3. CASE /\ rootDone /\ finished' = TRUE /\ Read("eof")
           /\ UNCHANGED <<st, frameVars, regionVars, loopVars, dead, code>>
  <2>1. frames = <<>> /\ regOpen = FALSE
    BY <1>1, <1>3 DEF IInv, ProgressIsDocument
  <2>2. Expects = "end"
    BY <1>3, <2>1 DEF Expects
  <2>3. /\ finished' = TRUE /\ kinds' = kinds /\ tok' = "eof"
        /\ UNCHANGED <<frames, rootDone, regOpen>>
    BY <1>3 DEF Read, Opens, Closes, frameVars, regionVars
  <2>4. Expects' = "end" /\ Verdict' = "valid"
    BY <1>3, <2>1, <2>3 DEF Expects, Verdict
  <2>5. Doc!Complete("eof")
    BY <2>2, <2>3, <2>4 DEF Doc!Complete
  <2> QED
    BY <1>1, <1>2, <2>2, <2>3, <2>5, Accepts
<1>4. CASE ~rootDone
  <2>1. Expects # "end"
    BY <1>4 DEF Expects, RegionExpects, FrameExpects
  <2>2. BailAt("eof", "incomplete")
    BY <1>4 DEF Finish
  <2> QED
    BY <1>1, <1>2, <2>1, <2>2, Refuses
<1>5. CASE BailAt("eof", "protocol")
  BY <1>1, <1>5, StopsAt DEF BailAt
<1> QED
  BY <1>3, <1>4, <1>5 DEF Finish

LEMMA FrameCloseReads ==
    ASSUME IInv, NEW c \in Closes, FrameClose(c)
    PROVE  Doc!Next
<1> DEFINE k == KindOf(c)
           rest == SubSeq(frames, 1, Len(frames) - 1)
<1>1. InFrame
  BY DEF FrameClose
<1>2. /\ Live /\ regOpen = FALSE /\ rootDone = FALSE
      /\ frames \in Seq(Frames) /\ Len(frames) \in Nat \ {0}
      /\ frames # <<>> /\ top \in Frames /\ InOrder(top, FALSE)
      /\ depth = Len(frames) /\ Len(kinds) = Len(frames)
      /\ Expects = FrameExpects(top) /\ Verdict = "reading"
      /\ Doc!Top = top.kind
  BY <1>1, FrameFacts
<1>3. k \in {"obj", "arr"} /\ c \in Structural
  BY DEF KindOf, Structural
<1>4. Doc!Legal(c) <=> Expects \in {"more", "first", "elem"} /\ Doc!Top = k
  BY LegalAt DEF Opens, Closes
<1>5. FrameMayClose(k) <=> Doc!Legal(c)
  <2>1. FrameMayClose(k) <=>
          /\ top.kind = k /\ FrameExpects(top) \in {"more", "first", "elem"}
    BY <1>2, <1>3 DEF FrameMayClose, FrameExpects, Frames, Phases, InOrder
  <2> QED
    BY <1>2, <1>4, <2>1
<1>6. CASE BailAt(c, "protocol")
  BY <1>2, <1>3, <1>6, StopsAt DEF BailAt
<1>7. CASE ~FrameMayClose(k)
  BY <1>2, <1>3, <1>5, <1>7, Refuses DEF FrameClose
<1>8. CASE FrameMayClose(k) /\ ~BailAt(c, "protocol")
  <2>1. /\ frames' = AfterValue(rest) /\ rootDone' = (depth = 1)
        /\ kinds' = SubSeq(kinds, 1, Len(kinds) - 1) /\ tok' = c
        /\ NoBail /\ regOpen' = FALSE
    BY <1>2, <1>8 DEF FrameClose, Read, Opens, Closes, regionVars
  <2>2. rest \in Seq(Frames) /\ Len(rest) = Len(frames) - 1
    BY <1>2, PopFacts
  <2> HIDE DEF rest
  <2>3. Expects' = IF Len(kinds) = 1 THEN "end" ELSE "more"
    <3>1. CASE Len(frames) = 1
      <4>1. rest = <<>> /\ frames' = <<>> /\ rootDone'
        <5>1. Len(rest) = 0
          BY <1>2, <2>2, <3>1
        <5>2. rest = <<>>
          BY <2>2, <5>1
        <5> QED
          BY <1>2, <2>1, <3>1, <5>2 DEF AfterValue
      <4> QED
        BY <1>2, <2>1, <3>1, <4>1 DEF Expects
    <3>2. CASE Len(frames) # 1
      <4>1. rest # <<>> /\ Len(rest) \in Nat \ {0}
        BY <1>2, <2>2, <3>2
      <4>2. /\ Len(frames') = Len(rest) /\ frames' \in Seq(Frames)
            /\ frames'[Len(rest)] = WantsComma(rest[Len(rest)])
        BY <2>1, <2>2, <4>1, AfterValueFacts
      <4>3. frames' # <<>> /\ top' = WantsComma(rest[Len(rest)])
        BY <4>1, <4>2 DEF top
      <4>4. Expects' = FrameExpects(top')
        BY <2>1, <4>3 DEF Expects, FrameExpects
      <4> QED
        BY <1>2, <3>2, <4>3, <4>4 DEF FrameExpects, WantsComma
    <3> QED
      BY <3>1, <3>2
  <2>4. Doc!Close(c)
    BY <1>2, <2>1, <2>3, GoesOn DEF Doc!Close, Doc!Closes, Closes
  <2> QED
    BY <1>2, <1>3, <1>5, <1>8, <2>1, <2>4, Accepts
<1> QED
  BY <1>6, <1>7, <1>8

\* A step that only moves the frame on top, to where the grammar expects x.
LEMMA TopMoves ==
    ASSUME IInv, InFrame, NEW f \in Frames, frames' = SetTop(frames, f),
           regOpen' = regOpen, NoBail
    PROVE  Expects' = FrameExpects(f) /\ Verdict' = "reading"
<1>1. /\ Live /\ regOpen = FALSE /\ frames \in Seq(Frames) /\ frames # <<>>
      /\ Len(frames) \in Nat \ {0} /\ Verdict = "reading"
  BY FrameFacts
<1>2. /\ frames' \in Seq(Frames) /\ Len(frames') = Len(frames)
      /\ frames'[Len(frames)] = f
  BY <1>1, SetTopFacts
<1>3. frames' # <<>> /\ top' = f
  BY <1>1, <1>2 DEF top
<1> QED
  BY <1>1, <1>3, GoesOn DEF Expects, FrameExpects

LEMMA FrameColonReads ==
    ASSUME IInv, FrameColon
    PROVE  Doc!Next
<1>1. InFrame
  BY DEF FrameColon
<1>2. /\ Live /\ top \in Frames /\ InOrder(top, FALSE)
      /\ Expects = FrameExpects(top) /\ Verdict = "reading"
  BY <1>1, FrameFacts
<1>3. Doc!Legal(":") <=> Expects = "colon"
  BY LegalAt DEF Opens, Closes
<1>4. Expects = "colon" <=> top.kind = "obj" /\ top.ph = "phColon"
  BY <1>2 DEF FrameExpects, Frames, Phases, InOrder
<1>5. ":" \in Structural
  BY DEF Structural
<1>6. CASE ~(top.kind = "obj" /\ top.ph = "phColon")
  BY <1>2, <1>3, <1>4, <1>5, <1>6, Refuses DEF FrameColon
<1>7. CASE top.kind = "obj" /\ top.ph = "phColon"
  <2> DEFINE f == [top EXCEPT !.ph = "phValue"]
  <2>1. f \in Frames /\ f.kind = "obj" /\ f.ph = "phValue"
    BY <1>2, <1>7 DEF Frames, Phases
  <2>2. /\ frames' = SetTop(frames, f) /\ regOpen' = regOpen /\ NoBail
        /\ kinds' = kinds /\ tok' = ":"
    BY <1>7 DEF FrameColon, Read, Opens, Closes, regionVars
  <2> HIDE DEF f
  <2>3. Expects' = FrameExpects(f) /\ Verdict' = "reading"
    BY <1>1, <2>1, <2>2, TopMoves
  <2>4. Doc!Colon(":")
    BY <1>2, <2>1, <2>2, <2>3 DEF Doc!Colon, FrameExpects
  <2> QED
    BY <1>2, <1>3, <1>4, <1>5, <1>7, <2>2, <2>4, Accepts
<1> QED
  BY <1>6, <1>7

LEMMA FrameCommaReads ==
    ASSUME IInv, FrameComma
    PROVE  Doc!Next
<1>1. InFrame
  BY DEF FrameComma
<1>2. /\ Live /\ top \in Frames /\ InOrder(top, FALSE)
      /\ Expects = FrameExpects(top) /\ Verdict = "reading" /\ Doc!Top = top.kind
  BY <1>1, FrameFacts
<1>3. Doc!Legal(",") <=> Expects = "more"
  BY LegalAt DEF Opens, Closes
<1>4. Expects = "more" <=> top.ph = "phComma"
  BY <1>2 DEF FrameExpects, Frames, Phases
<1>5. "," \in Structural
  BY DEF Structural
<1>6. CASE top.ph # "phComma"
  BY <1>2, <1>3, <1>4, <1>5, <1>6, Refuses DEF FrameComma
<1>7. CASE top.ph = "phComma"
  <2> DEFINE f == [top EXCEPT !.ph = IF top.kind = "obj" THEN "phKey"
                                                         ELSE "phValue"]
  <2>1. /\ f \in Frames /\ f.kind = top.kind
        /\ f.ph = IF top.kind = "obj" THEN "phKey" ELSE "phValue"
        /\ f.n = 1 /\ (top.kind = "arr" => f.idx = 0)
    BY <1>2, <1>7 DEF Frames, Phases, InOrder
  <2>2. /\ frames' = SetTop(frames, f) /\ regOpen' = regOpen /\ NoBail
        /\ kinds' = kinds /\ tok' = ","
    BY <1>7 DEF FrameComma, Read, Opens, Closes, regionVars
  <2> HIDE DEF f
  <2>3. Expects' = FrameExpects(f) /\ Verdict' = "reading"
    BY <1>1, <2>1, <2>2, TopMoves
  <2>4. FrameExpects(f) = IF top.kind = "obj" THEN "key" ELSE "value"
    BY <1>2, <2>1 DEF FrameExpects, Frames
  <2>5. Doc!Comma(",")
    BY <1>2, <2>2, <2>3, <2>4 DEF Doc!Comma
  <2> QED
    BY <1>2, <1>3, <1>4, <1>5, <1>7, <2>2, <2>5, Accepts
<1> QED
  BY <1>6, <1>7

LEMMA KeyStartReads ==
    ASSUME IInv, KeyStart
    PROVE  Doc!Next
<1> DEFINE f == [top EXCEPT !.ph = "phColon"]
<1>1. InFrame /\ top.kind = "obj" /\ top.ph = "phKey"
  BY DEF KeyStart, AtKey
<1>2. /\ Live /\ top \in Frames
      /\ Expects = FrameExpects(top) /\ Verdict = "reading"
  BY <1>1, FrameFacts
<1>3. Expects \in {"first", "key"}
  BY <1>1, <1>2 DEF FrameExpects
<1>4. Doc!Legal("str") /\ "str" \in Structural
  BY <1>3, LegalAt DEF Structural
<1>5. f \in Frames /\ f.kind = "obj" /\ f.ph = "phColon"
  BY <1>1, <1>2 DEF Frames, Phases
<1>6. /\ frames' = SetTop(frames, f) /\ regOpen' = regOpen /\ NoBail
      /\ kinds' = kinds /\ tok' = "str"
  BY DEF KeyStart, Read, Opens, Closes, regionVars
<1> HIDE DEF f
<1>7. Expects' = "colon" /\ Verdict' = "reading"
  BY <1>1, <1>5, <1>6, TopMoves DEF FrameExpects
<1>8. Doc!Key("str")
  BY <1>2, <1>3, <1>6, <1>7 DEF Doc!Key
<1> QED
  BY <1>2, <1>4, <1>6, <1>8, Accepts

LEMMA KeyEndReads ==
    ASSUME IInv, KeyEnd
    PROVE  Doc!Next \/ UNCHANGED Doc!vars
<1>1. Live /\ kinds' = kinds /\ tok' = tok
  BY DEF KeyEnd, ReadNothing, readVars
<1>2. tok \in Structural \union {"eof"}
  BY DEF IInv, TypeOK, DataOK
<1>3. CASE Bail("protocol")
  BY <1>1, <1>2, <1>3, StopsAt
<1>4. CASE NoBail /\ UNCHANGED <<frameVars, regionVars, loopVars>>
  <2>1. UNCHANGED <<regOpen, inLoop, ph, regPh, frames, rootDone>>
    BY <1>4 DEF frameVars, regionVars, loopVars
  <2>2. Expects' = Expects
    BY <2>1 DEF Expects, RegionExpects, Phase, FrameExpects, top
  <2> QED
    BY <1>1, <1>4, <2>2, GoesOn DEF Doc!vars
<1> QED
  BY <1>3, <1>4 DEF KeyEnd

\* The frame on top still waits for this value while it is read.
LEMMA ValueFacts ==
    ASSUME IInv, InFrame, NEW c \in Opens \union {"str", "lit"},
           ~(c = "str" /\ AtKey)
    PROVE  /\ Live /\ Verdict = "reading" /\ inLoop = FALSE /\ c \in Structural
           /\ Doc!Legal(c) <=> top.ph = "phValue"
           /\ top.ph = "phValue" => Expects \in {"value", "elem"}
<1>1. /\ Live /\ inLoop = FALSE /\ top \in Frames /\ InOrder(top, FALSE)
      /\ Expects = FrameExpects(top) /\ Verdict = "reading"
  BY FrameFacts
<1>2. /\ top.ph = "phValue" => Expects \in {"value", "elem"}
      /\ Expects \in {"value", "elem"} => top.ph = "phValue"
      /\ Expects \in {"first", "key"} => AtKey
      /\ Expects # "root"
  BY <1>1 DEF FrameExpects, Frames, Phases, InOrder, AtKey
<1>3. Doc!Legal(c) <=> \/ c \in Opens /\ Expects \in {"root", "value", "elem"}
                       \/ c = "lit" /\ Expects \in {"value", "elem"}
                       \/ c = "str" /\ Expects \in {"first", "key", "value", "elem"}
  BY LegalAt DEF Opens, Closes
<1>4. c \in Structural
  BY DEF Structural
<1> QED
  BY <1>1, <1>2, <1>3, <1>4

LEMMA FrameValueReads ==
    ASSUME IInv, NEW c \in Opens \union {"str", "lit"}, FrameValue(c)
    PROVE  Doc!Next
<1>1. InFrame /\ ~(c = "str" /\ AtKey)
  BY DEF FrameValue
<1>2. /\ Live /\ Verdict = "reading" /\ inLoop = FALSE /\ c \in Structural
      /\ Doc!Legal(c) <=> top.ph = "phValue"
      /\ top.ph = "phValue" => Expects \in {"value", "elem"}
  BY <1>1, ValueFacts
<1>3. CASE top.ph # "phValue"
  BY <1>2, <1>3, Refuses DEF FrameValue
<1>4. CASE BailAt(c, "protocol")
  BY <1>2, <1>4, StopsAt DEF BailAt
<1>5. ASSUME top.ph = "phValue", Enter(c) \/ Region(c),
             Read(c) /\ NoBail /\ UNCHANGED loopVars
      PROVE  Doc!Next
  <2>1. tok' = c /\ Verdict' = Verdict /\ inLoop' = FALSE
    BY <1>2, <1>5, GoesOn DEF Read, loopVars
  <2>2. c \in Opens => kinds' = Append(kinds, KindOf(c))
    BY <1>5 DEF Read
  <2>3. c \notin Opens => kinds' = kinds
    BY <1>5 DEF Read, Opens, Closes
  <2>4. Expects' = IF c = "{" THEN "first" ELSE IF c = "[" THEN "elem" ELSE "more"
    <3>1. CASE Enter(c)
      <4> DEFINE f == NewFrame(KindOf(c))
      <4>1. /\ c \in Opens /\ frames' = Append(Counted, f) /\ regOpen' = FALSE
        BY <1>1, <3>1, FrameFacts DEF Enter, regionVars
      <4>2. f \in Frames
        BY <4>1 DEF NewFrame, KindOf, Opens, Frames, Phases
      <4>3. Counted \in Seq(Frames) /\ Len(Counted) \in Nat
        BY <1>1, <1>5, CountedFacts
      <4> HIDE DEF f
      <4>4. Len(frames') = Len(Counted) + 1 /\ frames'[Len(Counted) + 1] = f
        BY <4>1, <4>2, <4>3
      <4>5. frames' # <<>> /\ top' = f
        BY <4>3, <4>4 DEF top
      <4>6. Expects' = FrameExpects(f)
        BY <4>1, <4>5 DEF Expects, FrameExpects
      <4> QED
        BY <4>1, <4>6 DEF f, FrameExpects, NewFrame, KindOf, Opens
    <3>2. CASE Region(c)
      <4>1. regOpen' = TRUE /\ Phase' = regPh'
        BY <2>1, <3>2 DEF Region, Phase
      <4>2. regPh' = IF c = "{" THEN "rKey0" ELSE IF c = "[" THEN "rAValue0" ELSE "rTop"
        BY <3>2 DEF Region, Opens
      <4> QED
        BY <4>1, <4>2 DEF Expects, RegionExpects
    <3> QED
      BY <1>5, <3>1, <3>2
  <2>5. CASE c \in Opens
    <3>1. Doc!Open(c)
      BY <2>1, <2>2, <2>4, <2>5 DEF Doc!Open, Doc!Opens, Opens, Doc!KindOf, KindOf
    <3> QED
      BY <1>2, <1>5, <2>1, <3>1, Accepts
  <2>6. CASE c \notin Opens
    <3>1. Doc!Simple(c)
      BY <1>2, <1>5, <2>1, <2>3, <2>4, <2>6 DEF Doc!Simple, Opens
    <3> QED
      BY <1>2, <1>5, <2>1, <3>1, Accepts
  <2> QED
    BY <2>5, <2>6
<1> QED
  BY <1>3, <1>4, <1>5 DEF FrameValue

LEMMA JunkReads ==
    ASSUME IInv, FrameJunk \/ RegionJunk \/ LexicalError
    PROVE  Doc!Next
<1>1. Live /\ BailAt("junk", "syntax")
  BY DEF FrameJunk, RegionJunk, LexicalError, InFrame, InRegion
<1>2. ~Doc!Legal("junk") /\ "junk" \in Structural
  BY LegalAt DEF Opens, Closes, Structural
<1> QED
  BY <1>1, <1>2, Refuses

\* Entering and leaving the loop reads nothing.
LEMMA LoopStutters ==
    ASSUME EnterLoop \/ LeaveLoop
    PROVE  UNCHANGED Doc!vars
<1>1. /\ UNCHANGED <<regOpen, frames, rootDone, dead, finished, code, tok, kinds>>
      /\ Phase' = Phase
  BY DEF EnterLoop, LeaveLoop, Phase, frameVars, regionVars, endVars, readVars
<1>2. Expects' = Expects
  BY <1>1 DEF Expects, RegionExpects, FrameExpects, top
<1>3. Verdict' = Verdict
  BY <1>1 DEF Verdict
<1> QED
  BY <1>1, <1>2, <1>3 DEF Doc!vars

\* What a phase of a region expects.
PhaseExpects(p) ==
    CASE p = "rKey0"                  -> "first"
      [] p = "rKey"                   -> "key"
      [] p = "rColon"                 -> "colon"
      [] p \in {"rOValue", "rAValue"} -> "value"
      [] p = "rAValue0"               -> "elem"
      [] OTHER                        -> "more"

LEMMA RegionMoves ==
    ASSUME regOpen' = TRUE, NEW p \in RegPhases, Phase' = p
    PROVE  Expects' = PhaseExpects(p)
<1>1. Expects' = RegionExpects'
  BY DEF Expects
<1>2. RegionExpects' = PhaseExpects(p)
  BY DEF RegionExpects, PhaseExpects, RegPhases
<1> QED
  BY <1>1, <1>2

LEMMA RegionFacts ==
    ASSUME NestingFits, IInv, InRegion
    PROVE  /\ Live /\ regOpen = TRUE /\ inLoop = TRUE /\ Verdict = "reading"
           /\ ph \in RegPhases \ {"rTop"} /\ Expects = PhaseExpects(ph)
           /\ Doc!Top = PhaseKind(ph)
<1>1. Expects = RegionExpects /\ Phase = ph /\ ph \in RegPhases \ {"rTop"}
      /\ Verdict = "reading" /\ Doc!Top = PhaseKind(ph)
  BY LoopExpects
<1>2. RegionExpects = PhaseExpects(ph)
  BY <1>1 DEF RegionExpects, PhaseExpects
<1> QED
  BY <1>1, <1>2, LoopFacts

LEMMA RegionColonReads ==
    ASSUME NestingFits, IInv, RegionColon
    PROVE  Doc!Next
<1>1. InRegion /\ ":" \in Structural
  BY DEF RegionColon, Structural
<1>2. /\ Live /\ regOpen = TRUE /\ inLoop = TRUE /\ Verdict = "reading"
      /\ ph \in RegPhases /\ Expects = PhaseExpects(ph)
  BY <1>1, RegionFacts
<1>3. Doc!Legal(":") <=> Expects = "colon"
  BY LegalAt DEF Opens, Closes
<1>4. Expects = "colon" <=> ph = "rColon"
  BY <1>2 DEF PhaseExpects
<1>5. CASE ph # "rColon"
  BY <1>1, <1>2, <1>3, <1>4, <1>5, Refuses DEF RegionColon
<1>6. CASE ph = "rColon"
  <2>1. /\ Phase' = "rOValue" /\ regOpen' = TRUE /\ NoBail
        /\ kinds' = kinds /\ tok' = ":"
    BY <1>2, <1>6 DEF RegionColon, Read, Opens, Closes, regionVars, Phase
  <2>2. Expects' = "value"
    BY <2>1, RegionMoves DEF PhaseExpects, RegPhases
  <2>3. Doc!Colon(":")
    BY <1>2, <2>1, <2>2, GoesOn DEF Doc!Colon
  <2> QED
    BY <1>1, <1>2, <1>3, <1>4, <1>6, <2>1, <2>3, Accepts
<1> QED
  BY <1>5, <1>6

LEMMA RegionCommaReads ==
    ASSUME NestingFits, IInv, RegionComma
    PROVE  Doc!Next
<1>1. InRegion /\ "," \in Structural
  BY DEF RegionComma, Structural
<1>2. /\ Live /\ regOpen = TRUE /\ inLoop = TRUE /\ Verdict = "reading"
      /\ ph \in RegPhases \ {"rTop"} /\ Expects = PhaseExpects(ph)
      /\ Doc!Top = PhaseKind(ph)
  BY <1>1, RegionFacts
<1>3. Doc!Legal(",") <=> Expects = "more"
  BY LegalAt DEF Opens, Closes
<1>4. Expects = "more" <=> regAfterComma[ph] # "rErr"
  BY <1>2 DEF PhaseExpects, regAfterComma, RegPhases
<1>5. CASE regAfterComma[ph] = "rErr"
  BY <1>1, <1>2, <1>3, <1>4, <1>5, Refuses DEF RegionComma
<1>6. CASE regAfterComma[ph] # "rErr"
  <2> DEFINE p == regAfterComma[ph]
  <2>1. /\ Phase' = p /\ regOpen' = TRUE /\ NoBail
        /\ kinds' = kinds /\ tok' = ","
    BY <1>2, <1>6 DEF RegionComma, Read, Opens, Closes, regionVars, Phase
  <2>2. p \in RegPhases
        /\ PhaseExpects(p) = IF PhaseKind(ph) = "obj" THEN "key" ELSE "value"
    BY <1>2, <1>6 DEF regAfterComma, RegPhases, PhaseExpects, PhaseKind
  <2> HIDE DEF p
  <2>3. Expects' = IF Doc!Top = "obj" THEN "key" ELSE "value"
    BY <1>2, <2>1, <2>2, RegionMoves
  <2>4. Doc!Comma(",")
    BY <1>2, <2>1, <2>3, GoesOn DEF Doc!Comma
  <2> QED
    BY <1>1, <1>2, <1>3, <1>4, <1>6, <2>1, <2>4, Accepts
<1> QED
  BY <1>5, <1>6

LEMMA RegionSimpleReads ==
    ASSUME NestingFits, IInv, NEW c \in {"str", "lit"}, RegionSimple(c)
    PROVE  Doc!Next
<1> DEFINE p == IF c = "str" THEN regAfterStr[ph] ELSE regAfterVal[ph]
<1>1. InRegion /\ c \in Structural
  BY DEF RegionSimple, Structural
<1>2. /\ Live /\ regOpen = TRUE /\ Verdict = "reading"
      /\ ph \in RegPhases \ {"rTop"} /\ Expects = PhaseExpects(ph)
  BY <1>1, RegionFacts
<1>3. Doc!Legal(c) <=> \/ Expects \in {"value", "elem"}
                       \/ c = "str" /\ Expects \in {"first", "key"}
  BY LegalAt DEF Opens, Closes
<1>4. Doc!Legal(c) <=> p # "rErr"
  BY <1>2, <1>3 DEF PhaseExpects, regAfterStr, regAfterVal, RegPhases
<1>5. CASE p = "rErr"
  BY <1>1, <1>2, <1>4, <1>5, Refuses DEF RegionSimple
<1>6. CASE p # "rErr"
  <2>1. /\ Phase' = p /\ regOpen' = TRUE /\ NoBail
        /\ kinds' = kinds /\ tok' = c
    BY <1>2, <1>6 DEF RegionSimple, Read, Opens, Closes, Phase
  <2>2. p \in RegPhases
        /\ PhaseExpects(p) = IF Expects \in {"first", "key"} THEN "colon" ELSE "more"
    BY <1>2, <1>6 DEF regAfterStr, regAfterVal, RegPhases, PhaseExpects
  <2>3. Doc!Legal(c)
    BY <1>4, <1>6
  <2> HIDE DEF p
  <2>4. Expects' = IF Expects \in {"first", "key"} THEN "colon" ELSE "more"
    BY <2>1, <2>2, RegionMoves
  <2>5. Doc!Key(c) \/ Doc!Simple(c)
    BY <1>2, <1>3, <2>1, <2>3, <2>4, GoesOn DEF Doc!Key, Doc!Simple
  <2> QED
    BY <1>1, <1>2, <2>1, <2>3, <2>5, Accepts
<1> QED
  BY <1>5, <1>6

LEMMA RegionOpenReads ==
    ASSUME NestingFits, IInv, NEW c \in Opens, RegionOpen(c)
    PROVE  Doc!Next
<1>1. InRegion /\ c \in Structural
  BY DEF RegionOpen, Structural
<1>2. /\ Live /\ regOpen = TRUE /\ inLoop = TRUE /\ Verdict = "reading"
      /\ ph \in RegPhases \ {"rTop"} /\ Expects = PhaseExpects(ph)
  BY <1>1, RegionFacts
<1>3. Doc!Legal(c) <=> Expects \in {"root", "value", "elem"}
  BY LegalAt DEF Opens, Closes
<1>4. Doc!Legal(c) <=> regAfterVal[ph] # "rErr"
  BY <1>2, <1>3 DEF PhaseExpects, regAfterVal, RegPhases
<1>5. CASE regAfterVal[ph] = "rErr"
  BY <1>1, <1>2, <1>4, <1>5, Refuses DEF RegionOpen
<1>6. CASE regAfterVal[ph] # "rErr"
  <2>1. /\ regOpen' = TRUE /\ NoBail /\ Phase' = ph' /\ ph' = regPh'
        /\ kinds' = Append(kinds, KindOf(c)) /\ tok' = c
    BY <1>2, <1>6 DEF RegionOpen, Read, Phase
  <2>2. ph' = IF c = "{" THEN "rKey0" ELSE "rAValue0"
    BY <1>6, <2>1 DEF RegionOpen, regPush, KindOf, Opens
  <2>3. Expects' = IF c = "{" THEN "first" ELSE "elem"
    BY <2>1, <2>2, RegionMoves DEF PhaseExpects, RegPhases
  <2>4. Doc!Open(c)
    BY <1>2, <2>1, <2>3, GoesOn DEF Doc!Open, Doc!Opens, Opens, Doc!KindOf, KindOf
  <2> QED
    BY <1>1, <1>2, <1>4, <1>6, <2>1, <2>4, Accepts
<1> QED
  BY <1>5, <1>6

\* A value that ends leaves its frame waiting for a comma.
LEMMA ValueEnds ==
    ASSUME frames \in Seq(Frames), frames # <<>>,
           frames' = AfterValue(frames), regOpen' = FALSE
    PROVE  Expects' = "more"
<1>1. Len(frames) \in Nat \ {0}
  OBVIOUS
<1>2. /\ frames' \in Seq(Frames) /\ Len(frames') = Len(frames)
      /\ frames'[Len(frames)] = WantsComma(frames[Len(frames)])
  BY AfterValueFacts
<1>3. frames' # <<>> /\ top' = WantsComma(frames[Len(frames)])
  BY <1>1, <1>2 DEF top
<1>4. Expects' = FrameExpects(top')
  BY <1>3 DEF Expects, FrameExpects
<1> QED
  BY <1>3, <1>4 DEF FrameExpects, WantsComma

LEMMA RegionCloseReads ==
    ASSUME NestingFits, IInv, NEW c \in Closes, RegionClose(c)
    PROVE  Doc!Next
<1>1. InRegion /\ c \in Structural
  BY DEF RegionClose, Structural
<1>2. /\ Live /\ regOpen = TRUE /\ inLoop = TRUE /\ Verdict = "reading"
      /\ ph \in RegPhases \ {"rTop"} /\ Expects = PhaseExpects(ph)
      /\ Doc!Top = PhaseKind(ph)
  BY <1>1, RegionFacts
<1>3. Doc!Legal(c) <=> Expects \in {"more", "first", "elem"} /\ Doc!Top = KindOf(c)
  BY LegalAt DEF Opens, Closes
<1>4. Doc!Legal(c) <=> regClose[ph] = KindOf(c)
  <2>1. KindOf(c) \in {"obj", "arr"}
    BY DEF KindOf
  <2> QED
    BY <1>2, <1>3, <2>1 DEF PhaseExpects, regClose, RegPhases, PhaseKind
<1>5. CASE regClose[ph] # KindOf(c)
  BY <1>1, <1>2, <1>4, <1>5, Refuses DEF RegionClose
<1>6. CASE BailAt(c, "protocol")
  BY <1>1, <1>2, <1>6, StopsAt DEF BailAt
<1>7. CASE regClose[ph] = KindOf(c) /\ ~BailAt(c, "protocol")
  <2>1. /\ IF depth - 1 = regDepth THEN RegionLastClose ELSE RegionInnerClose
        /\ kinds' = SubSeq(kinds, 1, Len(kinds) - 1) /\ tok' = c /\ NoBail
    BY <1>7 DEF RegionClose, Read, Opens, Closes
  <2>2. Len(kinds) # 1
    <3>1. /\ Len(kinds) = depth /\ depth = Len(frames) + regN
          /\ Len(frames) \in Nat \ {0} /\ regN \in Nat /\ regN > 0
      BY <1>1, LoopExpects, LoopFacts
    <3>2. depth # 1
      BY <3>1
    <3> QED
      BY <3>1, <3>2, Zenon
  <2>3. Expects' = "more"
    <3>1. CASE depth - 1 = regDepth
      <4>1. frames' = AfterValue(frames) /\ regOpen' = FALSE
        BY <2>1, <3>1 DEF RegionLastClose
      <4>2. frames \in Seq(Frames) /\ frames # <<>>
        BY <1>1, LoopExpects
      <4> QED
        BY <4>1, <4>2, ValueEnds
    <3>2. CASE depth - 1 # regDepth
      <4>1. regOpen' = TRUE /\ Phase' = PhaseAfterPop
        BY <1>2, <2>1, <3>2 DEF RegionInnerClose, Phase
      <4>2. PhaseAfterPop \in {"rTop", "rAComma", "rOComma"}
        BY DEF PhaseAfterPop
      <4>3. PhaseAfterPop \in RegPhases /\ PhaseExpects(PhaseAfterPop) = "more"
        BY <4>2 DEF RegPhases, PhaseExpects
      <4> QED
        BY <4>1, <4>3, RegionMoves
    <3> QED
      BY <3>1, <3>2
  <2>4. Doc!Close(c)
    <3>1. kinds' = SubSeq(kinds, 1, Len(kinds) - 1)
      BY <2>1
    <3>2. Verdict' = "reading"
      BY <1>2, <2>1, GoesOn
    <3>3. Expects' = IF Len(kinds) = 1 THEN "end" ELSE "more"
      BY <2>2, <2>3, Zenon
    <3> QED
      BY <1>2, <3>1, <3>2, <3>3 DEF Doc!Close, Doc!Closes, Closes
  <2> QED
    BY <1>1, <1>2, <1>4, <1>7, <2>1, <2>4, Accepts
<1> QED
  BY <1>5, <1>6, <1>7 DEF RegionClose

\* The end of a string or a literal reads nothing: what follows was expected
\* from its first byte on.
LEMMA SimpleEndReads ==
    ASSUME IInv, SimpleEnd
    PROVE  Doc!Next \/ UNCHANGED Doc!vars
<1>1. Live /\ kinds' = kinds /\ tok' = tok /\ st \in {"sInStr", "sInScalar"}
  BY DEF SimpleEnd, ReadNothing, readVars
<1>2. tok \in Structural \union {"eof"}
  BY DEF IInv, TypeOK, DataOK
<1>3. CASE Bail("protocol")
  BY <1>1, <1>2, <1>3, StopsAt
<1>4. CASE NoBail /\ depth = regDepth /\ ~Bail("protocol")
  <2>1. frames' = AfterValue(frames) /\ regOpen' = FALSE
    BY <1>4 DEF SimpleEnd
  <2>2. /\ regOpen = TRUE /\ frames \in Seq(Frames) /\ frames # <<>>
        /\ regN = 0 /\ Phase = "rTop"
    BY <1>1, <1>4 DEF IInv, TypeOK, FlagsOK, DataOK, DepthsAgree, ProgressIsDocument
  <2>3. Expects = "more"
    BY <2>2 DEF Expects, RegionExpects
  <2>4. Expects' = "more"
    BY <2>1, <2>2, ValueEnds
  <2> QED
    BY <1>1, <1>4, <2>3, <2>4, GoesOn DEF Doc!vars
<1>5. CASE NoBail /\ depth # regDepth
  <2>1. UNCHANGED <<regOpen, inLoop, ph, regPh, frames, rootDone>>
    BY <1>5 DEF SimpleEnd, loopVars, Bail, NoBail
  <2>2. Expects' = Expects
    BY <2>1 DEF Expects, RegionExpects, Phase, FrameExpects, top
  <2> QED
    BY <1>1, <1>5, <2>2, GoesOn DEF Doc!vars
<1> QED
  BY <1>3, <1>4, <1>5 DEF SimpleEnd

\* The scanner of the transformer implements the grammar of JSON, token by
\* token: whatever the mixture of frames and regions and wherever chunks end,
\* it accepts, refuses and finishes exactly where JSONDoc does (the phase
\* tables of state.go, scan of engine.go, regPush and regPop of region.go;
\* README, "Strict").
THEOREM ScannerRejectsLikeJSON == ASSUME NestingFits PROVE Spec => RejectsLikeJSON
<1>1. Init => Doc!Init
  BY DEF Init, Doc!Init, Expects, Verdict
<1>2. IInv /\ [Next]_vars => [Doc!Next]_Doc!vars
  <2> SUFFICES ASSUME IInv, [Next]_vars PROVE [Doc!Next]_Doc!vars
    OBVIOUS
  <2>1. CASE \E c \in Structural : Root(c) \/ Trailing(c)
    BY <2>1, RootReads, TrailingReads
  <2>2. CASE Finish
    BY <2>2, FinishReads
  <2>3. CASE \E c \in Closes : FrameClose(c) \/ RegionClose(c)
    BY <2>3, FrameCloseReads, RegionCloseReads
  <2>4. CASE FrameColon \/ FrameComma \/ KeyStart \/ KeyEnd
    BY <2>4, FrameColonReads, FrameCommaReads, KeyStartReads, KeyEndReads
  <2>5. CASE FrameJunk \/ RegionJunk \/ LexicalError
    BY <2>5, JunkReads
  <2>6. CASE \E c \in Opens \union {"str", "lit"} : FrameValue(c)
    BY <2>6, FrameValueReads
  <2>7. CASE EnterLoop \/ LeaveLoop
    BY <2>7, LoopStutters
  <2>8. CASE \E c \in {"str", "lit"} : RegionSimple(c)
    BY <2>8, RegionSimpleReads
  <2>9. CASE \E c \in Opens : RegionOpen(c)
    BY <2>9, RegionOpenReads
  <2>10. CASE RegionColon \/ RegionComma \/ SimpleEnd
    BY <2>10, RegionColonReads, RegionCommaReads, SimpleEndReads
  <2>11. CASE UNCHANGED vars
    BY <2>11 DEF vars, frameVars, regionVars, loopVars, endVars, readVars,
       Doc!vars, Expects, Verdict, RegionExpects, FrameExpects, Phase, top
  <2> QED
    BY <2>1, <2>2, <2>3, <2>4, <2>5, <2>6, <2>7, <2>8, <2>9, <2>10, <2>11 DEF Next
<1> QED
  BY <1>1, <1>2, Invariance, PTL DEF Spec, RejectsLikeJSON, Doc!Spec

=============================================================================
