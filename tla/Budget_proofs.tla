---------------------------- MODULE Budget_proofs ----------------------------
(***************************************************************************)
(* Proofs about the bounds of Budget, for every window, cap, budget and    *)
(* document: what is held, that copies are whole, that an overflow stops   *)
(* the stream and where it is reported, and the commit window.             *)
(***************************************************************************)
EXTENDS Budget, TLAPS

\* The regions whose bytes are copied under a cap, and those a hook reads.
Bounded == {"rtCapture", "rtObserve", "rtDefer"}
Copied  == Bounded \union {"rtPrefix"}

Effects ==
    [committed : BOOLEAN, dead : BOOLEAN, code : Codes,
     offset : -1..MaxIn, limitAt : Nat, buf : Nat, capBuf : Nat,
     regT : Targets \union {"rtNone", "rtOut", "rtSkip"},
     valOver : BOOLEAN, unfit : -1..MaxIn, split : BOOLEAN,
     copies : BOOLEAN, late : BOOLEAN]

\* A copy is within its bound, and only a copy takes room.
CopyFits(e) ==
    /\ e.regT \in Bounded /\ regCap > 0 => e.capBuf <= regCap
    /\ e.regT \in {"rtPrefix", "rtValidate"} => e.capBuf <= regCap
    /\ e.regT \in {"rtNone", "rtOut", "rtSkip"} => e.capBuf = 0

\* Of the stream's life: it has a reason once it is dead, copies were whole.
Good(e) ==
    /\ e \in Effects /\ CopyFits(e) /\ e.copies
    /\ e.dead <=> e.code # "none"
    /\ ~e.dead => e.limitAt = 0

\* CountedTwice, and what OverflowStops says, of an effect.
Twice(e) == e.regT = "rtObserve" /\ budget > 0 /\ ~e.committed

Refused(e) ==
    /\ e.dead /\ e.code = "limit" /\ e.offset \in RunStart..scanned - 1
    /\ e.regT = "rtPrefix" => e.offset = RunStart
    /\ e.regT # "rtPrefix" /\ ~e.split =>
          /\ ~Twice(e) => e.offset >= e.unfit
          /\ OneLimit => e.offset <= e.unfit

-----------------------------------------------------------------------------
(* The inductive invariant. *)

\* Everything a variable can hold, by itself.
TypesOK ==
    /\ pc \in {"caller", "scan"} /\ sink \in BOOLEAN /\ budget \in Nat
    /\ scanned \in 0..MaxIn /\ scanBase \in 0..MaxIn /\ len \in 0..MaxIn
    /\ i \in 0..MaxIn /\ rs \in -1..MaxIn
    /\ deferredBytes \in Nat
    /\ regOpen \in BOOLEAN /\ regInner \in BOOLEAN /\ regCap \in Nat
    /\ valEmit \in BOOLEAN /\ start \in 0..MaxIn /\ early \in BOOLEAN

\* Between calls nothing of a chunk is left; inside one, the bytes of an open
\* region that its target has not had yet are those from rs on.
PlaceOK ==
    /\ pc = "caller" => i = 0 /\ len = 0 /\ rs = -1
    /\ pc = "scan" =>
        /\ scanBase + len = scanned /\ i <= len /\ rs <= i
        /\ ~dead => (regOpen <=> rs >= 0)
        /\ ~dead /\ regOpen => scanBase + rs = RunStart
    /\ ~dead /\ regOpen /\ regInner => regT # "rtDefer"
    /\ ~dead => (regOpen <=> regT # "rtNone")
    /\ start <= scanned

\* What its target has had ends here.
Handed == IF pc = "scan" THEN scanBase + rs ELSE scanned

\* A copy is all that its target has had, within its bound.
CopyOK ==
    /\ Good(Now)
    /\ ~dead =>
        /\ regT \in Copied => capBuf = Handed - start
        /\ regT = "rtValidate" => regCap = ValCap

\* The budget covers the pairs put aside but for the key of the last one, with
\* the copy that is being made; and between calls the kept output too.
HoldOK ==
    budget > 0 /\ ~dead =>
        /\ deferredBytes <= budget + (IF deferredBytes > 0 THEN KeyLen ELSE 0)
        /\ regT \in Copied /\ capBuf > 0 => capBuf + deferredBytes <= budget
        /\ pc = "caller" /\ ~committed => Buffered(Now) <= budget

\* The commit point was passed because it was asked for or because the window
\* has been scanned, and the latter is seen to when the call returns.
WindowOK ==
    ~dead =>
        /\ early => committed
        /\ committed => early \/ scanned >= CommitBytes
        /\ pc = "caller" /\ scanned >= CommitBytes => committed

\* Of the bytes of the open region up to the place to, those that the target of
\* a copy has not had yet: unfit is the first one without room.
FirstUnfit(e, to) ==
    /\ e.unfit # -1 =>
        /\ e.regT \in Copied
        /\ e.unfit \in (scanBase + rs)..(scanBase + to - 1)
        /\ ~Fits(e, regCap, start, scanBase + rs, e.unfit)
    /\ e.regT \in Bounded =>
        \A b \in (scanBase + rs)..(scanBase + to - 1) :
            e.unfit = -1 \/ b < e.unfit
                => Fits(e, regCap, start, scanBase + rs, b)

\* Once such a byte is tried, the stream is over.
UnfitOK ==
    /\ ~dead /\ unfit # -1 => pc = "scan"
    /\ ~dead /\ pc = "scan" => FirstUnfit(Now, i)
    /\ dead /\ unfit # -1 => Refused(Now)

IInv == TypesOK /\ PlaceOK /\ CopyOK /\ HoldOK /\ WindowOK /\ UnfitOK

-----------------------------------------------------------------------------
(* What the operators do to an effect.  A stream that is dead is written to *)
(* once more, when the run in which it died is split at the window.         *)

Limits == regCap \in Nat /\ budget \in Nat /\ deferredBytes \in Nat

\* f is e after its region's target was given n bytes.
Given(e, f, n) ==
    /\ Good(f)
    /\ f.limitAt = e.limitAt \/ f.limitAt < n
    /\ e.regT \notin Bounded => f.limitAt = e.limitAt
    /\ e.dead => f.dead /\ f.offset = e.offset /\ f.code = e.code
    /\ e.dead => f.unfit = e.unfit
    /\ e.regT \notin Copied => f.dead = e.dead
    /\ f.dead /\ ~e.dead => f.offset = -1
    /\ f.dead /\ ~e.dead /\ f.unfit # -1 => f.code = "limit"
    /\ f.regT = e.regT \/ (e.regT = "rtPrefix" /\ f.regT \in {"rtOut", "rtSkip"})
    /\ f.dead => f.regT = e.regT
    /\ f.unfit = e.unfit \/ (e.regT = "rtPrefix" /\ f.unfit = -1)
    /\ f.regT # e.regT => f.unfit = -1
    /\ ~f.dead /\ f.regT \in Copied =>
        /\ f.capBuf = e.capBuf + n
        /\ budget > 0 => f.capBuf + deferredBytes <= budget

\* OnPrefix's window holds all bytes of the content before the byte at.
Windowed(e, at) ==
    ~e.dead /\ e.regT = "rtPrefix" => e.capBuf = at - start

\* The commit point is none of its business.
SameWindow(e, f) == f.committed = e.committed /\ f.split = e.split

LEMMA BailGood ==
    ASSUME NEW e \in Effects, NEW c \in {"limit", "protocol"}, Good(e)
    PROVE  /\ Good(Bail(e, c)) /\ Bail(e, c).dead
           /\ SameWindow(e, Bail(e, c))
           /\ Bail(e, c).regT = e.regT /\ Bail(e, c).limitAt = e.limitAt
           /\ Bail(e, c).offset = IF e.dead THEN e.offset ELSE -1
           /\ Bail(e, c).code = IF e.dead THEN e.code ELSE c
           /\ Bail(e, c).capBuf = e.capBuf /\ Bail(e, c).unfit = e.unfit
<1> DEFINE f == [e EXCEPT !.dead = TRUE, !.code = c, !.offset = -1]
<1>1. CASE e.dead
  BY <1>1 DEF Bail, SameWindow
<1>2. CASE ~e.dead
  <2>1. Bail(e, c) = f
    BY <1>2 DEF Bail
  <2>2. f \in Effects
    <3>1. -1 \in -1..MaxIn
      BY BudgetAssumption
    <3> QED
      BY <3>1 DEF Effects, Codes
  <2>3. /\ f.dead /\ f.code = c /\ f.offset = -1
        /\ f.regT = e.regT /\ f.capBuf = e.capBuf /\ f.copies = e.copies
        /\ f.committed = e.committed /\ f.split = e.split
        /\ f.limitAt = e.limitAt /\ f.unfit = e.unfit
    BY DEF Effects
  <2> HIDE DEF f
  <2> QED
    BY <1>2, <2>1, <2>2, <2>3 DEF Good, CopyFits, SameWindow
<1> QED
  BY <1>1, <1>2

LEMMA RawGood ==
    ASSUME NEW e \in Effects, NEW n \in Nat, Good(e)
    PROVE  LET f == Raw(e, n) IN
           /\ Good(f) /\ SameWindow(e, f)
           /\ f.dead = e.dead /\ f.code = e.code /\ f.offset = e.offset
           /\ f.limitAt = e.limitAt /\ f.capBuf = e.capBuf /\ f.regT = e.regT
           /\ f.valOver = e.valOver /\ f.unfit = e.unfit
<1> DEFINE f == [e EXCEPT !.buf = @ + n]
<1>1. /\ f \in Effects
      /\ f.committed = e.committed /\ f.dead = e.dead /\ f.code = e.code
      /\ f.offset = e.offset /\ f.limitAt = e.limitAt /\ f.capBuf = e.capBuf
      /\ f.regT = e.regT /\ f.valOver = e.valOver /\ f.split = e.split
      /\ f.copies = e.copies /\ f.unfit = e.unfit
  BY DEF Effects
<1>2. Raw(e, n) = e \/ Raw(e, n) = f
  BY DEF Raw
<1> HIDE DEF f
<1> QED
  BY <1>1, <1>2 DEF Good, CopyFits, SameWindow

\* capAppend: the copy grows by n, or the limit that n bytes pass is reached
\* within them.
LEMMA LimitGiven ==
    ASSUME NEW e \in Effects, NEW n \in Nat \ {0}, NEW k \in Nat,
           Good(e), k < n, e.regT \in Bounded
    PROVE  LET f == Bail([e EXCEPT !.limitAt = k], "limit") IN
           Given(e, f, n) /\ SameWindow(e, f) /\ f.dead /\ f.limitAt = k
           /\ (~e.dead => f.code = "limit") /\ f.capBuf = e.capBuf
<1> DEFINE over == [e EXCEPT !.limitAt = k]
           f == [over EXCEPT !.dead = TRUE, !.code = "limit", !.offset = -1]
<1>1. /\ over \in Effects
      /\ over.dead = e.dead /\ over.code = e.code /\ over.offset = e.offset
      /\ over.regT = e.regT /\ over.capBuf = e.capBuf /\ over.copies = e.copies
      /\ over.committed = e.committed /\ over.split = e.split
      /\ over.limitAt = k /\ over.unfit = e.unfit
  BY DEF Effects
<1> HIDE DEF over
<1>2. CASE e.dead
  <2>1. Bail(over, "limit") = over
    BY <1>1, <1>2 DEF Bail
  <2> QED
    BY <1>1, <1>2, <2>1 DEF over, Good, CopyFits, Given, SameWindow, Bounded, Copied
<1>3. CASE ~e.dead
  <2>1. Bail(over, "limit") = f
    BY <1>1, <1>3 DEF Bail
  <2>2. f \in Effects
    <3>1. -1 \in -1..MaxIn
      BY BudgetAssumption
    <3> QED
      BY <1>1, <3>1 DEF Effects, Codes
  <2>3. /\ f.dead /\ f.code = "limit" /\ f.offset = -1
        /\ f.regT = e.regT /\ f.capBuf = e.capBuf /\ f.copies = e.copies
        /\ f.committed = e.committed /\ f.split = e.split
        /\ f.limitAt = k /\ f.unfit = e.unfit
    BY <1>1 DEF Effects
  <2> HIDE DEF f
  <2> QED
    BY <1>3, <2>1, <2>2, <2>3 DEF over, Good, CopyFits, Given, SameWindow, Bounded, Copied
<1> QED
  BY <1>2, <1>3

LEMMA AppendGiven ==
    ASSUME NEW e \in Effects, NEW n \in Nat \ {0}, Limits, Good(e),
           e.regT \in Bounded
    PROVE  /\ Given(e, capAppend(e, n), n)
           /\ SameWindow(e, capAppend(e, n))
<1> DEFINE room == IF budget < Buffered(e) THEN 0 ELSE budget - Buffered(e)
           more == [e EXCEPT !.capBuf = @ + n]
<1>1. Buffered(e) \in Nat /\ e.capBuf + deferredBytes <= Buffered(e)
  BY DEF Limits, Effects, Buffered
<1>2. CASE regCap > 0 /\ e.capBuf + n > regCap
  <2>1. e.capBuf \in Nat /\ regCap \in Nat /\ e.capBuf <= regCap
    BY <1>2 DEF Good, CopyFits, Effects, Limits
  <2>2. regCap - e.capBuf \in Nat /\ regCap - e.capBuf < n
    BY <2>1, <1>2
  <2>3. capAppend(e, n) = Bail([e EXCEPT !.limitAt = regCap - e.capBuf], "limit")
    BY <1>2 DEF capAppend
  <2> QED
    BY <2>2, <2>3, LimitGiven
<1>3. CASE /\ ~(regCap > 0 /\ e.capBuf + n > regCap)
           /\ budget > 0 /\ Buffered(e) + n > budget
  <2>1. room \in Nat /\ room < n
    BY <1>1, <1>3 DEF Limits
  <2>2. capAppend(e, n) = Bail([e EXCEPT !.limitAt = room], "limit")
    BY <1>3 DEF capAppend
  <2> QED
    BY <2>1, <2>2, LimitGiven
<1>4. CASE /\ ~(regCap > 0 /\ e.capBuf + n > regCap)
           /\ ~(budget > 0 /\ Buffered(e) + n > budget)
  <2>1. capAppend(e, n) = more
    BY <1>4 DEF capAppend
  <2>2. more \in Effects /\ (budget > 0 => more.capBuf + deferredBytes <= budget)
    BY <1>1, <1>4 DEF Limits, Effects
  <2>3. /\ more.capBuf = e.capBuf + n /\ more.limitAt = e.limitAt
        /\ more.regT = e.regT /\ more.copies = e.copies
        /\ more.dead = e.dead /\ more.code = e.code /\ more.offset = e.offset
        /\ more.committed = e.committed /\ more.split = e.split
        /\ more.unfit = e.unfit
    BY DEF Effects
  <2>4. e.capBuf \in Nat
    BY DEF Effects
  <2> HIDE DEF more
  <2> QED
    BY <2>1, <2>2, <2>3, <2>4, <1>4
       DEF Good, CopyFits, SameWindow, Given, Limits, Bounded, Copied
<1> QED
  BY <1>2, <1>3, <1>4

LEMMA ValidateGiven ==
    ASSUME NEW e \in Effects, NEW n \in Nat \ {0}, Limits, Good(e),
           e.regT = "rtValidate"
    PROVE  /\ Given(e, ValidateAppend(e, n), n)
           /\ SameWindow(e, ValidateAppend(e, n))
<1> DEFINE f == ValidateAppend(e, n)
           over == [e EXCEPT !.valOver = TRUE, !.capBuf = 0]
<1>1. e.capBuf \in Nat /\ regCap \in Nat /\ e.capBuf <= regCap
  BY DEF Limits, Effects, Good, CopyFits
<1>2. /\ f \in Effects /\ f.capBuf <= regCap
      /\ f.committed = e.committed /\ f.dead = e.dead /\ f.code = e.code
      /\ f.offset = e.offset /\ f.limitAt = e.limitAt /\ f.regT = e.regT
      /\ f.split = e.split /\ f.copies = e.copies /\ f.unfit = e.unfit
  <2>1. CASE e.valOver
    BY <1>1, <2>1 DEF ValidateAppend
  <2>2. CASE ~e.valOver /\ e.capBuf + n > regCap
    <3>1. f = over
      BY <2>2 DEF ValidateAppend
    <3>2. over \in Effects
      BY DEF Effects
    <3>3. /\ over.capBuf = 0
          /\ over.committed = e.committed /\ over.dead = e.dead
          /\ over.code = e.code /\ over.offset = e.offset
          /\ over.limitAt = e.limitAt /\ over.regT = e.regT
          /\ over.split = e.split /\ over.copies = e.copies
          /\ over.unfit = e.unfit
      BY DEF Effects
    <3> HIDE DEF over
    <3> QED
      BY <1>1, <3>1, <3>2, <3>3
  <2>3. CASE ~e.valOver /\ ~(e.capBuf + n > regCap)
    <3>1. f = [e EXCEPT !.capBuf = @ + n]
      BY <2>3 DEF ValidateAppend
    <3> QED
      BY <1>1, <2>3, <3>1 DEF Effects
  <2> QED
    BY <2>1, <2>2, <2>3
<1> HIDE DEF f
<1>3. Given(e, f, n) /\ SameWindow(e, f)
  BY <1>2 DEF Good, CopyFits, SameWindow, Given, Bounded, Copied
<1> QED
  BY <1>3 DEF f

\* Every target but OnPrefix's.
LEMMA PlainGiven ==
    ASSUME NEW e \in Effects, NEW n \in Nat \ {0}, Limits, Good(e),
           e.regT # "rtPrefix"
    PROVE  /\ Given(e, emitPlain(e, n), n)
           /\ SameWindow(e, emitPlain(e, n))
<1> DEFINE r == Raw(e, n)
<1>1. /\ Good(r) /\ SameWindow(e, r) /\ r \in Effects
      /\ r.dead = e.dead /\ r.code = e.code /\ r.offset = e.offset
      /\ r.limitAt = e.limitAt /\ r.capBuf = e.capBuf /\ r.regT = e.regT
      /\ r.unfit = e.unfit
  BY RawGood DEF Good
<1> HIDE DEF r
<1>2. ASSUME NEW f, Given(r, f, n), SameWindow(r, f)
      PROVE  Given(e, f, n) /\ SameWindow(e, f)
  BY <1>1, <1>2 DEF Given, SameWindow
<1>3. CASE e.regT = "rtOut"
  <2>1. emitPlain(e, n) = r
    BY <1>3 DEF emitPlain, r
  <2> QED
    BY <1>1, <1>3, <2>1 DEF Given, Bounded, Copied
<1>4. CASE e.regT = "rtObserve"
  <2>1. emitPlain(e, n) = capAppend(r, n)
    BY <1>4 DEF emitPlain, r
  <2>2. r.regT \in Bounded
    BY <1>1, <1>4 DEF Bounded
  <2> QED
    BY <1>1, <1>2, <2>1, <2>2, AppendGiven
<1>5. CASE e.regT \in {"rtCapture", "rtDefer"}
  <2>1. emitPlain(e, n) = capAppend(e, n)
    BY <1>5 DEF emitPlain
  <2>2. e.regT \in Bounded
    BY <1>5 DEF Bounded
  <2> QED
    BY <2>1, <2>2, AppendGiven
<1>6. CASE e.regT = "rtValidate"
  <2>1. emitPlain(e, n) = ValidateAppend(IF valEmit THEN r ELSE e, n)
    BY <1>6 DEF emitPlain, r
  <2>2. CASE valEmit
    BY <1>1, <1>2, <1>6, <2>1, <2>2, ValidateGiven
  <2>3. CASE ~valEmit
    BY <1>6, <2>1, <2>3, ValidateGiven
  <2> QED
    BY <2>2, <2>3
<1>7. CASE e.regT \notin {"rtOut", "rtObserve", "rtCapture", "rtDefer", "rtValidate"}
  <2>1. emitPlain(e, n) = e
    BY <1>7 DEF emitPlain
  <2> QED
    BY <1>7, <2>1 DEF Given, SameWindow, Bounded, Copied
<1> QED
  BY <1>3, <1>4, <1>5, <1>6, <1>7

\* OnPrefix passes the value on, drops it, or gives up.
LEMMA PrefixTurned ==
    ASSUME NEW e \in Effects, NEW whole \in BOOLEAN,
           NEW answer \in PrefixAnswers,
           Limits, Good(e), ~e.dead => whole
    PROVE  LET f == runPrefix(e, whole, answer) IN
           /\ Good(f) /\ SameWindow(e, f) /\ f.limitAt = e.limitAt
           /\ e.dead => /\ f.dead /\ f.offset = e.offset /\ f.code = e.code
                        /\ f.unfit = e.unfit
           /\ ~e.dead => f.unfit = -1
           /\ f.dead /\ ~e.dead => f.offset = -1
           /\ \/ f.dead /\ f.regT = e.regT
              \/ /\ ~f.dead /\ ~e.dead
                 /\ f.regT \in {"rtOut", "rtSkip"} /\ f.capBuf = 0
<1> DEFINE seen == [e EXCEPT !.copies = @ /\ whole, !.unfit = -1]
           skip == [seen EXCEPT !.regT = "rtSkip", !.capBuf = 0]
           r    == Raw(seen, seen.capBuf)
           pass == [r EXCEPT !.regT = "rtOut", !.capBuf = 0]
           over == [e EXCEPT !.late = TRUE]
<1>1. CASE e.dead
  <2>1. runPrefix(e, whole, answer) = over
    BY <1>1 DEF runPrefix
  <2>2. /\ over \in Effects /\ over.dead = e.dead /\ over.code = e.code
        /\ over.offset = e.offset /\ over.limitAt = e.limitAt
        /\ over.unfit = e.unfit /\ over.regT = e.regT
        /\ over.capBuf = e.capBuf /\ over.committed = e.committed
        /\ over.split = e.split /\ over.copies = e.copies
    BY DEF Effects
  <2> HIDE DEF over
  <2> QED
    BY <1>1, <2>1, <2>2 DEF Good, CopyFits, SameWindow
<1>2. ASSUME ~e.dead
      PROVE  /\ seen \in Effects /\ Good(seen) /\ SameWindow(e, seen)
             /\ ~seen.dead /\ seen.code = e.code /\ seen.offset = e.offset
             /\ seen.limitAt = e.limitAt /\ seen.regT = e.regT
             /\ seen.capBuf \in Nat /\ seen.unfit = -1
  <2>1. -1 \in -1..MaxIn
    BY BudgetAssumption
  <2>2. /\ seen \in Effects /\ seen.dead = e.dead /\ seen.code = e.code
        /\ seen.offset = e.offset /\ seen.limitAt = e.limitAt
        /\ seen.regT = e.regT /\ seen.capBuf = e.capBuf
        /\ seen.committed = e.committed /\ seen.split = e.split
        /\ seen.copies = (e.copies /\ whole) /\ seen.unfit = -1
        /\ seen.capBuf \in Nat
    BY <2>1 DEF Effects
  <2> HIDE DEF seen
  <2> QED
    BY <1>2, <2>2 DEF Good, CopyFits, SameWindow
<1> HIDE DEF seen
<1>3. CASE ~e.dead /\ answer = "Bail"
  <2>1. runPrefix(e, whole, answer) = Bail(seen, "protocol")
    BY <1>3 DEF runPrefix, seen
  <2> QED
    BY <1>2, <1>3, <2>1, BailGood DEF SameWindow
<1>4. CASE ~e.dead /\ answer = "Skip"
  <2>1. runPrefix(e, whole, answer) = skip
    BY <1>4 DEF runPrefix, seen
  <2>2. /\ skip \in Effects /\ skip.regT = "rtSkip" /\ skip.capBuf = 0
        /\ skip.dead = seen.dead /\ skip.code = seen.code
        /\ skip.offset = seen.offset /\ skip.limitAt = seen.limitAt
        /\ skip.committed = seen.committed /\ skip.split = seen.split
        /\ skip.copies = seen.copies /\ skip.unfit = seen.unfit
    BY <1>2, <1>4 DEF Effects
  <2> HIDE DEF skip
  <2> QED
    BY <1>2, <1>4, <2>1, <2>2 DEF Good, CopyFits, SameWindow, Bounded
<1>5. CASE ~e.dead /\ answer = "Pass"
  <2>1. runPrefix(e, whole, answer) = pass
    BY <1>5 DEF runPrefix, seen
  <2>2. /\ Good(r) /\ r \in Effects /\ SameWindow(seen, r)
        /\ r.dead = seen.dead /\ r.code = seen.code
        /\ r.offset = seen.offset /\ r.limitAt = seen.limitAt
        /\ r.unfit = seen.unfit
    BY <1>2, <1>5, RawGood DEF Good
  <2> HIDE DEF r
  <2>3. /\ pass \in Effects /\ pass.regT = "rtOut" /\ pass.capBuf = 0
        /\ pass.dead = r.dead /\ pass.code = r.code /\ pass.offset = r.offset
        /\ pass.limitAt = r.limitAt /\ pass.committed = r.committed
        /\ pass.split = r.split /\ pass.copies = r.copies
        /\ pass.unfit = r.unfit
    BY <2>2 DEF Effects
  <2> HIDE DEF pass
  <2> QED
    BY <1>2, <1>5, <2>1, <2>2, <2>3 DEF Good, CopyFits, SameWindow, Bounded
<1> QED
  BY <1>1, <1>3, <1>4, <1>5 DEF PrefixAnswers

LEMMA RegionGiven ==
    ASSUME NEW e \in Effects, NEW at \in Int, NEW n \in Nat \ {0},
           NEW answer \in PrefixAnswers, Limits, Good(e), Windowed(e, at)
    PROVE  /\ Given(e, emitRegion(e, at, n, answer), n)
           /\ SameWindow(e, emitRegion(e, at, n, answer))
<1> DEFINE room   == regCap - e.capBuf
           full   == [e EXCEPT !.capBuf = regCap]
           turned == runPrefix(full, e.capBuf = at - start, answer)
           c      == checkBudget(e, n)
           more   == [e EXCEPT !.capBuf = @ + n]
<1>1. CASE e.regT # "rtPrefix"
  BY <1>1, PlainGiven DEF emitRegion
<1>2. e.capBuf \in Nat /\ regCap \in Nat
  BY DEF Limits, Effects
<1>3. CASE e.regT = "rtPrefix" /\ room >= n
  <2>1. emitRegion(e, at, n, answer) = IF c.dead THEN c ELSE [c EXCEPT !.capBuf = @ + n]
    BY <1>3 DEF emitRegion
  <2>2. \/ c = e /\ (budget > 0 => Buffered(e) + n <= budget)
        \/ c = Bail(e, "limit")
    BY <1>2 DEF checkBudget, Buffered, Limits, Effects
  <2>3. CASE c.dead
    BY <1>3, <2>1, <2>2, <2>3, BailGood
       DEF Given, SameWindow, Bounded, Copied
  <2>4. CASE ~c.dead
    <3>1. c = e /\ (budget > 0 => Buffered(e) + n <= budget)
      BY <2>2, <2>4, BailGood
    <3>2. emitRegion(e, at, n, answer) = more
      BY <2>1, <2>4, <3>1
    <3>3. /\ more \in Effects /\ more.capBuf = e.capBuf + n
          /\ more.limitAt = e.limitAt /\ more.regT = e.regT
          /\ more.copies = e.copies /\ more.dead = e.dead
          /\ more.code = e.code /\ more.offset = e.offset
          /\ more.committed = e.committed /\ more.split = e.split
          /\ more.unfit = e.unfit
      BY <1>2 DEF Effects
    <3>4. more.capBuf <= regCap
      BY <1>2, <1>3, <3>3
    <3>5. budget > 0 => more.capBuf + deferredBytes <= budget
      BY <1>2, <3>1, <3>3 DEF Buffered, Limits, Effects
    <3> HIDE DEF more
    <3> QED
      BY <1>3, <3>2, <3>3, <3>4, <3>5
         DEF Good, CopyFits, SameWindow, Given, Bounded, Copied
  <2> QED
    BY <2>3, <2>4
<1>4. CASE e.regT = "rtPrefix" /\ ~(room >= n)
  <2>1. emitRegion(e, at, n, answer)
          = IF turned.dead THEN turned ELSE emitPlain(turned, n - room)
    BY <1>4 DEF emitRegion
  <2>2. room \in Nat /\ n - room \in Nat \ {0} /\ n - room <= n
    BY <1>2, <1>4 DEF Good, CopyFits
  <2>3. /\ full \in Effects /\ full.capBuf = regCap
        /\ full.limitAt = e.limitAt /\ full.regT = e.regT
        /\ full.copies = e.copies /\ full.dead = e.dead
        /\ full.code = e.code /\ full.offset = e.offset
        /\ full.committed = e.committed /\ full.split = e.split
        /\ full.unfit = e.unfit
    BY <1>2 DEF Effects
  <2> HIDE DEF full
  <2>4. Good(full)
    BY <1>2, <1>4, <2>3 DEF Good, CopyFits, Bounded
  <2>5. /\ Good(turned) /\ SameWindow(full, turned)
        /\ turned.limitAt = full.limitAt
        /\ full.dead => /\ turned.dead /\ turned.offset = full.offset
                        /\ turned.code = full.code /\ turned.unfit = full.unfit
        /\ ~full.dead => turned.unfit = -1
        /\ turned.dead /\ ~full.dead => turned.offset = -1
        /\ \/ turned.dead /\ turned.regT = full.regT
           \/ /\ ~turned.dead /\ ~full.dead
              /\ turned.regT \in {"rtOut", "rtSkip"} /\ turned.capBuf = 0
    <3>1. (e.capBuf = at - start) \in BOOLEAN
      OBVIOUS
    <3>2. ~full.dead => e.capBuf = at - start
      BY <1>4, <2>3 DEF Windowed
    <3> QED
      BY <2>3, <2>4, <3>1, <3>2, PrefixTurned
  <2> HIDE DEF turned
  <2>6. CASE turned.dead
    BY <1>4, <2>1, <2>3, <2>5, <2>6 DEF Given, SameWindow, Bounded, Copied
  <2>7. CASE ~turned.dead
    <3> DEFINE f == emitPlain(turned, n - room)
    <3>1. turned \in Effects /\ turned.regT \in {"rtOut", "rtSkip"}
      BY <2>5, <2>7 DEF Good
    <3>2. Given(turned, f, n - room) /\ SameWindow(turned, f)
      BY <2>2, <2>5, <3>1, PlainGiven
    <3>3. emitRegion(e, at, n, answer) = f
      BY <2>1, <2>7
    <3> HIDE DEF f
    <3>4. f \in Effects
      BY <3>2 DEF Given, Good
    <3>5. f.limitAt \in Nat
      BY <3>4 DEF Effects
    <3>6. f.limitAt = e.limitAt
      BY <2>3, <2>5, <3>1, <3>2 DEF Given, Bounded
    <3>7. /\ f.regT \in {"rtOut", "rtSkip"} /\ ~f.dead
          /\ f.unfit = -1
      BY <2>3, <2>5, <2>7, <3>1, <3>2 DEF Given, Bounded, Copied
    <3> QED
      BY <1>4, <2>3, <2>5, <2>7, <3>2, <3>3, <3>6, <3>7
         DEF Given, SameWindow, Bounded, Copied
  <2> QED
    BY <2>6, <2>7
<1> QED
  BY <1>1, <1>3, <1>4

LEMMA GivenTwice ==
    ASSUME NEW e \in Effects, NEW f \in Effects, NEW g \in Effects,
           NEW n \in Nat, NEW m \in Nat, Limits,
           Given(e, f, n), Given(f, g, m)
    PROVE  Given(e, g, n + m)
<1>1. /\ e.capBuf \in Nat /\ f.capBuf \in Nat /\ g.capBuf \in Nat
      /\ f.limitAt \in Nat /\ g.limitAt \in Nat
  BY DEF Effects
<1>2. g.limitAt = e.limitAt \/ g.limitAt < n + m
  BY <1>1 DEF Given
<1>3. g.regT = e.regT \/ (e.regT = "rtPrefix" /\ g.regT \in {"rtOut", "rtSkip"})
  BY DEF Given
<1>4. ASSUME ~g.dead, g.regT \in Copied
      PROVE  /\ g.capBuf = e.capBuf + (n + m)
             /\ budget > 0 => g.capBuf + deferredBytes <= budget
  <2>1. ~f.dead /\ f.regT \in Copied
    BY <1>4 DEF Given, Bounded, Copied
  <2> QED
    BY <1>1, <1>4, <2>1 DEF Given
<1>5. /\ e.regT \notin Bounded => g.limitAt = e.limitAt
      /\ e.regT \notin Copied => g.dead = e.dead
  BY DEF Given, Bounded, Copied
<1>6. g.dead => g.regT = e.regT
  BY DEF Given, Bounded, Copied
<1>7. /\ g.unfit = e.unfit \/ (e.regT = "rtPrefix" /\ g.unfit = -1)
      /\ g.regT # e.regT => g.unfit = -1
  BY DEF Given
<1>8. g.dead /\ ~e.dead =>
        g.offset = -1 /\ (g.unfit # -1 => g.code = "limit")
  BY <1>7 DEF Given
<1>9. e.dead => /\ g.dead /\ g.offset = e.offset /\ g.code = e.code
                /\ g.unfit = e.unfit
  BY DEF Given
<1> QED
  BY <1>2, <1>3, <1>4, <1>5, <1>6, <1>7, <1>8, <1>9 DEF Given

-----------------------------------------------------------------------------
(* A run of the region is flushed. *)

\* What a run leaves, besides what GivenTwice says: the commit point is passed
\* only by a run that crosses the window.
RunGiven(e, f, from, to) ==
    /\ Given(e, f, to - from)
    /\ e.committed => f.committed
    /\ f.committed => e.committed \/ scanBase + to > CommitBytes

LEMMA RunFacts ==
    ASSUME NEW e \in Effects, NEW from \in Nat, NEW to \in Nat,
           NEW answer \in PrefixAnswers, from < to, scanBase \in Nat,
           start \in Nat, sink \in BOOLEAN, Limits, Good(e),
           Windowed(e, scanBase + from)
    PROVE  RunGiven(e, emitRegionAt(e, from, to, answer), from, to)
<1> DEFINE at      == scanBase + from
           room    == CommitBytes - at
           crosses == sink /\ ~e.committed /\ room < to - from
           half    == crosses /\ room > 0
           before  == IF half THEN emitRegion(e, at, room, answer) ELSE e
           past    == IF crosses THEN [before EXCEPT !.committed = TRUE] ELSE e
           done    == IF half THEN room ELSE 0
           g       == emitRegion(past, at + done, to - from - done, answer)
           f       == [g EXCEPT !.split = half]
<1>1. CommitBytes \in Nat
  BY BudgetAssumption
<1>2. emitRegionAt(e, from, to, answer) = f
  BY DEF emitRegionAt
<1>3. /\ at \in Nat /\ room \in Int /\ done \in Nat
      /\ to - from - done \in Nat \ {0}
      /\ done + (to - from - done) = to - from /\ at + done \in Int
  BY <1>1
<1>4. crosses => scanBase + to > CommitBytes
  BY <1>1
<1>5. crosses \in BOOLEAN /\ half \in BOOLEAN
  OBVIOUS
<1>6. /\ before \in Effects /\ Good(before) /\ before.committed = e.committed
      /\ half => Given(e, before, room) /\ done = room
      /\ ~half => before = e /\ done = 0
  <2>1. CASE half
    <3>1. before = emitRegion(e, at, room, answer) /\ done = room
      BY <2>1
    <3>2. room \in Nat \ {0}
      BY <1>3, <2>1
    <3>3. Given(e, emitRegion(e, at, room, answer), room)
          /\ SameWindow(e, emitRegion(e, at, room, answer))
      BY <1>3, <3>2, RegionGiven
    <3> QED
      BY <2>1, <3>1, <3>3 DEF Given, Good, SameWindow
  <2>2. CASE ~half
    BY <2>2
  <2> QED
    BY <2>1, <2>2
<1> HIDE DEF before
<1>7. /\ past \in Effects /\ past.dead = before.dead /\ past.code = before.code
      /\ past.offset = before.offset /\ past.limitAt = before.limitAt
      /\ past.capBuf = before.capBuf /\ past.regT = before.regT
      /\ past.copies = before.copies /\ past.unfit = before.unfit
      /\ past.committed = (e.committed \/ crosses)
  <2>1. CASE crosses
    BY <1>6, <2>1 DEF Effects
  <2>2. CASE ~crosses
    BY <1>5, <1>6, <2>2 DEF Effects
  <2> QED
    BY <2>1, <2>2
<1> HIDE DEF past
<1>8. Good(past)
  BY <1>6, <1>7 DEF Good, CopyFits
<1> HIDE DEF done, half, crosses, at, room
<1>9. Windowed(past, at + done)
  <2>1. CASE half
    <3> DEFINE a2 == at + done
    <3>1. ASSUME ~past.dead, past.regT = "rtPrefix"
          PROVE  past.capBuf = a2 - start
      <4>1. /\ before.regT = e.regT /\ ~e.dead /\ done = room
            /\ before.capBuf = e.capBuf + room
        BY <1>6, <1>7, <2>1, <3>1 DEF Given, Copied
      <4>2. e.capBuf = at - start
        BY <1>7, <3>1, <4>1 DEF Windowed, at
      <4> QED
        BY <1>3, <1>7, <4>1, <4>2
    <3> HIDE DEF a2
    <3>2. Windowed(past, a2)
      BY <3>1 DEF Windowed
    <3> QED
      BY <3>2 DEF a2
  <2>2. CASE ~half
    <3>1. before = e /\ done = 0 /\ at + done = at
      BY <1>3, <1>6, <2>2
    <3>2. Windowed(past, at)
      BY <1>7, <3>1 DEF Windowed, at
    <3> QED
      BY <3>1, <3>2
  <2> QED
    BY <2>1, <2>2
<1>10. Given(past, g, to - from - done) /\ SameWindow(past, g)
  BY <1>3, <1>7, <1>8, <1>9, RegionGiven
<1> HIDE DEF g
<1>11. g \in Effects
  BY <1>10 DEF Given, Good
<1>12. /\ f \in Effects /\ f.dead = g.dead /\ f.code = g.code
       /\ f.offset = g.offset /\ f.limitAt = g.limitAt
       /\ f.capBuf = g.capBuf /\ f.regT = g.regT /\ f.unfit = g.unfit
       /\ f.copies = g.copies /\ f.committed = g.committed
  BY <1>5, <1>11 DEF Effects
<1>13. f.committed = (e.committed \/ crosses)
  BY <1>7, <1>10, <1>12 DEF SameWindow
<1> HIDE DEF f
<1>14. Given(past, f, to - from - done)
  BY <1>10, <1>12 DEF Given, Good, CopyFits
<1>15. Given(before, f, to - from - done)
  BY <1>7, <1>14 DEF Given
<1>16. Given(e, f, to - from)
  <2>1. CASE half
    <3>1. room \in Nat /\ to - from - done \in Nat
      BY <1>3, <2>1 DEF half
    <3>2. Given(e, f, room + (to - from - done))
      BY <1>6, <1>12, <1>15, <2>1, <3>1, GivenTwice
    <3> QED
      BY <1>3, <1>6, <2>1, <3>2
  <2>2. CASE ~half
    <3>1. before = e /\ to - from - done = to - from
      BY <1>3, <1>6, <2>2
    <3> QED
      BY <1>15, <3>1
  <2> QED
    BY <2>1, <2>2
<1> QED
  BY <1>2, <1>4, <1>13, <1>16 DEF RunGiven

\* The k-th byte of a run, from 0 on, has room in the copy.
RoomFor(e, k) ==
    /\ e.regT \in Bounded /\ regCap > 0 => e.capBuf + k + 1 <= regCap
    /\ e.regT \in Bounded /\ budget > 0 =>
          Buffered(e) + k + 1 + (IF Twice(e) THEN k + 1 ELSE 0) <= budget
    /\ e.regT = "rtPrefix" /\ e.capBuf + k < regCap /\ budget > 0 =>
          Buffered(e) + k + 1 <= budget

\* The kept output that counts when the k-th byte of a run is tried.
KeptBy(e, k) ==
    IF e.committed THEN 0
    ELSE e.buf + (IF e.regT = "rtObserve" THEN k + 1 ELSE 0)

LEMMA FitsIsRoom ==
    ASSUME NEW e \in Effects, NEW h \in Effects, NEW b \in Nat, NEW k \in Nat,
           NEW r \in Int,
           Limits, start \in Nat, e.regT \in Copied, h.regT = e.regT,
           b = start + h.capBuf + k, Kept(e, r, b) = KeptBy(h, k)
    PROVE  Fits(e, regCap, start, r, b) <=> RoomFor(h, k)
<1>1. /\ h.capBuf \in Nat /\ h.buf \in Nat /\ regCap \in Nat
      /\ budget \in Nat /\ deferredBytes \in Nat /\ KeptBy(h, k) \in Nat
  BY DEF Effects, Limits, KeptBy
<1>2. b - start + 1 = h.capBuf + k + 1 /\ b - start = h.capBuf + k
  BY <1>1
<1>3. budget > 0 => KeptBy(h, k) = (IF h.committed THEN 0 ELSE h.buf)
                                   + (IF Twice(h) THEN k + 1 ELSE 0)
  BY <1>1 DEF KeptBy, Twice
<1>4. ASSUME budget > 0
      PROVE  b - start + 1 + deferredBytes + Kept(e, r, b)
               = Buffered(h) + k + 1 + (IF Twice(h) THEN k + 1 ELSE 0)
  BY <1>1, <1>2, <1>3, <1>4 DEF Buffered
<1>5. e.regT \in Bounded <=> e.regT \in {"rtCapture", "rtDefer", "rtObserve"}
  BY DEF Bounded
<1>6. Twice(h) => h.regT \in Bounded
  BY DEF Twice, Bounded
<1>7. CASE e.regT \in Bounded
  <2>1. Fits(e, regCap, start, r, b) <=>
          /\ regCap > 0 => h.capBuf + k + 1 <= regCap
          /\ budget > 0 => b - start + 1 + deferredBytes + Kept(e, r, b) <= budget
    BY <1>2, <1>5, <1>7 DEF Fits, Asked
  <2> QED
    BY <1>4, <1>7, <2>1 DEF RoomFor, Bounded
<1>8. CASE e.regT = "rtPrefix"
  <2>1. ~Twice(h)
    BY <1>8 DEF Twice
  <2>2. Fits(e, regCap, start, r, b) <=>
          (budget > 0 /\ h.capBuf + k < regCap
             => b - start + 1 + deferredBytes + Kept(e, r, b) <= budget)
    BY <1>2, <1>8 DEF Fits, Asked
  <2>3. Buffered(h) \in Nat
    BY <1>1 DEF Buffered
  <2>4. budget > 0 => b - start + 1 + deferredBytes + Kept(e, r, b)
                        = Buffered(h) + k + 1
    BY <1>4, <2>1, <2>3
  <2> QED
    BY <1>8, <2>2, <2>4 DEF RoomFor, Bounded
<1> QED
  BY <1>7, <1>8 DEF Copied

\* A run that holds a byte without room ends the stream, but when it fills
\* OnPrefix's window; capAppend tells where.
LEMMA AppendDies ==
    ASSUME NEW e \in Effects, NEW at \in Int, NEW n \in Nat \ {0},
           NEW k \in Nat, NEW answer \in PrefixAnswers, Limits, Good(e),
           ~e.dead, e.regT \in Bounded, k < n, ~RoomFor(e, k)
    PROVE  LET f == emitRegion(e, at, n, answer) IN
           /\ f.dead
           /\ (\A j \in 0..(k - 1) : RoomFor(e, j)) /\ ~Twice(e)
                => f.limitAt >= k
           /\ OneLimit => f.limitAt <= k
<1> DEFINE r    == IF e.regT = "rtObserve" THEN Raw(e, n) ELSE e
           left == regCap - r.capBuf
           room == IF budget < Buffered(r) THEN 0 ELSE budget - Buffered(r)
           more == IF Twice(e) THEN n ELSE 0
           f    == emitRegion(e, at, n, answer)
<1>1. f = capAppend(r, n)
  BY DEF emitRegion, emitPlain, Bounded
<1>2. /\ Good(r) /\ r \in Effects /\ ~r.dead
      /\ r.capBuf = e.capBuf /\ r.regT = e.regT
  BY RawGood DEF Good
<1>3. budget > 0 => Buffered(r) = Buffered(e) + more
  <2>1. CASE Twice(e)
    <3>1. r = [e EXCEPT !.buf = @ + n]
      BY <2>1 DEF Twice, Raw
    <3>2. r.capBuf = e.capBuf /\ ~r.committed /\ r.buf = e.buf + n
          /\ e.buf \in Nat /\ e.capBuf \in Nat /\ ~e.committed
      BY <2>1, <3>1 DEF Effects, Twice
    <3> HIDE DEF r
    <3> QED
      BY <2>1, <3>2 DEF Buffered, Limits
  <2>2. CASE ~Twice(e) /\ budget > 0
    <3>1. r = e
      BY <2>2 DEF Twice, Raw
    <3>2. Buffered(e) \in Nat
      BY DEF Buffered, Effects, Limits
    <3> QED
      BY <2>2, <3>1, <3>2
  <2> QED
    BY <2>1, <2>2
<1> HIDE DEF r
<1>4. /\ e.capBuf \in Nat /\ regCap \in Nat /\ budget \in Nat /\ more \in Nat
      /\ Buffered(r) \in Nat /\ Buffered(e) \in Nat
  BY <1>2 DEF Effects, Limits, Buffered
<1>5. CASE regCap > 0 /\ e.capBuf + n > regCap
  <2>1. e.capBuf <= regCap
    BY <1>5 DEF Good, CopyFits
  <2>2. left \in Nat /\ left < n
    BY <1>2, <1>4, <1>5, <2>1
  <2>3. f = Bail([r EXCEPT !.limitAt = left], "limit")
    BY <1>1, <1>2, <1>5 DEF capAppend
  <2>4. f.dead /\ f.limitAt = left
    BY <1>2, <2>2, <2>3, LimitGiven
  <2>5. OneLimit => left <= k
    BY <1>2, <1>4, <1>5 DEF RoomFor, OneLimit, Bounded
  <2>6. ASSUME \A j \in 0..(k - 1) : RoomFor(e, j)
        PROVE  left >= k
    <3>1. CASE left < k
      <4>1. RoomFor(e, left)
        BY <2>2, <2>6, <3>1
      <4> QED
        BY <1>2, <1>4, <1>5, <4>1 DEF RoomFor
    <3> QED
      BY <2>2, <3>1
  <2> QED
    BY <2>4, <2>5, <2>6
<1>6. CASE ~(regCap > 0 /\ e.capBuf + n > regCap)
  <2> DEFINE twice == IF Twice(e) THEN k + 1 ELSE 0
  <2>1. budget > 0 /\ Buffered(e) + k + 1 + twice > budget
    BY <1>4, <1>6 DEF RoomFor, Bounded
  <2>2. twice <= more /\ twice \in Nat
    OBVIOUS
  <2> HIDE DEF twice, more
  <2>3. Buffered(r) + n > budget
    BY <1>3, <1>4, <2>1, <2>2
  <2>4. room \in Nat /\ room < n
    BY <1>4, <2>1, <2>3
  <2>5. room <= k
    BY <1>3, <1>4, <2>1, <2>2
  <2>6. f = Bail([r EXCEPT !.limitAt = room], "limit")
    BY <1>1, <1>2, <1>6, <2>1, <2>3 DEF capAppend
  <2> HIDE DEF room
  <2>7. f.dead /\ f.limitAt = room
    BY <1>2, <2>4, <2>6, LimitGiven
  <2>8. ASSUME \A j \in 0..(k - 1) : RoomFor(e, j), ~Twice(e)
        PROVE  room >= k
    <3>1. CASE room < k
      <4>1. RoomFor(e, room)
        BY <2>4, <2>8, <3>1
      <4>2. Buffered(e) + room + 1 <= budget
        BY <1>4, <2>1, <2>4, <2>8, <4>1 DEF RoomFor
      <4>3. Buffered(r) = Buffered(e)
        BY <1>3, <1>4, <2>1, <2>8 DEF more
      <4> QED
        BY <1>4, <2>4, <3>1, <4>2, <4>3 DEF room
    <3> QED
      BY <1>4, <2>4, <3>1
  <2> QED
    BY <2>5, <2>7, <2>8
<1> QED
  BY <1>5, <1>6

LEMMA PrefixDies ==
    ASSUME NEW e \in Effects, NEW at \in Int, NEW n \in Nat \ {0},
           NEW k \in Nat, NEW answer \in PrefixAnswers, Limits, Good(e),
           ~e.dead, e.regT = "rtPrefix", Windowed(e, at), k < n,
           ~RoomFor(e, k)
    PROVE  LET f == emitRegion(e, at, n, answer) IN f.dead \/ f.unfit = -1
<1> DEFINE room   == regCap - e.capBuf
           full   == [e EXCEPT !.capBuf = regCap]
           turned == runPrefix(full, e.capBuf = at - start, answer)
           c      == checkBudget(e, n)
<1>1. /\ e.capBuf \in Nat /\ regCap \in Nat /\ budget \in Nat
      /\ Buffered(e) \in Nat
  BY DEF Limits, Effects, Buffered
<1>2. budget > 0 /\ Buffered(e) + k + 1 > budget
  BY <1>1 DEF RoomFor, Bounded
<1>3. CASE room >= n
  <2>1. emitRegion(e, at, n, answer) = IF c.dead THEN c ELSE [c EXCEPT !.capBuf = @ + n]
    BY <1>3 DEF emitRegion
  <2>2. c = Bail(e, "limit")
    BY <1>1, <1>2 DEF checkBudget
  <2>3. c.dead
    BY <2>2, BailGood
  <2> QED
    BY <2>1, <2>3
<1>4. CASE ~(room >= n)
  <2>1. emitRegion(e, at, n, answer)
          = IF turned.dead THEN turned ELSE emitPlain(turned, n - room)
    BY <1>4 DEF emitRegion
  <2>2. full \in Effects /\ Good(full) /\ ~full.dead
    <3>1. /\ full \in Effects /\ full.capBuf = regCap
          /\ full.limitAt = e.limitAt /\ full.regT = e.regT
          /\ full.copies = e.copies /\ full.dead = e.dead
          /\ full.code = e.code
      BY <1>1 DEF Effects
    <3> HIDE DEF full
    <3> QED
      BY <1>1, <3>1 DEF Good, CopyFits, Bounded
  <2> HIDE DEF full
  <2>3. /\ Good(turned) /\ turned.unfit = -1
        /\ ~turned.dead => turned.regT \in {"rtOut", "rtSkip"}
    <3>1. (e.capBuf = at - start) \in BOOLEAN /\ e.capBuf = at - start
      BY DEF Windowed
    <3> QED
      BY <2>2, <3>1, PrefixTurned
  <2> HIDE DEF turned
  <2>4. CASE turned.dead
    BY <2>1, <2>3, <2>4
  <2>5. CASE ~turned.dead
    <3>1. n - room \in Nat \ {0} /\ turned \in Effects
          /\ turned.regT # "rtPrefix"
      BY <1>1, <1>4, <2>3, <2>5 DEF Good
    <3>2. Given(turned, emitPlain(turned, n - room), n - room)
      BY <2>3, <3>1, PlainGiven
    <3> QED
      BY <2>1, <2>3, <2>5, <3>1, <3>2 DEF Given
  <2> QED
    BY <2>4, <2>5
<1> QED
  BY <1>3, <1>4

LEMMA RegionDies ==
    ASSUME NEW e \in Effects, NEW at \in Int, NEW n \in Nat \ {0},
           NEW k \in Nat, NEW answer \in PrefixAnswers, Limits, Good(e),
           ~e.dead, e.regT \in Copied, Windowed(e, at), k < n, ~RoomFor(e, k)
    PROVE  LET f == emitRegion(e, at, n, answer) IN
           /\ f.dead \/ f.unfit = -1
           /\ e.regT \in Bounded =>
                /\ (\A j \in 0..(k - 1) : RoomFor(e, j)) /\ ~Twice(e)
                     => f.limitAt >= k
                /\ OneLimit => f.limitAt <= k
<1>1. CASE e.regT \in Bounded
  BY <1>1, AppendDies
<1>2. CASE e.regT = "rtPrefix"
  BY <1>2, PrefixDies DEF Bounded
<1> QED
  BY <1>1, <1>2 DEF Copied

\* The byte of a run for which there is no room ends the stream; unless the
\* run is split, the error of capAppend is placed at the first such byte.
LEMMA RunDies ==
    ASSUME NEW e \in Effects, NEW from \in Nat, NEW to \in Nat, NEW b \in Nat,
           NEW answer \in PrefixAnswers,
           from < to, scanBase \in Nat, start \in Nat, sink \in BOOLEAN,
           Limits, Good(e), ~e.dead, e.regT \in Copied,
           e.capBuf = scanBase + from - start,
           scanBase + from <= b, b < scanBase + to,
           ~Fits(e, regCap, start, scanBase + from, b)
    PROVE  LET f == emitRegionAt(e, from, to, answer) IN
           /\ f.dead \/ f.unfit = -1
           /\ ~f.split /\ e.regT \in Bounded =>
                /\ ~Twice(f) /\ (\A c \in (scanBase + from)..(b - 1) :
                                   Fits(e, regCap, start, scanBase + from, c))
                     => scanBase + from + f.limitAt >= b
                /\ OneLimit => scanBase + from + f.limitAt <= b
<1> DEFINE at      == scanBase + from
           room    == CommitBytes - at
           crosses == sink /\ ~e.committed /\ room < to - from
           half    == crosses /\ room > 0
           before  == IF half THEN emitRegion(e, at, room, answer) ELSE e
           past    == IF crosses THEN [before EXCEPT !.committed = TRUE] ELSE e
           done    == IF half THEN room ELSE 0
           g       == emitRegion(past, at + done, to - from - done, answer)
           f       == [g EXCEPT !.split = half]
           k       == b - at
<1>1. CommitBytes \in Nat /\ at \in Nat /\ room \in Int /\ k \in Nat
      /\ k < to - from /\ to - from \in Nat \ {0} /\ start + e.capBuf = at
      /\ b = start + e.capBuf + k /\ e.capBuf \in Nat /\ at \in Int
      /\ Windowed(e, at)
  BY BudgetAssumption DEF Effects, Windowed
<1>2. emitRegionAt(e, from, to, answer) = f
  BY DEF emitRegionAt
<1>3. CASE ~half
  <2>1. done = 0 /\ half = FALSE
        /\ past = (IF crosses THEN [e EXCEPT !.committed = TRUE] ELSE e)
    BY <1>3
  <2>2. past \in Effects /\ past.regT = e.regT /\ past.capBuf = e.capBuf
        /\ past.buf = e.buf /\ past.dead = e.dead /\ past.code = e.code
        /\ past.limitAt = e.limitAt /\ past.copies = e.copies
        /\ past.committed = (e.committed \/ crosses)
    <3>1. CASE crosses
      BY <2>1, <3>1 DEF Effects
    <3>2. CASE ~crosses
      BY <2>1, <3>2 DEF Effects
    <3> QED
      BY <3>1, <3>2
  <2> HIDE DEF past, before
  <2>3. Good(past) /\ Windowed(past, at)
    BY <1>1, <2>2 DEF Good, CopyFits, Windowed
  <2>4. ASSUME NEW c \in Nat, NEW j \in Nat, j < to - from,
               c = start + e.capBuf + j
        PROVE  Fits(e, regCap, start, at, c) <=> RoomFor(past, j)
    <3>1. c >= at /\ c < scanBase + to /\ c - at = j
      BY <1>1, <2>4
    <3>2. Kept(e, at, c) = KeptBy(past, j)
      <4>1. CASE e.committed
        BY <2>2, <4>1 DEF Kept, KeptBy
      <4>2. CASE ~e.committed /\ crosses
        <5>1. sink /\ c >= CommitBytes
          BY <1>1, <1>3, <2>4, <3>1, <4>2
        <5> QED
          BY <2>2, <4>2, <5>1 DEF Kept, KeptBy
      <4>3. CASE ~e.committed /\ ~crosses
        <5>1. ~(sink /\ c >= CommitBytes)
          BY <1>1, <2>4, <3>1, <4>3
        <5>2. c - at + 1 = j + 1
          BY <3>1
        <5> QED
          BY <2>2, <4>3, <5>1, <5>2 DEF Kept, KeptBy
      <4> QED
        BY <4>1, <4>2, <4>3
    <3>3. c = start + past.capBuf + j
      BY <2>2, <2>4
    <3> QED
      BY <1>1, <2>2, <3>2, <3>3, FitsIsRoom
  <2>5. ~RoomFor(past, k)
    BY <1>1, <2>4
  <2>6. g = emitRegion(past, at, to - from, answer)
    BY <1>1, <2>1
  <2> HIDE DEF g
  <2>7. /\ g.dead \/ g.unfit = -1
        /\ e.regT \in Bounded =>
             /\ (\A j \in 0..(k - 1) : RoomFor(past, j)) /\ ~Twice(past)
                  => g.limitAt >= k
             /\ OneLimit => g.limitAt <= k
    BY <1>1, <2>2, <2>3, <2>5, <2>6, RegionDies
  <2>8. Given(past, g, to - from) /\ SameWindow(past, g) /\ g \in Effects
    <3>1. Given(past, g, to - from) /\ SameWindow(past, g)
      BY <1>1, <2>2, <2>3, <2>6, RegionGiven
    <3> QED
      BY <3>1 DEF Given, Good
  <2>9. f.dead = g.dead /\ f.unfit = g.unfit /\ f.limitAt = g.limitAt
        /\ g.limitAt \in Nat /\ f.regT = g.regT /\ f.committed = g.committed
    BY <2>8 DEF Effects
  <2>10. e.regT \in Bounded => (Twice(f) <=> Twice(past))
    BY <2>2, <2>8, <2>9 DEF Given, SameWindow, Twice, Bounded
  <2>11. ASSUME \A c \in at..(b - 1) : Fits(e, regCap, start, at, c)
         PROVE  \A j \in 0..(k - 1) : RoomFor(past, j)
    <3>1. TAKE j \in 0..(k - 1)
    <3> DEFINE c == start + e.capBuf + j
    <3>2. c \in at..(b - 1) /\ c \in Nat /\ j \in Nat /\ j < to - from
      BY <1>1
    <3> QED
      BY <2>4, <2>11, <3>2
  <2> HIDE DEF f
  <2>12. /\ g.limitAt >= k => at + g.limitAt >= b
         /\ g.limitAt <= k => at + g.limitAt <= b
    BY <1>1, <2>9
  <2>13. f.dead \/ f.unfit = -1
    BY <2>7, <2>9
  <2>14. ASSUME e.regT \in Bounded
         PROVE  /\ ~Twice(f) /\ (\A c \in at..(b - 1) :
                                   Fits(e, regCap, start, at, c))
                     => at + f.limitAt >= b
                /\ OneLimit => at + f.limitAt <= b
    <3>1. OneLimit => at + f.limitAt <= b
      BY <2>7, <2>9, <2>12, <2>14
    <3>2. ASSUME \A c \in at..(b - 1) : Fits(e, regCap, start, at, c), ~Twice(f)
          PROVE  at + f.limitAt >= b
      <4>1. \A j \in 0..(k - 1) : RoomFor(past, j)
        BY <2>11, <3>2
      <4>2. ~Twice(past)
        BY <2>10, <2>14, <3>2
      <4>3. g.limitAt >= k
        BY <2>7, <2>14, <4>1, <4>2
      <4> QED
        BY <2>9, <2>12, <4>3
    <3> HIDE DEF at
    <3> QED
      BY <3>1, <3>2
  <2> QED
    BY <1>2, <2>13, <2>14
<1>4. CASE half
  <2>1. before = emitRegion(e, at, room, answer) /\ done = room
        /\ room \in Nat \ {0} /\ to - from - room \in Nat \ {0}
        /\ past = [before EXCEPT !.committed = TRUE]
        /\ sink /\ ~e.committed
    BY <1>1, <1>4
  <2>2. Given(e, before, room) /\ before \in Effects
    BY <1>1, <2>1, RegionGiven DEF Given, Good
  <2> HIDE DEF before
  <2>3. past \in Effects /\ past.regT = before.regT
        /\ past.capBuf = before.capBuf /\ past.dead = before.dead
        /\ past.code = before.code /\ past.limitAt = before.limitAt
        /\ past.copies = before.copies /\ past.committed
        /\ past.unfit = before.unfit
    BY <2>1, <2>2 DEF Effects
  <2> HIDE DEF past
  <2>4. Good(past)
    BY <2>2, <2>3 DEF Given, Good, CopyFits
  <2>5. at + room \in Int /\ Windowed(past, at + room)
        /\ g = emitRegion(past, at + room, to - from - room, answer)
    <3>1. ASSUME ~past.dead, past.regT = "rtPrefix"
          PROVE  past.capBuf = at + room - start
      BY <1>1, <2>1, <2>2, <2>3, <3>1 DEF Given, Copied
    <3> QED
      BY <1>1, <2>1, <3>1 DEF Windowed
  <2> HIDE DEF g
  <2> DEFINE m  == to - from - room
             a2 == at + room
  <2> HIDE DEF m, a2
  <2>20. m \in Nat \ {0} /\ a2 \in Int /\ Windowed(past, a2)
         /\ g = emitRegion(past, a2, m, answer)
    BY <2>1, <2>5 DEF m, a2
  <2>6. Given(past, g, m) /\ g \in Effects
    <3>1. Given(past, g, m)
      BY <2>3, <2>4, <2>20, RegionGiven
    <3> QED
      BY <3>1 DEF Given, Good
  <2>7. ASSUME b < CommitBytes
        PROVE  before.dead \/ before.unfit = -1
    <3>1. k < room
      BY <1>1, <2>7
    <3>2. ~RoomFor(e, k)
      <4>1. Kept(e, at, b) = KeptBy(e, k)
        BY <1>1, <2>1, <2>7 DEF Kept, KeptBy
      <4> QED
        BY <1>1, <4>1, FitsIsRoom
    <3> QED
      BY <1>1, <2>1, <3>1, <3>2, RegionDies
  <2>8. ASSUME ~before.dead, before.unfit # -1
        PROVE  g.dead \/ g.unfit = -1
    <3>1. b >= CommitBytes
      BY <1>1, <2>7, <2>8
    <3>2. before.regT = e.regT /\ before.capBuf = e.capBuf + room
      BY <2>2, <2>8 DEF Given
    <3> DEFINE j == b - CommitBytes
    <3>3. j \in Nat /\ j < m /\ b = start + past.capBuf + j
      BY <1>1, <2>1, <2>3, <3>1, <3>2 DEF m
    <3>4. Kept(e, at, b) = KeptBy(past, j)
      BY <2>1, <2>3, <3>1 DEF Kept, KeptBy
    <3>5. past.regT = e.regT
      BY <2>3, <3>2
    <3> HIDE DEF j
    <3>6. ~RoomFor(past, j)
      BY <1>1, <2>3, <3>3, <3>4, <3>5, FitsIsRoom
    <3> QED
      BY <2>3, <2>4, <2>8, <2>20, <3>3, <3>5, <3>6, RegionDies
  <2>9. g.dead \/ g.unfit = -1
    BY <2>3, <2>6, <2>8 DEF Given
  <2>10. f.dead = g.dead /\ f.unfit = g.unfit /\ f.split = TRUE
    BY <1>4, <2>6 DEF Effects
  <2> HIDE DEF f
  <2> QED
    BY <1>2, <2>9, <2>10
<1> QED
  BY <1>3, <1>4

LEMMA OffsetGood ==
    ASSUME NEW e \in Effects, NEW off \in -1..MaxIn, Good(e)
    PROVE  LET f == fixOffset(e, off) IN
           /\ Good(f) /\ SameWindow(e, f)
           /\ f.dead = e.dead /\ f.code = e.code /\ f.limitAt = e.limitAt
           /\ f.capBuf = e.capBuf /\ f.regT = e.regT /\ f.buf = e.buf
           /\ f.unfit = e.unfit
           /\ e.offset >= 0 => f.offset = e.offset
           /\ e.dead /\ e.offset = -1 => f.offset = off
<1> DEFINE f == [e EXCEPT !.offset = off]
<1>1. /\ f \in Effects /\ f.offset = off
      /\ f.committed = e.committed /\ f.dead = e.dead /\ f.code = e.code
      /\ f.limitAt = e.limitAt /\ f.capBuf = e.capBuf /\ f.regT = e.regT
      /\ f.split = e.split /\ f.copies = e.copies /\ f.buf = e.buf
      /\ f.unfit = e.unfit
  BY DEF Effects
<1> HIDE DEF f
<1>2. CASE e.code # "none" /\ e.offset < 0
  <2>1. fixOffset(e, off) = f
    BY <1>2 DEF fixOffset, f
  <2>2. Good(f) /\ SameWindow(e, f)
    BY <1>1 DEF Good, CopyFits, SameWindow
  <2>3. e.offset \in Int
    BY DEF Effects
  <2>4. ~(e.offset >= 0)
    BY <1>2, <2>3
  <2> QED
    BY <1>1, <2>1, <2>2, <2>4
<1>3. CASE ~(e.code # "none" /\ e.offset < 0)
  <2>1. fixOffset(e, off) = e
    BY <1>3 DEF fixOffset
  <2> QED
    BY <1>3, <2>1 DEF Good, SameWindow
<1> QED
  BY <1>2, <1>3

\* What a flush up to end leaves.
Flushed(e, f, end) ==
    /\ Good(f)
    /\ f.regT = e.regT \/ (e.regT = "rtPrefix" /\ f.regT \in {"rtOut", "rtSkip"})
    /\ f.unfit = e.unfit \/ f.unfit = -1
    /\ e.committed => f.committed
    /\ f.committed => e.committed \/ scanBase + end > CommitBytes
    /\ ~f.dead /\ f.regT \in Copied =>
        \/ f.capBuf = e.capBuf /\ (rs < 0 \/ end <= rs)
        \/ /\ f.capBuf = e.capBuf + (end - rs) /\ rs >= 0 /\ end > rs
           /\ budget > 0 => f.capBuf + deferredBytes <= budget

LEMMA FlushFacts ==
    ASSUME NEW e \in Effects, NEW end \in Nat, NEW answer \in PrefixAnswers,
           Limits, scanBase \in Nat, start \in Nat, sink \in BOOLEAN,
           rs \in Int, scanBase + end <= MaxIn, Good(e), ~e.dead,
           Windowed(e, scanBase + rs)
    PROVE  Flushed(e, flush(e, end, answer), end)
<1>1. CASE rs < 0 \/ end <= rs
  <2>1. flush(e, end, answer) = e
    BY <1>1 DEF flush
  <2> QED
    BY <1>1, <2>1 DEF Flushed
<1>2. CASE ~(rs < 0 \/ end <= rs)
  <2> DEFINE f == emitRegionAt(e, rs, end, answer)
             g == fixOffset(f, scanBase + rs + f.limitAt)
  <2>1. rs \in Nat /\ rs < end /\ MaxIn \in Nat
    BY <1>2, BudgetAssumption
  <2>2. RunGiven(e, f, rs, end)
    BY <2>1, RunFacts
  <2>3. flush(e, end, answer) = IF f.dead THEN g ELSE f
    BY <1>2 DEF flush
  <2> HIDE DEF f
  <2>4. Given(e, f, end - rs)
    BY <2>2 DEF RunGiven
  <2>5. Good(f) /\ f \in Effects /\ f.limitAt \in Nat
    BY <2>4 DEF Given, Good, Effects
  <2>6. Flushed(e, f, end)
    BY <2>1, <2>2, <2>4, <2>5 DEF Flushed, RunGiven, Given
  <2>7. e.limitAt = 0
    BY DEF Good
  <2>8. f.limitAt < end - rs
    BY <2>1, <2>4, <2>7 DEF Given
  <2>9. scanBase + rs + f.limitAt \in -1..MaxIn
    BY <2>1, <2>5, <2>8
  <2> DEFINE off == scanBase + rs + f.limitAt
  <2> HIDE DEF off
  <2>10. Flushed(e, g, end)
    <3>1. off \in -1..MaxIn /\ g = fixOffset(f, off)
      BY <2>9 DEF off
    <3>2. /\ Good(g) /\ SameWindow(f, g) /\ g.regT = f.regT
          /\ g.dead = f.dead /\ g.capBuf = f.capBuf /\ g.unfit = f.unfit
      BY <2>5, <3>1, OffsetGood
    <3> HIDE DEF g
    <3> QED
      BY <2>6, <3>2 DEF Flushed, SameWindow
  <2> QED
    BY <2>3, <2>6, <2>10
<1> QED
  BY <1>1, <1>2

\* A flush leaves no byte without room behind, or has stopped the stream.
LEMMA FlushRefuses ==
    ASSUME NEW e \in Effects, NEW end \in Nat, NEW answer \in PrefixAnswers,
           Limits, scanBase \in Nat, start \in Nat, sink \in BOOLEAN,
           scanned \in Nat, rs \in Nat, rs < end, scanBase + end <= scanned,
           scanned <= MaxIn, scanBase + rs = RunStart, Good(e), ~e.dead,
           e.regT \in Copied => e.capBuf = scanBase + rs - start,
           FirstUnfit(e, end)
    PROVE  LET g == flush(e, end, answer) IN g.unfit # -1 => Refused(g)
<1> DEFINE f   == emitRegionAt(e, rs, end, answer)
           off == scanBase + rs + f.limitAt
           g   == fixOffset(f, off)
           b   == e.unfit
<1>1. flush(e, end, answer) = IF f.dead THEN g ELSE f
  BY DEF flush
<1>2. Given(e, f, end - rs)
  <2>1. Windowed(e, scanBase + rs)
    BY DEF Windowed, Copied
  <2> QED
    BY <2>1, RunFacts DEF RunGiven
<1>3. /\ f \in Effects /\ Good(f) /\ e.limitAt = 0 /\ f.limitAt \in Nat
      /\ f.limitAt < end - rs
  BY <1>2 DEF Given, Good, Effects
<1>4. CASE f.unfit = -1
  <2>1. off \in -1..MaxIn
    BY <1>3, BudgetAssumption
  <2> HIDE DEF f, off
  <2>2. g.unfit = f.unfit
    BY <1>3, <2>1, OffsetGood
  <2> QED
    BY <1>1, <1>4, <2>2
<1>5. CASE f.unfit # -1
  <2>1. b = f.unfit /\ b # -1
    BY <1>2, <1>5 DEF Given
  <2>2. /\ e.regT \in Copied /\ b \in Nat /\ scanBase + rs <= b
        /\ b < scanBase + end
        /\ ~Fits(e, regCap, start, scanBase + rs, b)
    BY <2>1 DEF FirstUnfit
  <2>3. ASSUME e.regT \in Bounded, NEW c \in (scanBase + rs)..(b - 1)
        PROVE  Fits(e, regCap, start, scanBase + rs, c)
    <3>1. c \in (scanBase + rs)..(scanBase + end - 1) /\ c < b
      BY <2>2
    <3> QED
      BY <2>3, <3>1 DEF FirstUnfit
  <2>4. /\ f.dead
        /\ ~f.split /\ e.regT \in Bounded =>
             /\ ~Twice(f) => off >= b
             /\ OneLimit => off <= b
    <3>1. e.capBuf = scanBase + rs - start
      BY <2>2
    <3> HIDE DEF b
    <3>2. /\ f.dead \/ f.unfit = -1
          /\ ~f.split /\ e.regT \in Bounded =>
               /\ ~Twice(f) /\ (\A c \in (scanBase + rs)..(b - 1) :
                                  Fits(e, regCap, start, scanBase + rs, c))
                    => scanBase + rs + f.limitAt >= b
               /\ OneLimit => scanBase + rs + f.limitAt <= b
      BY <2>2, <3>1, RunDies
    <3> HIDE DEF f
    <3> QED
      BY <1>5, <2>3, <3>2
  <2>5. f.code = "limit" /\ f.offset = -1 /\ f.regT = e.regT
    BY <1>2, <1>5, <2>4 DEF Given
  <2>6. e.regT = "rtPrefix" => f.limitAt = 0
    BY <1>2, <1>3 DEF Given, Bounded
  <2>7. /\ off \in -1..MaxIn /\ off \in RunStart..scanned - 1
        /\ e.regT = "rtPrefix" => off = RunStart
    BY <1>3, <2>6, BudgetAssumption
  <2> HIDE DEF f, off
  <2>8. /\ g.dead /\ g.code = "limit" /\ g.split = f.split /\ g.offset = off
        /\ g.regT = e.regT /\ g.committed = f.committed /\ g.unfit = b
    BY <1>3, <2>1, <2>4, <2>5, <2>7, OffsetGood DEF SameWindow
  <2> HIDE DEF g, b
  <2>9. Twice(g) <=> Twice(f)
    BY <2>5, <2>8 DEF Twice
  <2>10. Refused(g)
    BY <2>2, <2>4, <2>7, <2>8, <2>9 DEF Refused, Copied
  <2> QED
    BY <1>1, <2>4, <2>10
<1> QED
  BY <1>4, <1>5

-----------------------------------------------------------------------------
(* Callbacks, and the budget when it is asked. *)

LEMMA CheckFacts ==
    ASSUME NEW e \in Effects, Good(e), Limits
    PROVE  LET c == checkBudget(e, 0) IN
           \/ c = e /\ (budget > 0 => Buffered(e) <= budget)
           \/ c = Bail(e, "limit")
BY DEF checkBudget, Limits, Buffered, Effects

\* A callback leaves the region alone; asked to commit, it commits or the
\* stream is over.
LEMMA HookFacts ==
    ASSUME NEW e \in Effects, NEW cb \in Callbacks, Good(e), Limits
    PROVE  LET f == Hook(cb, e) IN
           /\ Good(f) /\ f.unfit = e.unfit
           /\ f.regT = e.regT /\ f.capBuf = e.capBuf
           /\ e.dead => f = e
           /\ ~f.dead => (f.committed <=> e.committed \/ cb = "commit")
<1>1. CASE cb = "nothing"
  BY <1>1 DEF Hook
<1>2. CASE cb = "bail"
  <2>1. Hook(cb, e) = Bail(e, "protocol")
    BY <1>2 DEF Hook
  <2>2. e.dead => Bail(e, "protocol") = e
    BY DEF Bail
  <2> QED
    BY <2>1, <2>2, BailGood
<1>3. CASE cb = "commit"
  <2> DEFINE c == checkBudget(e, 0)
             past == [e EXCEPT !.committed = TRUE]
  <2>1. Hook(cb, e) = IF e.committed \/ e.dead THEN e
                      ELSE IF c.dead THEN c ELSE [c EXCEPT !.committed = TRUE]
    BY <1>3 DEF Hook, Committing
  <2>2. CASE e.committed \/ e.dead
    BY <2>1, <2>2
  <2>3. CASE ~(e.committed \/ e.dead) /\ c.dead
    <3>1. c = Bail(e, "limit")
      BY <2>3, CheckFacts
    <3> QED
      BY <2>1, <2>3, <3>1, BailGood
  <2>4. CASE ~(e.committed \/ e.dead) /\ ~c.dead
    <3>0. c = e
      BY <2>4, CheckFacts, BailGood
    <3>1. Hook(cb, e) = past
      BY <2>1, <2>4, <3>0
    <3>2. /\ past \in Effects /\ past.committed /\ past.dead = e.dead
          /\ past.code = e.code /\ past.limitAt = e.limitAt
          /\ past.capBuf = e.capBuf /\ past.regT = e.regT
          /\ past.copies = e.copies /\ past.unfit = e.unfit
      BY DEF Effects
    <3> HIDE DEF past
    <3> QED
      BY <1>3, <2>4, <3>1, <3>2 DEF Good, CopyFits
  <2> QED
    BY <2>2, <2>3, <2>4
<1> QED
  BY <1>1, <1>2, <1>3 DEF Callbacks

-----------------------------------------------------------------------------
(* The steps. *)

LEMMA BecomesNow ==
    ASSUME NEW e \in Effects, Becomes(e)
    PROVE  Now' = e
BY DEF Becomes, Now, Effects

LEMMA NowFacts ==
    /\ Now.committed = committed /\ Now.dead = dead /\ Now.code = code
    /\ Now.offset = offset /\ Now.limitAt = limitAt /\ Now.buf = buf
    /\ Now.capBuf = capBuf /\ Now.regT = regT /\ Now.valOver = valOver
    /\ Now.unfit = unfit /\ Now.split = split /\ Now.copies = copies
    /\ Now.late = late
BY DEF Now

LEMMA InitInv == Init => IInv
<1> SUFFICES ASSUME Init PROVE IInv
  OBVIOUS
<1>1. 0 \in -1..MaxIn /\ -1 \in -1..MaxIn /\ 0 \in 0..MaxIn
  BY BudgetAssumption
<1>2. TypesOK
  BY <1>1, BudgetAssumption DEF Init, TypesOK
<1>3. PlaceOK
  BY DEF Init, PlaceOK
<1>4. Now \in Effects
  BY <1>1 DEF Init, Now, Effects, Codes
<1>5. CopyOK
  BY <1>4, NowFacts DEF Init, CopyOK, Good, CopyFits, Bounded, Copied
<1>6. HoldOK
  BY BudgetAssumption, NowFacts DEF Init, HoldOK, Buffered, Bounded, Copied
<1>7. WindowOK
  BY BudgetAssumption DEF Init, WindowOK
<1>8. UnfitOK
  BY DEF Init, UnfitOK
<1> QED
  BY <1>2, <1>3, <1>5, <1>6, <1>7, <1>8 DEF IInv

\* Between two regions there is no byte without room.
LEMMA NoneUnfit ==
    ASSUME IInv, ~dead, pc = "caller" \/ ~regOpen
    PROVE  unfit = -1
<1>1. CASE pc = "caller"
  BY <1>1 DEF IInv, UnfitOK
<1>2. CASE pc = "scan"
  <2>1. regT = "rtNone" /\ FirstUnfit(Now, i)
    BY <1>2 DEF IInv, PlaceOK, UnfitOK
  <2> QED
    BY <2>1, NowFacts DEF FirstUnfit, Bounded, Copied
<1> QED
  BY <1>1, <1>2 DEF IInv, TypesOK

\* A byte of the frame.
LEMMA FrameByteInv ==
    ASSUME IInv, NEW cb \in Callbacks, FrameByte(cb)
    PROVE  IInv'
<1> DEFINE e == Hook(cb, Now)
<1>1. /\ Good(Now) /\ Now \in Effects /\ Limits /\ ~regOpen /\ pc = "scan"
      /\ ~dead /\ i < len /\ regT = "rtNone" /\ unfit = -1
  BY NowFacts, NoneUnfit DEF FrameByte, Scanning, IInv, TypesOK, PlaceOK,
     CopyOK, Good, Limits
<1>2. /\ Good(e) /\ e \in Effects /\ e.regT = "rtNone" /\ e.capBuf = capBuf
      /\ ~e.dead => (e.committed <=> committed \/ cb = "commit")
      /\ e.unfit = -1
  BY <1>1, HookFacts, NowFacts DEF Good
<1> HIDE DEF e
<1>3. Becomes(e) /\ Now' = e
  BY <1>2, BecomesNow DEF FrameByte, e
<1>4. /\ committed' = e.committed /\ dead' = e.dead /\ capBuf' = e.capBuf
      /\ regT' = e.regT /\ unfit' = e.unfit
  BY <1>3 DEF Becomes
<1>5. /\ i' = i + 1 /\ pc' = pc /\ sink' = sink /\ budget' = budget
      /\ scanned' = scanned /\ scanBase' = scanBase /\ len' = len /\ rs' = rs
      /\ deferredBytes' = deferredBytes /\ regOpen' = regOpen /\ regCap' = regCap
      /\ regInner' = regInner /\ valEmit' = valEmit /\ start' = start
      /\ early' = (early \/ (cb = "commit" /\ ~committed))
  BY DEF FrameByte, chunkVars, regionVars, Early
<1>6. TypesOK'
  <2>1. i' \in 0..MaxIn /\ early' \in BOOLEAN
    BY <1>1, <1>5, BudgetAssumption DEF IInv, TypesOK
  <2> QED
    BY <1>5, <2>1 DEF IInv, TypesOK
<1>7. PlaceOK'
  BY <1>1, <1>2, <1>4, <1>5 DEF IInv, TypesOK, PlaceOK
<1>8. CopyOK'
  BY <1>2, <1>3, <1>4, <1>5 DEF CopyOK, Good, CopyFits, Bounded, Copied
<1>9. HoldOK'
  BY <1>1, <1>2, <1>4, <1>5 DEF IInv, HoldOK, Bounded, Copied
<1>10. WindowOK'
  BY <1>1, <1>2, <1>4, <1>5 DEF IInv, WindowOK
<1>11. UnfitOK'
  BY <1>1, <1>2, <1>3, <1>4, <1>5 DEF UnfitOK, FirstUnfit, Bounded
<1> QED
  BY <1>6, <1>7, <1>8, <1>9, <1>10, <1>11 DEF IInv

\* The first byte of a value: an action is chosen, the region opens.
LEMMA ValueStartInv ==
    ASSUME IInv, NEW cb \in Callbacks, NEW target \in Targets, NEW cap \in Caps,
           NEW emit \in BOOLEAN, NEW inner \in BOOLEAN,
           ValueStart(target, cap, emit, inner, cb)
    PROVE  IInv'
<1> DEFINE called == Hook(cb, Now)
           keyed  == IF Emits(target, emit) THEN Raw(called, KeyLen) ELSE called
           begun  == [keyed EXCEPT !.regT = target, !.capBuf = 0, !.valOver = FALSE]
           first  == scanBase + i + (IF inner THEN 1 ELSE 0)
           opened == IF inner THEN begun
                     ELSE Judged(begun, cap, first, first, first)
<1>1. /\ Good(Now) /\ Now \in Effects /\ Limits /\ ~regOpen /\ pc = "scan"
      /\ ~dead /\ i < len /\ regT = "rtNone" /\ unfit = -1
      /\ scanBase + len = scanned /\ rs = -1 /\ capBuf = 0
  <2>1. ~regOpen /\ pc = "scan" /\ ~dead /\ i < len
    BY DEF ValueStart, Scanning
  <2>2. regT = "rtNone" /\ scanBase + len = scanned /\ rs = -1
    BY <2>1 DEF IInv, PlaceOK, TypesOK
  <2> QED
    BY <2>1, <2>2, NowFacts, NoneUnfit
       DEF IInv, TypesOK, CopyOK, Good, CopyFits, Limits
<1>2. /\ Good(called) /\ called \in Effects
      /\ called.regT = "rtNone" /\ called.capBuf = 0 /\ called.unfit = -1
      /\ ~called.dead => (called.committed <=> committed \/ cb = "commit")
  BY <1>1, HookFacts, NowFacts DEF Good
<1>3. /\ pc' = pc /\ sink' = sink /\ budget' = budget
      /\ scanned' = scanned /\ scanBase' = scanBase /\ len' = len
      /\ deferredBytes' = deferredBytes
      /\ early' = (early \/ (cb = "commit" /\ ~committed))
      /\ inner => target # "rtDefer"
  BY DEF ValueStart, chunkVars, Early
<1>4. early' \in BOOLEAN
  BY <1>3 DEF IInv, TypesOK
<1>5. CASE called.dead
  <2> HIDE DEF called
  <2>1. /\ Becomes(called) /\ regOpen' = regOpen /\ regCap' = regCap
        /\ regInner' = regInner /\ valEmit' = valEmit /\ start' = start
        /\ rs' = rs /\ i' = i
    BY <1>5 DEF ValueStart, regionVars, called
  <2>2. Now' = called /\ dead' = called.dead /\ regT' = called.regT
        /\ unfit' = -1
    BY <1>2, <2>1, BecomesNow DEF Becomes
  <2>3. TypesOK'
    BY <1>3, <1>4, <2>1 DEF IInv, TypesOK
  <2>4. PlaceOK'
    BY <1>1, <1>3, <1>5, <2>1, <2>2 DEF IInv, PlaceOK
  <2>5. CopyOK'
    BY <1>2, <1>5, <2>1, <2>2 DEF CopyOK, Good, CopyFits
  <2>6. HoldOK' /\ WindowOK' /\ UnfitOK'
    BY <1>1, <1>5, <2>1, <2>2 DEF HoldOK, WindowOK, UnfitOK
  <2> QED
    BY <2>3, <2>4, <2>5, <2>6 DEF IInv
<1>6. CASE ~called.dead
  <2>1. KeyLen \in Nat /\ ValCap \in Nat /\ MaxIn \in Nat /\ cap \in Nat
        /\ target # "rtNone"
    BY BudgetAssumption
  <2>2. /\ Good(keyed) /\ keyed \in Effects /\ ~keyed.dead
        /\ keyed.committed = called.committed /\ keyed.unfit = -1
    <3>1. CASE Emits(target, emit)
      BY <1>2, <1>6, <2>1, <3>1, RawGood, SMTT(40) DEF Good, SameWindow
    <3>2. CASE ~Emits(target, emit)
      BY <1>2, <1>6, <3>2 DEF Good
    <3> QED
      BY <3>1, <3>2
  <2>3. /\ Becomes(opened) /\ regOpen' = TRUE /\ valEmit' = emit
        /\ regInner' = inner
        /\ regCap' = IF target = "rtValidate" THEN ValCap ELSE cap
        /\ start' = first /\ rs' = first - scanBase
        /\ i' = i + 1
    BY <1>6 DEF ValueStart
  <2> HIDE DEF keyed, called
  <2>4. /\ begun \in Effects /\ begun.regT = target /\ begun.capBuf = 0
        /\ begun.dead = keyed.dead /\ begun.code = keyed.code
        /\ begun.limitAt = keyed.limitAt /\ begun.copies = keyed.copies
        /\ begun.committed = keyed.committed /\ begun.unfit = -1
    BY <2>2 DEF Effects
  <2> HIDE DEF begun
  <2>5. /\ scanBase \in 0..MaxIn /\ i \in 0..MaxIn /\ scanned \in 0..MaxIn
        /\ len \in 0..MaxIn
    BY DEF IInv, TypesOK
  <2>6. /\ first \in 0..MaxIn /\ first <= scanned
        /\ rs' \in 0..i + 1 /\ rs' \in -1..MaxIn /\ i' \in 0..MaxIn
        /\ scanBase + rs' = first /\ first >= scanBase
        /\ inner => first = scanBase + i' - 1 + 1
        /\ ~inner => first = scanBase + i' - 1
    BY <1>1, <2>1, <2>3, <2>5
  <2> HIDE DEF first
  <2>7. /\ opened \in Effects /\ opened.regT = target /\ opened.capBuf = 0
        /\ opened.dead = keyed.dead /\ opened.code = keyed.code
        /\ opened.limitAt = keyed.limitAt /\ opened.copies = keyed.copies
        /\ opened.committed = keyed.committed /\ opened.buf = begun.buf
        /\ opened.unfit = IF ~inner /\ ~Fits(begun, cap, first, first, first)
                          THEN first ELSE -1
    <3>1. first \in -1..MaxIn
      BY <2>6
    <3>2. CASE ~inner /\ ~Fits(begun, cap, first, first, first)
      <4>1. opened = [begun EXCEPT !.unfit = first]
        BY <2>4, <3>2 DEF Judged
      <4> QED
        BY <2>4, <3>1, <3>2, <4>1 DEF Effects
    <3>3. CASE inner \/ Fits(begun, cap, first, first, first)
      <4>1. opened = [begun EXCEPT !.unfit = -1] \/ opened = begun
        BY <2>4, <3>3 DEF Judged
      <4>2. opened = begun
        BY <2>4, <4>1 DEF Effects
      <4> QED
        BY <2>4, <3>3, <4>2
    <3> QED
      BY <3>2, <3>3
  <2> HIDE DEF opened
  <2>8. /\ Now' = opened /\ dead' = opened.dead /\ regT' = opened.regT
        /\ capBuf' = opened.capBuf /\ committed' = opened.committed
        /\ unfit' = opened.unfit
    BY <2>3, <2>7, BecomesNow DEF Becomes
  <2>9. regCap' \in Nat /\ (target # "rtValidate" => regCap' = cap)
    BY <2>1, <2>3
  <2>10. TypesOK'
    BY <1>3, <1>4, <2>3, <2>6, <2>9 DEF IInv, TypesOK
  <2>11. PlaceOK'
    <3>1. RunStart' = first
      BY <1>3, <2>3, <2>5, <2>6 DEF RunStart
    <3>2. rs' <= i'
      BY <2>3, <2>5, <2>6
    <3> QED
      BY <1>1, <1>3, <2>1, <2>3, <2>5, <2>6, <2>7, <2>8, <3>1, <3>2 DEF PlaceOK
  <2>12. CopyOK'
    <3>1. (regT \in Copied => capBuf = Handed - start)'
      <4>1. Handed' = first
        BY <1>1, <1>3, <2>6 DEF Handed
      <4> QED
        BY <2>3, <2>6, <2>7, <2>8, <4>1
    <3>2. CopyFits(Now)'
      BY <2>7, <2>8, <2>9 DEF CopyFits
    <3>3. Good(Now)'
      BY <2>2, <2>7, <2>8, <3>2 DEF Good
    <3> QED
      BY <2>3, <2>7, <2>8, <3>1, <3>3 DEF CopyOK
  <2>13. HoldOK'
    BY <1>1, <1>3, <2>7, <2>8 DEF IInv, HoldOK
  <2>14. WindowOK'
    BY <1>1, <1>2, <1>3, <1>6, <2>2, <2>7, <2>8 DEF IInv, WindowOK
  <2>15. UnfitOK'
    <3> DEFINE lo == scanBase' + rs'
               hi == scanBase' + i' - 1
    <3>0. lo = first /\ first \in Int /\ hi \in Int /\ hi = scanBase + i
          /\ (inner => hi < first) /\ (~inner => hi = first)
      BY <1>3, <2>3, <2>5, <2>6
    <3> HIDE DEF lo, hi
    <3>1. \A b \in lo..hi : ~inner /\ b = first
      BY <3>0
    <3>2. ~inner => first \in lo..hi
      BY <3>0
    <3>3. ASSUME target \in Copied, NEW b
          PROVE  Fits(Now, regCap, start, scanBase + rs, b)'
                   <=> Fits(begun, cap, first, first, b)
      <4>1. regCap' = cap /\ start' = first /\ scanBase' + rs' = first
        BY <1>3, <2>3, <2>6, <2>9, <3>3 DEF Bounded, Copied
      <4> QED
        BY <1>3, <2>4, <2>7, <2>8, <4>1 DEF Fits, Asked, Kept
    <3>4. target \notin Copied => Fits(begun, cap, first, first, first)
      BY <2>4 DEF Fits, Asked, Bounded, Copied
    <3>5. first # -1
      BY <2>6
    <3>6. FirstUnfit(Now, i)'
      <4>1. CASE opened.unfit = -1
        <5>1. inner \/ Fits(begun, cap, first, first, first)
          BY <2>7, <3>5, <4>1
        <5>2. target \in Copied =>
                \A b \in lo..hi :
                   Fits(Now, regCap, start, scanBase + rs, b)'
          BY <3>1, <3>3, <5>1
        <5> QED
          BY <2>7, <2>8, <4>1, <5>2 DEF FirstUnfit, Copied, lo, hi
      <4>2. CASE opened.unfit # -1
        <5>1. opened.unfit = first /\ ~inner
              /\ ~Fits(begun, cap, first, first, first)
          BY <2>7, <4>2
        <5>2. \A b \in lo..hi : ~(first = -1 \/ b < first)
          BY <2>6, <3>1, <3>5
        <5>3. target \in Copied
          BY <3>4, <5>1
        <5>4. unfit' = first /\ Now'.unfit = first /\ Now'.regT = target
          BY <2>7, <2>8, <5>1
        <5>5. ~Fits(Now, regCap, start, scanBase + rs, unfit)'
          BY <3>3, <5>1, <5>3, <5>4
        <5>6. (Now.unfit = unfit)'
          BY <2>8
        <5> QED
          BY <3>2, <5>1, <5>2, <5>3, <5>4, <5>5, <5>6 DEF FirstUnfit, lo, hi
      <4> QED
        BY <4>1, <4>2
    <3> QED
      BY <1>1, <1>3, <2>2, <2>7, <2>8, <3>6 DEF UnfitOK
  <2> QED
    BY <2>10, <2>11, <2>12, <2>13, <2>14, <2>15 DEF IInv
<1> QED
  BY <1>5, <1>6

\* e is the present but for what unfit records.
AsNow(e) ==
    /\ e \in Effects /\ Good(e) /\ ~e.dead
    /\ e.regT = regT /\ e.capBuf = capBuf /\ e.committed = committed
    /\ e.buf = buf

LEMMA NowIsNow ==
    ASSUME IInv, pc = "scan", ~dead
    PROVE  AsNow(Now) /\ FirstUnfit(Now, i)
BY NowFacts DEF IInv, CopyOK, Good, UnfitOK, AsNow

\* The next byte is judged.
LEMMA SeenIsFirst ==
    ASSUME IInv, pc = "scan", ~dead, regOpen, i < len
    PROVE  AsNow(Seen) /\ FirstUnfit(Seen, i + 1)
<1> DEFINE b0 == scanBase + i
           r0 == scanBase + rs
           fit(b) == Fits(Now, regCap, start, r0, b)
<1>1. /\ scanBase \in 0..MaxIn /\ i \in 0..MaxIn /\ rs \in 0..i
      /\ unfit \in -1..MaxIn /\ MaxIn \in Nat /\ b0 \in -1..MaxIn
      /\ AsNow(Now) /\ FirstUnfit(Now, i)
  BY BudgetAssumption, NowIsNow, NowFacts
     DEF IInv, TypesOK, PlaceOK, CopyOK, Good, Effects
<1>2. /\ Seen \in Effects /\ Seen.dead = dead /\ Seen.code = code
      /\ Seen.limitAt = limitAt /\ Seen.capBuf = capBuf /\ Seen.regT = regT
      /\ Seen.committed = committed /\ Seen.copies = copies /\ Seen.buf = buf
      /\ Seen.unfit = IF unfit = -1 /\ ~fit(b0) THEN b0 ELSE unfit
  <2>1. Now \in Effects
    BY <1>1 DEF AsNow
  <2>2. Seen = [Now EXCEPT !.unfit = IF unfit = -1 /\ ~fit(b0) THEN b0
                                     ELSE unfit]
    BY <2>1, NowFacts DEF Seen, Judged, Effects
  <2> DEFINE u == IF unfit = -1 /\ ~fit(b0) THEN b0 ELSE unfit
  <2>3. u \in -1..MaxIn
    BY <1>1
  <2> HIDE DEF u
  <2>4. Seen = [Now EXCEPT !.unfit = u]
    BY <2>2 DEF u
  <2>5. /\ Seen \in Effects /\ Seen.dead = Now.dead /\ Seen.code = Now.code
        /\ Seen.limitAt = Now.limitAt /\ Seen.capBuf = Now.capBuf
        /\ Seen.regT = Now.regT /\ Seen.committed = Now.committed
        /\ Seen.copies = Now.copies /\ Seen.buf = Now.buf /\ Seen.unfit = u
    BY <2>1, <2>3, <2>4 DEF Effects
  <2> QED
    BY <2>5, NowFacts DEF u
<1>3. AsNow(Seen)
  BY <1>1, <1>2, NowFacts DEF AsNow, Good, CopyFits
<1>4. \A b : Fits(Seen, regCap, start, r0, b) <=> fit(b)
  BY <1>2, NowFacts DEF Fits, Asked, Kept
<1>5. /\ unfit # -1 => /\ regT \in Copied /\ unfit \in r0..(b0 - 1)
                       /\ ~fit(unfit)
      /\ regT \in Bounded => \A b \in r0..(b0 - 1) :
                                unfit = -1 \/ b < unfit => fit(b)
  BY <1>1, NowFacts DEF FirstUnfit
<1>6. r0 \in Int /\ b0 \in Int /\ r0 <= b0 /\ scanBase + (i + 1) - 1 = b0
  BY <1>1
<1>7. ~fit(b0) => regT \in Copied
  BY NowFacts DEF Fits, Asked, Bounded, Copied
<1> HIDE DEF fit, r0, b0
<1>8. /\ Seen.unfit # -1 => /\ regT \in Copied /\ Seen.unfit \in r0..b0
                            /\ ~fit(Seen.unfit)
      /\ regT \in Bounded => \A b \in r0..b0 :
                                Seen.unfit = -1 \/ b < Seen.unfit => fit(b)
  <2>1. CASE unfit = -1 /\ ~fit(b0)
    <3>1. Seen.unfit = b0
      BY <1>2, <2>1
    <3>2. \A b \in r0..b0 : b < b0 => b \in r0..(b0 - 1)
      BY <1>6
    <3> QED
      BY <1>1, <1>5, <1>6, <1>7, <2>1, <3>1, <3>2
  <2>2. CASE unfit = -1 /\ fit(b0)
    <3>1. Seen.unfit = -1
      BY <1>2, <2>2
    <3>2. \A b \in r0..b0 : b = b0 \/ b \in r0..(b0 - 1)
      BY <1>6
    <3> QED
      BY <1>5, <2>2, <3>1, <3>2
  <2>3. CASE unfit # -1
    <3>1. Seen.unfit = unfit
      BY <1>2, <2>3
    <3>2. unfit \in r0..(b0 - 1) /\ ~fit(unfit) /\ regT \in Copied
      BY <1>5, <2>3
    <3>3. \A b \in r0..b0 : b < unfit => b \in r0..(b0 - 1)
      BY <1>6, <3>2
    <3>4. unfit \in r0..b0
      BY <1>6, <3>2
    <3> QED
      BY <1>5, <2>3, <3>1, <3>2, <3>3, <3>4
  <2> QED
    BY <2>1, <2>2, <2>3
<1> QED
  BY <1>2, <1>3, <1>4, <1>6, <1>8 DEF FirstUnfit, r0

\* A byte inside the region.
LEMMA RegionByteInv ==
    ASSUME IInv, RegionByte
    PROVE  IInv'
<1>1. /\ regOpen /\ pc = "scan" /\ ~dead /\ i < len /\ i' = i + 1
      /\ Becomes(Seen)
      /\ pc' = pc /\ sink' = sink /\ budget' = budget
      /\ scanned' = scanned /\ scanBase' = scanBase /\ len' = len /\ rs' = rs
      /\ deferredBytes' = deferredBytes /\ regOpen' = regOpen /\ regCap' = regCap
      /\ regInner' = regInner /\ valEmit' = valEmit /\ start' = start
      /\ early' = early
  BY DEF RegionByte, Scanning, chunkVars, regionVars
<1>2. AsNow(Seen) /\ FirstUnfit(Seen, i + 1)
  BY <1>1, SeenIsFirst
<1>3. /\ Now' = Seen /\ committed' = committed /\ ~dead' /\ regT' = regT
      /\ capBuf' = capBuf
  <2>1. Now' = Seen
    BY <1>1, <1>2, BecomesNow DEF AsNow
  <2> QED
    BY <1>1, <1>2, <2>1 DEF AsNow, Becomes
<1>4. /\ scanBase \in 0..MaxIn /\ i \in 0..MaxIn /\ scanned \in 0..MaxIn
      /\ len \in 0..MaxIn /\ scanBase + len = scanned /\ rs \in 0..i
      /\ MaxIn \in Nat
  BY <1>1, BudgetAssumption DEF IInv, TypesOK, PlaceOK
<1>5. TypesOK'
  <2>1. i' \in 0..MaxIn
    BY <1>1, <1>4
  <2> QED
    BY <1>1, <2>1 DEF IInv, TypesOK
<1>6. PlaceOK'
  BY <1>1, <1>3, <1>4 DEF IInv, PlaceOK, RunStart
<1>7. CopyOK'
  <2>1. Good(Now)'
    BY <1>1, <1>2, <1>3 DEF AsNow, Good, CopyFits
  <2>2. Handed' = Handed
    BY <1>1 DEF Handed
  <2> QED
    BY <1>1, <1>3, <2>1, <2>2 DEF IInv, CopyOK
<1>8. HoldOK'
  BY <1>1, <1>3 DEF IInv, HoldOK
<1>9. WindowOK'
  BY <1>1, <1>3 DEF IInv, WindowOK
<1>10. UnfitOK'
  <2>1. \A b : Fits(Now, regCap, start, scanBase + rs, b)'
                 <=> Fits(Seen, regCap, start, scanBase + rs, b)
    BY <1>1, <1>3 DEF Fits, Asked, Kept
  <2>2. FirstUnfit(Now, i)'
    BY <1>1, <1>2, <1>3, <2>1 DEF FirstUnfit
  <2> QED
    BY <1>1, <1>3, <2>2 DEF UnfitOK
<1> QED
  BY <1>5, <1>6, <1>7, <1>8, <1>9, <1>10 DEF IInv

\* The open region's bytes up to end go to its target.
LEMMA FlushStep ==
    ASSUME IInv, pc = "scan", ~dead, regOpen,
           NEW e, AsNow(e), NEW end \in Nat, i <= end, end <= len,
           FirstUnfit(e, end), NEW answer \in PrefixAnswers
    PROVE  LET f == flush(e, end, answer) IN
           /\ Flushed(e, f, end)
           /\ f.unfit # -1 => Refused(f)
           /\ ~f.dead /\ f.regT \in Copied => f.capBuf = scanBase + end - start
<1>1. /\ Good(e) /\ e \in Effects /\ ~e.dead /\ Limits /\ scanBase \in Nat
      /\ start \in Nat /\ sink \in BOOLEAN /\ rs \in Nat /\ rs <= i /\ i \in Nat
      /\ rs <= end /\ end <= len /\ scanBase + len = scanned /\ scanned <= MaxIn
      /\ len \in Nat /\ scanned \in Nat /\ scanBase + rs = RunStart
  BY DEF IInv, TypesOK, PlaceOK, AsNow, Limits
<1>2. scanBase + end <= scanned /\ scanBase + end <= MaxIn /\ MaxIn \in Nat
  BY <1>1, BudgetAssumption
<1>3. e.regT \in Copied => e.capBuf = scanBase + rs - start
  <2>1. Handed = scanBase + rs
    BY DEF Handed
  <2> QED
    BY <1>1, <2>1 DEF IInv, CopyOK, AsNow
<1>4. Flushed(e, flush(e, end, answer), end)
  <2>1. e.regT = "rtPrefix" => e.regT \in Copied
    BY DEF Copied
  <2>2. Windowed(e, scanBase + rs)
    BY <1>1, <1>3, <2>1 DEF Windowed
  <2> QED
    BY <1>1, <1>2, <2>2, FlushFacts
<1>5. LET f == flush(e, end, answer) IN f.unfit # -1 => Refused(f)
  <2>1. CASE rs < end
    BY <1>1, <1>2, <1>3, <2>1, FlushRefuses
  <2>2. CASE ~(rs < end)
    <3>1. e.unfit = -1
      BY <1>1, <2>2 DEF FirstUnfit
    <3> QED
      BY <1>4, <3>1 DEF Flushed
  <2> QED
    BY <2>1, <2>2
<1>6. ASSUME NEW f, Flushed(e, f, end), ~f.dead, f.regT \in Copied
      PROVE  f.capBuf = scanBase + end - start
  <2>1. e.regT \in Copied
    BY <1>6 DEF Flushed, Bounded, Copied
  <2>2. \/ f.capBuf = e.capBuf /\ (rs < 0 \/ end <= rs)
        \/ f.capBuf = e.capBuf + (end - rs)
    BY <1>6 DEF Flushed
  <2> QED
    BY <1>1, <1>3, <2>1, <2>2
<1> QED
  BY <1>4, <1>5, <1>6

\* The region ends: its hook is given a whole copy.
EndedFacts(f, done, cb) ==
    /\ Good(done)
    /\ f.dead => done = f
    /\ ~f.dead /\ f.unfit = -1 => done.unfit = -1
    /\ f.committed => done.committed
    /\ ~done.dead => /\ f.regT \in {"rtCapture", "rtObserve"} /\ cb = "commit"
                           => done.committed
                     /\ done.committed => f.committed \/ cb = "commit"
                     /\ done.regT = "rtDefer" => done.capBuf = f.capBuf
                                              /\ f.regT = "rtDefer"

LEMMA EndedStep ==
    ASSUME NEW f \in Effects, NEW end \in Nat,
           NEW answer \in PrefixAnswers, NEW cb \in Callbacks, Limits, Good(f),
           ~f.dead /\ f.regT \in Copied => f.capBuf = scanBase + end - start
    PROVE  EndedFacts(f, endRegion(f, end, answer, cb), cb)
<1> DEFINE whole == f.capBuf = scanBase + end - start
           given == [f EXCEPT !.copies = @ /\ whole]
           done  == endRegion(f, end, answer, cb)
<1>1. done = IF f.dead THEN f
             ELSE CASE f.regT \in {"rtCapture", "rtObserve"} -> Hook(cb, given)
                    [] f.regT = "rtDefer"  -> given
                    [] f.regT = "rtPrefix" -> runPrefix(f, whole, answer)
                    [] OTHER -> f
  BY DEF endRegion
<1>2. CASE f.dead \/ f.regT \notin Copied
  <2>1. done = f
    BY <1>1, <1>2 DEF Bounded, Copied
  <2> QED
    BY <1>2, <2>1 DEF EndedFacts, Bounded, Copied
<1>3. CASE ~f.dead /\ f.regT \in Copied
  <2>1. whole = TRUE
    BY <1>3
  <2>2. given = f
    BY <2>1 DEF Good, Effects
  <2> HIDE DEF given, done, whole
  <2>3. ASSUME f.regT \in {"rtCapture", "rtObserve"}
        PROVE  EndedFacts(f, done, cb)
    <3>1. done = Hook(cb, f)
      BY <1>1, <1>3, <2>2, <2>3
    <3>2. /\ Good(done) /\ done.regT = f.regT /\ done.unfit = f.unfit
          /\ ~done.dead => (done.committed <=> f.committed \/ cb = "commit")
      BY <3>1, HookFacts
    <3>3. f.committed => done.committed
      BY <1>3, <3>1, BailGood DEF Hook, Committing, SameWindow, Callbacks
    <3> QED
      BY <1>3, <2>3, <3>2, <3>3 DEF EndedFacts
  <2>4. ASSUME f.regT = "rtDefer"
        PROVE  EndedFacts(f, done, cb)
    <3>1. done = f
      BY <1>1, <1>3, <2>2, <2>4
    <3> QED
      BY <1>3, <2>4, <3>1 DEF EndedFacts
  <2>5. ASSUME f.regT = "rtPrefix"
        PROVE  EndedFacts(f, done, cb)
    <3>1. done = runPrefix(f, TRUE, answer)
      BY <1>1, <1>3, <2>1, <2>5
    <3>2. /\ Good(done) /\ SameWindow(f, done) /\ done.unfit = -1
          /\ done.dead \/ done.regT \in {"rtOut", "rtSkip"}
      BY <1>3, <3>1, PrefixTurned
    <3> QED
      BY <1>3, <2>5, <3>2 DEF EndedFacts, SameWindow
  <2> QED
    BY <1>3, <2>3, <2>4, <2>5 DEF Bounded, Copied, done
<1> QED
  BY <1>2, <1>3

LEMMA RegionEndInv ==
    ASSUME IInv, NEW answer \in PrefixAnswers, NEW cb \in Callbacks,
           RegionEnd(answer, cb)
    PROVE  IInv'
<1> DEFINE end  == IF regInner THEN i ELSE i + 1
           at   == IF regInner THEN Now ELSE Seen
           f    == flush(at, end, answer)
           done == endRegion(f, end, answer, cb)
           shut == [done EXCEPT !.capBuf = 0, !.regT = "rtNone"]
           e    == IF done.dead THEN done ELSE shut
<1>1. /\ regOpen /\ pc = "scan" /\ ~dead /\ i < len /\ i' = i + 1
      /\ cb # "nothing" => regT \in {"rtCapture", "rtObserve"}
      /\ Becomes(e)
      /\ deferredBytes' = IF ~done.dead /\ done.regT = "rtDefer"
                          THEN deferredBytes + KeyLen + done.capBuf
                          ELSE deferredBytes
      /\ regOpen' = done.dead /\ rs' = -1
      /\ pc' = pc /\ sink' = sink /\ budget' = budget
      /\ scanned' = scanned /\ scanBase' = scanBase /\ len' = len
      /\ regInner' = regInner /\ regCap' = regCap /\ valEmit' = valEmit
      /\ start' = start
      /\ early' = (early \/ (cb = "commit" /\ ~committed))
  BY DEF RegionEnd, Scanning, chunkVars, Early
<1>2. early' \in BOOLEAN
  BY <1>1 DEF IInv, TypesOK
<1>3. /\ scanBase \in 0..MaxIn /\ i \in 0..MaxIn /\ scanned \in 0..MaxIn
      /\ len \in 0..MaxIn /\ scanBase + len = scanned /\ rs \in 0..i
      /\ MaxIn \in Nat /\ Limits
      /\ KeyLen \in Nat \ {0} /\ CommitBytes \in Nat
  BY <1>1, BudgetAssumption DEF IInv, TypesOK, PlaceOK, Limits
<1>4. end \in Nat /\ i <= end /\ end <= len /\ scanBase + end <= scanned
      /\ (regT = "rtDefer" => end = i + 1)
  BY <1>1, <1>3 DEF IInv, PlaceOK
<1>5. AsNow(at) /\ FirstUnfit(at, end)
  BY <1>1, NowIsNow, SeenIsFirst
<1>6. at.regT = regT /\ at.committed = committed /\ at.capBuf = capBuf
  BY <1>5 DEF AsNow
<1> HIDE DEF end, at
<1>8. /\ Flushed(at, f, end)
      /\ f.unfit # -1 => Refused(f)
      /\ ~f.dead /\ f.regT \in Copied => f.capBuf = scanBase + end - start
  BY <1>1, <1>4, <1>5, FlushStep
<1>9. Good(f) /\ f \in Effects
  BY <1>8 DEF Flushed, Good
<1> HIDE DEF f
<1>10. EndedFacts(f, done, cb)
  BY <1>3, <1>4, <1>8, <1>9, EndedStep
<1> HIDE DEF done
<1>11. Good(done) /\ done \in Effects
  BY <1>10 DEF EndedFacts, Good
<1>12. /\ e \in Effects /\ Good(e) /\ e.dead = done.dead
       /\ e.committed = done.committed
       /\ e.dead => e = done
       /\ ~e.dead => e.regT = "rtNone" /\ e.capBuf = 0
  <2>1. /\ shut \in Effects /\ shut.regT = "rtNone" /\ shut.capBuf = 0
        /\ shut.dead = done.dead /\ shut.code = done.code
        /\ shut.limitAt = done.limitAt /\ shut.copies = done.copies
        /\ shut.committed = done.committed
    BY <1>11 DEF Effects
  <2> HIDE DEF shut
  <2>2. Good(shut)
    BY <1>11, <2>1 DEF Good, CopyFits, Bounded
  <2> QED
    BY <1>11, <2>1, <2>2
<1> HIDE DEF e
<1>13. /\ Now' = e /\ dead' = e.dead /\ regT' = e.regT /\ capBuf' = e.capBuf
       /\ committed' = e.committed
  BY <1>1, <1>12, BecomesNow DEF Becomes
<1>14. TypesOK'
  <2>1. i' \in 0..MaxIn /\ rs' \in -1..MaxIn
    BY <1>1, <1>3
  <2>2. deferredBytes' \in Nat
    <3>1. deferredBytes \in Nat /\ done.capBuf \in Nat
      BY <1>3, <1>11 DEF Limits, Effects
    <3> QED
      BY <1>1, <1>3, <3>1
  <2>3. regOpen' \in BOOLEAN
    BY <1>1, <1>11 DEF Effects
  <2> QED
    BY <1>1, <1>6, <1>2, <2>1, <2>2, <2>3 DEF IInv, TypesOK
<1>15. PlaceOK'
  BY <1>1, <1>3, <1>12, <1>13 DEF IInv, PlaceOK
<1>16. CopyOK'
  BY <1>1, <1>12, <1>13 DEF CopyOK, Good, CopyFits, Bounded, Copied
<1>17. HoldOK'
  <2>1. ASSUME budget > 0, ~done.dead
        PROVE  deferredBytes' <= budget + (IF deferredBytes' > 0 THEN KeyLen ELSE 0)
    <3>1. CASE done.regT = "rtDefer"
      <4>1. /\ f.regT = "rtDefer" /\ done.capBuf = f.capBuf /\ ~f.dead
        BY <1>10, <2>1, <3>1 DEF EndedFacts
      <4>2. regT = "rtDefer"
        BY <1>6, <1>8, <4>1 DEF Flushed
      <4>3. rs < end /\ rs >= 0
        BY <1>3, <1>4, <4>2
      <4>4. f.capBuf + deferredBytes <= budget
        BY <1>3, <1>4, <1>8, <2>1, <4>1, <4>3 DEF Flushed, Copied, Bounded
      <4>5. f.capBuf \in Nat /\ deferredBytes \in Nat /\ budget \in Nat
        BY <1>3, <1>9 DEF Effects, Limits
      <4>6. deferredBytes' = deferredBytes + KeyLen + f.capBuf
        BY <1>1, <2>1, <3>1, <4>1
      <4> QED
        BY <1>3, <4>4, <4>5, <4>6
    <3>2. CASE done.regT # "rtDefer"
      BY <1>1, <2>1, <3>2 DEF IInv, HoldOK
    <3> QED
      BY <3>1, <3>2
  <2> QED
    BY <1>1, <1>12, <1>13, <2>1 DEF HoldOK, Copied, Bounded
<1>18. WindowOK'
  <2>1. ASSUME ~done.dead
        PROVE  /\ early' => done.committed
               /\ done.committed => early' \/ scanned >= CommitBytes
    <3>1. ~f.dead
      BY <1>10, <2>1 DEF EndedFacts
    <3>2. /\ early => committed
          /\ committed => early \/ scanned >= CommitBytes
      BY <1>1 DEF IInv, WindowOK
    <3>3. /\ committed => f.committed
          /\ f.committed => committed \/ scanned >= CommitBytes
      BY <1>3, <1>4, <1>6, <1>8 DEF Flushed
    <3>4. cb = "commit" => f.regT \in {"rtCapture", "rtObserve"}
      BY <1>1, <1>6, <1>8 DEF Flushed
    <3> QED
      BY <1>1, <1>10, <2>1, <3>2, <3>3, <3>4 DEF EndedFacts
  <2> QED
    BY <1>1, <1>12, <1>13, <2>1 DEF WindowOK
<1>19. UnfitOK'
  <2>1. unfit' = e.unfit
    BY <1>1 DEF Becomes
  <2>2. CASE done.dead
    <3>1. done.unfit # -1 => Refused(done)
      BY <1>8, <1>10 DEF EndedFacts, Refused
    <3>2. Now' = done /\ dead' /\ unfit' = done.unfit
      BY <1>12, <1>13, <2>1, <2>2
    <3>3. Refused(done) => Refused(Now)'
      BY <1>1, <3>2 DEF Refused, OneLimit, Twice, RunStart
    <3> QED
      BY <3>1, <3>2, <3>3 DEF UnfitOK
  <2>3. CASE ~done.dead
    <3>1. done.unfit = -1
      BY <1>8, <1>10, <2>3 DEF EndedFacts, Refused
    <3>2. e.unfit = -1
      BY <1>11, <2>3, <3>1 DEF Effects, e
    <3>3. Now'.unfit = -1 /\ Now'.regT = "rtNone" /\ ~dead'
      BY <1>12, <1>13, <2>3, <3>2
    <3> QED
      BY <2>1, <3>2, <3>3 DEF UnfitOK, FirstUnfit, Bounded
  <2> QED
    BY <2>2, <2>3
<1> QED
  BY <1>14, <1>15, <1>16, <1>17, <1>18, <1>19 DEF IInv

\* The call returns.
LEMMA WriteReturnsInv ==
    ASSUME IInv, NEW answer \in PrefixAnswers, WriteReturns(answer)
    PROVE  IInv'
<1> DEFINE left   == IF regOpen /\ ~dead THEN flush(Now, len, answer) ELSE Now
           placed == IF left.dead THEN fixOffset(left, scanBase + i) ELSE left
           asked  == checkBudget(placed, 0)
           gated  == [asked EXCEPT !.committed = Gate(asked)]
           e      == IF placed.dead \/ placed.committed THEN placed
                     ELSE IF asked.dead THEN asked ELSE gated
<1>1. /\ pc = "scan" /\ ~(i < len /\ ~dead) /\ Becomes(e)
      /\ pc' = "caller" /\ rs' = -1 /\ i' = 0 /\ len' = 0
      /\ sink' = sink /\ budget' = budget /\ scanned' = scanned
      /\ scanBase' = scanBase /\ deferredBytes' = deferredBytes
      /\ regOpen' = regOpen /\ regInner' = regInner /\ regCap' = regCap
      /\ valEmit' = valEmit /\ start' = start /\ early' = early
  BY DEF WriteReturns, Scanning, regionVars
<1>2. /\ scanBase \in 0..MaxIn /\ i \in 0..MaxIn /\ scanned \in 0..MaxIn
      /\ len \in 0..MaxIn /\ scanBase + len = scanned /\ i <= len
      /\ MaxIn \in Nat /\ Limits
      /\ CommitBytes \in Nat /\ ValCap \in Nat
      /\ Good(Now) /\ Now \in Effects
  BY <1>1, BudgetAssumption
     DEF IInv, TypesOK, PlaceOK, Limits, CopyOK, Good
<1>3. ~dead => i = len
  BY <1>1, <1>2
<1>4. /\ Good(left)
      /\ left.unfit # -1 => left.dead /\ Refused(left)
      /\ ~left.dead =>
            /\ ~dead
            /\ left.regT # "rtNone" <=> regT # "rtNone"
            /\ left.regT = "rtValidate" <=> regT = "rtValidate"
            /\ left.regT = "rtDefer" <=> regT = "rtDefer"
            /\ committed => left.committed
            /\ left.committed => committed \/ scanned >= CommitBytes
            /\ left.regT \in Copied => left.capBuf = scanned - start
            /\ budget > 0 /\ left.regT \in Copied /\ left.capBuf > 0
                 => left.capBuf + deferredBytes <= budget
  <2>1. CASE dead
    <3>1. left = Now
      BY <2>1
    <3> QED
      BY <1>2, <2>1, <3>1, NowFacts DEF IInv, UnfitOK
  <2>2. CASE ~dead /\ ~regOpen
    <3>1. left = Now /\ regT = "rtNone"
      BY <2>2 DEF IInv, PlaceOK
    <3>2. unfit = -1
      BY <2>2, NoneUnfit
    <3> QED
      BY <1>2, <2>2, <3>1, <3>2, NowFacts DEF Bounded, Copied
  <2>3. CASE ~dead /\ regOpen
    <3>1. left = flush(Now, len, answer)
      BY <2>3
    <3> HIDE DEF left
    <3>2. AsNow(Now) /\ FirstUnfit(Now, len)
      BY <1>1, <1>3, <2>3, NowIsNow
    <3>3. /\ Flushed(Now, left, len)
          /\ left.unfit # -1 => Refused(left)
          /\ ~left.dead /\ left.regT \in Copied
               => left.capBuf = scanBase + len - start
      BY <1>1, <1>2, <1>3, <2>3, <3>1, <3>2, FlushStep
    <3>4. left.unfit # -1 => left.dead
      BY <3>3 DEF Refused
    <3>5. /\ left.regT # "rtNone" <=> regT # "rtNone"
          /\ left.regT = "rtValidate" <=> regT = "rtValidate"
          /\ left.regT = "rtDefer" <=> regT = "rtDefer"
      BY <3>3, NowFacts DEF Flushed
    <3>6. /\ committed => left.committed
          /\ left.committed => committed \/ scanned >= CommitBytes
      BY <1>2, <3>3, NowFacts DEF Flushed
    <3>7. ASSUME budget > 0, ~left.dead, left.regT \in Copied, left.capBuf > 0
          PROVE  left.capBuf + deferredBytes <= budget
      <4>1. regT \in Copied
        BY <3>3, <3>7, NowFacts DEF Flushed, Bounded, Copied
      <4>2. CASE left.capBuf = capBuf
        BY <2>3, <3>7, <4>1, <4>2 DEF IInv, HoldOK
      <4>3. CASE left.capBuf # capBuf
        BY <3>3, <3>7, <4>3, NowFacts DEF Flushed
      <4> QED
        BY <4>2, <4>3
    <3>8. Good(left)
      BY <3>3 DEF Flushed
    <3>9. start \in Nat /\ scanBase + len - start = scanned - start
      BY <1>2 DEF IInv, TypesOK
    <3>10. ~left.dead /\ left.regT \in Copied => left.capBuf = scanned - start
      BY <3>3, <3>9
    <3> QED
      BY <2>3, <3>3, <3>4, <3>5, <3>6, <3>7, <3>8, <3>10
  <2> QED
    BY <2>1, <2>2, <2>3
<1>5. left \in Effects
  BY <1>4 DEF Good
<1> HIDE DEF left
<1>6. /\ Good(placed) /\ placed \in Effects /\ placed.dead = left.dead
      /\ ~left.dead => placed = left
      /\ placed.unfit # -1 => Refused(placed)
  <2>1. CASE ~left.dead
    BY <1>4, <1>5, <2>1
  <2>2. CASE left.dead
    <3>1. scanBase + i \in -1..MaxIn
      BY <1>2
    <3>2. placed = fixOffset(left, scanBase + i)
      BY <2>2
    <3> HIDE DEF placed
    <3>3. /\ Good(placed) /\ placed.dead = left.dead /\ placed.code = left.code
          /\ placed.regT = left.regT /\ placed.unfit = left.unfit
          /\ placed.split = left.split /\ placed.committed = left.committed
          /\ left.offset >= 0 => placed.offset = left.offset
      BY <1>4, <1>5, <2>2, <3>1, <3>2, OffsetGood DEF SameWindow
    <3>4. Refused(left) => placed.offset = left.offset
      <4>1. RunStart \in Nat /\ scanned \in Nat
        BY <1>2 DEF IInv, TypesOK, RunStart
      <4> QED
        BY <3>3, <4>1 DEF Refused
    <3>5. Refused(left) => Refused(placed)
      BY <3>3, <3>4 DEF Refused, Twice
    <3> QED
      BY <1>4, <2>2, <3>3, <3>5 DEF Good
  <2> QED
    BY <2>1, <2>2
<1> HIDE DEF placed
<1>7. \/ asked = placed /\ (budget > 0 => Buffered(placed) <= budget)
      \/ asked = Bail(placed, "limit")
  BY <1>2, <1>6, CheckFacts
<1>8. /\ Good(e) /\ e \in Effects
      /\ left.dead => e = placed
      /\ ~left.dead => e.unfit = -1
      /\ ~e.dead => /\ ~left.dead /\ e.regT = left.regT /\ e.capBuf = left.capBuf
                    /\ e.committed <=> left.committed \/ scanned >= CommitBytes
                    /\ ~e.committed /\ budget > 0 => Buffered(e) <= budget
  <2>1. CASE placed.dead
    BY <1>6, <2>1
  <2>2. CASE ~placed.dead /\ placed.committed
    BY <1>4, <1>6, <2>2
  <2>3. CASE ~placed.dead /\ ~placed.committed /\ asked.dead
    <3>1. asked = Bail(placed, "limit")
      BY <1>7, <2>3
    <3>2. e = asked /\ Good(asked) /\ asked.unfit = placed.unfit
      BY <1>6, <2>3, <3>1, BailGood
    <3> QED
      BY <1>4, <1>6, <2>3, <3>2 DEF Good
  <2>4. CASE ~placed.dead /\ ~placed.committed /\ ~asked.dead
    <3>1. asked = placed /\ (budget > 0 => Buffered(placed) <= budget)
      BY <1>6, <1>7, <2>4, BailGood
    <3>2. e = gated
      BY <2>4
    <3>3. placed = left
      BY <1>6, <2>4
    <3> HIDE DEF asked
    <3>4. Gate(asked) \in BOOLEAN /\ (Gate(asked) <=> scanned >= CommitBytes)
      BY DEF Gate
    <3>5. /\ gated \in Effects /\ gated.committed = Gate(asked)
          /\ gated.dead = left.dead /\ gated.code = left.code
          /\ gated.limitAt = left.limitAt /\ gated.copies = left.copies
          /\ gated.capBuf = left.capBuf /\ gated.regT = left.regT
          /\ gated.buf = left.buf /\ gated.unfit = left.unfit
      BY <1>5, <3>1, <3>3, <3>4 DEF Effects
    <3> HIDE DEF gated
    <3>6. Good(gated)
      BY <1>4, <3>5 DEF Good, CopyFits
    <3>7. ~gated.committed => Buffered(gated) = Buffered(left)
      BY <2>4, <3>3, <3>5 DEF Buffered
    <3> HIDE DEF e
    <3> QED
      BY <1>4, <1>6, <2>4, <3>1, <3>2, <3>3, <3>4, <3>5, <3>6, <3>7
  <2> QED
    BY <2>1, <2>2, <2>3, <2>4
<1> HIDE DEF e
<1>9. /\ Now' = e /\ dead' = e.dead /\ regT' = e.regT /\ capBuf' = e.capBuf
      /\ committed' = e.committed /\ buf' = e.buf
  BY <1>1, <1>8, BecomesNow DEF Becomes
<1>10. TypesOK'
  <2>1. 0 \in 0..MaxIn /\ -1 \in -1..MaxIn
    BY <1>2
  <2> QED
    BY <1>1, <2>1 DEF IInv, TypesOK
<1>11. PlaceOK'
  BY <1>1, <1>4, <1>8, <1>9 DEF IInv, PlaceOK
<1>12. CopyOK'
  <2>1. Good(Now)'
    BY <1>1, <1>8, <1>9 DEF Good, CopyFits
  <2>2. Handed' = scanned
    BY <1>1 DEF Handed
  <2>3. ~dead' => (regT' = "rtValidate" => regCap' = ValCap)
    BY <1>1, <1>4, <1>8, <1>9 DEF IInv, CopyOK
  <2> QED
    BY <1>1, <1>4, <1>8, <1>9, <2>1, <2>2, <2>3 DEF CopyOK
<1>13. HoldOK'
  <2>1. (Buffered(Now) <= budget)' <=> Buffered(e) <= budget
    BY <1>1, <1>9 DEF Buffered
  <2> QED
    BY <1>1, <1>4, <1>8, <1>9, <2>1 DEF IInv, HoldOK
<1>14. WindowOK'
  BY <1>1, <1>4, <1>8, <1>9 DEF IInv, WindowOK
<1>15. UnfitOK'
  <2>1. unfit' = e.unfit
    BY <1>1 DEF Becomes
  <2>2. e.unfit # -1 => e.dead /\ Refused(e)
    BY <1>6, <1>8 DEF Refused
  <2>3. Refused(e) => Refused(Now)'
    BY <1>1, <1>9 DEF Refused, OneLimit, Twice, RunStart
  <2> QED
    BY <1>1, <1>9, <2>1, <2>2, <2>3 DEF UnfitOK
<1> QED
  BY <1>10, <1>11, <1>12, <1>13, <1>14, <1>15 DEF IInv

LEMMA WriteInv ==
    ASSUME IInv, NEW n \in 0..MaxIn, Write(n)
    PROVE  IInv'
<1>1. /\ pc = "caller" /\ ~dead /\ scanned + n <= MaxIn
      /\ pc' = "scan" /\ scanBase' = scanned /\ len' = n /\ scanned' = scanned + n
      /\ i' = 0 /\ rs' = IF regOpen THEN 0 ELSE -1
      /\ sink' = sink /\ budget' = budget /\ deferredBytes' = deferredBytes
      /\ regOpen' = regOpen /\ regInner' = regInner /\ regCap' = regCap
      /\ valEmit' = valEmit /\ start' = start /\ early' = early
  BY DEF Write, regionVars
<1>2. Now' = Now /\ committed' = committed /\ dead' = dead /\ regT' = regT
      /\ capBuf' = capBuf
  BY DEF Write, effectVars, Now
<1>3. scanned \in 0..MaxIn /\ MaxIn \in Nat /\ n \in Nat /\ CommitBytes \in Nat
  BY BudgetAssumption DEF IInv, TypesOK
<1>4. TypesOK'
  <2>1. /\ scanned' \in 0..MaxIn /\ scanBase' \in 0..MaxIn /\ i' \in 0..MaxIn
        /\ rs' \in -1..MaxIn /\ len' \in 0..MaxIn
    BY <1>1, <1>3
  <2> QED
    BY <1>1, <2>1 DEF IInv, TypesOK
<1>5. PlaceOK'
  <2>1. start \in Nat /\ start <= scanned
    BY DEF IInv, TypesOK, PlaceOK
  <2>2. regOpen => scanBase' + rs' = RunStart'
    BY <1>1, <1>3, <2>1 DEF RunStart
  <2> QED
    BY <1>1, <1>2, <1>3, <2>1, <2>2 DEF IInv, PlaceOK
<1>6. CopyOK'
  <2>1. Good(Now)'
    BY <1>1, <1>2 DEF IInv, CopyOK, Good, CopyFits
  <2>2. regT \in Copied => Handed' = Handed
    <3>1. HAVE regT \in Copied
    <3>2. regOpen
      BY <1>1, <3>1 DEF IInv, PlaceOK, Bounded, Copied
    <3> QED
      BY <1>1, <1>3, <3>2 DEF Handed
  <2> QED
    BY <1>1, <1>2, <2>1, <2>2 DEF IInv, CopyOK
<1>7. HoldOK'
  BY <1>1, <1>2 DEF IInv, HoldOK
<1>8. WindowOK'
  BY <1>1, <1>2, <1>3 DEF IInv, WindowOK
<1>9. UnfitOK'
  <2>1. unfit = -1 /\ unfit' = -1
    BY <1>1, NoneUnfit DEF Write, effectVars
  <2>2. \A b \in (scanBase' + rs')..(scanBase' + i' - 1) : regT \notin Bounded
    <3>1. TAKE b \in (scanBase' + rs')..(scanBase' + i' - 1)
    <3>2. ~regOpen
      BY <1>1, <1>3, <3>1
    <3> QED
      BY <1>1, <3>2 DEF IInv, PlaceOK, Bounded
  <2>3. FirstUnfit(Now, i)'
    BY <1>2, <2>1, <2>2, NowFacts DEF FirstUnfit
  <2> QED
    BY <1>1, <1>2, <2>1, <2>3 DEF UnfitOK
<1> QED
  BY <1>4, <1>5, <1>6, <1>7, <1>8, <1>9 DEF IInv

LEMMA CallerCommitsInv ==
    ASSUME IInv, CallerCommits
    PROVE  IInv'
<1> DEFINE e == Hook("commit", Now)
<1>1. /\ Good(Now) /\ Now \in Effects /\ Limits /\ pc = "caller" /\ ~dead
      /\ unfit = -1
  BY NoneUnfit DEF CallerCommits, IInv, TypesOK, CopyOK, Good, Limits
<1>2. /\ Good(e) /\ e \in Effects /\ e.regT = regT /\ e.capBuf = capBuf
      /\ ~e.dead => e.committed
      /\ e.unfit = -1
  BY <1>1, HookFacts, NowFacts DEF Good, Callbacks
<1>3. e = Committing(Now)
  BY DEF Hook
<1> HIDE DEF e
<1>4. Becomes(e) /\ Now' = e
  BY <1>2, <1>3, BecomesNow DEF CallerCommits
<1>5. /\ committed' = e.committed /\ dead' = e.dead /\ capBuf' = e.capBuf
      /\ regT' = e.regT /\ unfit' = e.unfit
  BY <1>4 DEF Becomes
<1>6. /\ pc' = pc /\ sink' = sink /\ budget' = budget /\ i' = i
      /\ scanned' = scanned /\ scanBase' = scanBase /\ len' = len /\ rs' = rs
      /\ deferredBytes' = deferredBytes /\ regOpen' = regOpen
      /\ regInner' = regInner /\ regCap' = regCap
      /\ valEmit' = valEmit /\ start' = start /\ early' = TRUE
  BY DEF CallerCommits, chunkVars, regionVars
<1>7. TypesOK'
  BY <1>6 DEF IInv, TypesOK
<1>8. PlaceOK'
  BY <1>1, <1>2, <1>5, <1>6 DEF IInv, PlaceOK
<1>9. CopyOK'
  <2>1. Good(Now)'
    BY <1>2, <1>4, <1>6 DEF Good, CopyFits
  <2>2. Handed' = Handed
    BY <1>6 DEF Handed
  <2> QED
    BY <1>1, <1>2, <1>5, <1>6, <2>1, <2>2 DEF IInv, CopyOK
<1>10. HoldOK'
  BY <1>1, <1>2, <1>5, <1>6 DEF IInv, HoldOK
<1>11. WindowOK'
  BY <1>1, <1>2, <1>5, <1>6 DEF IInv, WindowOK
<1>12. UnfitOK'
  BY <1>1, <1>2, <1>5, <1>6 DEF UnfitOK
<1> QED
  BY <1>7, <1>8, <1>9, <1>10, <1>11, <1>12 DEF IInv

LEMMA ForgetInv ==
    ASSUME IInv, Forget
    PROVE  IInv'
<1>1. /\ pc = "scan" /\ ~dead /\ ~regOpen /\ deferredBytes' = 0
      /\ pc' = pc /\ sink' = sink /\ budget' = budget /\ i' = i
      /\ scanned' = scanned /\ scanBase' = scanBase /\ len' = len /\ rs' = rs
      /\ regOpen' = regOpen /\ regInner' = regInner /\ regCap' = regCap
      /\ valEmit' = valEmit /\ start' = start /\ early' = early
  BY DEF Forget, chunkVars, regionVars
<1>2. Now' = Now /\ committed' = committed /\ dead' = dead /\ regT' = regT
      /\ capBuf' = capBuf
  BY DEF Forget, effectVars, Now
<1>3. regT = "rtNone" /\ unfit = -1 /\ unfit' = -1 /\ budget \in Nat
  BY <1>1, NoneUnfit DEF IInv, PlaceOK, TypesOK, Forget, effectVars
<1>4. TypesOK'
  BY <1>1 DEF IInv, TypesOK
<1>5. PlaceOK'
  BY <1>1, <1>2 DEF IInv, PlaceOK
<1>6. CopyOK'
  BY <1>1, <1>2, <1>3 DEF IInv, CopyOK, Good, CopyFits, Bounded, Copied
<1>7. HoldOK'
  BY <1>1, <1>2, <1>3 DEF HoldOK, Bounded, Copied
<1>8. WindowOK'
  BY <1>1, <1>2 DEF IInv, WindowOK
<1>9. UnfitOK'
  BY <1>1, <1>2, <1>3, NowFacts DEF UnfitOK, FirstUnfit, Bounded
<1> QED
  BY <1>4, <1>5, <1>6, <1>7, <1>8, <1>9 DEF IInv

LEMMA StutterInv ==
    ASSUME IInv, UNCHANGED vars
    PROVE  IInv'
<1>1. /\ pc' = pc /\ sink' = sink /\ budget' = budget /\ i' = i
      /\ scanned' = scanned /\ scanBase' = scanBase /\ len' = len /\ rs' = rs
      /\ regOpen' = regOpen /\ regInner' = regInner /\ regCap' = regCap
      /\ deferredBytes' = deferredBytes
      /\ valEmit' = valEmit /\ start' = start /\ early' = early
  BY DEF vars, chunkVars, regionVars
<1>2. Now' = Now /\ committed' = committed /\ dead' = dead /\ regT' = regT
      /\ capBuf' = capBuf /\ unfit' = unfit
  BY DEF vars, effectVars, Now
<1>3. TypesOK' /\ PlaceOK'
  BY <1>1, <1>2 DEF IInv, TypesOK, PlaceOK, RunStart
<1>4. CopyOK' /\ HoldOK' /\ WindowOK'
  <2>1. Handed' = Handed /\ Good(Now)' /\ (Buffered(Now) <= budget)' = (Buffered(Now) <= budget)
    BY <1>1, <1>2 DEF Handed, IInv, CopyOK, Good, CopyFits, Buffered
  <2> QED
    BY <1>1, <1>2, <2>1 DEF IInv, CopyOK, HoldOK, WindowOK
<1>5. UnfitOK'
  <2>1. \A b : Fits(Now, regCap, start, scanBase + rs, b)'
                 <=> Fits(Now, regCap, start, scanBase + rs, b)
    BY <1>1, <1>2 DEF Fits, Asked, Kept
  <2>2. FirstUnfit(Now, i)' <=> FirstUnfit(Now, i)
    BY <1>1, <1>2, <2>1 DEF FirstUnfit
  <2>3. Refused(Now)' <=> Refused(Now)
    BY <1>1, <1>2 DEF Refused, OneLimit, Twice, RunStart
  <2> QED
    BY <1>1, <1>2, <2>2, <2>3 DEF IInv, UnfitOK
<1> QED
  BY <1>3, <1>4, <1>5 DEF IInv

-----------------------------------------------------------------------------
(* The theorems. *)

\* Every step of a call, every callback and every chunk border keeps the
\* bounds, the copies, the commit window and the place of an overflow.
THEOREM Invariance == Spec => []IInv
<1>1. Init => IInv
  BY InitInv
<1>2. IInv /\ [Next]_vars => IInv'
  <2> SUFFICES ASSUME IInv, [Next]_vars PROVE IInv'
    OBVIOUS
  <2>1. ASSUME NEW cb \in Callbacks, FrameByte(cb) PROVE IInv'
    BY <2>1, FrameByteInv
  <2>2. ASSUME NEW cb \in Callbacks, NEW target \in Targets, NEW cap \in Caps,
               NEW emit \in BOOLEAN, NEW inner \in BOOLEAN,
               ValueStart(target, cap, emit, inner, cb)
        PROVE  IInv'
    BY <2>2, ValueStartInv
  <2>3. ASSUME NEW cb \in Callbacks, NEW answer \in PrefixAnswers,
               RegionEnd(answer, cb)
        PROVE  IInv'
    BY <2>3, RegionEndInv
  <2>4. ASSUME NEW answer \in PrefixAnswers, WriteReturns(answer) PROVE IInv'
    BY <2>4, WriteReturnsInv
  <2>5. ASSUME NEW n \in 0..MaxIn, Write(n) PROVE IInv'
    BY <2>5, WriteInv
  <2> QED
    BY <2>1, <2>2, <2>3, <2>4, <2>5, RegionByteInv, ForgetInv, CallerCommitsInv,
       StutterInv DEF Next
<1> QED
  BY <1>1, <1>2, PTL DEF Spec

\* A stream that is not over holds no more than its budget between calls, but
\* for the key of the last pair put aside and the copy of a type check: what
\* SetBudget promises (lifecycle.go:29).
THEOREM BudgetCorrect == Spec => []HoldBounded
<1>1. IInv => HoldBounded
  <2> SUFFICES ASSUME IInv PROVE HoldBounded
    OBVIOUS
  <2>1. Now \in Effects /\ MaxIn \in Nat /\ KeyLen \in Nat /\ ValCap \in Nat
    BY BudgetAssumption DEF IInv, CopyOK, Good
  <2>2. /\ committed \in BOOLEAN /\ dead \in BOOLEAN /\ code \in Codes
        /\ offset \in -1..MaxIn /\ limitAt \in Nat /\ buf \in Nat
        /\ capBuf \in Nat /\ valOver \in BOOLEAN /\ split \in BOOLEAN
        /\ copies \in BOOLEAN /\ unfit \in -1..MaxIn /\ late \in BOOLEAN
        /\ regT \in Targets \union {"rtNone", "rtOut", "rtSkip"}
    BY <2>1, NowFacts DEF Effects
  <2>3. {scanned, scanBase, len, i, start} \subseteq 0..MaxIn + 1
    BY <2>1 DEF IInv, TypesOK
  <2>4. TypeOK
    BY <2>2, <2>3 DEF IInv, TypesOK, TypeOK
  <2>5. ASSUME pc = "caller", ~dead, budget > 0
        PROVE  Buffered(Now) <= budget + (IF deferredBytes > 0 THEN KeyLen ELSE 0)
                                + (IF regT = "rtValidate" THEN ValCap ELSE 0)
    <3>1. budget \in Nat /\ deferredBytes \in Nat
      BY DEF IInv, TypesOK
    <3>2. CASE ~committed
      BY <2>1, <2>5, <3>1, <3>2, <2>2, NowFacts DEF IInv, HoldOK, Buffered
    <3>3. CASE committed
      <4>1. Buffered(Now) = capBuf + deferredBytes
        BY <2>2, <3>1, <3>3, NowFacts DEF Buffered
      <4>2. deferredBytes <= budget + (IF deferredBytes > 0 THEN KeyLen ELSE 0)
        BY <2>5 DEF IInv, HoldOK
      <4>3. CASE capBuf = 0
        BY <2>1, <3>1, <4>1, <4>2, <4>3
      <4>4. CASE capBuf > 0 /\ regT \in Copied
        <5>1. capBuf + deferredBytes <= budget
          BY <2>5, <4>4 DEF IInv, HoldOK
        <5> QED
          BY <2>1, <2>2, <3>1, <4>1, <5>1
      <4>5. CASE capBuf > 0 /\ regT \notin Copied
        <5>1. regT = "rtValidate" /\ capBuf <= ValCap
          BY <2>2, <2>5, <4>5, NowFacts, BudgetAssumption
             DEF IInv, CopyOK, Good, CopyFits, Bounded, Copied
        <5> QED
          BY <2>1, <2>2, <3>1, <4>1, <4>2, <5>1
      <4> QED
        BY <2>2, <4>3, <4>4, <4>5
    <3> QED
      BY <2>2, <3>2, <3>3
  <2> QED
    BY <2>4, <2>5 DEF HoldBounded
<1> QED
  BY <1>1, Invariance, PTL

\* As long as the stream runs, OnValue, OnPrefix and a held pair get whole
\* copies, or a full window (region.go:331, 380).
THEOREM CopiesCorrect == Spec => []CopiesWhole
<1>1. IInv => CopiesWhole
  BY NowFacts DEF IInv, CopyOK, Good, CopiesWhole
<1> QED
  BY <1>1, Invariance, PTL

\* A byte for which a copy had no room ends the stream within the call, with
\* an error in the run that did not fit: at its start for a Prefix, else at the
\* byte, but for a run split at the commit window, a cap and a budget that both
\* ran out, and Observe's bytes counted twice (region.go:296, 330, engine.go:462).
THEOREM OverflowCorrect == Spec => []OverflowStops
<1>1. IInv => OverflowStops
  BY NowFacts DEF IInv, UnfitOK, Refused, OverflowStops, CountedTwice, Twice
<1> QED
  BY <1>1, Invariance, PTL

\* The fallback stays open for the window, and is closed once the window has
\* been scanned (lifecycle.go:299).
THEOREM WindowCorrect == Spec => []WindowHeld
<1>1. IInv => WindowHeld
  BY DEF IInv, WindowOK, WindowHeld
<1> QED
  BY <1>1, Invariance, PTL

=============================================================================
