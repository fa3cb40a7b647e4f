--------------------------- MODULE Lexical_proofs ---------------------------
(***************************************************************************)
(* Proofs about the scanner inside a token (Lexical), for every alphabet,  *)
(* every length of a token and every size of a chunk: nothing of a token   *)
(* is left when it ends, a key is read back as it came, and the verdict    *)
(* and the offset of an error are the grammar's.                           *)
(*                                                                         *)
(* The last is the long one.  The text of a string under way is split into *)
(* whole characters and an open rest (Written), about which the scanner's  *)
(* few variables say all there is (Open); of a number under way they say   *)
(* both what it is (InState) and where every number that goes on from it   *)
(* has to be (Follows).                                                    *)
(***************************************************************************)
EXTENDS Lexical, SequenceTheorems, FiniteSetTheorems, TLAPS

Byte == 0..255

-----------------------------------------------------------------------------
(* The inductive invariant. *)

\* A sequence of UTF-8 is either under way or not there at all, and only a
\* string has escapes and sequences.
CleanOK ==
    /\ u8.need = 0 => u8 = NoSequence
    /\ st \in {"sIdle", "sInScalar"} => ~esc /\ hexN = 0 /\ u8 = NoSequence

\* A key is kept behind its whitespace and its quote, and the scan remembers
\* whether it met a backslash in it.
KeyOK ==
    ~dead /\ st = "sInKey" =>
        /\ keyAt = 2 /\ kvRaw = <<32, Quote>> \o text
        /\ keyEsc = Contains(text, Backslash)
        /\ esc \/ hexN > 0 => keyEsc

TextOK == ~dead => Len(text) <= MaxText

IInv == TypeOK /\ CleanOK /\ KeyOK /\ TextOK /\ KeyIsText

-----------------------------------------------------------------------------
(* Bytes and sequences of them. *)

LEMMA Alphabets == Alphabet \subseteq Byte /\ StrBytes \subseteq Byte
                   /\ TailBytes \subseteq Byte /\ LitBytes \subseteq Byte
BY LexicalAssumption DEF Alphabet, Byte

LEMMA OneByte ==
    ASSUME NEW c \in Byte
    PROVE  <<c>> \in Seq(Byte) /\ Len(<<c>>) = 1 /\ <<c>>[1] = c
OBVIOUS

\* What a key's text contains after some more bytes.
LEMMA ContainsMore ==
    ASSUME NEW t \in Seq(Byte), NEW s \in Seq(Byte), NEW b \in Byte
    PROVE  Contains(t \o s, b) = (Contains(t, b) \/ Contains(s, b))
<1>1. /\ t \o s \in Seq(Byte) /\ Len(t \o s) = Len(t) + Len(s)
      /\ \A k \in 1..Len(t) + Len(s) :
            (t \o s)[k] = IF k <= Len(t) THEN t[k] ELSE s[k - Len(t)]
  BY ConcatProperties
<1>2. Len(t) \in Nat /\ Len(s) \in Nat
  BY LenProperties
<1>3. ASSUME NEW k \in 1..Len(t \o s), (t \o s)[k] = b
      PROVE  Contains(t, b) \/ Contains(s, b)
  <2>1. CASE k <= Len(t)
    BY <1>1, <1>2, <1>3, <2>1 DEF Contains
  <2>2. CASE k > Len(t)
    <3>1. k - Len(t) \in 1..Len(s) /\ s[k - Len(t)] = b
      BY <1>1, <1>2, <1>3, <2>2
    <3> QED
      BY <3>1 DEF Contains
  <2> QED
    BY <1>1, <1>2, <2>1, <2>2
<1>4. ASSUME NEW k \in 1..Len(t), t[k] = b
      PROVE  Contains(t \o s, b)
  BY <1>1, <1>2, <1>4 DEF Contains
<1>5. ASSUME NEW k \in 1..Len(s), s[k] = b
      PROVE  Contains(t \o s, b)
  <2>1. k + Len(t) \in 1..Len(t \o s) /\ (t \o s)[k + Len(t)] = b
    BY <1>1, <1>2, <1>5
  <2> QED
    BY <2>1 DEF Contains
<1> QED
  BY <1>3, <1>4, <1>5 DEF Contains

\* A sequence read whole is made of bytes, none below 80 if it is accepted,
\* and where it is refused is in it.
LEMMA WholeIsBytes ==
    ASSUME NEW c \in Byte, SizeOf(c) # 0,
           NEW tail \in [1..SizeOf(c) - 1 -> TailBytes]
    PROVE  LET s == <<c>> \o tail
           IN  /\ s \in Seq(Byte) /\ Len(s) = SizeOf(c) /\ s[1] = c
               /\ Refused(s) = {} => \A k \in 2..Len(s) : s[k] >= 128
               /\ Refused(s) # {} => Min(Refused(s)) \in 2..Len(s)
<1> DEFINE n == SizeOf(c)
           s == <<c>> \o tail
<1>1. n \in 2..4
  BY DEF SizeOf, Byte
<1>2. tail \in Seq(Byte) /\ Len(tail) = n - 1
  <2>1. n - 1 \in Nat /\ tail \in [1..n - 1 -> TailBytes]
    BY <1>1
  <2> HIDE DEF n
  <2>2. tail \in Seq(TailBytes) /\ Len(tail) = n - 1
    BY <2>1
  <2> QED
    BY <2>2, Alphabets, SeqMonotonic
<1> HIDE DEF n
<1>3. s \in Seq(Byte) /\ Len(s) = n /\ s[1] = c
  BY <1>1, <1>2, OneByte, ConcatProperties
<1> HIDE DEF s
<1>4. ASSUME Refused(s) = {}, NEW k \in 2..Len(s) PROVE s[k] >= 128
  <2>1. s[k] \in Byte
    BY <1>1, <1>3, ElementOfSeq
  <2>2. s[k] \in IF k = 2 THEN Second(s[1]).lo..Second(s[1]).hi ELSE 128..191
    BY <1>4 DEF Refused
  <2>3. CASE k = 2
    <3>1. Second(s[1]).lo \in 128..160 /\ Second(s[1]).hi \in Int
      BY DEF Second
    <3>2. s[k] \in Second(s[1]).lo..Second(s[1]).hi
      BY <2>2, <2>3, Zenon
    <3>3. ASSUME NEW lo \in 128..160, NEW hi \in Int, NEW x \in lo..hi
          PROVE  x >= 128
      OBVIOUS
    <3> QED
      BY <3>1, <3>2, <3>3
  <2>4. CASE k # 2
    <3>1. s[k] \in 128..191
      BY <2>2, <2>4, Zenon
    <3>2. ASSUME NEW x \in 128..191 PROVE x >= 128
      OBVIOUS
    <3> QED
      BY <3>1, <3>2
  <2> QED
    BY <2>3, <2>4
<1>5. ASSUME Refused(s) # {} PROVE Min(Refused(s)) \in 2..Len(s)
  <2>0. Refused(s) \subseteq 2..Len(s)
    BY DEF Refused
  <2>1. Refused(s) \subseteq 2..Len(s) /\ Refused(s) \subseteq {2, 3, 4}
    BY <1>1, <1>3, <2>0
  <2>2. \E m \in Refused(s) : \A x \in Refused(s) : m <= x
    BY <1>5, <2>1
  <2>3. Min(Refused(s)) \in Refused(s)
    BY <2>2 DEF Min
  <2> QED
    BY <2>1, <2>3
<1> QED
  BY <1>3, <1>4, <1>5 DEF s, n

-----------------------------------------------------------------------------
(* Literals. *)

LitType == [kind : Kinds, first : Byte, n : 0..5, num : NumStates]

LEMMA NumTypes ==
    /\ {"nsStart", "nsBad"} \subseteq NumStates
    /\ \A t \in numTrans : t[3] \in NumStates
<1> DEFINE N == {"nsStart", "nsNeg", "nsZero", "nsInt", "nsDot", "nsFrac",
                 "nsExp", "nsExpSign", "nsExpDig"}
<1>1. \A t \in numTrans : t[3] \in N
  BY DEF numTrans
<1>2. \A m \in N : \E t \in numTrans : t[1] = m
  BY DEF numTrans
<1> QED
  BY <1>1, <1>2 DEF NumStates

LEMMA NumStepType ==
    ASSUME NEW s, NEW c
    PROVE  numStep(s, c) \in NumStates
<1> DEFINE to == {t[3] : t \in {t \in numTrans : t[1] = s /\ numClassOf(c) \in t[2]}}
<1>1. to \subseteq NumStates
  BY NumTypes
<1>2. numStep(s, c) = IF to = {} THEN "nsBad" ELSE CHOOSE n \in to : TRUE
  BY DEF numStep
<1> HIDE DEF to
<1> QED
  BY <1>1, <1>2, NumTypes

LEMMA WordLength ==
    ASSUME NEW l
    PROVE  Len(word(l)) \in 4..5
<1>1. word(l) \in {<<110, 117, 108, 108>>, <<116, 114, 117, 101>>,
                   <<102, 97, 108, 115, 101>>}
  BY DEF word
<1> QED
  BY <1>1

LEMMA StepType ==
    ASSUME NEW l \in LitType, NEW c \in Byte
    PROVE  step(l, c) \in LitType
<1>1. Bad \in LitType
  BY NumTypes DEF Bad, LitType, Kinds, Byte
<1>2. CASE l.kind = "number"
  <2>1. [l EXCEPT !.num = numStep(l.num, c)] \in LitType
    BY NumStepType DEF LitType
  <2> QED
    BY <1>1, <1>2, <2>1 DEF step
<1>3. CASE l.kind # "number"
  <2>1. l.n \in 0..5
    BY DEF LitType
  <2>2. ASSUME l.n < 5 PROVE [l EXCEPT !.n = @ + 1] \in LitType
    BY <2>1, <2>2 DEF LitType
  <2>3. l.n = 0 \/ l.n < Len(word(l)) => l.n < 5
    <3>1. ASSUME NEW m \in 0..5, NEW w \in 4..5 PROVE m = 0 \/ m < w => m < 5
      OBVIOUS
    <3> HIDE DEF LitType
    <3> QED
      BY <2>1, <3>1, WordLength
  <2> QED
    BY <1>1, <1>3, <2>2, <2>3 DEF step
<1> QED
  BY <1>2, <1>3

LEMMA StartType ==
    ASSUME NEW c \in Byte
    PROVE  start(c) \in LitType
<1> DEFINE l == [kind |-> litKindOf(c), first |-> c, n |-> 0, num |-> "nsStart"]
<1>1. litKindOf(c) \in Kinds
  BY DEF litKindOf, Kinds
<1>2. l \in LitType
  BY <1>1, NumTypes DEF LitType
<1>3. Bad \in LitType
  BY NumTypes DEF Bad, LitType, Kinds, Byte
<1> QED
  BY <1>2, <1>3, StepType DEF start

-----------------------------------------------------------------------------
(* What reading bytes, and refusing one, does to the types.                 *)

LEMMA ReadsType ==
    ASSUME TypeOK, TextOK, ~dead, NEW s \in Seq(Byte), Len(s) <= left, Reads(s)
    PROVE  /\ text' \in Seq(Byte) /\ kvRaw' \in Seq(Byte)
           /\ text' = text \o s /\ Len(text') <= MaxText
           /\ left' \in 0..ChunkMax /\ keyAt' \in 0..2
           /\ validateUTF8' \in BOOLEAN /\ dead' = dead
           /\ offset' \in -1..MaxText
<1>1. text \in Seq(Byte) /\ kvRaw \in Seq(Byte)
  BY DEF TypeOK, Byte
<1>2. text \o s \in Seq(Byte) /\ kvRaw \o s \in Seq(Byte)
      /\ Len(text \o s) = Len(text) + Len(s)
  BY <1>1, ConcatProperties
<1>3. Bound(text \o s) \in Nat /\ Bound(text \o s) <= MaxText
  BY LexicalAssumption DEF Bound
<1>4. Len(text) + Len(s) <= MaxText
  <2>1. Len(text) \in Nat /\ Len(s) \in Nat /\ MaxText \in Nat
    BY <1>1, LenProperties, LexicalAssumption
  <2> QED
    BY <1>3, <2>1 DEF Reads
<1>5. left' \in 0..ChunkMax
  <2>1. Len(s) \in Nat /\ left \in 0..ChunkMax /\ left' = left - Len(s)
        /\ ChunkMax \in Nat
    BY LenProperties, LexicalAssumption DEF Reads, TypeOK
  <2> QED
    BY <2>1
<1> QED
  BY <1>2, <1>4, <1>5 DEF Reads, TypeOK

\* A refusal leaves the scanner where it was, but for the chunk.
LEMMA BailKeeps ==
    ASSUME IInv, ~dead, NEW s \in Seq(Byte), Bail(s)
    PROVE  IInv'
<1>1. text' \in Seq(0..255) /\ left' \in 0..ChunkMax
  BY ConcatProperties, LexicalAssumption DEF Bail, IInv, TypeOK, Byte
<1>2. offset' \in -1..MaxText
  <2>1. Len(text) \in Nat /\ Len(text) <= MaxText /\ offset' = Len(text)
    BY LenProperties DEF Bail, IInv, TypeOK, TextOK
  <2>2. MaxText \in Nat
    BY LexicalAssumption
  <2> QED
    BY <2>1, <2>2
<1>3. TypeOK'
  BY <1>1, <1>2 DEF Bail, IInv, TypeOK, strVars, keyVars
<1> QED
  BY <1>3 DEF Bail, IInv, CleanOK, KeyOK, TextOK, KeyIsText, strVars, keyVars

-----------------------------------------------------------------------------
(* The steps. *)

LEMMA InitInv == Init => IInv
<1> SUFFICES ASSUME Init PROVE IInv
  OBVIOUS
<1>1. NoLit \in LitType
  BY NumTypes DEF NoLit, LitType, Kinds, Byte
<1>2. TypeOK
  <2>1. lit \in [kind : Kinds, first : 0..255, n : 0..5, num : NumStates]
    BY <1>1 DEF Init, LitType, Byte
  <2>2. u8 \in [need : 0..3, lo : 0..255, hi : 0..255]
    BY DEF Init, NoSequence
  <2>3. offset \in -1..MaxText /\ left \in 0..ChunkMax
    BY LexicalAssumption DEF Init
  <2>4. {esc, keyEsc, validateUTF8, dead} \subseteq BOOLEAN
    BY DEF Init
  <2>5. kvRaw \in Seq(0..255) /\ text \in Seq(0..255)
    BY DEF Init
  <2>6. hexN \in 0..4 /\ keyAt \in 0..2 /\ st = "sIdle"
    BY DEF Init
  <2> QED
    BY <2>1, <2>2, <2>3, <2>4, <2>5, <2>6 DEF TypeOK
<1> QED
  BY <1>2, LexicalAssumption
  DEF Init, IInv, CleanOK, KeyOK, TextOK, KeyIsText, NoToken, NoSequence

LEMMA WriteInv ==
    ASSUME IInv, NEW n \in 1..ChunkMax, Write(n)
    PROVE  IInv'
<1>1. left' \in 0..ChunkMax
  BY LexicalAssumption DEF Write
<1>2. TypeOK'
  BY <1>1 DEF Write, IInv, TypeOK, strVars, keyVars
<1> QED
  BY <1>2 DEF Write, IInv, CleanOK, KeyOK, TextOK, KeyIsText, strVars, keyVars

\* The types, one variable at a time.
LEMMA TypesTogether ==
    ASSUME st' \in {"sIdle", "sInStr", "sInKey", "sInScalar"},
           esc' \in BOOLEAN, keyEsc' \in BOOLEAN, validateUTF8' \in BOOLEAN,
           dead' \in BOOLEAN, hexN' \in 0..4,
           u8' \in [need : 0..3, lo : 0..255, hi : 0..255], lit' \in LitType,
           kvRaw' \in Seq(0..255), text' \in Seq(0..255), keyAt' \in 0..2,
           left' \in 0..ChunkMax, offset' \in -1..MaxText
    PROVE  TypeOK'
<1>1. lit' \in [kind : Kinds, first : 0..255, n : 0..5, num : NumStates]
  BY DEF LitType, Byte
<1>2. {esc', keyEsc', validateUTF8', dead'} \subseteq BOOLEAN
  OBVIOUS
<1> QED
  BY <1>1, <1>2 DEF TypeOK

\* A token begins: only its quote has been read.
LEMMA OpensInv ==
    ASSUME IInv, OpensString \/ OpensKey(<< 32 >>)
    PROVE  IInv'
<1>1. Opens /\ ~dead /\ ~esc /\ hexN = 0 /\ u8 = NoSequence
  BY DEF OpensString, OpensKey, Opens, Scanning, IInv, CleanOK
<1>2. left' \in 0..ChunkMax
  BY <1>1, LexicalAssumption DEF Opens, Scanning, IInv, TypeOK
<1>3. lit' \in LitType
  BY <1>1, NumTypes DEF Opens, NoLit, LitType, Kinds, Byte
<1>4. dead' \in BOOLEAN /\ validateUTF8' \in BOOLEAN /\ esc' \in BOOLEAN
  <2>1. dead \in BOOLEAN /\ validateUTF8 \in BOOLEAN
    BY DEF IInv, TypeOK
  <2>2. dead' = dead /\ validateUTF8' = validateUTF8 /\ esc' = FALSE
    BY <1>1 DEF Opens
  <2> QED
    BY <2>1, <2>2, Zenon
<1>b. offset' \in -1..MaxText /\ text' \in Seq(0..255)
  BY <1>1 DEF Opens, IInv, TypeOK
<1>a. hexN' \in 0..4 /\ u8' \in [need : 0..3, lo : 0..255, hi : 0..255]
  BY <1>1 DEF Opens, IInv, TypeOK
<1>5. ~dead' /\ text' = <<>> /\ ~esc' /\ hexN' = 0 /\ u8' = NoSequence
      /\ token' = NoToken
  BY <1>1 DEF Opens
<1>6. CleanOK' /\ TextOK' /\ KeyIsText'
  BY <1>5, LexicalAssumption DEF CleanOK, TextOK, KeyIsText, NoToken
<1>7. CASE OpensString
  <2>1. kvRaw' = <<>> /\ keyAt' = 0 /\ keyEsc' = FALSE /\ st' = "sInStr"
    BY <1>7 DEF OpensString
  <2>2. TypeOK'
    <3>0. keyEsc' \in BOOLEAN
      BY <2>1, Zenon
    <3>1. /\ st' \in {"sIdle", "sInStr", "sInKey", "sInScalar"}
          /\ kvRaw' \in Seq(0..255) /\ keyAt' \in 0..2
      BY <2>1
    <3> QED
      BY <1>2, <1>3, <1>4, <1>a, <1>b, <3>0, <3>1, TypesTogether
  <2>3. KeyOK'
    BY <2>1 DEF KeyOK
  <2> QED
    BY <1>6, <2>2, <2>3 DEF IInv
<1>8. CASE OpensKey(<<32>>)
  <2>1. kvRaw' = <<32>> \o <<Quote>> /\ keyAt' = Len(kvRaw') /\ keyEsc' = FALSE
        /\ st' = "sInKey"
    BY <1>8 DEF OpensKey
  <2>2. <<32>> \o <<Quote>> = <<32, Quote>>
    <3>1. <<32>> \in Seq(Byte) /\ <<Quote>> \in Seq(Byte) /\ <<32, Quote>> \in Seq(Byte)
      BY DEF Quote, Byte
    <3> DEFINE s == <<32>> \o <<Quote>>
    <3>2. /\ s \in Seq(Byte) /\ Len(s) = 2 /\ s[1] = 32 /\ s[2] = Quote
      BY <3>1, ConcatProperties
    <3> HIDE DEF s
    <3>3. s = <<32, Quote>>
      BY <3>1, <3>2, SeqEqual
    <3> QED
      BY <3>3 DEF s
  <2>3. kvRaw' = <<32, Quote>> /\ keyAt' = 2 /\ kvRaw' \in Seq(0..255)
    BY <2>1, <2>2 DEF Quote
  <2>4. TypeOK'
    <3>0. keyEsc' \in BOOLEAN
      BY <2>1, Zenon
    <3>1. /\ st' \in {"sIdle", "sInStr", "sInKey", "sInScalar"}
          /\ kvRaw' \in Seq(0..255) /\ keyAt' \in 0..2
      BY <2>1, <2>3
    <3> QED
      BY <1>2, <1>3, <1>4, <1>a, <1>b, <3>0, <3>1, TypesTogether
  <2>5. <<32, Quote>> \o <<>> = <<32, Quote>>
    <3>1. <<32, Quote>> \in Seq(Byte)
      BY DEF Quote, Byte
    <3> QED
      BY <3>1, ConcatEmptySeq
  <2>6. keyEsc' = Contains(text', Backslash)
    <3>1. ~\E k \in 1..Len(text') : text'[k] = Backslash
      BY <1>5
    <3> QED
      BY <2>1, <3>1 DEF Contains
  <2>7. KeyOK'
    <3>1. kvRaw' = <<32, Quote>> \o text' /\ esc' = FALSE /\ ~(hexN' > 0)
      BY <1>1, <1>5, <2>3, <2>5 DEF Opens
    <3> QED
      BY <2>3, <2>6, <3>1 DEF KeyOK
  <2> QED
    BY <1>6, <2>4, <2>7 DEF IInv
<1> QED
  BY <1>7, <1>8

\* The bytes s of a string or of a key are read, and with them the scanner
\* stays inside it.
LEMMA InsideInv ==
    ASSUME IInv, InString, NEW s \in Seq(Byte), Len(s) <= left, Reads(s),
           st' = st, lit' = lit, token' = token,
           esc' \in BOOLEAN, hexN' \in 0..4,
           u8' \in [need : 0..3, lo : Byte, hi : Byte],
           u8'.need = 0 => u8' = NoSequence,
           keyEsc' \in BOOLEAN,
           st = "sInKey" => /\ keyEsc' = (keyEsc \/ Contains(s, Backslash))
                            /\ esc' \/ hexN' > 0 => keyEsc'
    PROVE  IInv'
<1>1. ~dead /\ st \in {"sInStr", "sInKey"}
  BY DEF InString, Scanning
<1>2. /\ text' \in Seq(Byte) /\ kvRaw' \in Seq(Byte)
      /\ text' = text \o s /\ Len(text') <= MaxText
      /\ left' \in 0..ChunkMax /\ keyAt' \in 0..2
      /\ validateUTF8' \in BOOLEAN /\ dead' = dead
      /\ offset' \in -1..MaxText
  BY <1>1, ReadsType DEF IInv
<1>3. TypeOK'
  BY <1>2 DEF IInv, TypeOK, Byte
<1>4. CleanOK' /\ TextOK' /\ KeyIsText'
  BY <1>1, <1>2 DEF IInv, CleanOK, TextOK, KeyIsText
<1>5. ASSUME st = "sInKey" PROVE KeyOK'
  <2>1. text \in Seq(Byte) /\ <<32, Quote>> \in Seq(Byte)
    BY DEF IInv, TypeOK, Byte, Quote
  <2>2. kvRaw' = (<<32, Quote>> \o text) \o s /\ keyAt' = 2
    BY <1>1, <1>5 DEF Reads, IInv, KeyOK
  <2>3. kvRaw' = <<32, Quote>> \o text'
    BY <1>2, <2>1, <2>2, ConcatAssociative, SMTT(40)
  <2>4. Contains(text', Backslash) = (Contains(text, Backslash) \/ Contains(s, Backslash))
    BY <1>2, <2>1, ContainsMore DEF Backslash, Byte
  <2>5. keyEsc' = Contains(text', Backslash)
    BY <1>1, <1>5, <2>4 DEF IInv, KeyOK
  <2> QED
    BY <1>5, <2>2, <2>3, <2>5 DEF KeyOK
<1>6. CASE st # "sInKey"
  BY <1>3, <1>4, <1>6 DEF IInv, KeyOK
<1> QED
  BY <1>3, <1>4, <1>5, <1>6 DEF IInv

LEMMA OneContains ==
    ASSUME NEW c \in Byte
    PROVE  Contains(<<c>>, Backslash) = (c = Backslash)
<1>1. Len(<<c>>) = 1 /\ <<c>>[1] = c
  OBVIOUS
<1>2. (\E k \in 1..Len(<<c>>) : <<c>>[k] = Backslash) <=> c = Backslash
  BY <1>1
<1> QED
  BY <1>2 DEF Contains

\* What a byte inside a string or a key may rest on.
LEMMA InsideFacts ==
    ASSUME IInv, InString
    PROVE  /\ ~dead /\ left >= 1 /\ st \in {"sInStr", "sInKey"}
           /\ esc \in BOOLEAN /\ keyEsc \in BOOLEAN /\ hexN \in 0..4
           /\ u8 \in [need : 0..3, lo : Byte, hi : Byte]
           /\ u8.need = 0 => u8 = NoSequence
           /\ st = "sInKey" => (esc \/ hexN > 0 => keyEsc)
<1>1. left \in 0..ChunkMax /\ left > 0 /\ ~dead /\ st \in {"sInStr", "sInKey"}
  BY DEF InString, Scanning, IInv, TypeOK
<1>2. left >= 1
  BY <1>1, LexicalAssumption
<1>3. esc \in BOOLEAN /\ keyEsc \in BOOLEAN
  BY Zenon DEF IInv, TypeOK
<1>4. hexN \in 0..4 /\ u8 \in [need : 0..3, lo : Byte, hi : Byte]
  BY DEF IInv, TypeOK, Byte
<1> QED
  BY <1>1, <1>2, <1>3, <1>4 DEF IInv, CleanOK, KeyOK

\* One byte is read, no backslash unless it was after one.
LEMMA ByteInv ==
    ASSUME IInv, InString, NEW c \in Byte, Reads(<<c>>),
           st' = st, lit' = lit, token' = token,
           esc' \in BOOLEAN, hexN' \in 0..4,
           u8' \in [need : 0..3, lo : Byte, hi : Byte],
           u8'.need = 0 => u8' = NoSequence,
           keyEsc' \in BOOLEAN,
           st = "sInKey" => /\ keyEsc' = (keyEsc \/ c = Backslash)
                            /\ esc' \/ hexN' > 0 => keyEsc'
    PROVE  IInv'
<1>1. <<c>> \in Seq(Byte) /\ Len(<<c>>) <= left
  BY InsideFacts, OneByte
<1>2. Contains(<<c>>, Backslash) = (c = Backslash)
  BY OneContains
<1>3. st = "sInKey" => /\ keyEsc' = (keyEsc \/ Contains(<<c>>, Backslash))
                       /\ esc' \/ hexN' > 0 => keyEsc'
  BY <1>2
<1> QED
  BY <1>1, <1>3, InsideInv

LEMMA EscapedInv ==
    ASSUME IInv, NEW c \in Byte, Escaped(c)
    PROVE  IInv'
<1>1. InString /\ esc
  BY DEF Escaped
<1>2. CASE escapeClass(c) = 0
  BY <1>1, <1>2, InsideFacts, BailKeeps, OneByte DEF Escaped
<1>3. CASE escapeClass(c) # 0
  <2>1. /\ Reads(<<c>>) /\ esc' = FALSE
        /\ hexN' = (IF escapeClass(c) = 2 THEN 4 ELSE hexN)
        /\ st' = st /\ u8' = u8 /\ lit' = lit /\ keyEsc' = keyEsc /\ token' = token
    BY <1>3 DEF Escaped
  <2>2. hexN' \in 0..4 /\ u8' \in [need : 0..3, lo : Byte, hi : Byte]
        /\ (u8'.need = 0 => u8' = NoSequence)
    BY <1>1, <2>1, InsideFacts
  <2>3. esc' \in BOOLEAN /\ keyEsc' \in BOOLEAN
    BY <1>1, <2>1, InsideFacts, Zenon
  <2>4. st = "sInKey" => /\ keyEsc' = (keyEsc \/ c = Backslash)
                         /\ esc' \/ hexN' > 0 => keyEsc'
    BY <1>1, <2>1, InsideFacts
  <2> QED
    BY <1>1, <2>1, <2>2, <2>3, <2>4, ByteInv
<1> QED
  BY <1>2, <1>3

LEMMA HexDigitInv ==
    ASSUME IInv, NEW c \in Byte, HexDigit(c)
    PROVE  IInv'
<1>1. InString /\ ~esc /\ hexN > 0
  BY DEF HexDigit
<1>2. CASE ~isHexByte(c)
  BY <1>1, <1>2, InsideFacts, BailKeeps, OneByte DEF HexDigit
<1>3. CASE isHexByte(c)
  <2>1. /\ Reads(<<c>>) /\ hexN' = hexN - 1 /\ esc' = esc
        /\ st' = st /\ u8' = u8 /\ lit' = lit /\ keyEsc' = keyEsc /\ token' = token
    BY <1>3 DEF HexDigit
  <2>2. hexN' \in 0..4 /\ u8' \in [need : 0..3, lo : Byte, hi : Byte]
        /\ (u8'.need = 0 => u8' = NoSequence)
    BY <1>1, <2>1, InsideFacts
  <2>3. esc' \in BOOLEAN /\ keyEsc' \in BOOLEAN
    BY <1>1, <2>1, InsideFacts, Zenon
  <2>4. c # Backslash
    BY <1>3 DEF isHexByte, Backslash
  <2>5. st = "sInKey" => /\ keyEsc' = (keyEsc \/ c = Backslash)
                         /\ esc' \/ hexN' > 0 => keyEsc'
    BY <1>1, <2>1, <2>4, InsideFacts
  <2> QED
    BY <1>1, <2>1, <2>2, <2>3, <2>5, ByteInv
<1> QED
  BY <1>2, <1>3

LEMMA PlainInv ==
    ASSUME IInv, NEW c \in Byte, Plain(c)
    PROVE  IInv'
<1>1. InString /\ ~esc /\ hexN = 0 /\ c # Backslash
  BY DEF Plain, Body
<1>2. CASE MidSequence
  BY <1>1, <1>2, InsideFacts, BailKeeps, OneByte DEF Plain
<1>3. CASE ~MidSequence
  <2>1. /\ Reads(<<c>>) /\ hexN' = hexN /\ esc' = esc
        /\ st' = st /\ u8' = u8 /\ lit' = lit /\ keyEsc' = keyEsc /\ token' = token
    BY <1>3 DEF Plain, strVars
  <2>2. hexN' \in 0..4 /\ u8' \in [need : 0..3, lo : Byte, hi : Byte]
        /\ (u8'.need = 0 => u8' = NoSequence)
    BY <1>1, <2>1, InsideFacts
  <2>3. esc' \in BOOLEAN /\ keyEsc' \in BOOLEAN
    BY <1>1, <2>1, InsideFacts, Zenon
  <2>4. st = "sInKey" => /\ keyEsc' = (keyEsc \/ c = Backslash)
                         /\ esc' \/ hexN' > 0 => keyEsc'
    BY <1>1, <2>1, InsideFacts
  <2> QED
    BY <1>1, <2>1, <2>2, <2>3, <2>4, ByteInv
<1> QED
  BY <1>2, <1>3

LEMMA WholeSequenceInv ==
    ASSUME IInv, NEW c \in Byte, WholeSequence(c)
    PROVE  IInv'
<1>1. InString /\ ~esc /\ hexN = 0 /\ c >= 128 /\ SizeOf(c) \in 1..left
  BY DEF WholeSequence, Body
<1>2. PICK tail \in [1..SizeOf(c) - 1 -> TailBytes] :
          IF Refused(<<c>> \o tail) = {}
          THEN Reads(<<c>> \o tail) /\ UNCHANGED <<st, strVars, lit, keyEsc, token>>
          ELSE Bail(SubSeq(<<c>> \o tail, 1, Min(Refused(<<c>> \o tail))))
  BY DEF WholeSequence
<1> DEFINE s == <<c>> \o tail
<1>3. SizeOf(c) # 0 /\ SizeOf(c) <= left
  BY <1>1
<1>4. /\ s \in Seq(Byte) /\ Len(s) = SizeOf(c) /\ s[1] = c
      /\ Refused(s) = {} => \A k \in 2..Len(s) : s[k] >= 128
      /\ Refused(s) # {} => Min(Refused(s)) \in 2..Len(s)
  BY <1>3, WholeIsBytes
<1>5. IF Refused(s) = {}
      THEN Reads(s) /\ UNCHANGED <<st, strVars, lit, keyEsc, token>>
      ELSE Bail(SubSeq(s, 1, Min(Refused(s))))
  BY <1>2
<1> HIDE DEF s
<1>6. CASE Refused(s) = {}
  <2>1. /\ Reads(s) /\ hexN' = hexN /\ esc' = esc
        /\ st' = st /\ u8' = u8 /\ lit' = lit /\ keyEsc' = keyEsc /\ token' = token
    BY <1>5, <1>6 DEF strVars
  <2>2. hexN' \in 0..4 /\ u8' \in [need : 0..3, lo : Byte, hi : Byte]
        /\ (u8'.need = 0 => u8' = NoSequence)
    BY <1>1, <2>1, InsideFacts
  <2>3. esc' \in BOOLEAN /\ keyEsc' \in BOOLEAN
    BY <1>1, <2>1, InsideFacts, Zenon
  <2>4. ~\E k \in 1..Len(s) : s[k] = Backslash
    <3>1. ASSUME NEW k \in 1..Len(s) PROVE s[k] # Backslash
      <4>1. k = 1 \/ k \in 2..Len(s)
        OBVIOUS
      <4>2. s[1] >= 128
        BY <1>1, <1>4
      <4>3. s[k] >= 128
        BY <1>4, <1>6, <4>1, <4>2
      <4> QED
        BY <4>3 DEF Backslash
    <3> QED
      BY <3>1
  <2>5. Contains(s, Backslash) = FALSE
    BY <2>4 DEF Contains
  <2>6. st = "sInKey" => /\ keyEsc' = (keyEsc \/ Contains(s, Backslash))
                         /\ esc' \/ hexN' > 0 => keyEsc'
    BY <1>1, <2>1, <2>5, InsideFacts
  <2>7. Len(s) <= left
    BY <1>3, <1>4
  <2> QED
    BY <1>1, <1>4, <2>1, <2>2, <2>3, <2>6, <2>7, InsideInv
<1>7. CASE Refused(s) # {}
  <2> DEFINE m == Min(Refused(s))
  <2>1. m \in 2..Len(s) /\ Bail(SubSeq(s, 1, m))
    BY <1>4, <1>5, <1>7
  <2> HIDE DEF m
  <2>2. SubSeq(s, 1, m) \in Seq(Byte)
    <3>1. m \in Int /\ \A k \in 1..m : s[k] \in Byte
      BY <1>4, <2>1, ElementOfSeq
    <3> QED
      BY <3>1, SubSeqProperties
  <2> QED
    BY <1>1, <2>1, <2>2, InsideFacts, BailKeeps
<1> QED
  BY <1>6, <1>7

LEMMA LeadType ==
    ASSUME NEW c \in Byte
    PROVE  /\ Lead(c) \in [need : 0..3, lo : Byte, hi : Byte]
           /\ Lead(c).need = 0 => Lead(c) = NoSequence
<1>1. Lead(c) \in {[need |-> 1, lo |-> 128, hi |-> 191],
                   [need |-> 2, lo |-> 160, hi |-> 191],
                   [need |-> 2, lo |-> 128, hi |-> 191],
                   [need |-> 2, lo |-> 128, hi |-> 159],
                   [need |-> 3, lo |-> 144, hi |-> 191],
                   [need |-> 3, lo |-> 128, hi |-> 191],
                   [need |-> 3, lo |-> 128, hi |-> 143], NoSequence}
  BY DEF Lead
<1> QED
  BY <1>1 DEF NoSequence, Byte

LEMMA SequenceByteInv ==
    ASSUME IInv, NEW c \in Byte, SequenceByte(c)
    PROVE  IInv'
<1> DEFINE ok == IF MidSequence THEN c \in u8.lo..u8.hi
                 ELSE SizeOf(c) # 0 /\ Lead(c) # NoSequence
<1>1. InString /\ ~esc /\ hexN = 0 /\ c >= 128
  BY DEF SequenceByte, Body
<1>2. IF ok
      THEN /\ Reads(<<c>>)
           /\ u8' = IF MidSequence THEN Next8(u8) ELSE Lead(c)
           /\ UNCHANGED <<st, esc, hexN, lit, keyEsc, token>>
      ELSE Bail(<<c>>)
  BY DEF SequenceByte
<1> HIDE DEF ok
<1>3. CASE ~ok
  BY <1>1, <1>2, <1>3, InsideFacts, BailKeeps, OneByte
<1>4. CASE ok
  <2>1. /\ Reads(<<c>>) /\ hexN' = hexN /\ esc' = esc
        /\ st' = st /\ lit' = lit /\ keyEsc' = keyEsc /\ token' = token
        /\ u8' = IF MidSequence THEN Next8(u8) ELSE Lead(c)
    BY <1>2, <1>4
  <2>2. u8' \in [need : 0..3, lo : Byte, hi : Byte] /\ (u8'.need = 0 => u8' = NoSequence)
    <3>1. u8 \in [need : 0..3, lo : Byte, hi : Byte]
      BY <1>1, InsideFacts
    <3>2. CASE ~MidSequence
      BY <2>1, <3>2, LeadType
    <3>3. CASE MidSequence /\ u8.need = 1
      BY <2>1, <3>3 DEF Next8, NoSequence, Byte
    <3>4. CASE MidSequence /\ u8.need # 1
      <4>1. u8.need \in 2..3
        BY <3>1, <3>4 DEF MidSequence
      <4>2. u8' = [need |-> u8.need - 1, lo |-> 128, hi |-> 191]
        BY <2>1, <3>4 DEF Next8
      <4> QED
        BY <4>1, <4>2 DEF Byte
    <3> QED
      BY <3>2, <3>3, <3>4
  <2>3. esc' \in BOOLEAN /\ keyEsc' \in BOOLEAN
    BY <1>1, <2>1, InsideFacts, Zenon
  <2>4. st = "sInKey" => /\ keyEsc' = (keyEsc \/ c = Backslash)
                         /\ esc' \/ hexN' > 0 => keyEsc'
    BY <1>1, <2>1, InsideFacts DEF Backslash
  <2>5. hexN' \in 0..4
    BY <1>1, <2>1
  <2> QED
    BY <1>1, <2>1, <2>2, <2>3, <2>4, <2>5, ByteInv
<1> QED
  BY <1>3, <1>4

LEMMA ControlInv ==
    ASSUME IInv, NEW c \in Byte, Control(c)
    PROVE  IInv'
<1>1. InString /\ Bail(<<c>>)
  BY DEF Control, Body
<1> QED
  BY <1>1, InsideFacts, BailKeeps, OneByte

LEMMA StartEscapeInv ==
    ASSUME IInv, StartEscape
    PROVE  IInv'
<1>1. InString /\ ~esc /\ hexN = 0 /\ Backslash \in Byte
  BY DEF StartEscape, Body, Backslash, Byte
<1>2. CASE MidSequence
  BY <1>1, <1>2, InsideFacts, BailKeeps, OneByte DEF StartEscape
<1>3. CASE ~MidSequence
  <2>1. /\ Reads(<<Backslash>>) /\ hexN' = hexN /\ esc' = TRUE
        /\ st' = st /\ u8' = u8 /\ lit' = lit /\ token' = token
        /\ keyEsc' = (keyEsc \/ st = "sInKey")
    BY <1>3 DEF StartEscape
  <2>2. hexN' \in 0..4 /\ u8' \in [need : 0..3, lo : Byte, hi : Byte]
        /\ (u8'.need = 0 => u8' = NoSequence)
    BY <1>1, <2>1, InsideFacts
  <2>3. esc' \in BOOLEAN /\ keyEsc' \in BOOLEAN
    BY <1>1, <2>1, InsideFacts, Zenon
  <2>4. st = "sInKey" => /\ keyEsc' = (keyEsc \/ Backslash = Backslash)
                         /\ esc' \/ hexN' > 0 => keyEsc'
    BY <1>1, <2>1, InsideFacts
  <2> QED
    BY <1>1, <2>1, <2>2, <2>3, <2>4, ByteInv
<1> QED
  BY <1>2, <1>3

\* A token ends at its closing quote: a key's content is cut out of kvRaw.
LEMMA ClosesInv ==
    ASSUME IInv, Closes
    PROVE  IInv'
<1>1. Body /\ InString /\ ~esc /\ hexN = 0 /\ Quote \in Byte /\ Quote # Backslash
  BY DEF Closes, Body, Quote, Backslash, Byte
<1>2. CASE MidSequence
  BY <1>1, <1>2, InsideFacts, BailKeeps, OneByte DEF Closes
<1>3. CASE ~MidSequence
  <2>1. /\ Reads(<<Quote>>) /\ st' = "sIdle"
        /\ hexN' = hexN /\ esc' = esc /\ u8' = u8 /\ lit' = lit /\ keyEsc' = keyEsc
        /\ token' = [st |-> st, text |-> text',
                     key |-> IF st = "sInKey" THEN KeyContent(kvRaw') ELSE <<>>,
                     escaped |-> st = "sInKey" /\ keyEsc]
    BY <1>3 DEF Closes, strVars
  <2>2. u8 = NoSequence /\ ~dead
    <3>1. u8 \in [need : 0..3, lo : Byte, hi : Byte] /\ ~(u8.need > 0)
      BY <1>1, <1>3, InsideFacts DEF MidSequence
    <3>2. u8.need = 0
      BY <3>1
    <3> QED
      BY <1>1, <3>2, InsideFacts
  <2>3. <<Quote>> \in Seq(Byte) /\ Len(<<Quote>>) <= left /\ Len(<<Quote>>) = 1
    BY <1>1, InsideFacts, OneByte
  <2>4. /\ text' \in Seq(Byte) /\ kvRaw' \in Seq(Byte)
        /\ text' = text \o <<Quote>> /\ Len(text') <= MaxText
        /\ left' \in 0..ChunkMax /\ keyAt' \in 0..2
        /\ validateUTF8' \in BOOLEAN /\ dead' = dead
        /\ offset' \in -1..MaxText
    BY <2>1, <2>2, <2>3, ReadsType DEF IInv
  <2>5. TypeOK'
    <3>1. st' \in {"sIdle", "sInStr", "sInKey", "sInScalar"} /\ hexN' \in 0..4
      BY <1>1, <2>1
    <3>2. esc' \in BOOLEAN /\ keyEsc' \in BOOLEAN /\ dead' \in BOOLEAN
      <4>1. dead \in BOOLEAN
        BY Zenon DEF IInv, TypeOK
      <4> QED
        BY <1>1, <2>1, <2>4, <4>1, InsideFacts, Zenon
    <3>3. u8' \in [need : 0..3, lo : 0..255, hi : 0..255] /\ lit' \in LitType
      BY <2>1 DEF IInv, TypeOK, LitType, Byte
    <3>4. text' \in Seq(0..255) /\ kvRaw' \in Seq(0..255)
      BY <2>4 DEF Byte
    <3> QED
      BY <2>4, <3>1, <3>2, <3>3, <3>4, TypesTogether
  <2>6. CleanOK' /\ TextOK' /\ KeyOK'
    BY <1>1, <2>1, <2>2, <2>4 DEF CleanOK, TextOK, KeyOK
  <2>7. ASSUME st = "sInKey" PROVE KeyIsText'
    <3>1. text \in Seq(Byte) /\ Len(text) \in Nat
      BY LenProperties DEF IInv, TypeOK, Byte
    <3>2. kvRaw' = (<<32, Quote>> \o text) \o <<Quote>> /\ keyAt = 2
          /\ keyEsc = Contains(text, Backslash)
      BY <2>1, <2>2, <2>7 DEF Reads, IInv, KeyOK
    <3>3. Front(text') = text
      <4>1. Len(text') = Len(text) + 1
            /\ \A k \in 1..Len(text) : text'[k] = text[k]
        BY <2>3, <2>4, <3>1, ConcatProperties
      <4>2. Front(text') = SubSeq(text', 1, Len(text))
        BY <3>1, <4>1 DEF Front
      <4>3. SubSeq(text', 1, Len(text)) \in Seq(Byte)
            /\ Len(SubSeq(text', 1, Len(text))) = Len(text)
            /\ \A k \in 1..Len(text) : SubSeq(text', 1, Len(text))[k] = text[k]
        <5>1. \A k \in 1..Len(text) : text'[k] \in Byte
          BY <3>1, <4>1, ElementOfSeq
        <5> DEFINE n == Len(text)
        <5>2. n \in Nat /\ \A k \in 1..n : text'[k] \in Byte
          BY <3>1, <5>1
        <5>3. SubSeq(text', 1, n) \in Seq(Byte)
              /\ Len(SubSeq(text', 1, n)) = (IF 1 <= n THEN n - 1 + 1 ELSE 0)
              /\ \A k \in 1..n - 1 + 1 : SubSeq(text', 1, n)[k] = text'[1 + k - 1]
          <6> HIDE DEF n
          <6> QED
            BY <5>2, SubSeqProperties
        <5> QED
          BY <3>1, <4>1, <5>3
      <4> QED
        BY <3>1, <4>2, <4>3, SeqEqual
    <3>4. KeyContent(kvRaw') = text
      <4> DEFINE q == <<32, Quote>>
                 r == (q \o text) \o <<Quote>>
                 n == Len(text)
      <4>1. q \in Seq(Byte) /\ Len(q) = 2 /\ n \in Nat
        BY <3>1 DEF Quote, Byte
      <4>2. KeyContent(kvRaw') = SubSeq(r, 3, Len(r) - 1)
        BY <3>2 DEF KeyContent
      <4>3. r \in Seq(Byte) /\ Len(r) = n + 3
            /\ \A k \in 1..n : r[k + 2] = text[k]
        <5> HIDE DEF q
        <5>1. q \o text \in Seq(Byte) /\ Len(q \o text) = 2 + n
              /\ \A k \in 1..2 + n : (q \o text)[k] = IF k <= 2 THEN q[k] ELSE text[k - 2]
          <6>1. q \o text \in Seq(Byte) /\ Len(q \o text) = Len(q) + Len(text)
                /\ \A k \in 1..Len(q) + Len(text) :
                      (q \o text)[k] = IF k <= Len(q) THEN q[k] ELSE text[k - Len(q)]
            BY <3>1, <4>1, ConcatProperties
          <6> QED
            BY <4>1, <6>1
        <5>2. r \in Seq(Byte) /\ Len(r) = 2 + n + 1
              /\ \A k \in 1..2 + n : r[k] = (q \o text)[k]
          BY <2>3, <4>1, <5>1, ConcatProperties
        <5>3. \A k \in 1..n : k + 2 \in 1..2 + n /\ ~(k + 2 <= 2) /\ k + 2 - 2 = k
          BY <4>1
        <5>4. \A k \in 1..n : r[k + 2] = text[k]
          BY <5>1, <5>2, <5>3
        <5> HIDE DEF r, n
        <5> QED
          BY <4>1, <5>2, <5>4
      <4>4. \A k \in 1..n : text[k] \in Byte
        BY <3>1, ElementOfSeq
      <4> HIDE DEF r, n, q
      <4>5. Len(r) - 1 = n + 2 /\ \A k \in 3..n + 2 : r[k] \in Byte
        <5>1. \A k \in 3..n + 2 : k - 2 \in 1..n /\ k - 2 + 2 = k
          BY <4>1
        <5>2. Len(r) - 1 = n + 2
          BY <4>1, <4>3
        <5> QED
          BY <4>3, <4>4, <5>1, <5>2
      <4>6. SubSeq(r, 3, n + 2) \in Seq(Byte)
            /\ Len(SubSeq(r, 3, n + 2)) = (IF 3 <= n + 2 THEN n + 2 - 3 + 1 ELSE 0)
            /\ \A k \in 1..n + 2 - 3 + 1 : SubSeq(r, 3, n + 2)[k] = r[3 + k - 1]
        BY <4>1, <4>5, SubSeqProperties
      <4>7. Len(SubSeq(r, 3, n + 2)) = n
            /\ \A k \in 1..n : SubSeq(r, 3, n + 2)[k] = text[k]
        <5>1. n + 2 - 3 + 1 = n /\ \A k \in 1..n : 3 + k - 1 = k + 2
          BY <4>1
        <5> QED
          BY <4>1, <4>3, <4>6, <5>1
      <4>8. SubSeq(r, 3, n + 2) = text
        BY <3>1, <4>6, <4>7, SeqEqual DEF n
      <4> QED
        BY <4>2, <4>5, <4>8
    <3>5. token'.key = Front(token'.text)
      BY <2>1, <2>7, <3>3, <3>4
    <3>6. token'.escaped = Contains(token'.text, Backslash)
      <4>1. Contains(text', Backslash) =
                (Contains(text, Backslash) \/ Contains(<<Quote>>, Backslash))
        <5>1. Backslash \in Byte
          BY DEF Backslash, Byte
        <5> QED
          BY <2>3, <2>4, <3>1, <5>1, ContainsMore
      <4>2. Contains(<<Quote>>, Backslash) = FALSE
        BY <1>1, OneContains
      <4>3. Contains(text, Backslash) \in BOOLEAN
        BY DEF Contains
      <4>4. Contains(text', Backslash) = Contains(text, Backslash)
        BY <4>1, <4>2, <4>3
      <4>5. keyEsc \in BOOLEAN
        BY <1>1, InsideFacts
      <4>6. token'.escaped = keyEsc
        BY <2>1, <2>7, <4>5
      <4> QED
        BY <2>1, <3>2, <4>4, <4>6
    <3> QED
      BY <3>5, <3>6 DEF KeyIsText
  <2>8. CASE st # "sInKey"
    BY <2>1, <2>5, <2>6, <2>8 DEF IInv, KeyIsText
  <2> QED
    BY <2>5, <2>6, <2>7, <2>8 DEF IInv
<1> QED
  BY <1>2, <1>3

LEMMA LiteralStartsInv ==
    ASSUME IInv, NEW c \in Byte, LiteralStarts(c)
    PROVE  IInv'
<1>1. /\ st = "sIdle" /\ ~dead /\ token' = NoToken /\ text' = <<c>>
      /\ kvRaw' = <<>> /\ keyAt' = 0 /\ keyEsc' = FALSE
      /\ esc' = esc /\ hexN' = hexN /\ u8' = u8 /\ validateUTF8' = validateUTF8
  BY DEF LiteralStarts, Scanning, strVars
<1>2. left \in 1..ChunkMax /\ ChunkMax \in Nat
  BY LexicalAssumption DEF LiteralStarts, Scanning, IInv, TypeOK
<1>3. /\ dead' \in BOOLEAN /\ st' \in {"sIdle", "sInScalar"}
      /\ left' \in 0..ChunkMax
  <2>1. CASE start(c) = Bad
    <3>1. dead' = TRUE /\ left' = 0 /\ st' = st
      BY <2>1 DEF LiteralStarts
    <3>2. dead' \in BOOLEAN
      BY <3>1, Zenon
    <3> QED
      BY <1>1, <1>2, <3>1, <3>2
  <2>2. CASE start(c) # Bad
    <3>1. dead' = dead /\ st' = "sInScalar" /\ left' = left - 1
      BY <2>2 DEF LiteralStarts
    <3>2. dead' \in BOOLEAN
      <4>1. dead \in BOOLEAN
        BY Zenon DEF IInv, TypeOK
      <4> QED
        BY <3>1, <4>1, Zenon
    <3> QED
      BY <1>2, <3>1, <3>2
  <2> QED
    BY <2>1, <2>2
<1>4. lit' \in LitType
  <2>1. lit \in LitType
    BY DEF IInv, TypeOK, LitType, Byte
  <2> QED
    BY <2>1, StartType DEF LiteralStarts
<1>5. offset' \in -1..MaxText
  <2>1. offset' = 0 \/ offset' = offset
    BY DEF LiteralStarts
  <2>2. offset \in -1..MaxText
    BY DEF IInv, TypeOK
  <2> QED
    BY <2>1, <2>2, LexicalAssumption
<1>6. TypeOK'
  <2>1. esc' \in BOOLEAN /\ keyEsc' \in BOOLEAN /\ validateUTF8' \in BOOLEAN
    <3>1. esc \in BOOLEAN /\ validateUTF8 \in BOOLEAN
      BY Zenon DEF IInv, TypeOK
    <3> QED
      BY <1>1, <3>1, Zenon
  <2>2. hexN' \in 0..4 /\ u8' \in [need : 0..3, lo : 0..255, hi : 0..255]
    BY <1>1 DEF IInv, TypeOK
  <2>3. kvRaw' \in Seq(0..255) /\ text' \in Seq(0..255) /\ keyAt' \in 0..2
    BY <1>1 DEF Byte
  <2>4. st' \in {"sIdle", "sInStr", "sInKey", "sInScalar"}
    BY <1>3
  <2> QED
    BY <1>3, <1>4, <1>5, <2>1, <2>2, <2>3, <2>4, TypesTogether
<1>7. CleanOK'
  BY <1>1, <1>3 DEF IInv, CleanOK
<1>8. KeyOK' /\ KeyIsText'
  BY <1>1, <1>3 DEF KeyOK, KeyIsText, NoToken
<1>9. TextOK'
  <2>1. Len(text') = 1 /\ MaxText \in Nat \ {0}
    BY <1>1, LexicalAssumption
  <2> QED
    BY <2>1 DEF TextOK
<1> QED
  BY <1>6, <1>7, <1>8, <1>9 DEF IInv

LEMMA LiteralByteInv ==
    ASSUME IInv, NEW c \in Byte, LiteralByte(c)
    PROVE  IInv'
<1>1. st = "sInScalar" /\ ~dead /\ left \in 1..ChunkMax /\ ChunkMax \in Nat
  BY LexicalAssumption DEF LiteralByte, InScalar, Scanning, IInv, TypeOK
<1>2. CASE step(lit, c) = Bad
  BY <1>1, <1>2, BailKeeps, OneByte DEF LiteralByte
<1>3. CASE step(lit, c) # Bad
  <2>1. /\ Reads(<<c>>) /\ lit' = step(lit, c)
        /\ hexN' = hexN /\ esc' = esc /\ u8' = u8
        /\ st' = st /\ keyEsc' = keyEsc /\ token' = token
    BY <1>3 DEF LiteralByte, strVars
  <2>2. <<c>> \in Seq(Byte) /\ Len(<<c>>) <= left
    BY <1>1, OneByte
  <2>3. /\ text' \in Seq(Byte) /\ kvRaw' \in Seq(Byte)
        /\ Len(text') <= MaxText
        /\ left' \in 0..ChunkMax /\ keyAt' \in 0..2
        /\ validateUTF8' \in BOOLEAN /\ dead' = dead
        /\ offset' \in -1..MaxText
    BY <1>1, <2>1, <2>2, ReadsType DEF IInv
  <2>4. lit' \in LitType
    <3>1. lit \in LitType
      BY DEF IInv, TypeOK, LitType, Byte
    <3> QED
      BY <2>1, <3>1, StepType
  <2>5. esc' \in BOOLEAN /\ keyEsc' \in BOOLEAN /\ dead' \in BOOLEAN
    <3>1. esc \in BOOLEAN /\ keyEsc \in BOOLEAN /\ dead \in BOOLEAN
      BY Zenon DEF IInv, TypeOK
    <3> QED
      BY <2>1, <2>3, <3>1, Zenon
  <2>6. /\ hexN' \in 0..4 /\ u8' \in [need : 0..3, lo : 0..255, hi : 0..255]
        /\ st' \in {"sIdle", "sInStr", "sInKey", "sInScalar"}
    BY <1>1, <2>1 DEF IInv, TypeOK
  <2>7. text' \in Seq(0..255) /\ kvRaw' \in Seq(0..255)
    BY <2>3 DEF Byte
  <2>8. TypeOK'
    BY <2>3, <2>4, <2>5, <2>6, <2>7, TypesTogether
  <2>9. CleanOK' /\ KeyOK' /\ TextOK' /\ KeyIsText'
    BY <1>1, <2>1, <2>3 DEF IInv, CleanOK, KeyOK, TextOK, KeyIsText
  <2> QED
    BY <2>8, <2>9 DEF IInv
<1> QED
  BY <1>2, <1>3

LEMMA LiteralEndsInv ==
    ASSUME IInv, NEW c \in Byte, LiteralEnds(c)
    PROVE  IInv'
<1>1. st = "sInScalar" /\ ~dead
  BY DEF LiteralEnds, InScalar, Scanning
<1>2. CASE ~done(lit)
  BY <1>1, <1>2, BailKeeps, OneByte DEF LiteralEnds
<1>3. CASE done(lit)
  <2>1. /\ st' = "sIdle" /\ token' = [NoToken EXCEPT !.st = st, !.text = text]
        /\ UNCHANGED <<strVars, lit, keyVars, validateUTF8, left, dead, offset, text>>
    BY <1>3 DEF LiteralEnds
  <2>2. token'.st = "sInScalar"
    BY <1>1, <2>1 DEF NoToken
  <2>3. TypeOK'
    BY <2>1 DEF IInv, TypeOK, strVars, keyVars
  <2> QED
    BY <1>1, <2>1, <2>2, <2>3
    DEF IInv, CleanOK, KeyOK, TextOK, KeyIsText, strVars, keyVars
<1> QED
  BY <1>2, <1>3

LEMMA NextInv ==
    ASSUME IInv, [Next]_vars
    PROVE  IInv'
<1>1. ASSUME NEW n \in 1..ChunkMax, Write(n) PROVE IInv'
  BY <1>1, WriteInv
<1>2. CASE OpensString \/ OpensKey(<<32>>)
  BY <1>2, OpensInv
<1>3. ASSUME NEW c \in Alphabet, Plain(c) PROVE IInv'
  BY <1>3, Alphabets, PlainInv
<1>4. ASSUME NEW c \in Alphabet,
             Escaped(c) \/ HexDigit(c) \/ WholeSequence(c) \/ SequenceByte(c) \/ Control(c)
      PROVE  IInv'
  BY <1>4, Alphabets, EscapedInv, HexDigitInv, WholeSequenceInv, SequenceByteInv,
     ControlInv
<1>5. CASE StartEscape \/ Closes
  BY <1>5, StartEscapeInv, ClosesInv
<1>6. ASSUME NEW c \in LitBytes, LiteralStarts(c) \/ LiteralByte(c) \/ LiteralEnds(c)
      PROVE  IInv'
  BY <1>6, Alphabets, LiteralStartsInv, LiteralByteInv, LiteralEndsInv
<1>7. CASE UNCHANGED vars
  BY <1>7
  DEF vars, strVars, keyVars, IInv, TypeOK, CleanOK, KeyOK, TextOK, KeyIsText
<1> QED
  BY <1>1, <1>2, <1>3, <1>4, <1>5, <1>6, <1>7 DEF Next

\* Induction over a set of numbers.
LEMMA Induction ==
    ASSUME NEW S, 0 \in S, \A k \in Nat : k \in S => k + 1 \in S, NEW n \in Nat
    PROVE  n \in S
<1> DEFINE Q == {k \in 0..n : k \notin S}
<1> SUFFICES ASSUME n \notin S PROVE FALSE
  OBVIOUS
<1>1. n \in Q /\ Q \subseteq 0..n
  OBVIOUS
<1>2. \A q \in Q : q - 1 \in Q \ {n}
  <2> SUFFICES ASSUME NEW q \in Q PROVE q - 1 \in Q \ {n}
    OBVIOUS
  <2>1. q \in 0..n /\ q # 0
    OBVIOUS
  <2>2. q - 1 \in Nat /\ q - 1 \in 0..n /\ q - 1 + 1 = q /\ q - 1 # n
    BY <2>1
  <2> QED
    BY <2>2
<1>3. IsFiniteSet(0..n)
  BY FS_Interval
<1>4. IsFiniteSet(Q) /\ IsFiniteSet(Q \ {n})
  BY <1>1, <1>3, FS_Subset
<1>5. Cardinality(Q \ {n}) < Cardinality(Q)
  <2> HIDE DEF Q
  <2>1. Cardinality(Q \ {n}) = Cardinality(Q) - 1 /\ Cardinality(Q) \in Nat
    BY <1>1, <1>4, FS_RemoveElement, FS_CardinalityType
  <2> QED
    BY <2>1
<1> DEFINE f == [q \in Q |-> q - 1]
<1>6. f \in [Q -> Q \ {n}]
  BY <1>2
<1>7. \A x, y \in Q : x # y => f[x] # f[y]
  BY <1>1
<1> HIDE DEF Q, f
<1> QED
  BY <1>4, <1>5, <1>6, <1>7, FS_PigeonHole

-----------------------------------------------------------------------------
(* Where the characters of a text end. *)

Sizes == {1, 2, 3, 4, 6}

\* The character of s that ends at k and has n bytes.
CharAt(s, k, n) == SubSeq(s, k - n + 1, k)

Ended(v, s, k, g) ==
    \/ k = 0
    \/ \E n \in Sizes : n <= k /\ IsChar(v, CharAt(s, k, n)) /\ g[k - n]

\* The recursion of Ends has a value.
LEMMA EndedDefined ==
    ASSUME NEW v, NEW s, NEW l \in Nat
    PROVE  \E g : g = [k \in 0..l |-> Ended(v, s, k, g)]
<1> DEFINE S == {m \in Nat : \E g : g = [k \in 0..m |-> Ended(v, s, k, g)]}
<1>1. 0 \in S
  <2> DEFINE g == [k \in 0..0 |-> TRUE]
  <2>1. \A k \in 0..0 : Ended(v, s, k, g) = TRUE
    BY DEF Ended
  <2>2. g = [k \in 0..0 |-> Ended(v, s, k, g)]
    BY <2>1
  <2> QED
    BY <2>2
<1>2. ASSUME NEW m \in Nat, m \in S PROVE m + 1 \in S
  <2>1. PICK g : g = [k \in 0..m |-> Ended(v, s, k, g)]
    BY <1>2
  <2> DEFINE h == [k \in 0..m + 1 |-> IF k = m + 1 THEN Ended(v, s, m + 1, g)
                                      ELSE g[k]]
  <2>2. ASSUME NEW k \in 0..m + 1, NEW n \in Sizes, n <= k
        PROVE  h[k - n] = g[k - n]
    <3>1. k - n \in 0..m + 1 /\ k - n # m + 1
      BY <2>2 DEF Sizes
    <3> QED
      BY <3>1
  <2>3. \A k \in 0..m + 1 : Ended(v, s, k, h) = Ended(v, s, k, g)
    <3> HIDE DEF h
    <3> QED
      BY <2>2 DEF Ended
  <2>4. ASSUME NEW k \in 0..m + 1 PROVE h[k] = Ended(v, s, k, g)
    <3>1. CASE k = m + 1
      BY <3>1
    <3>2. CASE k # m + 1
      <4>1. k \in 0..m /\ h[k] = g[k]
        BY <3>2
      <4> QED
        BY <2>1, <4>1
    <3> QED
      BY <3>1, <3>2
  <2>5. h = [k \in 0..m + 1 |-> h[k]]
    OBVIOUS
  <2> HIDE DEF h
  <2>6. h = [k \in 0..m + 1 |-> Ended(v, s, k, h)]
    BY <2>3, <2>4, <2>5
  <2> QED
    BY <2>6
<1> HIDE DEF S
<1>3. l \in S
  BY <1>1, <1>2, Induction
<1> QED
  BY <1>3 DEF S

\* A character ends at 0, and at every place that is a character away from
\* one where a character ends.
LEMMA EndsIs ==
    ASSUME NEW v, NEW s \in Seq(Byte)
    PROVE  /\ Ends(v, s) \subseteq 0..Len(s) /\ 0 \in Ends(v, s)
           /\ \A k \in 1..Len(s) :
                 k \in Ends(v, s) <=>
                     \E n \in Sizes : /\ n <= k /\ IsChar(v, CharAt(s, k, n))
                                      /\ k - n \in Ends(v, s)
<1> DEFINE g == CHOOSE g : g = [k \in 0..Len(s) |-> Ended(v, s, k, g)]
<1>0. Len(s) \in Nat
  BY LenProperties
<1>1. g = [k \in 0..Len(s) |-> Ended(v, s, k, g)]
  BY <1>0, EndedDefined
<1>2. Ends(v, s) = {k \in 0..Len(s) : g[k]}
  BY Zenon DEF Ends, Ended, CharAt, Sizes
<1> HIDE DEF g
<1>3. \A k \in 0..Len(s) : g[k] = Ended(v, s, k, g)
  BY <1>1
<1>4. g[0]
  <2>1. Ended(v, s, 0, g)
    BY DEF Ended
  <2>2. 0 \in 0..Len(s)
    BY <1>0
  <2> QED
    BY <1>3, <2>1, <2>2
<1>5. ASSUME NEW k \in 1..Len(s)
      PROVE  k \in Ends(v, s) <=>
                     \E n \in Sizes : /\ n <= k /\ IsChar(v, CharAt(s, k, n))
                                      /\ k - n \in Ends(v, s)
  <2>1. k \in 0..Len(s) /\ k # 0
    BY <1>0
  <2>2. k \in Ends(v, s) <=> Ended(v, s, k, g)
    BY <1>2, <1>3, <2>1
  <2>3. \A n \in Sizes : n <= k => k - n \in 0..Len(s)
    BY <1>0 DEF Sizes
  <2>4. \A n \in Sizes : n <= k => (k - n \in Ends(v, s) <=> g[k - n])
    BY <1>2, <2>3
  <2> QED
    BY <2>1, <2>2, <2>4 DEF Ended
<1> QED
  BY <1>0, <1>2, <1>4, <1>5

-----------------------------------------------------------------------------
(* Characters. *)

\* The range of a byte, and other ranges, as inequalities.
LEMMA ByteIs ==
    \A c : c \in Byte <=> c \in Int /\ 0 <= c /\ c <= 255
BY DEF Byte

LEMMA ContinuationIs ==
    ASSUME NEW c \in Int
    PROVE  c \in 128..191 <=> 128 <= c /\ c <= 191
OBVIOUS

LeadRange(c, n) ==
    CASE n = 2 -> c \in 192..223 [] n = 3 -> c \in 224..239 [] n = 4 -> c \in 240..247

\* The first bytes of the sequences of each length.
LEMMA LeadRanges ==
    ASSUME NEW c \in Int
    PROVE  /\ LeadRange(c, 2) <=> 192 <= c /\ c <= 223
           /\ LeadRange(c, 3) <=> 224 <= c /\ c <= 239
           /\ LeadRange(c, 4) <=> 240 <= c /\ c <= 247
<1>1. c \in 192..223 <=> 192 <= c /\ c <= 223
  OBVIOUS
<1>2. c \in 224..239 <=> 224 <= c /\ c <= 239
  OBVIOUS
<1>3. c \in 240..247 <=> 240 <= c /\ c <= 247
  OBVIOUS
<1> QED
  BY <1>1, <1>2, <1>3 DEF LeadRange

\* What the table says of the byte k of a sequence that starts with c.
Table(c, k) == IF k = 2 THEN Second(c).lo..Second(c).hi ELSE 128..191

\* A sequence is refused nowhere when each byte is in its table.
LEMMA RefusedIs ==
    ASSUME NEW s
    PROVE  /\ Refused(s) = {} <=> \A k \in 2..Len(s) : s[k] \in Table(s[1], k)
           /\ \A k : k \in Refused(s) <=> k \in 2..Len(s) /\ s[k] \notin Table(s[1], k)
BY DEF Refused, Table

\* The code points of each length, by the ranges of the bytes.
LEMMA TwoBytes ==
    ASSUME NEW a \in Int, NEW b \in Int, 128 <= b, b <= 191, 192 <= a
    PROVE  64 * (a - 192) + (b - 128) >= 128 <=> 194 <= a
OBVIOUS

\* The code points of three and of four bytes that are characters.
Scalar3(a, b, c) ==
    LET p == 4096 * (a - 224) + 64 * (b - 128) + (c - 128)
    IN  p >= 2048 /\ (p < 55296 \/ p > 57343)
Scalar4(a, b, c, d) ==
    LET p == 262144 * (a - 240) + 4096 * (b - 128) + 64 * (c - 128) + (d - 128)
    IN  p >= 65536 /\ p <= 1114111

LEMMA ThreeBytes ==
    ASSUME NEW a \in Int, NEW b \in Int, NEW c \in Int,
           224 <= a, a <= 239, 128 <= b, b <= 191, 128 <= c, c <= 191
    PROVE  Scalar3(a, b, c) <=> (a = 224 => 160 <= b) /\ (a = 237 => b <= 159)
BY SMT DEF Scalar3

LEMMA FourBytes ==
    ASSUME NEW a \in Int, NEW b \in Int, NEW c \in Int, NEW d \in Int,
           240 <= a, a <= 247, 128 <= b, b <= 191, 128 <= c, c <= 191,
           128 <= d, d <= 191
    PROVE  Scalar4(a, b, c, d)
               <=> a <= 244 /\ (a = 240 => 144 <= b) /\ (a = 244 => b <= 143)
BY SMT DEF Scalar4

\* The tables of utf8First and utf8Accept, as inequalities.
LEMMA SizeIs ==
    ASSUME NEW c \in Byte
    PROVE  /\ SizeOf(c) \in {0, 2, 3, 4}
           /\ SizeOf(c) # 0 <=> 194 <= c /\ c <= 244
           /\ SizeOf(c) = 2 <=> 194 <= c /\ c <= 223
           /\ SizeOf(c) = 3 <=> 224 <= c /\ c <= 239
           /\ SizeOf(c) = 4 <=> 240 <= c /\ c <= 244
<1>0. c \in Int
  BY ByteIs
<1>1. c \in 194..223 <=> 194 <= c /\ c <= 223
  BY <1>0
<1>2. c \in 224..239 <=> 224 <= c /\ c <= 239
  BY <1>0
<1>3. c \in 240..244 <=> 240 <= c /\ c <= 244
  BY <1>0
<1> DEFINE A == c \in 194..223
           B == c \in 224..239
           C == c \in 240..244
<1>4. SizeOf(c) = IF A THEN 2 ELSE IF B THEN 3 ELSE IF C THEN 4 ELSE 0
  <2>1. (A => ~B /\ ~C) /\ (B => ~C)
    BY <1>0, <1>1, <1>2, <1>3
  <2>2. SizeOf(c) = CASE A -> 2 [] B -> 3 [] C -> 4 [] OTHER -> 0
    BY Zenon DEF SizeOf
  <2> HIDE DEF A, B, C
  <2> QED
    BY <2>1, <2>2
<1>5. /\ A <=> 194 <= c /\ c <= 223
      /\ B <=> 224 <= c /\ c <= 239
      /\ C <=> 240 <= c /\ c <= 244
  BY <1>1, <1>2, <1>3
<1> HIDE DEF A, B, C
<1> QED
  BY <1>0, <1>4, <1>5

\* What may be the k-th byte after c.
LEMMA TableIs ==
    ASSUME NEW c \in Byte, NEW b \in Byte
    PROVE  /\ b \in Table(c, 2) <=>
                 /\ 128 <= b /\ b <= 191
                 /\ c = 224 => 160 <= b
                 /\ c = 237 => b <= 159
                 /\ c = 240 => 144 <= b
                 /\ c = 244 => b <= 143
           /\ \A k : k # 2 => (b \in Table(c, k) <=> 128 <= b /\ b <= 191)
<1>0. b \in Int /\ c \in Int
  BY ByteIs
<1>1. b \in Second(c).lo..Second(c).hi <=>
                 /\ 128 <= b /\ b <= 191
                 /\ c = 224 => 160 <= b
                 /\ c = 237 => b <= 159
                 /\ c = 240 => 144 <= b
                 /\ c = 244 => b <= 143
  BY <1>0 DEF Second
<1>2. b \in 128..191 <=> 128 <= b /\ b <= 191
  BY <1>0
<1> QED
  BY <1>1, <1>2, Zenon DEF Table

\* A code point of that length, no surrogate and at most 10FFFF, is what the
\* tables of jsonutil.go take.
LEMMA UTF8Is ==
    ASSUME NEW s \in Seq(Byte)
    PROVE  IsUTF8(s) <=> /\ Len(s) \in {2, 3, 4} /\ SizeOf(s[1]) = Len(s)
                         /\ Refused(s) = {}
<1>0. Len(s) \in Nat /\ \A k \in 1..Len(s) : s[k] \in Byte
  BY LenProperties, ElementOfSeq
<1>1. CASE Len(s) = 2
  <2>1. 2..Len(s) = {2} /\ s[1] \in Byte /\ s[2] \in Byte
    BY <1>0, <1>1
  <2>2. s[1] \in Int /\ s[2] \in Int
    BY <2>1, ByteIs
  <2>3. (\A k \in 2..Len(s) : s[k] \in 128..191) <=> 128 <= s[2] /\ s[2] <= 191
    BY <2>1, <2>2, ContinuationIs
  <2>4. LeadRange(s[1], 2) <=> 192 <= s[1] /\ s[1] <= 223
    BY <2>2, LeadRanges
  <2>5. CodePoint(s) = 64 * (s[1] - 192) + (s[2] - 128)
    BY <1>1, SMT DEF CodePoint
  <2>6. IsUTF8(s) <=> /\ \A k \in 2..Len(s) : s[k] \in 128..191
                      /\ LeadRange(s[1], 2) /\ CodePoint(s) >= 128
    BY <1>1, SMT DEF IsUTF8, LeadRange
  <2>7. IsUTF8(s) <=> /\ 128 <= s[2] /\ s[2] <= 191
                      /\ 192 <= s[1] /\ s[1] <= 223
                      /\ 64 * (s[1] - 192) + (s[2] - 128) >= 128
    BY <2>3, <2>4, <2>5, <2>6
  <2>8. IsUTF8(s) <=> /\ 128 <= s[2] /\ s[2] <= 191 /\ 194 <= s[1] /\ s[1] <= 223
    BY <2>2, <2>7, TwoBytes, SMTT(40)
  <2>9. Refused(s) = {} <=> s[2] \in Table(s[1], 2)
    BY <2>1, RefusedIs
  <2>10. SizeOf(s[1]) = 2 <=> 194 <= s[1] /\ s[1] <= 223
    BY <2>1, SizeIs
  <2>11. s[2] \in Table(s[1], 2) <=>
                 /\ 128 <= s[2] /\ s[2] <= 191
                 /\ s[1] = 224 => 160 <= s[2]
                 /\ s[1] = 237 => s[2] <= 159
                 /\ s[1] = 240 => 144 <= s[2]
                 /\ s[1] = 244 => s[2] <= 143
    BY <2>1, TableIs
  <2>12. IsUTF8(s) <=> SizeOf(s[1]) = 2 /\ Refused(s) = {}
    BY <2>2, <2>8, <2>9, <2>10, <2>11
  <2> QED
    BY <1>1, <2>12
<1>2. CASE Len(s) = 3
  <2>1. 2..Len(s) = {2, 3} /\ s[1] \in Byte /\ s[2] \in Byte /\ s[3] \in Byte
    BY <1>0, <1>2
  <2>2. s[1] \in Int /\ s[2] \in Int /\ s[3] \in Int
    BY <2>1, ByteIs
  <2>3. (\A k \in 2..Len(s) : s[k] \in 128..191)
           <=> 128 <= s[2] /\ s[2] <= 191 /\ 128 <= s[3] /\ s[3] <= 191
    <3> DEFINE Cont(x) == x \in 128..191
    <3>1. \A x \in Int : Cont(x) <=> 128 <= x /\ x <= 191
      BY ContinuationIs
    <3>2. (\A k \in 2..Len(s) : s[k] \in 128..191) <=> \A k \in 2..Len(s) : Cont(s[k])
      BY Zenon
    <3> HIDE DEF Cont
    <3>3. (\A k \in {2, 3} : Cont(s[k])) <=> Cont(s[2]) /\ Cont(s[3])
      OBVIOUS
    <3>4. (\A k \in 2..Len(s) : Cont(s[k])) <=> \A k \in {2, 3} : Cont(s[k])
      BY <2>1, Zenon
    <3>5. (\A k \in 2..Len(s) : Cont(s[k])) <=> Cont(s[2]) /\ Cont(s[3])
      BY <3>3, <3>4, Zenon
    <3>6. Cont(s[2]) /\ Cont(s[3])
             <=> 128 <= s[2] /\ s[2] <= 191 /\ 128 <= s[3] /\ s[3] <= 191
      BY <2>2, <3>1
    <3> QED
      BY <3>2, <3>5, <3>6, Zenon
  <2>4. LeadRange(s[1], 3) <=> 224 <= s[1] /\ s[1] <= 239
    BY <2>2, LeadRanges
  <2>5. CodePoint(s) = 4096 * (s[1] - 224) + 64 * (s[2] - 128) + (s[3] - 128)
    BY <1>2, SMT DEF CodePoint
  <2>6. IsUTF8(s) <=> /\ \A k \in 2..Len(s) : s[k] \in 128..191
                      /\ LeadRange(s[1], 3) /\ CodePoint(s) >= 2048
                      /\ CodePoint(s) < 55296 \/ CodePoint(s) > 57343
    BY <1>2, SMT DEF IsUTF8, LeadRange
  <2> DEFINE G == CodePoint(s) >= 2048 /\ (CodePoint(s) < 55296 \/ CodePoint(s) > 57343)
  <2>7. ASSUME 224 <= s[1], s[1] <= 239, 128 <= s[2], s[2] <= 191,
               128 <= s[3], s[3] <= 191
        PROVE  G <=> (s[1] = 224 => 160 <= s[2]) /\ (s[1] = 237 => s[2] <= 159)
    <3>1. G <=> Scalar3(s[1], s[2], s[3])
      BY <2>5, SMT DEF Scalar3
    <3>2. Scalar3(s[1], s[2], s[3])
             <=> (s[1] = 224 => 160 <= s[2]) /\ (s[1] = 237 => s[2] <= 159)
      BY <2>2, <2>7, ThreeBytes, SMT
    <3> HIDE DEF G
    <3> QED
      BY <3>1, <3>2, Zenon
  <2>71. IsUTF8(s) <=> /\ \A k \in 2..Len(s) : s[k] \in 128..191
                       /\ LeadRange(s[1], 3) /\ G
    BY <2>6, SMT
  <2> HIDE DEF G
  <2>8. IsUTF8(s) <=> /\ 128 <= s[2] /\ s[2] <= 191 /\ 128 <= s[3] /\ s[3] <= 191
                      /\ 224 <= s[1] /\ s[1] <= 239
                      /\ s[1] = 224 => 160 <= s[2]
                      /\ s[1] = 237 => s[2] <= 159
    BY <2>3, <2>4, <2>7, <2>71, Zenon
  <2>9. Refused(s) = {} <=> s[2] \in Table(s[1], 2) /\ s[3] \in Table(s[1], 3)
    BY <2>1, RefusedIs
  <2>10. SizeOf(s[1]) = 3 <=> 224 <= s[1] /\ s[1] <= 239
    BY <2>1, SizeIs
  <2>11. s[2] \in Table(s[1], 2) <=>
                 /\ 128 <= s[2] /\ s[2] <= 191
                 /\ s[1] = 224 => 160 <= s[2]
                 /\ s[1] = 237 => s[2] <= 159
                 /\ s[1] = 240 => 144 <= s[2]
                 /\ s[1] = 244 => s[2] <= 143
    BY <2>1, TableIs
  <2>12. s[3] \in Table(s[1], 3) <=> 128 <= s[3] /\ s[3] <= 191
    BY <2>1, TableIs
  <2>13. IsUTF8(s) <=> SizeOf(s[1]) = 3 /\ Refused(s) = {}
    BY <2>2, <2>8, <2>9, <2>10, <2>11, <2>12
  <2> QED
    BY <1>2, <2>13
<1>3. CASE Len(s) = 4
  <2>1. 2..Len(s) = {2, 3, 4} /\ s[1] \in Byte /\ s[2] \in Byte
        /\ s[3] \in Byte /\ s[4] \in Byte
    BY <1>0, <1>3
  <2>2. s[1] \in Int /\ s[2] \in Int /\ s[3] \in Int /\ s[4] \in Int
    BY <2>1, ByteIs
  <2>3. (\A k \in 2..Len(s) : s[k] \in 128..191)
           <=> /\ 128 <= s[2] /\ s[2] <= 191 /\ 128 <= s[3] /\ s[3] <= 191
               /\ 128 <= s[4] /\ s[4] <= 191
    <3> DEFINE Cont(x) == x \in 128..191
    <3>1. \A x \in Int : Cont(x) <=> 128 <= x /\ x <= 191
      BY ContinuationIs
    <3>2. (\A k \in 2..Len(s) : s[k] \in 128..191) <=> \A k \in 2..Len(s) : Cont(s[k])
      BY Zenon
    <3> HIDE DEF Cont
    <3>3. (\A k \in {2, 3, 4} : Cont(s[k])) <=> Cont(s[2]) /\ Cont(s[3]) /\ Cont(s[4])
      OBVIOUS
    <3>4. (\A k \in 2..Len(s) : Cont(s[k])) <=> \A k \in {2, 3, 4} : Cont(s[k])
      BY <2>1, Zenon
    <3>5. (\A k \in 2..Len(s) : Cont(s[k])) <=> Cont(s[2]) /\ Cont(s[3]) /\ Cont(s[4])
      BY <3>3, <3>4, Zenon
    <3>6. Cont(s[2]) /\ Cont(s[3]) /\ Cont(s[4])
             <=> /\ 128 <= s[2] /\ s[2] <= 191 /\ 128 <= s[3] /\ s[3] <= 191
                 /\ 128 <= s[4] /\ s[4] <= 191
      BY <2>2, <3>1
    <3> QED
      BY <3>2, <3>5, <3>6, Zenon
  <2>4. LeadRange(s[1], 4) <=> 240 <= s[1] /\ s[1] <= 247
    BY <2>2, LeadRanges
  <2>5. CodePoint(s) = 262144 * (s[1] - 240) + 4096 * (s[2] - 128)
                       + 64 * (s[3] - 128) + (s[4] - 128)
    BY <1>3, SMT DEF CodePoint
  <2>6. IsUTF8(s) <=> /\ \A k \in 2..Len(s) : s[k] \in 128..191
                      /\ LeadRange(s[1], 4)
                      /\ CodePoint(s) >= 65536 /\ CodePoint(s) <= 1114111
    BY <1>3, SMT DEF IsUTF8, LeadRange
  <2> DEFINE G == CodePoint(s) >= 65536 /\ CodePoint(s) <= 1114111
  <2>7. ASSUME 240 <= s[1], s[1] <= 247, 128 <= s[2], s[2] <= 191,
               128 <= s[3], s[3] <= 191, 128 <= s[4], s[4] <= 191
        PROVE  G <=> /\ s[1] <= 244 /\ (s[1] = 240 => 144 <= s[2])
                     /\ s[1] = 244 => s[2] <= 143
    <3>1. G <=> Scalar4(s[1], s[2], s[3], s[4])
      BY <2>5, SMT DEF Scalar4
    <3>2. Scalar4(s[1], s[2], s[3], s[4])
             <=> /\ s[1] <= 244 /\ (s[1] = 240 => 144 <= s[2])
                 /\ s[1] = 244 => s[2] <= 143
      <4> DEFINE a == s[1]
                 b == s[2]
                 c == s[3]
                 d == s[4]
      <4>1. /\ a \in Int /\ b \in Int /\ c \in Int /\ d \in Int
            /\ 240 <= a /\ a <= 247 /\ 128 <= b /\ b <= 191
            /\ 128 <= c /\ c <= 191 /\ 128 <= d /\ d <= 191
        BY <2>2, <2>7
      <4> HIDE DEF a, b, c, d
      <4>2. Scalar4(a, b, c, d)
               <=> a <= 244 /\ (a = 240 => 144 <= b) /\ (a = 244 => b <= 143)
        BY <4>1, FourBytes
      <4> QED
        BY <4>2 DEF a, b, c, d
    <3> HIDE DEF G
    <3> QED
      BY <3>1, <3>2, Zenon
  <2>71. IsUTF8(s) <=> /\ \A k \in 2..Len(s) : s[k] \in 128..191
                       /\ LeadRange(s[1], 4) /\ G
    BY <2>6, SMT
  <2>72. s[1] <= 244 => s[1] <= 247
    BY <2>2
  <2> HIDE DEF G
  <2>8. IsUTF8(s) <=> /\ 128 <= s[2] /\ s[2] <= 191 /\ 128 <= s[3] /\ s[3] <= 191
                      /\ 128 <= s[4] /\ s[4] <= 191
                      /\ 240 <= s[1] /\ s[1] <= 244
                      /\ s[1] = 240 => 144 <= s[2]
                      /\ s[1] = 244 => s[2] <= 143
    BY <2>3, <2>4, <2>7, <2>71, <2>72, ZenonT(40)
  <2>9. Refused(s) = {} <=> /\ s[2] \in Table(s[1], 2) /\ s[3] \in Table(s[1], 3)
                            /\ s[4] \in Table(s[1], 4)
    BY <2>1, RefusedIs
  <2>10. SizeOf(s[1]) = 4 <=> 240 <= s[1] /\ s[1] <= 244
    BY <2>1, SizeIs
  <2>11. s[2] \in Table(s[1], 2) <=>
                 /\ 128 <= s[2] /\ s[2] <= 191
                 /\ s[1] = 224 => 160 <= s[2]
                 /\ s[1] = 237 => s[2] <= 159
                 /\ s[1] = 240 => 144 <= s[2]
                 /\ s[1] = 244 => s[2] <= 143
    BY <2>1, TableIs
  <2>12. s[3] \in Table(s[1], 3) <=> 128 <= s[3] /\ s[3] <= 191
    BY <2>1, TableIs
  <2>13. s[4] \in Table(s[1], 4) <=> 128 <= s[4] /\ s[4] <= 191
    BY <2>1, TableIs
  <2>14. IsUTF8(s) <=> SizeOf(s[1]) = 4 /\ Refused(s) = {}
    BY <2>2, <2>8, <2>9, <2>10, <2>11, <2>12, <2>13
  <2> QED
    BY <1>3, <2>14
<1>4. CASE Len(s) \notin {2, 3, 4}
  BY <1>4, SMT DEF IsUTF8
<1> QED
  BY <1>0, <1>1, <1>2, <1>3, <1>4

\* A character, without the ranges.
LEMMA CharIs ==
    ASSUME NEW v \in BOOLEAN, NEW s \in Seq(Byte)
    PROVE  IsChar(v, s) <=>
              \/ /\ Len(s) = 1 /\ 32 <= s[1] /\ s[1] # Quote /\ s[1] # Backslash
                 /\ v => s[1] < 128
              \/ /\ v /\ Len(s) \in {2, 3, 4} /\ SizeOf(s[1]) = Len(s)
                 /\ Refused(s) = {}
              \/ Len(s) = 2 /\ s[1] = Backslash /\ escapeClass(s[2]) = 1
              \/ Len(s) = 6 /\ s[1] = Backslash /\ s[2] = 117
                 /\ \A k \in 3..6 : isHexByte(s[k])
<1>0. Len(s) \in Nat /\ \A k \in 1..Len(s) : s[k] \in Byte
  BY LenProperties, ElementOfSeq
<1>1. Len(s) = 1 => (s[1] \in 32..127 \ {Quote, Backslash} <=>
                        32 <= s[1] /\ s[1] < 128 /\ s[1] # Quote /\ s[1] # Backslash)
  <2>1. ASSUME NEW c \in Int PROVE c \in 32..127 <=> 32 <= c /\ c < 128
    OBVIOUS
  <2>2. Len(s) = 1 => s[1] \in Int
    BY <1>0, ByteIs
  <2> QED
    BY <2>1, <2>2
<1>2. Len(s) = 1 => (s[1] >= 128 => 32 <= s[1] /\ s[1] # Quote /\ s[1] # Backslash)
  <2>1. ASSUME Len(s) = 1, s[1] >= 128
        PROVE  32 <= s[1] /\ s[1] # Quote /\ s[1] # Backslash
    <3>1. s[1] \in Int
      BY <1>0, <2>1, ByteIs
    <3> QED
      BY <2>1, <3>1 DEF Quote, Backslash
  <2> QED
    BY <2>1
<1>3. Len(s) = 1 => (s[1] >= 128 <=> ~(s[1] < 128))
  <2>1. Len(s) = 1 => s[1] \in Int
    BY <1>0, ByteIs
  <2> QED
    BY <2>1
<1>4. \A c : escapeClass(c) = 1 <=> c \in {34, 92, 47, 98, 102, 110, 114, 116}
  BY DEF escapeClass
<1>5. IsUTF8(s) <=> /\ Len(s) \in {2, 3, 4} /\ SizeOf(s[1]) = Len(s)
                    /\ Refused(s) = {}
  BY UTF8Is
<1> DEFINE A == s[1] \in 32..127 \ {Quote, Backslash}
           B == s[1] >= 128
           C == 32 <= s[1] /\ s[1] # Quote /\ s[1] # Backslash
           D == s[1] < 128
           E == Len(s) = 2 /\ s[1] = Backslash
                  /\ s[2] \in {34, 92, 47, 98, 102, 110, 114, 116}
           F == Len(s) = 6 /\ s[1] = Backslash /\ s[2] = 117
                  /\ \A k \in 3..6 : isHexByte(s[k])
           L == Len(s) = 1
<1>6. IsChar(v, s) <=> (L /\ A) \/ (~v /\ L /\ B) \/ (v /\ IsUTF8(s)) \/ E \/ F
  BY Zenon DEF IsChar
<1>7. (L => (A <=> C /\ D)) /\ (L => (B => C)) /\ (L => (B <=> ~D))
  BY <1>1, <1>2, <1>3, Zenon
<1>8. E <=> Len(s) = 2 /\ s[1] = Backslash /\ escapeClass(s[2]) = 1
  BY <1>4, Zenon
<1> HIDE DEF A, B, C, D, L, E, F
<1>9. IsChar(v, s) <=> \/ L /\ C /\ (v => D)
                       \/ (v /\ IsUTF8(s)) \/ E \/ F
  BY <1>6, <1>7, Zenon
<1> QED
  BY <1>5, <1>8, <1>9, Zenon DEF C, D, F, L

\* The length of a character is known from its first two bytes.
LEMMA CharLength ==
    ASSUME NEW v \in BOOLEAN, NEW s \in Seq(Byte), IsChar(v, s)
    PROVE  /\ Len(s) \in Sizes
           /\ s[1] # Quote
           /\ s[1] = Backslash => Len(s) >= 2
           /\ s[1] = Backslash /\ s[2] = 117 => Len(s) = 6
           /\ s[1] = Backslash /\ s[2] # 117 => Len(s) = 2
           /\ s[1] # Backslash /\ (v => s[1] < 128) => Len(s) = 1
           /\ s[1] # Backslash /\ v /\ ~(s[1] < 128) => Len(s) = SizeOf(s[1])
<1>0. Len(s) \in Nat /\ \A k \in 1..Len(s) : s[k] \in Byte
  BY LenProperties, ElementOfSeq
<1>1. CASE /\ Len(s) = 1 /\ 32 <= s[1] /\ s[1] # Quote /\ s[1] # Backslash
           /\ v => s[1] < 128
  <2>1. Len(s) \in Sizes
    BY <1>1 DEF Sizes
  <2> QED
    BY <1>1, <2>1, Zenon
<1>2. CASE /\ v /\ Len(s) \in {2, 3, 4} /\ SizeOf(s[1]) = Len(s)
           /\ Refused(s) = {}
  <2>1. s[1] \in Byte
    BY <1>0, <1>2
  <2>0. Len(s) \in {2, 3, 4} /\ SizeOf(s[1]) = Len(s) /\ v
    BY <1>2, Zenon
  <2>2. s[1] >= 194 /\ s[1] \in Int
    <3>1. SizeOf(s[1]) # 0
      BY <2>0
    <3> QED
      BY <2>1, <3>1, SizeIs, ByteIs
  <2>21. Len(s) \in Sizes
    BY <2>0 DEF Sizes
  <2>3. s[1] # Quote /\ s[1] # Backslash /\ ~(s[1] < 128)
    BY <2>2 DEF Quote, Backslash
  <2> QED
    BY <2>0, <2>21, <2>3, Zenon
<1>3. CASE Len(s) = 2 /\ s[1] = Backslash /\ escapeClass(s[2]) = 1
  <2>1. s[2] # 117 /\ Len(s) \in Sizes /\ Backslash # Quote /\ Len(s) >= 2
    BY <1>3 DEF escapeClass, Sizes, Quote, Backslash
  <2> QED
    BY <1>3, <2>1, Zenon
<1>4. CASE Len(s) = 6 /\ s[1] = Backslash /\ s[2] = 117
           /\ \A k \in 3..6 : isHexByte(s[k])
  <2>1. Len(s) \in Sizes /\ Backslash # Quote /\ Len(s) >= 2
    BY <1>4 DEF Sizes, Quote, Backslash
  <2> QED
    BY <1>4, <2>1, Zenon
<1>5. \/ /\ Len(s) = 1 /\ 32 <= s[1] /\ s[1] # Quote /\ s[1] # Backslash
         /\ v => s[1] < 128
      \/ /\ v /\ Len(s) \in {2, 3, 4} /\ SizeOf(s[1]) = Len(s)
         /\ Refused(s) = {}
      \/ Len(s) = 2 /\ s[1] = Backslash /\ escapeClass(s[2]) = 1
      \/ Len(s) = 6 /\ s[1] = Backslash /\ s[2] = 117
         /\ \A k \in 3..6 : isHexByte(s[k])
  BY CharIs, Zenon
<1> QED
  BY <1>1, <1>2, <1>3, <1>4, <1>5, Zenon

\* No character is the beginning of another.
LEMMA PrefixCode ==
    ASSUME NEW v \in BOOLEAN, NEW s \in Seq(Byte), IsChar(v, s),
           NEW t \in Seq(Byte), IsChar(v, t), Len(t) <= Len(s),
           \A k \in 1..Len(t) : t[k] = s[k]
    PROVE  Len(t) = Len(s)
<1>1. Len(t) \in Sizes /\ Len(s) \in Sizes
  BY CharLength
<1>2. t[1] = s[1] /\ (Len(t) >= 2 => t[2] = s[2])
  BY <1>1 DEF Sizes
<1>3. /\ s[1] = Backslash => Len(s) >= 2
      /\ s[1] = Backslash /\ s[2] = 117 => Len(s) = 6
      /\ s[1] = Backslash /\ s[2] # 117 => Len(s) = 2
      /\ s[1] # Backslash /\ (v => s[1] < 128) => Len(s) = 1
      /\ s[1] # Backslash /\ v /\ ~(s[1] < 128) => Len(s) = SizeOf(s[1])
  BY CharLength
<1>4. /\ t[1] = Backslash => Len(t) >= 2
      /\ t[1] = Backslash /\ t[2] = 117 => Len(t) = 6
      /\ t[1] = Backslash /\ t[2] # 117 => Len(t) = 2
      /\ t[1] # Backslash /\ (v => t[1] < 128) => Len(t) = 1
      /\ t[1] # Backslash /\ v /\ ~(t[1] < 128) => Len(t) = SizeOf(t[1])
  BY CharLength
<1> QED
  BY <1>2, <1>3, <1>4, Zenon

-----------------------------------------------------------------------------
(* Strings: what a text is made of. *)

\* A part of a concatenation, from its first or its second half.
LEMMA PartOfFirst ==
    ASSUME NEW s \in Seq(Byte), NEW x \in Seq(Byte), NEW i \in Nat \ {0},
           NEW j \in Nat, j <= Len(s)
    PROVE  /\ SubSeq(s \o x, i, j) = SubSeq(s, i, j) /\ SubSeq(s, i, j) \in Seq(Byte)
           /\ Len(SubSeq(s, i, j)) = IF i <= j THEN j - i + 1 ELSE 0
           /\ \A k \in 1..j - i + 1 : SubSeq(s, i, j)[k] = s[i + k - 1]
<1>0. Len(s) \in Nat /\ Len(x) \in Nat
  BY LenProperties
<1>1. \A k \in 1..Len(s) : s[k] \in Byte
  BY ElementOfSeq
<1>2. \A k \in i..j : s[k] \in Byte /\ (s \o x)[k] = s[k]
  <2> SUFFICES ASSUME NEW k \in i..j PROVE s[k] \in Byte /\ (s \o x)[k] = s[k]
    OBVIOUS
  <2>1. k \in 1..Len(s) /\ k \in 1..Len(s) + Len(x) /\ k <= Len(s)
    BY <1>0
  <2> QED
    BY <1>1, <2>1, ConcatProperties
<1>3. /\ SubSeq(s, i, j) \in Seq(Byte)
      /\ Len(SubSeq(s, i, j)) = IF i <= j THEN j - i + 1 ELSE 0
      /\ \A k \in 1..j - i + 1 : SubSeq(s, i, j)[k] = s[i + k - 1]
  BY <1>2, SubSeqProperties
<1>4. /\ SubSeq(s \o x, i, j) \in Seq(Byte)
      /\ Len(SubSeq(s \o x, i, j)) = IF i <= j THEN j - i + 1 ELSE 0
      /\ \A k \in 1..j - i + 1 : SubSeq(s \o x, i, j)[k] = (s \o x)[i + k - 1]
  BY <1>2, SubSeqProperties
<1>5. SubSeq(s \o x, i, j) = SubSeq(s, i, j)
  <2>1. CASE i <= j
    <3>1. \A k \in 1..j - i + 1 : i + k - 1 \in i..j
      BY <2>1
    <3>2. \A k \in 1..j - i + 1 : SubSeq(s \o x, i, j)[k] = SubSeq(s, i, j)[k]
      BY <1>2, <1>3, <1>4, <3>1
    <3>3. Len(SubSeq(s, i, j)) = j - i + 1 /\ Len(SubSeq(s \o x, i, j)) = j - i + 1
      BY <1>3, <1>4, <2>1
    <3> QED
      BY <1>3, <1>4, <3>2, <3>3, SeqEqual
  <2>2. CASE i > j
    BY <2>2, SubSeqEmpty
  <2> QED
    BY <2>1, <2>2
<1> QED
  BY <1>3, <1>5

LEMMA PartOfSecond ==
    ASSUME NEW s \in Seq(Byte), NEW x \in Seq(Byte), NEW n \in 0..Len(x)
    PROVE  SubSeq(s \o x, Len(s) + 1, Len(s) + n) = SubSeq(x, 1, n)
<1>0. Len(s) \in Nat /\ Len(x) \in Nat /\ n \in Nat /\ n <= Len(x)
  BY LenProperties
<1>1. \A k \in 1..Len(x) : x[k] \in Byte
  BY ElementOfSeq
<1>2. \A k \in 1..n : (s \o x)[Len(s) + k] = x[k]
  <2> SUFFICES ASSUME NEW k \in 1..n PROVE (s \o x)[Len(s) + k] = x[k]
    OBVIOUS
  <2>1. Len(s) + k \in 1..Len(s) + Len(x) /\ ~(Len(s) + k <= Len(s))
        /\ Len(s) + k - Len(s) = k
    BY <1>0
  <2> QED
    BY <2>1, ConcatProperties
<1>3. \A k \in 1..n : x[k] \in Byte
  BY <1>0, <1>1
<1>4. \A k \in Len(s) + 1..Len(s) + n : (s \o x)[k] \in Byte
  <2> SUFFICES ASSUME NEW k \in Len(s) + 1..Len(s) + n PROVE (s \o x)[k] \in Byte
    OBVIOUS
  <2>1. k - Len(s) \in 1..n /\ Len(s) + (k - Len(s)) = k
    BY <1>0
  <2> QED
    BY <1>2, <1>3, <2>1
<1>5. /\ SubSeq(x, 1, n) \in Seq(Byte)
      /\ Len(SubSeq(x, 1, n)) = IF 1 <= n THEN n - 1 + 1 ELSE 0
      /\ \A k \in 1..n - 1 + 1 : SubSeq(x, 1, n)[k] = x[1 + k - 1]
  BY <1>0, <1>3, SubSeqProperties
<1> DEFINE y == SubSeq(s \o x, Len(s) + 1, Len(s) + n)
           i == Len(s) + 1
           j == Len(s) + n
<1>6. /\ y \in Seq(Byte)
      /\ Len(y) = IF i <= j THEN j - i + 1 ELSE 0
      /\ \A k \in 1..j - i + 1 : y[k] = (s \o x)[i + k - 1]
  <2>1. i \in Int /\ j \in Int /\ \A k \in i..j : (s \o x)[k] \in Byte
    BY <1>0, <1>4
  <2> DEFINE z == s \o x
  <2>2. y = SubSeq(z, i, j)
    OBVIOUS
  <2>3. \A k \in i..j : z[k] \in Byte
    BY <2>1
  <2> HIDE DEF i, j, y, z
  <2>4. /\ y \in Seq(Byte)
        /\ Len(y) = IF i <= j THEN j - i + 1 ELSE 0
        /\ \A k \in 1..j - i + 1 : y[k] = z[i + k - 1]
    BY <2>1, <2>2, <2>3, SubSeqProperties
  <2> QED
    BY <2>4 DEF z
<1>7. j - i + 1 = n /\ (i <= j <=> 1 <= n) /\ n - 1 + 1 = n
      /\ \A k \in 1..n : i + k - 1 = Len(s) + k /\ 1 + k - 1 = k
  BY <1>0
<1> HIDE DEF i, j, y
<1>8. Len(y) = n /\ Len(SubSeq(x, 1, n)) = n
  BY <1>0, <1>5, <1>6, <1>7
<1>9. \A k \in 1..n : y[k] = SubSeq(x, 1, n)[k]
  BY <1>2, <1>5, <1>6, <1>7
<1> QED
  BY <1>5, <1>6, <1>8, <1>9, SeqEqual DEF y

\* The whole of the second part.
LEMMA SecondPart ==
    ASSUME NEW s \in Seq(Byte), NEW x \in Seq(Byte)
    PROVE  SubSeq(s \o x, Len(s) + 1, Len(s \o x)) = x
<1>1. Len(x) \in Nat /\ Len(x) \in 0..Len(x) /\ Len(s \o x) = Len(s) + Len(x)
  BY LenProperties, ConcatProperties
<1>2. SubSeq(s \o x, Len(s) + 1, Len(s) + Len(x)) = SubSeq(x, 1, Len(x))
  BY <1>1, PartOfSecond
<1>3. SubSeq(x, 1, Len(x)) = x
  BY SubSeqFull
<1> QED
  BY <1>1, <1>2, <1>3

\* Where the characters of a text end does not depend on what follows it.
LEMMA EndsMore ==
    ASSUME NEW v, NEW s \in Seq(Byte), NEW x \in Seq(Byte), NEW l \in 0..Len(s)
    PROVE  l \in Ends(v, s \o x) <=> l \in Ends(v, s)
<1>0. Len(s) \in Nat /\ Len(x) \in Nat /\ s \o x \in Seq(Byte)
      /\ Len(s \o x) = Len(s) + Len(x)
  BY LenProperties, ConcatProperties
<1> DEFINE Same(k) == k \in Ends(v, s \o x) <=> k \in Ends(v, s)
           S == {m \in Nat : \A k \in 0..m : k <= Len(s) => Same(k)}
<1>1. 0 \in S
  <2>1. Same(0)
    BY <1>0, EndsIs
  <2> HIDE DEF Same
  <2> QED
    BY <2>1
<1>2. ASSUME NEW m \in Nat, m \in S PROVE m + 1 \in S
  <2> SUFFICES ASSUME m + 1 <= Len(s) PROVE Same(m + 1)
    <3> HIDE DEF Same
    <3>1. \A k \in 0..m + 1 : k \in 0..m \/ k = m + 1
      OBVIOUS
    <3> QED
      BY <1>2, <3>1
  <2> DEFINE k == m + 1
  <2>1. k \in 1..Len(s) /\ k \in 1..Len(s \o x) /\ k \in Nat /\ k <= Len(s)
    BY <1>0
  <2>2. \A n \in Sizes : n <= k => k - n \in 0..m /\ k - n <= Len(s)
                                   /\ k - n + 1 \in Nat \ {0}
    BY <1>0 DEF Sizes
  <2> HIDE DEF k
  <2>3. \A n \in Sizes : n <= k => CharAt(s \o x, k, n) = CharAt(s, k, n)
    <3> SUFFICES ASSUME NEW n \in Sizes, n <= k
                 PROVE  CharAt(s \o x, k, n) = CharAt(s, k, n)
      OBVIOUS
    <3>1. k - n + 1 \in Nat \ {0} /\ k \in Nat /\ k <= Len(s)
      BY <2>1, <2>2
    <3> DEFINE i == k - n + 1
    <3>2. SubSeq(s \o x, i, k) = SubSeq(s, i, k)
      <4>1. i \in Nat \ {0}
        BY <3>1
      <4> HIDE DEF i
      <4> QED
        BY <3>1, <4>1, PartOfFirst
    <3> QED
      BY <3>2 DEF CharAt
  <2>4. \A n \in Sizes : n <= k => Same(k - n)
    <3> HIDE DEF Same
    <3> QED
      BY <1>2, <2>2
  <2>5. k \in Ends(v, s) <=>
            \E n \in Sizes : /\ n <= k /\ IsChar(v, CharAt(s, k, n))
                             /\ k - n \in Ends(v, s)
    BY <2>1, EndsIs
  <2>6. k \in Ends(v, s \o x) <=>
            \E n \in Sizes : /\ n <= k /\ IsChar(v, CharAt(s \o x, k, n))
                             /\ k - n \in Ends(v, s \o x)
    BY <1>0, <2>1, EndsIs
  <2>7. Same(k)
    BY <2>3, <2>4, <2>5, <2>6, Zenon
  <2> QED
    BY <2>7 DEF k
<1> HIDE DEF S, Same
<1>3. l \in S
  BY <1>1, <1>2, Induction
<1>4. Same(l)
  BY <1>0, <1>3 DEF S
<1> QED
  BY <1>4 DEF Same

\* Between two ends there is a character that starts at the first and ends
\* before or at the second.
LEMMA CharFollows ==
    ASSUME NEW v \in BOOLEAN, NEW s \in Seq(Byte), NEW l \in Nat
    PROVE  l \in Ends(v, s) =>
              \A j \in Ends(v, s) : j < l =>
                 \E n \in Sizes : j + n <= l /\ IsChar(v, SubSeq(s, j + 1, j + n))
<1>0. Len(s) \in Nat /\ \A k \in 1..Len(s) : s[k] \in Byte
  BY LenProperties, ElementOfSeq
<1> DEFINE E == Ends(v, s)
           From(j, k) == \E n \in Sizes : j + n <= k /\ IsChar(v, SubSeq(s, j + 1, j + n))
           S == {m \in Nat : \A k \in 0..m : k \in E => \A j \in E : j < k => From(j, k)}
<1>1. E \subseteq 0..Len(s)
  BY EndsIs
<1>2. 0 \in S
  <2>1. \A j \in E : ~(j < 0)
    BY <1>0, <1>1
  <2> HIDE DEF E, From
  <2> QED
    BY <2>1
<1>3. ASSUME NEW m \in Nat, m \in S PROVE m + 1 \in S
  <2> SUFFICES ASSUME m + 1 \in E, NEW j \in E, j < m + 1 PROVE From(j, m + 1)
    <3> HIDE DEF E, From
    <3>1. \A k \in 0..m + 1 : k \in 0..m \/ k = m + 1
      OBVIOUS
    <3> QED
      BY <1>3, <3>1
  <2>1. m + 1 \in 1..Len(s) /\ j \in Nat
    BY <1>0, <1>1
  <2>2. PICK n \in Sizes : /\ n <= m + 1 /\ IsChar(v, CharAt(s, m + 1, n))
                           /\ (m + 1) - n \in E
    <3> DEFINE R(k) == \E n \in Sizes : /\ n <= k /\ IsChar(v, CharAt(s, k, n))
                                        /\ k - n \in Ends(v, s)
    <3>1. m + 1 \in Ends(v, s)
      OBVIOUS
    <3>2. \A k \in 1..Len(s) : k \in Ends(v, s) => R(k)
      BY EndsIs
    <3>3. R(m + 1)
      <4> HIDE DEF R
      <4> QED
        BY <2>1, <3>1, <3>2
    <3> QED
      BY <3>3, Zenon
  <2> DEFINE i == (m + 1) - n
  <2>3. n \in Nat \ {0} /\ i \in Nat /\ i + n = m + 1 /\ i <= m
    BY <2>2 DEF Sizes
  <2>4. IsChar(v, SubSeq(s, i + 1, i + n))
    BY <2>2, <2>3 DEF CharAt
  <2>5. i \in E
    BY <2>2
  <2> HIDE DEF i
  <2>6. CASE j = i
    BY <2>3, <2>4, <2>6
  <2>7. CASE j < i
    <3>1. From(j, i)
      <4> HIDE DEF E, From
      <4> QED
        BY <1>3, <2>3, <2>5, <2>7
    <3>2. PICK q \in Sizes : j + q <= i /\ IsChar(v, SubSeq(s, j + 1, j + q))
      BY <3>1
    <3>3. q \in Nat
      BY DEF Sizes
    <3>4. j + q <= m + 1
      BY <2>1, <2>3, <3>2, <3>3
    <3> QED
      BY <3>2, <3>4
  <2>8. CASE i < j
    <3>0. j \in 0..m
      BY <2>1, <2>8
    <3>1. From(i, j)
      <4> HIDE DEF E, From
      <4> QED
        BY <1>3, <2>5, <2>8, <3>0
    <3>2. PICK q \in Sizes : i + q <= j /\ IsChar(v, SubSeq(s, i + 1, i + q))
      BY <3>1
    <3>3. q \in Nat \ {0} /\ i + q <= Len(s) /\ i + n <= Len(s) /\ q < n /\ i + 1 \in Nat \ {0}
          /\ i + q \in Nat /\ i + n \in Nat
      BY <2>1, <2>3, <3>0, <3>2 DEF Sizes
    <3>4. /\ SubSeq(s, i + 1, i + q) \in Seq(Byte)
          /\ Len(SubSeq(s, i + 1, i + q)) = q
          /\ \A k \in 1..q : SubSeq(s, i + 1, i + q)[k] = s[i + k]
      <4>1. \A k \in i + 1..i + q : s[k] \in Byte
        BY <1>0, <2>3, <3>3
      <4>2. /\ SubSeq(s, i + 1, i + q) \in Seq(Byte)
            /\ Len(SubSeq(s, i + 1, i + q)) =
                  IF i + 1 <= i + q THEN i + q - (i + 1) + 1 ELSE 0
            /\ \A k \in 1..i + q - (i + 1) + 1 :
                  SubSeq(s, i + 1, i + q)[k] = s[i + 1 + k - 1]
        BY <2>3, <3>3, <4>1, SubSeqProperties
      <4>3. i + q - (i + 1) + 1 = q /\ i + 1 <= i + q
            /\ \A k \in 1..q : i + 1 + k - 1 = i + k
        BY <2>3, <3>3
      <4> QED
        BY <4>2, <4>3
    <3>5. /\ SubSeq(s, i + 1, i + n) \in Seq(Byte)
          /\ Len(SubSeq(s, i + 1, i + n)) = n
          /\ \A k \in 1..n : SubSeq(s, i + 1, i + n)[k] = s[i + k]
      <4>1. \A k \in i + 1..i + n : s[k] \in Byte
        BY <1>0, <2>3, <3>3
      <4>2. /\ SubSeq(s, i + 1, i + n) \in Seq(Byte)
            /\ Len(SubSeq(s, i + 1, i + n)) =
                  IF i + 1 <= i + n THEN i + n - (i + 1) + 1 ELSE 0
            /\ \A k \in 1..i + n - (i + 1) + 1 :
                  SubSeq(s, i + 1, i + n)[k] = s[i + 1 + k - 1]
        BY <2>3, <3>3, <4>1, SubSeqProperties
      <4>3. i + n - (i + 1) + 1 = n /\ i + 1 <= i + n
            /\ \A k \in 1..n : i + 1 + k - 1 = i + k
        BY <2>3, <3>3
      <4> QED
        BY <4>2, <4>3
    <3> DEFINE t == SubSeq(s, i + 1, i + q)
               u == SubSeq(s, i + 1, i + n)
    <3>6. \A k \in 1..q : t[k] = u[k]
      BY <2>3, <3>3, <3>4, <3>5
    <3>7. Len(t) = Len(u)
      <4>1. IsChar(v, t) /\ IsChar(v, u)
        BY <2>4, <3>2
      <4>2. t \in Seq(Byte) /\ u \in Seq(Byte) /\ Len(t) = q /\ Len(u) = n
        BY <3>4, <3>5
      <4> HIDE DEF t, u
      <4>3. Len(t) <= Len(u) /\ \A k \in 1..Len(t) : t[k] = u[k]
        BY <2>3, <3>3, <3>6, <4>2
      <4> QED
        BY <4>1, <4>2, <4>3, PrefixCode
    <3>8. q = n
      BY <3>4, <3>5, <3>7
    <3> QED
      BY <2>3, <3>3, <3>8
  <2>9. j = i \/ j < i \/ i < j
    BY <2>1, <2>3
  <2> QED
    BY <2>6, <2>7, <2>8, <2>9
<1>4. \A k \in Nat : k \in S => k + 1 \in S
  <2> HIDE DEF S
  <2> QED
    BY <1>3
<1>5. l \in S
  <2> HIDE DEF S
  <2> QED
    BY <1>2, <1>4, Induction
<1>6. l \in 0..l
  OBVIOUS
<1> HIDE DEF E, From
<1>7. l \in E => \A j \in E : j < l => From(j, l)
  BY <1>5, <1>6
<1> QED
  BY <1>7 DEF E, From

\* The empty text is made of characters.
LEMMA BodyEmpty ==
    ASSUME NEW v
    PROVE  IsBody(v, <<>>)
<1>1. <<>> \in Seq(Byte) /\ Len(<<>>) = 0
  OBVIOUS
<1> QED
  BY <1>1, EndsIs DEF IsBody

\* One more character.
LEMMA BodyMore ==
    ASSUME NEW v, NEW b \in Seq(Byte), IsBody(v, b), NEW s \in Seq(Byte), IsChar(v, s),
           Len(s) \in Sizes
    PROVE  IsBody(v, b \o s)
<1>0. Len(b) \in Nat /\ Len(s) \in Nat \ {0} /\ b \o s \in Seq(Byte)
      /\ Len(b \o s) = Len(b) + Len(s)
  <2>1. Len(s) \in Nat \ {0}
    <3>1. \A n \in Sizes : n \in Nat \ {0}
      BY DEF Sizes
    <3> QED
      BY <3>1
  <2>2. Len(b) \in Nat
    BY LenProperties
  <2> QED
    BY <2>1, <2>2, ConcatProperties
<1> DEFINE k == Len(b \o s)
           n == Len(s)
           R(x, y) == y <= x /\ IsChar(v, CharAt(b \o s, x, y)) /\ x - y \in Ends(v, b \o s)
<1>1. k \in 1..Len(b \o s) /\ n <= k /\ k - n = Len(b) /\ Len(b) \in 0..Len(b)
      /\ k - n + 1 = Len(b) + 1
  BY <1>0
<1>2. Len(b) \in Ends(v, b \o s)
  BY <1>1, EndsMore DEF IsBody
<1>3. CharAt(b \o s, k, n) = s
  <2>1. SubSeq(b \o s, Len(b) + 1, Len(b \o s)) = s
    BY SecondPart
  <2> QED
    BY <1>1, <2>1 DEF CharAt
<1>4. R(k, n)
  BY <1>1, <1>2, <1>3
<1>5. \A x \in 1..Len(b \o s) : (\E y \in Sizes : R(x, y)) => x \in Ends(v, b \o s)
  BY <1>0, EndsIs
<1> HIDE DEF R, k, n
<1>6. k \in Ends(v, b \o s)
  BY <1>1, <1>4, <1>5 DEF n
<1> QED
  BY <1>6 DEF IsBody, k

\* No character starts r.
NoChar(v, r) == \A n \in 1..Len(r) : ~IsChar(v, SubSeq(r, 1, n))

\* What follows the last character of a text, when no character starts it.
LEMMA LastEnd ==
    ASSUME NEW v \in BOOLEAN, NEW b \in Seq(Byte), IsBody(v, b), NEW r \in Seq(Byte),
           NoChar(v, r)
    PROVE  Max(Ends(v, b \o r)) = Len(b)
<1>0. Len(b) \in Nat /\ Len(r) \in Nat /\ b \o r \in Seq(Byte)
      /\ Len(b \o r) = Len(b) + Len(r)
  BY LenProperties, ConcatProperties
<1> DEFINE E == Ends(v, b \o r)
<1>1. Len(b) \in E
  <2>1. Len(b) \in 0..Len(b)
    BY <1>0
  <2> QED
    BY <2>1, EndsMore DEF IsBody
<1>2. E \subseteq 0..Len(b) + Len(r)
  BY <1>0, EndsIs
<1>3. ASSUME NEW l \in E PROVE l <= Len(b)
  <2> SUFFICES ASSUME Len(b) < l PROVE FALSE
    BY <1>0, <1>2, <1>3
  <2>1. l \in Nat /\ l <= Len(b) + Len(r)
    BY <1>0, <1>2, <1>3
  <2>2. PICK n \in Sizes : /\ Len(b) + n <= l
                           /\ IsChar(v, SubSeq(b \o r, Len(b) + 1, Len(b) + n))
    <3> DEFINE From(j, k) == \E n \in Sizes : j + n <= k /\ IsChar(v, SubSeq(b \o r, j + 1, j + n))
    <3>1. \A j \in E : j < l => From(j, l)
      BY <1>0, <1>3, <2>1, CharFollows
    <3>2. From(Len(b), l)
      <4> HIDE DEF From, E
      <4> QED
        BY <1>1, <3>1
    <3> QED
      BY <3>2
  <2>3. n \in 1..Len(r) /\ n \in 0..Len(r)
    BY <1>0, <2>1, <2>2 DEF Sizes
  <2>4. SubSeq(b \o r, Len(b) + 1, Len(b) + n) = SubSeq(r, 1, n)
    BY <2>3, PartOfSecond
  <2>5. IsChar(v, SubSeq(r, 1, n))
    BY <2>2, <2>4
  <2> QED
    BY <2>3, <2>5 DEF NoChar
<1> HIDE DEF E
<1>4. \E x \in E : \A y \in E : x >= y
  <2>1. \A y \in E : Len(b) >= y
    BY <1>0, <1>2, <1>3
  <2> QED
    BY <1>1, <2>1
<1> DEFINE M == Max(E)
<1>5. M \in E /\ \A y \in E : M >= y
  BY <1>4 DEF Max
<1> HIDE DEF M
<1>6. M = Len(b)
  BY <1>0, <1>1, <1>2, <1>3, <1>5
<1> QED
  BY <1>6 DEF M, E

\* A text of whole characters and the beginning of one can go on.
LEMMA StringViable ==
    ASSUME NEW v \in BOOLEAN, NEW b \in Seq(Byte), IsBody(v, b), NEW r \in Seq(Byte),
           NoChar(v, r)
    PROVE  StartsString(v, b \o r) <=> r = <<>> \/ StartsChar(v, r) \/ r = <<Quote>>
<1>0. Len(b) \in Nat /\ Len(r) \in Nat /\ b \o r \in Seq(Byte)
      /\ Len(b \o r) = Len(b) + Len(r)
  BY LenProperties, ConcatProperties
<1>1. Max(Ends(v, b \o r)) = Len(b)
  BY LastEnd
<1>2. SubSeq(b \o r, Len(b) + 1, Len(b \o r)) = r
  BY SecondPart
<1>3. Len(b) = Len(b \o r) <=> r = <<>>
  <2>1. Len(b) = Len(b \o r) <=> Len(r) = 0
    BY <1>0
  <2>2. Len(r) = 0 <=> r = <<>>
    BY EmptySeq
  <2> QED
    BY <2>1, <2>2
<1>4. Len(b) = Len(b \o r) - 1 /\ Last(b \o r) = Quote <=> r = <<Quote>>
  <2>1. Len(b) = Len(b \o r) - 1 <=> Len(r) = 1
    <3>1. \A x, y, z \in Nat : z = x + y => (x = z - 1 <=> y = 1)
      OBVIOUS
    <3>2. Len(b \o r) \in Nat
      BY <1>0
    <3> QED
      BY <1>0, <3>1, <3>2
  <2>2. ASSUME Len(r) = 1 PROVE Last(b \o r) = r[1]
    <3>1. Len(b \o r) \in 1..Len(b) + Len(r) /\ ~(Len(b \o r) <= Len(b))
          /\ Len(b \o r) - Len(b) = 1
      BY <1>0, <2>2
    <3>2. (b \o r)[Len(b \o r)] = r[1]
      BY <3>1, ConcatProperties
    <3> QED
      BY <3>2 DEF Last
  <2>3. Len(r) = 1 /\ r[1] = Quote <=> r = <<Quote>>
    <3>1. <<Quote>> \in Seq(Byte) /\ Len(<<Quote>>) = 1 /\ <<Quote>>[1] = Quote
      BY DEF Byte, Quote
    <3>2. ASSUME Len(r) = 1, r[1] = Quote PROVE r = <<Quote>>
      BY <3>1, <3>2, SeqEqual
    <3> QED
      BY <3>1, <3>2
  <2> QED
    BY <2>1, <2>2, <2>3
<1> QED
  BY <1>1, <1>2, <1>3, <1>4, Zenon DEF StartsString

-----------------------------------------------------------------------------
(* What follows the last whole character: nothing, or the beginning of one. *)

\* A sequence of UTF-8 that the table takes so far, and is not whole.
Partial(r) ==
    1 <= Len(r) /\ Len(r) <= 3 /\ SizeOf(r[1]) > Len(r) /\ Refused(r) = {}

\* What the state machine remembers of it.
Remembers(r, u) ==
    u = IF Len(r) = 1 THEN Lead(r[1])
        ELSE [need |-> SizeOf(r[1]) - Len(r), lo |-> 128, hi |-> 191]

PartialHex(r, h) ==
    /\ 2 <= Len(r) /\ Len(r) <= 5 /\ h = 6 - Len(r)
    /\ r[1] = Backslash /\ r[2] = 117
    /\ \A k \in 3..Len(r) : isHexByte(r[k])

Open(v, r, e, h, u) ==
    \/ r = <<>> /\ ~e /\ h = 0 /\ u.need = 0
    \/ r = <<Backslash>> /\ e /\ h = 0 /\ u.need = 0
    \/ PartialHex(r, h) /\ ~e /\ u.need = 0
    \/ v /\ Partial(r) /\ Remembers(r, u) /\ ~e /\ h = 0

\* The beginning of a text.
LEMMA FirstBytes ==
    ASSUME NEW r \in Seq(Byte), NEW n \in 1..Len(r)
    PROVE  /\ SubSeq(r, 1, n) \in Seq(Byte) /\ Len(SubSeq(r, 1, n)) = n
           /\ \A k \in 1..n : SubSeq(r, 1, n)[k] = r[k]
<1>1. Len(r) \in Nat /\ \A k \in 1..Len(r) : r[k] \in Byte
  BY LenProperties, ElementOfSeq
<1>2. n \in Int /\ 1 <= n /\ n - 1 + 1 = n /\ \A k \in 1..n : 1 + k - 1 = k /\ k \in 1..Len(r)
  BY <1>1
<1>3. \A k \in 1..n : r[k] \in Byte
  BY <1>1, <1>2
<1>4. /\ SubSeq(r, 1, n) \in Seq(Byte)
      /\ Len(SubSeq(r, 1, n)) = IF 1 <= n THEN n - 1 + 1 ELSE 0
      /\ \A k \in 1..n - 1 + 1 : SubSeq(r, 1, n)[k] = r[1 + k - 1]
  BY <1>2, <1>3, SubSeqProperties
<1> QED
  BY <1>2, <1>4

\* The text with a byte more.
LEMMA AddByte ==
    ASSUME NEW r \in Seq(Byte), NEW c \in Byte
    PROVE  /\ r \o <<c>> \in Seq(Byte) /\ Len(r \o <<c>>) = Len(r) + 1
           /\ \A k \in 1..Len(r) : (r \o <<c>>)[k] = r[k]
           /\ (r \o <<c>>)[Len(r) + 1] = c
<1>1. Len(r) \in Nat
  BY LenProperties
<1>2. /\ <<c>> \in Seq(Byte) /\ Len(<<c>>) = 1 /\ <<c>>[1] = c
  BY OneByte
<1>3. /\ r \o <<c>> \in Seq(Byte) /\ Len(r \o <<c>>) = Len(r) + Len(<<c>>)
      /\ \A k \in 1..Len(r) + Len(<<c>>) :
            (r \o <<c>>)[k] = IF k <= Len(r) THEN r[k] ELSE <<c>>[k - Len(r)]
  BY <1>2, ConcatProperties
<1>4. Len(r) + 1 \in 1..Len(r) + 1 /\ ~(Len(r) + 1 <= Len(r)) /\ Len(r) + 1 - Len(r) = 1
      /\ \A k \in 1..Len(r) : k \in 1..Len(r) + 1 /\ k <= Len(r)
  BY <1>1
<1> QED
  BY <1>2, <1>3, <1>4

\* No byte of a table is below 80.
LEMMA TableIsHigh ==
    ASSUME NEW c \in Byte, NEW b \in Byte, NEW k, b \in Table(c, k)
    PROVE  128 <= b /\ b <= 191
<1>1. CASE k = 2
  BY <1>1, TableIs
<1>2. CASE k # 2
  BY <1>2, TableIs
<1> QED
  BY <1>1, <1>2

\* Behind the second byte all tables are alike.
LEMMA TableRest ==
    ASSUME NEW c \in Byte, NEW b \in Byte, 128 <= b, b <= 191, NEW k, k # 2
    PROVE  b \in Table(c, k)
BY TableIs

\* The state machine and the table agree.
LEMMA LeadIs ==
    ASSUME NEW c \in Byte
    PROVE  /\ SizeOf(c) = 0 => Lead(c) = NoSequence
           /\ SizeOf(c) # 0 =>
                 /\ Lead(c) = [need |-> SizeOf(c) - 1, lo |-> Second(c).lo,
                               hi |-> Second(c).hi]
                 /\ Lead(c) # NoSequence
<1>0. c \in Int
  BY ByteIs
<1>1. CASE c \in 194..223
  BY <1>1 DEF SizeOf, Second, Lead, NoSequence
<1>2. CASE c = 224
  BY <1>2 DEF SizeOf, Second, Lead, NoSequence
<1>3. CASE c \in 225..236 \cup {238, 239}
  BY <1>3 DEF SizeOf, Second, Lead, NoSequence
<1>4. CASE c = 237
  BY <1>4 DEF SizeOf, Second, Lead, NoSequence
<1>5. CASE c = 240
  BY <1>5 DEF SizeOf, Second, Lead, NoSequence
<1>6. CASE c \in 241..243
  BY <1>6 DEF SizeOf, Second, Lead, NoSequence
<1>7. CASE c = 244
  BY <1>7 DEF SizeOf, Second, Lead, NoSequence
<1>8. CASE c < 194 \/ c > 244
  <2>1. SizeOf(c) = 0
    BY <1>0, <1>8, SizeIs
  <2>2. c \notin 194..223 /\ c # 224 /\ c \notin 225..236 \cup {238, 239} /\ c # 237
        /\ c # 240 /\ c \notin 241..243 /\ c # 244
    BY <1>0, <1>8
  <2>3. Lead(c) = NoSequence
    BY <2>2 DEF Lead
  <2> QED
    BY <2>1, <2>3
<1>9. \/ c \in 194..223 \/ c = 224 \/ c \in 225..236 \cup {238, 239} \/ c = 237
      \/ c = 240 \/ c \in 241..243 \/ c = 244 \/ c < 194 \/ c > 244
  BY <1>0
<1> QED
  BY <1>1, <1>2, <1>3, <1>4, <1>5, <1>6, <1>7, <1>8, <1>9

\* No character starts the beginning of one.
LEMMA OpenNoChar ==
    ASSUME NEW v \in BOOLEAN, NEW r \in Seq(Byte), NEW e, NEW h, NEW u, Open(v, r, e, h, u)
    PROVE  NoChar(v, r)
<1> SUFFICES ASSUME NEW n \in 1..Len(r), IsChar(v, SubSeq(r, 1, n)) PROVE FALSE
  BY DEF NoChar
<1> DEFINE p == SubSeq(r, 1, n)
<1>0. Len(r) \in Nat /\ n \in Nat /\ 1 <= n /\ n <= Len(r)
  BY LenProperties
<1>1. /\ p \in Seq(Byte) /\ Len(p) = n /\ \A k \in 1..n : p[k] = r[k]
  BY FirstBytes
<1>2. IsChar(v, p)
  OBVIOUS
<1> HIDE DEF p
<1>3. p[1] = r[1] /\ (n >= 2 => p[2] = r[2])
  BY <1>0, <1>1
<1>4. /\ p[1] = Backslash => Len(p) >= 2
      /\ p[1] = Backslash /\ p[2] = 117 => Len(p) = 6
      /\ p[1] # Backslash /\ v /\ ~(p[1] < 128) => Len(p) = SizeOf(p[1])
  <2>1. p \in Seq(Byte)
    BY <1>1
  <2>2. /\ p[1] = Backslash => Len(p) >= 2
        /\ p[1] = Backslash /\ p[2] = 117 => Len(p) = 6
        /\ p[1] = Backslash /\ p[2] # 117 => Len(p) = 2
        /\ p[1] # Backslash /\ (v => p[1] < 128) => Len(p) = 1
        /\ p[1] # Backslash /\ v /\ ~(p[1] < 128) => Len(p) = SizeOf(p[1])
    BY <1>2, <2>1, CharLength
  <2> QED
    BY <2>2, Zenon
<1>5. CASE r = <<>>
  BY <1>0, <1>5
<1>6. CASE r = <<Backslash>>
  <2>1. r[1] = Backslash /\ Len(r) = 1
    BY <1>6
  <2> QED
    BY <1>0, <1>1, <1>3, <1>4, <2>1
<1>7. CASE PartialHex(r, h)
  <2>1. r[1] = Backslash /\ r[2] = 117 /\ Len(r) <= 5
    BY <1>7 DEF PartialHex
  <2> QED
    BY <1>0, <1>1, <1>3, <1>4, <2>1
<1>8. CASE v /\ Partial(r)
  <2>1. SizeOf(r[1]) > Len(r) /\ r[1] \in Byte /\ v
    BY <1>0, <1>8, ElementOfSeq DEF Partial
  <2>2. SizeOf(r[1]) # 0
    BY <1>0, <2>1
  <2>3. r[1] \in Int /\ r[1] >= 194 /\ SizeOf(r[1]) \in Nat
    BY <2>1, <2>2, SizeIs, ByteIs
  <2>4. r[1] # Backslash /\ ~(r[1] < 128)
    BY <2>3 DEF Backslash
  <2>5. n = SizeOf(r[1])
    BY <1>1, <1>3, <1>4, <2>1, <2>4, Zenon
  <2> QED
    BY <1>0, <2>1, <2>3, <2>5
<1>9. r = <<>> \/ r = <<Backslash>> \/ PartialHex(r, h) \/ (v /\ Partial(r))
  BY Zenon DEF Open
<1> QED
  BY <1>5, <1>6, <1>7, <1>8, <1>9, Zenon

\* A sequence that the table takes so far can be made whole.
LEMMA PartialGoesOn ==
    ASSUME NEW r \in Seq(Byte), Partial(r)
    PROVE  r[1] >= 128 /\ \E t \in Rest8 : IsUTF8(r \o t)
<1>0. Len(r) \in Nat /\ 1 <= Len(r) /\ Len(r) <= 3 /\ r[1] \in Byte
  BY LenProperties, ElementOfSeq DEF Partial
<1>1. SizeOf(r[1]) > Len(r) /\ SizeOf(r[1]) \in {2, 3, 4} /\ SizeOf(r[1]) # 0
  BY <1>0, SizeIs DEF Partial
<1>2. r[1] \in Int /\ r[1] >= 128
  BY <1>0, <1>1, SizeIs, ByteIs
<1> DEFINE m == SizeOf(r[1]) - Len(r)
           good == IF r[1] = 224 THEN 160 ELSE IF r[1] = 240 THEN 144 ELSE 128
           t == [k \in 1..m |-> IF Len(r) = 1 /\ k = 1 THEN good ELSE 128]
           s == r \o t
<1>3. good \in Byte /\ good \in {128, 144, 160} /\ 128 \in Byte
  BY DEF Byte
<1>4. good \in Table(r[1], 2)
  <2>1. /\ 128 <= good /\ good <= 191
        /\ r[1] = 224 => 160 <= good
        /\ r[1] = 237 => good <= 159
        /\ r[1] = 240 => 144 <= good
        /\ r[1] = 244 => good <= 143
    OBVIOUS
  <2> HIDE DEF good
  <2> QED
    <3>0. \A b \in Byte :
             128 <= b /\ b <= 191 /\ (r[1] = 224 => 160 <= b) /\ (r[1] = 237 => b <= 159)
             /\ (r[1] = 240 => 144 <= b) /\ (r[1] = 244 => b <= 143)
                => b \in Table(r[1], 2)
      BY <1>0, TableIs
    <3> QED
      BY <1>3, <2>1, <3>0
<1>5. m \in 1..3 /\ Len(r) + m = SizeOf(r[1])
  BY <1>0, <1>1
<1> HIDE DEF m, good
<1>6. t \in [1..m -> {128, 144, 160}] /\ t \in Seq(Byte) /\ Len(t) = m
  <2>1. t \in [1..m -> {128, 144, 160}] /\ t \in [1..m -> Byte] /\ m \in Nat
    BY <1>3, <1>5
  <2> HIDE DEF t
  <2> QED
    BY <2>1
<1>7. t \in Rest8
  <2> HIDE DEF t
  <2> QED
    BY <1>5, <1>6 DEF Rest8
<1>8. \A k \in 1..m : t[k] = IF Len(r) = 1 /\ k = 1 THEN good ELSE 128
  OBVIOUS
<1> HIDE DEF t
<1>9. /\ s \in Seq(Byte) /\ Len(s) = SizeOf(r[1]) /\ s[1] = r[1]
      /\ \A k \in 1..Len(r) : s[k] = r[k]
      /\ \A k \in 1..SizeOf(r[1]) : k > Len(r) => s[k] = t[k - Len(r)]
  BY <1>0, <1>5, <1>6, ConcatProperties
<1>10. \A k \in 2..Len(r) : r[k] \in Table(r[1], k)
  BY RefusedIs DEF Partial
<1> HIDE DEF s
<1>11. ASSUME NEW k \in 2..Len(s) PROVE s[k] \in Table(s[1], k)
  <2>0. k \in Int /\ k >= 2
    OBVIOUS
  <2>1. k \in 1..SizeOf(r[1])
    BY <1>1, <1>9
  <2>2. CASE k <= Len(r)
    <3>1. k \in 2..Len(r) /\ s[k] = r[k]
      BY <1>0, <1>9, <2>2
    <3> QED
      BY <1>9, <1>10, <3>1
  <2>3. CASE k > Len(r)
    <3>1. k - Len(r) \in 1..m /\ s[k] = t[k - Len(r)]
      BY <1>0, <1>1, <1>5, <1>9, <2>1, <2>3
    <3>2. CASE k = 2
      <4>1. Len(r) = 1 /\ k - Len(r) = 1
        <5>1. \A x \in Nat, y \in Int : 1 <= x /\ y = 2 /\ y > x => x = 1 /\ y - x = 1
          OBVIOUS
        <5> QED
          BY <1>0, <2>0, <2>3, <3>2, <5>1
      <4>2. s[k] = good
        BY <1>8, <3>1, <4>1
      <4> QED
        BY <1>4, <1>9, <3>2, <4>2
    <3>3. CASE k # 2
      <4>1. ~(Len(r) = 1 /\ k - Len(r) = 1)
        <5>1. \A x \in Nat, y \in Int : x = 1 /\ y - x = 1 => y = 2
          OBVIOUS
        <5> QED
          BY <1>0, <2>0, <3>3, <5>1
      <4>2. s[k] = 128
        BY <1>8, <3>1, <4>1
      <4> QED
        <5>1. \A x : x # 2 => 128 \in Table(r[1], x)
          <6>1. \A b \in Byte : 128 <= b /\ b <= 191 => \A x : x # 2 => b \in Table(r[1], x)
            BY <1>0, TableRest
          <6> QED
            BY <1>3, <6>1
        <5> QED
          BY <1>9, <3>3, <4>2, <5>1
    <3> QED
      BY <3>2, <3>3
  <2> QED
    BY <1>0, <2>1, <2>2, <2>3
<1>12. Refused(s) = {}
  BY <1>11, RefusedIs
<1>13. IsUTF8(s)
  BY <1>1, <1>9, <1>12, UTF8Is
<1> QED
  BY <1>2, <1>7, <1>13 DEF s

\* What is open is nothing, or the beginning of a character.
LEMMA OpenStarts ==
    ASSUME NEW v \in BOOLEAN, NEW r \in Seq(Byte), NEW e, NEW h, NEW u, Open(v, r, e, h, u)
    PROVE  r = <<>> \/ StartsChar(v, r)
<1>1. CASE r = <<Backslash>>
  BY <1>1, Zenon DEF StartsChar
<1>2. CASE PartialHex(r, h)
  <2>0. Len(r) \in 2..5 /\ Len(r) \in Nat /\ r[1] = Backslash /\ r[2] = 117
        /\ \A k \in 3..Len(r) : isHexByte(r[k])
    <3>1. Len(r) \in Nat
      BY LenProperties
    <3>2. 2 <= Len(r) /\ Len(r) <= 5
      BY <1>2, Zenon DEF PartialHex
    <3>3. \A n \in Nat : 2 <= n /\ n <= 5 => n \in 2..5
      OBVIOUS
    <3>4. Len(r) \in 2..5
      BY <3>1, <3>2, <3>3, Zenon
    <3> QED
      BY <1>2, <3>1, <3>4, Zenon DEF PartialHex
  <2> DEFINE z == [k \in 1..6 - Len(r) |-> 48]
             s == r \o z
  <2>1. z \in Seq(Byte) /\ Len(z) = 6 - Len(r) /\ \A k \in 1..6 - Len(r) : z[k] = 48
    <3>1. z \in [1..6 - Len(r) -> Byte] /\ 6 - Len(r) \in Nat
      BY <2>0 DEF Byte
    <3>2. \A k \in 1..6 - Len(r) : z[k] = 48
      OBVIOUS
    <3> HIDE DEF z
    <3> QED
      BY <3>1, <3>2
  <2> HIDE DEF z
  <2>2. /\ s \in Seq(Byte) /\ Len(s) = 6
        /\ \A k \in 1..6 : s[k] = IF k <= Len(r) THEN r[k] ELSE z[k - Len(r)]
    BY <2>0, <2>1, ConcatProperties
  <2> HIDE DEF s
  <2>3. s[1] = Backslash /\ s[2] = 117
    BY <2>0, <2>2
  <2>4. ASSUME NEW k \in 3..6 PROVE isHexByte(s[k])
    <3>1. CASE k <= Len(r)
      <4>1. k \in 3..Len(r) /\ s[k] = r[k]
        BY <2>0, <2>2, <3>1
      <4> QED
        BY <2>0, <4>1
    <3>2. CASE k > Len(r)
      <4>1. k - Len(r) \in 1..6 - Len(r) /\ s[k] = z[k - Len(r)]
        BY <2>0, <2>2, <3>2
      <4>2. s[k] = 48
        BY <2>1, <4>1
      <4> QED
        BY <4>2 DEF isHexByte
    <3> QED
      BY <2>0, <3>1, <3>2
  <2>5. IsChar(v, s)
    BY <2>2, <2>3, <2>4, CharIs, Zenon
  <2> QED
    BY <2>0, <2>5, Zenon DEF StartsChar, s, z
<1>3. CASE v /\ Partial(r)
  <2>1. Len(r) <= 3
    <3>1. Partial(r)
      BY <1>3, Zenon
    <3> QED
      BY <3>1 DEF Partial
  <2> QED
    BY <1>3, <2>1, PartialGoesOn, Zenon DEF StartsChar
<1>4. r = <<>> \/ r = <<Backslash>> \/ PartialHex(r, h) \/ (v /\ Partial(r))
  BY Zenon DEF Open
<1> QED
  BY <1>1, <1>2, <1>3, <1>4, Zenon

\* A text goes on as long as what follows its last character does.
LEMMA OpenViable ==
    ASSUME NEW v \in BOOLEAN, NEW b \in Seq(Byte), IsBody(v, b), NEW r \in Seq(Byte),
           NEW e, NEW h, NEW u, Open(v, r, e, h, u)
    PROVE  StartsString(v, b \o r)
<1>1. NoChar(v, r)
  BY OpenNoChar
<1>2. r = <<>> \/ StartsChar(v, r)
  BY OpenStarts
<1> QED
  BY <1>1, <1>2, StringViable, Zenon

-----------------------------------------------------------------------------
(* What no character begins with. *)

\* What a character is, by its first two bytes.
Parts(v, s, n) ==
    /\ s[1] # Quote
    /\ s[1] = Backslash => n >= 2
    /\ s[1] = Backslash /\ s[2] = 117 => n = 6 /\ \A k \in 3..6 : isHexByte(s[k])
    /\ s[1] = Backslash /\ s[2] # 117 => n = 2 /\ escapeClass(s[2]) = 1
    /\ s[1] # Backslash /\ (v => s[1] < 128) => n = 1 /\ 32 <= s[1]
    /\ s[1] # Backslash /\ v /\ ~(s[1] < 128) =>
          n = SizeOf(s[1]) /\ \A k \in 2..n : s[k] \in Table(s[1], k)

\* A character has the parts of one, and so has its beginning.
LEMMA CharParts ==
    ASSUME NEW v \in BOOLEAN, NEW s \in Seq(Byte), IsChar(v, s)
    PROVE  Parts(v, s, Len(s)) /\ Len(s) \in Nat \ {0}
<1>0. Len(s) \in Nat /\ \A k \in 1..Len(s) : s[k] \in Byte
  BY LenProperties, ElementOfSeq
<1>1. /\ Len(s) \in Sizes /\ s[1] # Quote
      /\ s[1] = Backslash => Len(s) >= 2
      /\ s[1] = Backslash /\ s[2] = 117 => Len(s) = 6
      /\ s[1] = Backslash /\ s[2] # 117 => Len(s) = 2
      /\ s[1] # Backslash /\ (v => s[1] < 128) => Len(s) = 1
      /\ s[1] # Backslash /\ v /\ ~(s[1] < 128) => Len(s) = SizeOf(s[1])
  BY CharLength
<1>2. \/ /\ Len(s) = 1 /\ 32 <= s[1] /\ s[1] # Quote /\ s[1] # Backslash
         /\ v => s[1] < 128
      \/ /\ v /\ Len(s) \in {2, 3, 4} /\ SizeOf(s[1]) = Len(s)
         /\ Refused(s) = {}
      \/ Len(s) = 2 /\ s[1] = Backslash /\ escapeClass(s[2]) = 1
      \/ Len(s) = 6 /\ s[1] = Backslash /\ s[2] = 117
         /\ \A k \in 3..6 : isHexByte(s[k])
  BY CharIs, Zenon
<1>3. ASSUME Len(s) \in {2, 3, 4}, SizeOf(s[1]) = Len(s), Refused(s) = {}
      PROVE  s[1] # Backslash /\ ~(s[1] < 128) /\ \A k \in 2..Len(s) : s[k] \in Table(s[1], k)
  <2>2. s[1] \in Byte /\ SizeOf(s[1]) # 0
    BY <1>0, <1>3
  <2>3. s[1] \in Int /\ 194 <= s[1]
    BY <2>2, SizeIs, ByteIs
  <2>4. s[1] # Backslash /\ ~(s[1] < 128)
    BY <2>3 DEF Backslash
  <2>5. \A k \in 2..Len(s) : s[k] \in Table(s[1], k)
    BY <1>3, RefusedIs
  <2> QED
    BY <2>4, <2>5
<1>4. escapeClass(s[2]) = 1 => s[2] # 117
  BY DEF escapeClass
<1> DEFINE P == s[1] = Backslash
           U == s[2] = 117
           W == s[1] < 128
           H == \A k \in 3..6 : isHexByte(s[k])
           X == escapeClass(s[2]) = 1
           T == Len(s) \in {2, 3, 4} /\ SizeOf(s[1]) = Len(s) /\ Refused(s) = {}
           I == \A k \in 2..Len(s) : s[k] \in Table(s[1], k)
           G == 32 <= s[1]
           L == Len(s) = 1
           M == Len(s) = 2
           N == Len(s) = 6
           Q == s[1] # Quote
           O == Len(s) >= 2
           Z == Len(s) = SizeOf(s[1])
<1>5. (L /\ G /\ Q /\ ~P /\ (v => W)) \/ (v /\ T) \/ (M /\ P /\ X) \/ (N /\ P /\ U /\ H)
  BY <1>2, Zenon
<1>6. (T => ~P /\ ~W /\ I) /\ (X => ~U)
  BY <1>3, <1>4, Zenon
<1>61. /\ Q /\ (P => O) /\ (P /\ U => N) /\ (P /\ ~U => M)
       /\ (~P /\ (v => W) => L) /\ (~P /\ v /\ ~W => Z)
  BY <1>1, Zenon
<1>62. /\ Q /\ (P => O) /\ (P /\ U => N /\ H) /\ (P /\ ~U => M /\ X)
       /\ (~P /\ (v => W) => L /\ G) /\ (~P /\ v /\ ~W => Z /\ I)
  <2> HIDE DEF P, U, W, H, X, T, I, G, L, M, N, Q, O, Z
  <2>1. (P /\ U => H) /\ (P /\ ~U => X)
    BY <1>5, <1>6, Zenon
  <2>2. ~P /\ (v => W) => G
    BY <1>5, <1>6, Zenon
  <2>3. ~P /\ v /\ ~W => I
    BY <1>5, <1>6, Zenon
  <2> QED
    BY <1>61, <2>1, <2>2, <2>3, Zenon
<1>7. Len(s) \in Nat \ {0}
  <2>1. \A n \in Sizes : n \in Nat \ {0}
    BY DEF Sizes
  <2> QED
    BY <1>1, <2>1
<1>8. Parts(v, s, Len(s))
  BY <1>62, Zenon DEF Parts
<1> QED
  BY <1>7, <1>8

\* A character that r begins with.
LEMMA BeginParts ==
    ASSUME NEW v \in BOOLEAN, NEW r \in Seq(Byte), NEW n \in 1..Len(r),
           IsChar(v, SubSeq(r, 1, n))
    PROVE  Parts(v, r, n)
<1> DEFINE p == SubSeq(r, 1, n)
<1>1. p \in Seq(Byte) /\ Len(p) = n /\ \A k \in 1..n : p[k] = r[k]
  BY FirstBytes
<1>2. IsChar(v, p)
  OBVIOUS
<1> HIDE DEF p
<1>3. Parts(v, p, n)
  BY <1>1, <1>2, CharParts
<1>0. n \in Nat /\ 1 <= n
  OBVIOUS
<1>4. p[1] = r[1]
  BY <1>0, <1>1
<1>5. n >= 2 => p[2] = r[2]
  BY <1>0, <1>1
<1>6. n = 6 => \A k \in 3..6 : p[k] = r[k]
  BY <1>0, <1>1
<1>7. \A k \in 2..n : p[k] = r[k]
  BY <1>0, <1>1
<1>8. r[1] # Quote /\ (r[1] = Backslash => n >= 2)
  BY <1>3, <1>4, Zenon DEF Parts
<1>9. r[1] = Backslash => p[2] = r[2]
  BY <1>5, <1>8
<1>10. r[1] = Backslash /\ r[2] = 117 => n = 6 /\ \A k \in 3..6 : isHexByte(p[k])
  BY <1>3, <1>4, <1>9, Zenon DEF Parts
<1>11. r[1] = Backslash /\ r[2] = 117 => n = 6 /\ \A k \in 3..6 : isHexByte(r[k])
  BY <1>6, <1>10, Zenon
<1>12. r[1] = Backslash /\ r[2] # 117 => n = 2 /\ escapeClass(r[2]) = 1
  BY <1>3, <1>4, <1>9, Zenon DEF Parts
<1>13. r[1] # Backslash /\ (v => r[1] < 128) => n = 1 /\ 32 <= r[1]
  BY <1>3, <1>4, Zenon DEF Parts
<1>14. r[1] # Backslash /\ v /\ ~(r[1] < 128) =>
          n = SizeOf(r[1]) /\ \A k \in 2..n : r[k] \in Table(r[1], k)
  BY <1>3, <1>4, <1>7, Zenon DEF Parts
<1> QED
  BY <1>8, <1>11, <1>12, <1>13, <1>14, Zenon DEF Parts

\* Nothing goes on with r.
Fails(v, r) == NoChar(v, r) /\ ~StartsChar(v, r) /\ r # <<>> /\ r # <<Quote>>

\* After whole characters, a rest that fails goes on to no string.
LEMMA FailsNotViable ==
    ASSUME NEW v \in BOOLEAN, NEW b \in Seq(Byte), IsBody(v, b), NEW r \in Seq(Byte),
           Fails(v, r)
    PROVE  ~StartsString(v, b \o r)
BY StringViable, Zenon DEF Fails

\* A byte that starts nothing.
LEMMA FirstFails ==
    ASSUME NEW v \in BOOLEAN, NEW c \in Byte, c < 32 \/ (v /\ c >= 128 /\ SizeOf(c) = 0)
    PROVE  Fails(v, <<c>>)
<1> DEFINE r == <<c>>
<1>0. r \in Seq(Byte) /\ Len(r) = 1 /\ r[1] = c /\ c \in Int
  BY OneByte, ByteIs
<1>1. r # <<>> /\ c # Quote /\ c # Backslash
  BY <1>0 DEF Quote, Backslash
<1>2. r # <<Quote>> /\ r # <<Backslash>>
  BY <1>0, <1>1
<1> HIDE DEF r
<1>3. ASSUME NEW n \in 1..Len(r), IsChar(v, SubSeq(r, 1, n)) PROVE FALSE
  <2>0. n = 1
    BY <1>0
  <2>1. Parts(v, r, n)
    BY <1>0, <1>3, BeginParts
  <2>2. CASE c < 32
    <3>1. c < 128 /\ ~(32 <= c)
      BY <1>0, <2>2
    <3> QED
      BY <1>0, <1>1, <2>1, <3>1, Zenon DEF Parts
  <2>3. CASE v /\ c >= 128 /\ SizeOf(c) = 0
    <3>1. ~(c < 128)
      BY <1>0, <2>3
    <3>2. n = 0
      BY <1>0, <1>1, <2>1, <2>3, <3>1, Zenon DEF Parts
    <3> QED
      BY <2>0, <3>2
  <2> QED
    BY <2>2, <2>3
<1>4. ASSUME StartsChar(v, r) PROVE FALSE
  <2>1. v /\ r[1] >= 128 /\ \E t \in Rest8 : IsUTF8(r \o t)
    BY <1>0, <1>1, <1>2, <1>4, Zenon DEF StartsChar
  <2>2. PICK t \in Rest8 : IsUTF8(r \o t)
    BY <2>1
  <2>3. ~(c < 32)
    BY <1>0, <2>1
  <2>4. SizeOf(c) = 0
    BY <2>3
  <2>5. t \in Seq(Byte)
    <3>1. PICK n \in 1..3 : t \in [1..n -> {128, 144, 160}]
      BY DEF Rest8
    <3>2. t \in [1..n -> Byte] /\ n \in Nat
      BY <3>1 DEF Byte
    <3> QED
      BY <3>2
  <2>6. r \o t \in Seq(Byte) /\ (r \o t)[1] = c
    <3>1. Len(t) \in Nat
      BY <2>5, LenProperties
    <3> QED
      BY <1>0, <2>5, <3>1, ConcatProperties
  <2>7. Len(r \o t) \in {2, 3, 4} /\ SizeOf(c) = Len(r \o t)
    BY <2>2, <2>6, UTF8Is
  <2> QED
    BY <2>4, <2>7
<1> QED
  BY <1>1, <1>2, <1>3, <1>4, Zenon DEF Fails, NoChar, r

\* What the beginning of a character is.
LEMMA StartsParts ==
    ASSUME NEW v \in BOOLEAN, NEW x \in Seq(Byte), x # <<>>, StartsChar(v, x)
    PROVE  \/ x = <<Backslash>>
           \/ PartialHex(x, 6 - Len(x))
           \/ v /\ Partial(x) /\ x[1] >= 128
<1>0. Len(x) \in Nat /\ 1 <= Len(x) /\ \A k \in 1..Len(x) : x[k] \in Byte
  <2>1. Len(x) \in Nat /\ Len(x) # 0
    BY LenProperties, EmptySeq
  <2> QED
    BY <2>1, ElementOfSeq
<1>1. CASE /\ x[1] = Backslash /\ Len(x) \in 2..5
           /\ IsChar(v, x \o [k \in 1..6 - Len(x) |-> 48])
  <2>0. 2 <= Len(x) /\ Len(x) <= 5 /\ x[1] = Backslash
    <3>1. x[1] = Backslash /\ Len(x) \in 2..5
      BY <1>1, Zenon
    <3>2. \A n \in 2..5 : 2 <= n /\ n <= 5
      OBVIOUS
    <3> QED
      BY <3>1, <3>2
  <2> DEFINE z == [k \in 1..6 - Len(x) |-> 48]
             s == x \o z
  <2>1. z \in Seq(Byte) /\ Len(z) = 6 - Len(x)
    <3>1. z \in [1..6 - Len(x) -> Byte] /\ 6 - Len(x) \in Nat
      BY <1>0, <2>0 DEF Byte
    <3> HIDE DEF z
    <3> QED
      BY <3>1
  <2>2. IsChar(v, s)
    BY <1>1, Zenon
  <2> HIDE DEF z
  <2>3. /\ s \in Seq(Byte) /\ Len(s) = 6
        /\ \A k \in 1..Len(x) : s[k] = x[k]
    BY <1>0, <2>0, <2>1, ConcatProperties
  <2> HIDE DEF s
  <2>4. s[1] = Backslash /\ s[2] = x[2]
    BY <1>0, <2>0, <2>3
  <2>5. Parts(v, s, 6)
    BY <2>2, <2>3, CharParts
  <2>6. s[2] = 117 /\ \A k \in 3..6 : isHexByte(s[k])
    <3>1. s[2] # 117 => 6 = 2
      BY <2>4, <2>5, Zenon DEF Parts
    <3>2. s[2] = 117
      BY <3>1
    <3> QED
      BY <2>4, <2>5, <3>2, Zenon DEF Parts
  <2>7. ASSUME NEW k \in 3..Len(x) PROVE isHexByte(x[k])
    <3>1. k \in 3..6 /\ k \in 1..Len(x)
      BY <1>0, <2>0
    <3> QED
      BY <2>3, <2>6, <3>1
  <2>8. PartialHex(x, 6 - Len(x))
    BY <2>0, <2>4, <2>6, <2>7 DEF PartialHex
  <2> QED
    BY <2>8
<1>2. CASE v /\ x[1] >= 128 /\ Len(x) <= 3 /\ \E t \in Rest8 : IsUTF8(x \o t)
  <2>0. Len(x) <= 3 /\ x[1] >= 128
    BY <1>2, Zenon
  <2>1. PICK t \in Rest8 : IsUTF8(x \o t)
    BY <1>2, Zenon
  <2>2. t \in Seq(Byte) /\ Len(t) >= 1 /\ Len(t) \in Nat
    <3>1. PICK n \in 1..3 : t \in [1..n -> {128, 144, 160}]
      BY DEF Rest8
    <3>2. t \in [1..n -> Byte] /\ n \in Nat /\ n >= 1
      BY <3>1 DEF Byte
    <3> QED
      BY <3>2
  <2> DEFINE s == x \o t
  <2>3. /\ s \in Seq(Byte) /\ Len(s) = Len(x) + Len(t)
        /\ \A k \in 1..Len(x) : s[k] = x[k]
    BY <1>0, <2>2, ConcatProperties
  <2>4. IsUTF8(s)
    BY <2>1
  <2> HIDE DEF s
  <2>5. SizeOf(s[1]) = Len(s) /\ Refused(s) = {}
    BY <2>3, <2>4, UTF8Is
  <2>6. s[1] = x[1]
    BY <1>0, <2>3
  <2>7. SizeOf(x[1]) > Len(x)
    BY <1>0, <2>2, <2>3, <2>5, <2>6
  <2>8. Refused(x) = {}
    <3>1. \A k \in 2..Len(s) : s[k] \in Table(s[1], k)
      BY <2>5, RefusedIs
    <3>2. ASSUME NEW k \in 2..Len(x) PROVE x[k] \in Table(x[1], k)
      <4>1. k \in 2..Len(s) /\ k \in 1..Len(x)
        BY <1>0, <2>2, <2>3
      <4> QED
        BY <2>3, <2>6, <3>1, <4>1
    <3> QED
      BY <3>2, RefusedIs
  <2>9. Partial(x)
    BY <1>0, <2>0, <2>7, <2>8, Zenon DEF Partial
  <2> QED
    BY <1>2, <2>0, <2>9, Zenon
<1> QED
  BY <1>1, <1>2, Zenon DEF StartsChar

\* What a byte that is refused leaves: after a backslash,
LEMMA EscapeFails ==
    ASSUME NEW v \in BOOLEAN, NEW c \in Byte, escapeClass(c) = 0
    PROVE  Fails(v, <<Backslash>> \o <<c>>)
<1> DEFINE x == <<Backslash>> \o <<c>>
<1>1. x \in Seq(Byte) /\ Len(x) = 2 /\ x[1] = Backslash /\ x[2] = c
  BY DEF Byte, Backslash
<1> HIDE DEF x
<1>2. c # 117
  BY DEF escapeClass
<1>3. x # <<>> /\ x # <<Quote>> /\ x # <<Backslash>>
  BY <1>1
<1>4. ASSUME NEW n \in 1..Len(x), IsChar(v, SubSeq(x, 1, n)) PROVE FALSE
  <2>1. Parts(v, x, n)
    BY <1>1, <1>4, BeginParts
  <2>2. escapeClass(c) = 1
    BY <1>1, <1>2, <2>1, Zenon DEF Parts
  <2> QED
    BY <2>2
<1>5. ASSUME StartsChar(v, x) PROVE FALSE
  <2>1. PartialHex(x, 6 - Len(x)) \/ (v /\ Partial(x) /\ x[1] >= 128)
    BY <1>1, <1>3, <1>5, StartsParts, Zenon
  <2>2. ~PartialHex(x, 6 - Len(x))
    BY <1>1, <1>2, Zenon DEF PartialHex
  <2>3. ~(x[1] >= 128)
    BY <1>1 DEF Backslash
  <2> QED
    BY <2>1, <2>2, <2>3, Zenon
<1> QED
  BY <1>3, <1>4, <1>5, Zenon DEF Fails, NoChar, x

\* in the digits of \u,
LEMMA HexFails ==
    ASSUME NEW v \in BOOLEAN, NEW r \in Seq(Byte), NEW h, PartialHex(r, h),
           NEW c \in Byte, ~isHexByte(c)
    PROVE  Fails(v, r \o <<c>>)
<1> DEFINE x == r \o <<c>>
<1>0. Len(r) \in Nat /\ 2 <= Len(r) /\ Len(r) <= 5 /\ r[1] = Backslash /\ r[2] = 117
  BY LenProperties, Zenon DEF PartialHex
<1>1. x \in Seq(Byte) /\ Len(x) = Len(r) + 1 /\ x[1] = Backslash /\ x[2] = 117
      /\ x[Len(x)] = c
  BY <1>0, AddByte
<1> HIDE DEF x
<1>3. x # <<>> /\ x # <<Quote>> /\ x # <<Backslash>>
  BY <1>0, <1>1
<1>2. Len(x) \in 3..6
  BY <1>0, <1>1
<1>4. ASSUME NEW n \in 1..Len(x), IsChar(v, SubSeq(x, 1, n)) PROVE FALSE
  <2>1. Parts(v, x, n)
    BY <1>1, <1>4, BeginParts
  <2>2. n = 6 /\ \A k \in 3..6 : isHexByte(x[k])
    BY <1>1, <2>1, Zenon DEF Parts
  <2> QED
    BY <1>1, <1>2, <2>2
<1>5. ASSUME StartsChar(v, x) PROVE FALSE
  <2>1. PartialHex(x, 6 - Len(x)) \/ (v /\ Partial(x) /\ x[1] >= 128)
    BY <1>1, <1>3, <1>5, StartsParts, Zenon
  <2>2. ASSUME PartialHex(x, 6 - Len(x)) PROVE FALSE
    <3>1. \A k \in 3..Len(x) : isHexByte(x[k])
      BY <2>2, Zenon DEF PartialHex
    <3>2. Len(x) \in 3..Len(x)
      <4>1. Len(x) \in Nat /\ 3 <= Len(x)
        BY <1>0, <1>1
      <4> QED
        BY <4>1
    <3> QED
      BY <1>1, <3>1, <3>2
  <2>3. ~(x[1] >= 128)
    BY <1>1 DEF Backslash
  <2> QED
    BY <2>1, <2>2, <2>3, Zenon
<1> QED
  BY <1>3, <1>4, <1>5, Zenon DEF Fails, NoChar, x

\* and in a UTF-8 sequence.
LEMMA SequenceFails ==
    ASSUME NEW v \in BOOLEAN, v, NEW r \in Seq(Byte), Partial(r),
           NEW c \in Byte, c \notin Table(r[1], Len(r) + 1)
    PROVE  Fails(v, r \o <<c>>)
<1> DEFINE x == r \o <<c>>
<1>0. Len(r) \in Nat /\ 1 <= Len(r) /\ Len(r) <= 3 /\ SizeOf(r[1]) > Len(r) /\ r[1] \in Byte
  <2>1. Len(r) \in Nat
    BY LenProperties
  <2>2. 1 <= Len(r) /\ Len(r) <= 3 /\ SizeOf(r[1]) > Len(r)
    BY Zenon DEF Partial
  <2>3. r[1] \in Byte
    BY <2>1, <2>2, ElementOfSeq
  <2> QED
    BY <2>1, <2>2, <2>3
<1>01. SizeOf(r[1]) \in {2, 3, 4} /\ r[1] \in Int /\ 194 <= r[1]
  <2>1. SizeOf(r[1]) \in {0, 2, 3, 4} /\ SizeOf(r[1]) # 0
    BY <1>0, SizeIs
  <2> QED
    BY <1>0, <2>1, SizeIs, ByteIs
<1>1. x \in Seq(Byte) /\ Len(x) = Len(r) + 1 /\ x[1] = r[1] /\ x[Len(r) + 1] = c
  BY <1>0, AddByte
<1> HIDE DEF x
<1>2. x[1] # Backslash /\ ~(x[1] < 128)
  BY <1>1, <1>01 DEF Backslash
<1>3. x # <<>> /\ x # <<Quote>> /\ x # <<Backslash>>
  BY <1>0, <1>1
<1>4. ASSUME NEW n \in 1..Len(x), IsChar(v, SubSeq(x, 1, n)) PROVE FALSE
  <2>1. Parts(v, x, n)
    BY <1>1, <1>4, BeginParts
  <2>2. n = SizeOf(x[1]) /\ \A k \in 2..n : x[k] \in Table(x[1], k)
    BY <1>2, <2>1, Zenon DEF Parts
  <2>3. n = Len(r) + 1
    BY <1>0, <1>01, <1>1, <2>2
  <2>4. Len(r) + 1 \in 2..n
    BY <1>0, <2>3
  <2> QED
    BY <1>1, <2>2, <2>4
<1>5. ASSUME StartsChar(v, x) PROVE FALSE
  <2>1. PartialHex(x, 6 - Len(x)) \/ (v /\ Partial(x) /\ x[1] >= 128)
    BY <1>1, <1>3, <1>5, StartsParts, Zenon
  <2>2. ~PartialHex(x, 6 - Len(x))
    BY <1>2, Zenon DEF PartialHex
  <2>3. Refused(x) = {}
    BY <2>1, <2>2, Zenon DEF Partial
  <2>4. Len(r) + 1 \in 2..Len(x)
    BY <1>0, <1>1
  <2> QED
    BY <1>1, <2>3, <2>4, RefusedIs
<1> QED
  BY <1>3, <1>4, <1>5, Zenon DEF Fails, NoChar, x

-----------------------------------------------------------------------------
(* What a character goes on with. *)

\* What a byte that is taken makes of the rest: a character of one byte,
LEMMA PlainGoes ==
    ASSUME NEW v \in BOOLEAN, NEW c \in Byte, 32 <= c, c # Quote, c # Backslash,
           v => c < 128
    PROVE  IsChar(v, <<c>>)
<1> DEFINE s == <<c>>
<1>1. s \in Seq(Byte) /\ Len(s) = 1 /\ s[1] = c
  BY OneByte
<1> HIDE DEF s
<1>2. IsChar(v, s)
  BY <1>1, CharIs, Zenon
<1> QED
  BY <1>2 DEF s

\* one after a backslash,
LEMMA EscapedGoes ==
    ASSUME NEW v \in BOOLEAN, NEW c \in Byte
    PROVE  LET s == <<Backslash>> \o <<c>>
           IN  /\ s \in Seq(Byte)
               /\ escapeClass(c) = 1 => IsChar(v, s) /\ Len(s) \in Sizes
               /\ escapeClass(c) = 2 => PartialHex(s, 4)
<1> DEFINE s == <<Backslash>> \o <<c>>
<1>1. s \in Seq(Byte) /\ Len(s) = 2 /\ s[1] = Backslash /\ s[2] = c
  BY DEF Byte, Backslash
<1> HIDE DEF s
<1>2. escapeClass(c) = 1 => IsChar(v, s)
  BY <1>1, CharIs, Zenon
<1>3. Len(s) \in Sizes
  BY <1>1 DEF Sizes
<1>4. ASSUME escapeClass(c) = 2 PROVE PartialHex(s, 4)
  <2>1. c = 117
    BY <1>4 DEF escapeClass
  <2> QED
    BY <1>1, <2>1 DEF PartialHex
<1> QED
  BY <1>1, <1>2, <1>3, <1>4, Zenon DEF s

\* a digit of \u,
LEMMA HexGoes ==
    ASSUME NEW v \in BOOLEAN, NEW r \in Seq(Byte), NEW h, PartialHex(r, h),
           NEW c \in Byte, isHexByte(c)
    PROVE  /\ h \in 1..4
           /\ h = 1 => IsChar(v, r \o <<c>>) /\ Len(r \o <<c>>) \in Sizes
           /\ h > 1 => PartialHex(r \o <<c>>, h - 1)
<1> DEFINE x == r \o <<c>>
<1>0. Len(r) \in Nat /\ 2 <= Len(r) /\ Len(r) <= 5 /\ h = 6 - Len(r)
      /\ r[1] = Backslash /\ r[2] = 117 /\ \A k \in 3..Len(r) : isHexByte(r[k])
  BY LenProperties, Zenon DEF PartialHex
<1>1. x \in Seq(Byte) /\ Len(x) = Len(r) + 1 /\ x[1] = Backslash /\ x[2] = 117
      /\ x[Len(r) + 1] = c /\ \A k \in 1..Len(r) : x[k] = r[k]
  BY <1>0, AddByte
<1> HIDE DEF x
<1>2. ASSUME NEW k \in 3..Len(r) + 1 PROVE isHexByte(x[k])
  <2>1. (k \in 3..Len(r) /\ k \in 1..Len(r)) \/ k = Len(r) + 1
    BY <1>0
  <2>2. CASE k \in 3..Len(r) /\ k \in 1..Len(r)
    BY <1>0, <1>1, <2>2
  <2>3. CASE k = Len(r) + 1
    BY <1>1, <2>3
  <2> QED
    BY <2>1, <2>2, <2>3
<1>3. h \in 1..4 /\ (h = 1 => Len(r) = 5) /\ (h > 1 => Len(r) + 1 <= 5)
      /\ 2 <= Len(r) + 1 /\ h - 1 = 6 - (Len(r) + 1)
  <2>1. \A n \in Nat : 2 <= n /\ n <= 5 =>
           /\ 6 - n \in 1..4 /\ (6 - n = 1 => n = 5) /\ (6 - n > 1 => n + 1 <= 5)
           /\ 2 <= n + 1 /\ (6 - n) - 1 = 6 - (n + 1)
    OBVIOUS
  <2>2. Len(r) \in Nat /\ 2 <= Len(r) /\ Len(r) <= 5 /\ h = 6 - Len(r)
    BY <1>0
  <2> QED
    BY <2>1, <2>2
<1>4. ASSUME h = 1 PROVE IsChar(v, x) /\ Len(x) \in Sizes
  <2>1. Len(x) = 6
    <3>1. Len(r) = 5 /\ Len(x) = Len(r) + 1
      BY <1>1, <1>3, <1>4, Zenon
    <3> QED
      BY <3>1
  <2>2. \A k \in 3..6 : isHexByte(x[k])
    BY <1>1, <1>2, <2>1
  <2>3. IsChar(v, x)
    BY <1>1, <2>1, <2>2, CharIs, Zenon
  <2> QED
    BY <2>1, <2>3 DEF Sizes
<1>5. ASSUME h > 1 PROVE PartialHex(x, h - 1)
  <2>1. 2 <= Len(x) /\ Len(x) <= 5 /\ h - 1 = 6 - Len(x)
    BY <1>1, <1>3, <1>5
  <2>2. \A k \in 3..Len(x) : isHexByte(x[k])
    BY <1>1, <1>2
  <2> QED
    BY <1>1, <2>1, <2>2, Zenon DEF PartialHex
<1> QED
  BY <1>3, <1>4, <1>5 DEF x

\* the first byte of a UTF-8 sequence,
LEMMA LeadGoes ==
    ASSUME NEW c \in Byte, SizeOf(c) # 0
    PROVE  Partial(<<c>>) /\ Remembers(<<c>>, Lead(c))
<1> DEFINE s == <<c>>
<1>1. s \in Seq(Byte) /\ Len(s) = 1 /\ s[1] = c
  BY OneByte
<1> HIDE DEF s
<1>2. SizeOf(c) \in {2, 3, 4}
  BY SizeIs
<1>3. SizeOf(c) > 1
  BY <1>2
<1>4. Refused(s) = {}
  BY <1>1, RefusedIs
<1>5. 1 <= Len(s) /\ Len(s) <= 3
  BY <1>1
<1>6. Partial(s)
  BY <1>1, <1>3, <1>4, <1>5, Zenon DEF Partial
<1>7. Remembers(s, Lead(c))
  BY <1>1 DEF Remembers
<1> QED
  BY <1>6, <1>7 DEF s

\* What the scanner remembers of a sequence, in numbers.
LEMMA RemembersIs ==
    ASSUME NEW r \in Seq(Byte), Partial(r), NEW u, Remembers(r, u)
    PROVE  /\ r[1] \in Byte /\ SizeOf(r[1]) \in {2, 3, 4} /\ Len(r) \in Nat
           /\ 1 <= Len(r) /\ Len(r) <= 3 /\ SizeOf(r[1]) > Len(r)
           /\ u.need = SizeOf(r[1]) - Len(r)
           /\ u.lo..u.hi = Table(r[1], Len(r) + 1)
<1>0. Len(r) \in Nat
  BY LenProperties
<1>1. 1 <= Len(r) /\ Len(r) <= 3 /\ SizeOf(r[1]) > Len(r)
  BY Zenon DEF Partial
<1>2. r[1] \in Byte
  BY <1>0, <1>1, ElementOfSeq
<1>3. SizeOf(r[1]) \in {2, 3, 4} /\ SizeOf(r[1]) # 0
  <2>1. SizeOf(r[1]) \in {0, 2, 3, 4} /\ SizeOf(r[1]) # 0
    BY <1>0, <1>1, <1>2, SizeIs
  <2> QED
    BY <2>1
<1>4. CASE Len(r) = 1
  <2>1. u = [need |-> SizeOf(r[1]) - 1, lo |-> Second(r[1]).lo, hi |-> Second(r[1]).hi]
    BY <1>2, <1>3, <1>4, LeadIs, Zenon DEF Remembers
  <2>2. u.need = SizeOf(r[1]) - 1 /\ u.lo = Second(r[1]).lo /\ u.hi = Second(r[1]).hi
    BY <2>1
  <2>3. Len(r) + 1 = 2
    BY <1>4
  <2>4. Table(r[1], Len(r) + 1) = Second(r[1]).lo..Second(r[1]).hi
    BY <2>3, Zenon DEF Table
  <2> QED
    BY <1>0, <1>1, <1>2, <1>3, <1>4, <2>2, <2>4, Zenon
<1>5. CASE Len(r) # 1
  <2>1. u = [need |-> SizeOf(r[1]) - Len(r), lo |-> 128, hi |-> 191]
    BY <1>5, Zenon DEF Remembers
  <2>2. u.need = SizeOf(r[1]) - Len(r) /\ u.lo = 128 /\ u.hi = 191
    BY <2>1
  <2>3. Len(r) + 1 # 2
    <3>1. \A n \in Nat : n # 1 => n + 1 # 2
      OBVIOUS
    <3> QED
      BY <1>0, <1>5, <3>1
  <2>4. Table(r[1], Len(r) + 1) = 128..191
    BY <2>3, Zenon DEF Table
  <2> QED
    BY <1>0, <1>1, <1>2, <1>3, <2>2, <2>4, Zenon
<1> QED
  BY <1>4, <1>5

\* a later byte of a sequence,
LEMMA SequenceGoes ==
    ASSUME NEW v \in BOOLEAN, v, NEW r \in Seq(Byte), Partial(r), NEW u, Remembers(r, u),
           NEW c \in Byte, c \in Table(r[1], Len(r) + 1)
    PROVE  /\ u.need = 1 => IsChar(v, r \o <<c>>) /\ Len(r \o <<c>>) \in Sizes
           /\ u.need # 1 => Partial(r \o <<c>>) /\ Remembers(r \o <<c>>, Next8(u))
<1> DEFINE x == r \o <<c>>
<1>0. /\ r[1] \in Byte /\ SizeOf(r[1]) \in {2, 3, 4} /\ Len(r) \in Nat
      /\ 1 <= Len(r) /\ Len(r) <= 3 /\ SizeOf(r[1]) > Len(r)
      /\ u.need = SizeOf(r[1]) - Len(r)
  BY RemembersIs
<1>1. x \in Seq(Byte) /\ Len(x) = Len(r) + 1 /\ x[1] = r[1]
      /\ x[Len(r) + 1] = c /\ \A k \in 1..Len(r) : x[k] = r[k]
  BY <1>0, AddByte
<1> HIDE DEF x
<1>2. Refused(x) = {}
  <2>1. \A k \in 2..Len(r) : r[k] \in Table(r[1], k)
    BY RefusedIs, Zenon DEF Partial
  <2>2. ASSUME NEW k \in 2..Len(x) PROVE x[k] \in Table(x[1], k)
    <3>1. (k \in 2..Len(r) /\ k \in 1..Len(r)) \/ k = Len(r) + 1
      BY <1>0, <1>1
    <3>2. CASE k \in 2..Len(r) /\ k \in 1..Len(r)
      BY <1>1, <2>1, <3>2
    <3>3. CASE k = Len(r) + 1
      BY <1>1, <3>3
    <3> QED
      BY <3>1, <3>2, <3>3
  <2> QED
    BY <2>2, RefusedIs
<1>3. ASSUME u.need = 1 PROVE IsChar(v, x) /\ Len(x) \in Sizes
  <2>1. SizeOf(x[1]) = Len(x)
    BY <1>0, <1>1, <1>3
  <2>2. Len(x) \in {2, 3, 4}
    BY <1>0, <1>1, <2>1
  <2>3. IsChar(v, x)
    BY <1>1, <1>2, <2>1, <2>2, CharIs, Zenon
  <2> QED
    BY <2>2, <2>3 DEF Sizes
<1>4. ASSUME u.need # 1 PROVE Partial(x) /\ Remembers(x, Next8(u))
  <2>1. 1 <= Len(x) /\ Len(x) <= 3 /\ SizeOf(x[1]) > Len(x) /\ Len(x) # 1
    BY <1>0, <1>1, <1>4
  <2>2. Partial(x)
    BY <1>2, <2>1, Zenon DEF Partial
  <2>3. u.need - 1 = SizeOf(x[1]) - Len(x)
    BY <1>0, <1>1
  <2>4. Next8(u) = [need |-> u.need - 1, lo |-> 128, hi |-> 191]
    BY <1>4, Zenon DEF Next8
  <2>5. Remembers(x, Next8(u))
    BY <2>1, <2>3, <2>4, Zenon DEF Remembers
  <2> QED
    BY <2>2, <2>5
<1> QED
  BY <1>3, <1>4 DEF x

\* and a sequence read whole.
LEMMA WholeGoes ==
    ASSUME NEW v \in BOOLEAN, v, NEW s \in Seq(Byte), SizeOf(s[1]) = Len(s), s[1] \in Byte,
           Len(s) # 0, Refused(s) = {}
    PROVE  IsChar(v, s) /\ Len(s) \in Sizes
<1>1. SizeOf(s[1]) \in {0, 2, 3, 4}
  BY SizeIs
<1>2. Len(s) \in {2, 3, 4}
  BY <1>1
<1>3. IsChar(v, s)
  BY <1>2, CharIs, Zenon
<1> QED
  BY <1>2, <1>3 DEF Sizes

-----------------------------------------------------------------------------
(* The scan of a string, against its grammar. *)

\* A text of whole characters and what follows the last.
Written(v, t, e, h, u) ==
    \E b, r \in Seq(Byte) : t = b \o r /\ IsBody(v, b) /\ Open(v, r, e, h, u)

StringOK ==
    ~dead /\ st \in {"sInStr", "sInKey"} =>
        Written(validateUTF8, text, esc, hexN, u8)

\* A step that goes on in the string, and one that stops the scan.
Goes ==
    /\ ~dead' /\ st' = st /\ token' = token /\ validateUTF8' = validateUTF8
    /\ Written(validateUTF8, text', esc', hexN', u8')

Stops ==
    /\ dead' /\ st' = st /\ token' = token /\ validateUTF8' = validateUTF8
    /\ ~StartsString(validateUTF8, text') /\ StartsString(validateUTF8, Front(text'))
    /\ \/ offset' = Len(text') - 1
       \/ /\ offset' < Len(text') - 1 /\ validateUTF8
          /\ IsBody(validateUTF8, SubSeq(text', 1, offset'))
          /\ \A k \in offset' + 1..Len(text') - 1 : text'[k] >= 128

\* A text with a byte more, without it.
LEMMA FrontOfMore ==
    ASSUME NEW t \in Seq(Byte), NEW c \in Byte
    PROVE  Front(t \o <<c>>) = t /\ Len(t \o <<c>>) - 1 = Len(t)
           /\ Last(t \o <<c>>) = c
<1>1. Len(t) \in Nat /\ <<c>> \in Seq(Byte)
  BY LenProperties, OneByte
<1>2. Len(t \o <<c>>) = Len(t) + 1 /\ (t \o <<c>>)[Len(t) + 1] = c
  BY AddByte
<1>3. Len(t \o <<c>>) - 1 = Len(t)
  BY <1>1, <1>2
<1>4. SubSeq(t \o <<c>>, 1, Len(t)) = SubSeq(t, 1, Len(t))
  <2>1. 1 \in Nat \ {0} /\ Len(t) <= Len(t)
    BY <1>1
  <2> QED
    BY <1>1, <2>1, PartOfFirst
<1>5. SubSeq(t, 1, Len(t)) = t
  BY SubSeqFull
<1> QED
  BY <1>2, <1>3, <1>4, <1>5 DEF Front, Last

\* The text after one more byte, apart from what was whole before.
LEMMA MoreBytes ==
    ASSUME NEW b \in Seq(Byte), NEW r \in Seq(Byte), NEW c \in Byte
    PROVE  (b \o r) \o <<c>> = b \o (r \o <<c>>) /\ r \o <<c>> \in Seq(Byte)
           /\ <<>> \o <<c>> = <<c>> /\ b \o <<>> = b /\ <<c>> \in Seq(Byte)
<1>1. <<c>> \in Seq(Byte)
  BY OneByte
<1>2. (b \o r) \o <<c>> = b \o (r \o <<c>>)
  BY <1>1, ConcatAssociative
<1>3. <<>> \o <<c>> = <<c>> /\ b \o <<>> = b
  BY <1>1, ConcatEmptySeq
<1> QED
  BY <1>1, <1>2, <1>3, AddByte

\* A rest that fails with one more byte did not fail without it.
LEMMA StopsAt ==
    ASSUME NEW v \in BOOLEAN, NEW b \in Seq(Byte), IsBody(v, b), NEW r \in Seq(Byte),
           NEW e, NEW h, NEW u, Open(v, r, e, h, u), NEW c \in Byte, Fails(v, r \o <<c>>)
    PROVE  ~StartsString(v, (b \o r) \o <<c>>) /\ StartsString(v, b \o r)
<1>1. (b \o r) \o <<c>> = b \o (r \o <<c>>) /\ r \o <<c>> \in Seq(Byte)
  BY MoreBytes
<1>2. ~StartsString(v, b \o (r \o <<c>>))
  BY <1>1, FailsNotViable
<1>3. StartsString(v, b \o r)
  BY OpenViable
<1> QED
  BY <1>1, <1>2, <1>3

\* The types the strings need.
LEMMA StringTypes ==
    ASSUME TypeOK
    PROVE  /\ text \in Seq(Byte) /\ validateUTF8 \in BOOLEAN /\ esc \in BOOLEAN
           /\ hexN \in 0..4 /\ u8.need \in 0..3
<1>1. validateUTF8 \in BOOLEAN /\ esc \in BOOLEAN
  BY Zenon DEF TypeOK
<1>2. text \in Seq(Byte) /\ hexN \in 0..4 /\ u8 \in [need : 0..3, lo : 0..255, hi : 0..255]
  BY Zenon DEF TypeOK, Byte
<1> QED
  BY <1>1, <1>2

\* The string under way.
LEMMA UnderWay ==
    ASSUME TypeOK, StringOK, InString
    PROVE  \E b, r \in Seq(Byte) : /\ text = b \o r /\ IsBody(validateUTF8, b)
                                   /\ Open(validateUTF8, r, esc, hexN, u8)
BY Zenon DEF InString, Scanning, StringOK, Written

\* A byte on which the scan stops.
LEMMA BailStops ==
    ASSUME TypeOK, InString, NEW b \in Seq(Byte), NEW r \in Seq(Byte), text = b \o r,
           IsBody(validateUTF8, b), Open(validateUTF8, r, esc, hexN, u8),
           NEW c \in Byte, Fails(validateUTF8, r \o <<c>>), Bail(<<c>>)
    PROVE  Stops
<1>1. validateUTF8 \in BOOLEAN /\ text \in Seq(Byte)
  BY StringTypes
<1>2. /\ dead' /\ offset' = Len(text) /\ text' = text \o <<c>> /\ st' = st /\ token' = token
      /\ validateUTF8' = validateUTF8
  BY DEF Bail
<1>3. ~StartsString(validateUTF8, text \o <<c>>) /\ StartsString(validateUTF8, text)
  BY <1>1, StopsAt
<1>4. Front(text \o <<c>>) = text /\ Len(text \o <<c>>) - 1 = Len(text)
  BY <1>1, FrontOfMore
<1> QED
  BY <1>2, <1>3, <1>4, Zenon DEF Stops

\* A byte that makes a character whole, and one that does not yet.
LEMMA ReadsWhole ==
    ASSUME TypeOK, InString, NEW b \in Seq(Byte), NEW r \in Seq(Byte), text = b \o r,
           IsBody(validateUTF8, b), NEW s \in Seq(Byte), Reads(s),
           IsChar(validateUTF8, r \o s), Len(r \o s) \in Sizes,
           st' = st, token' = token, ~esc', hexN' = 0, u8'.need = 0
    PROVE  Goes
<1>1. validateUTF8 \in BOOLEAN /\ text \in Seq(Byte)
  BY StringTypes
<1>2. text' = text \o s /\ ~dead' /\ validateUTF8' = validateUTF8
  BY DEF Reads, InString, Scanning
<1>3. (b \o r) \o s = b \o (r \o s) /\ r \o s \in Seq(Byte)
  BY ConcatAssociative, ConcatProperties
<1>4. b \o (r \o s) \in Seq(Byte) /\ IsBody(validateUTF8, b \o (r \o s))
  BY <1>3, BodyMore, ConcatProperties
<1>5. text' = (b \o (r \o s)) \o <<>> /\ <<>> \in Seq(Byte)
  BY <1>2, <1>3, <1>4, ConcatEmptySeq
<1>6. Open(validateUTF8, <<>>, esc', hexN', u8')
  BY Zenon DEF Open
<1>7. Written(validateUTF8, text', esc', hexN', u8')
  BY <1>4, <1>5, <1>6, Zenon DEF Written
<1> QED
  BY <1>2, <1>7, Zenon DEF Goes

\* A byte that leaves the character open.
LEMMA ReadsMore ==
    ASSUME TypeOK, InString, NEW b \in Seq(Byte), NEW r \in Seq(Byte), text = b \o r,
           IsBody(validateUTF8, b), NEW c \in Byte, Reads(<<c>>),
           Open(validateUTF8, r \o <<c>>, esc', hexN', u8'), st' = st, token' = token
    PROVE  Goes
<1>1. validateUTF8 \in BOOLEAN /\ text \in Seq(Byte)
  BY StringTypes
<1>2. text' = text \o <<c>> /\ ~dead' /\ validateUTF8' = validateUTF8
  BY DEF Reads, InString, Scanning
<1>3. (b \o r) \o <<c>> = b \o (r \o <<c>>) /\ r \o <<c>> \in Seq(Byte)
  BY MoreBytes
<1>4. text' = b \o (r \o <<c>>)
  BY <1>2, <1>3
<1>5. Written(validateUTF8, text', esc', hexN', u8')
  BY <1>3, <1>4, Zenon DEF Written
<1> QED
  BY <1>2, <1>5, Zenon DEF Goes

\* The actions in a string: the byte after a backslash,
LEMMA EscapedGrammar ==
    ASSUME TypeOK, StringOK, NEW c \in Byte, Escaped(c)
    PROVE  Goes \/ Stops
<1>1. InString /\ esc
  BY Zenon DEF Escaped
<1>2. PICK b \in Seq(Byte), r \in Seq(Byte) :
          /\ text = b \o r /\ IsBody(validateUTF8, b)
          /\ Open(validateUTF8, r, esc, hexN, u8)
  BY <1>1, UnderWay
<1>3. r = <<Backslash>> /\ hexN = 0 /\ u8.need = 0
  BY <1>1, <1>2, Zenon DEF Open
<1>4. validateUTF8 \in BOOLEAN
  BY StringTypes
<1>5. CASE escapeClass(c) = 0
  <2>1. Bail(<<c>>)
    BY <1>5, Zenon DEF Escaped
  <2>2. Fails(validateUTF8, r \o <<c>>)
    BY <1>3, <1>4, <1>5, EscapeFails
  <2>3. Stops
    BY <1>1, <1>2, <2>1, <2>2, BailStops
  <2> QED
    BY <2>3
<1>6. CASE escapeClass(c) # 0
  <2>1. /\ Reads(<<c>>) /\ esc' = FALSE /\ hexN' = IF escapeClass(c) = 2 THEN 4 ELSE hexN
        /\ st' = st /\ u8' = u8 /\ token' = token
    BY <1>6, Zenon DEF Escaped
  <2>2. escapeClass(c) = 1 \/ escapeClass(c) = 2
    BY <1>6 DEF escapeClass
  <2>3. /\ escapeClass(c) = 1 => IsChar(validateUTF8, r \o <<c>>) /\ Len(r \o <<c>>) \in Sizes
        /\ escapeClass(c) = 2 => PartialHex(r \o <<c>>, 4)
    BY <1>3, <1>4, EscapedGoes
  <2>4. CASE escapeClass(c) = 1
    <3>1. ~esc' /\ hexN' = 0 /\ u8'.need = 0 /\ <<c>> \in Seq(Byte)
      BY <1>3, <2>1, <2>4, OneByte
    <3>2. Goes
      BY <1>1, <1>2, <2>1, <2>3, <2>4, <3>1, ReadsWhole
    <3> QED
      BY <3>2
  <2>5. CASE escapeClass(c) = 2
    <3>1. hexN' = 4 /\ ~esc' /\ u8'.need = 0
      BY <1>3, <2>1, <2>5
    <3>2. Open(validateUTF8, r \o <<c>>, esc', hexN', u8')
      BY <2>3, <2>5, <3>1, Zenon DEF Open
    <3>3. Goes
      BY <1>1, <1>2, <2>1, <3>2, ReadsMore
    <3> QED
      BY <3>3
  <2> QED
    BY <2>2, <2>4, <2>5
<1> QED
  BY <1>5, <1>6

\* a digit of \u,
LEMMA HexDigitGrammar ==
    ASSUME TypeOK, StringOK, NEW c \in Byte, HexDigit(c)
    PROVE  Goes \/ Stops
<1>1. InString /\ ~esc /\ hexN > 0
  BY Zenon DEF HexDigit
<1>2. PICK b \in Seq(Byte), r \in Seq(Byte) :
          /\ text = b \o r /\ IsBody(validateUTF8, b)
          /\ Open(validateUTF8, r, esc, hexN, u8)
  BY <1>1, UnderWay
<1>3. PartialHex(r, hexN) /\ u8.need = 0
  <2>1. hexN # 0
    BY <1>1, StringTypes
  <2> QED
    BY <1>1, <1>2, <2>1, Zenon DEF Open
<1>4. validateUTF8 \in BOOLEAN
  BY StringTypes
<1>5. CASE ~isHexByte(c)
  <2>1. Bail(<<c>>)
    BY <1>5, Zenon DEF HexDigit
  <2>2. Fails(validateUTF8, r \o <<c>>)
    BY <1>3, <1>4, <1>5, HexFails
  <2>3. Stops
    BY <1>1, <1>2, <2>1, <2>2, BailStops
  <2> QED
    BY <2>3
<1>6. CASE isHexByte(c)
  <2>1. /\ Reads(<<c>>) /\ hexN' = hexN - 1
        /\ st' = st /\ esc' = esc /\ u8' = u8 /\ token' = token
    BY <1>6, Zenon DEF HexDigit
  <2>2. /\ hexN \in 1..4
        /\ hexN = 1 => IsChar(validateUTF8, r \o <<c>>) /\ Len(r \o <<c>>) \in Sizes
        /\ hexN > 1 => PartialHex(r \o <<c>>, hexN - 1)
    BY <1>3, <1>4, <1>6, HexGoes
  <2>3. ~esc' /\ u8'.need = 0
    BY <1>1, <1>3, <2>1
  <2>4. CASE hexN = 1
    <3>1. hexN' = 0 /\ <<c>> \in Seq(Byte)
      BY <2>1, <2>4, OneByte
    <3>2. Goes
      BY <1>1, <1>2, <2>1, <2>2, <2>3, <2>4, <3>1, ReadsWhole
    <3> QED
      BY <3>2
  <2>5. CASE hexN > 1
    <3>1. Open(validateUTF8, r \o <<c>>, esc', hexN', u8')
      BY <2>1, <2>2, <2>3, <2>5, Zenon DEF Open
    <3>2. Goes
      BY <1>1, <1>2, <2>1, <3>1, ReadsMore
    <3> QED
      BY <3>2
  <2>6. hexN = 1 \/ hexN > 1
    BY <2>2
  <2> QED
    BY <2>4, <2>5, <2>6
<1> QED
  BY <1>5, <1>6

\* Outside an escape: a sequence is under way, or nothing is.
LEMMA BodyIs ==
    ASSUME TypeOK, StringOK, Body
    PROVE  \E b, r \in Seq(Byte) :
              /\ text = b \o r /\ IsBody(validateUTF8, b)
              /\ Open(validateUTF8, r, esc, hexN, u8)
              /\ MidSequence => validateUTF8 /\ Partial(r) /\ Remembers(r, u8)
              /\ ~MidSequence => r = <<>> /\ u8.need = 0
<1>1. InString /\ ~esc /\ hexN = 0
  BY Zenon DEF Body
<1>2. PICK b \in Seq(Byte), r \in Seq(Byte) :
          /\ text = b \o r /\ IsBody(validateUTF8, b)
          /\ Open(validateUTF8, r, esc, hexN, u8)
  BY <1>1, UnderWay
<1>3. ~PartialHex(r, hexN)
  <2> SUFFICES ASSUME PartialHex(r, hexN) PROVE FALSE
    OBVIOUS
  <2>1. Len(r) <= 5 /\ hexN = 6 - Len(r)
    BY Zenon DEF PartialHex
  <2>2. Len(r) \in Nat
    BY LenProperties
  <2> QED
    <3>1. \A n \in Nat : n <= 5 => 6 - n # 0
      OBVIOUS
    <3> QED
      BY <1>1, <2>1, <2>2, <3>1
<1>4. MidSequence => u8.need # 0
  BY StringTypes DEF MidSequence
<1>5. ~MidSequence => u8.need = 0
  BY StringTypes DEF MidSequence
<1>6. MidSequence => validateUTF8 /\ Partial(r) /\ Remembers(r, u8)
  BY <1>1, <1>2, <1>3, <1>4, Zenon DEF Open
<1>7. ASSUME ~MidSequence PROVE r = <<>>
  <2>1. ASSUME Partial(r), Remembers(r, u8) PROVE FALSE
    <3>1. u8.need = SizeOf(r[1]) - Len(r) /\ SizeOf(r[1]) > Len(r) /\ Len(r) \in Nat
          /\ SizeOf(r[1]) \in {2, 3, 4}
      BY <2>1, RemembersIs
    <3>2. u8.need > 0
      BY <3>1
    <3> QED
      BY <1>7, <3>2 DEF MidSequence
  <2> QED
    BY <1>1, <1>2, <1>3, <2>1, Zenon DEF Open
<1> QED
  BY <1>2, <1>5, <1>6, <1>7, Zenon

\* In the middle of a sequence an ASCII byte stops the scan.
LEMMA MidStops ==
    ASSUME TypeOK, StringOK, Body, MidSequence, NEW c \in Byte, c < 128, Bail(<<c>>)
    PROVE  Stops
<1>1. PICK b \in Seq(Byte), r \in Seq(Byte) :
          /\ text = b \o r /\ IsBody(validateUTF8, b)
          /\ Open(validateUTF8, r, esc, hexN, u8)
          /\ MidSequence => validateUTF8 /\ Partial(r) /\ Remembers(r, u8)
  BY BodyIs
<1>2. validateUTF8 \in BOOLEAN /\ InString
  BY StringTypes, Zenon DEF Body
<1>3. validateUTF8 /\ Partial(r) /\ Remembers(r, u8)
  BY <1>1, Zenon
<1>4. c \notin Table(r[1], Len(r) + 1)
  <2>1. r[1] \in Byte
    BY <1>3, RemembersIs
  <2>2. c \in Int
    BY ByteIs
  <2>3. ASSUME c \in Table(r[1], Len(r) + 1) PROVE FALSE
    <3>1. 128 <= c
      BY <2>1, <2>3, TableIsHigh
    <3> QED
      BY <2>2, <3>1
  <2> QED
    BY <2>3
<1>5. Fails(validateUTF8, r \o <<c>>)
  BY <1>2, <1>3, <1>4, SequenceFails
<1> QED
  BY <1>1, <1>2, <1>5, BailStops

\* Where no sequence is under way a byte that starts nothing stops it too.
LEMMA FirstStops ==
    ASSUME TypeOK, StringOK, Body, ~MidSequence, NEW c \in Byte,
           c < 32 \/ (validateUTF8 /\ c >= 128 /\ SizeOf(c) = 0), Bail(<<c>>)
    PROVE  Stops
<1>1. PICK b \in Seq(Byte), r \in Seq(Byte) :
          /\ text = b \o r /\ IsBody(validateUTF8, b)
          /\ Open(validateUTF8, r, esc, hexN, u8)
          /\ ~MidSequence => r = <<>> /\ u8.need = 0
  BY BodyIs
<1>2. validateUTF8 \in BOOLEAN /\ InString
  BY StringTypes, Zenon DEF Body
<1>3. r \o <<c>> = <<c>>
  BY <1>1, MoreBytes
<1>4. Fails(validateUTF8, r \o <<c>>)
  BY <1>2, <1>3, FirstFails
<1> QED
  BY <1>1, <1>2, <1>4, BailStops

\* a plain byte,
LEMMA PlainGrammar ==
    ASSUME TypeOK, StringOK, NEW c \in Byte, Plain(c)
    PROVE  Goes \/ Stops
<1>1. /\ Body /\ c >= 32 /\ c # Quote /\ c # Backslash
      /\ c < 128 \/ ~validateUTF8
  BY DEF Plain
<1>2. CASE MidSequence
  <2>1. validateUTF8
    BY <1>1, <1>2, BodyIs, Zenon
  <2>2. c < 128 /\ Bail(<<c>>)
    BY <1>1, <1>2, <2>1, Zenon DEF Plain
  <2>3. Stops
    BY <1>1, <1>2, <2>2, MidStops
  <2> QED
    BY <2>3
<1>3. CASE ~MidSequence
  <2>1. Reads(<<c>>) /\ UNCHANGED <<st, strVars, token>>
    BY <1>3, Zenon DEF Plain
  <2>2. PICK b \in Seq(Byte), r \in Seq(Byte) :
            /\ text = b \o r /\ IsBody(validateUTF8, b)
            /\ Open(validateUTF8, r, esc, hexN, u8)
            /\ ~MidSequence => r = <<>> /\ u8.need = 0
    BY <1>1, BodyIs
  <2>3. st' = st /\ token' = token /\ ~esc' /\ hexN' = 0 /\ u8'.need = 0
    BY <1>1, <1>3, <2>1, <2>2 DEF strVars, Body
  <2>4. validateUTF8 \in BOOLEAN /\ InString /\ 32 <= c
    <3>1. c \in Int
      BY ByteIs
    <3>2. 32 <= c
      BY <1>1, <3>1
    <3> QED
      BY <1>1, <3>2, StringTypes, Zenon DEF Body
  <2>5. IsChar(validateUTF8, <<c>>)
    BY <1>1, <2>4, PlainGoes, Zenon
  <2>6. r \o <<c>> = <<c>> /\ <<c>> \in Seq(Byte) /\ Len(<<c>>) \in Sizes
    <3>1. Len(<<c>>) = 1
      OBVIOUS
    <3> QED
      BY <1>3, <2>2, <3>1, MoreBytes DEF Sizes
  <2>7. Goes
    BY <2>1, <2>2, <2>3, <2>4, <2>5, <2>6, ReadsWhole
  <2> QED
    BY <2>7
<1> QED
  BY <1>2, <1>3

\* a control character,
LEMMA ControlGrammar ==
    ASSUME TypeOK, StringOK, NEW c \in Byte, Control(c)
    PROVE  Stops
<1>1. Body /\ c < 32 /\ Bail(<<c>>)
  BY Zenon DEF Control
<1>2. c < 128
  BY <1>1, ByteIs
<1>3. CASE MidSequence
  BY <1>1, <1>2, <1>3, MidStops
<1>4. CASE ~MidSequence
  BY <1>1, <1>4, FirstStops
<1> QED
  BY <1>3, <1>4

\* a backslash,
LEMMA StartEscapeGrammar ==
    ASSUME TypeOK, StringOK, StartEscape
    PROVE  Goes \/ Stops
<1>0. Backslash \in Byte /\ Backslash < 128
  BY DEF Byte, Backslash
<1>1. Body
  BY Zenon DEF StartEscape
<1>2. CASE MidSequence
  <2>1. Bail(<<Backslash>>)
    BY <1>2, Zenon DEF StartEscape
  <2>2. Stops
    BY <1>0, <1>1, <1>2, <2>1, MidStops
  <2> QED
    BY <2>2
<1>3. CASE ~MidSequence
  <2>1. Reads(<<Backslash>>) /\ esc' = TRUE /\ UNCHANGED <<st, hexN, u8, token>>
    BY <1>3, Zenon DEF StartEscape
  <2>2. PICK b \in Seq(Byte), r \in Seq(Byte) :
            /\ text = b \o r /\ IsBody(validateUTF8, b)
            /\ Open(validateUTF8, r, esc, hexN, u8)
            /\ ~MidSequence => r = <<>> /\ u8.need = 0
    BY <1>1, BodyIs
  <2>3. st' = st /\ token' = token /\ esc' /\ hexN' = 0 /\ u8'.need = 0 /\ InString
    BY <1>1, <1>3, <2>1, <2>2 DEF Body
  <2>4. r \o <<Backslash>> = <<Backslash>>
    BY <1>0, <1>3, <2>2, MoreBytes
  <2>5. Open(validateUTF8, r \o <<Backslash>>, esc', hexN', u8')
    BY <2>3, <2>4, Zenon DEF Open
  <2>6. Goes
    BY <1>0, <2>1, <2>2, <2>3, <2>5, ReadsMore
  <2> QED
    BY <2>6
<1> QED
  BY <1>2, <1>3

\* the closing quote,
LEMMA ClosesGrammar ==
    ASSUME TypeOK, StringOK, Closes
    PROVE  \/ Stops
           \/ /\ st' = "sIdle" /\ ~dead' /\ validateUTF8' = validateUTF8
              /\ token'.st = st /\ IsString(validateUTF8, token'.text)
<1>0. Quote \in Byte /\ Quote < 128
  BY DEF Byte, Quote
<1>1. Body
  BY Zenon DEF Closes
<1>2. CASE MidSequence
  <2>1. Bail(<<Quote>>)
    BY <1>2, Zenon DEF Closes
  <2>2. Stops
    BY <1>0, <1>1, <1>2, <2>1, MidStops
  <2> QED
    BY <2>2
<1>3. CASE ~MidSequence
  <2>1. Reads(<<Quote>>) /\ st' = "sIdle" /\ token'.st = st /\ token'.text = text'
    BY <1>3 DEF Closes
  <2>2. PICK b \in Seq(Byte), r \in Seq(Byte) :
            /\ text = b \o r /\ IsBody(validateUTF8, b)
            /\ Open(validateUTF8, r, esc, hexN, u8)
            /\ ~MidSequence => r = <<>> /\ u8.need = 0
    BY <1>1, BodyIs
  <2>3. text' = text \o <<Quote>> /\ ~dead' /\ validateUTF8' = validateUTF8
    BY <1>1, <2>1 DEF Reads, Body, InString, Scanning
  <2>4. text = b
    BY <1>0, <1>3, <2>2, MoreBytes
  <2>5. Front(b \o <<Quote>>) = b /\ Last(b \o <<Quote>>) = Quote
    BY <1>0, FrontOfMore
  <2>6. b \o <<Quote>> # <<>>
    <3>1. Len(b) \in Nat /\ Len(b \o <<Quote>>) = Len(b) + 1
      BY <1>0, AddByte, LenProperties
    <3> QED
      BY <3>1
  <2>7. IsString(validateUTF8, b \o <<Quote>>)
    BY <2>2, <2>5, <2>6, Zenon DEF IsString
  <2> QED
    BY <2>1, <2>3, <2>4, <2>7, Zenon
<1> QED
  BY <1>2, <1>3

\* a byte of a sequence,
LEMMA SequenceByteGrammar ==
    ASSUME TypeOK, StringOK, NEW c \in Byte, SequenceByte(c)
    PROVE  Goes \/ Stops
<1>1. Body /\ validateUTF8 /\ c >= 128
  BY Zenon DEF SequenceByte
<1>2. PICK b \in Seq(Byte), r \in Seq(Byte) :
          /\ text = b \o r /\ IsBody(validateUTF8, b)
          /\ Open(validateUTF8, r, esc, hexN, u8)
          /\ MidSequence => validateUTF8 /\ Partial(r) /\ Remembers(r, u8)
          /\ ~MidSequence => r = <<>> /\ u8.need = 0
  BY <1>1, BodyIs
<1>3. validateUTF8 \in BOOLEAN /\ InString /\ ~esc /\ hexN = 0
  BY <1>1, StringTypes, Zenon DEF Body
<1> DEFINE ok == IF MidSequence THEN c \in u8.lo..u8.hi
                 ELSE SizeOf(c) # 0 /\ Lead(c) # NoSequence
<1>4. IF ok THEN /\ Reads(<<c>>)
                 /\ u8' = IF MidSequence THEN Next8(u8) ELSE Lead(c)
                 /\ UNCHANGED <<st, esc, hexN, lit, keyEsc, token>>
      ELSE Bail(<<c>>)
  BY Zenon DEF SequenceByte
<1>5. CASE MidSequence
  <2>1. Partial(r) /\ Remembers(r, u8)
    BY <1>2, <1>5, Zenon
  <2>2. u8.lo..u8.hi = Table(r[1], Len(r) + 1)
    BY <2>1, RemembersIs, Zenon
  <2>3. CASE ok
    <3>1. c \in Table(r[1], Len(r) + 1)
      BY <1>5, <2>2, <2>3, Zenon
    <3>2. Reads(<<c>>) /\ u8' = Next8(u8)
          /\ st' = st /\ esc' = esc /\ hexN' = hexN /\ token' = token
      <4> HIDE DEF ok
      <4> QED
        BY <1>4, <1>5, <2>3
    <3>3. /\ u8.need = 1 => IsChar(validateUTF8, r \o <<c>>) /\ Len(r \o <<c>>) \in Sizes
          /\ u8.need # 1 => Partial(r \o <<c>>) /\ Remembers(r \o <<c>>, Next8(u8))
      BY <1>1, <1>3, <2>1, <3>1, SequenceGoes
    <3>4. ~esc' /\ hexN' = 0
      BY <1>3, <3>2
    <3>5. CASE u8.need = 1
      <4>1. u8'.need = 0 /\ <<c>> \in Seq(Byte)
        BY <3>2, <3>5, OneByte DEF Next8, NoSequence
      <4>2. IsChar(validateUTF8, r \o <<c>>) /\ Len(r \o <<c>>) \in Sizes
        BY <3>3, <3>5, Zenon
      <4>3. Goes
        BY <1>2, <1>3, <3>2, <3>4, <4>1, <4>2, ReadsWhole
      <4> QED
        BY <4>3
    <3>6. CASE u8.need # 1
      <4>1. Open(validateUTF8, r \o <<c>>, esc', hexN', u8')
        BY <1>1, <3>2, <3>3, <3>4, <3>6, Zenon DEF Open
      <4>2. Goes
        BY <1>2, <1>3, <3>2, <4>1, ReadsMore
      <4> QED
        BY <4>2
    <3> QED
      BY <3>5, <3>6
  <2>4. CASE ~ok
    <3>1. c \notin Table(r[1], Len(r) + 1)
      BY <1>5, <2>2, <2>4, Zenon
    <3>2. Bail(<<c>>)
      <4> HIDE DEF ok
      <4> QED
        BY <1>4, <2>4, Zenon
    <3>3. Fails(validateUTF8, r \o <<c>>)
      BY <1>1, <1>3, <2>1, <3>1, SequenceFails
    <3>4. Stops
      BY <1>2, <1>3, <3>2, <3>3, BailStops
    <3> QED
      BY <3>4
  <2> QED
    BY <2>3, <2>4
<1>6. CASE ~MidSequence
  <2>1. r \o <<c>> = <<c>>
    BY <1>2, <1>6, MoreBytes
  <2>2. CASE SizeOf(c) # 0
    <3>1. Lead(c) # NoSequence
      BY <2>2, LeadIs
    <3>2. ok
      BY <1>6, <2>2, <3>1, Zenon
    <3>3. Reads(<<c>>) /\ u8' = Lead(c)
          /\ st' = st /\ esc' = esc /\ hexN' = hexN /\ token' = token
      <4> HIDE DEF ok
      <4> QED
        BY <1>4, <1>6, <3>2
    <3>4. Partial(<<c>>) /\ Remembers(<<c>>, Lead(c))
      BY <2>2, LeadGoes
    <3>5. Open(validateUTF8, r \o <<c>>, esc', hexN', u8')
      BY <1>1, <1>3, <2>1, <3>3, <3>4, Zenon DEF Open
    <3>6. Goes
      BY <1>2, <1>3, <3>3, <3>5, ReadsMore
    <3> QED
      BY <3>6
  <2>3. CASE SizeOf(c) = 0
    <3>1. ~ok
      BY <1>6, <2>3, Zenon
    <3>2. Bail(<<c>>)
      <4> HIDE DEF ok
      <4> QED
        BY <1>4, <3>1, Zenon
    <3>3. Stops
      BY <1>1, <1>6, <2>3, <3>2, FirstStops
    <3> QED
      BY <3>3
  <2> QED
    BY <2>2, <2>3
<1> QED
  BY <1>5, <1>6

\* The bytes of a whole sequence up to the first the table refuses.
LEMMA RefusedFirst ==
    ASSUME NEW s \in Seq(Byte), s[1] \in Byte, SizeOf(s[1]) = Len(s), SizeOf(s[1]) # 0,
           Refused(s) # {}
    PROVE  LET m == Min(Refused(s))
               p == SubSeq(s, 1, m - 1)
           IN  /\ m \in 2..Len(s) /\ p \in Seq(Byte) /\ Len(p) = m - 1 /\ s[m] \in Byte
               /\ SubSeq(s, 1, m) = p \o <<s[m]>> /\ p[1] = s[1] /\ Partial(p)
               /\ s[m] \notin Table(p[1], Len(p) + 1)
               /\ \A k \in 2..m - 1 : p[k] \in Table(s[1], k)
<1> DEFINE m == Min(Refused(s))
           p == SubSeq(s, 1, m - 1)
<1>0. Len(s) \in {2, 3, 4} /\ Len(s) \in Nat /\ \A k \in 1..Len(s) : s[k] \in Byte
  <2>1. SizeOf(s[1]) \in {0, 2, 3, 4}
    BY SizeIs
  <2>2. Len(s) \in {2, 3, 4}
    BY <2>1
  <2> QED
    BY <2>2, LenProperties, ElementOfSeq
<1>1. Refused(s) \subseteq 2..Len(s) /\ Refused(s) \subseteq {2, 3, 4}
  <2>1. Refused(s) \subseteq 2..Len(s)
    BY DEF Refused
  <2> QED
    BY <1>0, <2>1
<1>2. \E x \in Refused(s) : \A y \in Refused(s) : x <= y
  BY <1>1
<1>3. m \in Refused(s) /\ \A y \in Refused(s) : m <= y
  BY <1>2 DEF Min
<1> HIDE DEF m
<1>4. m \in 2..Len(s) /\ m \in {2, 3, 4} /\ s[m] \notin Table(s[1], m)
  BY <1>1, <1>3, RefusedIs
<1>41. m \in Nat /\ 2 <= m /\ m <= Len(s) /\ m <= 4
  BY <1>0, <1>4
<1>5. ASSUME NEW k \in 2..m - 1 PROVE s[k] \in Table(s[1], k)
  <2>1. k \in 2..Len(s) /\ ~(m <= k)
    BY <1>0, <1>41
  <2>2. k \notin Refused(s)
    BY <1>3, <2>1
  <2> QED
    BY <2>1, <2>2, RefusedIs
<1>6. m - 1 \in 1..Len(s) /\ m \in 1..Len(s) /\ m - 1 \in Nat /\ (m - 1) + 1 = m
  BY <1>0, <1>41
<1>7. /\ p \in Seq(Byte) /\ Len(p) = m - 1 /\ \A k \in 1..m - 1 : p[k] = s[k]
  BY <1>6, FirstBytes
<1>8. /\ SubSeq(s, 1, m) \in Seq(Byte) /\ Len(SubSeq(s, 1, m)) = m
      /\ \A k \in 1..m : SubSeq(s, 1, m)[k] = s[k]
  BY <1>6, FirstBytes
<1> HIDE DEF p
<1>9. s[m] \in Byte
  BY <1>0, <1>6
<1>10. SubSeq(s, 1, m) = p \o <<s[m]>>
  <2>1. /\ p \o <<s[m]>> \in Seq(Byte) /\ Len(p \o <<s[m]>>) = (m - 1) + 1
        /\ \A k \in 1..m - 1 : (p \o <<s[m]>>)[k] = p[k]
        /\ (p \o <<s[m]>>)[(m - 1) + 1] = s[m]
    BY <1>7, <1>9, AddByte
  <2>2. ASSUME NEW k \in 1..m PROVE SubSeq(s, 1, m)[k] = (p \o <<s[m]>>)[k]
    <3>1. k \in 1..m - 1 \/ k = m
      BY <1>41
    <3>2. CASE k \in 1..m - 1
      BY <1>7, <1>8, <2>1, <3>2
    <3>3. CASE k = m
      BY <1>6, <1>8, <2>1, <3>3
    <3> QED
      BY <3>1, <3>2, <3>3
  <2>3. Len(p \o <<s[m]>>) = m
    BY <1>6, <2>1
  <2> QED
    BY <1>8, <2>1, <2>2, <2>3, SeqEqual
<1>11. p[1] = s[1]
  BY <1>6, <1>7
<1>12. Partial(p)
  <2>1. 1 <= Len(p) /\ Len(p) <= 3 /\ SizeOf(p[1]) > Len(p)
    BY <1>0, <1>41, <1>7, <1>11
  <2>2. ASSUME NEW k \in 2..Len(p) PROVE p[k] \in Table(p[1], k)
    <3>1. k \in 2..m - 1 /\ k \in 1..m - 1
      BY <1>41, <1>7
    <3> QED
      BY <1>5, <1>7, <1>11, <3>1
  <2>3. Refused(p) = {}
    BY <2>2, RefusedIs
  <2> QED
    BY <2>1, <2>3, Zenon DEF Partial
<1>13. s[m] \notin Table(p[1], Len(p) + 1)
  BY <1>4, <1>6, <1>7, <1>11
<1>14. \A k \in 2..m - 1 : p[k] \in Table(s[1], k)
  <2> SUFFICES ASSUME NEW k \in 2..m - 1 PROVE p[k] \in Table(s[1], k)
    OBVIOUS
  <2>1. k \in 1..m - 1
    BY <1>41
  <2> QED
    BY <1>5, <1>7, <2>1
<1> QED
  BY <1>4, <1>7, <1>9, <1>10, <1>11, <1>12, <1>13, <1>14, Zenon DEF m, p

\* and a sequence read whole.
LEMMA WholeSequenceGrammar ==
    ASSUME TypeOK, StringOK, NEW c \in Byte, WholeSequence(c)
    PROVE  Goes \/ Stops
<1>1. Body /\ validateUTF8 /\ c >= 128 /\ ~MidSequence /\ SizeOf(c) \in 1..left
  BY Zenon DEF WholeSequence
<1>2. PICK b \in Seq(Byte), r \in Seq(Byte) :
          /\ text = b \o r /\ IsBody(validateUTF8, b)
          /\ Open(validateUTF8, r, esc, hexN, u8)
          /\ ~MidSequence => r = <<>> /\ u8.need = 0
  BY <1>1, BodyIs
<1>3. validateUTF8 \in BOOLEAN /\ InString /\ ~esc /\ hexN = 0 /\ text \in Seq(Byte)
  BY <1>1, StringTypes, Zenon DEF Body
<1>4. SizeOf(c) # 0
  BY <1>1, SizeIs
<1>5. PICK tail \in [1..SizeOf(c) - 1 -> TailBytes] :
         LET s == <<c>> \o tail
         IN  IF Refused(s) = {}
             THEN Reads(s) /\ UNCHANGED <<st, strVars, lit, keyEsc, token>>
             ELSE Bail(SubSeq(s, 1, Min(Refused(s))))
  BY Zenon DEF WholeSequence
<1> DEFINE s == <<c>> \o tail
<1>6. s \in Seq(Byte) /\ Len(s) = SizeOf(c) /\ s[1] = c
  BY <1>4, WholeIsBytes
<1>7. IF Refused(s) = {}
      THEN Reads(s) /\ UNCHANGED <<st, strVars, lit, keyEsc, token>>
      ELSE Bail(SubSeq(s, 1, Min(Refused(s))))
  BY <1>5, Zenon
<1> HIDE DEF s
<1>8. r = <<>> /\ u8.need = 0 /\ text = b
  <2>1. r = <<>> /\ u8.need = 0
    BY <1>1, <1>2, Zenon
  <2> QED
    BY <1>2, <2>1, ConcatEmptySeq
<1>9. CASE Refused(s) = {}
  <2>1. Reads(s) /\ st' = st /\ token' = token /\ ~esc' /\ hexN' = 0 /\ u8'.need = 0
    <3>1. Reads(s) /\ UNCHANGED <<st, strVars, token>>
      BY <1>7, <1>9, Zenon
    <3> QED
      BY <1>3, <1>8, <3>1 DEF strVars
  <2>2. IsChar(validateUTF8, s) /\ Len(s) \in Sizes
    <3>1. Len(s) # 0 /\ s[1] \in Byte /\ SizeOf(s[1]) = Len(s)
      BY <1>4, <1>6
    <3> QED
      BY <1>1, <1>3, <1>6, <1>9, <3>1, WholeGoes
  <2>3. r \o s = s
    BY <1>6, <1>8, ConcatEmptySeq
  <2>4. Goes
    BY <1>2, <1>3, <1>6, <2>1, <2>2, <2>3, ReadsWhole
  <2> QED
    BY <2>4
<1>10. CASE Refused(s) # {}
  <2> DEFINE m == Min(Refused(s))
             p == SubSeq(s, 1, m - 1)
             d == s[m]
             q == p \o <<d>>
  <2>1. /\ m \in 2..Len(s) /\ p \in Seq(Byte) /\ Len(p) = m - 1 /\ d \in Byte
        /\ SubSeq(s, 1, m) = q /\ p[1] = s[1] /\ Partial(p)
        /\ d \notin Table(p[1], Len(p) + 1)
        /\ \A k \in 2..m - 1 : p[k] \in Table(s[1], k)
    BY <1>4, <1>6, <1>10, RefusedFirst
  <2>2. Bail(SubSeq(s, 1, m))
    BY <1>7, <1>10, Zenon
  <2> HIDE DEF m, p, d
  <2>20. Len(s) \in Nat /\ m \in Nat /\ 2 <= m
    BY <1>6, <2>1, LenProperties
  <2>3. /\ dead' /\ offset' = Len(text) /\ text' = text \o q /\ st' = st /\ token' = token
        /\ validateUTF8' = validateUTF8
    <3> HIDE DEF q
    <3> QED
      BY <2>1, <2>2 DEF Bail
  <2>4. text' = (b \o p) \o <<d>>
    <3>1. (b \o p) \o <<d>> = b \o (p \o <<d>>)
      <4>1. b \in Seq(Byte) /\ p \in Seq(Byte) /\ d \in Byte
        BY <2>1, Zenon
      <4> QED
        BY <4>1, MoreBytes
    <3> QED
      BY <1>8, <2>3, <3>1
  <2> DEFINE u == IF Len(p) = 1 THEN Lead(p[1])
                  ELSE [need |-> SizeOf(p[1]) - Len(p), lo |-> 128, hi |-> 191]
  <2>5. Open(validateUTF8, p, FALSE, 0, u)
    <3>1. Remembers(p, u)
      BY Zenon DEF Remembers
    <3> HIDE DEF u
    <3> QED
      BY <1>1, <2>1, <3>1, Zenon DEF Open
  <2> HIDE DEF u
  <2>6. Fails(validateUTF8, p \o <<d>>)
    BY <1>1, <1>3, <2>1, SequenceFails
  <2>7. ~StartsString(validateUTF8, (b \o p) \o <<d>>) /\ StartsString(validateUTF8, b \o p)
    BY <1>2, <1>3, <2>1, <2>5, <2>6, StopsAt
  <2>8. b \o p \in Seq(Byte) /\ Len(b \o p) = Len(b) + Len(p) /\ Len(b) \in Nat
    BY <2>1, ConcatProperties, LenProperties
  <2>9. Front(text') = b \o p /\ Len(text') - 1 = Len(b) + (m - 1)
    BY <2>1, <2>4, <2>8, FrontOfMore
  <2>10. offset' = Len(b)
    BY <1>8, <2>3
  <2>11. offset' < Len(text') - 1
    BY <2>8, <2>9, <2>10, <2>20
  <2>12. q \in Seq(Byte) /\ Len(q) = m /\ q[1] = c /\ \A k \in 1..m - 1 : q[k] = p[k]
    <3>1. /\ p \o <<d>> \in Seq(Byte) /\ Len(p \o <<d>>) = Len(p) + 1
          /\ \A k \in 1..Len(p) : (p \o <<d>>)[k] = p[k]
      BY <2>1, AddByte
    <3>2. 1 \in 1..m - 1 /\ (m - 1) + 1 = m
      BY <2>20
    <3> QED
      BY <1>6, <2>1, <3>1, <3>2
  <2>13. SubSeq(text', 1, Len(b)) = b
    <3>1. text' = b \o q
      BY <1>8, <2>3
    <3>2. 1 \in Nat \ {0} /\ Len(b) <= Len(b)
      BY <2>8
    <3> HIDE DEF q
    <3>3. SubSeq(b \o q, 1, Len(b)) = SubSeq(b, 1, Len(b))
      BY <2>8, <2>12, <3>2, PartOfFirst
    <3>4. SubSeq(b, 1, Len(b)) = b
      BY SubSeqFull
    <3> QED
      BY <3>1, <3>3, <3>4
  <2>14. ASSUME NEW k \in Len(b) + 1..Len(b) + (m - 1) PROVE text'[k] >= 128
    <3> DEFINE i == k - Len(b)
    <3>1. i \in 1..m - 1 /\ k \in 1..Len(b) + m /\ ~(k <= Len(b))
      BY <2>8, <2>20
    <3>2. text' = b \o q
      BY <1>8, <2>3
    <3>3. text'[k] = q[i]
      <4> HIDE DEF q
      <4>1. (b \o q)[k] = q[k - Len(b)]
        BY <2>12, <3>1, ConcatProperties
      <4> QED
        BY <3>2, <4>1
    <3> HIDE DEF i, q
    <3>4. CASE i = 1
      BY <1>1, <2>12, <3>3, <3>4
    <3>5. CASE i # 1
      <4>1. i \in 2..m - 1
        BY <2>20, <3>1, <3>5
      <4>2. p[i] \in Table(s[1], i) /\ q[i] = p[i]
        BY <2>1, <2>12, <3>1, <4>1
      <4>3. p[i] \in Byte
        BY <2>1, <3>1, ElementOfSeq
      <4>4. 128 <= p[i] /\ p[i] \in Int
        BY <1>6, <4>2, <4>3, TableIsHigh, ByteIs
      <4> QED
        BY <3>3, <4>2, <4>4
    <3> QED
      BY <3>4, <3>5
  <2>15. \A k \in offset' + 1..Len(text') - 1 : text'[k] >= 128
    BY <2>9, <2>10, <2>14
  <2>16. IsBody(validateUTF8, SubSeq(text', 1, offset'))
    BY <1>2, <2>10, <2>13
  <2>17. Stops
    BY <1>1, <2>3, <2>4, <2>7, <2>9, <2>11, <2>15, <2>16, Zenon DEF Stops
  <2> QED
    BY <2>17
<1> QED
  BY <1>9, <1>10

-----------------------------------------------------------------------------
(* The numbers, by the places where their parts end. *)

DigitAt(s, k) == 48 <= s[k] /\ s[k] <= 57
AllDigits(s, i, j) == \A k \in i..j : DigitAt(s, k)

\* The sign and the integer end at b; the fraction at c; the exponent with s.
IntAt(s, a, b) ==
    /\ a = 0 \/ (a = 1 /\ s[1] = 45)
    /\ a < b /\ AllDigits(s, a + 1, b)
    /\ s[a + 1] = 48 => b = a + 1
FracAt(s, b, c) == c = b \/ (b + 2 <= c /\ s[b + 1] = 46 /\ AllDigits(s, b + 2, c))
IsExp(e) == e = 101 \/ e = 69
IsSign(e) == e = 43 \/ e = 45
ExpAt(s, c, n) ==
    /\ IsExp(s[c + 1])
    /\ \/ c + 2 <= n /\ AllDigits(s, c + 2, n)
       \/ c + 3 <= n /\ IsSign(s[c + 2]) /\ AllDigits(s, c + 3, n)

NumberAt(s, a, b, c) ==
    /\ a \in Nat /\ b \in Nat /\ c \in Nat /\ c <= Len(s)
    /\ IntAt(s, a, b) /\ FracAt(s, b, c) /\ (c = Len(s) \/ ExpAt(s, c, Len(s)))

\* A digit, as inequalities.
LEMMA DigitIs ==
    ASSUME NEW d \in Int
    PROVE  d \in 48..57 <=> 48 <= d /\ d <= 57
OBVIOUS

\* The bytes of a part of a text.
LEMMA PartOf ==
    ASSUME NEW s \in Seq(Byte), NEW i \in Nat \ {0}, NEW j \in Nat, j <= Len(s), i <= j + 1
    PROVE  /\ SubSeq(s, i, j) \in Seq(Byte) /\ Len(SubSeq(s, i, j)) = (j + 1) - i
           /\ \A k \in 1..(j + 1) - i : SubSeq(s, i, j)[k] = s[(i + k) - 1]
           /\ SubSeq(s, i, j) = <<>> <=> i = j + 1
<1>0. Len(s) \in Nat
  BY LenProperties
<1>1. \A k \in i..j : s[k] \in Byte
  <2>1. \A k \in 1..Len(s) : s[k] \in Byte
    BY ElementOfSeq
  <2>2. \A k \in i..j : k \in 1..Len(s)
    BY <1>0
  <2> QED
    BY <2>1, <2>2
<1>2. /\ SubSeq(s, i, j) \in Seq(Byte)
      /\ Len(SubSeq(s, i, j)) = IF i <= j THEN j - i + 1 ELSE 0
      /\ \A k \in 1..j - i + 1 : SubSeq(s, i, j)[k] = s[i + k - 1]
  BY <1>1, SubSeqProperties
<1>3. (IF i <= j THEN j - i + 1 ELSE 0) = (j + 1) - i /\ (j + 1) - i = j - i + 1
  OBVIOUS
<1>4. Len(SubSeq(s, i, j)) = (j + 1) - i
  BY <1>2, <1>3
<1>5. SubSeq(s, i, j) = <<>> <=> Len(SubSeq(s, i, j)) = 0
  BY <1>2, EmptySeq
<1>6. (j + 1) - i = 0 <=> i = j + 1
  OBVIOUS
<1> QED
  BY <1>2, <1>3, <1>4, <1>5, <1>6

LEMMA ExpBytes ==
    ASSUME NEW e
    PROVE  (e \in {101, 69} <=> IsExp(e)) /\ (e \in {43, 45} <=> IsSign(e))
BY DEF IsExp, IsSign

\* A part of digits.
LEMMA DigitsPart ==
    ASSUME NEW s \in Seq(Byte), NEW i \in Nat \ {0}, NEW j \in Nat, j <= Len(s), i <= j + 1
    PROVE  Digits(SubSeq(s, i, j)) <=> i <= j /\ AllDigits(s, i, j)
<1> DEFINE p == SubSeq(s, i, j)
           n == (j + 1) - i
<1>1. /\ p \in Seq(Byte) /\ Len(p) = n /\ \A k \in 1..n : p[k] = s[(i + k) - 1]
      /\ p = <<>> <=> i = j + 1
  BY PartOf
<1>2. i <= j <=> i # j + 1
  OBVIOUS
<1>3. DOMAIN p = 1..n
  BY <1>1, LenProperties
<1>4. \A k \in i..j : s[k] \in Int
  <2>1. \A k \in 1..Len(s) : s[k] \in Byte
    BY ElementOfSeq
  <2>2. \A k \in i..j : k \in 1..Len(s)
    BY LenProperties
  <2> QED
    BY <2>1, <2>2, ByteIs
<1>5. ASSUME AllDigits(s, i, j), NEW k \in 1..n PROVE p[k] \in 48..57
  <2>1. (i + k) - 1 \in i..j
    OBVIOUS
  <2>2. DigitAt(s, (i + k) - 1) /\ s[(i + k) - 1] \in Int
    BY <1>4, <1>5, <2>1 DEF AllDigits
  <2>3. s[(i + k) - 1] \in 48..57
    BY <2>2, DigitIs DEF DigitAt
  <2> QED
    BY <1>1, <2>3, Zenon
<1>6. ASSUME \A k \in 1..n : p[k] \in 48..57, NEW k \in i..j PROVE DigitAt(s, k)
  <2>1. (k + 1) - i \in 1..n /\ (i + ((k + 1) - i)) - 1 = k
    OBVIOUS
  <2>2. p[(k + 1) - i] = s[k]
    BY <1>1, <2>1
  <2>3. s[k] \in 48..57 /\ s[k] \in Int
    BY <1>4, <1>6, <2>1, <2>2, Zenon
  <2> QED
    BY <2>3, DigitIs DEF DigitAt
<1>7. AllDigits(s, i, j) <=> \A k \in 1..n : p[k] \in 48..57
  BY <1>5, <1>6 DEF AllDigits
<1> QED
  BY <1>1, <1>2, <1>3, <1>7, Zenon DEF Digits

\* What is behind the first byte of a part, and behind its second.
LEMMA TailPart ==
    ASSUME NEW s \in Seq(Byte), NEW i \in Nat \ {0}, NEW j \in Nat, j <= Len(s), i <= j
    PROVE  /\ SubSeq(s, i, j) # <<>> /\ SubSeq(s, i, j)[1] = s[i]
           /\ Tail(SubSeq(s, i, j)) = SubSeq(s, i + 1, j)
           /\ i + 2 <= j =>
                 /\ SubSeq(s, i, j)[2] = s[i + 1]
                 /\ SubSeq(SubSeq(s, i, j), 3, Len(SubSeq(s, i, j))) = SubSeq(s, i + 2, j)
<1>0. Len(s) \in Nat /\ i <= j + 1 /\ i # j + 1
  BY LenProperties
<1> DEFINE p == SubSeq(s, i, j)
           n == (j + 1) - i
<1>1. /\ p \in Seq(Byte) /\ Len(p) = n /\ \A k \in 1..n : p[k] = s[(i + k) - 1]
      /\ p # <<>>
  BY <1>0, PartOf
<1>2. 1 \in 1..n /\ (i + 1) - 1 = i /\ i \in 1..Len(s) /\ j \in i..Len(s)
  BY <1>0
<1>3. p[1] = s[i]
  BY <1>1, <1>2
<1>4. Tail(p) = SubSeq(s, i + 1, j)
  BY <1>2, HeadTailOfSubSeq
<1>5. ASSUME i + 2 <= j
      PROVE  p[2] = s[i + 1] /\ SubSeq(p, 3, Len(p)) = SubSeq(s, i + 2, j)
  <2>1. 2 \in 1..n /\ (i + 2) - 1 = i + 1 /\ 3 \in 1..j - i + 1 /\ n \in 1..j - i + 1
        /\ i + 3 - 1 = i + 2 /\ i + n - 1 = j /\ j \in 1..Len(s)
    BY <1>0, <1>5
  <2>2. p[2] = s[i + 1]
    BY <1>1, <2>1
  <2>3. SubSeq(p, 3, n) = SubSeq(s, i + 3 - 1, i + n - 1)
    <3> HIDE DEF n
    <3> QED
      BY <1>2, <2>1, SubSeqOfSubSeq
  <2> QED
    BY <1>1, <2>1, <2>2, <2>3
<1> QED
  BY <1>1, <1>3, <1>4, <1>5

\* The parts of a number: its sign,
LEMMA SignPart ==
    ASSUME NEW s \in Seq(Byte), NEW a \in Nat, a <= Len(s)
    PROVE  SubSeq(s, 1, a) \in {<<>>, <<45>>} <=> a = 0 \/ (a = 1 /\ s[1] = 45)
<1> DEFINE p == SubSeq(s, 1, a)
<1>0. Len(s) \in Nat /\ 1 <= a + 1 /\ (a + 1) - 1 = a /\ (1 = a + 1 <=> a = 0)
  BY LenProperties
<1>1. /\ p \in Seq(Byte) /\ Len(p) = a /\ \A k \in 1..a : p[k] = s[(1 + k) - 1]
      /\ p = <<>> <=> a = 0
  BY <1>0, PartOf
<1>2. <<45>> \in Seq(Byte) /\ Len(<<45>>) = 1 /\ <<45>>[1] = 45
  BY OneByte DEF Byte
<1> HIDE DEF p
<1>3. a = 1 => p[1] = s[1]
  BY <1>1
<1>4. p = <<45>> => a = 1 /\ s[1] = 45
  BY <1>1, <1>2, <1>3
<1>5. ASSUME a = 1, s[1] = 45 PROVE p = <<45>>
  <2>1. Len(p) = Len(<<45>>) /\ \A k \in 1..Len(p) : p[k] = <<45>>[k]
    BY <1>1, <1>2, <1>3, <1>5
  <2> QED
    BY <1>1, <1>2, <2>1, SeqEqual
<1>6. p \in {<<>>, <<45>>} <=> p = <<>> \/ p = <<45>>
  OBVIOUS
<1>7. p \in {<<>>, <<45>>} <=> a = 0 \/ (a = 1 /\ s[1] = 45)
  <2>1. p = <<>> <=> a = 0
    BY <1>1
  <2>2. p = <<45>> <=> a = 1 /\ s[1] = 45
    BY <1>4, <1>5, Zenon
  <2> HIDE <1>1, <1>4, <1>5
  <2> QED
    BY <1>6, <2>1, <2>2, Zenon
<1> QED
  BY <1>7, Zenon DEF p

\* its integer,
LEMMA IntPart ==
    ASSUME NEW s \in Seq(Byte), NEW a \in Nat, NEW b \in Nat, a <= b, b <= Len(s)
    PROVE  LET int == SubSeq(s, a + 1, b)
           IN  Digits(int) /\ (int[1] = 48 => Len(int) = 1)
               <=> a < b /\ AllDigits(s, a + 1, b) /\ (s[a + 1] = 48 => b = a + 1)
<1> DEFINE p == SubSeq(s, a + 1, b)
<1>0. a + 1 \in Nat \ {0} /\ a + 1 <= b + 1 /\ (a + 1 <= b <=> a < b)
  OBVIOUS
<1>1. Digits(p) <=> a < b /\ AllDigits(s, a + 1, b)
  BY <1>0, DigitsPart
<1>2. Len(p) = (b + 1) - (a + 1)
  BY <1>0, PartOf
<1>3. Len(p) = 1 <=> b = a + 1
  <2>1. (b + 1) - (a + 1) = 1 <=> b = a + 1
    OBVIOUS
  <2> HIDE DEF p
  <2> QED
    BY <1>2, <2>1
<1>4. a < b => p[1] = s[a + 1]
  BY <1>0, TailPart
<1> QED
  BY <1>1, <1>3, <1>4, Zenon

\* its fraction,
LEMMA FracPart ==
    ASSUME NEW s \in Seq(Byte), NEW b \in Nat, NEW c \in Nat, b <= c, c <= Len(s)
    PROVE  LET frac == SubSeq(s, b + 1, c)
           IN  (frac = <<>> \/ (frac[1] = 46 /\ Digits(Tail(frac)))) <=> FracAt(s, b, c)
<1> DEFINE p == SubSeq(s, b + 1, c)
<1>0. b + 1 \in Nat \ {0} /\ b + 1 <= c + 1 /\ (b + 1 <= c <=> b # c)
      /\ (b + 1 = c + 1 <=> c = b) /\ (b + 1) + 1 = b + 2 /\ b + 2 \in Nat \ {0}
  OBVIOUS
<1>1. p = <<>> <=> c = b
  BY <1>0, PartOf
<1>2. b # c => p[1] = s[b + 1] /\ Tail(p) = SubSeq(s, b + 2, c)
  <2> SUFFICES ASSUME b # c PROVE p[1] = s[b + 1] /\ Tail(p) = SubSeq(s, b + 2, c)
    OBVIOUS
  <2>1. p[1] = s[b + 1] /\ Tail(p) = SubSeq(s, (b + 1) + 1, c)
    BY <1>0, TailPart
  <2> QED
    BY <1>0, <2>1
<1>3. b # c => b + 2 <= c + 1
  OBVIOUS
<1>4. b # c => (Digits(SubSeq(s, b + 2, c)) <=> b + 2 <= c /\ AllDigits(s, b + 2, c))
  BY <1>0, <1>3, DigitsPart
<1>5. b = c => ~(b + 2 <= c)
  OBVIOUS
<1> QED
  BY <1>1, <1>2, <1>4, <1>5, Zenon DEF FracAt

\* and its exponent.
LEMMA ExpPart ==
    ASSUME NEW s \in Seq(Byte), NEW c \in Nat, c <= Len(s)
    PROVE  LET exp == SubSeq(s, c + 1, Len(s))
           IN  (\/ exp = <<>>
                \/ /\ exp[1] \in {101, 69}
                   /\ \/ Digits(Tail(exp))
                      \/ /\ Len(exp) > 2 /\ exp[2] \in {43, 45}
                         /\ Digits(SubSeq(exp, 3, Len(exp))))
               <=> (c = Len(s) \/ ExpAt(s, c, Len(s)))
<1>n. Len(s) \in Nat
  BY LenProperties
<1> DEFINE n == Len(s)
           p == SubSeq(s, c + 1, n)
<1>0. c + 1 \in Nat \ {0} /\ c + 1 <= n + 1 /\ (c + 1 <= n <=> c # n)
      /\ (c + 1 = n + 1 <=> c = n) /\ (c + 1) + 1 = c + 2 /\ c + 2 \in Nat \ {0}
      /\ (c + 1) + 2 = c + 3 /\ c + 3 \in Nat \ {0} /\ n <= n
  BY <1>n
<1>1. (p = <<>> <=> c = n) /\ Len(p) = (n + 1) - (c + 1)
  BY <1>n, <1>0, PartOf
<1>2. Len(p) > 2 <=> c + 3 <= n
  <2>1. (n + 1) - (c + 1) > 2 <=> c + 3 <= n
    BY <1>n
  <2> HIDE DEF p
  <2> QED
    BY <1>1, <2>1
<1>3. ASSUME c # n
      PROVE  /\ p[1] = s[c + 1] /\ Tail(p) = SubSeq(s, c + 2, n)
             /\ c + 3 <= n => /\ p[2] = s[c + 2]
                              /\ SubSeq(p, 3, Len(p)) = SubSeq(s, c + 3, n)
  <2>1. /\ p[1] = s[c + 1] /\ Tail(p) = SubSeq(s, (c + 1) + 1, n)
        /\ (c + 1) + 2 <= n =>
              /\ p[2] = s[(c + 1) + 1]
              /\ SubSeq(p, 3, Len(p)) = SubSeq(s, (c + 1) + 2, n)
    BY <1>n, <1>0, <1>3, TailPart
  <2> QED
    BY <1>0, <2>1, Zenon
<1>4. ASSUME c # n
      PROVE  Digits(SubSeq(s, c + 2, n)) <=> c + 2 <= n /\ AllDigits(s, c + 2, n)
  <2>1. c + 2 <= n + 1
    BY <1>n, <1>4
  <2> QED
    BY <1>n, <1>0, <2>1, DigitsPart
<1>5. ASSUME c + 3 <= n
      PROVE  Digits(SubSeq(s, c + 3, n)) <=> AllDigits(s, c + 3, n)
  <2>1. c + 3 <= n + 1
    BY <1>n, <1>5
  <2> QED
    BY <1>n, <1>0, <1>5, <2>1, DigitsPart
<1>6. c = n => ~(c + 2 <= n) /\ ~(c + 3 <= n)
  BY <1>n
<1>7. (p[1] \in {101, 69} <=> IsExp(p[1])) /\ (p[2] \in {43, 45} <=> IsSign(p[2]))
  BY ExpBytes
<1> HIDE DEF p
<1>8. CASE c = n
  BY <1>1, <1>8, Zenon DEF p
<1>9. CASE c # n
  <2>1. p # <<>> /\ (p[1] \in {101, 69} <=> IsExp(s[c + 1]))
        /\ (Digits(Tail(p)) <=> c + 2 <= n /\ AllDigits(s, c + 2, n))
    BY <1>1, <1>3, <1>4, <1>7, <1>9, Zenon
  <2>2. Len(p) > 2 /\ p[2] \in {43, 45} /\ Digits(SubSeq(p, 3, Len(p)))
        <=> c + 3 <= n /\ IsSign(s[c + 2]) /\ AllDigits(s, c + 3, n)
    BY <1>2, <1>3, <1>5, <1>7, <1>9, Zenon
  <2> QED
    BY <1>9, <2>1, <2>2, Zenon DEF p, ExpAt
<1> QED
  BY <1>8, <1>9

\* A number is a text with such places.
LEMMA IsNumberIs ==
    ASSUME NEW s \in Seq(Byte)
    PROVE  IsNumber(s) <=> \E a, b, c : NumberAt(s, a, b, c)
<1>n. Len(s) \in Nat
  BY LenProperties
<1>1. ASSUME NEW a \in Nat, NEW b \in Nat, NEW c \in Nat, a <= b, b <= c, c <= Len(s)
      PROVE  LET sign == SubSeq(s, 1, a)
                 int  == SubSeq(s, a + 1, b)
                 frac == SubSeq(s, b + 1, c)
                 exp  == SubSeq(s, c + 1, Len(s))
             IN  (/\ sign \in {<<>>, <<45>>}
                  /\ Digits(int) /\ (int[1] = 48 => Len(int) = 1)
                  /\ frac = <<>> \/ (frac[1] = 46 /\ Digits(Tail(frac)))
                  /\ \/ exp = <<>>
                     \/ /\ exp[1] \in {101, 69}
                        /\ \/ Digits(Tail(exp))
                           \/ Len(exp) > 2 /\ exp[2] \in {43, 45}
                              /\ Digits(SubSeq(exp, 3, Len(exp))))
                 <=> NumberAt(s, a, b, c)
  <2>0. a <= Len(s) /\ b <= Len(s)
    BY <1>n, <1>1
  <2>1. SubSeq(s, 1, a) \in {<<>>, <<45>>} <=> a = 0 \/ (a = 1 /\ s[1] = 45)
    BY <2>0, SignPart
  <2>2. Digits(SubSeq(s, a + 1, b))
        /\ (SubSeq(s, a + 1, b)[1] = 48 => Len(SubSeq(s, a + 1, b)) = 1)
        <=> a < b /\ AllDigits(s, a + 1, b) /\ (s[a + 1] = 48 => b = a + 1)
    BY <1>1, <2>0, IntPart
  <2>3. (SubSeq(s, b + 1, c) = <<>> \/ (SubSeq(s, b + 1, c)[1] = 46
                                        /\ Digits(Tail(SubSeq(s, b + 1, c)))))
        <=> FracAt(s, b, c)
    BY <1>1, FracPart
  <2>4. (\/ SubSeq(s, c + 1, Len(s)) = <<>>
         \/ /\ SubSeq(s, c + 1, Len(s))[1] \in {101, 69}
            /\ \/ Digits(Tail(SubSeq(s, c + 1, Len(s))))
               \/ /\ Len(SubSeq(s, c + 1, Len(s))) > 2
                  /\ SubSeq(s, c + 1, Len(s))[2] \in {43, 45}
                  /\ Digits(SubSeq(SubSeq(s, c + 1, Len(s)), 3,
                                   Len(SubSeq(s, c + 1, Len(s))))))
        <=> (c = Len(s) \/ ExpAt(s, c, Len(s)))
    BY <1>1, ExpPart
  <2> QED
    BY <1>1, <2>1, <2>2, <2>3, <2>4, Zenon DEF NumberAt, IntAt
<1>2. ASSUME IsNumber(s) PROVE \E a, b, c : NumberAt(s, a, b, c)
  <2>1. PICK a \in 0..Len(s), b \in 0..Len(s), c \in 0..Len(s) :
            LET sign == SubSeq(s, 1, a)
                int  == SubSeq(s, a + 1, b)
                frac == SubSeq(s, b + 1, c)
                exp  == SubSeq(s, c + 1, Len(s))
            IN  /\ a <= b /\ b <= c
                /\ sign \in {<<>>, <<45>>}
                /\ Digits(int) /\ (int[1] = 48 => Len(int) = 1)
                /\ frac = <<>> \/ (frac[1] = 46 /\ Digits(Tail(frac)))
                /\ \/ exp = <<>>
                   \/ /\ exp[1] \in {101, 69}
                      /\ \/ Digits(Tail(exp))
                         \/ Len(exp) > 2 /\ exp[2] \in {43, 45}
                            /\ Digits(SubSeq(exp, 3, Len(exp)))
    BY <1>2, Zenon DEF IsNumber
  <2>2. a \in Nat /\ b \in Nat /\ c \in Nat /\ c <= Len(s)
    BY <1>n
  <2>3. NumberAt(s, a, b, c)
    BY <1>1, <2>1, <2>2, Zenon
  <2> QED
    BY <2>3, Zenon
<1>3. ASSUME NEW a, NEW b, NEW c, NumberAt(s, a, b, c) PROVE IsNumber(s)
  <2>1. /\ a \in Nat /\ b \in Nat /\ c \in Nat /\ c <= Len(s) /\ a < b
        /\ c = b \/ b + 2 <= c
    BY <1>3, Zenon DEF NumberAt, IntAt, FracAt
  <2>2. a <= b /\ b <= c /\ a \in 0..Len(s) /\ b \in 0..Len(s) /\ c \in 0..Len(s)
    BY <1>n, <2>1
  <2> QED
    <3>1. LET sign == SubSeq(s, 1, a)
              int  == SubSeq(s, a + 1, b)
              frac == SubSeq(s, b + 1, c)
              exp  == SubSeq(s, c + 1, Len(s))
          IN  /\ a <= b /\ b <= c
              /\ sign \in {<<>>, <<45>>}
              /\ Digits(int) /\ (int[1] = 48 => Len(int) = 1)
              /\ frac = <<>> \/ (frac[1] = 46 /\ Digits(Tail(frac)))
              /\ \/ exp = <<>>
                 \/ /\ exp[1] \in {101, 69}
                    /\ \/ Digits(Tail(exp))
                       \/ Len(exp) > 2 /\ exp[2] \in {43, 45}
                          /\ Digits(SubSeq(exp, 3, Len(exp)))
      BY <1>1, <1>3, <2>1, <2>2, ZenonT(40)
    <3> QED
      BY <2>2, <3>1, Zenon DEF IsNumber
<1> QED
  BY <1>2, <1>3

-----------------------------------------------------------------------------
(* The automaton of the numbers. *)

\* The classes of bytes.
LEMMA ClassIs ==
    ASSUME NEW c \in Int
    PROVE  /\ numClassOf(c) = "ncZero" <=> c = 48
           /\ numClassOf(c) = "ncDigit" <=> 49 <= c /\ c <= 57
           /\ numClassOf(c) = "ncDot" <=> c = 46
           /\ numClassOf(c) = "ncExp" <=> IsExp(c)
           /\ numClassOf(c) = "ncPlus" <=> c = 43
           /\ numClassOf(c) = "ncMinus" <=> c = 45
<1>1. c \in 49..57 <=> 49 <= c /\ c <= 57
  OBVIOUS
<1>2. c \in {101, 69} <=> c = 101 \/ c = 69
  OBVIOUS
<1>3. numClassOf(c) = IF c = 48 THEN "ncZero" ELSE IF 49 <= c /\ c <= 57 THEN "ncDigit"
                      ELSE IF c = 46 THEN "ncDot" ELSE IF c = 101 \/ c = 69 THEN "ncExp"
                      ELSE IF c = 43 THEN "ncPlus" ELSE IF c = 45 THEN "ncMinus"
                      ELSE "ncOther"
  BY <1>1, <1>2 DEF numClassOf
<1> HIDE <1>1, <1>2
<1> QED
  BY <1>3 DEF IsExp

\* Two transitions for one class of bytes from one state are one.
LEMMA OneTransition ==
    ASSUME NEW t \in numTrans, NEW u \in numTrans, t[1] = u[1],
           NEW k, k \in t[2], k \in u[2]
    PROVE  t[3] = u[3]
BY DEF numTrans, Digit

\* A step is a transition, when there is one.
LEMMA StepIs ==
    ASSUME NEW t \in numTrans, NEW c, numClassOf(c) \in t[2]
    PROVE  numStep(t[1], c) = t[3]
<1> DEFINE to == {x[3] : x \in {x \in numTrans : x[1] = t[1] /\ numClassOf(c) \in x[2]}}
<1>1. t[3] \in to
  OBVIOUS
<1>2. \A y \in to : y = t[3]
  BY OneTransition
<1>3. numStep(t[1], c) = IF to = {} THEN "nsBad" ELSE CHOOSE n \in to : TRUE
  BY DEF numStep
<1> HIDE DEF to
<1> QED
  BY <1>1, <1>2, <1>3

\* And one that is not to nsBad comes from one.
LEMMA StepFrom ==
    ASSUME NEW x, NEW c, numStep(x, c) # "nsBad"
    PROVE  \E t \in numTrans : t[1] = x /\ numClassOf(c) \in t[2] /\ t[3] = numStep(x, c)
<1> DEFINE to == {t[3] : t \in {t \in numTrans : t[1] = x /\ numClassOf(c) \in t[2]}}
<1>1. numStep(x, c) = IF to = {} THEN "nsBad" ELSE CHOOSE n \in to : TRUE
  BY DEF numStep
<1>2. numStep(x, c) \in to
  <2> HIDE DEF to
  <2> QED
    BY <1>1
<1> QED
  BY <1>2

\* The table, by bytes.
LEMMA TableGo ==
    ASSUME NEW c \in Int
    PROVE  /\ c = 45 => numStep("nsStart", c) = "nsNeg"
           /\ c = 48 => numStep("nsStart", c) = "nsZero" /\ numStep("nsNeg", c) = "nsZero"
           /\ 49 <= c /\ c <= 57 =>
                 numStep("nsStart", c) = "nsInt" /\ numStep("nsNeg", c) = "nsInt"
           /\ c = 46 => numStep("nsZero", c) = "nsDot" /\ numStep("nsInt", c) = "nsDot"
           /\ IsExp(c) => /\ numStep("nsZero", c) = "nsExp" /\ numStep("nsInt", c) = "nsExp"
                          /\ numStep("nsFrac", c) = "nsExp"
           /\ IsSign(c) => numStep("nsExp", c) = "nsExpSign"
           /\ 48 <= c /\ c <= 57 =>
                 /\ numStep("nsInt", c) = "nsInt"
                 /\ numStep("nsDot", c) = "nsFrac" /\ numStep("nsFrac", c) = "nsFrac"
                 /\ numStep("nsExp", c) = "nsExpDig" /\ numStep("nsExpSign", c) = "nsExpDig"
                 /\ numStep("nsExpDig", c) = "nsExpDig"
<1> DEFINE k == numClassOf(c)
<1>1. /\ \A x, S, y : <<x, S, y>> \in numTrans /\ k \in S => numStep(x, c) = y
  <2> SUFFICES ASSUME NEW x, NEW S, NEW y, <<x, S, y>> \in numTrans, k \in S
               PROVE  numStep(x, c) = y
    OBVIOUS
  <2>1. numStep(<<x, S, y>>[1], c) = <<x, S, y>>[3]
    BY StepIs
  <2> QED
    BY <2>1
<1>2. /\ <<"nsStart", {"ncMinus"}, "nsNeg">> \in numTrans
      /\ <<"nsStart", {"ncZero"}, "nsZero">> \in numTrans
      /\ <<"nsStart", {"ncDigit"}, "nsInt">> \in numTrans
      /\ <<"nsNeg", {"ncZero"}, "nsZero">> \in numTrans
      /\ <<"nsNeg", {"ncDigit"}, "nsInt">> \in numTrans
      /\ <<"nsZero", {"ncDot"}, "nsDot">> \in numTrans
      /\ <<"nsZero", {"ncExp"}, "nsExp">> \in numTrans
      /\ <<"nsInt", Digit, "nsInt">> \in numTrans
      /\ <<"nsInt", {"ncDot"}, "nsDot">> \in numTrans
      /\ <<"nsInt", {"ncExp"}, "nsExp">> \in numTrans
      /\ <<"nsDot", Digit, "nsFrac">> \in numTrans
      /\ <<"nsFrac", Digit, "nsFrac">> \in numTrans
      /\ <<"nsFrac", {"ncExp"}, "nsExp">> \in numTrans
      /\ <<"nsExp", {"ncPlus", "ncMinus"}, "nsExpSign">> \in numTrans
      /\ <<"nsExp", Digit, "nsExpDig">> \in numTrans
      /\ <<"nsExpSign", Digit, "nsExpDig">> \in numTrans
      /\ <<"nsExpDig", Digit, "nsExpDig">> \in numTrans
  BY Zenon DEF numTrans
<1>4. c = 45 => k \in {"ncMinus"}
  BY ClassIs
<1>5. c = 48 => k \in {"ncZero"}
  BY ClassIs
<1>6. 49 <= c /\ c <= 57 => k \in {"ncDigit"}
  BY ClassIs
<1>7. c = 46 => k \in {"ncDot"}
  BY ClassIs
<1>8. IsExp(c) => k \in {"ncExp"}
  BY ClassIs
<1>9. IsSign(c) => k \in {"ncPlus", "ncMinus"}
  BY ClassIs DEF IsSign
<1>a. 48 <= c /\ c <= 57 => k \in Digit
  <2>1. 48 <= c /\ c <= 57 => c = 48 \/ (49 <= c /\ c <= 57)
    OBVIOUS
  <2> QED
    BY <1>5, <1>6, <2>1 DEF Digit
<1> HIDE DEF k
<1>b. c = 45 => numStep("nsStart", c) = "nsNeg"
  BY <1>1, <1>2, <1>4, Zenon
<1>c. c = 48 => numStep("nsStart", c) = "nsZero" /\ numStep("nsNeg", c) = "nsZero"
  BY <1>1, <1>2, <1>5, Zenon
<1>d. 49 <= c /\ c <= 57 =>
         numStep("nsStart", c) = "nsInt" /\ numStep("nsNeg", c) = "nsInt"
  BY <1>1, <1>2, <1>6, Zenon
<1>e. c = 46 => numStep("nsZero", c) = "nsDot" /\ numStep("nsInt", c) = "nsDot"
  BY <1>1, <1>2, <1>7, Zenon
<1>f. IsExp(c) => /\ numStep("nsZero", c) = "nsExp" /\ numStep("nsInt", c) = "nsExp"
                  /\ numStep("nsFrac", c) = "nsExp"
  BY <1>1, <1>2, <1>8, Zenon
<1>g. IsSign(c) => numStep("nsExp", c) = "nsExpSign"
  BY <1>1, <1>2, <1>9, Zenon
<1>h. k \in Digit =>
         /\ numStep("nsInt", c) = "nsInt"
         /\ numStep("nsDot", c) = "nsFrac" /\ numStep("nsFrac", c) = "nsFrac"
         /\ numStep("nsExp", c) = "nsExpDig" /\ numStep("nsExpSign", c) = "nsExpDig"
         /\ numStep("nsExpDig", c) = "nsExpDig"
  BY <1>1, <1>2, Zenon
<1> QED
  BY <1>a, <1>b, <1>c, <1>d, <1>e, <1>f, <1>g, <1>h

\* Where the automaton is after k bytes of the number s.
AfterBytes(s, a, b, c, k) ==
    IF k = 0 THEN "nsStart"
    ELSE IF k <= a THEN "nsNeg"
    ELSE IF k <= b THEN IF s[a + 1] = 48 THEN "nsZero" ELSE "nsInt"
    ELSE IF k = b + 1 /\ b < c THEN "nsDot"
    ELSE IF k <= c THEN "nsFrac"
    ELSE IF k = c + 1 THEN "nsExp"
    ELSE IF k = c + 2 /\ IsSign(s[c + 2]) THEN "nsExpSign" ELSE "nsExpDig"

\* The bytes between the parts are no digits.
LEMMA NotDigits ==
    ASSUME NEW e \in Int, IsExp(e) \/ IsSign(e) \/ e = 46
    PROVE  ~(48 <= e /\ e <= 57)
BY DEF IsExp, IsSign

\* The automaton goes through the places of a number in order.
LEMMA AfterOneMore ==
    ASSUME NEW s \in Seq(Byte), NEW a, NEW b, NEW c, NumberAt(s, a, b, c),
           NEW k \in Nat, k + 1 <= Len(s)
    PROVE  /\ numStep(AfterBytes(s, a, b, c, k), s[k + 1]) = AfterBytes(s, a, b, c, k + 1)
           /\ AfterBytes(s, a, b, c, k + 1) # "nsBad"
<1> DEFINE d == s[k + 1]
           n == Len(s)
           A(i) == AfterBytes(s, a, b, c, i)
<1>0. /\ n \in Nat /\ a \in Nat /\ b \in Nat /\ c \in Nat /\ c <= n
      /\ a = 0 \/ (a = 1 /\ s[1] = 45)
      /\ a < b /\ AllDigits(s, a + 1, b) /\ (s[a + 1] = 48 => b = a + 1)
      /\ FracAt(s, b, c) /\ (c = n \/ ExpAt(s, c, n))
  BY LenProperties, Zenon DEF NumberAt, IntAt
<1>1. d \in Int
  <2>1. k + 1 \in 1..Len(s)
    BY <1>0
  <2>2. d \in Byte
    BY <2>1, ElementOfSeq
  <2> QED
    BY <2>2, ByteIs
<1>2. A(k + 1) # "nsBad"
  BY DEF AfterBytes
<1>3. CASE k + 1 <= a
  <2>1. k = 0 /\ a = 1 /\ d = 45
    BY <1>0, <1>3
  <2>2. A(k) = "nsStart" /\ A(k + 1) = "nsNeg"
    BY <2>1 DEF AfterBytes
  <2>3. numStep("nsStart", d) = "nsNeg"
    BY <1>1, <2>1, TableGo
  <2> QED
    BY <1>2, <2>2, <2>3
<1>4. CASE k = a
  <2>1. DigitAt(s, k + 1) /\ k + 1 <= b /\ ~(k + 1 <= a)
    BY <1>0, <1>4 DEF AllDigits
  <2>2. 48 <= d /\ d <= 57
    BY <2>1 DEF DigitAt
  <2>3. A(k + 1) = IF d = 48 THEN "nsZero" ELSE "nsInt"
    BY <1>0, <1>4, <2>1 DEF AfterBytes
  <2>4. A(k) = IF k = 0 THEN "nsStart" ELSE "nsNeg"
    BY <1>0, <1>4 DEF AfterBytes
  <2>5. d = 48 \/ (49 <= d /\ d <= 57)
    BY <1>1, <2>2
  <2>6. \A x \in {"nsStart", "nsNeg"} : numStep(x, d) = IF d = 48 THEN "nsZero" ELSE "nsInt"
    BY <1>1, <2>5, TableGo
  <2> QED
    BY <1>2, <2>3, <2>4, <2>6
<1>5. CASE a < k /\ k < b
  <2>1. DigitAt(s, k + 1) /\ s[a + 1] # 48 /\ k + 1 <= b
    BY <1>0, <1>5 DEF AllDigits
  <2>2. 48 <= d /\ d <= 57
    BY <2>1 DEF DigitAt
  <2>3. A(k) = "nsInt" /\ A(k + 1) = "nsInt"
    BY <1>0, <1>5, <2>1 DEF AfterBytes
  <2> QED
    BY <1>1, <1>2, <2>2, <2>3, TableGo
<1>6. CASE k = b /\ b < c
  <2>1. d = 46 /\ b + 2 <= c
    BY <1>0, <1>6 DEF FracAt
  <2>2. A(k) \in {"nsZero", "nsInt"} /\ A(k + 1) = "nsDot"
    BY <1>0, <1>6 DEF AfterBytes
  <2> QED
    BY <1>1, <1>2, <2>1, <2>2, TableGo
<1>7. CASE b < k /\ k < c
  <2>1. AllDigits(s, b + 2, c)
    BY <1>0, <1>7 DEF FracAt
  <2>2. DigitAt(s, k + 1)
    BY <1>0, <1>7, <2>1 DEF AllDigits
  <2>3. 48 <= d /\ d <= 57
    BY <2>2 DEF DigitAt
  <2>4. A(k) \in {"nsDot", "nsFrac"} /\ A(k + 1) = "nsFrac"
    BY <1>0, <1>7 DEF AfterBytes
  <2> QED
    BY <1>1, <1>2, <2>3, <2>4, TableGo
<1>8. CASE k = c /\ b <= c
  <2>1. ExpAt(s, c, n)
    BY <1>0, <1>8
  <2>2. IsExp(d)
    BY <1>8, <2>1 DEF ExpAt
  <2>3. A(k) \in {"nsZero", "nsInt", "nsFrac"}
    <3>1. b = c \/ b + 2 <= c
      BY <1>0 DEF FracAt
    <3> QED
      BY <1>0, <1>8, <3>1 DEF AfterBytes
  <2>4. A(k + 1) = "nsExp"
    BY <1>0, <1>8 DEF AfterBytes
  <2> QED
    BY <1>1, <1>2, <2>2, <2>3, <2>4, TableGo
<1>9. CASE k = c + 1 /\ b <= c
  <2>1. ExpAt(s, c, n)
    BY <1>0, <1>9
  <2>2. A(k) = "nsExp" /\ A(k + 1) = IF IsSign(d) THEN "nsExpSign" ELSE "nsExpDig"
    BY <1>0, <1>9 DEF AfterBytes
  <2>3. CASE AllDigits(s, c + 2, n)
    <3>1. DigitAt(s, k + 1)
      BY <1>0, <1>9, <2>3 DEF AllDigits
    <3>2. 48 <= d /\ d <= 57
      BY <3>1 DEF DigitAt
    <3>3. ~IsSign(d)
      BY <1>1, <3>2, NotDigits
    <3> QED
      BY <1>1, <1>2, <2>2, <3>2, <3>3, TableGo
  <2>4. CASE IsSign(s[c + 2])
    <3>1. IsSign(d)
      BY <1>0, <1>9, <2>4
    <3> QED
      BY <1>1, <1>2, <2>2, <3>1, TableGo
  <2> QED
    BY <2>1, <2>3, <2>4 DEF ExpAt
<1>a. CASE c + 2 <= k /\ b <= c
  <2>1. ExpAt(s, c, n)
    BY <1>0, <1>a
  <2>2. DigitAt(s, k + 1)
    BY <1>0, <1>a, <2>1 DEF ExpAt, AllDigits
  <2>3. 48 <= d /\ d <= 57
    BY <2>2 DEF DigitAt
  <2>4. A(k) \in {"nsExpSign", "nsExpDig"} /\ A(k + 1) = "nsExpDig"
    BY <1>0, <1>a DEF AfterBytes
  <2> QED
    BY <1>1, <1>2, <2>3, <2>4, TableGo
<1>b. b <= c
  BY <1>0 DEF FracAt
<1> QED
  <2>1. \/ k + 1 <= a \/ k = a \/ (a < k /\ k < b) \/ (k = b /\ b < c) \/ (b < k /\ k < c)
        \/ k = c \/ k = c + 1 \/ c + 2 <= k
    BY <1>0, <1>b
  <2> QED
    BY <1>3, <1>4, <1>5, <1>6, <1>7, <1>8, <1>9, <1>a, <1>b, <2>1

\* A number ends where the automaton accepts.
LEMMA AfterNumber ==
    ASSUME NEW s \in Seq(Byte), NEW a, NEW b, NEW c, NumberAt(s, a, b, c)
    PROVE  numAccept(AfterBytes(s, a, b, c, Len(s)))
<1>0. /\ Len(s) \in Nat /\ a \in Nat /\ b \in Nat /\ c \in Nat /\ c <= Len(s)
      /\ a < b /\ FracAt(s, b, c) /\ (c = Len(s) \/ ExpAt(s, c, Len(s)))
  BY LenProperties, Zenon DEF NumberAt, IntAt
<1>1. b = c \/ b + 2 <= c
  BY <1>0 DEF FracAt
<1>2. CASE c = Len(s)
  BY <1>0, <1>1, <1>2 DEF AfterBytes, numAccept
<1>3. CASE ExpAt(s, c, Len(s))
  <2>1. /\ \/ c + 3 <= Len(s)
           \/ c + 2 = Len(s) /\ DigitAt(s, c + 2)
    BY <1>0, <1>3 DEF ExpAt, AllDigits
  <2>2. CASE c + 3 <= Len(s)
    BY <1>0, <1>1, <2>2 DEF AfterBytes, numAccept
  <2>3. CASE c + 2 = Len(s) /\ DigitAt(s, c + 2)
    <3>1. s[c + 2] \in Int
      <4>1. c + 2 \in 1..Len(s)
        BY <1>0, <2>3
      <4>2. s[c + 2] \in Byte
        BY <4>1, ElementOfSeq
      <4> QED
        BY <4>2, ByteIs
    <3>2. ~IsSign(s[c + 2])
      BY <2>3, <3>1, NotDigits DEF DigitAt
    <3> QED
      BY <1>0, <1>1, <2>3, <3>2 DEF AfterBytes, numAccept
  <2> QED
    BY <2>1, <2>2, <2>3
<1> QED
  BY <1>0, <1>2, <1>3

-----------------------------------------------------------------------------
(* Every number that goes on from the text t is in the state x after it. *)

Begins(t, s) == Len(t) <= Len(s) /\ \A k \in 1..Len(t) : s[k] = t[k]

Follows(t, x) ==
    \A s \in Seq(Byte) : \A a, b, c :
        NumberAt(s, a, b, c) /\ Begins(t, s) => AfterBytes(s, a, b, c, Len(t)) = x

\* Nothing has been read: every number starts in nsStart.
LEMMA FollowsStart == Follows(<<>>, "nsStart")
BY DEF Follows, AfterBytes

\* A byte more leaves the numbers that have it, one step on.
LEMMA FollowsMore ==
    ASSUME NEW t \in Seq(Byte), NEW x, Follows(t, x), NEW d \in Byte
    PROVE  Follows(t \o <<d>>, numStep(x, d))
<1> SUFFICES ASSUME NEW s \in Seq(Byte), NEW a, NEW b, NEW c, NumberAt(s, a, b, c),
                    Begins(t \o <<d>>, s)
             PROVE  AfterBytes(s, a, b, c, Len(t \o <<d>>)) = numStep(x, d)
  BY DEF Follows
<1>1. /\ Len(t) \in Nat /\ Len(s) \in Nat /\ Len(t \o <<d>>) = Len(t) + 1
      /\ \A k \in 1..Len(t) : (t \o <<d>>)[k] = t[k]
      /\ (t \o <<d>>)[Len(t) + 1] = d
  BY LenProperties, AddByte
<1> DEFINE u == t \o <<d>>
<1> HIDE DEF u
<1>2. /\ Len(t) \in Nat /\ Len(s) \in Nat /\ Len(u) = Len(t) + 1
      /\ \A k \in 1..Len(t) : u[k] = t[k]
      /\ u[Len(t) + 1] = d /\ Begins(u, s)
  BY <1>1 DEF u
<1>3. Begins(t, s) /\ Len(t) + 1 <= Len(s) /\ s[Len(t) + 1] = d
  BY <1>2 DEF Begins
<1>4. AfterBytes(s, a, b, c, Len(t)) = x
  BY <1>3 DEF Follows
<1>5. numStep(AfterBytes(s, a, b, c, Len(t)), s[Len(t) + 1])
      = AfterBytes(s, a, b, c, Len(t) + 1)
  BY <1>2, <1>3, AfterOneMore
<1> QED
  BY <1>2, <1>3, <1>4, <1>5 DEF u

\* No number goes on with a byte the automaton refuses.
LEMMA FollowsNothing ==
    ASSUME NEW t \in Seq(Byte), Follows(t, "nsBad"), Len(t) > 0,
           NEW s \in Seq(Byte), Begins(t, s)
    PROVE  ~IsNumber(s)
<1> SUFFICES ASSUME IsNumber(s) PROVE FALSE
  OBVIOUS
<1>1. PICK a, b, c : NumberAt(s, a, b, c)
  BY IsNumberIs
<1>2. AfterBytes(s, a, b, c, Len(t)) = "nsBad"
  BY <1>1 DEF Follows
<1> QED
  BY <1>2 DEF AfterBytes

\* And a text is one only where it accepts.
LEMMA FollowsAccepts ==
    ASSUME NEW t \in Seq(Byte), NEW x, Follows(t, x), IsNumber(t)
    PROVE  numAccept(x)
<1>1. PICK a, b, c : NumberAt(t, a, b, c)
  BY IsNumberIs
<1>2. Begins(t, t)
  BY LenProperties DEF Begins
<1>3. AfterBytes(t, a, b, c, Len(t)) = x
  BY <1>1, <1>2 DEF Follows
<1> QED
  BY <1>1, <1>3, AfterNumber

-----------------------------------------------------------------------------
(* What the texts are on which the automaton is in a state. *)

InState(x, s) ==
    LET n == Len(s) IN
    \/ x = "nsStart" /\ n = 0
    \/ x = "nsNeg" /\ n = 1 /\ s[1] = 45
    \/ \E a, b, c \in Nat :
          /\ IntAt(s, a, b)
          /\ \/ x = "nsZero" /\ b = n /\ s[a + 1] = 48
             \/ x = "nsInt" /\ b = n /\ s[a + 1] # 48
             \/ x = "nsDot" /\ n = b + 1 /\ s[n] = 46
             \/ x = "nsFrac" /\ c = n /\ b # c /\ FracAt(s, b, c)
             \/ x = "nsExp" /\ n = c + 1 /\ FracAt(s, b, c) /\ IsExp(s[n])
             \/ /\ x = "nsExpSign" /\ n = c + 2 /\ FracAt(s, b, c)
                /\ IsExp(s[c + 1]) /\ IsSign(s[n])
             \/ x = "nsExpDig" /\ c <= n /\ FracAt(s, b, c) /\ ExpAt(s, c, n)

\* The parts of a text are where they were when a byte is added to it.
LEMMA PartsStay ==
    ASSUME NEW s \in Seq(Byte), NEW u \in Seq(Byte), Begins(s, u),
           NEW a \in Nat, NEW b \in Nat, NEW c \in Nat
    PROVE  /\ IntAt(s, a, b) /\ b <= Len(s) => IntAt(u, a, b)
           /\ FracAt(s, b, c) /\ c <= Len(s) => FracAt(u, b, c)
           /\ ExpAt(s, c, Len(s)) => ExpAt(u, c, Len(s))
<1>1. Len(s) \in Nat /\ Len(u) \in Nat /\ \A k \in 1..Len(s) : u[k] = s[k]
  BY LenProperties DEF Begins
<1>2. ASSUME NEW i \in Nat \ {0}, NEW j \in Nat, j <= Len(s), AllDigits(s, i, j)
      PROVE  AllDigits(u, i, j)
  <2> SUFFICES ASSUME NEW k \in i..j PROVE DigitAt(u, k)
    BY DEF AllDigits
  <2>1. k \in 1..Len(s)
    BY <1>1, <1>2
  <2>2. DigitAt(s, k) /\ u[k] = s[k]
    BY <1>1, <1>2, <2>1 DEF AllDigits
  <2> QED
    BY <2>2 DEF DigitAt
<1>3. ASSUME IntAt(s, a, b), b <= Len(s) PROVE IntAt(u, a, b)
  <2>1. /\ a = 0 \/ (a = 1 /\ s[1] = 45)
        /\ a < b /\ AllDigits(s, a + 1, b) /\ (s[a + 1] = 48 => b = a + 1)
    BY <1>3 DEF IntAt
  <2>2. AllDigits(u, a + 1, b)
    BY <1>2, <1>3, <2>1
  <2>3. u[a + 1] = s[a + 1] /\ (a = 1 => u[1] = s[1])
    BY <1>1, <1>3, <2>1
  <2> QED
    BY <2>1, <2>2, <2>3 DEF IntAt
<1>4. ASSUME FracAt(s, b, c), c <= Len(s) PROVE FracAt(u, b, c)
  <2>1. c # b => AllDigits(u, b + 2, c) /\ u[b + 1] = s[b + 1]
    BY <1>1, <1>2, <1>4 DEF FracAt
  <2> QED
    BY <1>4, <2>1 DEF FracAt
<1>5. ASSUME ExpAt(s, c, Len(s)) PROVE ExpAt(u, c, Len(s))
  <2>1. /\ IsExp(s[c + 1])
        /\ \/ c + 2 <= Len(s) /\ AllDigits(s, c + 2, Len(s))
           \/ c + 3 <= Len(s) /\ IsSign(s[c + 2]) /\ AllDigits(s, c + 3, Len(s))
    BY <1>5 DEF ExpAt
  <2>2. u[c + 1] = s[c + 1] /\ u[c + 2] = s[c + 2]
    BY <1>1, <2>1
  <2>3. AllDigits(s, c + 2, Len(s)) => AllDigits(u, c + 2, Len(s))
    BY <1>1, <1>2
  <2>4. AllDigits(s, c + 3, Len(s)) => AllDigits(u, c + 3, Len(s))
    BY <1>1, <1>2
  <2> QED
    BY <2>1, <2>2, <2>3, <2>4 DEF ExpAt
<1> QED
  BY <1>3, <1>4, <1>5

\* A digit at the end of digits.
LEMMA OneMoreDigit ==
    ASSUME NEW u, NEW i \in Nat, NEW j \in Nat, i <= j + 1,
           AllDigits(u, i, j), DigitAt(u, j + 1)
    PROVE  AllDigits(u, i, j + 1)
BY DEF AllDigits

\* Each transition makes of such a text such a text.
LEMMA WrittenMore ==
    ASSUME NEW s \in Seq(Byte), NEW x, InState(x, s), NEW d \in Byte,
           numStep(x, d) # "nsBad"
    PROVE  InState(numStep(x, d), s \o <<d>>)
<1> DEFINE n == Len(s)
           u == s \o <<d>>
           y == numStep(x, d)
<1>1. n \in Nat /\ u \in Seq(Byte) /\ Len(u) = n + 1 /\ u[n + 1] = d /\ Begins(s, u)
      /\ \A k \in 1..n : u[k] = s[k]
  <2>1. n \in Nat /\ u \in Seq(Byte) /\ Len(u) = n + 1 /\ u[n + 1] = d
        /\ \A k \in 1..n : u[k] = s[k]
    BY LenProperties, AddByte
  <2> HIDE DEF u
  <2> QED
    BY <2>1 DEF Begins
<1>2. d \in Int
  BY ByteIs
<1>3. PICK t \in numTrans : t[1] = x /\ numClassOf(d) \in t[2] /\ t[3] = y
  BY StepFrom
<1>4. DigitAt(u, n + 1) <=> 48 <= d /\ d <= 57
  BY <1>1 DEF DigitAt
<1>5. numClassOf(d) \in Digit <=> 48 <= d /\ d <= 57
  <2>1. 48 <= d /\ d <= 57 <=> d = 48 \/ (49 <= d /\ d <= 57)
    BY <1>2
  <2> QED
    BY <1>2, <2>1, ClassIs DEF Digit
<1>6. \/ x = "nsStart" /\ d = 45 /\ y = "nsNeg"
      \/ x \in {"nsStart", "nsNeg"} /\ d = 48 /\ y = "nsZero"
      \/ x \in {"nsStart", "nsNeg"} /\ 49 <= d /\ d <= 57 /\ y = "nsInt"
      \/ x = "nsInt" /\ DigitAt(u, n + 1) /\ y = "nsInt"
      \/ x \in {"nsZero", "nsInt"} /\ d = 46 /\ y = "nsDot"
      \/ x \in {"nsZero", "nsInt", "nsFrac"} /\ IsExp(d) /\ y = "nsExp"
      \/ x \in {"nsDot", "nsFrac"} /\ DigitAt(u, n + 1) /\ y = "nsFrac"
      \/ x = "nsExp" /\ IsSign(d) /\ y = "nsExpSign"
      \/ x \in {"nsExp", "nsExpSign", "nsExpDig"} /\ DigitAt(u, n + 1) /\ y = "nsExpDig"
  <2> HIDE DEF u, y
  <2>1. /\ numClassOf(d) = "ncZero" <=> d = 48
        /\ numClassOf(d) = "ncDigit" <=> 49 <= d /\ d <= 57
        /\ numClassOf(d) = "ncDot" <=> d = 46
        /\ numClassOf(d) = "ncExp" <=> IsExp(d)
        /\ numClassOf(d) \in {"ncPlus", "ncMinus"} <=> IsSign(d)
        /\ numClassOf(d) = "ncMinus" <=> d = 45
    BY <1>2, ClassIs DEF IsSign
  <2>2. numClassOf(d) \in Digit <=> DigitAt(u, n + 1)
    BY <1>4, <1>5
  <2> DEFINE k == numClassOf(d)
  <2>3. \/ x = "nsStart" /\ k = "ncMinus" /\ y = "nsNeg"
        \/ x \in {"nsStart", "nsNeg"} /\ k = "ncZero" /\ y = "nsZero"
        \/ x \in {"nsStart", "nsNeg"} /\ k = "ncDigit" /\ y = "nsInt"
        \/ x = "nsInt" /\ k \in Digit /\ y = "nsInt"
        \/ x \in {"nsZero", "nsInt"} /\ k = "ncDot" /\ y = "nsDot"
        \/ x \in {"nsZero", "nsInt", "nsFrac"} /\ k = "ncExp" /\ y = "nsExp"
        \/ x \in {"nsDot", "nsFrac"} /\ k \in Digit /\ y = "nsFrac"
        \/ x = "nsExp" /\ k \in {"ncPlus", "ncMinus"} /\ y = "nsExpSign"
        \/ x \in {"nsExp", "nsExpSign", "nsExpDig"} /\ k \in Digit /\ y = "nsExpDig"
    <3> HIDE DEF k
    <3>1. t[1] = x /\ k \in t[2] /\ t[3] = y
      BY <1>3 DEF k
    <3> QED
      BY <1>3, <3>1 DEF numTrans
  <2>4. /\ k = "ncZero" <=> d = 48
        /\ k = "ncDigit" <=> 49 <= d /\ d <= 57
        /\ k = "ncDot" <=> d = 46
        /\ k = "ncExp" <=> IsExp(d)
        /\ k \in {"ncPlus", "ncMinus"} <=> IsSign(d)
        /\ k = "ncMinus" <=> d = 45
        /\ k \in Digit <=> DigitAt(u, n + 1)
    BY <2>1, <2>2, Zenon
  <2> HIDE <2>1, <2>2
  <2> HIDE DEF k
  <2> QED
    BY <2>3, <2>4
<1> HIDE DEF u, y
<1> SUFFICES InState(y, u)
  BY DEF u, y
<1>7. CASE x \in {"nsStart", "nsNeg"}
  <2>0. n = 0 \/ (n = 1 /\ s[1] = 45)
    BY <1>7 DEF InState
  <2>1. (x = "nsStart" => n = 0) /\ (n = 1 => u[1] = 45)
    BY <1>1, <1>7, <2>0 DEF InState
  <2>2. CASE y = "nsNeg"
    <3>1. n = 0 /\ d = 45
      BY <1>6, <1>7, <2>1, <2>2
    <3> QED
      BY <1>1, <2>2, <3>1 DEF InState
  <2>3. CASE y # "nsNeg"
    <3>1. y = IF d = 48 THEN "nsZero" ELSE "nsInt"
      BY <1>2, <1>6, <1>7, <2>3
    <3>2. 48 <= d /\ d <= 57
      BY <1>2, <1>6, <1>7, <2>3
    <3>3. AllDigits(u, n + 1, n + 1)
      BY <1>1, <1>4, <3>2 DEF AllDigits
    <3>4. IntAt(u, n, n + 1)
      BY <1>1, <2>0, <2>1, <3>3 DEF IntAt
    <3>5. n + 1 \in Nat /\ Len(u) = n + 1 /\ u[n + 1] = d
      BY <1>1
    <3> QED
      BY <1>1, <3>1, <3>4, <3>5 DEF InState
  <2> QED
    BY <2>2, <2>3
<1>8. CASE x \notin {"nsStart", "nsNeg"}
  <2>1. PICK a \in Nat, b \in Nat, c \in Nat :
          /\ IntAt(s, a, b)
          /\ \/ x = "nsZero" /\ b = n /\ s[a + 1] = 48
             \/ x = "nsInt" /\ b = n /\ s[a + 1] # 48
             \/ x = "nsDot" /\ n = b + 1 /\ s[n] = 46
             \/ x = "nsFrac" /\ c = n /\ b # c /\ FracAt(s, b, c)
             \/ x = "nsExp" /\ n = c + 1 /\ FracAt(s, b, c) /\ IsExp(s[n])
             \/ /\ x = "nsExpSign" /\ n = c + 2 /\ FracAt(s, b, c)
                /\ IsExp(s[c + 1]) /\ IsSign(s[n])
             \/ x = "nsExpDig" /\ c <= n /\ FracAt(s, b, c) /\ ExpAt(s, c, n)
    BY <1>8, Zenon DEF InState
  <2>2. FracAt(s, b, c) => b <= c
    BY DEF FracAt
  <2>3. b <= n /\ IntAt(u, a, b) /\ a < b
    <3>1. b <= n
      BY <1>1, <2>1, <2>2
    <3> QED
      BY <1>1, <2>1, <3>1, PartsStay DEF IntAt
  <2>4. FracAt(s, b, c) /\ c <= n => FracAt(u, b, c)
    BY <1>1, PartsStay
  <2>5. ExpAt(s, c, n) => ExpAt(u, c, n)
    BY <1>1, PartsStay
  <2>6. \A k \in 1..n : u[k] = s[k]
    BY <1>1
  <2>7. n + 1 \in Nat /\ n \in Nat /\ b + 1 \in Nat
    BY <1>1
  <2>8. CASE x = "nsInt" /\ DigitAt(u, n + 1) /\ y = "nsInt"
    <3>1. b = n /\ s[a + 1] # 48 /\ a + 1 \in 1..n
      BY <2>1, <2>3, <2>8
    <3>2. u[a + 1] # 48
      BY <2>6, <3>1
    <3>3. AllDigits(u, a + 1, n) /\ a + 1 \in Nat /\ a + 1 <= n + 1
      BY <2>3, <3>1 DEF IntAt
    <3>4. AllDigits(u, a + 1, n + 1)
      BY <1>1, <2>8, <3>3, OneMoreDigit
    <3>5. IntAt(u, a, n + 1)
      BY <1>1, <2>3, <3>1, <3>2, <3>4 DEF IntAt
    <3> QED
      BY <1>1, <2>7, <2>8, <3>2, <3>5 DEF InState
  <2>9. CASE x \in {"nsZero", "nsInt"} /\ d = 46 /\ y = "nsDot"
    <3>1. b = n
      BY <2>1, <2>9
    <3> QED
      BY <1>1, <2>3, <2>7, <2>9, <3>1 DEF InState
  <2>a. CASE x \in {"nsZero", "nsInt", "nsFrac"} /\ IsExp(d) /\ y = "nsExp"
    <3>1. CASE x = "nsFrac"
      <4>1. c = n /\ FracAt(u, b, c) /\ Len(u) = c + 1 /\ IsExp(u[n + 1])
        BY <1>1, <2>1, <2>4, <2>a, <3>1
      <4> QED
        BY <1>1, <2>3, <2>7, <2>a, <4>1 DEF InState
    <3>2. CASE x # "nsFrac"
      <4>1. b = n /\ FracAt(u, b, n)
        BY <2>1, <2>a, <3>2 DEF FracAt
      <4> QED
        BY <1>1, <2>3, <2>7, <2>a, <4>1 DEF InState
    <3> QED
      BY <3>1, <3>2
  <2>b. CASE x \in {"nsDot", "nsFrac"} /\ DigitAt(u, n + 1) /\ y = "nsFrac"
    <3>1. FracAt(u, b, n + 1) /\ b # n + 1
      <4>1. CASE x = "nsDot"
        <5>1. n = b + 1 /\ s[n] = 46
          BY <2>1, <4>1
        <5>2. u[b + 1] = 46 /\ b + 2 <= n + 1 /\ AllDigits(u, b + 2, n + 1)
          BY <1>1, <2>6, <2>b, <5>1 DEF AllDigits
        <5> QED
          BY <5>1, <5>2 DEF FracAt
      <4>2. CASE x = "nsFrac"
        <5>1. c = n /\ b # c /\ FracAt(u, b, n)
          BY <2>1, <2>4, <2>7, <4>2
        <5>2. b + 2 <= n /\ u[b + 1] = 46 /\ AllDigits(u, b + 2, n) /\ b + 2 \in Nat
              /\ b + 2 <= n + 1
          BY <1>1, <5>1 DEF FracAt
        <5>3. AllDigits(u, b + 2, n + 1)
          BY <1>1, <2>b, <5>2, OneMoreDigit
        <5> QED
          BY <1>1, <5>2, <5>3 DEF FracAt
      <4> QED
        BY <2>b, <4>1, <4>2
    <3> QED
      BY <1>1, <2>3, <2>7, <2>b, <3>1 DEF InState
  <2>c. CASE x = "nsExp" /\ IsSign(d) /\ y = "nsExpSign"
    <3>1. n = c + 1 /\ FracAt(u, b, c) /\ IsExp(u[c + 1]) /\ IsSign(u[n + 1])
          /\ n + 1 = c + 2
      BY <1>1, <2>1, <2>4, <2>6, <2>c
    <3> QED
      BY <1>1, <2>3, <2>c, <3>1 DEF InState
  <2>d. CASE x \in {"nsExp", "nsExpSign", "nsExpDig"} /\ DigitAt(u, n + 1) /\ y = "nsExpDig"
    <3>1. c <= n + 1 /\ FracAt(u, b, c) /\ ExpAt(u, c, n + 1)
      <4>1. CASE x = "nsExp"
        <5>1. n = c + 1 /\ FracAt(u, b, c) /\ IsExp(u[c + 1])
          BY <1>1, <2>1, <2>4, <2>6, <4>1
        <5>2. AllDigits(u, c + 2, n + 1)
          BY <1>1, <2>d, <5>1 DEF AllDigits
        <5> QED
          BY <5>1, <5>2 DEF ExpAt
      <4>2. CASE x = "nsExpSign"
        <5>1. n = c + 2 /\ FracAt(u, b, c) /\ IsExp(u[c + 1]) /\ IsSign(u[c + 2])
          BY <1>1, <2>1, <2>4, <2>6, <4>2
        <5>2. AllDigits(u, c + 3, n + 1)
          BY <1>1, <2>d, <5>1 DEF AllDigits
        <5> QED
          BY <5>1, <5>2 DEF ExpAt
      <4>3. CASE x = "nsExpDig"
        <5>1. c <= n /\ FracAt(u, b, c) /\ ExpAt(u, c, n)
          BY <2>1, <2>4, <2>5, <4>3
        <5>2. CASE c + 2 <= n /\ AllDigits(u, c + 2, n)
          <6>1. AllDigits(u, c + 2, n + 1)
            BY <1>1, <2>d, <5>2, OneMoreDigit
          <6> QED
            BY <1>1, <5>1, <5>2, <6>1 DEF ExpAt
        <5>3. CASE c + 3 <= n /\ IsSign(u[c + 2]) /\ AllDigits(u, c + 3, n)
          <6>1. AllDigits(u, c + 3, n + 1)
            BY <1>1, <2>d, <5>3, OneMoreDigit
          <6> QED
            BY <1>1, <5>1, <5>3, <6>1 DEF ExpAt
        <5> QED
          BY <5>1, <5>2, <5>3 DEF ExpAt
      <4> QED
        BY <2>d, <4>1, <4>2, <4>3
    <3> QED
      BY <1>1, <2>3, <2>d, <3>1 DEF InState
  <2> QED
    BY <1>6, <1>8, <2>8, <2>9, <2>a, <2>b, <2>c, <2>d
<1> QED
  BY <1>7, <1>8

\* The text of a number that ends here is one.
LEMMA AcceptIsNumber ==
    ASSUME NEW s \in Seq(Byte), NEW x, InState(x, s), numAccept(x)
    PROVE  IsNumber(s)
<1>0. Len(s) \in Nat
  BY LenProperties
<1>1. x \notin {"nsStart", "nsNeg", "nsDot", "nsExp", "nsExpSign"}
  BY DEF numAccept
<1>2. PICK a \in Nat, b \in Nat, c \in Nat :
          /\ IntAt(s, a, b)
          /\ \/ b = Len(s)
             \/ c = Len(s) /\ FracAt(s, b, c)
             \/ c <= Len(s) /\ FracAt(s, b, c) /\ ExpAt(s, c, Len(s))
  BY <1>1, Zenon DEF InState
<1>3. FracAt(s, Len(s), Len(s))
  BY DEF FracAt
<1>4. \E d \in Nat : NumberAt(s, a, b, d)
  <2>1. CASE b = Len(s)
    BY <1>0, <1>2, <1>3, <2>1 DEF NumberAt
  <2>2. CASE c = Len(s) /\ FracAt(s, b, c)
    BY <1>0, <1>2, <2>2 DEF NumberAt
  <2>3. CASE c <= Len(s) /\ FracAt(s, b, c) /\ ExpAt(s, c, Len(s))
    BY <1>0, <1>2, <2>3 DEF NumberAt
  <2> QED
    BY <1>2, <2>1, <2>2, <2>3
<1> QED
  BY <1>4, IsNumberIs

\* A digit more.
LEMMA AppendIs ==
    ASSUME NEW s \in Seq(Byte)
    PROVE  Append(s, 48) = s \o <<48>> /\ s \o <<48>> \in Seq(Byte) /\ 48 \in Byte
<1>1. 48 \in Byte
  BY DEF Byte
<1> QED
  BY <1>1, AppendIsConcat, AddByte

\* One that has begun is a number with a digit more at most.
LEMMA BegunIsNumber ==
    ASSUME NEW s \in Seq(Byte), NEW x, InState(x, s)
    PROVE  IsNumber(s) \/ IsNumber(Append(s, 48))
<1>1. CASE numAccept(x)
  BY <1>1, AcceptIsNumber
<1>2. CASE ~numAccept(x)
  <2>1. x \in {"nsStart", "nsNeg", "nsDot", "nsExp", "nsExpSign"}
    <3>1. x \in {"nsStart", "nsNeg", "nsZero", "nsInt", "nsDot", "nsFrac", "nsExp",
                 "nsExpSign", "nsExpDig"}
      BY DEF InState
    <3> QED
      BY <1>2, <3>1 DEF numAccept
  <2>2. numStep(x, 48) \in {"nsZero", "nsFrac", "nsExpDig"}
    <3>1. /\ numStep("nsStart", 48) = "nsZero" /\ numStep("nsNeg", 48) = "nsZero"
          /\ numStep("nsDot", 48) = "nsFrac" /\ numStep("nsExp", 48) = "nsExpDig"
          /\ numStep("nsExpSign", 48) = "nsExpDig"
      BY TableGo
    <3> QED
      BY <2>1, <3>1
  <2>3. InState(numStep(x, 48), s \o <<48>>)
    BY <2>2, AppendIs, WrittenMore
  <2> QED
    BY <2>2, <2>3, AppendIs, AcceptIsNumber DEF numAccept
<1> QED
  BY <1>1, <1>2

\* A byte the automaton refuses ends every number.
LEMMA RefusedEnds ==
    ASSUME NEW t \in Seq(Byte), NEW x, Follows(t, x), NEW d \in Byte,
           numStep(x, d) = "nsBad"
    PROVE  ~IsNumber(t \o <<d>>) /\ ~IsNumber(Append(t \o <<d>>, 48))
<1> DEFINE u == t \o <<d>>
<1>1. u \in Seq(Byte) /\ Len(u) = Len(t) + 1 /\ Len(t) \in Nat
  BY AddByte, LenProperties
<1>2. Follows(u, "nsBad") /\ Len(u) > 0
  BY <1>1, FollowsMore
<1> HIDE DEF u
<1>3. Begins(u, u) /\ Begins(u, u \o <<48>>)
  <2>1. /\ 48 \in Byte /\ Len(u \o <<48>>) = Len(u) + 1
        /\ \A k \in 1..Len(u) : (u \o <<48>>)[k] = u[k]
    BY <1>1, AppendIs, AddByte
  <2> QED
    BY <1>1, <2>1 DEF Begins
<1> QED
  BY <1>1, <1>2, <1>3, AppendIs, FollowsNothing DEF u

\* Bytes that are in no number.
LEMMA OtherRefused ==
    ASSUME NEW x, NEW d \in Byte, ~isScalarByte(d)
    PROVE  numStep(x, d) = "nsBad"
<1>1. numClassOf(d) = "ncOther"
  BY DEF isScalarByte, numClassOf, Byte
<1> SUFFICES ASSUME numStep(x, d) # "nsBad" PROVE FALSE
  OBVIOUS
<1>2. PICK t \in numTrans : numClassOf(d) \in t[2]
  BY StepFrom
<1> QED
  BY <1>1, <1>2 DEF numTrans, Digit

-----------------------------------------------------------------------------
(* The words, and what a literal is by its first byte. *)

\* The bytes of the words.
LEMMA WordIs ==
    ASSUME NEW w \in Words
    PROVE  /\ w \in Seq(Byte) /\ 4 <= Len(w) /\ Len(w) <= 5
           /\ w[1] \in {110, 116, 102}
           /\ \A k \in 1..Len(w) : isScalarByte(w[k])
<1>1. /\ w \in {<<110, 117, 108, 108>>, <<116, 114, 117, 101>>, <<102, 97, 108, 115, 101>>}
  BY DEF Words
<1>2. CASE w = <<110, 117, 108, 108>>
  BY <1>2 DEF Byte, isScalarByte
<1>3. CASE w = <<116, 114, 117, 101>>
  BY <1>3 DEF Byte, isScalarByte
<1>4. CASE w = <<102, 97, 108, 115, 101>>
  BY <1>4 DEF Byte, isScalarByte
<1> QED
  BY <1>1, <1>2, <1>3, <1>4

\* The word is known from its first byte,
LEMMA WordOfFirst ==
    ASSUME NEW w \in Words, NEW l, litKindOf(w[1]) = l.kind, l.first = w[1]
    PROVE  word(l) = w /\ l.kind \in {"null", "bool"}
BY DEF Words, word, litKindOf

\* also by the scanner.
LEMMA KindOfFirst ==
    ASSUME NEW l, l.kind = litKindOf(l.first), l.kind \in {"null", "bool"}
    PROVE  word(l) \in Words /\ word(l)[1] = l.first
BY DEF Words, word, litKindOf

\* A number begins with a sign or a digit, as no word does.
LEMMA NumberFirst ==
    ASSUME NEW s \in Seq(Byte), IsNumber(s)
    PROVE  s # <<>> /\ litKindOf(s[1]) = "number"
<1>1. PICK a, b, c : NumberAt(s, a, b, c)
  BY IsNumberIs
<1>2. /\ a \in Nat /\ b \in Nat /\ c \in Nat /\ c <= Len(s) /\ a < b
      /\ c = b \/ b + 2 <= c
      /\ a = 0 \/ (a = 1 /\ s[1] = 45)
      /\ AllDigits(s, a + 1, b) /\ Len(s) \in Nat
  BY <1>1, LenProperties, Zenon DEF NumberAt, IntAt, FracAt
<1>3. 1 \in 1..Len(s) /\ s # <<>>
  BY <1>2
<1>4. s[1] \in Int
  BY <1>3, ElementOfSeq, ByteIs
<1>5. CASE a = 0
  <2>1. DigitAt(s, 1)
    BY <1>2, <1>5 DEF AllDigits
  <2>2. s[1] \in 48..57
    BY <1>4, <2>1, DigitIs DEF DigitAt
  <2> QED
    BY <1>3, <2>2 DEF litKindOf
<1>6. CASE a = 1 /\ s[1] = 45
  BY <1>3, <1>6 DEF litKindOf
<1> QED
  BY <1>2, <1>5, <1>6

\* A prefix, byte by byte.
LEMMA PrefixIs ==
    ASSUME NEW s \in Seq(Byte), NEW t \in Seq(Byte)
    PROVE  IsPrefix(s, t) <=> Begins(s, t)
<1>0. Len(s) \in Nat /\ Len(t) \in Nat
  BY LenProperties
<1>1. SubSeq(s, 1, Len(s)) = s
  BY SubSeqFull
<1>2. ASSUME Len(s) <= Len(t)
      PROVE  SubSeq(t, 1, Len(s)) = s <=> \A k \in 1..Len(s) : t[k] = s[k]
  <2> DEFINE p == SubSeq(t, 1, Len(s))
  <2>1. /\ p \in Seq(Byte) /\ Len(p) = (Len(s) + 1) - 1
        /\ \A k \in 1..(Len(s) + 1) - 1 : p[k] = t[(1 + k) - 1]
    <3>1. 1 \in Nat \ {0} /\ 1 <= Len(s) + 1
      BY <1>0
    <3> QED
      BY <1>0, <1>2, <3>1, PartOf
  <2>2. \A n \in Nat : (n + 1) - 1 = n /\ (1 + n) - 1 = n
    OBVIOUS
  <2>3. Len(p) = Len(s)
    BY <1>0, <2>1, <2>2
  <2>4. \A k \in 1..Len(s) : p[k] = t[k]
    <3> SUFFICES ASSUME NEW k \in 1..Len(s) PROVE p[k] = t[k]
      OBVIOUS
    <3>1. k \in Nat
      BY <1>0
    <3> QED
      BY <1>0, <2>1, <2>2, <3>1
  <2> HIDE DEF p
  <2>5. ASSUME \A k \in 1..Len(s) : t[k] = s[k] PROVE p = s
    <3>1. \A k \in 1..Len(p) : p[k] = s[k]
      BY <2>3, <2>4, <2>5
    <3> QED
      BY <2>1, <2>3, <3>1, SeqEqual
  <2>6. ASSUME p = s, NEW k \in 1..Len(s) PROVE t[k] = s[k]
    BY <2>4, <2>6
  <2> QED
    BY <2>5, <2>6 DEF p
<1> QED
  BY <1>0, <1>1, <1>2, Zenon DEF IsPrefix, Begins

\* What a text of a literal is, in one place.
LEMMA StartsIs ==
    ASSUME NEW s \in Seq(Byte)
    PROVE  StartsLiteral(s) <=>
              \/ IsNumber(s) \/ IsNumber(Append(s, 48))
              \/ \E w \in Words : Begins(s, w)
              \/ (IsNumber(Front(s)) \/ Front(s) \in Words) /\ ~isScalarByte(Last(s))
<1>1. \A w \in Words : IsPrefix(s, w) <=> Begins(s, w)
  BY PrefixIs, WordIs
<1> QED
  BY <1>1, Zenon DEF StartsLiteral, IsLiteral

-----------------------------------------------------------------------------
(* A literal under way: its bytes t, and what the scanner keeps of it. *)

LiteralUnderWay(t, l) ==
    /\ t \in Seq(Byte) /\ t # <<>> /\ l.first = t[1]
    /\ l.kind = litKindOf(l.first) /\ l.kind \in {"null", "bool", "number"}
    /\ l.kind = "number" =>
          l.num # "nsBad" /\ InState(l.num, t) /\ Follows(t, l.num)
    /\ l.kind # "number" => l.n = Len(t) /\ Begins(t, word(l))

\* It can go on to be a literal.
LEMMA LiteralViable ==
    ASSUME NEW t, NEW l, LiteralUnderWay(t, l)
    PROVE  StartsLiteral(t)
<1>1. t \in Seq(Byte)
  BY Zenon DEF LiteralUnderWay
<1>2. CASE l.kind = "number"
  <2>1. InState(l.num, t)
    BY <1>2, Zenon DEF LiteralUnderWay
  <2>2. IsNumber(t) \/ IsNumber(Append(t, 48))
    BY <1>1, <2>1, BegunIsNumber
  <2> QED
    BY <1>1, <2>2, StartsIs, Zenon
<1>3. CASE l.kind # "number"
  <2>1. Begins(t, word(l)) /\ l.kind = litKindOf(l.first) /\ l.kind \in {"null", "bool"}
    BY <1>3 DEF LiteralUnderWay
  <2>2. word(l) \in Words
    BY <2>1, KindOfFirst
  <2> QED
    BY <1>1, <2>1, <2>2, StartsIs, Zenon
<1> QED
  BY <1>2, <1>3

\* It is one where the scanner says so.
LEMMA LiteralDone ==
    ASSUME NEW t, NEW l, LiteralUnderWay(t, l), done(l)
    PROVE  IsLiteral(t)
<1>1. t \in Seq(Byte)
  BY Zenon DEF LiteralUnderWay
<1>2. CASE l.kind = "number"
  <2>1. InState(l.num, t) /\ numAccept(l.num)
    BY <1>2, Zenon DEF LiteralUnderWay, done
  <2> QED
    BY <1>1, <2>1, AcceptIsNumber DEF IsLiteral
<1>3. CASE l.kind # "number"
  <2>1. /\ Begins(t, word(l)) /\ l.kind = litKindOf(l.first) /\ l.kind \in {"null", "bool"}
        /\ Len(t) = Len(word(l))
    BY <1>3 DEF LiteralUnderWay, done
  <2>2. word(l) \in Words /\ word(l) \in Seq(Byte)
    BY <2>1, KindOfFirst, WordIs
  <2> DEFINE w == word(l)
  <2> HIDE DEF w
  <2>3. w \in Seq(Byte) /\ Len(t) = Len(w) /\ \A k \in 1..Len(t) : t[k] = w[k]
    BY <2>1, <2>2 DEF Begins, w
  <2>4. t = w
    BY <1>1, <2>3, SeqEqual
  <2> QED
    BY <2>2, <2>4 DEF IsLiteral, w
<1> QED
  BY <1>2, <1>3

\* The bytes t and one more: no literal and the beginning of none, when its
\* parts are not.
LEMMA NoLiteralMore ==
    ASSUME NEW t \in Seq(Byte), t # <<>>, NEW c \in Byte,
           litKindOf(t[1]) = "number" =>
               /\ ~IsNumber(t \o <<c>>) /\ ~IsNumber(Append(t \o <<c>>, 48))
               /\ IsNumber(t) => isScalarByte(c),
           litKindOf(t[1]) # "number" =>
               \A w \in Words : /\ ~Begins(t \o <<c>>, w)
                                /\ t = w => isScalarByte(c)
    PROVE  ~StartsLiteral(t \o <<c>>)
<1> DEFINE u == t \o <<c>>
<1>1. /\ u \in Seq(Byte) /\ Front(u) = t /\ Last(u) = c
      /\ Len(u) = Len(t) + 1 /\ \A k \in 1..Len(t) : u[k] = t[k]
  BY FrontOfMore, AddByte
<1>2. Len(t) \in Nat /\ 1 \in 1..Len(t)
  BY LenProperties, EmptySeq
<1>3. u[1] = t[1] /\ 1 \in 1..Len(u)
  BY <1>1, <1>2
<1>4. /\ Append(u, 48) \in Seq(Byte) /\ Append(u, 48)[1] = t[1]
  <2>1. 48 \in Byte
    BY DEF Byte
  <2> QED
    BY <1>1, <1>3, <2>1, AppendProperties
<1>5. ASSUME litKindOf(t[1]) # "number"
      PROVE  ~IsNumber(u) /\ ~IsNumber(Append(u, 48)) /\ ~IsNumber(t)
  BY <1>1, <1>3, <1>4, <1>5, NumberFirst
<1>6. ASSUME litKindOf(t[1]) = "number", NEW w \in Words
      PROVE  ~Begins(u, w) /\ t # w
  <2>1. litKindOf(w[1]) # "number"
    <3>1. \A f \in {110, 116, 102} : litKindOf(f) # "number"
      BY DEF litKindOf
    <3> QED
      BY <3>1, WordIs
  <2>2. Begins(u, w) => w[1] = u[1]
    BY <1>3 DEF Begins
  <2> QED
    BY <1>3, <1>6, <2>1, <2>2
<1> HIDE DEF u
<1>7. ~IsNumber(u) /\ ~IsNumber(Append(u, 48))
  BY <1>5, Zenon DEF u
<1>8. \A w \in Words : ~Begins(u, w)
  BY <1>6, Zenon DEF u
<1>9. ~((IsNumber(t) \/ t \in Words) /\ ~isScalarByte(c))
  BY <1>5, <1>6, Zenon
<1> QED
  BY <1>1, <1>7, <1>8, <1>9, StartsIs, Zenon DEF u

\* A byte of a literal that the scanner refuses.
LEMMA LiteralRefuses ==
    ASSUME NEW t, NEW l, LiteralUnderWay(t, l), NEW c \in Byte,
           \/ isScalarByte(c) /\ step(l, c) = Bad
           \/ ~isScalarByte(c) /\ ~done(l)
    PROVE  ~StartsLiteral(t \o <<c>>)
<1>1. /\ t \in Seq(Byte) /\ t # <<>> /\ l.first = t[1] /\ l.kind = litKindOf(t[1])
      /\ l.kind \in {"null", "bool", "number"}
  BY Zenon DEF LiteralUnderWay
<1>2. ASSUME l.kind = "number"
      PROVE  /\ ~IsNumber(t \o <<c>>) /\ ~IsNumber(Append(t \o <<c>>, 48))
             /\ IsNumber(t) => isScalarByte(c)
  <2>1. Follows(t, l.num) /\ l.num # "nsBad"
    BY <1>2, Zenon DEF LiteralUnderWay
  <2>2. numStep(l.num, c) = "nsBad"
    <3>1. CASE isScalarByte(c)
      <4>1. [l EXCEPT !.num = numStep(l.num, c)] # Bad \/ numStep(l.num, c) = "nsBad"
        <5>1. [l EXCEPT !.num = numStep(l.num, c)].kind = l.kind \/ l.kind # "number"
          OBVIOUS
        <5> QED
          BY <1>2, <5>1 DEF Bad
      <4>2. step(l, c) = Bad
        BY <3>1
      <4> QED
        BY <1>2, <4>1, <4>2 DEF step
    <3>2. CASE ~isScalarByte(c)
      BY <3>2, OtherRefused
    <3> QED
      BY <3>1, <3>2
  <2>3. ~IsNumber(t \o <<c>>) /\ ~IsNumber(Append(t \o <<c>>, 48))
    BY <1>1, <2>1, <2>2, RefusedEnds
  <2>4. IsNumber(t) => isScalarByte(c)
    BY <1>1, <1>2, <2>1, FollowsAccepts DEF done
  <2> QED
    BY <2>3, <2>4
<1>3. ASSUME l.kind # "number", NEW w \in Words
      PROVE  ~Begins(t \o <<c>>, w) /\ (t = w => isScalarByte(c))
  <2> DEFINE u == t \o <<c>>
  <2>0. /\ Len(u) = Len(t) + 1 /\ u[Len(t) + 1] = c /\ Len(t) \in Nat /\ 1 \in 1..Len(t)
        /\ \A k \in 1..Len(t) : u[k] = t[k]
    BY <1>1, AddByte, LenProperties, EmptySeq
  <2>1. l.n = Len(t) /\ Begins(t, word(l))
    BY <1>3, Zenon DEF LiteralUnderWay
  <2>2. w[1] = t[1] => word(l) = w
    BY <1>1, WordOfFirst
  <2>3. /\ w \in Seq(Byte) /\ Len(w) \in Nat
        /\ \A k \in 1..Len(w) : isScalarByte(w[k])
    BY WordIs, LenProperties
  <2> HIDE DEF u
  <2>4. ASSUME Begins(u, w) PROVE FALSE
    <3>1. Len(u) <= Len(w) /\ \A k \in 1..Len(u) : w[k] = u[k]
      BY <2>4 DEF Begins
    <3>2. w[1] = t[1] /\ w[Len(t) + 1] = c /\ Len(t) + 1 <= Len(w) /\ Len(t) + 1 \in 1..Len(w)
      BY <2>0, <2>3, <3>1
    <3>3. isScalarByte(c) /\ word(l) = w
      BY <2>2, <2>3, <3>2
    <3>4. step(l, c) = Bad
      BY <3>3
    <3>5. l.n < Len(word(l)) /\ c = word(l)[l.n + 1]
      BY <2>0, <2>1, <2>3, <3>2, <3>3
    <3>6. step(l, c) = [l EXCEPT !.n = @ + 1]
      BY <1>3, <3>5, Zenon DEF step
    <3>7. l.kind \in {"null", "bool"}
      BY <1>1, <1>3
    <3>8. [l EXCEPT !.n = @ + 1].kind = l.kind
      OBVIOUS
    <3> QED
      BY <3>4, <3>6, <3>7, <3>8 DEF Bad
  <2>5. ASSUME t = w PROVE isScalarByte(c)
    <3>1. word(l) = w /\ l.n = Len(word(l))
      BY <2>1, <2>2, <2>5
    <3> QED
      BY <1>3, <3>1 DEF done
  <2> QED
    BY <2>4, <2>5 DEF u
<1> QED
  BY <1>1, <1>2, <1>3, NoLiteralMore

\* One that it takes.
LEMMA LiteralTakes ==
    ASSUME NEW t, NEW l \in LitType, LiteralUnderWay(t, l), NEW c \in Byte, step(l, c) # Bad
    PROVE  LiteralUnderWay(t \o <<c>>, step(l, c))
<1> DEFINE u == t \o <<c>>
<1>1. /\ t \in Seq(Byte) /\ t # <<>> /\ l.first = t[1] /\ l.kind = litKindOf(l.first)
      /\ l.kind \in {"null", "bool", "number"}
  BY Zenon DEF LiteralUnderWay
<1>2. /\ u \in Seq(Byte) /\ Len(u) = Len(t) + 1 /\ u[Len(t) + 1] = c /\ Len(t) \in Nat
      /\ 1 \in 1..Len(t) /\ \A k \in 1..Len(t) : u[k] = t[k]
  BY <1>1, AddByte, LenProperties, EmptySeq
<1> HIDE DEF u
<1>3. u[1] = t[1] /\ u # <<>>
  BY <1>2
<1>4. CASE l.kind = "number"
  <2>1. InState(l.num, t) /\ Follows(t, l.num)
    BY <1>4, Zenon DEF LiteralUnderWay
  <2>2. step(l, c) = [l EXCEPT !.num = numStep(l.num, c)] /\ numStep(l.num, c) # "nsBad"
    BY <1>4, Zenon DEF step
  <2>3. /\ step(l, c).num = numStep(l.num, c) /\ step(l, c).kind = l.kind
        /\ step(l, c).first = l.first
    BY <2>2 DEF LitType
  <2>4. InState(numStep(l.num, c), u)
    BY <1>1, <2>1, <2>2, WrittenMore DEF u
  <2>5. Follows(u, numStep(l.num, c))
    BY <1>1, <2>1, FollowsMore DEF u
  <2> QED
    BY <1>1, <1>2, <1>3, <1>4, <2>2, <2>3, <2>4, <2>5, Zenon DEF LiteralUnderWay, u
<1>5. CASE l.kind # "number"
  <2>1. l.n = Len(t) /\ Begins(t, word(l))
    BY <1>5, Zenon DEF LiteralUnderWay
  <2>2. l.n # 0
    BY <1>2, <2>1
  <2>3. step(l, c) = [l EXCEPT !.n = @ + 1] /\ l.n < Len(word(l)) /\ c = word(l)[l.n + 1]
    BY <1>5, <2>2, Zenon DEF step
  <2>4. /\ step(l, c).n = l.n + 1 /\ step(l, c).kind = l.kind
        /\ step(l, c).first = l.first
    BY <2>3 DEF LitType
  <2>5. word(step(l, c)) = word(l)
    BY <2>4 DEF word
  <2>6. Begins(u, word(l))
    <3>1. Len(word(l)) \in Nat
      <4>1. Len(word(l)) \in 4..5
        BY WordLength
      <4> QED
        BY <4>1
    <3>2. Len(t) <= Len(word(l)) /\ \A k \in 1..Len(t) : word(l)[k] = t[k]
      BY <2>1 DEF Begins
    <3>3. \A k \in 1..Len(u) : word(l)[k] = u[k]
      <4> SUFFICES ASSUME NEW k \in 1..Len(u) PROVE word(l)[k] = u[k]
        OBVIOUS
      <4>1. k \in 1..Len(t) \/ k = Len(t) + 1
        BY <1>2
      <4> QED
        BY <1>2, <2>1, <2>3, <3>2, <4>1
    <3>4. Len(u) <= Len(word(l))
      BY <1>2, <2>1, <2>3, <3>1
    <3> QED
      BY <3>3, <3>4 DEF Begins
  <2>7. step(l, c).n = Len(u)
    BY <1>2, <2>1, <2>4
  <2> QED
    BY <1>1, <1>2, <1>3, <1>5, <2>4, <2>5, <2>6, <2>7, Zenon DEF LiteralUnderWay, u
<1> QED
  BY <1>4, <1>5

\* The first byte of a literal, and one that is none.
LEMMA FirstByte ==
    ASSUME NEW c \in Byte
    PROVE  IF start(c) = Bad THEN ~StartsLiteral(<<c>>) ELSE LiteralUnderWay(<<c>>, start(c))
<1> DEFINE t == <<c>>
           l == [kind |-> litKindOf(c), first |-> c, n |-> 0, num |-> "nsStart"]
<1>1. t \in Seq(Byte) /\ Len(t) = 1 /\ t[1] = c /\ t # <<>>
  BY OneByte
<1>2. <<>> \in Seq(Byte) /\ <<>> \o <<c>> = t
  BY <1>1, ConcatEmptySeq
<1>3. /\ l.kind = litKindOf(c) /\ l.first = c /\ l.n = 0 /\ l.num = "nsStart"
  OBVIOUS
<1>4. litKindOf(c) \in {"none", "null", "bool", "number"}
  BY DEF litKindOf
<1>5. c \in Int
  BY ByteIs
<1>6. start(c) = IF litKindOf(c) = "none" THEN Bad ELSE step(l, c)
  BY DEF start
<1> HIDE DEF l, t
<1>7. CASE litKindOf(c) = "none"
  <2>1. start(c) = Bad
    BY <1>6, <1>7
  <2>2. ~IsNumber(t)
    BY <1>1, <1>7, NumberFirst
  <2>3. ~IsNumber(Append(t, 48))
    <3>1. 48 \in Byte
      BY DEF Byte
    <3>2. Append(t, 48) \in Seq(Byte) /\ Append(t, 48)[1] = c
      BY <1>1, <3>1, AppendProperties
    <3> QED
      BY <1>7, <3>2, NumberFirst
  <2>4. \A w \in Words : ~Begins(t, w)
    <3> SUFFICES ASSUME NEW w \in Words, Begins(t, w) PROVE FALSE
      OBVIOUS
    <3>1. w[1] = c
      BY <1>1 DEF Begins
    <3> QED
      BY <1>7, <3>1, WordIs DEF litKindOf
  <2>5. Front(t) = <<>>
    BY <1>1, SubSeqEmpty DEF Front
  <2>6. ~IsNumber(<<>>) /\ <<>> \notin Words
    <3>1. <<>> \notin Words
      <4> SUFFICES ASSUME <<>> \in Words PROVE FALSE
        OBVIOUS
      <4>1. 4 <= Len(<<>>)
        BY WordIs
      <4> QED
        BY <4>1
    <3> QED
      BY <1>2, <3>1, NumberFirst
  <2>7. ~StartsLiteral(t)
    BY <1>1, <2>2, <2>3, <2>4, <2>5, <2>6, StartsIs, Zenon
  <2> QED
    BY <2>1, <2>7 DEF t
<1>8. CASE litKindOf(c) = "number"
  <2>1. c = 45 \/ c = 48 \/ (49 <= c /\ c <= 57)
    <3>1. c = 45 \/ c \in 48..57
      BY <1>8 DEF litKindOf
    <3> QED
      BY <1>5, <3>1
  <2>2. numStep("nsStart", c) # "nsBad"
    BY <1>5, <2>1, TableGo
  <2>3. start(c) = [l EXCEPT !.num = numStep("nsStart", c)]
    BY <1>3, <1>6, <1>8, <2>2 DEF step
  <2>4. /\ start(c).kind = "number" /\ start(c).first = c
        /\ start(c).num = numStep("nsStart", c)
    BY <1>8, <2>3 DEF l
  <2>5. start(c) # Bad
    BY <2>4 DEF Bad
  <2>6. InState("nsStart", <<>>)
    BY DEF InState
  <2>7. InState(numStep("nsStart", c), t) /\ Follows(t, numStep("nsStart", c))
    BY <1>2, <2>2, <2>6, WrittenMore, FollowsStart, FollowsMore
  <2>8. LiteralUnderWay(t, start(c))
    BY <1>1, <1>8, <2>2, <2>4, <2>7 DEF LiteralUnderWay
  <2> QED
    BY <2>5, <2>8 DEF t
<1>9. CASE litKindOf(c) \in {"null", "bool"}
  <2>1. start(c) = [l EXCEPT !.n = @ + 1]
    BY <1>3, <1>6, <1>9 DEF step
  <2>2. /\ start(c).kind = litKindOf(c) /\ start(c).first = c /\ start(c).n = 1
    BY <2>1 DEF l
  <2>3. start(c) # Bad
    BY <1>9, <2>2 DEF Bad
  <2>4. word(start(c)) \in Words /\ word(start(c))[1] = c
    BY <1>9, <2>2, KindOfFirst
  <2>5. Begins(t, word(start(c)))
    <3> DEFINE w == word(start(c))
    <3>1. 4 <= Len(w) /\ w \in Seq(Byte) /\ w[1] = c
      BY <2>4, WordIs
    <3> HIDE DEF w
    <3>2. Len(w) \in Nat
      BY <3>1, LenProperties
    <3>3. Len(t) <= Len(w) /\ \A k \in 1..Len(t) : w[k] = t[k]
      BY <1>1, <3>1, <3>2
    <3> QED
      BY <3>3 DEF Begins, w
  <2>6. start(c).kind # "number"
    BY <1>9, <2>2
  <2>7. LiteralUnderWay(t, start(c))
    <3>1. start(c).kind \in {"null", "bool", "number"}
      BY <1>9, <2>2
    <3> QED
      BY <1>1, <2>2, <2>5, <2>6, <3>1, Zenon DEF LiteralUnderWay
  <2> QED
    BY <2>3, <2>7 DEF t
<1> QED
  BY <1>4, <1>7, <1>8, <1>9

-----------------------------------------------------------------------------
(* The scan of a literal, against its grammar. *)

LiteralOK == ~dead /\ st = "sInScalar" => LiteralUnderWay(text, lit)

\* A step that goes on in a literal or begins one, one that stops the scan in
\* it, and one that ends it.
LiteralGoes ==
    /\ ~dead' /\ st' = "sInScalar" /\ validateUTF8' = validateUTF8
    /\ token' \in {token, NoToken} /\ LiteralUnderWay(text', lit')

LiteralStops ==
    /\ dead' /\ st' \in {"sIdle", "sInScalar"} /\ validateUTF8' = validateUTF8
    /\ token' \in {token, NoToken}
    /\ ~StartsLiteral(text') /\ (Len(text') > 1 => StartsLiteral(Front(text')))
    /\ offset' = Len(text') - 1

LiteralCloses ==
    /\ ~dead' /\ st' = "sIdle" /\ validateUTF8' = validateUTF8
    /\ token'.st = "sInScalar" /\ IsLiteral(token'.text)

\* The types the literals need.
LEMMA LiteralTypes ==
    ASSUME TypeOK
    PROVE  text \in Seq(Byte) /\ lit \in LitType
BY Zenon DEF TypeOK, Byte, LitType

\* The actions in a literal: its first byte,
LEMMA LiteralStartsGrammar ==
    ASSUME TypeOK, NEW c \in Byte, LiteralStarts(c)
    PROVE  LiteralGoes \/ LiteralStops
<1>1. /\ st = "sIdle" /\ ~dead /\ token' = NoToken /\ text' = <<c>>
      /\ validateUTF8' = validateUTF8
  BY Zenon DEF LiteralStarts, Scanning
<1>2. CASE start(c) = Bad
  <2>1. dead' /\ offset' = 0 /\ st' = st
    BY <1>2, Zenon DEF LiteralStarts
  <2>2. Len(<<c>>) = 1 /\ 1 - 1 = 0 /\ ~(1 > 1)
    OBVIOUS
  <2>3. ~StartsLiteral(<<c>>)
    BY <1>2, FirstByte
  <2> QED
    BY <1>1, <2>1, <2>2, <2>3 DEF LiteralStops
<1>3. CASE start(c) # Bad
  <2>1. st' = "sInScalar" /\ lit' = start(c) /\ dead' = dead
    BY <1>3, Zenon DEF LiteralStarts
  <2>2. LiteralUnderWay(<<c>>, start(c))
    BY <1>3, FirstByte
  <2> QED
    BY <1>1, <2>1, <2>2 DEF LiteralGoes
<1> QED
  BY <1>2, <1>3

\* A byte on which the scan of a literal stops.
LEMMA LiteralBails ==
    ASSUME TypeOK, st = "sInScalar", LiteralUnderWay(text, lit), NEW c \in Byte,
           \/ isScalarByte(c) /\ step(lit, c) = Bad
           \/ ~isScalarByte(c) /\ ~done(lit),
           Bail(<<c>>)
    PROVE  LiteralStops
<1>1. /\ dead' /\ offset' = Len(text) /\ text' = text \o <<c>> /\ st' = st /\ token' = token
      /\ validateUTF8' = validateUTF8
  BY Zenon DEF Bail
<1>2. ~StartsLiteral(text \o <<c>>) /\ StartsLiteral(text)
  BY LiteralRefuses, LiteralViable
<1>3. Front(text \o <<c>>) = text /\ Len(text \o <<c>>) - 1 = Len(text)
  BY LiteralTypes, FrontOfMore
<1> QED
  BY <1>1, <1>2, <1>3 DEF LiteralStops

\* a byte of it,
LEMMA LiteralByteGrammar ==
    ASSUME TypeOK, LiteralOK, NEW c \in Byte, LiteralByte(c)
    PROVE  LiteralGoes \/ LiteralStops
<1>1. st = "sInScalar" /\ ~dead /\ isScalarByte(c) /\ LiteralUnderWay(text, lit)
  BY Zenon DEF LiteralByte, InScalar, Scanning, LiteralOK
<1>2. CASE step(lit, c) = Bad
  <2>1. Bail(<<c>>)
    BY <1>2, Zenon DEF LiteralByte
  <2> QED
    BY <1>1, <1>2, <2>1, LiteralBails
<1>3. CASE step(lit, c) # Bad
  <2>1. Reads(<<c>>) /\ lit' = step(lit, c) /\ st' = st /\ token' = token
    BY <1>3, Zenon DEF LiteralByte
  <2>2. text' = text \o <<c>> /\ dead' = dead /\ validateUTF8' = validateUTF8
    BY <2>1, Zenon DEF Reads
  <2>3. LiteralUnderWay(text \o <<c>>, step(lit, c))
    BY <1>1, <1>3, LiteralTypes, LiteralTakes
  <2> QED
    BY <1>1, <2>1, <2>2, <2>3 DEF LiteralGoes
<1> QED
  BY <1>2, <1>3

\* and the one behind it.
LEMMA LiteralEndsGrammar ==
    ASSUME TypeOK, LiteralOK, NEW c \in Byte, LiteralEnds(c)
    PROVE  LiteralCloses \/ LiteralStops
<1>1. st = "sInScalar" /\ ~dead /\ ~isScalarByte(c) /\ LiteralUnderWay(text, lit)
  BY Zenon DEF LiteralEnds, InScalar, Scanning, LiteralOK
<1>2. CASE ~done(lit)
  <2>1. Bail(<<c>>)
    BY <1>2, Zenon DEF LiteralEnds
  <2> QED
    BY <1>1, <1>2, <2>1, LiteralBails
<1>3. CASE done(lit)
  <2>1. /\ st' = "sIdle" /\ token' = [NoToken EXCEPT !.st = st, !.text = text]
        /\ dead' = dead /\ validateUTF8' = validateUTF8
    BY <1>3, Zenon DEF LiteralEnds
  <2>2. token'.st = "sInScalar" /\ token'.text = text
    BY <1>1, <2>1 DEF NoToken
  <2>3. IsLiteral(text)
    BY <1>1, <1>3, LiteralDone
  <2> QED
    BY <1>1, <2>1, <2>2, <2>3 DEF LiteralCloses
<1> QED
  BY <1>2, <1>3

-----------------------------------------------------------------------------
(* The verdict. *)

\* Where the scan has stopped, and a token that has ended.
DeadOK == dead => ~Viable(text) /\ (Len(text) > 1 => Viable(Front(text)))
TokenOK ==
    /\ token.st \in {"sInStr", "sInKey"} => IsString(validateUTF8, token.text)
    /\ token.st = "sInScalar" => IsLiteral(token.text)

Grammar == StringOK /\ LiteralOK /\ DeadOK /\ TokenOK /\ OffsetInCharacter

VInv == IInv /\ Grammar

LEMMA NoTokenOK ==
    /\ NoToken.st \notin {"sInStr", "sInKey"} /\ NoToken.st # "sInScalar"
BY DEF NoToken

\* The invariant holds at first, and the kinds of steps keep it.
LEMMA InitGrammar == Init => Grammar
<1> SUFFICES ASSUME Init PROVE Grammar
  OBVIOUS
<1>1. st = "sIdle" /\ dead = FALSE /\ token = NoToken
  BY DEF Init
<1> QED
  BY <1>1, NoTokenOK
  DEF Grammar, StringOK, LiteralOK, DeadOK, TokenOK, OffsetInCharacter

LEMMA GoesGrammar ==
    ASSUME Grammar, Goes, st \in {"sInStr", "sInKey"}
    PROVE  Grammar'
<1>1. st' # "sInScalar"
  BY DEF Goes
<1>2. StringOK' /\ LiteralOK' /\ DeadOK' /\ OffsetInCharacter'
  BY <1>1, Zenon DEF Goes, StringOK, LiteralOK, DeadOK, OffsetInCharacter
<1>3. TokenOK'
  BY Zenon DEF Goes, Grammar, TokenOK
<1> QED
  BY <1>2, <1>3 DEF Grammar

LEMMA StopsGrammar ==
    ASSUME Grammar, Stops, st \in {"sInStr", "sInKey"}
    PROVE  Grammar'
<1>1. ~(st' = "sIdle" \/ st' = "sInScalar")
  BY DEF Stops
<1>2. StringOK' /\ LiteralOK'
  BY Zenon DEF Stops, StringOK, LiteralOK
<1>3. DeadOK'
  <2>1. ~StartsString(validateUTF8', text') /\ StartsString(validateUTF8', Front(text'))
    BY Zenon DEF Stops
  <2> QED
    BY <1>1, <2>1, Zenon DEF DeadOK, Viable
<1>4. OffsetInCharacter'
  <2>1. validateUTF8' = validateUTF8
    BY Zenon DEF Stops
  <2>2. \/ offset' = Len(text') - 1
        \/ /\ offset' < Len(text') - 1 /\ validateUTF8
           /\ IsBody(validateUTF8, SubSeq(text', 1, offset'))
           /\ \A k \in offset' + 1..Len(text') - 1 : text'[k] >= 128
    BY Zenon DEF Stops
  <2> QED
    BY <2>1, <2>2 DEF OffsetInCharacter, Failing
<1>5. TokenOK'
  BY Zenon DEF Stops, Grammar, TokenOK
<1> QED
  BY <1>2, <1>3, <1>4, <1>5 DEF Grammar

LEMMA LiteralStopsGrammar ==
    ASSUME Grammar, LiteralStops
    PROVE  Grammar'
<1>1. StringOK' /\ LiteralOK'
  BY Zenon DEF LiteralStops, StringOK, LiteralOK
<1>2. DeadOK'
  <2>1. st' = "sIdle" \/ st' = "sInScalar"
    BY DEF LiteralStops
  <2> QED
    BY <2>1, Zenon DEF LiteralStops, DeadOK, Viable
<1>3. OffsetInCharacter'
  BY Zenon DEF LiteralStops, OffsetInCharacter, Failing
<1>4. TokenOK'
  <2>1. validateUTF8' = validateUTF8 /\ (token' = token \/ token' = NoToken)
    BY DEF LiteralStops
  <2> QED
    BY <2>1, NoTokenOK, Zenon DEF Grammar, TokenOK
<1> QED
  BY <1>1, <1>2, <1>3, <1>4 DEF Grammar

LEMMA LiteralGoesGrammar ==
    ASSUME Grammar, LiteralGoes
    PROVE  Grammar'
<1>1. st' \notin {"sInStr", "sInKey"}
  BY DEF LiteralGoes
<1>2. StringOK' /\ LiteralOK' /\ DeadOK' /\ OffsetInCharacter'
  BY <1>1, Zenon DEF LiteralGoes, StringOK, LiteralOK, DeadOK, OffsetInCharacter
<1>3. TokenOK'
  <2>1. validateUTF8' = validateUTF8 /\ (token' = token \/ token' = NoToken)
    BY DEF LiteralGoes
  <2> QED
    BY <2>1, NoTokenOK, Zenon DEF Grammar, TokenOK
<1> QED
  BY <1>2, <1>3 DEF Grammar

\* A token that ends.
LEMMA EndsGrammar ==
    ASSUME Grammar, ~dead', st' = "sIdle",
           token'.st \in {"sInStr", "sInKey"} => IsString(validateUTF8', token'.text),
           token'.st = "sInScalar" => IsLiteral(token'.text)
    PROVE  Grammar'
<1>1. st' \notin {"sInStr", "sInKey"} /\ st' # "sInScalar"
  OBVIOUS
<1>2. StringOK' /\ LiteralOK' /\ DeadOK' /\ OffsetInCharacter'
  BY <1>1, Zenon DEF StringOK, LiteralOK, DeadOK, OffsetInCharacter
<1>3. TokenOK'
  BY Zenon DEF TokenOK
<1> QED
  BY <1>2, <1>3 DEF Grammar

\* An opening quote: nothing of the string has been read.
LEMMA OpensGrammar ==
    ASSUME TypeOK, CleanOK, Grammar, Opens, st' \in {"sInStr", "sInKey"}
    PROVE  Grammar'
<1>1. /\ st = "sIdle" /\ ~dead /\ dead' = dead /\ token' = NoToken /\ text' = <<>>
      /\ esc' = FALSE /\ hexN' = hexN /\ u8' = u8 /\ validateUTF8' = validateUTF8
  BY Zenon DEF Opens, Scanning
<1>2. hexN' = 0 /\ u8'.need = 0
  BY <1>1 DEF CleanOK, NoSequence
<1>3. Written(validateUTF8', text', esc', hexN', u8')
  <2>1. <<>> \in Seq(Byte) /\ <<>> = <<>> \o <<>>
    BY ConcatEmptySeq
  <2>2. IsBody(validateUTF8', <<>>)
    BY BodyEmpty
  <2>3. Open(validateUTF8', <<>>, esc', hexN', u8')
    BY <1>1, <1>2, Zenon DEF Open
  <2> QED
    BY <1>1, <2>1, <2>2, <2>3, Zenon DEF Written
<1>4. st' # "sInScalar"
  OBVIOUS
<1>5. StringOK' /\ LiteralOK' /\ DeadOK' /\ OffsetInCharacter'
  BY <1>1, <1>3, <1>4, Zenon DEF StringOK, LiteralOK, DeadOK, OffsetInCharacter
<1>6. TokenOK'
  BY <1>1, NoTokenOK, Zenon DEF TokenOK
<1> QED
  BY <1>5, <1>6 DEF Grammar

\* A step that changes nothing of this.
LEMMA SameGrammar ==
    ASSUME Grammar,
           UNCHANGED <<st, strVars, lit, validateUTF8, dead, offset, text, token>>
    PROVE  Grammar'
<1>1. /\ st' = st /\ esc' = esc /\ hexN' = hexN /\ u8' = u8 /\ lit' = lit
      /\ validateUTF8' = validateUTF8 /\ dead' = dead /\ offset' = offset
      /\ text' = text /\ token' = token
  BY DEF strVars
<1>2. StringOK' /\ LiteralOK' /\ TokenOK'
  BY <1>1 DEF Grammar, StringOK, LiteralOK, TokenOK
<1>3. DeadOK'
  BY <1>1 DEF Grammar, DeadOK, Viable
<1>4. OffsetInCharacter'
  BY <1>1 DEF Grammar, OffsetInCharacter, Failing
<1> QED
  BY <1>2, <1>3, <1>4 DEF Grammar

\* Every step is of one of these kinds.
LEMMA NextGrammar ==
    ASSUME VInv, [Next]_vars
    PROVE  Grammar'
<1>0. TypeOK /\ CleanOK /\ Grammar /\ StringOK /\ LiteralOK
  BY DEF VInv, IInv, Grammar
<1>1. ASSUME NEW n \in 1..ChunkMax, Write(n) PROVE Grammar'
  <2>1. UNCHANGED <<st, strVars, lit, validateUTF8, dead, offset, text, token>>
    BY <1>1, Zenon DEF Write, strVars
  <2> QED
    BY <1>0, <2>1, SameGrammar
<1>2. CASE OpensString \/ OpensKey(<<32>>)
  <2>1. Opens /\ st' \in {"sInStr", "sInKey"}
    BY <1>2 DEF OpensString, OpensKey
  <2> QED
    BY <1>0, <2>1, OpensGrammar
<1>3. ASSUME InString, Goes \/ Stops PROVE Grammar'
  <2>1. st \in {"sInStr", "sInKey"}
    BY <1>3 DEF InString
  <2> QED
    BY <1>0, <1>3, <2>1, GoesGrammar, StopsGrammar
<1>4. ASSUME NEW c \in Alphabet,
             Plain(c) \/ Escaped(c) \/ HexDigit(c) \/ WholeSequence(c) \/ SequenceByte(c)
             \/ Control(c)
      PROVE  Grammar'
  <2>1. c \in Byte
    BY Alphabets
  <2>2. InString
    BY <1>4, Zenon
    DEF Plain, Escaped, HexDigit, WholeSequence, SequenceByte, Control, Body
  <2>3. Goes \/ Stops
    BY <1>0, <1>4, <2>1, PlainGrammar, EscapedGrammar, HexDigitGrammar,
       WholeSequenceGrammar, SequenceByteGrammar, ControlGrammar, Zenon
  <2> QED
    BY <1>3, <2>2, <2>3
<1>5. CASE StartEscape
  <2>1. InString /\ (Goes \/ Stops)
    BY <1>0, <1>5, StartEscapeGrammar DEF StartEscape, Body
  <2> QED
    BY <1>3, <2>1
<1>6. CASE Closes
  <2>1. InString
    BY <1>6, Zenon DEF Closes, Body
  <2>2. st \in {"sInStr", "sInKey"}
    BY <2>1 DEF InString
  <2>3. CASE Stops
    BY <1>3, <2>1, <2>3
  <2>4. CASE /\ st' = "sIdle" /\ ~dead' /\ validateUTF8' = validateUTF8
             /\ token'.st = st /\ IsString(validateUTF8, token'.text)
    <3>1. IsString(validateUTF8', token'.text) /\ token'.st # "sInScalar"
      BY <2>2, <2>4
    <3> QED
      BY <1>0, <2>4, <3>1, EndsGrammar
  <2> QED
    BY <1>0, <1>6, <2>3, <2>4, ClosesGrammar
<1>7. ASSUME NEW c \in LitBytes, LiteralStarts(c) \/ LiteralByte(c) \/ LiteralEnds(c)
      PROVE  Grammar'
  <2>1. c \in Byte
    BY Alphabets
  <2>2. LiteralGoes \/ LiteralStops \/ LiteralCloses
    BY <1>0, <1>7, <2>1, LiteralStartsGrammar, LiteralByteGrammar, LiteralEndsGrammar,
       Zenon
  <2>3. CASE LiteralCloses
    <3>1. /\ ~dead' /\ st' = "sIdle" /\ token'.st \notin {"sInStr", "sInKey"}
          /\ IsLiteral(token'.text)
      BY <2>3 DEF LiteralCloses
    <3> QED
      BY <1>0, <3>1, EndsGrammar
  <2> QED
    BY <1>0, <2>2, <2>3, LiteralGoesGrammar, LiteralStopsGrammar
<1>8. CASE UNCHANGED vars
  <2>1. UNCHANGED <<st, strVars, lit, validateUTF8, dead, offset, text, token>>
    BY <1>8, Zenon DEF vars, strVars
  <2> QED
    BY <1>0, <2>1, SameGrammar
<1> QED
  BY <1>1, <1>2, <1>4, <1>5, <1>6, <1>7, <1>8, Zenon DEF Next

\* The verdict, from the invariant.
LEMMA VerdictFollows == VInv => VerdictIsGrammar
<1> SUFFICES ASSUME VInv PROVE VerdictIsGrammar
  OBVIOUS
<1>1. TypeOK /\ StringOK /\ LiteralOK /\ DeadOK /\ TokenOK
  BY DEF VInv, IInv, Grammar
<1>2. ASSUME ~dead, st # "sIdle" PROVE Viable(text)
  <2>1. CASE st = "sInScalar"
    <3>1. StartsLiteral(text)
      BY <1>1, <1>2, <2>1, LiteralViable DEF LiteralOK
    <3> QED
      BY <2>1, <3>1 DEF Viable
  <2>2. CASE st \in {"sInStr", "sInKey"}
    <3>1. PICK b \in Seq(Byte), r \in Seq(Byte) :
              /\ text = b \o r /\ IsBody(validateUTF8, b)
              /\ Open(validateUTF8, r, esc, hexN, u8)
      BY <1>1, <1>2, <2>2, Zenon DEF StringOK, Written
    <3>2. validateUTF8 \in BOOLEAN
      BY <1>1, StringTypes
    <3>3. StartsString(validateUTF8, text)
      BY <3>1, <3>2, OpenViable
    <3>4. ~(st = "sIdle" \/ st = "sInScalar")
      BY <2>2
    <3> QED
      BY <3>3, <3>4, Zenon DEF Viable
  <2>3. st \in {"sIdle", "sInStr", "sInKey", "sInScalar"}
    BY <1>1, Zenon DEF TypeOK
  <2> QED
    BY <1>2, <2>1, <2>2, <2>3
<1> QED
  BY <1>1, <1>2, Zenon DEF VerdictIsGrammar, DeadOK, TokenOK

-----------------------------------------------------------------------------
(* The theorems. *)

\* Every state the scanner of a token (engine.go, region.go) can be in, at any
\* byte of any token and however the input is cut into chunks, satisfies the
\* inductive invariant.
THEOREM Invariance == Spec => []IInv
<1>1. Init => IInv
  BY InitInv
<1>2. IInv /\ [Next]_vars => IInv'
  BY NextInv
<1> QED
  BY <1>1, <1>2, PTL DEF Spec

\* Between two tokens the scanner is clean: no escape, no digit of \u and no
\* cut UTF-8 sequence of one string is taken for a part of the next, although
\* the opening quote resets only esc (engine.go:385-395).
THEOREM CleanBetweenTokens == Spec => []IdleIsClean
<1>1. IInv => IdleIsClean
  BY DEF IInv, CleanOK, IdleIsClean
<1> QED
  BY <1>1, Invariance, PTL

\* A key is its bytes, once each and in order, cut out of kvRaw behind its
\* whitespace and its quote, and it goes through the decoder exactly when a
\* backslash was read in it (engine.go:126-184).
THEOREM KeysReadBack == Spec => []KeyIsText
<1>1. IInv => KeyIsText
  BY DEF IInv
<1> QED
  BY <1>1, Invariance, PTL

\* The scan of a token is the grammar: on every document over every alphabet
\* of bytes, in every chunking, the scan stops at the first byte no string or
\* literal of RFC 8259 (and, validating, of RFC 3629) goes on with, at no
\* other, and ends a token only where it is whole - although a sequence that
\* lies in one chunk is judged by a table and one cut by a chunk by a state
\* machine (scanStrUTF8, region.go:578-623; litState, jsonutil.go).
THEOREM VerdictOfGrammar == Spec => []VerdictIsGrammar
<1>1. Init => VInv
  BY InitInv, InitGrammar DEF VInv
<1>2. VInv /\ [Next]_vars => VInv'
  BY NextInv, NextGrammar DEF VInv
<1>3. VInv => VerdictIsGrammar
  BY VerdictFollows
<1> QED
  BY <1>1, <1>2, <1>3, PTL DEF Spec

\* The offset of a grammar error is that of the failing byte, or, where a
\* UTF-8 sequence was read whole, that of its first byte and of no byte
\* before it (region.go:578-623).
THEOREM OffsetsInCharacters == Spec => []OffsetInCharacter
<1>1. Init => VInv
  BY InitInv, InitGrammar DEF VInv
<1>2. VInv /\ [Next]_vars => VInv'
  BY NextInv, NextGrammar DEF VInv
<1>3. VInv => OffsetInCharacter
  BY DEF VInv, Grammar
<1> QED
  BY <1>1, <1>2, <1>3, PTL DEF Spec

=============================================================================
