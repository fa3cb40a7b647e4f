------------------------------ MODULE Lexical -------------------------------
(***************************************************************************)
(* The scanner inside a token: the bytes of a string, of a key, of a       *)
(* literal (the states sInStr, sInKey and sInScalar of src/engine/         *)
(* engine.go, with the tables of jsonutil.go and scanStrUTF8 of            *)
(* region.go).  What follows a token is ScanGrammar's concern.             *)
(*                                                                         *)
(* A byte is its value.  A chunk is the number of bytes it has left: its   *)
(* bytes are chosen as the scan reads them, out of StrBytes in a string    *)
(* (TailBytes after the first byte of a UTF-8 sequence read whole) and     *)
(* LitBytes in a literal, so every document over these bytes is fed in     *)
(* every split.  MaxText bounds a token, MaxMulti one with bytes from 80   *)
(* up, ChunkMax a chunk.                                                   *)
(***************************************************************************)
EXTENDS Integers, Sequences, SequencesExt, FiniteSetsExt

CONSTANTS StrBytes, TailBytes, LitBytes, MaxText, MaxMulti, ChunkMax

ASSUME LexicalAssumption ==
    /\ StrBytes \cup TailBytes \cup LitBytes \subseteq 0..255
    /\ MaxText \in Nat \ {0} /\ MaxMulti \in 0..MaxText
    /\ ChunkMax \in Nat \ {0}

VARIABLES
    st,            \* "sIdle", "sInStr", "sInKey", "sInScalar"
    esc, hexN,     \* after a backslash; hex digits still to come
    u8,            \* utf8State: need, lo, hi
    lit,           \* litState: kind, first, n, num
    kvRaw, keyAt,  \* a key's bytes, whitespace and quotes included; where its
                   \* content starts
    keyEsc,        \* the key has an escape
    validateUTF8,
    left,          \* bytes left in the chunk
    dead, offset,  \* offset counts from the token's first byte
    text,          \* history: the bytes of the token, the failing one too
    token          \* history: the last token that ended, and how

strVars == <<esc, hexN, u8>>
keyVars == <<kvRaw, keyAt, keyEsc>>
vars == <<st, strVars, lit, keyVars, validateUTF8, left, dead, offset, text,
          token>>

Quote == 34
Backslash == 92

----------------------------------------------------------------------------
(* Tables.                                                                 *)

isHexByte(c) == c \in 48..57 \cup 97..102 \cup 65..70
isScalarByte(c) ==
    c \in 48..57 \cup 97..122 \cup 65..90 \cup {43, 45, 46}

\* " \ / b f n r t, and u
escapeClass(c) ==
    CASE c \in {34, 92, 47, 98, 102, 110, 114, 116} -> 1
      [] c = 117 -> 2
      [] OTHER -> 0

numClassOf(c) ==
    CASE c = 48 -> "ncZero"
      [] c \in 49..57 -> "ncDigit"
      [] c = 46 -> "ncDot"
      [] c \in {101, 69} -> "ncExp"
      [] c = 43 -> "ncPlus"
      [] c = 45 -> "ncMinus"
      [] OTHER -> "ncOther"

Digit == {"ncZero", "ncDigit"}

\* The number grammar, an automaton: from, classes of bytes, to.
numTrans ==
    {<<"nsStart", {"ncMinus"}, "nsNeg">>,
     <<"nsStart", {"ncZero"}, "nsZero">>, <<"nsStart", {"ncDigit"}, "nsInt">>,
     <<"nsNeg", {"ncZero"}, "nsZero">>, <<"nsNeg", {"ncDigit"}, "nsInt">>,
     <<"nsZero", {"ncDot"}, "nsDot">>, <<"nsZero", {"ncExp"}, "nsExp">>,
     <<"nsInt", Digit, "nsInt">>, <<"nsInt", {"ncDot"}, "nsDot">>,
     <<"nsInt", {"ncExp"}, "nsExp">>,
     <<"nsDot", Digit, "nsFrac">>, <<"nsFrac", Digit, "nsFrac">>,
     <<"nsFrac", {"ncExp"}, "nsExp">>,
     <<"nsExp", {"ncPlus", "ncMinus"}, "nsExpSign">>,
     <<"nsExp", Digit, "nsExpDig">>, <<"nsExpSign", Digit, "nsExpDig">>,
     <<"nsExpDig", Digit, "nsExpDig">>}

NumStates == {t[1] : t \in numTrans} \cup {"nsBad"}

numStep(s, c) ==
    LET to == {t[3] : t \in {t \in numTrans : t[1] = s /\ numClassOf(c) \in t[2]}}
    IN  IF to = {} THEN "nsBad" ELSE CHOOSE n \in to : TRUE

numAccept(s) == s \in {"nsZero", "nsInt", "nsFrac", "nsExpDig"}

litKindOf(c) ==
    CASE c = 110 -> "null"
      [] c \in {116, 102} -> "bool"
      [] c = 45 \/ c \in 48..57 -> "number"
      [] OTHER -> "none"

\* null, true, false
word(l) ==
    CASE l.kind = "null" -> <<110, 117, 108, 108>>
      [] l.first = 116 -> <<116, 114, 117, 101>>
      [] OTHER -> <<102, 97, 108, 115, 101>>

Bad == [kind |-> "none", first |-> 0, n |-> 0, num |-> "nsBad"]

\* litState.step; Bad is its FALSE.
step(l, c) ==
    IF l.kind = "number"
    THEN LET n == numStep(l.num, c)
         IN  IF n = "nsBad" THEN Bad ELSE [l EXCEPT !.num = n]
    ELSE IF l.n = 0 \/ (l.n < Len(word(l)) /\ c = word(l)[l.n + 1])
    THEN [l EXCEPT !.n = @ + 1]
    ELSE Bad

start(c) ==
    IF litKindOf(c) = "none" THEN Bad
    ELSE step([kind |-> litKindOf(c), first |-> c, n |-> 0,
               num |-> "nsStart"], c)

done(l) ==
    IF l.kind = "number" THEN numAccept(l.num) ELSE l.n = Len(word(l))

----------------------------------------------------------------------------
(* UTF-8.                                                                  *)

\* utf8First: the length of the sequence a first byte starts, 0 for none.
SizeOf(c) ==
    CASE c \in 194..223 -> 2
      [] c \in 224..239 -> 3
      [] c \in 240..244 -> 4
      [] OTHER -> 0

\* utf8Accept: the range of the second byte after c.
Second(c) ==
    CASE c = 224 -> [lo |-> 160, hi |-> 191]
      [] c = 237 -> [lo |-> 128, hi |-> 159]
      [] c = 240 -> [lo |-> 144, hi |-> 191]
      [] c = 244 -> [lo |-> 128, hi |-> 143]
      [] OTHER -> [lo |-> 128, hi |-> 191]

\* The bytes of a whole sequence the table refuses; the code looks at none
\* after the first of them.
Refused(s) ==
    {k \in 2..Len(s) : s[k] \notin IF k = 2 THEN Second(s[1]).lo..Second(s[1]).hi
                                   ELSE 128..191}

NoSequence == [need |-> 0, lo |-> 0, hi |-> 0]

\* utf8State.step at the start of a sequence.
Lead(c) ==
    CASE c \in 194..223 -> [need |-> 1, lo |-> 128, hi |-> 191]
      [] c = 224 -> [need |-> 2, lo |-> 160, hi |-> 191]
      [] c \in 225..236 \cup {238, 239} -> [need |-> 2, lo |-> 128, hi |-> 191]
      [] c = 237 -> [need |-> 2, lo |-> 128, hi |-> 159]
      [] c = 240 -> [need |-> 3, lo |-> 144, hi |-> 191]
      [] c \in 241..243 -> [need |-> 3, lo |-> 128, hi |-> 191]
      [] c = 244 -> [need |-> 3, lo |-> 128, hi |-> 143]
      [] OTHER -> NoSequence

\* Mutant: the range of the second byte stays for the third.
NextSticky(u) == IF u.need = 1 THEN NoSequence ELSE [u EXCEPT !.need = @ - 1]

\* utf8State.step inside a sequence.
Next8(u) ==
    IF u.need = 1 THEN NoSequence
    ELSE [need |-> u.need - 1, lo |-> 128, hi |-> 191]

----------------------------------------------------------------------------
(* The scan.                                                               *)

NoLit == [kind |-> "none", first |-> 0, n |-> 0, num |-> "nsStart"]
NoToken == [st |-> "sIdle", text |-> <<>>, key |-> <<>>, escaped |-> FALSE]

Init ==
    /\ st = "sIdle" /\ esc = FALSE /\ hexN = 0 /\ u8 = NoSequence
    /\ lit = NoLit /\ kvRaw = <<>> /\ keyAt = 0 /\ keyEsc = FALSE
    /\ validateUTF8 \in BOOLEAN
    /\ left = 0 /\ dead = FALSE /\ offset = -1
    /\ text = <<>> /\ token = NoToken

\* The next chunk.
Write(n) ==
    /\ left = 0 /\ ~dead
    /\ left' = n
    /\ UNCHANGED <<st, strVars, lit, keyVars, validateUTF8, dead, offset, text,
                   token>>

Scanning == left > 0 /\ ~dead
InString == Scanning /\ st \in {"sInStr", "sInKey"}

Bound(s) == IF \E k \in DOMAIN s : s[k] >= 128 THEN MaxMulti ELSE MaxText

\* The bytes s are read, and kept when they are a key's.
Reads(s) ==
    /\ Len(text) + Len(s) <= Bound(text \o s)
    /\ text' = text \o s
    /\ left' = left - Len(s)
    /\ kvRaw' = IF st = "sInKey" THEN kvRaw \o s ELSE kvRaw
    /\ UNCHANGED <<keyAt, validateUTF8, dead, offset>>

\* Mutant: the offset is that of the byte after.
BailAfter(s) ==
    /\ dead' = TRUE /\ offset' = Len(text) + Len(s) /\ text' = text \o s
    /\ left' = 0
    /\ UNCHANGED <<st, strVars, lit, keyVars, validateUTF8, token>>

\* A bail over the bytes s, its offset that of the first of them.
Bail(s) ==
    /\ dead' = TRUE /\ offset' = Len(text) /\ text' = text \o s
    /\ left' = 0
    /\ UNCHANGED <<st, strVars, lit, keyVars, validateUTF8, token>>

\* A quote outside a token.  The literal before is forgotten, and by a
\* string the key before: no byte of the new token depends on them.
Opens ==
    /\ Scanning /\ st = "sIdle"
    /\ esc' = FALSE
    /\ text' = <<>> /\ left' = left - 1 /\ token' = NoToken /\ lit' = NoLit
    /\ UNCHANGED <<hexN, u8, validateUTF8, dead, offset>>

\* The quote of a string.
OpensString ==
    /\ Opens /\ st' = "sInStr"
    /\ kvRaw' = <<>> /\ keyAt' = 0 /\ keyEsc' = FALSE

\* The quote of a key, ws the whitespace before it.
OpensKey(ws) ==
    /\ Opens /\ st' = "sInKey"
    /\ kvRaw' = ws \o <<Quote>> /\ keyAt' = Len(kvRaw')
    /\ keyEsc' = FALSE

\* The byte after a backslash.
Escaped(c) ==
    /\ InString /\ esc
    /\ IF escapeClass(c) = 0 THEN Bail(<<c>>)
       ELSE /\ Reads(<<c>>)
            /\ esc' = FALSE
            /\ hexN' = IF escapeClass(c) = 2 THEN 4 ELSE hexN
            /\ UNCHANGED <<st, u8, lit, keyEsc, token>>

\* A digit of \u.
HexDigit(c) ==
    /\ InString /\ ~esc /\ hexN > 0
    /\ IF ~isHexByte(c) THEN Bail(<<c>>)
       ELSE /\ Reads(<<c>>)
            /\ hexN' = hexN - 1
            /\ UNCHANGED <<st, esc, u8, lit, keyEsc, token>>

Body == InString /\ ~esc /\ hexN = 0

\* Mutant: an ASCII byte ends a sequence that is not whole.
MidSequenceNever == FALSE

\* scanStrUTF8: an ASCII byte, and a sequence cut by the chunk before.
MidSequence == u8.need > 0

\* scanStringBody: a byte of no meaning to the scanner.
Plain(c) ==
    /\ Body /\ c >= 32 /\ c \notin {Quote, Backslash}
    /\ c < 128 \/ ~validateUTF8
    /\ IF MidSequence THEN Bail(<<c>>)
       ELSE Reads(<<c>>) /\ UNCHANGED <<st, strVars, lit, keyEsc, token>>

\* scanStrUTF8: a sequence that lies wholly in the chunk, by the table.
WholeSequence(c) ==
    /\ Body /\ validateUTF8 /\ c >= 128 /\ ~MidSequence
    /\ SizeOf(c) \in 1..left
    /\ \E tail \in [1..SizeOf(c) - 1 -> TailBytes] :
          LET s == <<c>> \o tail
          IN  IF Refused(s) = {}
              THEN Reads(s) /\ UNCHANGED <<st, strVars, lit, keyEsc, token>>
              ELSE Bail(SubSeq(s, 1, Min(Refused(s))))

\* scanStrUTF8: a byte that starts no sequence, or one of a sequence the
\* chunk cuts, by the state machine.
SequenceByte(c) ==
    /\ Body /\ validateUTF8 /\ c >= 128
    /\ MidSequence \/ SizeOf(c) = 0 \/ SizeOf(c) > left
    /\ LET ok == IF MidSequence THEN c \in u8.lo..u8.hi
                 ELSE SizeOf(c) # 0 /\ Lead(c) # NoSequence
       IN  IF ok
           THEN /\ Reads(<<c>>)
                /\ u8' = IF MidSequence THEN Next8(u8) ELSE Lead(c)
                /\ UNCHANGED <<st, esc, hexN, lit, keyEsc, token>>
           ELSE Bail(<<c>>)

Control(c) == Body /\ c < 32 /\ Bail(<<c>>)

StartEscape ==
    /\ Body
    /\ IF MidSequence THEN Bail(<<Backslash>>)
       ELSE /\ Reads(<<Backslash>>)
            /\ esc' = TRUE
            /\ keyEsc' = (keyEsc \/ st = "sInKey")
            /\ UNCHANGED <<st, hexN, u8, lit, token>>

\* Mutant: the whitespace before the key is taken for its quote.
KeyContentRaw(raw) == SubSeq(raw, 2, Len(raw) - 1)

\* The content of a key, between the quotes (onKeyDone).
KeyContent(raw) == SubSeq(raw, keyAt + 1, Len(raw) - 1)

\* The closing quote.
Closes ==
    /\ Body
    /\ IF MidSequence THEN Bail(<<Quote>>)
       ELSE /\ Reads(<<Quote>>)
            /\ st' = "sIdle"
            /\ token' = [st |-> st, text |-> text',
                         key |-> IF st = "sInKey" THEN KeyContent(kvRaw')
                                 ELSE <<>>,
                         escaped |-> st = "sInKey" /\ keyEsc]
            /\ UNCHANGED <<strVars, lit, keyEsc>>

\* The first byte of a literal, outside a token.
LiteralStarts(c) ==
    /\ Scanning /\ st = "sIdle" /\ c # Quote
    /\ token' = NoToken /\ text' = <<c>>
    /\ IF start(c) = Bad
       THEN /\ dead' = TRUE /\ offset' = 0 /\ left' = 0
            /\ UNCHANGED <<st, lit>>
       ELSE /\ st' = "sInScalar" /\ lit' = start(c) /\ left' = left - 1
            /\ UNCHANGED <<dead, offset>>
    /\ kvRaw' = <<>> /\ keyAt' = 0 /\ keyEsc' = FALSE
    /\ UNCHANGED <<strVars, validateUTF8>>

InScalar == Scanning /\ st = "sInScalar"

LiteralByte(c) ==
    /\ InScalar /\ isScalarByte(c)
    /\ IF step(lit, c) = Bad THEN Bail(<<c>>)
       ELSE /\ Reads(<<c>>)
            /\ lit' = step(lit, c)
            /\ UNCHANGED <<st, strVars, keyEsc, token>>

\* Any other byte ends the literal, and is read again outside it.
LiteralEnds(c) ==
    /\ InScalar /\ ~isScalarByte(c)
    /\ IF ~done(lit) THEN Bail(<<c>>)
       ELSE /\ st' = "sIdle"
            /\ token' = [NoToken EXCEPT !.st = st, !.text = text]
            /\ UNCHANGED <<strVars, lit, keyVars, validateUTF8, left, dead,
                           offset, text>>

\* Without validation the bytes from 80 up are alike: the first stands for
\* all.  A u means something only after a backslash.
Alphabet == IF validateUTF8 THEN StrBytes ELSE {c \in StrBytes : c <= 128}

Next ==
    \/ \E n \in 1..ChunkMax : Write(n)
    \/ OpensString \/ OpensKey(<<32>>)
    \/ \E c \in Alphabet \ {117} : Plain(c)
    \/ \E c \in Alphabet :
          \/ Escaped(c) \/ HexDigit(c) \/ WholeSequence(c) \/ SequenceByte(c) \/ Control(c)
    \/ StartEscape \/ Closes
    \/ \E c \in LitBytes :
          LiteralStarts(c) \/ LiteralByte(c) \/ LiteralEnds(c)

Spec == Init /\ [][Next]_vars

----------------------------------------------------------------------------
(* Reference: the grammar of RFC 8259 and RFC 3629, on whole texts.        *)

\* A sequence of UTF-8: its code point needs that many bytes, is no
\* surrogate and is at most 10FFFF.
CodePoint(s) ==
    LET bits(k) == s[k] - 128
    IN  CASE Len(s) = 2 -> 64 * (s[1] - 192) + bits(2)
          [] Len(s) = 3 -> 4096 * (s[1] - 224) + 64 * bits(2) + bits(3)
          [] Len(s) = 4 -> 262144 * (s[1] - 240) + 4096 * bits(2)
                               + 64 * bits(3) + bits(4)

IsUTF8(s) ==
    /\ \A k \in 2..Len(s) : s[k] \in 128..191
    /\ \/ Len(s) = 2 /\ s[1] \in 192..223 /\ CodePoint(s) >= 128
       \/ /\ Len(s) = 3 /\ s[1] \in 224..239 /\ CodePoint(s) >= 2048
          /\ CodePoint(s) < 55296 \/ CodePoint(s) > 57343
       \/ /\ Len(s) = 4 /\ s[1] \in 240..247
          /\ CodePoint(s) >= 65536 /\ CodePoint(s) <= 1114111

\* A character of a string; v says that UTF-8 is validated.
IsChar(v, s) ==
    \/ Len(s) = 1 /\ s[1] \in 32..127 \ {Quote, Backslash}
    \/ ~v /\ Len(s) = 1 /\ s[1] >= 128
    \/ v /\ IsUTF8(s)
    \/ Len(s) = 2 /\ s[1] = Backslash
       /\ s[2] \in {34, 92, 47, 98, 102, 110, 114, 116}
    \/ Len(s) = 6 /\ s[1] = Backslash /\ s[2] = 117
       /\ \A k \in 3..6 : isHexByte(s[k])

\* Where the characters of s end, as far as it is made of characters.
Ends(v, s) ==
    LET whole[k \in 0..Len(s)] ==
            \/ k = 0
            \/ \E n \in {1, 2, 3, 4, 6} :
                  n <= k /\ IsChar(v, SubSeq(s, k - n + 1, k)) /\ whole[k - n]
    IN  {k \in 0..Len(s) : whole[k]}

IsBody(v, s) == Len(s) \in Ends(v, s)

Rest8 == UNION {[1..n -> {128, 144, 160}] : n \in 1..3}
StartsChar(v, s) ==
    \/ s = <<Backslash>>
    \/ /\ s[1] = Backslash /\ Len(s) \in 2..5
       /\ IsChar(v, s \o [k \in 1..6 - Len(s) |-> 48])
    \/ /\ v /\ s[1] >= 128 /\ Len(s) <= 3
       /\ \E t \in Rest8 : IsUTF8(s \o t)

IsString(v, s) == s # <<>> /\ Last(s) = Quote /\ IsBody(v, Front(s))
StartsString(v, s) ==
    LET k == Max(Ends(v, s))
    IN  \/ k = Len(s) \/ StartsChar(v, SubSeq(s, k + 1, Len(s)))
        \/ k = Len(s) - 1 /\ Last(s) = Quote

Digits(s) == s # <<>> /\ \A k \in DOMAIN s : s[k] \in 48..57
IsNumber(s) ==
    \E a, b, c \in 0..Len(s) :
        LET sign == SubSeq(s, 1, a)
            int  == SubSeq(s, a + 1, b)
            frac == SubSeq(s, b + 1, c)
            exp  == SubSeq(s, c + 1, Len(s))
        IN  /\ a <= b /\ b <= c
            /\ sign \in {<<>>, <<45>>}
            /\ Digits(int) /\ (int[1] = 48 => Len(int) = 1)
            /\ frac = <<>> \/ (frac[1] = 46 /\ Digits(Tail(frac)))
            /\ \/ exp = <<>>
               \/ /\ exp[1] \in {101, 69}
                  /\ \/ Digits(Tail(exp))
                     \/ Len(exp) > 2 /\ exp[2] \in {43, 45}
                        /\ Digits(SubSeq(exp, 3, Len(exp)))

Words == {<<110, 117, 108, 108>>, <<116, 114, 117, 101>>,
          <<102, 97, 108, 115, 101>>}
IsLiteral(s) == IsNumber(s) \/ s \in Words
StartsLiteral(s) ==
    \/ IsNumber(s) \/ IsNumber(Append(s, 48))
    \/ \E w \in Words : IsPrefix(s, w)
    \/ IsLiteral(Front(s)) /\ ~isScalarByte(Last(s))

Viable(s) ==
    IF st = "sIdle" \/ st = "sInScalar" THEN StartsLiteral(s)
    ELSE StartsString(validateUTF8, s)

\* VerdictIsGrammar: the last byte read is the first no document goes on with.
Failing == Len(text) - 1

----------------------------------------------------------------------------
(* Properties.                                                             *)

Kinds == {"none", "null", "bool", "number"}

TypeOK ==
    /\ st \in {"sIdle", "sInStr", "sInKey", "sInScalar"}
    /\ {esc, keyEsc, validateUTF8, dead} \subseteq BOOLEAN
    /\ hexN \in 0..4 /\ u8 \in [need : 0..3, lo : 0..255, hi : 0..255]
    /\ lit \in [kind : Kinds, first : 0..255, n : 0..5, num : NumStates]
    /\ kvRaw \in Seq(0..255) /\ text \in Seq(0..255) /\ keyAt \in 0..2
    /\ left \in 0..ChunkMax /\ offset \in -1..MaxText

\* The scan of a token accepts exactly the grammar, byte by byte and
\* whatever the chunks: it stops at the first byte with which no string or
\* literal can go on, goes on at every other, and ends a token only where it is whole.
\* With ValidateUTF8 a sequence read in one piece is judged by a table and
\* one cut by a chunk by a state machine (region.go:578-623).
VerdictIsGrammar ==
    /\ dead => ~Viable(text) /\ (Len(text) > 1 => Viable(Front(text)))
    /\ ~dead /\ st # "sIdle" => text = <<>> \/ Viable(text)
    /\ token.st \in {"sInStr", "sInKey"} => IsString(validateUTF8, token.text)
    /\ token.st = "sInScalar" => IsLiteral(token.text)

\* Outside a token nothing is left of the one before: an escape, a digit or
\* a sequence half read would be taken for a part of the next string, which
\* resets only esc (engine.go:385-395).
IdleIsClean ==
    /\ TypeOK
    /\ st = "sIdle" => ~esc /\ hexN = 0 /\ u8 = NoSequence

\* A key's content, read back out of kvRaw, is its bytes once each, and it
\* is decoded exactly when it has an escape (engine.go:126-184).
KeyIsText ==
    token.st = "sInKey" =>
        /\ token.key = Front(token.text)
        /\ token.escaped = Contains(token.text, Backslash)

\* The offset of an error is in the character that fails: its failing byte,
\* or the first byte of its UTF-8 sequence.
OffsetInCharacter ==
    dead => \/ offset = Failing
            \/ /\ offset < Failing /\ validateUTF8
               /\ IsBody(validateUTF8, SubSeq(text, 1, offset))
               /\ \A k \in offset + 1..Failing : text[k] >= 128

\* README: a grammar error's offset is that of the failing byte, and does
\* not depend on how the input was chunked.
OffsetIsFailingByte == dead => offset = Failing
=============================================================================
