---------------------------- MODULE JSONStrings -----------------------------
(***************************************************************************)
(* The string helpers of src/engine/jsonutil.go, on bytes by their values: *)
(* decoding a string (JSONUnquote) or a prefix of one (UnescapePrefix),    *)
(* encoding one (AppendJSONString), and the search for the byte that ends  *)
(* a run of plain bytes, a word or a vector at a time (scanStringBody,     *)
(* with src/simd).                                                         *)
(*                                                                         *)
(* A state is an input of one of the two kinds, grown a step at a time:    *)
(* units, the characters of a string each as its bytes with the code point *)
(* it stands for, or bytes, any bytes.  MaxUnits and MaxBytes bound them.  *)
(***************************************************************************)
EXTENDS Integers, Sequences, FiniteSets, SequencesExt, FiniteSetsExt, Bitwise

CONSTANTS Units,        \* [raw: bytes, rune: a code point, Broken or Stray]
          Bytes, MaxUnits, MaxBytes,
          Word, Wide, Narrow,   \* 8, 32 and 16 in the code
          vectorStringMin

ASSUME JSONStringsAssumption ==
    /\ {MaxUnits, MaxBytes} \subseteq Nat
    /\ {Word, Wide, Narrow} \subseteq Nat \ {0}

VARIABLES units, bytes, HasVector

vars == <<units, bytes, HasVector>>

Broken == -1    \* an escape the grammar does not have
Stray == -2     \* a byte that is no UTF-8

Quote == 34
Backslash == 92
RuneError == 65533
High == 55296..56319
Low == 56320..57343
Surrogate == 55296..57343

----------------------------------------------------------------------------
(* utf8.AppendRune, EncodeRune and DecodeRuneInString.                     *)

Cont(r, n) == 128 + ((r \div 64^n) % 64)

AppendRune(r) ==
    CASE r < 128 -> <<r>>
      [] r \in 128..2047 -> <<192 + r \div 64, Cont(r, 0)>>
      [] r \in Surrogate -> <<239, 191, 189>>
      [] r >= 2048 /\ r < 65536 /\ r \notin Surrogate ->
            <<224 + r \div 4096, Cont(r, 1), Cont(r, 0)>>
      [] OTHER -> <<240 + r \div 262144, Cont(r, 2), Cont(r, 1), Cont(r, 0)>>

\* The code point at s[i + 1] and its bytes; a byte that starts none is
\* RuneError of size 1.
DecodeRune(s, i) ==
    LET n == CASE s[i + 1] \in 194..223 -> 2
               [] s[i + 1] \in 224..239 -> 3
               [] s[i + 1] \in 240..244 -> 4
               [] OTHER -> 1
        c == SubSeq(s, i + 1, i + n)
        low(k) == c[k] - 128
        r == CASE n = 2 -> 64 * (c[1] - 192) + low(2)
               [] n = 3 -> 4096 * (c[1] - 224) + 64 * low(2) + low(3)
               [] OTHER -> 262144 * (c[1] - 240) + 4096 * low(2) + 64 * low(3) + low(4)
    IN  IF n > 1 /\ Len(c) = n /\ (\A k \in 2..n : low(k) \in 0..63)
              /\ AppendRune(r) = c
        THEN <<r, n>>
        ELSE <<RuneError, 1>>

----------------------------------------------------------------------------
(* Decoding.  Indices are the code's, from 0: b[i + 1] is its b[i].        *)

HexValue(c) ==
    CASE c \in 48..57 -> c - 48
      [] c \in 97..102 -> c - 87
      [] c \in 65..70 -> c - 55
      [] OTHER -> -1

\* hex4 of the four bytes from i, -1 when they are not digits.
hex4(b, i) ==
    IF \E k \in 1..4 : HexValue(b[i + k]) < 0 THEN -1
    ELSE 4096 * HexValue(b[i + 1]) + 256 * HexValue(b[i + 2])
         + 16 * HexValue(b[i + 3]) + HexValue(b[i + 4])

\* A single-character escape, -1 for none.
Single(c) ==
    CASE c \in {Quote, Backslash, 47} -> c
      [] c = 98 -> 8
      [] c = 102 -> 12
      [] c = 110 -> 10
      [] c = 114 -> 13
      [] c = 116 -> 9
      [] OTHER -> -1

\* Mutant: the half of a pair is decoded on its own.
LowAtNone(b, i) == FALSE

\* A low surrogate's escape lies at i.
LowAt(b, i) ==
    /\ i + 6 <= Len(b) /\ b[i + 1] = Backslash /\ b[i + 2] = 117
    /\ hex4(b, i + 2) \in Low

\* The escape whose backslash is at i: its code point and its bytes, -1 for
\* one that is cut or is none.
Escape(b, i) ==
    IF i + 1 >= Len(b) THEN <<-1, 0>>
    ELSE IF b[i + 2] # 117 THEN <<Single(b[i + 2]), 2>>
    ELSE IF i + 6 > Len(b) THEN <<-1, 0>>
    ELSE LET r == hex4(b, i + 2)
         IN  IF r \in High /\ LowAt(b, i + 6)
             THEN <<65536 + (r - 55296) * 1024 + hex4(b, i + 8) - 56320, 12>>
             ELSE <<IF r \in Surrogate THEN RuneError ELSE r, 6>>

\* unescapeInner: the bytes, and ok; s is what the part before i decodes to.
RECURSIVE UnescapeFrom(_, _, _)
UnescapeFrom(b, i, s) ==
    IF i >= Len(b) THEN [s |-> s, ok |-> TRUE]
    ELSE IF b[i + 1] # Backslash THEN UnescapeFrom(b, i + 1, Append(s, b[i + 1]))
    ELSE LET e == Escape(b, i)
         IN  IF e[1] = -1 THEN [s |-> <<>>, ok |-> FALSE]
             ELSE UnescapeFrom(b, i + e[2], s \o AppendRune(e[1]))

unescapeInner(b) == UnescapeFrom(b, 0, <<>>)

JSONUnquote(raw) ==
    IF Len(raw) < 2 \/ Head(raw) # Quote \/ Last(raw) # Quote
    THEN [s |-> <<>>, ok |-> FALSE]
    ELSE unescapeInner(SubSeq(raw, 2, Len(raw) - 1))

\* Mutant: a backslash at the end is taken for the character it starts.
CutEscapeU(b, i) == b[i + 1] = Backslash /\ i + 2 <= Len(b) /\ b[i + 2] = 117
                    /\ i + 6 > Len(b)

\* An escape at i that goes on after the end.
CutEscape(b, i) ==
    /\ b[i + 1] = Backslash
    /\ \/ i + 2 > Len(b)
       \/ b[i + 2] = 117 /\ i + 6 > Len(b)

\* What UnescapePrefix makes of an escape: no pairs, RuneError for none.
PrefixEscape(b, i) ==
    IF i + 2 > Len(b) THEN <<RuneError, 2>>
    ELSE IF b[i + 2] # 117
    THEN <<IF Single(b[i + 2]) = -1 THEN RuneError ELSE Single(b[i + 2]), 2>>
    ELSE <<IF hex4(b, i + 2) = -1 THEN RuneError ELSE hex4(b, i + 2), 6>>

\* The bytes, the raw offset of each, and the sentinel after them.
RECURSIVE PrefixFrom(_, _, _, _)
PrefixFrom(b, i, dec, rawOff) ==
    IF i >= Len(b) \/ CutEscape(b, i)
    THEN [dec |-> dec, rawOff |-> Append(rawOff, i)]
    ELSE IF b[i + 1] # Backslash
    THEN PrefixFrom(b, i + 1, Append(dec, b[i + 1]), Append(rawOff, i))
    ELSE LET e == PrefixEscape(b, i)
             s == AppendRune(e[1])
         IN  PrefixFrom(b, i + e[2], dec \o s, rawOff \o [k \in DOMAIN s |-> i])

UnescapePrefix(b) == PrefixFrom(b, 0, <<>>, <<>>)

----------------------------------------------------------------------------
(* Encoding.                                                               *)

hexDigit(n) == IF n < 10 THEN 48 + n ELSE 87 + n

safeSet(b) == b \in 32..127 /\ b \notin {Quote, Backslash, 60, 62, 38}

\* An ASCII byte that is not safe.
EscapeASCII(b) ==
    CASE b \in {Quote, Backslash} -> <<Backslash, b>>
      [] b = 10 -> <<Backslash, 110>>
      [] b = 13 -> <<Backslash, 114>>
      [] b = 9 -> <<Backslash, 116>>
      [] OTHER -> <<Backslash, 117, 48, 48, hexDigit(b \div 16), hexDigit(b % 16)>>

\* A code point from 80 up: its bytes, with two exceptions.
EncodeWide(s, i) ==
    LET d == DecodeRune(s, i)
    IN  IF d[1] \in {8232, 8233}
        THEN <<Backslash, 117, 50, 48, 50, hexDigit(d[1] % 16)>>
        ELSE IF d = <<RuneError, 1>> THEN AppendRune(RuneError)
        ELSE SubSeq(s, i + 1, i + d[2])

\* Mutant: a byte that is no UTF-8 is skipped with the one after it.
WideSizeTwo(s, i) == Max({2, DecodeRune(s, i)[2]})

WideSize(s, i) == DecodeRune(s, i)[2]

RECURSIVE QuoteFrom(_, _, _)
QuoteFrom(s, i, out) ==
    IF i >= Len(s) THEN Append(out, Quote)
    ELSE IF s[i + 1] >= 128
    THEN QuoteFrom(s, i + WideSize(s, i), out \o EncodeWide(s, i))
    ELSE QuoteFrom(s, i + 1, out \o IF safeSet(s[i + 1]) THEN <<s[i + 1]>>
                                    ELSE EscapeASCII(s[i + 1]))

AppendJSONString(s) == QuoteFrom(s, 0, <<Quote>>)

----------------------------------------------------------------------------
(* Searching.                                                              *)

Special == {Quote, Backslash} \cup 0..31
Special8 == Special \cup 128..255

\* The bytes of x - (sub in every byte), as one number: a byte borrows from
\* the next.
Minus(x, sub) ==
    FoldLeft(LAMBDA acc, c :
                LET d == c - sub - acc.borrow
                IN  [out |-> Append(acc.out, d % 256), borrow |-> IF d < 0 THEN 1 ELSE 0],
             [out |-> <<>>, borrow |-> 0], x).out

HighBits(x) == {k \in DOMAIN x : x[k] >= 128}
XorAll(x, c) == [k \in DOMAIN x |-> x[k] ^^ c]

\* The mask m of a word: the bytes it marks.
Mask(x) ==
    LET xq == XorAll(x, Quote)
        xb == XorAll(x, Backslash)
    IN  (HighBits(Minus(xq, 1)) \ HighBits(xq))
        \cup (HighBits(Minus(xb, 1)) \ HighBits(xb))
        \cup (HighBits(Minus(x, 32)) \ HighBits(x))

\* Mutant: the first byte marked is looked for from the other end.
FirstMarkedLast(m) == Max(m)

\* TrailingZeros64 of a mask: only its lowest byte is surely special.
FirstMarked(m) == Min(m)

Bytewise(p, i, stops) == Min({j \in i..Len(p) - 1 : p[j + 1] \in stops} \cup {Len(p)})

\* One vector width: the first special byte, or where less than a vector is
\* left.
Vectors(p, i, width) ==
    LET end == i + width * ((Len(p) - i) \div width)
    IN  Min({j \in i..end - 1 : p[j + 1] \in Special} \cup {end})

\* simd.ScanStringBody: the wide vector, then the narrow one.
ScanStringBody(p, i) ==
    LET j == Vectors(p, i, Wide)
    IN  IF j < Len(p) /\ p[j + 1] \in Special THEN j ELSE Vectors(p, j, Narrow)

\* The loop over words: it ends at a mark, at the vectors, or where less
\* than a word is left; the bytes after are looked at one by one.
RECURSIVE WordLoop(_, _, _)
WordLoop(p, start, i) ==
    IF i + Word > Len(p) THEN Bytewise(p, i, Special)
    ELSE LET m == Mask(SubSeq(p, i + 1, i + Word))
             next == i + Word
         IN  IF m # {} THEN i + FirstMarked(m) - 1
             ELSE IF HasVector /\ next - start >= vectorStringMin
             THEN Bytewise(p, ScanStringBody(p, next), Special)
             ELSE WordLoop(p, start, next)

scanStringBody(p, start) == WordLoop(p, start, start)

RECURSIVE scanStringBodyUTF8(_, _)
scanStringBodyUTF8(p, i) ==
    IF i + Word > Len(p) THEN Bytewise(p, i, Special8)
    ELSE LET x == SubSeq(p, i + 1, i + Word)
             m == Mask(x) \cup HighBits(x)
         IN  IF m # {} THEN i + FirstMarked(m) - 1 ELSE scanStringBodyUTF8(p, i + Word)

----------------------------------------------------------------------------
Init == units = <<>> /\ bytes = <<>> /\ HasVector \in BOOLEAN

AddUnit ==
    /\ bytes = <<>> /\ ~HasVector /\ Len(units) < MaxUnits
    /\ \E u \in Units : units' = Append(units, u)
    /\ UNCHANGED <<bytes, HasVector>>

AddByte ==
    /\ units = <<>> /\ Len(bytes) < MaxBytes
    /\ \E c \in Bytes : bytes' = Append(bytes, c)
    /\ UNCHANGED <<units, HasVector>>

Next == AddUnit \/ AddByte

Spec == Init /\ [][Next]_vars

----------------------------------------------------------------------------
(* Properties.                                                             *)

Raw == FlattenSeq([k \in DOMAIN units |-> units[k].raw])

\* Reference: two halves of a pair that meet are one code point, a half on
\* its own is RuneError; a stray byte stays what it is.
Paired(k) == /\ k \in 1..Len(units) - 1
             /\ units[k].rune \in High /\ units[k + 1].rune \in Low
MeaningOf(k) ==
    CASE Paired(k) -> AppendRune(65536 + (units[k].rune - 55296) * 1024
                                 + units[k + 1].rune - 56320)
      [] Paired(k - 1) -> <<>>
      [] units[k].rune = Stray -> units[k].raw
      [] OTHER -> AppendRune(units[k].rune)
Meaning == FlattenSeq([k \in DOMAIN units |-> MeaningOf(k)])

WellFormed == \A k \in DOMAIN units : units[k].rune # Broken

\* JSONUnquote decodes every string of the grammar to what it means, pairs
\* of surrogates joined and lone ones replaced, and refuses the escapes the
\* grammar does not have (jsonutil.go:81-156).
UnquoteIsMeaning ==
    LET d == JSONUnquote(<<Quote>> \o Raw \o <<Quote>>)
    IN  /\ d.ok = WellFormed
        /\ WellFormed => d.s = Meaning

\* However a string is cut, what UnescapePrefix decodes of the part and what
\* the raw bytes from the offset of any of its bytes on decode to are the
\* whole, nothing lost and nothing twice (jsonutil.go:176-239).  Without surrogates: it decodes the
\* halves of a pair one by one.
PrefixResumes ==
    WellFormed /\ (\A k \in DOMAIN units : units[k].rune \notin Surrogate) =>
        LET raw == Raw
            meaning == Meaning
        IN  \A n \in 0..Len(raw) :
            LET u == UnescapePrefix(SubSeq(raw, 1, n))
                off == u.rawOff
            IN  /\ Len(off) = Len(u.dec) + 1
                /\ \A k \in DOMAIN off :
                      k = 1 \/ off[k] # off[k - 1] =>
                          SubSeq(u.dec, 1, k - 1)
                          \o unescapeInner(SubSeq(raw, off[k] + 1, Len(raw))).s
                          = meaning

\* What AppendJSONString writes reads back as the string, bytes that are no
\* UTF-8 replaced; and none of it means anything to the scanner or to HTML
\* (jsonutil.go:14-63).
QuoteRoundTrip ==
    WellFormed =>
        LET out == AppendJSONString(Meaning)
            body == SubSeq(out, 2, Len(out) - 1)
            Repaired == FlattenSeq([k \in DOMAIN units |->
                           IF units[k].rune = Stray THEN AppendRune(RuneError)
                           ELSE MeaningOf(k)])
        IN  /\ JSONUnquote(out) = [s |-> Repaired, ok |-> TRUE]
            /\ \A k \in DOMAIN body :
                  /\ body[k] >= 32 /\ body[k] \notin {60, 62, 38}
                  /\ body[k] = Quote => k > 1 /\ body[k - 1] = Backslash

\* A word or a vector at a time finds the byte a loop over the bytes finds,
\* although a borrow marks bytes that are not special (jsonutil.go:435-498).
SearchIsBytewise ==
    \A i \in 0..Len(bytes) :
        /\ scanStringBody(bytes, i) = Bytewise(bytes, i, Special)
        /\ scanStringBodyUTF8(bytes, i) = Bytewise(bytes, i, Special8)
=============================================================================
