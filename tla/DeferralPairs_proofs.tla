------------------------ MODULE DeferralPairs_proofs ------------------------
(***************************************************************************)
(* Proofs about the pairs that are deferred (Deferral): what is held of a  *)
(* pair is what the document had, and each pair is in one place, for       *)
(* documents of any length and nesting, any number of pairs and replays    *)
(* nested to any depth.                                                    *)
(***************************************************************************)
EXTENDS Deferral_proofs

-----------------------------------------------------------------------------
(* What is held is what the document had.                                   *)

\* A value ends where it ends: one that begins like another is no longer.
LEMMA WholeFits ==
    ASSUME NEW s \in Seq(Tokens), NEW t \in Seq(Tokens), Whole(s), Whole(t),
           \A i \in 1..Len(s) : i <= Len(t) => s[i] = t[i]
    PROVE  Len(s) <= Len(t)
<1> DEFINE k == Len(s)
           l == Len(t)
<1>1. k \in Nat /\ l \in Nat
  BY LenProperties
<1>2. PICK d \in [0..k -> Nat], w \in [0..k -> BOOLEAN] :
          /\ d[0] = 0 /\ w[0] = TRUE
          /\ \A i \in 1..k : Reading(d[i - 1], w[i - 1], s[i], d[i], w[i])
  BY DEF Walk, Whole
<1>3. PICK e \in [0..l -> Nat], x \in [0..l -> BOOLEAN] :
          /\ e[0] = 0 /\ x[0] = TRUE /\ e[l] = 0 /\ x[l] = FALSE
          /\ \A i \in 1..l : Reading(e[i - 1], x[i - 1], t[i], e[i], x[i])
  BY DEF Walk, Whole
<1>4. \A i \in 1..k : i <= l => s[i] = t[i]
  OBVIOUS
<1> SUFFICES ASSUME l < k PROVE FALSE
  BY <1>1
<1> HIDE DEF k, l
<1> DEFINE G == {i \in Nat : i <= l => d[i] = e[i] /\ w[i] = x[i]}
<1>5. 0 \in G
  BY <1>2, <1>3
<1>6. ASSUME NEW i \in Nat, i \in G PROVE i + 1 \in G
  <2>1. SUFFICES ASSUME i + 1 <= l PROVE d[i + 1] = e[i + 1] /\ w[i + 1] = x[i + 1]
    BY <1>6
  <2>2. /\ i + 1 \in 1..k /\ i + 1 \in 1..l /\ i + 1 - 1 = i /\ i <= l
        /\ i \in 0..k /\ i + 1 \in 0..k /\ i + 1 \in 0..l
    BY <1>1, <1>6, <2>1
  <2>3. d[i] = e[i] /\ w[i] = x[i] /\ s[i + 1] = t[i + 1]
    BY <1>4, <1>6, <2>1, <2>2
  <2>4. /\ Reading(d[i], w[i], s[i + 1], d[i + 1], w[i + 1])
        /\ Reading(d[i], w[i], s[i + 1], e[i + 1], x[i + 1])
    BY <1>2, <1>3, <2>2, <2>3
  <2>5. d[i] \in Nat /\ d[i + 1] \in Nat /\ e[i + 1] \in Nat
    BY <2>2
  <2>6. w[i] \in BOOLEAN /\ w[i + 1] \in BOOLEAN /\ x[i + 1] \in BOOLEAN
    BY <2>2, Zenon
  <2>7. Ids \subseteq Nat \ {0}
    BY DeferralAssumption DEF Ids
  <2>8. d[i + 1] = e[i + 1]
    BY <2>4, <2>5, <2>7 DEF Reading, Simple, Open, Close
  <2>9. w[i + 1] <=> x[i + 1]
    BY <2>4, <2>7 DEF Reading, Simple, Open, Close
  <2>10. w[i + 1] = x[i + 1]
    BY <2>6, <2>9, Zenon
  <2> QED
    BY <2>8, <2>10
<1>7. l \in G
  <2> HIDE DEF G
  <2> QED
    BY <1>1, <1>5, <1>6, Induction
<1>8. d[l] = 0 /\ w[l] = FALSE
  BY <1>1, <1>3, <1>7
<1> DEFINE j == l + 1
<1>9. Reading(d[l], w[l], s[j], d[j], w[j])
  <2>1. j \in 1..k /\ j - 1 = l
    BY <1>1
  <2> HIDE DEF j
  <2>2. Reading(d[j - 1], w[j - 1], s[j], d[j], w[j])
    BY <1>2, <2>1
  <2> QED
    BY <2>1, <2>2
<1> QED
  BY <1>8, <1>9 DEF Reading

LEMMA WholeUnique ==
    ASSUME NEW s \in Seq(Tokens), NEW t \in Seq(Tokens), Whole(s), Whole(t),
           \A i \in 1..Len(s) : i <= Len(t) => s[i] = t[i]
    PROVE  s = t
<1>1. Len(s) \in Nat /\ Len(t) \in Nat
  BY LenProperties
<1>2. \A i \in 1..Len(t) : i <= Len(s) => t[i] = s[i]
  BY <1>1
<1>3. Len(s) <= Len(t) /\ Len(t) <= Len(s)
  BY <1>2, WholeFits
<1>4. Len(s) = Len(t) /\ \A i \in 1..Len(s) : s[i] = t[i]
  BY <1>1, <1>3
<1> QED
  BY <1>4, SeqEqual

\* s is what r has after its place i.
RunsOn(s, r, i) == i + Len(s) <= Len(r) /\ \A j \in 1..Len(s) : r[i + j] = s[j]

\* The pairs of dc whose value is not over, and those whose value is.
HoldersOf(dc) == {PathOf(dc)[i] : i \in 1..Len(PathOf(dc))}
Settled(dc, id) == id \in 1..dc.last /\ id \notin HoldersOf(dc)

\* The texts of the pairs of dc, as far as they go.
DocOK(dc) ==
    LET q == PathOf(dc)
    IN  /\ \A i \in 1..Len(q) : q[i] \in 1..dc.last
        /\ \A i, j \in 1..Len(q) : i < j => q[i] < q[j]
        /\ \A i \in 1..Len(q) :
                Walk(dc.text[q[i]], 0, TRUE, (Len(dc.open) + 1) - i, dc.value # 0)
        /\ dc.value # 0 => dc.text[dc.value] = <<>>
        /\ \A id \in Ids : id > dc.last => dc.text[id] = <<>>
        /\ \A id \in 1..dc.last : Settled(dc, id) => Whole(dc.text[id])

\* A key in the text id is followed by its value, or by all there is of it.
KeyIn(dc, id, i) ==
    LET t == dc.text[id][i]
    IN  /\ t \in 1..dc.last /\ id < t /\ RunsOn(dc.text[t], dc.text[id], i)
        /\ t \in HoldersOf(dc) => /\ id \in HoldersOf(dc)
                                  /\ Len(dc.text[id]) = i + Len(dc.text[t])

TextOK(dc) ==
    \A id \in 1..dc.last : \A i \in 1..Len(dc.text[id]) :
        dc.text[id][i] \in Ids => KeyIn(dc, id, i)

\* What the token tok adds to the texts.
LEMMA TextGrows ==
    ASSUME doc \in DocType, NEW tok \in Tokens, Grows(tok), Extended(tok) \in DocType
    PROVE  LET x == Extended(tok)
               q == PathOf(doc)
               r == PathOf(x)
           IN  /\ doc.last \in Nat /\ 1..doc.last \subseteq Ids
               /\ q \in Seq(Ids) /\ Len(q) \in Nat /\ Len(r) \in Nat /\ Len(doc.open) \in Nat
               /\ x.last = IF tok \in Ids THEN tok ELSE doc.last
               /\ tok \in Ids => tok = doc.last + 1
               /\ x.value = IF tok \in Ids THEN tok ELSE 0
               /\ \A id \in Ids : /\ doc.text[id] \in Seq(Tokens)
                                  /\ x.text[id] = IF id \in HoldersOf(doc)
                                                  THEN Append(doc.text[id], tok)
                                                  ELSE doc.text[id]
               /\ (doc.value # 0) = (tok \in {Simple, Open})
               /\ Len(q) = IF doc.value # 0 THEN Len(doc.open) + 1 ELSE Len(doc.open)
               /\ tok \in Ids => /\ Len(r) = Len(q) + 1 /\ r[Len(r)] = tok
                                 /\ Len(x.open) = Len(doc.open)
                                 /\ \A i \in 1..Len(q) : r[i] = q[i]
               /\ tok \notin Ids => Len(r) <= Len(q) /\ \A i \in 1..Len(r) : r[i] = q[i]
               /\ tok = Simple => Len(r) = Len(q) - 1 /\ Len(x.open) = Len(doc.open)
               /\ tok = Open => Len(r) = Len(q) /\ Len(x.open) = Len(doc.open) + 1
               /\ tok = Close => \/ Len(q) = 0 /\ Len(r) = 0
                                 \/ Len(r) = Len(q) - 1 /\ Len(x.open) = Len(doc.open) - 1
<1> DEFINE x == Extended(tok)
           q == PathOf(doc)
           r == PathOf(x)
           o == doc.open
<1>1. /\ doc.open \in Seq(Ids) /\ doc.value \in 0..MaxKeys
      /\ doc.last \in 0..MaxKeys /\ doc.text \in [Ids -> Seq(Tokens)]
      /\ Len(doc.open) \in Nat /\ MaxKeys \in Nat
  BY LenProperties, DeferralAssumption DEF DocType
<1>2. /\ x.open = (IF tok = Open THEN Append(o, doc.value)
                   ELSE IF tok = Close /\ o # <<>> THEN Front(o) ELSE o)
      /\ x.value = (IF tok \in Ids THEN tok ELSE 0)
      /\ x.last = (IF tok \in Ids THEN tok ELSE doc.last)
      /\ x.text = [id \in Ids |-> IF id \in Holders THEN Append(doc.text[id], tok)
                                                    ELSE doc.text[id]]
  BY DEF Extended
<1>3. /\ q \in Seq(Ids) /\ Len(q) \in Nat
      /\ Len(q) = IF doc.value # 0 THEN Len(o) + 1 ELSE Len(o)
      /\ \A k \in 1..Len(o) : q[k] = o[k]
      /\ doc.value # 0 => q[Len(o) + 1] = doc.value
  BY <1>1, PathOfOK, LenProperties
<1>4. /\ r \in Seq(Ids) /\ Len(r) \in Nat
      /\ Len(r) = IF x.value # 0 THEN Len(x.open) + 1 ELSE Len(x.open)
  BY PathOfOK, LenProperties
<1>5. HoldersOf(doc) = Holders
  <2>1. Holders = {o[k] : k \in 1..Len(o)} \union (IF doc.value # 0 THEN {doc.value} ELSE {})
    BY DEF Holders, Members
  <2>2. \A k \in 1..Len(q) : k \in 1..Len(o) \/ (doc.value # 0 /\ k = Len(o) + 1)
    BY <1>1, <1>3
  <2>3. \A k \in 1..Len(o) : k \in 1..Len(q)
    BY <1>1, <1>3
  <2>4. doc.value # 0 => Len(o) + 1 \in 1..Len(q)
    BY <1>1, <1>3
  <2>5. ASSUME NEW y \in HoldersOf(doc) PROVE y \in Holders
    BY <1>3, <2>1, <2>2 DEF HoldersOf
  <2>6. ASSUME NEW y \in Holders PROVE y \in HoldersOf(doc)
    BY <1>3, <2>1, <2>3, <2>4 DEF HoldersOf
  <2> QED
    BY <2>5, <2>6
<1>6. tok \in Ids => tok = doc.last + 1 /\ doc.value = 0
  BY TokensApart DEF Grows, Simple, Open, Close
<1>7. /\ tok = Open => doc.value # 0 /\ tok # Close /\ tok # Simple
      /\ tok = Simple => doc.value # 0 /\ tok # Close /\ tok # Open
      /\ tok = Close => doc.value = 0 /\ tok # Open /\ tok # Simple
  <2>1. doc.last + 1 \notin {Simple, Open, Close}
    BY <1>1 DEF Simple, Open, Close
  <2> QED
    BY <2>1, TokensApart DEF Grows
<1>8. (doc.value # 0) = (tok \in {Simple, Open})
  <2>1. (doc.value # 0) <=> tok \in {Simple, Open}
    BY <1>6, <1>7, TokensApart
  <2> QED
    BY <2>1
<1>9. o = <<>> <=> Len(o) = 0
  BY <1>1, EmptySeq
<1>10. /\ tok = Open => Len(x.open) = Len(o) + 1
       /\ tok = Close /\ o # <<>> => Len(x.open) = Len(o) - 1
       /\ tok = Close /\ o = <<>> => Len(x.open) = 0
       /\ tok # Open /\ tok # Close => Len(x.open) = Len(o)
  <2>1. tok = Open => Len(Append(o, doc.value)) = Len(o) + 1
    <3>1. tok = Open => doc.value \in Ids
      BY <1>1, <1>7 DEF Ids
    <3> QED
      BY <1>1, <3>1, AppendOK
  <2>2. o # <<>> => Len(Front(o)) = Len(o) - 1
    BY <1>1, FrontOK
  <2> QED
    BY <1>2, <1>7, <1>9, <2>1, <2>2
<1>11. /\ tok \notin Ids => Len(r) <= Len(q) /\ \A k \in 1..Len(r) : r[k] = q[k]
       /\ tok \in Ids =>
            /\ Len(q) = Len(o) /\ Len(r) = Len(o) + 1
            /\ r[Len(o) + 1] = tok
            /\ \A k \in 1..Len(o) : r[k] = q[k]
  BY PathExtended
<1>12. tok \in Ids => tok # 0 /\ tok # Open /\ tok # Close /\ tok # Simple
  BY TokensApart DEF Simple, Open, Close
<1>13. /\ tok = Simple => Len(r) = Len(q) - 1 /\ Len(x.open) = Len(o)
       /\ tok = Open => Len(r) = Len(q) /\ Len(x.open) = Len(o) + 1
       /\ tok = Close => \/ Len(q) = 0 /\ Len(r) = 0
                         \/ Len(r) = Len(q) - 1 /\ Len(x.open) = Len(o) - 1
       /\ tok \in Ids => Len(x.open) = Len(o)
  BY <1>1, <1>2, <1>3, <1>4, <1>7, <1>9, <1>10, <1>12
<1>14. \A id \in Ids : /\ doc.text[id] \in Seq(Tokens)
                       /\ x.text[id] = IF id \in HoldersOf(doc)
                                       THEN Append(doc.text[id], tok) ELSE doc.text[id]
  BY <1>1, <1>2, <1>5
<1>15. 1..doc.last \subseteq Ids /\ doc.last \in Nat
  BY <1>1 DEF Ids
<1> HIDE DEF x, q, r, o
<1> QED
  BY <1>1, <1>2, <1>3, <1>4, <1>6, <1>8, <1>11, <1>13, <1>14, <1>15 DEF x, q, r, o

\* Which values are over after a token.
LEMMA HoldersGrow ==
    ASSUME doc \in DocType, NEW tok \in Tokens, Grows(tok), Extended(tok) \in DocType,
           DocOK(doc)
    PROVE  LET x == Extended(tok)
           IN  /\ tok \notin Ids => HoldersOf(x) \subseteq HoldersOf(doc)
               /\ tok \in Ids => HoldersOf(x) = HoldersOf(doc) \union {tok}
               /\ HoldersOf(doc) \subseteq 1..doc.last
               /\ \A id, t \in HoldersOf(doc) : id < t /\ t \in HoldersOf(x) => id \in HoldersOf(x)
               /\ \A id : Settled(doc, id) => /\ Settled(x, id) /\ id \in Ids
                                              /\ x.text[id] = doc.text[id]
<1> DEFINE x == Extended(tok)
           q == PathOf(doc)
           r == PathOf(x)
<1>1. /\ doc.last \in Nat /\ 1..doc.last \subseteq Ids
      /\ q \in Seq(Ids) /\ Len(q) \in Nat /\ Len(r) \in Nat
      /\ x.last = IF tok \in Ids THEN tok ELSE doc.last
      /\ tok \in Ids => tok = doc.last + 1
      /\ \A id \in Ids : x.text[id] = IF id \in HoldersOf(doc)
                                      THEN Append(doc.text[id], tok) ELSE doc.text[id]
      /\ tok \in Ids => /\ Len(r) = Len(q) + 1 /\ r[Len(r)] = tok
                        /\ \A i \in 1..Len(q) : r[i] = q[i]
      /\ tok \notin Ids => Len(r) <= Len(q) /\ \A i \in 1..Len(r) : r[i] = q[i]
  BY TextGrows
<1>2. /\ \A i \in 1..Len(q) : q[i] \in 1..doc.last
      /\ \A i, j \in 1..Len(q) : i < j => q[i] < q[j]
  BY DEF DocOK
<1>3. HoldersOf(doc) = {q[i] : i \in 1..Len(q)} /\ HoldersOf(x) = {r[i] : i \in 1..Len(r)}
  BY DEF HoldersOf
<1> HIDE DEF x, q, r
<1>4. tok \notin Ids => HoldersOf(x) \subseteq HoldersOf(doc)
  <2> SUFFICES ASSUME tok \notin Ids, NEW i \in 1..Len(r) PROVE r[i] \in HoldersOf(doc)
    BY <1>3
  <2>1. i \in 1..Len(q) /\ r[i] = q[i]
    BY <1>1
  <2> QED
    BY <1>3, <2>1
<1>5. tok \in Ids => HoldersOf(x) = HoldersOf(doc) \union {tok}
  <2> SUFFICES ASSUME tok \in Ids PROVE HoldersOf(x) = HoldersOf(doc) \union {tok}
    OBVIOUS
  <2>1. ASSUME NEW i \in 1..Len(r) PROVE r[i] \in HoldersOf(doc) \union {tok}
    <3>1. i \in 1..Len(q) \/ i = Len(r)
      BY <1>1
    <3> QED
      BY <1>1, <1>3, <3>1
  <2>2. ASSUME NEW i \in 1..Len(q) PROVE q[i] \in HoldersOf(x)
    <3>1. i \in 1..Len(r) /\ r[i] = q[i]
      BY <1>1
    <3> QED
      BY <1>3, <3>1
  <2>3. tok \in HoldersOf(x)
    <3>1. Len(r) \in 1..Len(r) /\ r[Len(r)] = tok
      BY <1>1
    <3> QED
      BY <1>3, <3>1
  <2> QED
    BY <1>3, <2>1, <2>2, <2>3
<1>6. HoldersOf(doc) \subseteq 1..doc.last
  BY <1>2, <1>3
<1>7. ASSUME NEW id \in HoldersOf(doc), NEW t \in HoldersOf(doc), id < t, t \in HoldersOf(x)
      PROVE  id \in HoldersOf(x)
  <2>1. PICK i \in 1..Len(q), j \in 1..Len(q) : id = q[i] /\ t = q[j]
    BY <1>3
  <2>2. q[i] \in Nat /\ q[j] \in Nat
    BY <1>1, <1>2
  <2>3. i < j
    <3>1. ~(j < i) /\ i # j
      BY <1>2, <1>7, <2>1, <2>2
    <3> QED
      BY <1>1, <3>1
  <2>4. CASE tok \in Ids
    BY <1>5, <2>4
  <2>5. CASE tok \notin Ids
    <3>1. PICK k \in 1..Len(r) : t = r[k]
      BY <1>3, <1>7
    <3>2. k \in 1..Len(q) /\ q[k] = t
      BY <1>1, <2>5, <3>1
    <3>3. k = j
      <4>1. ~(k < j) /\ ~(j < k)
        BY <1>2, <2>1, <2>2, <3>2
      <4> QED
        BY <1>1, <3>2, <4>1
    <3>4. i \in 1..Len(r) /\ r[i] = q[i]
      BY <1>1, <2>3, <2>5, <3>1, <3>3
    <3> QED
      BY <1>3, <2>1, <3>4
  <2> QED
    BY <2>4, <2>5
<1>8. ASSUME NEW id, Settled(doc, id)
      PROVE  Settled(x, id) /\ id \in Ids /\ x.text[id] = doc.text[id]
  <2>1. id \in 1..doc.last /\ id \notin HoldersOf(doc)
    BY <1>8 DEF Settled
  <2>2. id \in Ids /\ x.text[id] = doc.text[id]
    BY <1>1, <2>1
  <2>3. id \notin HoldersOf(x) /\ id \in 1..x.last
    BY <1>1, <1>4, <1>5, <2>1
  <2> QED
    BY <2>2, <2>3 DEF Settled
<1> QED
  BY <1>4, <1>5, <1>6, <1>7, <1>8 DEF x

LEMMA DocNext ==
    ASSUME doc \in DocType, NEW tok \in Tokens, Grows(tok), Extended(tok) \in DocType,
           DocOK(doc)
    PROVE  DocOK(Extended(tok))
<1> DEFINE x == Extended(tok)
           q == PathOf(doc)
           r == PathOf(x)
           N == HoldersOf(doc)
<1>1. /\ doc.last \in Nat /\ 1..doc.last \subseteq Ids
      /\ q \in Seq(Ids) /\ Len(q) \in Nat /\ Len(r) \in Nat /\ Len(doc.open) \in Nat
      /\ x.last = IF tok \in Ids THEN tok ELSE doc.last
      /\ tok \in Ids => tok = doc.last + 1
      /\ x.value = IF tok \in Ids THEN tok ELSE 0
      /\ \A id \in Ids : /\ doc.text[id] \in Seq(Tokens)
                         /\ x.text[id] = IF id \in N
                                         THEN Append(doc.text[id], tok) ELSE doc.text[id]
      /\ (doc.value # 0) = (tok \in {Simple, Open})
      /\ Len(q) = IF doc.value # 0 THEN Len(doc.open) + 1 ELSE Len(doc.open)
      /\ tok \in Ids => /\ Len(r) = Len(q) + 1 /\ r[Len(r)] = tok
                        /\ Len(x.open) = Len(doc.open)
                        /\ \A i \in 1..Len(q) : r[i] = q[i]
      /\ tok \notin Ids => Len(r) <= Len(q) /\ \A i \in 1..Len(r) : r[i] = q[i]
      /\ tok = Simple => Len(r) = Len(q) - 1 /\ Len(x.open) = Len(doc.open)
      /\ tok = Open => Len(r) = Len(q) /\ Len(x.open) = Len(doc.open) + 1
      /\ tok = Close => \/ Len(q) = 0 /\ Len(r) = 0
                        \/ Len(r) = Len(q) - 1 /\ Len(x.open) = Len(doc.open) - 1
  BY TextGrows
<1>2. /\ \A i \in 1..Len(q) : q[i] \in 1..doc.last
      /\ \A i, j \in 1..Len(q) : i < j => q[i] < q[j]
      /\ \A i \in 1..Len(q) :
              Walk(doc.text[q[i]], 0, TRUE, (Len(doc.open) + 1) - i, doc.value # 0)
      /\ \A id \in Ids : id > doc.last => doc.text[id] = <<>>
      /\ \A id \in 1..doc.last : Settled(doc, id) => Whole(doc.text[id])
  BY DEF DocOK
<1>3. \A i \in 1..Len(q) : q[i] \in N
  BY DEF HoldersOf
<1>4. /\ tok \in Ids => HoldersOf(x) = N \union {tok}
      /\ N \subseteq 1..doc.last
  BY HoldersGrow
<1>5. HoldersOf(x) = {r[i] : i \in 1..Len(r)} /\ N = {q[i] : i \in 1..Len(q)}
  BY DEF HoldersOf
<1>6. /\ tok \in Ids => tok # 0 /\ tok \notin {Simple, Open, Close}
      /\ tok \notin Ids => tok \in {Simple, Open, Close}
      /\ Ids \subseteq Nat
  BY TokensApart DEF Simple, Open, Close
<1>t. /\ tok = Open => Turn(tok) = 1
      /\ tok = Close => Turn(tok) = -1
      /\ tok \notin {Open, Close} => Turn(tok) = 0
      /\ tok = Close => tok # Open /\ tok # Simple
      /\ tok = Open => tok # Close /\ tok # Simple
  BY TokensApart DEF Turn
<1>v. /\ Len(q) = IF tok \in {Simple, Open} THEN Len(doc.open) + 1 ELSE Len(doc.open)
      /\ Len(q) \in Nat /\ Len(r) \in Nat /\ Len(doc.open) \in Nat
  <2>1. doc.value # 0 <=> tok \in {Simple, Open}
    BY <1>1
  <2> QED
    BY <1>1, <2>1
<1>c. tok = Close => \/ Len(q) = 0 /\ Len(r) = 0
                    \/ Len(x.open) = Len(doc.open) - 1
  BY <1>1
<1>l. doc.last <= x.last /\ x.last \in Nat
  BY <1>1, <1>6
<1> HIDE DEF x, q, r, N
<1>7. ASSUME NEW i \in 1..Len(q)
      PROVE  Walk(x.text[q[i]], 0, TRUE, ((Len(doc.open) + 1) - i) + Turn(tok), tok \in Ids)
  <2> DEFINE n == (Len(doc.open) + 1) - i
             v == doc.value # 0
             u == tok \in Ids
  <2>1. q[i] \in Ids /\ x.text[q[i]] = Append(doc.text[q[i]], tok)
        /\ doc.text[q[i]] \in Seq(Tokens)
    BY <1>1, <1>2, <1>3
  <2>2. Walk(doc.text[q[i]], 0, TRUE, n, v)
    BY <1>2
  <2>3. n \in Nat /\ (n = 0 => v) /\ v = (tok \in {Simple, Open}) /\ v \in BOOLEAN
        /\ u \in BOOLEAN
    BY <1>1
  <2> HIDE DEF n, v
  <2>4. Reading(n, v, tok, n + Turn(tok), tok \in Ids) /\ n + Turn(tok) \in Nat
    <3>1. CASE n = 0
      <4>1. tok \in {Simple, Open} /\ tok \notin Ids /\ v
        BY <1>6, <2>3, <3>1
      <4> QED
        BY <2>3, <3>1, <4>1, TokensApart DEF Reading, Turn
    <3>2. CASE n # 0
      <4>1. Reading(n, v, tok, n + Turn(tok), tok \in Ids)
        BY <2>3, <3>2, ReadingIs
      <4>2. n + Turn(tok) \in Nat
        BY <2>3, <3>2 DEF Turn
      <4> QED
        BY <4>1, <4>2
    <3> QED
      BY <3>1, <3>2
  <2> DEFINE m == n + Turn(tok)
  <2>5. Reading(n, v, tok, m, u) /\ m \in Nat
    BY <2>4
  <2> HIDE DEF m, u
  <2>6. Walk(Append(doc.text[q[i]], tok), 0, TRUE, m, u)
    BY <2>1, <2>2, <2>3, <2>5, WalkOn
  <2> QED
    BY <2>1, <2>6 DEF m, n, u
<1>8. ASSUME NEW i \in 1..Len(r), tok \in Ids, i = Len(r)
      PROVE  r[i] = tok /\ tok \notin N /\ x.text[tok] = <<>>
             /\ (Len(x.open) + 1) - i = 0
  <2>1. tok \notin N
    BY <1>1, <1>4, <1>8
  <2>2. doc.value = 0
    BY <1>1, <1>6, <1>8
  <2>3. x.text[tok] = <<>>
    BY <1>1, <1>2, <1>8, <2>1
  <2> QED
    BY <1>1, <1>8, <2>1, <2>2, <2>3
<1>9. ASSUME NEW i \in 1..Len(r), ~(tok \in Ids /\ i = Len(r))
      PROVE  i \in 1..Len(q) /\ r[i] = q[i]
             /\ ((Len(doc.open) + 1) - i) + Turn(tok) = (Len(x.open) + 1) - i
  <2>1. i \in 1..Len(q) /\ r[i] = q[i]
    BY <1>1, <1>9
  <2>2. Len(x.open) = Len(doc.open) + Turn(tok) /\ Turn(tok) \in Int
    <3>1. CASE tok \in Ids
      BY <1>1, <1>6, <1>t, <3>1
    <3>2. CASE tok = Simple
      BY <1>1, <1>6, <1>t, <3>2
    <3>3. CASE tok = Open
      BY <1>1, <1>t, <3>3
    <3>4. CASE tok = Close
      <4>1. Len(r) # 0
        BY <1>1
      <4> QED
        BY <1>c, <1>t, <1>v, <3>4, <4>1
    <3> QED
      BY <1>6, <3>1, <3>2, <3>3, <3>4
  <2> QED
    BY <1>1, <2>1, <2>2
<1>10. \A i \in 1..Len(r) : r[i] \in 1..x.last
  <2> SUFFICES ASSUME NEW i \in 1..Len(r) PROVE r[i] \in 1..x.last
    OBVIOUS
  <2>1. CASE tok \in Ids /\ i = Len(r)
    BY <1>1, <2>1
  <2>2. CASE ~(tok \in Ids /\ i = Len(r))
    <3>1. r[i] \in 1..doc.last
      BY <1>2, <1>9, <2>2
    <3> QED
      BY <1>1, <1>l, <3>1
  <2> QED
    BY <2>1, <2>2
<1>11. \A i, j \in 1..Len(r) : i < j => r[i] < r[j]
  <2> SUFFICES ASSUME NEW i \in 1..Len(r), NEW j \in 1..Len(r), i < j PROVE r[i] < r[j]
    OBVIOUS
  <2>1. i \in 1..Len(q) /\ r[i] = q[i] /\ q[i] \in 1..doc.last
    BY <1>1, <1>2, <1>9
  <2>2. CASE tok \in Ids /\ j = Len(r)
    BY <1>1, <2>1, <2>2
  <2>3. CASE ~(tok \in Ids /\ j = Len(r))
    BY <1>2, <1>9, <2>1, <2>3
  <2> QED
    BY <2>2, <2>3
<1>12. (x.value # 0) = (tok \in Ids)
  <2>1. x.value # 0 <=> tok \in Ids
    BY <1>1, <1>6
  <2> QED
    BY <2>1
<1>13. \A i \in 1..Len(r) : Walk(x.text[r[i]], 0, TRUE, (Len(x.open) + 1) - i, x.value # 0)
  <2> SUFFICES ASSUME NEW i \in 1..Len(r)
               PROVE  Walk(x.text[r[i]], 0, TRUE, (Len(x.open) + 1) - i, tok \in Ids)
    BY <1>12
  <2>1. CASE tok \in Ids /\ i = Len(r)
    <3> DEFINE yes == TRUE
    <3>1. Walk(<<>>, 0, yes, 0, yes)
      <4>1. yes \in BOOLEAN /\ 0 \in Nat
        OBVIOUS
      <4> HIDE DEF yes
      <4> QED
        BY <4>1, WalkNone
    <3>2. (tok \in Ids) = TRUE
      BY <2>1
    <3> QED
      BY <1>8, <2>1, <3>1, <3>2
  <2>2. CASE ~(tok \in Ids /\ i = Len(r))
    BY <1>7, <1>9, <2>2
  <2> QED
    BY <2>1, <2>2
<1>14. x.value # 0 => x.text[x.value] = <<>>
  <2> SUFFICES ASSUME tok \in Ids PROVE x.text[tok] = <<>>
    BY <1>1, <1>12
  <2>1. Len(r) \in 1..Len(r)
    BY <1>1
  <2> QED
    BY <1>8, <2>1
<1>15. \A id \in Ids : id > x.last => x.text[id] = <<>>
  <2> SUFFICES ASSUME NEW id \in Ids, id > x.last PROVE x.text[id] = <<>>
    OBVIOUS
  <2>1. id > doc.last
    BY <1>1, <1>6
  <2>2. id \notin N
    BY <1>1, <1>4, <1>6, <2>1
  <2> QED
    BY <1>1, <1>2, <2>1, <2>2
<1>16. \A id \in 1..x.last : Settled(x, id) => Whole(x.text[id])
  <2> SUFFICES ASSUME NEW id \in 1..x.last, id \notin HoldersOf(x) PROVE Whole(x.text[id])
    BY DEF Settled
  <2>1. id \in 1..doc.last
    BY <1>1, <1>4
  <2>2. CASE id \notin N
    <3>1. Whole(doc.text[id])
      BY <1>2, <2>1, <2>2 DEF Settled, N
    <3> QED
      BY <1>1, <2>1, <2>2, <3>1
  <2>3. CASE id \in N
    <3>1. PICK i \in 1..Len(q) : id = q[i]
      BY <1>5, <2>3
    <3>2. tok \notin Ids
      BY <1>4, <2>3
    <3>3. ~(i <= Len(r))
      BY <1>1, <1>5, <3>1, <3>2
    <3>4. tok \in {Simple, Close} /\ i = Len(q)
      BY <1>1, <1>6, <3>2, <3>3
    <3>5. ((Len(doc.open) + 1) - i) + Turn(tok) = 0
      <4>1. CASE tok = Simple
        BY <1>t, <1>v, <3>4, <4>1
      <4>2. CASE tok = Close
        BY <1>1, <1>t, <3>4, <4>2
      <4> QED
        BY <3>4, <4>1, <4>2
    <3>6. (tok \in Ids) = FALSE
      BY <3>2
    <3>7. Walk(x.text[q[i]], 0, TRUE, ((Len(doc.open) + 1) - i) + Turn(tok), tok \in Ids)
      BY <1>7
    <3> QED
      BY <3>1, <3>5, <3>6, <3>7 DEF Whole
  <2> QED
    BY <2>2, <2>3
<1>17. DocOK(x)
  BY <1>10, <1>11, <1>13, <1>14, <1>15, <1>16 DEF DocOK, r
<1> QED
  BY <1>17 DEF x

\* What follows goes on following when a text grows.
LEMMA FollowsOn ==
    ASSUME NEW s \in Seq(Tokens), NEW r \in Seq(Tokens), NEW tok \in Tokens,
           NEW i \in Nat, RunsOn(s, r, i)
    PROVE  /\ RunsOn(s, Append(r, tok), i)
           /\ Len(r) = i + Len(s) => RunsOn(Append(s, tok), Append(r, tok), i)
<1> DEFINE a == Append(s, tok)
           b == Append(r, tok)
<1>1. /\ Len(s) \in Nat /\ Len(r) \in Nat
      /\ Len(a) = Len(s) + 1 /\ Len(b) = Len(r) + 1
      /\ a[Len(s) + 1] = tok /\ b[Len(r) + 1] = tok
      /\ \A j \in 1..Len(s) : a[j] = s[j]
      /\ \A j \in 1..Len(r) : b[j] = r[j]
  BY AppendOK
<1> HIDE DEF a, b
<1>2. i + Len(s) <= Len(r) /\ \A j \in 1..Len(s) : r[i + j] = s[j]
  BY DEF RunsOn
<1>3. RunsOn(s, b, i)
  <2>1. ASSUME NEW j \in 1..Len(s) PROVE b[i + j] = s[j]
    <3>1. i + j \in 1..Len(r)
      BY <1>1, <1>2
    <3> QED
      BY <1>1, <1>2, <3>1
  <2>2. i + Len(s) <= Len(b)
    BY <1>1, <1>2
  <2> QED
    BY <2>1, <2>2 DEF RunsOn
<1>4. ASSUME Len(r) = i + Len(s) PROVE RunsOn(a, b, i)
  <2>1. ASSUME NEW j \in 1..Len(a) PROVE b[i + j] = a[j]
    <3>1. CASE j = Len(s) + 1
      <4>1. i + j = Len(r) + 1
        BY <1>1, <1>4, <3>1
      <4> QED
        BY <1>1, <3>1, <4>1
    <3>2. CASE j # Len(s) + 1
      <4>1. j \in 1..Len(s) /\ i + j \in 1..Len(r)
        BY <1>1, <1>4, <3>2
      <4> QED
        BY <1>1, <1>2, <4>1
    <3> QED
      BY <3>1, <3>2
  <2>2. i + Len(a) <= Len(b)
    BY <1>1, <1>4
  <2> QED
    BY <2>1, <2>2 DEF RunsOn
<1> QED
  BY <1>3, <1>4 DEF a, b

LEMMA TextNext ==
    ASSUME doc \in DocType, NEW tok \in Tokens, Grows(tok), Extended(tok) \in DocType,
           DocOK(doc), TextOK(doc)
    PROVE  TextOK(Extended(tok))
<1> DEFINE x == Extended(tok)
           N == HoldersOf(doc)
           M == HoldersOf(x)
<1>1. /\ doc.last \in Nat /\ 1..doc.last \subseteq Ids
      /\ x.last = IF tok \in Ids THEN tok ELSE doc.last
      /\ tok \in Ids => tok = doc.last + 1
      /\ x.value = IF tok \in Ids THEN tok ELSE 0
      /\ \A id \in Ids : /\ doc.text[id] \in Seq(Tokens)
                         /\ x.text[id] = IF id \in N
                                         THEN Append(doc.text[id], tok) ELSE doc.text[id]
  BY TextGrows
<1>2. /\ tok \notin Ids => M \subseteq N
      /\ tok \in Ids => M = N \union {tok}
      /\ N \subseteq 1..doc.last
      /\ \A id, t \in N : id < t /\ t \in M => id \in M
  BY HoldersGrow
<1>3. tok \in Ids => x.text[tok] = <<>> /\ tok # 0
  <2>1. DocOK(x)
    BY DocNext
  <2>2. tok \in Ids => tok # 0
    BY TokensApart
  <2> QED
    BY <1>1, <2>1, <2>2 DEF DocOK
<1>4. \A id \in 1..doc.last : \A i \in 1..Len(doc.text[id]) :
          doc.text[id][i] \in Ids => KeyIn(doc, id, i)
  BY DEF TextOK
<1> SUFFICES ASSUME NEW id \in 1..x.last, NEW i \in 1..Len(x.text[id]),
                    x.text[id][i] \in Ids
             PROVE  KeyIn(x, id, i)
  BY DEF TextOK
<1> HIDE DEF x, N, M
<1>5. id \in 1..doc.last
  <2>1. id # tok \/ tok \notin Ids
    <3>1. Len(<<>>) = 0
      OBVIOUS
    <3> QED
      BY <1>3, <3>1
  <2> QED
    BY <1>1, <2>1
<1> DEFINE s == doc.text[id]
           z == x.text[id]
           t == z[i]
<1>6. /\ s \in Seq(Tokens) /\ Len(s) \in Nat
      /\ z = IF id \in N THEN Append(s, tok) ELSE s
      /\ Len(Append(s, tok)) = Len(s) + 1 /\ Append(s, tok)[Len(s) + 1] = tok
      /\ \A j \in 1..Len(s) : Append(s, tok)[j] = s[j]
      /\ t \in Ids /\ i \in 1..Len(z) /\ id \in Ids
  BY <1>1, <1>5, AppendOK
<1>7. KeyIn(x, id, i) <=>
          /\ t \in 1..x.last /\ id < t /\ RunsOn(x.text[t], z, i)
          /\ t \in M => id \in M /\ Len(z) = i + Len(x.text[t])
  BY DEF KeyIn, M
<1>8. CASE i <= Len(s)
  <2> HIDE DEF z
  <2>1. i \in 1..Len(s) /\ t = s[i]
    BY <1>6, <1>8
  <2>2. KeyIn(doc, id, i)
    BY <1>4, <1>5, <1>6, <2>1 DEF s
  <2> HIDE DEF t, s
  <2>3. /\ t \in 1..doc.last /\ id < t /\ RunsOn(doc.text[t], s, i)
        /\ t \in N => id \in N /\ Len(s) = i + Len(doc.text[t])
    BY <2>1, <2>2 DEF KeyIn, N, s
  <2> DEFINE u == doc.text[t]
  <2>4. u \in Seq(Tokens) /\ x.text[t] = (IF t \in N THEN Append(u, tok) ELSE u)
        /\ Len(u) \in Nat /\ Len(Append(u, tok)) = Len(u) + 1
    BY <1>1, <1>6, AppendOK
  <2>5. /\ RunsOn(u, Append(s, tok), i)
        /\ Len(s) = i + Len(u) => RunsOn(Append(u, tok), Append(s, tok), i)
    <3>1. RunsOn(u, s, i) /\ i \in Nat
      BY <2>1, <2>3
    <3> HIDE DEF u
    <3> QED
      BY <1>6, <2>4, <3>1, FollowsOn
  <2> HIDE DEF u
  <2>6. t \in 1..x.last
    BY <1>1, <2>3
  <2>7. CASE t \in N
    <3>1. RunsOn(x.text[t], z, i) /\ id \in N
      BY <1>6, <2>3, <2>4, <2>5, <2>7 DEF u
    <3>2. Len(z) = i + Len(x.text[t])
      <4>1. Len(z) = Len(s) + 1 /\ Len(x.text[t]) = Len(u) + 1 /\ Len(s) = i + Len(u)
        BY <1>6, <2>3, <2>4, <2>7, <3>1 DEF u
      <4>2. i \in Nat
        BY <2>1
      <4> QED
        BY <2>4, <4>1, <4>2
    <3>3. t \in M => id \in M
      BY <1>2, <2>3, <2>7, <3>1
    <3> QED
      BY <1>7, <2>3, <2>6, <3>1, <3>2, <3>3 DEF z
  <2>8. CASE t \notin N
    <3>1. RunsOn(x.text[t], z, i)
      BY <1>6, <2>3, <2>4, <2>5, <2>8 DEF u
    <3>2. t \notin M
      BY <1>1, <1>2, <2>3, <2>8
    <3> QED
      BY <1>7, <2>3, <2>6, <3>1, <3>2 DEF z
  <2> QED
    BY <2>7, <2>8
<1>9. CASE ~(i <= Len(s))
  <2> HIDE DEF z, s
  <2>1. id \in N /\ i = Len(s) + 1 /\ t = tok /\ Len(z) = i
    BY <1>6, <1>9
  <2>2. tok \in Ids /\ x.text[t] = <<>> /\ id \in M /\ t \in 1..x.last /\ id < t
    BY <1>1, <1>2, <1>3, <1>5, <1>6, <2>1
  <2>3. Len(<<>>) = 0 /\ 1..0 = {}
    OBVIOUS
  <2> HIDE DEF t
  <2>4. RunsOn(x.text[t], z, i)
    BY <1>6, <2>1, <2>2, <2>3 DEF RunsOn
  <2>5. Len(z) = i + Len(x.text[t])
    BY <2>1, <2>2, <2>3, <1>6
  <2> QED
    BY <1>7, <2>2, <2>4, <2>5 DEF t, z
<1> QED
  BY <1>8, <1>9

\* A pair that is held is one of the document dc, its raw key and its value.
Good(kv, dc) ==
    kv.keyRaw = kv.key /\ Settled(dc, kv.key) /\ kv.raw = dc.text[kv.key]
Goods(kvs, dc) == \A j \in 1..Len(kvs) : Good(kvs[j], dc)

\* Every key in r is followed by its value.
Consistent(r, dc) ==
    \A i \in 1..Len(r) :
        r[i] \in Ids => Settled(dc, r[i]) /\ RunsOn(dc.text[r[i]], r, i)

Faith(e, dc) ==
    /\ \A k \in 1..Len(e.frames) : Goods(e.frames[k].deferred, dc)
    /\ \A k \in 1..Len(e.calls) :
            Goods(e.calls[k].todo, dc) /\ Consistent(e.calls[k].raw, dc)

\* r holds nothing that e does not hold, in the same places; a source is where
\* it was, or one token further.
Within(e, r) ==
    /\ \A k \in 1..Len(r.frames) :
            \/ r.frames[k].deferred = <<>>
            \/ k \in 1..Len(e.frames) /\ r.frames[k].deferred = e.frames[k].deferred
    /\ \A k \in 1..Len(r.calls) :
            /\ \/ r.calls[k].todo = <<>>
               \/ k \in 1..Len(e.calls) /\ r.calls[k].todo = e.calls[k].todo
            /\ \/ r.calls[k].raw = <<>>
               \/ k \in 1..Len(e.calls) /\ r.calls[k].raw = e.calls[k].raw
               \/ /\ k \in 1..Len(e.calls) /\ e.calls[k].raw # <<>>
                  /\ r.calls[k].raw = Tail(e.calls[k].raw)

\* r holds what e holds.
Keeps(e, r) ==
    /\ Within(e, r) /\ r.dropped = e.dropped
    /\ \A k \in 1..Len(e.frames) :
            \/ e.frames[k].deferred = <<>>
            \/ k \in 1..Len(r.frames) /\ r.frames[k].deferred = e.frames[k].deferred
    /\ \A k \in 1..Len(e.calls) :
            \/ e.calls[k].todo = <<>>
            \/ k \in 1..Len(r.calls) /\ r.calls[k].todo = e.calls[k].todo

\* The calls hold and read what they did.
SameCalls(e, r) ==
    /\ Len(r.calls) = Len(e.calls)
    /\ \A k \in 1..Len(e.calls) : r.calls[k].todo = e.calls[k].todo
                                  /\ r.calls[k].raw = e.calls[k].raw

\* The pairs of the frame on top are dropped.
Drops(e, r) ==
    LET n == Len(e.frames)
    IN  /\ Len(r.frames) = n /\ SameCalls(e, r)
        /\ \A k \in 1..n - 1 : r.frames[k].deferred = e.frames[k].deferred
        /\ r.frames[n].deferred = <<>>
        /\ r.dropped = e.dropped \union {kv.key : kv \in Members(e.frames[n].deferred)}

\* What the frame on top held waits in a replay.
Passes(e, r) ==
    LET n == Len(e.frames)
        m == Len(e.calls)
    IN  /\ Len(r.frames) = n /\ Len(r.calls) = m + 1
        /\ r.frames[n].deferred = <<>>
        /\ \A k \in 1..n - 1 : r.frames[k].deferred = e.frames[k].deferred
        /\ \A k \in 1..m : r.calls[k].todo = e.calls[k].todo
                           /\ r.calls[k].raw = e.calls[k].raw
        /\ r.calls[m + 1].todo = e.frames[n].deferred /\ r.calls[m + 1].raw = <<>>
        /\ r.dropped = e.dropped

\* The frame on top holds one pair more.
Puts(e, r, kv) ==
    LET n == Len(e.frames)
    IN  /\ Len(r.frames) = n /\ SameCalls(e, r) /\ r.dropped = e.dropped
        /\ \A k \in 1..n - 1 : r.frames[k].deferred = e.frames[k].deferred
        /\ r.frames[n].deferred = Append(e.frames[n].deferred, kv)

LEMMA EffectParts ==
    ASSUME NEW e, Always(e)
    PROVE  /\ e.frames \in Seq(FrameType) /\ e.calls \in Seq(CallType)
           /\ Len(e.frames) \in Nat /\ Len(e.calls) \in Nat
           /\ \A k \in 1..Len(e.frames) : e.frames[k].deferred \in Seq(Pairs)
           /\ \A k \in 1..Len(e.calls) : /\ e.calls[k].todo \in Seq(Pairs)
                                         /\ e.calls[k].raw \in Seq(Tokens)
<1>1. e.frames \in Seq(FrameType) /\ e.calls \in Seq(CallType)
  BY DEF Always, Effect
<1>2. Len(e.frames) \in Nat /\ Len(e.calls) \in Nat
  BY <1>1, LenProperties
<1>3. ASSUME NEW k \in 1..Len(e.frames) PROVE e.frames[k].deferred \in Seq(Pairs)
  <2>1. e.frames[k] \in FrameType
    BY <1>1
  <2> QED
    BY <2>1 DEF FrameType
<1>4. ASSUME NEW k \in 1..Len(e.calls)
      PROVE  e.calls[k].todo \in Seq(Pairs) /\ e.calls[k].raw \in Seq(Tokens)
  <2>1. e.calls[k] \in CallType
    BY <1>1
  <2> QED
    BY <2>1 DEF CallType
<1> QED
  BY <1>1, <1>2, <1>3, <1>4

LEMMA NothingGood ==
    ASSUME NEW dc
    PROVE  Goods(<<>>, dc) /\ Consistent(<<>>, dc)
BY DEF Goods, Consistent

LEMMA ConsistentRest ==
    ASSUME NEW s \in Seq(Tokens), s # <<>>, NEW dc \in DocType, Consistent(s, dc)
    PROVE  /\ Consistent(Tail(s), dc)
           /\ Head(s) \in Ids => /\ Settled(dc, Head(s))
                                 /\ RunsOn(dc.text[Head(s)], Tail(s), 0)
<1> DEFINE r == Tail(s)
<1>1. /\ Len(s) \in Nat \ {0} /\ Len(r) = Len(s) - 1 /\ Head(s) = s[1]
      /\ \A i \in 1..Len(r) : r[i] = s[i + 1]
  BY HeadTailProperties, LenProperties, EmptySeq
<1>2. \A id \in Ids : Len(dc.text[id]) \in Nat
  <2>1. dc.text \in [Ids -> Seq(Tokens)]
    BY DEF DocType
  <2> QED
    BY <2>1, LenProperties
<1> HIDE DEF r
<1>3. ASSUME NEW t, NEW i \in 0..Len(r), RunsOn(t, s, i + 1), Len(t) \in Nat
      PROVE  RunsOn(t, r, i)
  <2>1. (i + 1) + Len(t) <= Len(s) /\ \A j \in 1..Len(t) : s[(i + 1) + j] = t[j]
    BY <1>3 DEF RunsOn
  <2>2. ASSUME NEW j \in 1..Len(t) PROVE r[i + j] = t[j]
    <3>1. i + j \in 1..Len(r) /\ (i + j) + 1 = (i + 1) + j
      BY <1>1, <1>3, <2>1
    <3> QED
      BY <1>1, <2>1, <3>1
  <2>3. i + Len(t) <= Len(r)
    BY <1>1, <1>3, <2>1
  <2> QED
    BY <2>2, <2>3 DEF RunsOn
<1>4. ASSUME NEW i \in 1..Len(s), s[i] \in Ids
      PROVE  Settled(dc, s[i]) /\ RunsOn(dc.text[s[i]], s, i)
  BY <1>4 DEF Consistent
<1>5. ASSUME NEW i \in 1..Len(r), r[i] \in Ids
      PROVE  Settled(dc, r[i]) /\ RunsOn(dc.text[r[i]], r, i)
  <2>1. i + 1 \in 1..Len(s) /\ s[i + 1] = r[i] /\ i \in 0..Len(r)
    BY <1>1
  <2>2. Settled(dc, r[i]) /\ RunsOn(dc.text[r[i]], s, i + 1)
    BY <1>4, <1>5, <2>1
  <2> QED
    BY <1>2, <1>3, <1>5, <2>1, <2>2
<1>6. ASSUME Head(s) \in Ids
      PROVE  Settled(dc, Head(s)) /\ RunsOn(dc.text[Head(s)], r, 0)
  <2>1. 1 \in 1..Len(s) /\ 0 \in 0..Len(r) /\ 0 + 1 = 1
    BY <1>1
  <2>2. Settled(dc, Head(s)) /\ RunsOn(dc.text[Head(s)], s, 0 + 1)
    BY <1>1, <1>4, <1>6, <2>1
  <2> QED
    BY <1>2, <1>3, <1>6, <2>1, <2>2
<1> QED
  BY <1>5, <1>6 DEF Consistent, r

LEMMA FaithWithin ==
    ASSUME NEW e, NEW r, NEW dc \in DocType, Always(e), Faith(e, dc), Within(e, r)
    PROVE  Faith(r, dc)
<1>1. \A k \in 1..Len(e.calls) : e.calls[k].raw \in Seq(Tokens)
  BY EffectParts
<1>2. ASSUME NEW k \in 1..Len(r.frames) PROVE Goods(r.frames[k].deferred, dc)
  BY NothingGood DEF Faith, Within
<1>3. ASSUME NEW k \in 1..Len(r.calls) PROVE Goods(r.calls[k].todo, dc)
  BY NothingGood DEF Faith, Within
<1>4. ASSUME NEW k \in 1..Len(r.calls) PROVE Consistent(r.calls[k].raw, dc)
  <2>1. CASE r.calls[k].raw = <<>>
    BY <2>1, NothingGood
  <2>2. CASE k \in 1..Len(e.calls) /\ r.calls[k].raw = e.calls[k].raw
    BY <2>2 DEF Faith
  <2>3. CASE /\ k \in 1..Len(e.calls) /\ e.calls[k].raw # <<>>
             /\ r.calls[k].raw = Tail(e.calls[k].raw)
    <3>1. Consistent(e.calls[k].raw, dc) /\ e.calls[k].raw \in Seq(Tokens)
      BY <1>1, <2>3 DEF Faith
    <3> QED
      BY <2>3, <3>1, ConsistentRest
  <2> QED
    BY <2>1, <2>2, <2>3 DEF Within
<1> QED
  BY <1>2, <1>3, <1>4 DEF Faith

LEMMA FaithPasses ==
    ASSUME NEW e, NEW r, NEW dc, Always(e), Len(e.frames) >= 1, Faith(e, dc),
           Passes(e, r)
    PROVE  Faith(r, dc)
<1> DEFINE n == Len(e.frames)
           m == Len(e.calls)
<1>1. n \in Nat /\ n >= 1 /\ m \in Nat
  BY EffectParts
<1>2. ASSUME NEW k \in 1..n PROVE Goods(r.frames[k].deferred, dc)
  <2>1. k = n \/ k \in 1..n - 1
    BY <1>1
  <2> QED
    BY <2>1, NothingGood DEF Faith, Passes
<1>3. n \in 1..n /\ \A k \in 1..m + 1 : k = m + 1 \/ k \in 1..m
  BY <1>1
<1>4. ASSUME NEW k \in 1..m + 1
      PROVE  Goods(r.calls[k].todo, dc) /\ Consistent(r.calls[k].raw, dc)
  <2>1. CASE k = m + 1
    BY <1>3, <2>1, NothingGood DEF Faith, Passes
  <2>2. CASE k \in 1..m
    BY <2>2 DEF Faith, Passes
  <2> QED
    BY <1>3, <2>1, <2>2
<1>5. Len(r.frames) = n /\ Len(r.calls) = m + 1
  BY DEF Passes
<1> QED
  BY <1>2, <1>4, <1>5 DEF Faith

LEMMA FaithPuts ==
    ASSUME NEW e, NEW r, NEW dc, NEW kv \in Pairs, Always(e), Len(e.frames) >= 1,
           Faith(e, dc), Good(kv, dc), Puts(e, r, kv)
    PROVE  Faith(r, dc)
<1> DEFINE n == Len(e.frames)
           s == e.frames[n].deferred
<1>1. n \in Nat /\ n \in 1..n /\ s \in Seq(Pairs)
  BY EffectParts
<1>2. /\ Len(Append(s, kv)) = Len(s) + 1 /\ Append(s, kv)[Len(s) + 1] = kv
      /\ \A j \in 1..Len(s) : Append(s, kv)[j] = s[j]
      /\ Len(s) \in Nat
  BY <1>1, AppendOK
<1>3. \A j \in 1..Len(s) : Good(s[j], dc)
  BY <1>1 DEF Faith, Goods
<1> HIDE DEF s
<1>4. \A j \in 1..Len(s) + 1 : j = Len(s) + 1 \/ j \in 1..Len(s)
  BY <1>2
<1>5. Goods(Append(s, kv), dc)
  BY <1>2, <1>3, <1>4 DEF Goods
<1>6. ASSUME NEW k \in 1..n PROVE Goods(r.frames[k].deferred, dc)
  <2>1. k = n \/ k \in 1..n - 1
    BY <1>1
  <2> QED
    BY <1>5, <2>1 DEF Faith, Puts, s
<1>7. Len(r.frames) = n /\ SameCalls(e, r)
  BY DEF Puts
<1> QED
  BY <1>6, <1>7 DEF Faith, SameCalls

\* The document goes on.
LEMMA FaithGrows ==
    ASSUME NEW e, NEW dc, NEW dd, Faith(e, dc),
           \A id : Settled(dc, id) => Settled(dd, id) /\ dd.text[id] = dc.text[id]
    PROVE  Faith(e, dd)
<1>1. ASSUME NEW kvs, Goods(kvs, dc) PROVE Goods(kvs, dd)
  BY <1>1 DEF Goods, Good
<1>2. ASSUME NEW s, Consistent(s, dc) PROVE Consistent(s, dd)
  BY <1>2 DEF Consistent
<1> QED
  BY <1>1, <1>2 DEF Faith

\* The text of a pair that is over is one to read.
LEMMA TextReads ==
    ASSUME NEW dc \in DocType, TextOK(dc), NEW id, Settled(dc, id)
    PROVE  Consistent(dc.text[id], dc)
<1>1. id \in 1..dc.last /\ id \notin HoldersOf(dc)
  BY DEF Settled
<1>2. ASSUME NEW i \in 1..Len(dc.text[id]), dc.text[id][i] \in Ids
      PROVE  /\ Settled(dc, dc.text[id][i])
             /\ RunsOn(dc.text[dc.text[id][i]], dc.text[id], i)
  <2>1. KeyIn(dc, id, i)
    BY <1>1, <1>2 DEF TextOK
  <2> QED
    BY <1>1, <2>1 DEF KeyIn, Settled
<1> QED
  BY <1>2 DEF Consistent

LEMMA SameKeeps ==
    ASSUME NEW e, NEW r, Len(r.frames) = Len(e.frames), Len(r.calls) = Len(e.calls),
           \A k \in 1..Len(e.frames) : r.frames[k].deferred = e.frames[k].deferred,
           \A k \in 1..Len(e.calls) : r.calls[k].todo = e.calls[k].todo
                                      /\ r.calls[k].raw = e.calls[k].raw,
           r.dropped = e.dropped
    PROVE  Keeps(e, r)
BY DEF Keeps, Within

LEMMA DropsWithin ==
    ASSUME NEW e, NEW r, Always(e), Drops(e, r)
    PROVE  Within(e, r)
<1>1. Len(e.frames) \in Nat /\ \A k \in 1..Len(e.frames) : k = Len(e.frames) \/ k \in 1..Len(e.frames) - 1
  BY EffectParts
<1> QED
  BY <1>1 DEF Drops, Within, SameCalls

\* A hook leaves what is held, or drops what the frame on top holds.
LEMMA HookStore ==
    ASSUME NEW e, Always(e), Len(e.frames) >= 1, NEW cb
    PROVE  LET h == Hook(cb, e)
           IN  h.dead \/ Keeps(e, h) \/ Drops(e, h)
<1> DEFINE h == Hook(cb, e)
<1>1. e \in Effect /\ Len(e.frames) \in Nat
  BY DEF Always, Effect
<1>2. CASE cb = "drop"
  <2> DEFINE f == forgetDeferred(e)
             x == e.dropped \union {kv.key : kv \in Members(Top(e).deferred)}
  <2>1. /\ Always(f) /\ Kept(e, f) /\ f.frames[Len(e.frames)].deferred = <<>>
        /\ f.dropped = e.dropped
    BY ForgetOK
  <2>2. h = [f EXCEPT !.dropped = @ \union
                        {kv.key : kv \in Members(Top(e).deferred)}]
    BY <1>2 DEF Hook
  <2> HIDE DEF h, f
  <2>3. f \in Effect
    BY <2>1 DEF Always
  <2>4. h = [f EXCEPT !.dropped = x]
    BY <2>1, <2>2, <2>3 DEF Effect
  <2> HIDE DEF x
  <2>5. h.frames = f.frames /\ h.calls = f.calls /\ h.dropped = x
    BY <2>3, <2>4 DEF Effect
  <2>6. x = e.dropped \union {kv.key : kv \in Members(e.frames[Len(e.frames)].deferred)}
    BY DEF x, Top, LastOf
  <2> QED
    BY <2>1, <2>5, <2>6 DEF Drops, Kept, h, SameCalls
<1>3. CASE cb = "release"
  <2>1. h.frames = e.frames /\ h.calls = e.calls /\ h.dropped = e.dropped
    BY <1>1, <1>3 DEF Hook, Effect
  <2> QED
    BY <2>1, SameKeeps
<1>4. CASE cb = "suspend" /\ ~Replaying(e)
  <2>1. h.frames = e.frames /\ h.calls = e.calls /\ h.dropped = e.dropped
    BY <1>1, <1>4 DEF Hook, Effect
  <2> QED
    BY <2>1, SameKeeps
<1>5. CASE (cb = "suspend" /\ Replaying(e)) \/ cb = "bail"
  <2>1. \E c \in {"misuse", "protocol"} : h = Bailed(e, c)
    BY <1>5 DEF Hook
  <2> HIDE DEF h
  <2>2. h.dead
    BY <2>1, BailedOK
  <2> QED
    BY <2>2 DEF h
<1>6. CASE cb \notin {"release", "drop", "suspend", "bail"}
  <2>1. h = e
    BY <1>6 DEF Hook
  <2> QED
    BY <2>1, SameKeeps
<1> QED
  BY <1>2, <1>3, <1>4, <1>5, <1>6

LEMMA ReleasedStore ==
    ASSUME NEW e, Always(e), Len(e.frames) >= 1, NEW at \in {"value", "leave", "close"}
    PROVE  Passes(e, Released(e, at))
<1> DEFINE f == forgetDeferred(e)
           n == Len(e.frames)
           c == NewCall(at, n, Top(e).deferred)
           r == Released(e, at)
           a == e.asked \ {n}
<1>1. Calls(e, r, c)
  BY ReleasedOK
<1>2. e \in Effect /\ f \in Effect /\ f.dropped = e.dropped
  BY ForgetOK DEF Always
<1>3. n \in Nat /\ e.calls \in Seq(CallType) /\ Top(e).deferred \in Seq(Pairs)
      /\ Top(e) = e.frames[n]
  <2>1. Len(e.frames) \in Nat /\ e.calls \in Seq(CallType)
    BY EffectParts
  <2>2. Len(e.frames) \in 1..Len(e.frames)
    BY <2>1
  <2> QED
    BY <2>1, <2>2, EffectParts DEF Top, LastOf
<1>4. /\ c \in CallType /\ c.todo = Top(e).deferred /\ c.raw = <<>>
  BY <1>3, NewCallOK
<1>5. r.dropped = e.dropped
  <2>1. r = [f EXCEPT !.asked = @ \ {n}, !.calls = Append(@, c)]
    BY DEF Released, NewCall
  <2> HIDE DEF f, c, r
  <2>2. r.dropped = f.dropped
    BY <1>2, <2>1 DEF Effect
  <2> QED
    BY <1>2, <2>2
<1> HIDE DEF c, r, n
<1>6. /\ Len(Append(e.calls, c)) = Len(e.calls) + 1
      /\ Append(e.calls, c)[Len(e.calls) + 1] = c
      /\ \A k \in 1..Len(e.calls) : Append(e.calls, c)[k] = e.calls[k]
  BY <1>3, <1>4, AppendOK
<1>7. Passes(e, r)
  BY <1>1, <1>3, <1>4, <1>5, <1>6 DEF Passes, Calls, n
<1> QED
  BY <1>7 DEF r

LEMMA ValuedStore ==
    ASSUME NEW e, Always(e), Len(e.frames) >= 1, e.path # <<>>
    PROVE  Keeps(e, afterValue(e)) \/ Passes(e, afterValue(e))
<1> DEFINE fs == e.frames
           gs == [fs EXCEPT ![Len(fs)].ph = "phComma"]
           q == Front(e.path)
           x == [e EXCEPT !.frames = gs, !.path = q]
           y == [x EXCEPT !.wantRelease = FALSE]
<1>1. e \in Effect /\ fs \in Seq(FrameType) /\ Len(fs) >= 1 /\ e.path \in Seq(Ids)
  BY DEF Always, Effect
<1>2. /\ gs \in Seq(FrameType) /\ Len(gs) = Len(fs)
      /\ gs[Len(fs)].deferred = fs[Len(fs)].deferred
      /\ \A k \in 1..Len(fs) - 1 : gs[k] = fs[k]
  <2> HIDE DEF gs, fs
  <2>1. gs \in Seq(FrameType) /\ Len(gs) = Len(fs)
    BY <1>1, PhaseChanged, ZenonT(60) DEF gs
  <2>2. gs[Len(fs)].deferred = fs[Len(fs)].deferred
    BY <1>1, PhaseChanged DEF gs
  <2>3. \A k \in 1..Len(fs) - 1 : gs[k] = fs[k]
    BY <1>1, PhaseChanged DEF gs
  <2> QED
    BY <2>1, <2>2, <2>3
<1>3. afterValue(e) = IF ReleaseDue(e) THEN Released(y, "value") ELSE x
  BY <1>1 DEF afterValue, Effect
<1>4. q \in Seq(Ids)
  BY <1>1, FrontOK
<1> HIDE DEF gs, q
<1>5. /\ x \in Effect /\ x.frames = gs /\ x.calls = e.calls
      /\ x.deferredBytes = e.deferredBytes /\ x.dropped = e.dropped
  BY <1>1, <1>2, <1>4 DEF Effect
<1> HIDE DEF x
<1>6. \A k \in 1..Len(fs) : gs[k].deferred = fs[k].deferred
  <2>1. \A k \in 1..Len(fs) : k = Len(fs) \/ k \in 1..Len(fs) - 1
    BY <1>1, LenProperties
  <2> QED
    BY <1>2, <2>1
<1>7. Always(x)
  <2>1. Total(gs) = Total(fs)
    BY <1>1, <1>2, <1>6, TotalSame
  <2> QED
    BY <1>2, <1>5, <2>1 DEF Always
<1>8. Keeps(e, x)
  BY <1>2, <1>5, <1>6, SameKeeps
<1>9. /\ y \in Effect /\ y.frames = x.frames /\ y.calls = x.calls
      /\ y.deferredBytes = x.deferredBytes /\ y.dropped = x.dropped
  BY <1>5 DEF Effect
<1> HIDE DEF y
<1>10. Always(y) /\ Len(y.frames) >= 1
  BY <1>1, <1>2, <1>5, <1>7, <1>9 DEF Always
<1>11. Passes(y, Released(y, "value"))
  BY <1>10, ReleasedStore
<1>12. Passes(e, Released(y, "value"))
  <2> DEFINE r == Released(y, "value")
  <2> HIDE DEF r
  <2>1. Len(y.frames) = Len(fs) /\ y.calls = e.calls /\ y.dropped = e.dropped
        /\ \A k \in 1..Len(fs) : y.frames[k].deferred = fs[k].deferred
    BY <1>2, <1>5, <1>6, <1>9
  <2>2. \A k \in 1..Len(fs) - 1 : k \in 1..Len(fs)
    BY <1>1, LenProperties
  <2>3. Len(fs) \in 1..Len(fs)
    BY <1>1, LenProperties
  <2>4. Passes(y, r)
    BY <1>11 DEF r
  <2> HIDE DEF fs
  <2>5. Passes(e, r)
    BY <2>1, <2>2, <2>3, <2>4 DEF Passes, fs
  <2> QED
    BY <2>5 DEF r
<1> QED
  BY <1>3, <1>8, <1>12

\* What a hook does to what is held, and what the end of a value does.
Hooks(e, r) == r.dead \/ Keeps(e, r) \/ Drops(e, r)
Ends(e, r) == Keeps(e, r) \/ Passes(e, r)

\* What is held, and where, is the same.
SameStore(e, r) ==
    /\ Len(r.frames) = Len(e.frames) /\ r.dropped = e.dropped
    /\ \A k \in 1..Len(e.frames) : r.frames[k].deferred = e.frames[k].deferred
    /\ SameCalls(e, r)

LEMMA SameStoreKeeps ==
    ASSUME NEW e, NEW r, SameStore(e, r)
    PROVE  Keeps(e, r)
BY SameKeeps DEF SameStore, SameCalls

\* A change to what is held is one wherever it is seen.
LEMMA SameChange ==
    ASSUME NEW d, NEW e, NEW h, NEW r, Always(e), Len(e.frames) >= 1,
           SameStore(d, e), SameStore(h, r)
    PROVE  /\ Keeps(e, h) => Keeps(d, r)
           /\ Drops(e, h) => Drops(d, r)
           /\ Passes(e, h) => Passes(d, r)
           /\ \A kv : Puts(e, h, kv) => Puts(d, r, kv)
<1> DEFINE n == Len(e.frames)
           m == Len(e.calls)
<1>1. n \in Nat /\ n >= 1 /\ m \in Nat
  BY EffectParts
<1>2. \A k \in 1..n - 1 : k \in 1..n
  BY <1>1
<1>3. n \in 1..n /\ m + 1 \in 1..m + 1 /\ \A k \in 1..m : k \in 1..m + 1
  BY <1>1
<1>4. /\ Len(d.frames) = n /\ d.dropped = e.dropped /\ Len(d.calls) = m
      /\ \A k \in 1..n : d.frames[k].deferred = e.frames[k].deferred
      /\ \A k \in 1..m : d.calls[k].todo = e.calls[k].todo /\ d.calls[k].raw = e.calls[k].raw
  BY DEF SameStore, SameCalls
<1>5. /\ Len(r.frames) = Len(h.frames) /\ r.dropped = h.dropped
      /\ Len(r.calls) = Len(h.calls)
      /\ \A k \in 1..Len(h.frames) : r.frames[k].deferred = h.frames[k].deferred
      /\ \A k \in 1..Len(h.calls) : r.calls[k].todo = h.calls[k].todo
                                    /\ r.calls[k].raw = h.calls[k].raw
  BY DEF SameStore, SameCalls
<1>6. ASSUME Keeps(e, h) PROVE Keeps(d, r)
  <2>1. /\ \A k \in 1..n : \/ d.frames[k].deferred = <<>>
                           \/ k \in 1..Len(r.frames)
                              /\ r.frames[k].deferred = d.frames[k].deferred
        /\ \A k \in 1..m : \/ d.calls[k].todo = <<>>
                           \/ k \in 1..Len(r.calls) /\ r.calls[k].todo = d.calls[k].todo
        /\ r.dropped = d.dropped
    BY <1>4, <1>5, <1>6 DEF Keeps
  <2>2. Within(d, r)
    <3>1. Within(e, h)
      BY <1>6 DEF Keeps
    <3>2. \A k \in 1..Len(r.frames) :
             \/ r.frames[k].deferred = <<>>
             \/ k \in 1..n /\ r.frames[k].deferred = d.frames[k].deferred
      BY <1>4, <1>5, <3>1 DEF Within
    <3>3. \A k \in 1..Len(r.calls) :
             \/ r.calls[k].todo = <<>>
             \/ k \in 1..m /\ r.calls[k].todo = d.calls[k].todo
      BY <1>4, <1>5, <3>1 DEF Within
    <3>4. \A k \in 1..Len(r.calls) :
             \/ r.calls[k].raw = <<>>
             \/ k \in 1..m /\ r.calls[k].raw = d.calls[k].raw
             \/ k \in 1..m /\ d.calls[k].raw # <<>> /\ r.calls[k].raw = Tail(d.calls[k].raw)
      BY <1>4, <1>5, <3>1 DEF Within
    <3> QED
      BY <1>4, <3>2, <3>3, <3>4 DEF Within
  <2> QED
    BY <1>4, <2>1, <2>2 DEF Keeps
<1>7. ASSUME Drops(e, h) PROVE Drops(d, r)
  <2>1. /\ Len(h.frames) = n /\ Len(h.calls) = m
        /\ \A k \in 1..m : h.calls[k].todo = e.calls[k].todo /\ h.calls[k].raw = e.calls[k].raw
        /\ \A k \in 1..n - 1 : h.frames[k].deferred = e.frames[k].deferred
        /\ h.frames[n].deferred = <<>>
        /\ h.dropped = e.dropped \union {kv.key : kv \in Members(e.frames[n].deferred)}
    BY <1>7 DEF Drops, SameCalls
  <2>2. SameCalls(d, r)
    BY <1>4, <1>5, <2>1 DEF SameCalls
  <2>3. \A k \in 1..n - 1 : r.frames[k].deferred = d.frames[k].deferred
    BY <1>2, <1>4, <1>5, <2>1
  <2> QED
    BY <1>3, <1>4, <1>5, <2>1, <2>2, <2>3 DEF Drops
<1>8. ASSUME Passes(e, h) PROVE Passes(d, r)
  <2>1. /\ Len(h.frames) = n /\ Len(h.calls) = m + 1
        /\ h.frames[n].deferred = <<>>
        /\ \A k \in 1..n - 1 : h.frames[k].deferred = e.frames[k].deferred
        /\ \A k \in 1..m : h.calls[k].todo = e.calls[k].todo /\ h.calls[k].raw = e.calls[k].raw
        /\ h.calls[m + 1].todo = e.frames[n].deferred /\ h.calls[m + 1].raw = <<>>
        /\ h.dropped = e.dropped
    BY <1>8 DEF Passes
  <2>2. \A k \in 1..n - 1 : r.frames[k].deferred = d.frames[k].deferred
    BY <1>2, <1>4, <1>5, <2>1
  <2>3. \A k \in 1..m : r.calls[k].todo = d.calls[k].todo /\ r.calls[k].raw = d.calls[k].raw
    BY <1>3, <1>4, <1>5, <2>1
  <2>4. r.frames[n].deferred = <<>> /\ Len(r.frames) = n /\ Len(r.calls) = m + 1
        /\ r.calls[m + 1].todo = d.frames[n].deferred /\ r.calls[m + 1].raw = <<>>
        /\ r.dropped = d.dropped
    BY <1>3, <1>4, <1>5, <2>1
  <2> QED
    BY <1>4, <2>2, <2>3, <2>4 DEF Passes
<1>9. ASSUME NEW kv, Puts(e, h, kv) PROVE Puts(d, r, kv)
  <2>1. /\ Len(h.frames) = n /\ Len(h.calls) = m
        /\ \A k \in 1..m : h.calls[k].todo = e.calls[k].todo /\ h.calls[k].raw = e.calls[k].raw
        /\ \A k \in 1..n - 1 : h.frames[k].deferred = e.frames[k].deferred
        /\ h.frames[n].deferred = Append(e.frames[n].deferred, kv)
        /\ h.dropped = e.dropped
    BY <1>9 DEF Puts, SameCalls
  <2>2. SameCalls(d, r)
    BY <1>4, <1>5, <2>1 DEF SameCalls
  <2>3. \A k \in 1..n - 1 : r.frames[k].deferred = d.frames[k].deferred
    BY <1>2, <1>4, <1>5, <2>1
  <2> QED
    BY <1>3, <1>4, <1>5, <2>1, <2>2, <2>3 DEF Puts
<1> QED
  BY <1>6, <1>7, <1>8, <1>9

LEMMA SameStoreSelf == \A e : SameStore(e, e)
BY DEF SameStore, SameCalls

\* OnKey was asked.
LEMMA JudgedStore ==
    ASSUME NEW e, Always(e), Len(e.frames) >= 1, NEW id \in Ids, NEW cb
    PROVE  LET r == [Hook(cb, [e EXCEPT !.path = Append(@, id)]) EXCEPT
                          !.frames[Len(e.frames)].ph = "phValue",
                          !.calls = Running(@)]
           IN  Hooks(e, r) /\ (r.dead \/ SameCalls(e, r))
<1> DEFINE n  == Len(e.frames)
           p  == Append(e.path, id)
           d  == [e EXCEPT !.path = p]
           h  == Hook(cb, d)
           fs == h.frames
           gs == [fs EXCEPT ![Len(fs)].ph = "phValue"]
           cs == Running(h.calls)
           r  == [h EXCEPT !.frames = gs, !.calls = cs]
<1>1. e \in Effect /\ n \in Nat /\ n >= 1 /\ e.path \in Seq(Ids)
      /\ e.calls \in Seq(CallType)
  BY DEF Always, Effect
<1>2. p \in Seq(Ids)
  BY <1>1, AppendOK
<1> HIDE DEF p
<1>3. /\ d \in Effect /\ d.path = p /\ d.frames = e.frames /\ d.dropped = e.dropped
      /\ d.calls = e.calls /\ d.deferredBytes = e.deferredBytes
  BY <1>1, <1>2 DEF Effect
<1>4. Always(d) /\ Len(d.frames) >= 1
  BY <1>3 DEF Always
<1> HIDE DEF d
<1>5. Hooked(d, h, cb) /\ (h.dead \/ Keeps(d, h) \/ Drops(d, h))
  BY <1>4, HookOK, HookStore
<1> HIDE DEF h
<1>6. /\ h \in Effect /\ Always(h) /\ h.calls = e.calls /\ Len(fs) = n
      /\ fs \in Seq(FrameType)
  BY <1>3, <1>5 DEF Hooked, Kept, Always, Effect
<1>7. gs \in Seq(FrameType) /\ Len(gs) = n
  <2> HIDE DEF gs, n, fs
  <2>1. /\ fs \in Seq(FrameType) /\ Len(fs) >= 1 /\ Len(fs) = n
        /\ "phValue" \in {"phKey", "phValue", "phComma"}
    BY <1>1, <1>6
  <2>2. gs = [fs EXCEPT ![Len(fs)].ph = "phValue"]
    BY DEF gs
  <2>3. gs \in Seq(FrameType)
    BY <2>1, <2>2, PhaseChanged, Zenon
  <2>4. Len(gs) = Len(fs)
    BY <2>1, <2>2, PhaseChanged
  <2> QED
    BY <2>1, <2>3, <2>4
<1>8. gs[n].deferred = fs[n].deferred
  <2> HIDE DEF gs, n, fs
  <2> QED
    BY <1>1, <1>6, PhaseChanged DEF gs
<1>9. \A k \in 1..n - 1 : gs[k] = fs[k]
  <2> HIDE DEF gs, n, fs
  <2> QED
    BY <1>1, <1>6, PhaseChanged DEF gs
<1>10. cs \in Seq(CallType) /\ Len(cs) = Len(e.calls)
       /\ \A k \in 1..Len(e.calls) : cs[k].todo = e.calls[k].todo /\ cs[k].raw = e.calls[k].raw
  BY <1>1, <1>6, RunningOK
<1>11. [h EXCEPT !.frames[Len(e.frames)].ph = "phValue", !.calls = Running(@)] = r
  BY <1>6 DEF Effect
<1> HIDE DEF gs, cs
<1>12. /\ r.frames = gs /\ r.calls = cs /\ r.dead = h.dead /\ r.dropped = h.dropped
  BY <1>6, <1>7, <1>10 DEF Effect
<1> HIDE DEF r
<1>13. \A k \in 1..n : gs[k].deferred = fs[k].deferred
  <2>1. \A k \in 1..n : k = n \/ k \in 1..n - 1
    BY <1>1
  <2> QED
    BY <1>8, <1>9, <2>1
<1>14. SameStore(h, r)
  BY <1>6, <1>7, <1>10, <1>12, <1>13 DEF SameStore, SameCalls
<1>15. SameStore(e, d)
  BY <1>3 DEF SameStore, SameCalls
<1>16. Hooks(e, r)
  BY <1>4, <1>5, <1>12, <1>14, <1>15, SameChange DEF Hooks
<1>17. SameCalls(e, r)
  BY <1>10, <1>12 DEF SameCalls
<1> QED
  BY <1>11, <1>16, <1>17 DEF h, d, p

\* A region ends.
LEMMA EndRegionStore ==
    ASSUME NEW e, Always(e), Len(e.frames) >= 1, e.path # <<>>,
           NEW raw \in Seq(Tokens), NEW cb,
           regT = "rtDefer" => kvRaw \in Ids /\ regKey \in Ids
    PROVE  LET r == endRegion(e, raw, cb)
           IN  r.dead \/ \E h :
                /\ Always(h) /\ Len(h.frames) >= 1 /\ Ends(h, r)
                /\ IF regT = "rtDefer"
                   THEN Puts(e, h, [key |-> regKey, keyRaw |-> kvRaw, raw |-> raw])
                   ELSE Keeps(e, h) \/ Drops(e, h)
<1> DEFINE kv == [key |-> regKey, keyRaw |-> kvRaw, raw |-> raw]
           d == [e EXCEPT !.frames[Len(e.frames)].deferred = Append(@, kv),
                          !.deferredBytes = @ + Size(kv)]
           h == Hook(cb, e)
           r == endRegion(e, raw, cb)
<1>1. e \in Effect
  BY DEF Always
<1>2. /\ regT = "rtDefer" => r = IF d.dead THEN d ELSE afterValue(d)
      /\ regT # "rtDefer" => r = IF h.dead THEN h ELSE afterValue(h)
  BY DEF endRegion
<1> HIDE DEF r
<1>3. CASE regT = "rtDefer"
  <2>1. kv \in Pairs
    BY <1>3 DEF Pairs
  <2> HIDE DEF kv
  <2>2. Deferring(e, d, kv)
    BY <2>1, DeferringOK
  <2>3. d.dropped = e.dropped
    BY <1>1 DEF Effect
  <2> HIDE DEF d
  <2>4. /\ Always(d) /\ Len(d.frames) >= 1 /\ d.path = e.path
    BY <2>2 DEF Deferring
  <2>5. Puts(e, d, kv)
    BY <2>2, <2>3 DEF Deferring, Puts, SameCalls
  <2>6. Ends(d, afterValue(d))
    BY <2>4, ValuedStore DEF Ends
  <2>7. r.dead \/ Ends(d, r)
    BY <1>2, <1>3, <2>6
  <2> QED
    BY <1>3, <2>4, <2>5, <2>7 DEF r, kv
<1>4. CASE regT # "rtDefer"
  <2>1. Hooked(e, h, cb)
    BY HookOK
  <2>2. h.dead \/ Keeps(e, h) \/ Drops(e, h)
    BY HookStore
  <2> HIDE DEF h
  <2>3. Always(h) /\ h.path = e.path /\ Len(h.frames) >= 1
    BY <2>1 DEF Hooked, Kept
  <2>4. Ends(h, afterValue(h))
    BY <2>3, ValuedStore DEF Ends
  <2>5. r.dead \/ (~h.dead /\ Ends(h, r))
    BY <1>2, <1>4, <2>4
  <2> QED
    BY <1>4, <2>2, <2>3, <2>5 DEF r
<1> QED
  BY <1>3, <1>4

\* A container is entered.
LEMMA EnteredStore ==
    ASSUME NEW e, Always(e)
    PROVE  LET r == [pushFrame(e) EXCEPT !.depth = @ + 1]
           IN  Keeps(e, r) /\ SameCalls(e, r)
<1> DEFINE p == pushFrame(e)
           r == [pushFrame(e) EXCEPT !.depth = @ + 1]
           d == p.depth + 1
<1>1. Entered(e, r)
  BY EnteredOK
<1>2. r.dropped = e.dropped
  <2>1. e \in Effect
    BY DEF Always
  <2>2. p.dropped = e.dropped
    BY <2>1 DEF pushFrame, Effect
  <2>3. r = [p EXCEPT !.depth = d]
    OBVIOUS
  <2>4. r.dropped = p.dropped
    BY <2>3
  <2> QED
    BY <2>2, <2>4
<1> HIDE DEF r
<1>3. Len(e.frames) \in Nat /\ NewFrame.deferred = <<>>
  BY EffectParts DEF NewFrame
<1>4. \A k \in 1..Len(e.frames) + 1 : k \in 1..Len(e.frames) \/ k = Len(e.frames) + 1
  BY <1>3
<1>5. \A k \in 1..Len(e.frames) : k \in 1..Len(e.frames) + 1
  BY <1>3
<1>6. /\ Len(r.frames) = Len(e.frames) + 1
      /\ \A k \in 1..Len(e.frames) : r.frames[k].deferred = e.frames[k].deferred
      /\ r.frames[Len(e.frames) + 1].deferred = <<>>
  BY <1>1, <1>3 DEF Entered
<1>7. SameCalls(e, r)
  BY <1>1 DEF Entered, SameCalls
<1>8. Within(e, r)
  BY <1>4, <1>6, <1>7 DEF Within, SameCalls
<1>9. Keeps(e, r)
  BY <1>2, <1>5, <1>6, <1>7, <1>8 DEF Keeps, SameCalls
<1> QED
  BY <1>7, <1>9 DEF r

\* A token is taken from the source it was read from.
LEMMA ConsumedStore ==
    ASSUME Always(Now), NEW tok \in Tokens, Ready(tok)
    PROVE  LET e == Consumed(Now)
               m == Len(calls)
           IN  /\ Keeps(Now, e) /\ e.dropped = dropped /\ Len(e.calls) = m
               /\ \A k \in 1..m : e.calls[k].todo = calls[k].todo
               /\ \A k \in 1..m - 1 : e.calls[k] = calls[k]
               /\ calls = <<>> => e = Now
               /\ calls # <<>> => /\ m \in 1..m /\ call.raw \in Seq(Tokens)
                                  /\ call.raw # <<>> /\ tok = Head(call.raw)
                                  /\ calls[m].raw = call.raw
                                  /\ e.calls[m].raw = Tail(call.raw)
<1> DEFINE e == Consumed(Now)
           m == Len(calls)
<1>1. CASE calls = <<>>
  <2>1. e = Now
    BY <1>1 DEF Consumed
  <2>2. Len(calls) = 0 /\ Keeps(Now, Now)
    BY <1>1, SameKeeps
  <2> QED
    BY <1>1, <2>1, <2>2, NowIs
<1>2. CASE calls # <<>>
  <2>1. /\ Now \in Effect /\ calls \in Seq(CallType) /\ m \in Nat
        /\ \A k \in 1..m : calls[k].todo \in Seq(Pairs) /\ calls[k].raw \in Seq(Tokens)
    BY NowIs, EffectParts DEF Always
  <2>2. m \in 1..m /\ \A k \in 1..m - 1 : k \in 1..m /\ k # m
    BY <1>2, <2>1, EmptySeq
  <2>3. call = calls[m] /\ call.raw # <<>> /\ tok = Head(call.raw)
    BY <1>2 DEF Ready, call, LastOf
  <2> DEFINE c == calls[m]
             d == [c EXCEPT !.raw = Tail(@)]
             cs == [calls EXCEPT ![m] = d]
  <2>4. c \in CallType
    BY <2>1, <2>2
  <2>5. d.todo = c.todo /\ d.raw = Tail(c.raw)
    BY <2>4 DEF CallType
  <2> HIDE DEF d
  <2>6. e = [Now EXCEPT !.calls = cs]
    BY <1>2, NowIs DEF Consumed, d
  <2>7. /\ Len(cs) = m /\ cs[m] = d
        /\ \A k \in 1..m - 1 : cs[k] = calls[k]
    BY <2>1, <2>2
  <2> HIDE DEF cs, c, e, m
  <2>8. e.calls = cs /\ e.frames = frames /\ e.dropped = dropped
    BY <2>1, <2>6, NowIs DEF Effect
  <2>9. \A k \in 1..m : k = m \/ k \in 1..m - 1
    BY <2>1
  <2>10. \A k \in 1..m : e.calls[k].todo = calls[k].todo
    BY <2>5, <2>7, <2>8, <2>9 DEF c
  <2>11. e.calls[m].raw = Tail(call.raw) /\ Len(e.calls) = m
    BY <2>3, <2>5, <2>7, <2>8 DEF c
  <2>12. \A k \in 1..m - 1 : e.calls[k] = calls[k]
    BY <2>7, <2>8
  <2>13. Within(Now, e)
    <3>1. \A k \in 1..m : \/ e.calls[k].raw = calls[k].raw
                          \/ calls[k].raw # <<>> /\ e.calls[k].raw = Tail(calls[k].raw)
      BY <2>3, <2>9, <2>11, <2>12
    <3> QED
      BY <2>8, <2>10, <2>11, <3>1, NowIs DEF Within, m
  <2>14. Keeps(Now, e)
    BY <2>8, <2>10, <2>11, <2>13, NowIs DEF Keeps, m
  <2>15. call.raw \in Seq(Tokens)
    BY <2>1, <2>2, <2>3
  <2> QED
    BY <1>2, <2>2, <2>3, <2>8, <2>10, <2>11, <2>12, <2>14, <2>15 DEF e, m
<1> QED
  BY <1>1, <1>2

\* A frame begins to close.
LEMMA ClosingStore ==
    ASSUME NEW h, Always(h), NEW n \in Nat
    PROVE  Keeps(h, [h EXCEPT !.calls = Append(@, NewCall("leave", n, <<>>))])
<1> DEFINE c == NewCall("leave", n, <<>>)
           x == [h EXCEPT !.calls = Append(@, c)]
           m == Len(h.calls)
<1>1. h \in Effect /\ h.calls \in Seq(CallType) /\ m \in Nat /\ Len(h.frames) \in Nat
  BY EffectParts DEF Always
<1>2. c \in CallType /\ c.todo = <<>> /\ c.raw = <<>>
  <2> DEFINE none == <<>>
  <2>1. none \in Seq(Pairs)
    BY EmptySeq
  <2> HIDE DEF none
  <2>2. /\ NewCall("leave", n, none) \in CallType
        /\ NewCall("leave", n, none).todo = none
        /\ NewCall("leave", n, none).raw = <<>>
    BY <2>1, NewCallOK
  <2> QED
    BY <2>2 DEF none
<1> HIDE DEF c
<1>3. /\ Len(Append(h.calls, c)) = m + 1 /\ Append(h.calls, c)[m + 1] = c
      /\ \A k \in 1..m : Append(h.calls, c)[k] = h.calls[k]
  BY <1>1, <1>2, AppendOK
<1>4. x.calls = Append(h.calls, c) /\ x.frames = h.frames /\ x.dropped = h.dropped
  BY <1>1 DEF Effect
<1> HIDE DEF x
<1>5. /\ \A k \in 1..m + 1 : k = m + 1 \/ k \in 1..m
      /\ \A k \in 1..m : k \in 1..m + 1
  BY <1>1
<1>6. /\ Len(x.calls) = m + 1 /\ x.calls[m + 1] = c
      /\ \A k \in 1..m : x.calls[k] = h.calls[k]
  BY <1>3, <1>4
<1> HIDE DEF m
<1>7. Within(h, x)
  BY <1>2, <1>4, <1>5, <1>6 DEF Within, m
<1>8. Keeps(h, x)
  BY <1>4, <1>5, <1>6, <1>7 DEF Keeps, m
<1> QED
  BY <1>8 DEF x, c

\* The call on top, which serves no more pairs, is over.
LEMMA PoppedStore ==
    ASSUME NEW e, Always(e), e.calls # <<>>, LastOf(e.calls).todo = <<>>
    PROVE  Keeps(e, [e EXCEPT !.calls = Front(@)])
<1> DEFINE r == [e EXCEPT !.calls = Front(@)]
           m == Len(e.calls)
<1>1. Popped(e, r)
  BY PoppedOK
<1>2. e \in Effect /\ e.calls \in Seq(CallType) /\ Len(e.calls) \in Nat
      /\ Len(e.frames) \in Nat
  BY EffectParts DEF Always
<1>3. r.dropped = e.dropped
  BY <1>2 DEF Effect
<1> HIDE DEF r
<1>4. /\ \A k \in 1..m : k = m \/ k \in 1..m - 1
      /\ \A k \in 1..m - 1 : k \in 1..m
  BY <1>2
<1>5. e.calls[m].todo = <<>>
  BY DEF LastOf
<1>6. /\ r.frames = e.frames /\ Len(r.calls) = m - 1
      /\ \A k \in 1..m - 1 : r.calls[k] = e.calls[k]
  BY <1>1 DEF Popped
<1> HIDE DEF m
<1>7. Within(e, r)
  BY <1>4, <1>6 DEF Within, m
<1>8. Keeps(e, r)
  BY <1>3, <1>4, <1>5, <1>6, <1>7 DEF Keeps, m
<1> QED
  BY <1>8 DEF r

\* The frame on top, which holds nothing, is gone.
LEMMA GoneStore ==
    ASSUME NEW e, Always(e), Len(e.frames) >= 1, e.depth >= 1,
           e.frames[Len(e.frames)].deferred = <<>>,
           \A j \in 1..Len(e.calls) : e.calls[j].frame <= Len(e.frames) - 1
    PROVE  Keeps(e, [e EXCEPT !.frames = Front(@), !.depth = @ - 1,
                              !.asked = @ \ {Len(e.frames)}])
<1> DEFINE r == [e EXCEPT !.frames = Front(@), !.depth = @ - 1,
                          !.asked = @ \ {Len(e.frames)}]
           n == Len(e.frames)
<1>1. Gone(e, r)
  BY GoneOK
<1>2. e \in Effect /\ n \in Nat
  BY EffectParts DEF Always
<1>3. r.dropped = e.dropped
  BY <1>2 DEF Effect
<1> HIDE DEF r
<1>4. /\ \A k \in 1..n : k = n \/ k \in 1..n - 1
      /\ \A k \in 1..n - 1 : k \in 1..n
  BY <1>2
<1>6. /\ r.calls = e.calls /\ Len(r.frames) = n - 1
      /\ \A k \in 1..n - 1 : r.frames[k] = e.frames[k]
  BY <1>1 DEF Gone
<1>5. e.frames[n].deferred = <<>>
  OBVIOUS
<1> HIDE DEF n
<1>7. Within(e, r)
  BY <1>4, <1>6 DEF Within, n
<1>8. Keeps(e, r)
  BY <1>3, <1>4, <1>5, <1>6, <1>7 DEF Keeps, n
<1> QED
  BY <1>8 DEF r

\* The request of a frame that closes is served.
LEMMA ClosingReleaseStore ==
    ASSUME NEW e, Always(e), Len(e.frames) >= 1, NEW s \in BOOLEAN, NEW p \in Seq(Pairs),
           NEW m, m = Len(e.calls) + 1
    PROVE  Passes(e, [Released([e EXCEPT !.wantRelease = FALSE], "close")
                          EXCEPT !.calls[m].stale = s, !.calls[m].snap = p])
<1> DEFINE x == [e EXCEPT !.wantRelease = FALSE]
           y == Released(x, "close")
           b == NewCall("close", Len(x.frames), Top(x).deferred)
           r == [y EXCEPT !.calls[m].stale = s, !.calls[m].snap = p]
<1>1. e \in Effect /\ Len(e.calls) \in Nat
  BY EffectParts DEF Always
<1>2. /\ x \in Effect /\ x.frames = e.frames /\ x.calls = e.calls
      /\ x.deferredBytes = e.deferredBytes /\ x.dropped = e.dropped
  BY <1>1 DEF Effect
<1> HIDE DEF x
<1>3. Always(x) /\ Len(x.frames) >= 1
  BY <1>2 DEF Always
<1>4. Passes(x, y) /\ Calls(x, y, b)
  BY <1>3, ReleasedStore, ReleasedOK
<1> HIDE DEF y, b
<1>5. y \in Effect /\ y.calls \in Seq(CallType) /\ Len(y.calls) = m /\ m \in Nat
  <2>1. y \in Effect /\ y.calls \in Seq(CallType)
    BY <1>4 DEF Calls, Always, Effect
  <2>2. Len(y.calls) = Len(e.calls) + 1
    BY <1>2, <1>4 DEF Passes
  <2> QED
    BY <1>1, <2>1, <2>2
<1> DEFINE c == y.calls[m]
           a == [c EXCEPT !.stale = s]
           d == [a EXCEPT !.snap = p]
           cs == [y.calls EXCEPT ![m] = a]
           ds == [cs EXCEPT ![m] = d]
           w == [y EXCEPT !.calls = cs]
<1>6. m \in DOMAIN y.calls /\ DOMAIN y.calls = 1..m
  BY <1>1, <1>5
<1>7. c \in CallType
  BY <1>5, <1>6
<1>8. d.todo = c.todo /\ d.raw = c.raw
  <2> HIDE DEF c
  <2> QED
    BY <1>7 DEF CallType
<1>9. w.calls = cs /\ cs[m] = a
  BY <1>5, <1>6 DEF Effect
<1>10. r = [w EXCEPT !.calls[m].snap = p]
  OBVIOUS
<1> HIDE DEF w, r, d, a, c
<1>11. r = [y EXCEPT !.calls = ds]
  <2>1. r = [w EXCEPT !.calls = ds]
    BY <1>9, <1>10 DEF d
  <2> QED
    BY <2>1 DEF w
<1>12. r.calls = ds /\ r.frames = y.frames /\ r.dropped = y.dropped
  BY <1>5, <1>11 DEF Effect
<1>13. /\ Len(ds) = m /\ ds[m] = d
       /\ \A k \in 1..m : k # m => ds[k] = y.calls[k]
  BY <1>5, <1>6
<1> HIDE DEF ds
<1>14. SameCalls(y, r)
  BY <1>5, <1>8, <1>12, <1>13 DEF SameCalls, c
<1>15. SameStore(y, r) /\ SameStore(e, x)
  BY <1>2, <1>12, <1>14 DEF SameStore, SameCalls
<1>16. Passes(e, r)
  BY <1>3, <1>4, <1>15, SameChange
<1> QED
  BY <1>16 DEF r, y, x

\* The first tokens of t are the copy b, the next those of the source r.
Ahead(t, b, r) ==
    /\ Len(t) <= Len(b) + Len(r)
    /\ \A j \in 1..Len(t) : t[j] = IF j <= Len(b) THEN b[j] ELSE r[j - Len(b)]

\* The pair OnKey was asked about: its raw key and what the scan reads next.
AskedFor ==
    pendSet =>
        /\ kvRaw = LastOf(path)
        /\ calls # <<>> => /\ Settled(doc, kvRaw)
                           /\ RunsOn(doc.text[kvRaw], call.raw, 0)

\* The region copies the value of its pair.
Copying ==
    regOpen /\ regT = "rtDefer" =>
        /\ kvRaw = regKey /\ regKey \in 1..doc.last
        /\ IF calls = <<>>
           THEN /\ capBuf = doc.text[regKey]
                /\ IF st = "sIdle" THEN /\ regDepth \in 1..Len(doc.open)
                                        /\ regKey = doc.open[regDepth]
                   ELSE Settled(doc, regKey)
           ELSE Settled(doc, regKey) /\ Ahead(doc.text[regKey], capBuf, call.raw)

\* What is held, waited for and copied is what the document had.
Faithful ==
    ~dead => /\ DocOK(doc) /\ TextOK(doc) /\ Faith(Now, doc)
             /\ AskedFor /\ Copying

\* The effect of a step is the next state.
LEMMA FaithfulNext ==
    ASSUME NEW r, Becomes(r), DocOK(doc'), TextOK(doc'), Faith(r, doc'),
           AskedFor', Copying'
    PROVE  Faithful'
<1>1. frames' = r.frames /\ calls' = r.calls
  BY DEF Becomes
<1>2. Faith(Now, doc)' <=> Faith(r, doc')
  <2>1. Now'.frames = frames' /\ Now'.calls = calls'
    BY DEF Now
  <2>2. Faith(Now', doc') <=> Faith(r, doc')
    BY <1>1, <2>1 DEF Faith
  <2> QED
    BY <2>2
<1> QED
  BY <1>2 DEF Faithful

LEMMA HooksFaith ==
    ASSUME NEW e, NEW r, NEW dc \in DocType, Always(e), Faith(e, dc), Hooks(e, r), ~r.dead
    PROVE  Faith(r, dc)
BY FaithWithin, DropsWithin DEF Hooks, Keeps

LEMMA EndsFaith ==
    ASSUME NEW e, NEW r, NEW dc \in DocType, Always(e), Len(e.frames) >= 1,
           Faith(e, dc), Ends(e, r)
    PROVE  Faith(r, dc)
BY FaithWithin, FaithPasses DEF Ends, Keeps

LEMMA EndRegionFaith ==
    ASSUME NEW e, Always(e), Len(e.frames) >= 1, e.path # <<>>,
           NEW raw \in Seq(Tokens), NEW cb, NEW dc \in DocType, Faith(e, dc),
           regT = "rtDefer" =>
               /\ kvRaw \in Ids /\ regKey \in Ids
               /\ Good([key |-> regKey, keyRaw |-> kvRaw, raw |-> raw], dc),
           ~endRegion(e, raw, cb).dead
    PROVE  Faith(endRegion(e, raw, cb), dc)
<1> DEFINE kv == [key |-> regKey, keyRaw |-> kvRaw, raw |-> raw]
           r == endRegion(e, raw, cb)
<1>1. PICK h :
          /\ Always(h) /\ Len(h.frames) >= 1 /\ Ends(h, r)
          /\ IF regT = "rtDefer" THEN Puts(e, h, kv) ELSE Keeps(e, h) \/ Drops(e, h)
  BY EndRegionStore
<1> HIDE DEF r
<1>2. Faith(h, dc)
  <2>1. CASE regT = "rtDefer"
    <3>1. kv \in Pairs
      BY <2>1 DEF Pairs
    <3>2. Good(kv, dc) /\ Puts(e, h, kv)
      BY <1>1, <2>1
    <3> HIDE DEF kv
    <3> QED
      BY <3>1, <3>2, FaithPuts
  <2>2. CASE regT # "rtDefer"
    BY <1>1, <2>2, FaithWithin, DropsWithin DEF Keeps
  <2> QED
    BY <2>1, <2>2
<1>3. Faith(r, dc)
  BY <1>1, <1>2, EndsFaith
<1> QED
  BY <1>3 DEF r

\* A token is read: of the document, or of a value that is held.
LEMMA TokenFaith ==
    ASSUME IInv, Faithful, NEW tok \in Tokens, Ready(tok), Reads(tok)
    PROVE  LET e == Consumed(Now)
           IN  /\ ~dead /\ doc \in DocType /\ doc' \in DocType
               /\ DocOK(doc) /\ TextOK(doc) /\ DocOK(doc') /\ TextOK(doc')
               /\ Faith(e, doc')
               /\ calls = <<>> => /\ Grows(tok) /\ doc' = Extended(tok)
                                  /\ Extended(tok) \in DocType
               /\ calls # <<>> =>
                    /\ doc' = doc
                    /\ tok \in Ids => /\ Settled(doc, tok)
                                      /\ RunsOn(doc.text[tok], Tail(call.raw), 0)
<1> DEFINE e == Consumed(Now)
<1>1. /\ ~dead /\ DocOK(doc) /\ TextOK(doc) /\ Faith(Now, doc) /\ Always(Now)
      /\ doc \in DocType /\ ~rootDone /\ Live /\ st = "sIdle" /\ RestType
  BY DEF Ready, Scanning, IInv, Faithful, RestType
<1>2. Always(e) /\ (calls # <<>> => doc' = doc) /\ (calls = <<>> => doc' = Extended(tok))
  BY TokenOK
<1>3. calls = <<>> => Grows(tok)
  BY DEF Ready
<1>4. calls = <<>> => Extended(tok) \in DocType
  <2> SUFFICES ASSUME calls = <<>> PROVE Extended(tok) \in DocType
    OBVIOUS
  <2>1. /\ Len(frames) \in Nat /\ Len(frames) >= 1 /\ depth \in Nat /\ Len(doc.open) = depth - 1
        /\ regOpen => depth > regDepth /\ regDepth = Len(frames)
        /\ ~regOpen => depth = Len(frames)
    BY <1>1, DocumentAt
  <2>2. depth \in Nat \ {0}
    BY <2>1
  <2> DEFINE v == doc.value # 0
  <2>3. v \in BOOLEAN /\ Source(<<>>, doc, 0, depth, v)
    BY <2>1, <2>2 DEF Source
  <2> HIDE DEF v
  <2> QED
    BY <1>1, <1>3, <2>2, <2>3, ExtendedOK
<1>5. CASE calls = <<>>
  <2>1. DocOK(Extended(tok)) /\ TextOK(Extended(tok))
    BY <1>1, <1>3, <1>4, <1>5, DocNext, TextNext
  <2>2. \A id : Settled(doc, id) => Settled(Extended(tok), id)
                                    /\ Extended(tok).text[id] = doc.text[id]
    BY <1>1, <1>3, <1>4, <1>5, HoldersGrow
  <2>3. Faith(Now, Extended(tok))
    BY <1>1, <2>2, FaithGrows
  <2>4. e = Now
    BY <1>5 DEF Consumed
  <2> HIDE DEF e
  <2>5. Faith(e, Extended(tok))
    BY <2>3, <2>4
  <2> QED
    BY <1>1, <1>2, <1>3, <1>4, <1>5, <2>1, <2>5 DEF e
<1>6. CASE calls # <<>>
  <2>1. /\ Keeps(Now, e) /\ call.raw # <<>> /\ call.raw \in Seq(Tokens)
        /\ tok = Head(call.raw) /\ Len(calls) \in 1..Len(calls)
        /\ calls[Len(calls)].raw = call.raw
    BY <1>1, <1>6, ConsumedStore
  <2>2. Consistent(call.raw, doc)
    BY <1>1, <2>1, NowIs DEF Faith
  <2>3. tok \in Ids => Settled(doc, tok) /\ RunsOn(doc.text[tok], Tail(call.raw), 0)
    BY <1>1, <2>1, <2>2, ConsistentRest
  <2>4. Faith(e, doc)
    BY <1>1, <2>1, FaithWithin DEF Keeps
  <2> QED
    BY <1>1, <1>2, <1>6, <2>3, <2>4
<1> QED
  BY <1>5, <1>6

\* OnKey was asked about the pair id, in the state e; r is what became of it.
Asks(e, r, id, raw, act) ==
    /\ Becomes(r) /\ ~dead' /\ ~r.dead /\ Always(r) /\ Hooks(e, r) /\ SameCalls(e, r)
    /\ path' = Append(e.path, id) /\ pend' = act /\ pendSet' = TRUE /\ kvRaw' = raw
    /\ taken' = (IF act = "Defer" THEN taken ELSE [taken EXCEPT ![id] = @ + 1])
    /\ met' = met \union {id}
    /\ st' = st /\ regOpen' = regOpen /\ regT' = regT /\ regDepth' = regDepth
    /\ regKey' = regKey /\ capBuf' = capBuf

LEMMA DispatchedStore ==
    ASSUME NEW e, Always(e), Len(e.frames) >= 1, NEW id \in Ids, NEW raw, NEW act,
           NEW cb, Dispatched(e, id, raw, act, cb)
    PROVE  dead' \/ \E r : Asks(e, r, id, raw, act)
<1> DEFINE r == [Hook(cb, [e EXCEPT !.path = Append(@, id)]) EXCEPT
                     !.frames[Len(e.frames)].ph = "phValue",
                     !.calls = Running(@)]
<1>1. /\ Becomes(r) /\ pend' = act /\ pendSet' = TRUE /\ kvRaw' = raw
      /\ taken' = (IF act = "Defer" THEN taken ELSE [taken EXCEPT ![id] = @ + 1])
      /\ met' = met \union {id}
      /\ st' = st /\ regOpen' = regOpen /\ regT' = regT /\ regDepth' = regDepth
      /\ regKey' = regKey /\ capBuf' = capBuf
  BY DEF Dispatched, regVars
<1>2. Hooks(e, r) /\ (r.dead \/ SameCalls(e, r)) /\ Judged(e, r, id, cb)
  BY JudgedStore, JudgedOK
<1> HIDE DEF r
<1>3. dead' = r.dead /\ path' = Append(e.path, id) /\ Always(r)
  BY <1>1, <1>2 DEF Becomes, Judged
<1> QED
  BY <1>1, <1>2, <1>3 DEF Asks

LEMMA KeyStore ==
    ASSUME IInv, NEW id \in Ids, NEW act \in Answers, NEW cb \in Callbacks,
           Key(id, act, cb)
    PROVE  \/ dead'
           \/ /\ Ready(id) /\ Reads(id) /\ ~regOpen /\ ~pendSet /\ id \in Tokens
              /\ Always(Consumed(Now)) /\ Len(frames) >= 1
              /\ Consumed(Now).frames = frames /\ Consumed(Now).path = path
              /\ path \in Seq(Ids)
              /\ \E r : Asks(Consumed(Now), r, id, id, act)
<1> DEFINE e == Consumed(Now)
<1>1. Ready(id) /\ ~regOpen /\ id \in Tokens
  BY TokensApart DEF Key
<1>2. CASE topFrame.ph = "phValue"
  <2>1. Becomes(Bailed(Now, "syntax"))
    BY <1>2 DEF Key, SyntaxError
  <2>2. dead'
    BY <2>1 DEF Becomes, Bailed, Now
  <2> QED
    BY <2>2
<1>3. CASE topFrame.ph # "phValue"
  <2>1. Dispatched(e, id, id, act, cb) /\ Reads(id)
    BY <1>3 DEF Key
  <2>2. /\ Always(e) /\ e.frames = frames /\ e.path = path /\ Len(frames) >= 1
        /\ path \in Seq(Ids)
    BY <1>1, <2>1, TokenOK
  <2>3. ~pendSet
    <3>1. Live
      BY <1>1 DEF IInv, Ready, Scanning
    <3> QED
      BY <1>1, <1>3, <3>1, NowIs DEF Live, Pending, Asked, InPair, Top, topFrame
  <2> HIDE DEF e
  <2>4. dead' \/ \E r : Asks(e, r, id, id, act)
    BY <2>1, <2>2, DispatchedStore
  <2> QED
    BY <1>1, <2>1, <2>2, <2>3, <2>4 DEF e
<1> QED
  BY <1>2, <1>3

LEMMA AsksFaith ==
    ASSUME NEW e, NEW dc, Always(e), e.path \in Seq(Ids), NEW id \in Ids, NEW act,
           NEW r, Asks(e, r, id, id, act), ~regOpen,
           dc = doc', dc \in DocType, DocOK(dc), TextOK(dc), Faith(e, dc),
           e.calls # <<>> => /\ Settled(dc, id)
                             /\ RunsOn(dc.text[id], e.calls[Len(e.calls)].raw, 0)
    PROVE  Faithful'
<1>1. Faith(r, dc)
  BY HooksFaith DEF Asks
<1>2. e.calls \in Seq(CallType) /\ Len(e.calls) \in Nat
  BY EffectParts
<1>3. /\ calls' = r.calls /\ Len(calls') = Len(e.calls)
      /\ \A k \in 1..Len(e.calls) : calls'[k].raw = e.calls[k].raw
  BY DEF Asks, Becomes, SameCalls
<1>4. AskedFor'
  <2>1. LastOf(path') = id /\ kvRaw' = id
    BY AppendOK DEF Asks
  <2>2. ASSUME calls' # <<>>
        PROVE Settled(dc, id) /\ RunsOn(dc.text[id], LastOf(calls').raw, 0)
    <3>1. e.calls # <<>>
      <4> SUFFICES ASSUME Len(e.calls) = 0 PROVE FALSE
        BY <1>2, EmptySeq
      <4>1. Len(r.calls) = 0 /\ r.calls = calls'
        BY <1>3
      <4>2. r.calls \in Seq(CallType)
        BY EffectParts DEF Asks
      <4> QED
        BY <2>2, <4>1, <4>2, EmptySeq
    <3>2. Len(e.calls) \in 1..Len(e.calls)
      BY <1>2, <3>1, EmptySeq
    <3> QED
      BY <1>3, <3>1, <3>2 DEF LastOf
  <2> QED
    BY <2>1, <2>2 DEF AskedFor, call
<1>5. Copying'
  BY DEF Asks, Copying
<1>6. Becomes(r)
  BY DEF Asks
<1> QED
  BY <1>1, <1>4, <1>5, <1>6, FaithfulNext
LEMMA KeyFaith ==
    ASSUME IInv, Faithful, NEW id \in Ids, NEW act \in Answers, NEW cb \in Callbacks,
           Key(id, act, cb)
    PROVE  Faithful'
<1> DEFINE e == Consumed(Now)
           dc == doc'
<1>1. CASE dead'
  BY <1>1 DEF Faithful
<1>2. CASE ~dead'
  <2>1. /\ Ready(id) /\ Reads(id) /\ ~regOpen /\ id \in Tokens
        /\ Always(e) /\ e.path = path /\ path \in Seq(Ids)
        /\ \E r : Asks(e, r, id, id, act)
    BY <1>2, KeyStore
  <2>2. PICK r : Asks(e, r, id, id, act)
    BY <2>1
  <2>3. /\ dc \in DocType /\ DocOK(dc) /\ TextOK(dc) /\ Faith(e, dc)
        /\ calls # <<>> => /\ doc' = doc /\ Settled(doc, id)
                           /\ RunsOn(doc.text[id], Tail(call.raw), 0)
    BY <2>1, TokenFaith
  <2>4. /\ Len(e.calls) = Len(calls)
        /\ calls # <<>> => e.calls[Len(calls)].raw = Tail(call.raw)
        /\ calls = <<>> => e = Now
    BY <2>1, ConsumedStore DEF IInv
  <2>5. e.calls # <<>> => calls # <<>>
    BY <2>4, NowIs
  <2> HIDE DEF e
  <2>6. e.calls # <<>> => /\ Settled(dc, id)
                          /\ RunsOn(dc.text[id], e.calls[Len(e.calls)].raw, 0)
    BY <2>3, <2>4, <2>5
  <2> HIDE DEF dc
  <2>7. dc = doc'
    BY DEF dc
  <2> QED
    BY <2>1, <2>2, <2>3, <2>6, <2>7, AsksFaith
<1> QED
  BY <1>1, <1>2

\* The next pair to replay is taken off the call on top, its value to be read.
LEMMA NextPairStore ==
    ASSUME IInv, Between, call.todo # <<>>
    PROVE  LET kv == Head(call.todo)
               e == [Now EXCEPT !.calls[Len(calls)].todo = Tail(@),
                                !.calls[Len(calls)].raw = kv.raw]
               m == Len(calls)
           IN  /\ Always(e) /\ kv \in Pairs /\ kv = call.todo[1]
               /\ call.todo \in Seq(Pairs) /\ Len(call.todo) \in Nat \ {0}
               /\ call = calls[m] /\ m \in 1..m /\ Len(frames) >= 1
               /\ path \in Seq(Ids) /\ ~regOpen /\ ~pendSet /\ ~dead
               /\ e.frames = frames /\ e.path = path /\ e.dropped = dropped
               /\ Len(e.calls) = m /\ \A k \in 1..m - 1 : e.calls[k] = calls[k]
               /\ e.calls[m].todo = Tail(call.todo) /\ e.calls[m].raw = kv.raw
<1> DEFINE kv == Head(call.todo)
           d == [call EXCEPT !.todo = Tail(@), !.raw = kv.raw]
           e == [Now EXCEPT !.calls[Len(calls)].todo = Tail(@),
                            !.calls[Len(calls)].raw = kv.raw]
           m == Len(calls)
<1>1. /\ kv = call.todo[1] /\ d.todo = Tail(call.todo) /\ d.raw = kv.raw
      /\ Called(e, d)
  BY NextPairOK
<1>2. /\ ~dead /\ Always(Now) /\ ~regOpen /\ ~pendSet
      /\ LastOf(calls) = call /\ call \in CallType /\ m \in 1..m /\ Len(frames) >= 1
  BY BetweenOK
<1>3. path \in Seq(Ids) /\ Now \in Effect
  BY <1>2, NowIs DEF Always, Effect
<1>4. e.dropped = dropped
  <2> DEFINE a == [Now EXCEPT !.calls[Len(calls)].todo = Tail(@)]
  <2>1. a.dropped = dropped
    BY DEF Now
  <2>2. e = [a EXCEPT !.calls[Len(calls)].raw = kv.raw]
    OBVIOUS
  <2>3. e.dropped = a.dropped
    BY <2>2 DEF Now
  <2> QED
    BY <2>1, <2>3
<1>5. call.todo \in Seq(Pairs)
  BY <1>2 DEF CallType
<1>6. Len(call.todo) \in Nat \ {0}
  BY <1>5, EmptySeq, LenProperties
<1>7. kv \in Pairs
  BY <1>1, <1>5, <1>6
<1> HIDE DEF e, d, kv
<1>8. /\ Always(e) /\ e.frames = frames /\ e.path = path /\ Len(e.calls) = m
      /\ e.calls[m] = d /\ \A k \in 1..m - 1 : e.calls[k] = calls[k]
  BY <1>1 DEF Called, LastOf
<1>9. call = calls[m]
  BY DEF call, LastOf
<1> QED
  BY <1>1, <1>2, <1>3, <1>4, <1>5, <1>6, <1>7, <1>8, <1>9 DEF e, kv

\* The next held pair goes through OnKey again.
LEMMA ReplayNextStore ==
    ASSUME IInv, NEW act \in Answers, NEW cb \in Callbacks, ReplayNext(act, cb)
    PROVE  LET kv == Head(call.todo)
               e == [Now EXCEPT !.calls[Len(calls)].todo = Tail(@),
                                !.calls[Len(calls)].raw = kv.raw]
           IN  /\ Between /\ call.todo # <<>> /\ doc' = doc
               /\ dead' \/ \E r : Asks(e, r, kv.key, kv.keyRaw, act)
<1> DEFINE kv == Head(call.todo)
           e == [Now EXCEPT !.calls[Len(calls)].todo = Tail(@),
                            !.calls[Len(calls)].raw = kv.raw]
<1>1. Between /\ call.todo # <<>> /\ doc' = doc
  BY DEF ReplayNext
<1>2. Dispatched(e, kv.key, kv.keyRaw, act, cb)
  BY DEF ReplayNext
<1>3. Always(e) /\ e.frames = frames /\ Len(frames) >= 1 /\ kv \in Pairs
  BY <1>1, NextPairStore
<1> HIDE DEF e, kv
<1>4. kv.key \in Ids /\ Len(e.frames) >= 1
  BY <1>3 DEF Pairs
<1>5. dead' \/ \E r : Asks(e, r, kv.key, kv.keyRaw, act)
  BY <1>2, <1>3, <1>4, DispatchedStore
<1> QED
  BY <1>1, <1>5 DEF e, kv

LEMMA ReplayNextFaith ==
    ASSUME IInv, Faithful, NEW act \in Answers, NEW cb \in Callbacks,
           ReplayNext(act, cb)
    PROVE  Faithful'
<1> DEFINE kv == Head(call.todo)
           e == [Now EXCEPT !.calls[Len(calls)].todo = Tail(@),
                            !.calls[Len(calls)].raw = kv.raw]
           m == Len(calls)
           dc == doc'
<1>1. CASE dead'
  BY <1>1 DEF Faithful
<1>2. CASE ~dead'
  <2>1. /\ Between /\ call.todo # <<>> /\ doc' = doc
        /\ \E r : Asks(e, r, kv.key, kv.keyRaw, act)
    BY <1>2, ReplayNextStore
  <2>2. /\ Always(e) /\ kv \in Pairs /\ kv = call.todo[1]
        /\ call.todo \in Seq(Pairs) /\ Len(call.todo) \in Nat \ {0}
        /\ call = calls[m] /\ m \in 1..m /\ path \in Seq(Ids) /\ ~regOpen /\ ~dead
        /\ e.frames = frames /\ e.path = path
        /\ Len(e.calls) = m /\ \A k \in 1..m - 1 : e.calls[k] = calls[k]
        /\ e.calls[m].todo = Tail(call.todo) /\ e.calls[m].raw = kv.raw
    BY <2>1, NextPairStore
  <2>3. /\ DocOK(doc) /\ TextOK(doc) /\ Faith(Now, doc) /\ doc \in DocType
    BY <2>2 DEF Faithful, IInv, RestType
  <2> HIDE DEF e, kv, m
  <2>4. Goods(call.todo, doc) /\ Good(kv, doc)
    BY <2>2, <2>3, NowIs DEF Faith, Goods, m
  <2>5. kv.keyRaw = kv.key /\ Settled(doc, kv.key) /\ kv.raw = doc.text[kv.key]
        /\ kv.key \in Ids /\ kv.raw \in Seq(Tokens)
    BY <2>2, <2>4 DEF Good, Pairs
  <2>6. Consistent(kv.raw, doc)
    BY <2>3, <2>5, TextReads
  <2>7. Goods(Tail(call.todo), doc)
    <3>1. Len(Tail(call.todo)) = Len(call.todo) - 1
          /\ \A j \in 1..Len(call.todo) - 1 : Tail(call.todo)[j] = call.todo[j + 1]
      BY <2>2, HeadTailProperties, EmptySeq
    <3>2. \A j \in 1..Len(call.todo) - 1 : j + 1 \in 1..Len(call.todo)
      BY <2>2
    <3> QED
      BY <2>4, <3>1, <3>2 DEF Goods
  <2>8. Faith(e, doc)
    <3>1. \A k \in 1..m : k = m \/ k \in 1..m - 1
      BY <2>2
    <3>2. \A k \in 1..m - 1 : k \in 1..m
      BY <2>2
    <3>3. \A k \in 1..m : Goods(e.calls[k].todo, doc) /\ Consistent(e.calls[k].raw, doc)
      BY <2>2, <2>3, <2>6, <2>7, <3>1, <3>2, NowIs DEF Faith, m
    <3> QED
      BY <2>2, <2>3, <3>3, NowIs DEF Faith
  <2>9. RunsOn(doc.text[kv.key], e.calls[Len(e.calls)].raw, 0)
    <3>1. Len(kv.raw) \in Nat
      BY <2>5, LenProperties
    <3>2. RunsOn(kv.raw, kv.raw, 0)
      BY <3>1 DEF RunsOn
    <3> QED
      BY <2>2, <2>5, <3>2
  <2> HIDE DEF dc
  <2>10. dc = doc' /\ dc = doc
    BY <2>1 DEF dc
  <2>11. PICK r : Asks(e, r, kv.key, kv.key, act)
    BY <2>1, <2>5
  <2>12. e.path \in Seq(Ids)
    BY <2>2
  <2> QED
    BY <2>2, <2>3, <2>5, <2>8, <2>9, <2>10, <2>11, <2>12, AsksFaith
<1> QED
  BY <1>1, <1>2

\* The value of the pair OnKey was asked about begins.
Begins(tok, e, r) ==
    /\ Becomes(r) /\ Keeps(e, r) /\ SameCalls(e, r)
    /\ path' = path /\ pendSet' = FALSE /\ pend' = pend /\ kvRaw' = kvRaw
    /\ taken' = taken /\ met' = met
    /\ IF pend = "Enter"
       THEN regOpen' = regOpen
       ELSE /\ regOpen' = TRUE /\ regDepth' = depth
            /\ regT' = "rtDefer" <=> pend = "Defer"
            /\ pend = "Defer" => regKey' = LastOf(path) /\ capBuf' = <<tok>>
            /\ st' = IF tok = Simple THEN "sInStr" ELSE "sIdle"

LEMMA ValueStore ==
    ASSUME IInv, NEW tok \in Tokens, Value(tok)
    PROVE  \/ dead'
           \/ /\ tok \in {Simple, Open} /\ tok \notin Ids /\ Ready(tok) /\ Reads(tok)
              /\ ~regOpen /\ pendSet /\ ~dead /\ ~rootDone
              /\ Always(Consumed(Now)) /\ Len(frames) >= 1
              /\ Consumed(Now).frames = frames /\ Consumed(Now).path = path
              /\ path \in Seq(Ids) /\ path # <<>> /\ LastOf(path) \in Ids
              /\ topFrame.ph = "phValue"
              /\ \E r : Begins(tok, Consumed(Now), r)
<1> DEFINE e == Consumed(Now)
           x == [e EXCEPT !.depth = IF tok = Open THEN @ + 1 ELSE @]
           w == [pushFrame(e) EXCEPT !.depth = @ + 1]
<1>1. tok \in {Simple, Open} /\ Ready(tok) /\ ~regOpen /\ tok \notin Ids
  BY TokensApart DEF Value
<1>2. CASE topFrame.ph # "phValue"
  <2>1. Becomes(Bailed(Now, "syntax"))
    BY <1>2 DEF Value, SyntaxError
  <2>2. dead'
    BY <2>1 DEF Becomes, Bailed, Now
  <2> QED
    BY <2>2
<1>3. CASE topFrame.ph = "phValue"
  <2>1. /\ Reads(tok) /\ pendSet' = FALSE /\ pend' = pend /\ kvRaw' = kvRaw
        /\ taken' = taken /\ met' = met
    BY <1>1, <1>3 DEF Value, tallies
  <2>2. \/ pend = "Enter" /\ Becomes(Bailed(Now, "unsupported"))
        \/ pend = "Enter" /\ Becomes(w) /\ regOpen' = regOpen
        \/ /\ pend # "Enter" /\ Becomes(x) /\ regOpen' = TRUE /\ regDepth' = depth
           /\ regT' = TargetOf(pend)
           /\ regKey' = (IF pend = "Defer" THEN LastOf(path) ELSE regKey)
           /\ capBuf' = (IF pend = "Pass" THEN <<>> ELSE <<tok>>)
           /\ st' = IF tok = Simple THEN "sInStr" ELSE "sIdle"
    BY <1>1, <1>3 DEF Value, regVars
  <2>3. /\ Always(e) /\ e.frames = frames /\ e.path = path /\ Len(frames) >= 1
        /\ path \in Seq(Ids) /\ Len(frames) \in Nat
    BY <1>1, <2>1, TokenOK
  <2>4. ~dead /\ ~rootDone /\ Live
    BY <1>1 DEF IInv, Ready, Scanning
  <2>5. ~Waits(Now)
    BY <1>1, NowIs DEF Ready, InReplay, call, Waits
  <2>6. pendSet
    BY <1>1, <1>3, <2>4, NowIs DEF Live, Rest, Top, topFrame
  <2>7. Len(path) = Len(frames)
    BY <1>1, <2>4, <2>6, NowIs DEF Live, Pending, Asked, InPair
  <2>8. path # <<>> /\ LastOf(path) \in Ids
    <3>1. path # <<>>
      BY <2>3, <2>7, EmptySeq
    <3> QED
      BY <2>3, <3>1, FrontOK
  <2> HIDE DEF e
  <2>9. e \in Effect
    BY <2>3 DEF Always
  <2>10. CASE Becomes(Bailed(Now, "unsupported"))
    <3>1. dead'
      BY <2>10 DEF Becomes, Bailed, Now
    <3> QED
      BY <3>1
  <2>11. CASE pend = "Enter" /\ Becomes(w) /\ regOpen' = regOpen
    <3>1. Keeps(e, w) /\ SameCalls(e, w) /\ Entered(e, w)
      BY <2>3, EnteredStore, EnteredOK
    <3> HIDE DEF w
    <3>2. path' = path
      BY <2>3, <2>11, <3>1 DEF Entered, Becomes
    <3>3. Begins(tok, e, w)
      BY <2>1, <2>11, <3>1, <3>2 DEF Begins
    <3> QED
      BY <1>1, <1>3, <2>1, <2>3, <2>4, <2>6, <2>8, <3>3 DEF e
  <2>12. CASE /\ pend # "Enter" /\ Becomes(x) /\ regOpen' = TRUE /\ regDepth' = depth
              /\ regT' = TargetOf(pend)
              /\ regKey' = (IF pend = "Defer" THEN LastOf(path) ELSE regKey)
              /\ capBuf' = (IF pend = "Pass" THEN <<>> ELSE <<tok>>)
              /\ st' = IF tok = Simple THEN "sInStr" ELSE "sIdle"
    <3>1. /\ x.frames = e.frames /\ x.calls = e.calls /\ x.dropped = e.dropped
          /\ x.path = e.path
      BY <2>9 DEF Effect
    <3> HIDE DEF x
    <3>2. Keeps(e, x) /\ SameCalls(e, x)
      BY <3>1, SameKeeps DEF SameCalls
    <3>3. path' = path
      BY <2>3, <2>12, <3>1 DEF Becomes
    <3>4. regT' = "rtDefer" <=> pend = "Defer"
      BY <2>12 DEF TargetOf
    <3>5. Begins(tok, e, x)
      BY <2>1, <2>12, <3>2, <3>3, <3>4 DEF Begins
    <3> QED
      BY <1>1, <1>3, <2>1, <2>3, <2>4, <2>6, <2>8, <3>5 DEF e
  <2> QED
    BY <2>2, <2>10, <2>11, <2>12
<1> QED
  BY <1>2, <1>3

\* The value that ends is that of the last pair on the path of the document.
LEMMA LastSettles ==
    ASSUME doc \in DocType, NEW tok \in Tokens, Grows(tok), Extended(tok) \in DocType,
           DocOK(doc), tok \in {Simple, Close}, Len(PathOf(doc)) >= 1
    PROVE  LET q == PathOf(doc)
           IN  q[Len(q)] \in Ids /\ Settled(Extended(tok), q[Len(q)])
<1> DEFINE q == PathOf(doc)
           x == Extended(tok)
           r == PathOf(x)
           id == q[Len(q)]
<1>1. /\ doc.last \in Nat /\ 1..doc.last \subseteq Ids /\ Len(q) \in Nat /\ Len(r) \in Nat
      /\ x.last = (IF tok \in Ids THEN tok ELSE doc.last)
      /\ tok \notin Ids => Len(r) <= Len(q) /\ \A i \in 1..Len(r) : r[i] = q[i]
      /\ tok = Simple => Len(r) = Len(q) - 1
      /\ tok = Close => \/ Len(q) = 0 /\ Len(r) = 0
                        \/ Len(r) = Len(q) - 1
  BY TextGrows
<1>2. tok \notin Ids
  BY TokensApart
<1>3. /\ \A i \in 1..Len(q) : q[i] \in 1..doc.last
      /\ \A i, j \in 1..Len(q) : i < j => q[i] < q[j]
  BY DEF DocOK
<1> HIDE DEF x, r, q
<1>4. Len(r) = Len(q) - 1 /\ Len(q) >= 1
  BY <1>1 DEF q
<1>5. id \in 1..doc.last /\ x.last = doc.last
  BY <1>1, <1>2, <1>3, <1>4
<1>6. \A i \in 1..Len(r) : r[i] # id
  <2> SUFFICES ASSUME NEW i \in 1..Len(r) PROVE r[i] # id
    OBVIOUS
  <2>1. i \in 1..Len(q) /\ Len(q) \in 1..Len(q) /\ i < Len(q)
    BY <1>1, <1>4
  <2>2. q[i] < id /\ q[i] = r[i] /\ q[i] \in 1..doc.last
    BY <1>1, <1>2, <1>3, <2>1
  <2> QED
    BY <1>1, <1>5, <2>2
<1>7. Settled(x, id)
  BY <1>5, <1>6 DEF Settled, HoldersOf, r
<1> QED
  BY <1>1, <1>5, <1>7 DEF q, x

\* The calls are as many, and the one on top reads on.
LEMMA SourceOnTop ==
    ASSUME Always(Now), NEW tok \in Tokens, Ready(tok), NEW r, Always(r), calls' = r.calls,
           SameCalls(Consumed(Now), r)
    PROVE  /\ calls' = <<>> <=> calls = <<>>
           /\ calls # <<>> => call' .raw = Tail(call.raw)
<1> DEFINE e == Consumed(Now)
<1>1. /\ Len(e.calls) = Len(calls)
      /\ calls # <<>> => Len(calls) \in 1..Len(calls) /\ e.calls[Len(calls)].raw = Tail(call.raw)
  BY ConsumedStore
<1>2. /\ Len(calls') = Len(calls)
      /\ calls # <<>> => calls'[Len(calls)].raw = Tail(call.raw)
  BY <1>1 DEF SameCalls
<1>3. calls \in Seq(CallType) /\ calls' \in Seq(CallType)
  BY EffectParts, NowIs
<1>4. calls' = <<>> <=> calls = <<>>
  BY <1>2, <1>3, EmptySeq
<1> QED
  BY <1>2, <1>4 DEF call, LastOf

LEMMA ValueFaith ==
    ASSUME IInv, Faithful, Agree, NEW tok \in Tokens, Value(tok), IInv'
    PROVE  Faithful'
<1> DEFINE e == Consumed(Now)
           dc == doc'
           id == LastOf(path)
<1>1. CASE dead'
  BY <1>1 DEF Faithful
<1>2. CASE ~dead'
  <2>1. /\ tok \in {Simple, Open} /\ tok \notin Ids /\ Ready(tok) /\ Reads(tok)
        /\ ~regOpen /\ pendSet /\ ~dead /\ ~rootDone
        /\ Always(e) /\ Len(frames) >= 1 /\ path \in Seq(Ids) /\ path # <<>>
        /\ LastOf(path) \in Ids /\ topFrame.ph = "phValue"
        /\ \E r : Begins(tok, e, r)
    BY <1>2, ValueStore
  <2>2. PICK r : Begins(tok, e, r)
    BY <2>1
  <2>3. /\ doc \in DocType /\ dc \in DocType /\ DocOK(dc) /\ TextOK(dc) /\ Faith(e, dc)
        /\ DocOK(doc) /\ TextOK(doc)
        /\ calls # <<>> => doc' = doc
        /\ calls = <<>> => Grows(tok) /\ dc = Extended(tok) /\ Extended(tok) \in DocType
    BY <2>1, TokenFaith
  <2>4. Faith(r, dc)
    BY <2>1, <2>2, <2>3, FaithWithin DEF Begins, Keeps
  <2>5. Becomes(r) /\ calls' = r.calls /\ Always(Now)
    BY <2>2 DEF Begins, Becomes, IInv
  <2>6. AskedFor'
    BY <2>2 DEF Begins, AskedFor
  <2>7. Always(Now)' /\ Now'.calls = calls'
    BY DEF IInv, Now
  <2>8. /\ calls' = <<>> <=> calls = <<>>
        /\ calls # <<>> => /\ call'.raw = Tail(call.raw)
                           /\ call.raw # <<>> /\ call.raw \in Seq(Tokens)
                           /\ tok = Head(call.raw)
    <3>1. SameCalls(e, Now')
      BY <2>2, <2>5, <2>7 DEF Begins, SameCalls
    <3>2. Always(Now')
      BY <2>7
    <3>3. /\ calls' = <<>> <=> calls = <<>>
          /\ calls # <<>> => call'.raw = Tail(call.raw)
      BY <2>1, <2>5, <2>7, <3>1, <3>2, SourceOnTop
    <3>4. calls # <<>> => /\ call.raw # <<>> /\ call.raw \in Seq(Tokens)
                          /\ tok = Head(call.raw)
      BY <2>1, <2>5, ConsumedStore
    <3> QED
      BY <3>3, <3>4
  <2>9. Copying'
    <3> SUFFICES ASSUME regOpen', regT' = "rtDefer"
                 PROVE  /\ kvRaw' = regKey' /\ regKey' \in 1..dc.last
                        /\ IF calls' = <<>>
                           THEN /\ capBuf' = dc.text[regKey']
                                /\ IF st' = "sIdle"
                                   THEN /\ regDepth' \in 1..Len(dc.open)
                                        /\ regKey' = dc.open[regDepth']
                                   ELSE Settled(dc, regKey')
                           ELSE /\ Settled(dc, regKey')
                                /\ Ahead(dc.text[regKey'], capBuf', call'.raw)
      BY DEF Copying
    <3>1. /\ pend = "Defer" /\ regKey' = id /\ capBuf' = <<tok>> /\ regDepth' = depth
          /\ st' = (IF tok = Simple THEN "sInStr" ELSE "sIdle") /\ kvRaw' = kvRaw
      BY <2>1, <2>2 DEF Begins
    <3>2. kvRaw = id /\ (calls # <<>> => Settled(doc, id) /\ RunsOn(doc.text[id], call.raw, 0))
      BY <2>1 DEF Faithful, AskedFor
    <3> HIDE DEF id
    <3>3. CASE calls # <<>>
      <4>1. Settled(dc, id) /\ dc = doc
        BY <2>3, <3>2, <3>3
      <4>2. RunsOn(dc.text[id], call.raw, 0) /\ dc.text[id] \in Seq(Tokens)
        <5>1. id \in Ids
          BY <2>1 DEF id
        <5> QED
          BY <2>3, <3>2, <3>3, <4>1, <5>1 DEF DocType
      <4> DEFINE t == dc.text[id]
                 u == call.raw
      <4>3. /\ Len(t) \in Nat /\ Len(u) \in Nat \ {0} /\ Len(t) <= Len(u)
            /\ \A j \in 1..Len(t) : u[j] = t[j]
            /\ u[1] = tok /\ Len(Tail(u)) = Len(u) - 1
            /\ \A j \in 1..Len(u) - 1 : Tail(u)[j] = u[j + 1]
        <5>1. Len(t) \in Nat /\ Len(u) \in Nat \ {0}
          BY <2>8, <3>3, <4>2, LenProperties, EmptySeq
        <5>2. /\ 0 + Len(t) <= Len(u) /\ \A j \in 1..Len(t) : u[0 + j] = t[j]
          BY <4>2 DEF RunsOn
        <5>3. Len(t) <= Len(u) /\ \A j \in 1..Len(t) : u[j] = t[j]
          BY <5>1, <5>2
        <5>4. /\ u[1] = tok /\ Len(Tail(u)) = Len(u) - 1
              /\ \A j \in 1..Len(u) - 1 : Tail(u)[j] = u[j + 1]
          BY <2>8, <3>3, HeadTailProperties
        <5> QED
          BY <5>1, <5>3, <5>4
      <4> HIDE DEF t, u
      <4>4. Ahead(t, <<tok>>, Tail(u))
        <5>1. Len(<<tok>>) = 1 /\ <<tok>>[1] = tok
          OBVIOUS
        <5>2. Len(t) <= 1 + Len(Tail(u))
          BY <4>3
        <5>3. ASSUME NEW j \in 1..Len(t)
              PROVE  t[j] = IF j <= 1 THEN <<tok>>[j] ELSE Tail(u)[j - 1]
          <6>1. CASE j = 1
            BY <4>3, <5>1, <6>1
          <6>2. CASE j # 1
            <7>1. j - 1 \in 1..Len(u) - 1 /\ (j - 1) + 1 = j /\ ~(j <= 1)
              BY <4>3, <6>2
            <7>2. Tail(u)[j - 1] = u[j]
              BY <4>3, <7>1
            <7> QED
              BY <4>3, <7>1, <7>2
          <6> QED
            BY <6>1, <6>2
        <5> QED
          BY <5>1, <5>2, <5>3 DEF Ahead
      <4>5. Ahead(dc.text[id], <<tok>>, call'.raw)
        BY <2>8, <3>3, <4>4 DEF t, u
      <4>6. id \in 1..dc.last
        BY <4>1 DEF Settled
      <4> QED
        BY <2>8, <3>1, <3>2, <3>3, <4>1, <4>5, <4>6
    <3>4. CASE calls = <<>>
      <4> DEFINE q == PathOf(doc)
                 x == Extended(tok)
      <4>1. /\ Len(frames) \in Nat /\ depth \in Nat /\ Len(doc.open) = depth - 1
            /\ depth = Len(frames) /\ doc.value # 0
            /\ Len(path) = Len(frames)
        <5>1. st = "sIdle"
          BY <2>1 DEF Ready
        <5> QED
          BY <2>1, <3>4, <5>1, DocumentAt
      <4>2. /\ q \in Seq(Ids) /\ Len(doc.open) \in Nat /\ Len(q) = Len(doc.open) + 1
            /\ q[Len(doc.open) + 1] = doc.value /\ doc.open \in Seq(Ids)
        BY <2>3, <4>1, PathOfOK
      <4>3. id = doc.value /\ Len(q) = depth
        <5>1. Len(q) = depth /\ depth = Len(path) /\ depth >= 1
          BY <2>1, <4>1, <4>2
        <5>2. q = docPath
          BY DEF PathOf, docPath
        <5>3. path[depth] = q[depth]
          BY <4>1, <5>1, <5>2 DEF Agree
        <5> QED
          BY <4>1, <4>2, <5>1, <5>3 DEF id, LastOf
      <4>4. /\ id \in HoldersOf(doc) /\ doc.text[id] = <<>> /\ id \in 1..doc.last
            /\ id \in Ids
        <5>1. Len(q) \in 1..Len(q) /\ q[Len(q)] = id
          BY <2>1, <4>1, <4>2, <4>3
        <5>2. id \in HoldersOf(doc)
          BY <5>1 DEF HoldersOf
        <5>3. \A i \in 1..Len(q) : q[i] \in 1..doc.last
          BY <2>3 DEF DocOK
        <5>4. doc.text[doc.value] = <<>>
          BY <2>3, <4>1 DEF DocOK
        <5> QED
          BY <2>1, <4>3, <5>1, <5>2, <5>3, <5>4 DEF id
      <4>5. /\ x.text[id] = Append(doc.text[id], tok) /\ x.last = doc.last
            /\ tok = Open => x.open = Append(doc.open, doc.value)
        <5>1. /\ \A i \in Ids : x.text[i] = IF i \in HoldersOf(doc)
                                            THEN Append(doc.text[i], tok) ELSE doc.text[i]
              /\ x.last = IF tok \in Ids THEN tok ELSE doc.last
          BY <2>3, <3>4, TextGrows
        <5>2. tok = Open => x.open = Append(doc.open, doc.value)
          BY DEF Extended
        <5> QED
          BY <2>1, <4>4, <5>1, <5>2
      <4> HIDE DEF x
      <4>6. dc.text[id] = <<tok>> /\ id \in 1..dc.last
        BY <2>3, <3>4, <4>4, <4>5 DEF x
      <4>7. CASE tok = Simple
        <5>1. Settled(Extended(tok), q[Len(q)])
          <6>1. Len(q) >= 1
            BY <4>2
          <6> QED
            BY <2>3, <3>4, <4>7, <6>1, LastSettles
        <5>2. Settled(dc, id)
          BY <2>3, <3>4, <4>1, <4>2, <4>3, <5>1
        <5>3. st' # "sIdle"
          BY <3>1, <4>7
        <5> QED
          BY <2>8, <3>1, <3>2, <3>4, <4>6, <5>2, <5>3
      <4>8. CASE tok = Open
        <5>1. dc.open = Append(doc.open, doc.value)
          BY <2>3, <3>4, <4>5, <4>8 DEF x
        <5>2. doc.value \in Ids
          BY <4>3, <4>4
        <5>3. Len(dc.open) = Len(doc.open) + 1 /\ dc.open[Len(doc.open) + 1] = doc.value
          BY <4>2, <5>1, <5>2, AppendOK
        <5>4. depth \in 1..Len(dc.open) /\ dc.open[depth] = id
          BY <4>1, <4>3, <5>3
        <5>5. st' = "sIdle"
          BY <3>1, <4>8, TokensApart
        <5> QED
          BY <2>8, <3>1, <3>2, <3>4, <4>6, <5>4, <5>5
      <4> QED
        BY <2>1, <4>7, <4>8
    <3> QED
      BY <3>3, <3>4
  <2> QED
    BY <2>3, <2>4, <2>5, <2>6, <2>9, FaithfulNext
<1> QED
  BY <1>1, <1>2

\* The source gives its first token to the copy.
LEMMA AheadOn ==
    ASSUME NEW t \in Seq(Tokens), NEW b \in Seq(Tokens), NEW r \in Seq(Tokens),
           r # <<>>, Ahead(t, b, r)
    PROVE  Ahead(t, Append(b, Head(r)), Tail(r))
<1> DEFINE x == Head(r)
           c == Append(b, x)
           s == Tail(r)
<1>1. /\ Len(t) \in Nat /\ Len(b) \in Nat /\ Len(r) \in Nat \ {0} /\ x \in Tokens
      /\ r[1] = x /\ Len(s) = Len(r) - 1
      /\ \A j \in 1..Len(r) - 1 : s[j] = r[j + 1]
  BY LenProperties, EmptySeq, HeadTailProperties
<1>2. /\ Len(c) = Len(b) + 1 /\ c[Len(b) + 1] = x
      /\ \A j \in 1..Len(b) : c[j] = b[j]
  BY <1>1, AppendOK
<1>3. /\ Len(t) <= Len(b) + Len(r)
      /\ \A j \in 1..Len(t) : t[j] = IF j <= Len(b) THEN b[j] ELSE r[j - Len(b)]
  BY DEF Ahead
<1> HIDE DEF x, c, s
<1>4. Len(t) <= Len(c) + Len(s)
  BY <1>1, <1>2, <1>3
<1>5. ASSUME NEW j \in 1..Len(t)
      PROVE  t[j] = IF j <= Len(c) THEN c[j] ELSE s[j - Len(c)]
  <2>1. CASE j <= Len(b)
    <3>1. j \in 1..Len(b) /\ j <= Len(c)
      BY <1>1, <1>2, <2>1
    <3> QED
      BY <1>2, <1>3, <1>5, <2>1, <3>1
  <2>2. CASE j = Len(b) + 1
    <3>1. ~(j <= Len(b)) /\ j <= Len(c) /\ j - Len(b) = 1
      BY <1>1, <1>2, <2>2
    <3>2. t[j] = r[1]
      BY <1>3, <1>5, <3>1
    <3> QED
      BY <1>1, <1>2, <2>2, <3>1, <3>2
  <2>3. CASE j > Len(b) + 1
    <3>1. /\ ~(j <= Len(b)) /\ ~(j <= Len(c)) /\ j - Len(c) \in 1..Len(r) - 1
          /\ (j - Len(c)) + 1 = j - Len(b)
      BY <1>1, <1>2, <1>3, <1>5, <2>3
    <3>2. t[j] = r[j - Len(b)]
      BY <1>3, <1>5, <3>1
    <3>3. s[j - Len(c)] = r[j - Len(b)]
      BY <1>1, <3>1
    <3> QED
      BY <3>1, <3>2, <3>3
  <2> QED
    BY <1>1, <1>5, <2>1, <2>2, <2>3
<1>6. Ahead(t, c, s)
  BY <1>4, <1>5 DEF Ahead
<1> QED
  BY <1>6 DEF x, c, s

\* A copy that is a whole value is all that was to be copied.
LEMMA AheadWhole ==
    ASSUME NEW t \in Seq(Tokens), NEW b \in Seq(Tokens), NEW r, Ahead(t, b, r),
           Whole(t), Whole(b)
    PROVE  b = t
<1>1. \A i \in 1..Len(b) : i <= Len(t) => b[i] = t[i]
  BY DEF Ahead
<1> QED
  BY <1>1, WholeUnique

\* A region goes on, or ends: e is what the scan sees after the token.
Advances(tok, cb, e, raw) ==
    /\ Always(e) /\ e.frames = frames /\ e.calls = Consumed(Now).calls
    /\ e.path = path /\ e.dropped = dropped
    /\ raw \in Seq(Tokens)
    /\ regT = "rtDefer" => raw = Append(capBuf, tok)
    /\ IF tok = Close /\ depth - 1 = regDepth
       THEN /\ Becomes(endRegion(e, raw, cb))
            /\ regOpen' = FALSE /\ regT' = "rtNone"
            /\ regT = "rtDefer" => Whole(raw)
       ELSE /\ Becomes(e) /\ capBuf' = raw /\ regOpen' = regOpen
            /\ regT' = regT /\ regDepth' = regDepth /\ regKey' = regKey

LEMMA RegionStore ==
    ASSUME IInv, NEW tok \in Tokens, NEW cb \in Callbacks, RegionByte(tok, cb)
    PROVE  /\ Ready(tok) /\ Reads(tok) /\ regOpen /\ ~pendSet /\ ~dead /\ ~rootDone
           /\ st = "sIdle" /\ Always(Now)
           /\ Len(frames) >= 1 /\ path # <<>> /\ path \in Seq(Ids)
           /\ capBuf \in Seq(Tokens)
           /\ regDepth \in Nat /\ depth \in Nat /\ regDepth >= 1 /\ depth > regDepth
           /\ regT = "rtDefer" => kvRaw \in Ids /\ regKey \in Ids
           /\ pend' = pend /\ pendSet' = pendSet /\ kvRaw' = kvRaw /\ st' = st
           /\ taken' = taken /\ met' = met
           /\ \E e, raw : Advances(tok, cb, e, raw)
<1> DEFINE q == Consumed(Now)
           d == CASE tok = Open  -> q.depth + 1
                  [] tok = Close -> q.depth - 1
                  [] OTHER         -> q.depth
           e == [q EXCEPT !.depth = d]
           copy == IF Copies THEN Append(capBuf, tok) ELSE capBuf
           z == tok \in Ids
<1>1. /\ Ready(tok) /\ regOpen /\ Reads(tok)
      /\ IF tok = Close /\ e.depth = regDepth
         THEN RegionEnds(e, copy, cb)
         ELSE /\ Becomes(e) /\ capBuf' = copy /\ regOpen' = regOpen
              /\ regT' = regT /\ regDepth' = regDepth /\ regKey' = regKey
      /\ pend' = pend /\ pendSet' = pendSet /\ kvRaw' = kvRaw /\ st' = st
      /\ taken' = taken /\ met' = met
  <2>1. [q EXCEPT !.depth = CASE tok = Open  -> @ + 1
                              [] tok = Close -> @ - 1
                              [] OTHER         -> @] = e
    OBVIOUS
  <2> HIDE DEF q
  <2> QED
    BY <2>1, Zenon DEF RegionByte, q, tallies
<1>2. /\ ~dead /\ ~rootDone /\ st = "sIdle" /\ Live /\ Always(Now) /\ RestType
  BY <1>1 DEF Ready, Scanning, IInv
<1>3. ~pendSet /\ InRegion /\ Stack(Now, doc)
  BY <1>1, <1>2 DEF Live
<1>4. /\ Len(path) = Len(frames) /\ regDepth = Len(frames) /\ depth > regDepth
      /\ regT = "rtDefer" => kvRaw \in Ids /\ regKey \in Ids
  BY <1>2, <1>3, NowIs DEF InRegion, InPair
<1>5. PICK v \in BOOLEAN :
          /\ Reads0(Now, doc, v)
          /\ regT = "rtDefer" => Walk(capBuf, 0, TRUE, depth - regDepth, v)
  BY <1>3 DEF InRegion
<1>6. /\ Len(frames) >= 1 /\ depth \in Nat /\ regDepth \in Nat /\ depth >= 1
      /\ path \in Seq(Ids) /\ path # <<>> /\ capBuf \in Seq(Tokens)
  <2>1. Len(frames) >= 1 /\ regDepth \in Nat /\ capBuf \in Seq(Tokens)
    BY <1>2, <1>3, NowIs DEF Stack, RestType
  <2>2. depth \in Nat /\ path \in Seq(Ids)
    BY <1>2, NowIs DEF Always, Effect
  <2> QED
    BY <1>4, <2>1, <2>2, EmptySeq
<1>7. v = (tok \in {Simple, Open})
  BY <1>1, <1>2, <1>5, SeesOK
<1>8. /\ Always(q) /\ q.frames = frames /\ q.path = path
  BY <1>1, TokenOK
<1>9. q.depth = depth /\ q.dropped = dropped
  BY NowIs DEF Consumed
<1> HIDE DEF q
<1>10. d = depth + Turn(tok)
  BY <1>6, <1>9, TokensApart DEF Turn
<1> HIDE DEF d
<1>11. Turned(q, e, tok)
  BY <1>6, <1>8, <1>9, <1>10, TurnedOK
<1>12. e.dropped = dropped
  BY <1>9
<1> HIDE DEF e
<1>13. /\ Always(e) /\ e.frames = frames /\ e.calls = q.calls /\ e.path = path
       /\ e.depth = depth + Turn(tok)
  BY <1>8, <1>9, <1>11 DEF Turned
<1>14. copy \in Seq(Tokens)
  BY <1>6, AppendProperties
<1>15. regT = "rtDefer" => copy = Append(capBuf, tok)
  BY DEF Copies
<1> HIDE DEF copy
<1>16. ASSUME regT = "rtDefer", tok = Close, depth - 1 = regDepth PROVE Whole(copy)
  <2> DEFINE n == depth - regDepth
             m == n + Turn(tok)
             yes == TRUE
  <2>1. n \in Nat \ {0} /\ m = 0 /\ m \in Nat
    BY <1>4, <1>6, <1>16, TokensApart DEF Turn
  <2>2. Walk(capBuf, 0, yes, n, v)
    BY <1>5, <1>16
  <2> HIDE DEF n
  <2>3. Reading(n, v, tok, m, z)
    BY <1>7, <2>1, ReadingIs DEF z
  <2>4. z \in BOOLEAN /\ z = FALSE
    BY <1>16, TokensApart DEF z
  <2> HIDE DEF m, yes, z
  <2>5. Walk(Append(capBuf, tok), 0, yes, m, z)
    BY <1>6, <2>1, <2>2, <2>3, <2>4, WalkOn
  <2> QED
    BY <1>15, <1>16, <2>1, <2>4, <2>5 DEF yes, Whole
<1>17. tok = Close => e.depth = depth - 1
  BY <1>6, <1>13, TokensApart DEF Turn
<1>18. Advances(tok, cb, e, copy)
  <2>1. CASE tok = Close /\ depth - 1 = regDepth
    <3>1. RegionEnds(e, copy, cb)
      BY <1>1, <1>17, <2>1
    <3>2. /\ Becomes(endRegion(e, copy, cb)) /\ regOpen' = FALSE /\ regT' = "rtNone"
      BY <3>1 DEF RegionEnds
    <3> QED
      BY <1>12, <1>13, <1>14, <1>15, <1>16, <2>1, <3>2 DEF Advances, q
  <2>2. CASE ~(tok = Close /\ depth - 1 = regDepth)
    <3>1. /\ Becomes(e) /\ capBuf' = copy /\ regOpen' = regOpen
          /\ regT' = regT /\ regDepth' = regDepth /\ regKey' = regKey
      BY <1>1, <1>17, <2>2
    <3> QED
      BY <1>12, <1>13, <1>14, <1>15, <2>2, <3>1 DEF Advances, q
  <2> QED
    BY <2>1, <2>2
<1> QED
  BY <1>1, <1>2, <1>3, <1>4, <1>6, <1>18

\* The region of a held pair copies the token too.
LEMMA RegionGrows ==
    ASSUME IInv, Faithful, NEW tok \in Tokens, NEW cb \in Callbacks,
           RegionByte(tok, cb), regT = "rtDefer"
    PROVE  LET b == Append(capBuf, tok)
               t == doc'.text[regKey]
               ends == tok = Close /\ depth - 1 = regDepth
           IN  /\ kvRaw = regKey /\ regKey \in 1..doc'.last /\ regKey \in Ids
               /\ calls = <<>> =>
                    /\ b = t
                    /\ ends => Settled(doc', regKey)
                    /\ ~ends => /\ regDepth \in 1..Len(doc'.open)
                                /\ regKey = doc'.open[regDepth]
               /\ calls # <<>> =>
                    /\ Settled(doc', regKey) /\ Ahead(t, b, Tail(call.raw))
                    /\ ends => b = t
<1> DEFINE b == Append(capBuf, tok)
           t == doc'.text[regKey]
           ends == tok = Close /\ depth - 1 = regDepth
<1>1. /\ Ready(tok) /\ Reads(tok) /\ regOpen /\ ~pendSet /\ ~dead /\ ~rootDone
      /\ st = "sIdle" /\ Always(Now) /\ capBuf \in Seq(Tokens)
      /\ regDepth \in Nat /\ depth \in Nat /\ regDepth >= 1 /\ depth > regDepth
      /\ kvRaw \in Ids /\ regKey \in Ids
  BY RegionStore
<1>2. PICK e, raw : Advances(tok, cb, e, raw)
  BY RegionStore
<1>3. b \in Seq(Tokens) /\ (ends => Whole(b))
  BY <1>2 DEF Advances
<1>4. /\ doc \in DocType /\ doc' \in DocType /\ DocOK(doc) /\ TextOK(doc)
      /\ DocOK(doc')
      /\ calls = <<>> => /\ Grows(tok) /\ doc' = Extended(tok)
                         /\ Extended(tok) \in DocType
      /\ calls # <<>> => doc' = doc
  BY <1>1, TokenFaith
<1>5. /\ kvRaw = regKey /\ regKey \in 1..doc.last
      /\ calls = <<>> => /\ capBuf = doc.text[regKey]
                         /\ regDepth \in 1..Len(doc.open)
                         /\ regKey = doc.open[regDepth]
      /\ calls # <<>> => /\ Settled(doc, regKey)
                         /\ Ahead(doc.text[regKey], capBuf, call.raw)
  BY <1>1 DEF Faithful, Copying
<1>6. CASE calls = <<>>
  <2> DEFINE q == PathOf(doc)
             x == Extended(tok)
  <2>1. /\ Len(doc.open) = depth - 1 /\ Len(doc.open) \in Nat
        /\ q \in Seq(Ids) /\ doc.open \in Seq(Ids)
        /\ \A k \in 1..Len(doc.open) : q[k] = doc.open[k]
        /\ Len(q) = IF doc.value # 0 THEN Len(doc.open) + 1 ELSE Len(doc.open)
    BY <1>1, <1>4, <1>6, DocumentAt, PathOfOK
  <2>2. /\ x.last = IF tok \in Ids THEN tok ELSE doc.last
        /\ tok \in Ids => tok = doc.last + 1
        /\ \A id \in Ids : x.text[id] = IF id \in HoldersOf(doc)
                                        THEN Append(doc.text[id], tok)
                                        ELSE doc.text[id]
        /\ (doc.value # 0) = (tok \in {Simple, Open})
        /\ doc.last \in Nat
    BY <1>4, <1>6, TextGrows
  <2>3. x.open = IF tok = Open THEN Append(doc.open, doc.value)
                 ELSE IF tok = Close /\ doc.open # <<>> THEN Front(doc.open)
                 ELSE doc.open
    BY DEF Extended
  <2> HIDE DEF x, q
  <2>4. regKey \in HoldersOf(doc)
    <3>1. regDepth \in 1..Len(q) /\ q[regDepth] = regKey
      BY <1>5, <1>6, <2>1
    <3> QED
      BY <3>1 DEF HoldersOf, q
  <2>5. b = t
    BY <1>1, <1>4, <1>5, <1>6, <2>2, <2>4 DEF x
  <2>6. regKey \in 1..doc'.last
    <3>1. regKey \in 1..x.last
      BY <1>5, <2>2
    <3> QED
      BY <1>4, <1>6, <3>1 DEF x
  <2>7. ASSUME ends PROVE Settled(doc', regKey)
    <3>1. tok = Close /\ tok \in {Simple, Close} /\ doc.value = 0
      BY <2>2, <2>7, TokensApart
    <3>2. Len(q) = regDepth /\ Len(q) >= 1 /\ q[Len(q)] = regKey
      <4>1. Len(q) = regDepth /\ regDepth \in 1..Len(doc.open)
        BY <1>1, <1>5, <1>6, <2>1, <2>7, <3>1
      <4> QED
        BY <1>1, <1>5, <1>6, <2>1, <4>1
    <3>3. Settled(Extended(tok), q[Len(q)])
      BY <1>4, <1>6, <3>1, <3>2, LastSettles DEF q
    <3> QED
      BY <1>4, <1>6, <3>2, <3>3
  <2>8. ASSUME ~ends
        PROVE  regDepth \in 1..Len(doc'.open) /\ regKey = doc'.open[regDepth]
    <3>1. doc'.open = x.open
      BY <1>4, <1>6 DEF x
    <3>2. CASE tok = Open
      <4>1. doc.value \in Ids
        <5>1. doc.value # 0
          BY <2>2, <3>2
        <5> QED
          BY <1>4, <5>1, DeferralAssumption DEF DocType, Ids
      <4>2. /\ Len(x.open) = Len(doc.open) + 1
            /\ \A k \in 1..Len(doc.open) : x.open[k] = doc.open[k]
        BY <2>1, <2>3, <3>2, <4>1, AppendOK
      <4> QED
        BY <1>5, <1>6, <2>1, <3>1, <4>2
    <3>3. CASE tok = Close
      <4>1. doc.open # <<>>
        BY <1>5, <1>6, <2>1, EmptySeq
      <4>2. x.open = Front(doc.open)
        BY <2>3, <3>3, <4>1, TokensApart
      <4>3. /\ Len(Front(doc.open)) = Len(doc.open) - 1
            /\ \A k \in 1..Len(doc.open) - 1 : Front(doc.open)[k] = doc.open[k]
        BY <2>1, <4>1, FrontOK
      <4>4. regDepth \in 1..Len(doc.open) - 1
        BY <1>1, <2>1, <2>8, <3>3
      <4> QED
        BY <1>5, <1>6, <3>1, <4>2, <4>3, <4>4
    <3>4. CASE tok # Open /\ tok # Close
      BY <1>5, <1>6, <2>3, <3>1, <3>4
    <3> QED
      BY <3>2, <3>3, <3>4
  <2> QED
    BY <1>1, <1>5, <1>6, <2>5, <2>6, <2>7, <2>8
<1>7. CASE calls # <<>>
  <2>1. Settled(doc', regKey) /\ regKey \in 1..doc'.last
    BY <1>4, <1>5, <1>7
  <2>2. /\ call.raw # <<>> /\ call.raw \in Seq(Tokens) /\ tok = Head(call.raw)
    BY <1>1, <1>7, ConsumedStore
  <2>3. t \in Seq(Tokens) /\ Ahead(t, capBuf, call.raw)
    BY <1>1, <1>4, <1>5, <1>7 DEF DocType
  <2> HIDE DEF t
  <2>4. Ahead(t, b, Tail(call.raw))
    BY <1>1, <2>2, <2>3, AheadOn
  <2>5. Whole(t)
    BY <1>4, <2>1 DEF DocOK, Settled, t
  <2> HIDE DEF b
  <2>6. ends => b = t
    BY <1>3, <2>3, <2>4, <2>5, AheadWhole
  <2> QED
    BY <1>1, <1>5, <1>7, <2>1, <2>4, <2>6 DEF b, t
<1> QED
  BY <1>6, <1>7

LEMMA RegionByteFaith ==
    ASSUME IInv, Faithful, NEW tok \in Tokens, NEW cb \in Callbacks,
           RegionByte(tok, cb), IInv'
    PROVE  Faithful'
<1> DEFINE dc == doc'
           ends == tok = Close /\ depth - 1 = regDepth
<1>1. /\ Ready(tok) /\ Reads(tok) /\ regOpen /\ ~pendSet /\ ~dead /\ ~rootDone
      /\ st = "sIdle" /\ Always(Now)
      /\ Len(frames) >= 1 /\ path # <<>>
      /\ regT = "rtDefer" => kvRaw \in Ids /\ regKey \in Ids
      /\ pend' = pend /\ pendSet' = pendSet /\ kvRaw' = kvRaw /\ st' = st
  BY RegionStore
<1>2. PICK e, raw : Advances(tok, cb, e, raw)
  BY RegionStore
<1>3. /\ dc \in DocType /\ DocOK(dc) /\ TextOK(dc) /\ Faith(Consumed(Now), dc)
  BY <1>1, TokenFaith
<1>4. /\ Always(e) /\ e.frames = frames /\ e.calls = Consumed(Now).calls
      /\ e.path = path /\ raw \in Seq(Tokens)
      /\ regT = "rtDefer" => raw = Append(capBuf, tok)
      /\ ends => /\ Becomes(endRegion(e, raw, cb))
                 /\ regOpen' = FALSE /\ regT' = "rtNone"
      /\ ~ends => /\ Becomes(e) /\ capBuf' = raw /\ regOpen' = regOpen
                  /\ regT' = regT /\ regDepth' = regDepth /\ regKey' = regKey
  BY <1>2 DEF Advances
<1>5. Faith(e, dc)
  <2>1. Consumed(Now).frames = frames
    BY <1>1, TokenOK
  <2> QED
    BY <1>3, <1>4, <2>1 DEF Faith
<1>6. regT = "rtDefer" =>
        /\ kvRaw = regKey /\ regKey \in 1..dc.last
        /\ calls = <<>> =>
             /\ raw = dc.text[regKey]
             /\ ends => Settled(dc, regKey)
             /\ ~ends => /\ regDepth \in 1..Len(dc.open)
                         /\ regKey = dc.open[regDepth]
        /\ calls # <<>> =>
             /\ Settled(dc, regKey) /\ Ahead(dc.text[regKey], raw, Tail(call.raw))
             /\ ends => raw = dc.text[regKey]
  BY <1>4, RegionGrows
<1>7. AskedFor'
  BY <1>1 DEF AskedFor
<1>8. CASE dead'
  BY <1>8 DEF Faithful
<1>9. CASE ends /\ ~dead'
  <2> DEFINE r == endRegion(e, raw, cb)
  <2>1. Becomes(r) /\ ~r.dead /\ regOpen' = FALSE
    BY <1>4, <1>9 DEF Becomes
  <2>2. regT = "rtDefer" =>
            Good([key |-> regKey, keyRaw |-> kvRaw, raw |-> raw], dc)
    BY <1>6, <1>9 DEF Good
  <2>3. Faith(r, dc)
    BY <1>1, <1>3, <1>4, <1>5, <2>1, <2>2, EndRegionFaith
  <2> HIDE DEF r
  <2>4. Copying'
    BY <2>1 DEF Copying
  <2> QED
    BY <1>3, <1>7, <2>1, <2>3, <2>4, FaithfulNext
<1>10. CASE ~ends
  <2>1. Becomes(e) /\ calls' = e.calls
    BY <1>4, <1>10 DEF Becomes
  <2>2. SameCalls(Consumed(Now), e)
    BY <1>4 DEF SameCalls
  <2>3. /\ calls' = <<>> <=> calls = <<>>
        /\ calls # <<>> => call'.raw = Tail(call.raw)
    BY <1>1, <1>4, <2>1, <2>2, SourceOnTop
  <2>4. Copying'
    BY <1>1, <1>4, <1>6, <1>10, <2>3 DEF Copying
  <2> QED
    BY <1>3, <1>5, <1>7, <2>1, <2>4, FaithfulNext
<1> QED
  BY <1>8, <1>9, <1>10

\* The region's own string or literal is over.
LEMMA SimpleEndStore ==
    ASSUME IInv, NEW cb \in Callbacks, SimpleEnd(cb)
    PROVE  /\ ~dead /\ ~rootDone /\ regOpen /\ ~pendSet /\ Always(Now) /\ st = "sInStr"
           /\ Len(frames) >= 1 /\ path # <<>> /\ path \in Seq(Ids)
           /\ capBuf \in Seq(Tokens) /\ doc \in DocType
           /\ regT = "rtDefer" => kvRaw \in Ids /\ regKey \in Ids /\ Whole(capBuf)
           /\ Becomes(endRegion(Now, capBuf, cb)) /\ regOpen' = FALSE /\ regT' = "rtNone"
           /\ doc' = doc /\ pend' = pend /\ pendSet' = pendSet /\ kvRaw' = kvRaw
           /\ taken' = taken /\ met' = met
<1>1. /\ ~dead /\ ~rootDone /\ st = "sInStr" /\ Live /\ Always(Now) /\ RestType
  BY DEF SimpleEnd, Scanning, IInv
<1>2. regOpen /\ ~pendSet /\ InRegion /\ Stack(Now, doc)
  BY <1>1 DEF Live
<1>3. /\ Len(path) = Len(frames) /\ Len(frames) >= 1 /\ path # <<>> /\ path \in Seq(Ids)
      /\ capBuf \in Seq(Tokens) /\ doc \in DocType
  <2>1. Len(path) = Len(frames) /\ Len(frames) >= 1 /\ path \in Seq(Ids)
    BY <1>1, <1>2, NowIs DEF InRegion, InPair, Stack, Always, Effect
  <2> QED
    BY <1>1, <2>1, EmptySeq DEF RestType
<1>4. regT = "rtDefer" => kvRaw \in Ids /\ regKey \in Ids /\ Whole(capBuf)
  <2> SUFFICES ASSUME regT = "rtDefer"
               PROVE  kvRaw \in Ids /\ regKey \in Ids /\ Whole(capBuf)
    OBVIOUS
  <2>1. PICK v \in BOOLEAN : ~v /\ Walk(capBuf, 0, TRUE, depth - regDepth, v)
    BY <1>1, <1>2 DEF InRegion
  <2>2. v = FALSE /\ kvRaw \in Ids /\ regKey \in Ids /\ depth = regDepth
    BY <1>1, <1>2, <2>1 DEF InRegion
  <2>3. depth - regDepth = 0
    BY <1>1, <2>2 DEF RestType
  <2> QED
    BY <2>1, <2>2, <2>3 DEF Whole
<1>5. /\ Becomes(endRegion(Now, capBuf, cb)) /\ regOpen' = FALSE /\ regT' = "rtNone"
      /\ doc' = doc /\ pend' = pend /\ pendSet' = pendSet /\ kvRaw' = kvRaw
      /\ taken' = taken /\ met' = met
  BY DEF SimpleEnd, RegionEnds, tallies
<1> QED
  BY <1>1, <1>2, <1>3, <1>4, <1>5

LEMMA SimpleEndFaith ==
    ASSUME IInv, Faithful, NEW cb \in Callbacks, SimpleEnd(cb)
    PROVE  Faithful'
<1> DEFINE r == endRegion(Now, capBuf, cb)
<1>1. /\ ~dead /\ regOpen /\ ~pendSet /\ Always(Now) /\ st = "sInStr"
      /\ Len(frames) >= 1 /\ path # <<>> /\ capBuf \in Seq(Tokens) /\ doc \in DocType
      /\ regT = "rtDefer" => kvRaw \in Ids /\ regKey \in Ids /\ Whole(capBuf)
      /\ Becomes(r) /\ regOpen' = FALSE /\ doc' = doc /\ pendSet' = pendSet
  BY SimpleEndStore
<1>2. DocOK(doc) /\ TextOK(doc) /\ Faith(Now, doc) /\ Copying
  BY <1>1 DEF Faithful
<1>3. regT = "rtDefer" =>
          Good([key |-> regKey, keyRaw |-> kvRaw, raw |-> capBuf], doc)
  <2> SUFFICES ASSUME regT = "rtDefer"
               PROVE  kvRaw = regKey /\ Settled(doc, regKey) /\ capBuf = doc.text[regKey]
    BY DEF Good
  <2>1. kvRaw = regKey
    BY <1>1, <1>2 DEF Copying
  <2>2. CASE calls = <<>>
    BY <1>1, <1>2, <2>1, <2>2 DEF Copying
  <2>3. CASE calls # <<>>
    <3>1. Settled(doc, regKey) /\ Ahead(doc.text[regKey], capBuf, call.raw)
      BY <1>1, <1>2, <2>3 DEF Copying
    <3>2. Whole(doc.text[regKey]) /\ doc.text[regKey] \in Seq(Tokens)
      BY <1>1, <1>2, <3>1 DEF DocOK, Settled, DocType
    <3> QED
      BY <1>1, <2>1, <3>1, <3>2, AheadWhole
  <2> QED
    BY <2>2, <2>3
<1> HIDE DEF r
<1>4. CASE dead'
  BY <1>4 DEF Faithful
<1>5. CASE ~dead'
  <2>1. ~r.dead
    BY <1>1, <1>5 DEF Becomes
  <2>2. Faith(r, doc)
    BY <1>1, <1>2, <1>3, <2>1, NowIs, EndRegionFaith DEF r
  <2>3. AskedFor' /\ Copying'
    BY <1>1 DEF AskedFor, Copying
  <2> QED
    BY <1>1, <1>2, <2>2, <2>3, FaithfulNext
<1> QED
  BY <1>4, <1>5

\* A frame begins to close: h is what OnLeave makes of the state.
LEMMA CloseFrameStore ==
    ASSUME IInv, NEW cb \in Callbacks \union {"releaseNow"}, CloseFrame(cb)
    PROVE  \/ dead'
           \/ /\ Close \in Tokens /\ Close \notin Ids /\ Ready(Close) /\ Reads(Close)
              /\ ~regOpen /\ ~pendSet /\ ~dead /\ ~rootDone
              /\ Always(Consumed(Now)) /\ Len(frames) >= 1
              /\ Consumed(Now).frames = frames
              /\ regOpen' = regOpen /\ pendSet' = pendSet
              /\ taken' = taken /\ met' = met
              /\ \E h, r : /\ Always(h) /\ Len(h.frames) >= 1 /\ Becomes(r)
                           /\ Hooks(Consumed(Now), h) /\ ~h.dead /\ Ends(h, r)
<1> DEFINE e == Consumed(Now)
           hb == IF cb = "releaseNow" THEN "nothing" ELSE cb
           h == Hook(hb, e)
           c == [at |-> "leave", frame |-> Len(frames), todo |-> <<>>, raw |-> <<>>,
                 active |-> FALSE, stale |-> FALSE, snap |-> <<>>]
           x == [h EXCEPT !.calls = Append(@, c)]
           w == Released(h, "leave")
           yes == TRUE
<1>1. Ready(Close) /\ ~regOpen
  BY DEF CloseFrame
<1>2. /\ ~dead /\ ~rootDone /\ Live /\ Always(Now) /\ RestType
  BY <1>1 DEF Ready, Scanning, IInv
<1>3. Close \in Tokens /\ Close \notin Ids /\ Close \notin {Simple, Open}
  BY TokensApart
<1>4. CASE topFrame.ph = "phValue"
  <2>1. Becomes(Bailed(Now, "syntax"))
    BY <1>4 DEF CloseFrame, SyntaxError
  <2>2. dead'
    BY <2>1 DEF Becomes, Bailed, Now
  <2> QED
    BY <2>2
<1>5. CASE topFrame.ph # "phValue"
  <2>1. ~pendSet
    <3> SUFFICES ASSUME pendSet PROVE FALSE
      OBVIOUS
    <3>1. yes \in BOOLEAN /\ Reads0(Now, doc, yes)
      BY <1>1, <1>2 DEF Live, Pending, Asked
    <3> HIDE DEF yes
    <3>2. yes = (Close \in {Simple, Open})
      BY <1>1, <1>2, <1>3, <3>1, SeesOK
    <3> QED
      BY <1>3, <3>2 DEF yes
  <2>2. /\ Reads(Close) /\ regOpen' = regOpen /\ pendSet' = pendSet
        /\ taken' = taken /\ met' = met
        /\ Becomes(IF h.dead THEN h ELSE IF cb = "releaseNow" THEN w ELSE x)
    <3>1. h = IF cb = "releaseNow" THEN Hook("nothing", e) ELSE Hook(cb, e)
      OBVIOUS
    <3>2. CloseFrame(cb)
      OBVIOUS
    <3> HIDE DEF h, e
    <3>3. Becomes(IF h.dead THEN h ELSE IF cb = "releaseNow" THEN w ELSE x)
      BY <1>5, <3>1, <3>2 DEF CloseFrame, e
    <3> QED
      BY <1>5, <3>2, <3>3 DEF CloseFrame, OthersOnClose, regVars, tallies
  <2>3. Always(e) /\ e.frames = frames /\ Len(frames) >= 1 /\ Len(frames) \in Nat
    BY <1>1, <1>3, <2>2, TokenOK
  <2> HIDE DEF e
  <2>4. Hooked(e, h, hb) /\ Hooks(e, h)
    BY <2>3, HookOK, HookStore DEF Hooks
  <2> HIDE DEF h, hb
  <2>5. Always(h) /\ Len(h.frames) >= 1
    BY <2>3, <2>4 DEF Hooked, Kept
  <2>6. CASE h.dead
    <3>1. Becomes(h)
      BY <2>2, <2>6
    <3> QED
      BY <2>6, <3>1 DEF Becomes
  <2>7. CASE ~h.dead
    <3>1. Ends(h, w)
      BY <2>5, ReleasedStore DEF Ends
    <3>2. Ends(h, x)
      <4>1. x = [h EXCEPT !.calls = Append(@, NewCall("leave", Len(frames), <<>>))]
        BY DEF NewCall
      <4> HIDE DEF x
      <4> QED
        BY <2>3, <2>5, <4>1, ClosingStore DEF Ends
    <3> HIDE DEF w, x
    <3>3. \E r : Becomes(r) /\ Ends(h, r)
      BY <2>2, <2>7, <3>1, <3>2
    <3> QED
      BY <1>1, <1>2, <1>3, <2>1, <2>2, <2>3, <2>4, <2>5, <2>7, <3>3 DEF e
  <2> QED
    BY <2>6, <2>7
<1> QED
  BY <1>4, <1>5

LEMMA CloseFrameFaith ==
    ASSUME IInv, Faithful, NEW cb \in Callbacks \union {"releaseNow"}, CloseFrame(cb)
    PROVE  Faithful'
<1> DEFINE e == Consumed(Now)
<1>1. CASE dead'
  BY <1>1 DEF Faithful
<1>2. CASE ~dead'
  <2>1. /\ Close \in Tokens /\ Ready(Close) /\ Reads(Close) /\ ~regOpen /\ ~pendSet
        /\ Always(e) /\ regOpen' = regOpen /\ pendSet' = pendSet
        /\ \E h, r : /\ Always(h) /\ Len(h.frames) >= 1 /\ Becomes(r)
                     /\ Hooks(e, h) /\ ~h.dead /\ Ends(h, r)
    BY <1>2, CloseFrameStore
  <2>2. PICK h, r : /\ Always(h) /\ Len(h.frames) >= 1 /\ Becomes(r)
                    /\ Hooks(e, h) /\ ~h.dead /\ Ends(h, r)
    BY <2>1
  <2>3. doc' \in DocType /\ DocOK(doc') /\ TextOK(doc') /\ Faith(e, doc')
    BY <2>1, TokenFaith
  <2>4. Faith(r, doc')
    BY <2>1, <2>2, <2>3, HooksFaith, EndsFaith
  <2>5. AskedFor' /\ Copying'
    BY <2>1 DEF AskedFor, Copying
  <2> QED
    BY <2>2, <2>3, <2>4, <2>5, FaithfulNext
<1> QED
  BY <1>1, <1>2

\* A held value has been read.
LEMMA ReplayEndStore ==
    ASSUME IInv, IInv', ReplayEnd
    PROVE  /\ ~dead /\ Always(Now) /\ ~regOpen' /\ ~pendSet'
           /\ regOpen' = regOpen /\ pendSet' = pendSet
           /\ doc' = doc /\ taken' = taken /\ met' = met
           /\ \E e : Becomes(e) /\ Keeps(Now, e)
<1> DEFINE l == Len(calls)
           e == [Now EXCEPT !.calls[Len(calls)].raw = <<>>,
                            !.calls[Len(calls)].active = FALSE]
           cs == e.calls
<1>1. /\ ~dead /\ calls # <<>> /\ doc' = doc /\ taken' = taken /\ met' = met
      /\ regOpen' = regOpen /\ pendSet' = pendSet /\ Becomes(e)
  BY DEF ReplayEnd, InReplay, OthersOnClose, regVars, tallies
<1>2. Always(Now) /\ ~rootDone
  BY <1>1 DEF IInv, Over
<1>3. /\ calls \in Seq(CallType) /\ l \in 1..l /\ Now \in Effect /\ Now.calls = calls
      /\ Now.frames = frames
  <2>1. calls \in Seq(CallType)
    BY <1>2, NowIs DEF Always, Effect
  <2> QED
    BY <1>1, <1>2, <2>1, NowIs, EmptySeq DEF Always
<1>4. /\ e.frames = frames /\ e.dropped = dropped /\ e.rootDone = rootDone /\ e.dead = dead
  BY DEF Now
<1>5. /\ Len(cs) = l /\ \A k \in 1..l : cs[k].todo = calls[k].todo
      /\ \A k \in 1..l - 1 : cs[k] = calls[k]
      /\ cs[l].raw = <<>> /\ ~cs[l].active
  <2> DEFINE a == [calls[l] EXCEPT !.raw = <<>>, !.active = FALSE]
             b == [calls EXCEPT ![l] = a]
             none == <<>>
  <2>1. cs = b
    BY <1>3, NowIs DEF Effect
  <2>2. a.raw = none /\ ~a.active /\ a.todo = calls[l].todo /\ a \in CallType
    <3>1. calls[l] \in CallType /\ none \in Seq(Tokens)
      BY <1>3, EmptySeq
    <3> HIDE DEF none
    <3>2. [calls[l] EXCEPT !.raw = none, !.active = FALSE] \in CallType
      BY <3>1 DEF CallType
    <3>3. a = [calls[l] EXCEPT !.raw = none, !.active = FALSE]
      BY DEF none
    <3> QED
      BY <3>1, <3>2, <3>3 DEF CallType
  <2> HIDE DEF a, cs
  <2>3. /\ Len(b) = l /\ b[l] = a /\ \A k \in 1..l - 1 : b[k] = calls[k]
    BY <1>3, <2>2
  <2> QED
    <3> HIDE DEF b
    <3>1. Len(b) = l /\ b[l].raw = <<>> /\ ~b[l].active
          /\ \A k \in 1..l - 1 : b[k] = calls[k]
      BY <2>2, <2>3
    <3>2. \A k \in 1..l : b[k].todo = calls[k].todo
      <4> SUFFICES ASSUME NEW k \in 1..l PROVE b[k].todo = calls[k].todo
        OBVIOUS
      <4>1. k = l \/ k \in 1..l - 1
        BY <1>3
      <4> QED
        BY <2>2, <2>3, <4>1
    <3> QED
      BY <2>1, <3>1, <3>2
<1> HIDE DEF e, cs
<1>6. Keeps(Now, e)
  <2>1. /\ Len(e.calls) = Len(Now.calls) /\ e.frames = Now.frames
        /\ \A k \in 1..Len(Now.calls) : e.calls[k].todo = Now.calls[k].todo
        /\ \A k \in 1..Len(Now.calls) :
              e.calls[k].raw = <<>> \/ e.calls[k].raw = Now.calls[k].raw
        /\ e.dropped = Now.dropped
    BY <1>3, <1>4, <1>5, NowIs DEF cs
  <2> QED
    BY <2>1 DEF Keeps, Within
<1>7. ~regOpen' /\ ~pendSet'
  <2>1. calls' = cs /\ ~dead' /\ ~rootDone'
    BY <1>1, <1>2, <1>4 DEF Becomes, cs
  <2>2. calls' # <<>> /\ ~LastOf(calls').active
    <3>1. calls' # <<>>
      <4> SUFFICES ASSUME calls' = <<>> PROVE FALSE
        OBVIOUS
      <4>1. Len(cs) = 0
        BY <2>1
      <4> QED
        BY <1>3, <1>5, <4>1
    <3> QED
      BY <1>5, <2>1, <3>1 DEF LastOf
  <2>3. Now'.calls = calls'
    BY DEF Now
  <2>4. Waits(Now')
    BY <2>2, <2>3 DEF Waits
  <2>5. Live'
    BY <2>1 DEF IInv
  <2> QED
    BY <2>4, <2>5 DEF Live, InRegion, Pending, Asked, InPair
<1> QED
  BY <1>1, <1>2, <1>6, <1>7

LEMMA ReplayEndFaith ==
    ASSUME IInv, IInv', Faithful, ReplayEnd
    PROVE  Faithful'
<1>1. /\ ~dead /\ Always(Now) /\ ~regOpen' /\ ~pendSet' /\ doc' = doc /\ doc \in DocType
  BY ReplayEndStore DEF IInv, RestType
<1>2. PICK e : Becomes(e) /\ Keeps(Now, e)
  BY ReplayEndStore
<1>3. DocOK(doc) /\ TextOK(doc) /\ Faith(Now, doc)
  BY <1>1 DEF Faithful
<1>4. Faith(e, doc)
  BY <1>1, <1>2, <1>3, FaithWithin DEF Keeps
<1>5. AskedFor' /\ Copying'
  BY <1>1 DEF AskedFor, Copying
<1> QED
  BY <1>1, <1>2, <1>3, <1>4, <1>5, FaithfulNext

\* doRelease returns: a is the state without its call, b that without the
\* frame it closes.
LEMMA ReturnStore ==
    ASSUME IInv, Return
    PROVE  /\ ~dead /\ Always(Now) /\ ~regOpen /\ ~pendSet
           /\ regOpen' = regOpen /\ pendSet' = pendSet
           /\ doc' = doc /\ taken' = taken /\ met' = met
           /\ \/ dead'
              \/ \E a, b, r : /\ Always(a) /\ Always(b) /\ Becomes(r)
                              /\ Keeps(Now, a) /\ Keeps(a, b)
                              /\ \/ Keeps(b, r)
                                 \/ Len(b.frames) >= 1 /\ Passes(b, r)
<1> DEFINE n == Len(frames)
           l == Len(calls)
           e == [Now EXCEPT !.calls = Front(@)]
           w == [Released([e EXCEPT !.wantRelease = FALSE], "close")
                    EXCEPT !.calls[Len(calls)].stale = call.stale,
                           !.calls[Len(calls)].snap = call.snap]
           p == [e EXCEPT !.frames = Front(@), !.depth = @ - 1,
                          !.asked = @ \ {Len(e.frames)}]
           Done == \E a, b, r : /\ Always(a) /\ Always(b) /\ Becomes(r)
                                /\ Keeps(Now, a) /\ Keeps(a, b)
                                /\ \/ Keeps(b, r)
                                   \/ Len(b.frames) >= 1 /\ Passes(b, r)
<1>1. Between /\ call.todo = <<>>
  BY DEF Return
<1>2. /\ ~dead /\ Always(Now) /\ ~regOpen /\ ~pendSet
      /\ LastOf(calls) = call /\ call \in CallType
      /\ depth = n /\ Len(path) = n - 1 /\ l \in 1..l /\ n >= 1
  BY <1>1, BetweenOK
<1>3. /\ Becomes(CASE call.at = "value" -> e
                   [] call.at = "leave" /\ ReleaseDue(e) -> w
                   [] OTHER -> CloseEnd(e, call))
      /\ doc' = doc /\ pendSet' = pendSet /\ regOpen' = regOpen
      /\ taken' = taken /\ met' = met
  BY DEF Return, OthersOnClose, regVars, tallies
<1>4. /\ calls # <<>> /\ n \in Nat /\ frames \in Seq(FrameType) /\ path \in Seq(Ids)
  <2>1. frames \in Seq(FrameType) /\ path \in Seq(Ids)
    BY <1>2, NowIs DEF Always, Effect
  <2> QED
    BY <1>1, <2>1, LenProperties DEF Between
<1>5. /\ Popped(Now, e)
      /\ call.at # "value" =>
           /\ call.stale => call.snap = <<>> /\ frames[n].deferred = <<>>
           /\ \A j \in 1..Len(e.calls) : e.calls[j].frame < n
           /\ LeftIn(e, call) = <<>> => Gone(e, p)
  BY <1>1, ReturnsOK
<1>6. Keeps(Now, e)
  <2>1. Now.calls # <<>> /\ LastOf(Now.calls).todo = <<>>
    BY <1>1, <1>2, <1>4, NowIs
  <2> HIDE DEF e
  <2>2. Keeps(Now, [Now EXCEPT !.calls = Front(@)])
    BY <1>2, <2>1, PoppedStore
  <2> QED
    BY <2>2 DEF e
<1> HIDE DEF e
<1>7. /\ Always(e) /\ e.frames = frames /\ e.path = path /\ e.depth = n
      /\ Len(e.calls) = l - 1
  BY <1>2, <1>5, NowIs DEF Popped
<1>8. ASSUME NEW b, NEW r, Always(b), Becomes(r), Keeps(e, b),
             Keeps(b, r) \/ (Len(b.frames) >= 1 /\ Passes(b, r))
      PROVE  Done
  BY <1>6, <1>7, <1>8
<1>9. Keeps(e, e)
  BY SameStoreSelf, SameStoreKeeps
<1> HIDE DEF Done
<1>10. CASE call.at = "value"
  <2>1. Becomes(e)
    BY <1>3, <1>10
  <2>2. Done
    BY <1>7, <1>8, <1>9, <2>1
  <2> QED
    BY <1>2, <1>3, <2>2 DEF Done
<1>11. CASE call.at = "leave" /\ ReleaseDue(e)
  <2>1. Becomes(w)
    BY <1>3, <1>11
  <2>2. l = Len(e.calls) + 1
    BY <1>2, <1>7
  <2>3. call.stale \in BOOLEAN /\ call.snap \in Seq(Pairs)
    BY <1>2 DEF CallType
  <2>4. Passes(e, w)
    <3> HIDE DEF w, l
    <3>1. Passes(e, [Released([e EXCEPT !.wantRelease = FALSE], "close")
                       EXCEPT !.calls[l].stale = call.stale, !.calls[l].snap = call.snap])
      BY <1>2, <1>7, <2>2, <2>3, ClosingReleaseStore
    <3> QED
      BY <3>1 DEF w, l
  <2> HIDE DEF w
  <2>5. Done
    BY <1>2, <1>7, <1>8, <1>9, <2>1, <2>4
  <2> QED
    BY <1>2, <1>3, <2>5 DEF Done
<1>12. CASE call.at # "value" /\ ~(call.at = "leave" /\ ReleaseDue(e))
  <2>1. Becomes(CloseEnd(e, call))
    BY <1>3, <1>12
  <2>2. CASE LeftIn(e, call) # <<>>
    <3>1. Becomes(Bailed(e, "leftover"))
      BY <2>1, <2>2 DEF CloseEnd
    <3>2. Bailed(e, "leftover").dead
      BY <1>7, BailedOK
    <3>3. dead'
      BY <3>1, <3>2 DEF Becomes
    <3> QED
      BY <1>2, <1>3, <3>3
  <2>3. CASE LeftIn(e, call) = <<>>
    <3>1. CloseEnd(e, call) = IF p.depth = 0 THEN [p EXCEPT !.rootDone = TRUE]
                              ELSE afterValue(p)
      BY <2>3 DEF CloseEnd
    <3>2. Gone(e, p)
      BY <1>5, <1>12, <2>3
    <3>3. frames[n].deferred = <<>>
      <4>1. CASE call.stale
        BY <1>5, <1>12, <4>1
      <4>2. CASE ~call.stale
        BY <1>7, <2>3, <4>2 DEF LeftIn, Top, LastOf
      <4> QED
        BY <4>1, <4>2
    <3>4. Keeps(e, p)
      <4>1. /\ Len(e.frames) >= 1 /\ e.depth >= 1
            /\ e.frames[Len(e.frames)].deferred = <<>>
        BY <1>2, <1>7, <3>3
      <4>2. \A j \in 1..Len(e.calls) : e.calls[j].frame <= Len(e.frames) - 1
        <5> SUFFICES ASSUME NEW j \in 1..Len(e.calls)
                     PROVE  e.calls[j].frame <= Len(e.frames) - 1
          OBVIOUS
        <5>1. e.calls[j].frame < n /\ e.calls[j].frame \in 1..Len(e.frames)
          BY <1>5, <1>7, <1>12 DEF Always
        <5> QED
          BY <1>4, <1>7, <5>1
      <4> HIDE DEF p
      <4>3. Keeps(e, [e EXCEPT !.frames = Front(@), !.depth = @ - 1,
                               !.asked = @ \ {Len(e.frames)}])
        BY <1>7, <4>1, <4>2, GoneStore
      <4> QED
        BY <4>3 DEF p
    <3> HIDE DEF p
    <3>5. /\ Always(p) /\ p \in Effect /\ p.path = path /\ p.depth = n - 1
          /\ Len(p.frames) = n - 1
      BY <1>7, <3>2 DEF Gone, Always
    <3>6. CASE n = 1
      <4> DEFINE r == [p EXCEPT !.rootDone = TRUE]
      <4>1. Becomes(r)
        BY <2>1, <3>1, <3>5, <3>6
      <4>2. r.frames = p.frames /\ r.calls = p.calls /\ r.dropped = p.dropped
        BY <3>5 DEF Effect
      <4> HIDE DEF r
      <4>3. Keeps(p, r)
        BY <4>2, SameKeeps
      <4>4. Done
        BY <1>8, <3>4, <3>5, <4>1, <4>3
      <4> QED
        BY <1>2, <1>3, <4>4 DEF Done
    <3>7. CASE n # 1
      <4>1. Becomes(afterValue(p))
        BY <1>4, <2>1, <3>1, <3>5, <3>7
      <4>2. path # <<>> /\ Len(p.frames) >= 1
        BY <1>2, <1>4, <3>5, <3>7, EmptySeq
      <4>3. Keeps(p, afterValue(p)) \/ Passes(p, afterValue(p))
        BY <3>5, <4>2, ValuedStore
      <4>4. Done
        BY <1>8, <3>4, <3>5, <4>1, <4>2, <4>3
      <4> QED
        BY <1>2, <1>3, <4>4 DEF Done
    <3> QED
      BY <3>6, <3>7
  <2> QED
    BY <2>2, <2>3
<1> QED
  BY <1>10, <1>11, <1>12, <1>2, <1>3 DEF Done

LEMMA ReturnFaith ==
    ASSUME IInv, Faithful, Return
    PROVE  Faithful'
<1>1. /\ ~dead /\ Always(Now) /\ ~regOpen' /\ ~pendSet' /\ doc' = doc /\ doc \in DocType
  BY ReturnStore DEF IInv, RestType
<1>2. DocOK(doc) /\ TextOK(doc) /\ Faith(Now, doc)
  BY <1>1 DEF Faithful
<1>3. AskedFor' /\ Copying'
  BY <1>1 DEF AskedFor, Copying
<1>4. CASE dead'
  BY <1>4 DEF Faithful
<1>5. CASE ~dead'
  <2>1. PICK a, b, r : /\ Always(a) /\ Always(b) /\ Becomes(r)
                       /\ Keeps(Now, a) /\ Keeps(a, b)
                       /\ \/ Keeps(b, r)
                          \/ Len(b.frames) >= 1 /\ Passes(b, r)
    BY <1>5, ReturnStore
  <2>2. Faith(b, doc)
    BY <1>1, <1>2, <2>1, FaithWithin DEF Keeps
  <2>3. Faith(r, doc)
    BY <1>1, <2>1, <2>2, FaithWithin, FaithPasses DEF Keeps
  <2> QED
    BY <1>1, <1>2, <1>3, <2>1, <2>3, FaithfulNext
<1> QED
  BY <1>4, <1>5

\* A step that concerns nothing that is held or read.
LEMMA PausesFaith ==
    ASSUME Faithful, Suspends \/ Resume \/ UNCHANGED vars
    PROVE  Faithful'
<1>1. /\ frames' = frames /\ calls' = calls /\ dead' = dead /\ doc' = doc
      /\ pendSet' = pendSet /\ kvRaw' = kvRaw /\ path' = path
      /\ regOpen' = regOpen /\ regT' = regT /\ regKey' = regKey
      /\ regDepth' = regDepth /\ capBuf' = capBuf /\ st' = st
  <2>1. CASE Suspends
    BY <2>1 DEF Suspends, Becomes, Now, regVars
  <2>2. CASE Resume
    BY <2>2 DEF Resume, readVars, regVars, heldVars, histVars
  <2>3. CASE UNCHANGED vars
    BY <2>3 DEF vars, readVars, regVars, heldVars, stopVars, histVars
  <2> QED
    BY <2>1, <2>2, <2>3
<1>2. Now'.frames = frames' /\ Now'.calls = calls' /\ Now.frames = frames /\ Now.calls = calls
  BY DEF Now
<1>3. Faith(Now, doc)' <=> Faith(Now, doc)
  <2>1. Faith(Now', doc') <=> Faith(Now, doc)
    BY <1>1, <1>2 DEF Faith
  <2> QED
    BY <2>1
<1>4. DocOK(doc') = DocOK(doc) /\ TextOK(doc') = TextOK(doc)
  BY <1>1
<1>5. call' = call
  BY <1>1 DEF call
<1>6. AskedFor' <=> AskedFor
  BY <1>1, <1>5 DEF AskedFor
<1>7. Copying' <=> Copying
  BY <1>1, <1>5 DEF Copying
<1> QED
  BY <1>1, <1>3, <1>4, <1>6, <1>7 DEF Faithful

LEMMA InitFaith == Init => Faithful
<1> SUFFICES ASSUME Init PROVE Faithful
  OBVIOUS
<1> DEFINE none == <<>>
<1>1. /\ frames = <<NewFrame>> /\ calls = none /\ ~pendSet /\ ~regOpen
      /\ doc = [open |-> none, value |-> 0, last |-> 0, text |-> [id \in Ids |-> none]]
  BY DEF Init
<1>2. Len(none) = 0
  OBVIOUS
<1>3. doc.open = none /\ doc.value = 0 /\ doc.last = 0 /\ \A id \in Ids : doc.text[id] = none
  BY <1>1
<1> HIDE DEF none
<1>4. Len(PathOf(doc)) = 0 /\ Len(doc.open) = 0
  BY <1>2, <1>3 DEF PathOf, none
<1>5. DocOK(doc)
  <2>1. (\A i \in 1..Len(PathOf(doc)) : FALSE) /\ (\A id \in 1..doc.last : FALSE)
    BY <1>3, <1>4
  <2> QED
    BY <1>3, <2>1 DEF DocOK, none
<1>6. TextOK(doc)
  <2>1. \A id \in 1..doc.last : FALSE
    BY <1>3
  <2> QED
    BY <2>1 DEF TextOK
<1>7. Faith(Now, doc)
  <2>1. Len(calls) = 0 /\ Len(frames) = 1 /\ frames[1].deferred = <<>>
    BY <1>1, <1>2 DEF NewFrame
  <2>2. \A k \in 1..Len(frames) : Goods(frames[k].deferred, doc)
    <3> SUFFICES ASSUME NEW k \in 1..Len(frames) PROVE Goods(frames[k].deferred, doc)
      OBVIOUS
    <3>1. k = 1
      BY <2>1
    <3> QED
      BY <2>1, <3>1, NothingGood
  <2>3. \A k \in 1..Len(calls) : FALSE
    BY <2>1
  <2> QED
    BY <2>2, <2>3, NowIs DEF Faith
<1>8. AskedFor /\ Copying
  BY <1>1 DEF AskedFor, Copying
<1> QED
  BY <1>5, <1>6, <1>7, <1>8 DEF Faithful

LEMMA NextFaith ==
    ASSUME IInv, IInv', Faithful, ~dead => Agree, dead => dead', [Next]_vars
    PROVE  Faithful'
<1>1. CASE dead'
  BY <1>1 DEF Faithful
<1>2. CASE ~dead'
  <2>1. Agree
    BY <1>2
  <2>2. ASSUME NEW id \in Ids, NEW act \in Answers, NEW cb \in Callbacks,
               Key(id, act, cb)
        PROVE  Faithful'
    BY <2>2, KeyFaith
  <2>3. ASSUME NEW tok \in Tokens, Value(tok) PROVE Faithful'
    BY <2>1, <2>3, ValueFaith
  <2>4. ASSUME NEW tok \in Tokens, NEW cb \in Callbacks, RegionByte(tok, cb)
        PROVE  Faithful'
    BY <2>4, RegionByteFaith
  <2>5. ASSUME NEW cb \in Callbacks, SimpleEnd(cb) PROVE Faithful'
    BY <2>5, SimpleEndFaith
  <2>6. ASSUME NEW cb \in Callbacks \union {"releaseNow"}, CloseFrame(cb)
        PROVE  Faithful'
    BY <2>6, CloseFrameFaith
  <2>7. ASSUME NEW act \in Answers, NEW cb \in Callbacks, ReplayNext(act, cb)
        PROVE  Faithful'
    BY <2>7, ReplayNextFaith
  <2>8. CASE ReplayEnd
    BY <2>8, ReplayEndFaith
  <2>9. CASE Return
    BY <2>9, ReturnFaith
  <2>10. CASE Suspends \/ Resume \/ UNCHANGED vars
    BY <2>10, PausesFaith
  <2> QED
    BY <2>2, <2>3, <2>4, <2>5, <2>6, <2>7, <2>8, <2>9, <2>10 DEF Next, ScanStep
<1> QED
  BY <1>1, <1>2

LEMMA FaithHeld == IInv /\ Faithful => HeldIsValue
<1> SUFFICES ASSUME IInv, Faithful, ~dead, NEW kv \in Held
             PROVE  kv.keyRaw = kv.key /\ kv.raw = doc.text[kv.key]
  BY DEF HeldIsValue
<1>1. Faith(Now, doc) /\ Always(Now)
  BY DEF Faithful, IInv
<1>2. \A kvs : Goods(kvs, doc) => \A x \in Members(kvs) :
                  x.keyRaw = x.key /\ x.raw = doc.text[x.key]
  BY DEF Goods, Good, Members
<1>3. /\ \A k \in 1..Len(frames) : Goods(frames[k].deferred, doc)
      /\ \A k \in 1..Len(calls) : Goods(calls[k].todo, doc)
  BY <1>1, NowIs DEF Faith
<1>4. DOMAIN frames = 1..Len(frames) /\ DOMAIN calls = 1..Len(calls)
  BY <1>1, EffectParts, NowIs
<1>5. \/ \E k \in DOMAIN frames : kv \in Members(frames[k].deferred)
      \/ \E k \in DOMAIN calls : kv \in Members(calls[k].todo)
  BY DEF Held
<1> QED
  BY <1>2, <1>3, <1>4, <1>5

-----------------------------------------------------------------------------
(* Each pair is in one place.  A place has a name, and names are given to    *)
(* the pairs: one that is held by a frame or waits in a replay, also inside  *)
(* a value that does, has the name of that frame or replay.                  *)

InFrame(k) == <<"frame", k>>
InTodo(k)  == <<"todo", k>>
InRaw(k)   == <<"raw", k>>
InCopy     == <<"copy", 0>>
InHand     == <<"read", 0>>
Taken      == <<"taken", 0>>
Dropped    == <<"dropped", 0>>
Nowhere    == <<"none", 0>>

LEMMA NamesApart ==
    /\ \A k, l : /\ InFrame(k) = InFrame(l) => k = l
                 /\ InTodo(k) = InTodo(l) => k = l
                 /\ InRaw(k) = InRaw(l) => k = l
                 /\ InFrame(k) # InTodo(l) /\ InFrame(k) # InRaw(l)
                 /\ InTodo(k) # InRaw(l)
    /\ \A k : InFrame(k) \notin {InCopy, InHand, Taken, Dropped, Nowhere}
    /\ \A k : InTodo(k) \notin {InCopy, InHand, Taken, Dropped, Nowhere}
    /\ \A k : InRaw(k) \notin {InCopy, InHand, Taken, Dropped, Nowhere}
    /\ InCopy \notin {InHand, Taken, Dropped, Nowhere}
    /\ InHand \notin {Taken, Dropped, Nowhere}
    /\ Taken \notin {Dropped, Nowhere} /\ Dropped # Nowhere
BY DEF InFrame, InTodo, InRaw, InCopy, InHand, Taken, Dropped, Nowhere

\* The keys in the text s, and those of a pair.
KeysIn(s) == {s[i] : i \in 1..Len(s)} \cap Ids
Own(kv) == {kv.key} \union KeysIn(kv.raw)

\* The keys in s, of which no hook was asked, are there once, and named x.
Loose(s, lab, mt, x) ==
    /\ \A i, j \in 1..Len(s) : i # j /\ s[i] \in Ids => s[i] # s[j]
    /\ \A id \in KeysIn(s) : id \notin mt /\ lab[id] = x

\* So are the pairs of kvs, of which a hook was asked, and those inside them.
Lies(kvs, lab, mt, x) ==
    /\ \A j \in 1..Len(kvs) : /\ kvs[j].key \in mt /\ lab[kvs[j].key] = x
                              /\ Loose(kvs[j].raw, lab, mt, x)
    /\ \A i, j \in 1..Len(kvs) : i # j => Own(kvs[i]) \cap Own(kvs[j]) = {}

\* The pair id is where its name says.
Here(e, lab, id) ==
    \/ lab[id] \in {InHand, Taken, Dropped}
    \/ \E k \in 1..Len(e.frames) : \E j \in 1..Len(e.frames[k].deferred) :
            e.frames[k].deferred[j].key = id
    \/ \E k \in 1..Len(e.calls) : \E j \in 1..Len(e.calls[k].todo) :
            e.calls[k].todo[j].key = id

\* In the state e, and mt being the pairs a hook was asked about, whatever is
\* somewhere has the name of that place.
Stored(e, lab, mt) ==
    /\ \A k \in 1..Len(e.frames) : Lies(e.frames[k].deferred, lab, mt, InFrame(k))
    /\ \A k \in 1..Len(e.calls) : /\ Lies(e.calls[k].todo, lab, mt, InTodo(k))
                                  /\ Loose(e.calls[k].raw, lab, mt, InRaw(k))

\* And each pair of mt is somewhere.
Sorted(e, lab, mt) ==
    /\ mt \subseteq Ids /\ Stored(e, lab, mt)
    /\ \A id \in Ids : id \in e.dropped <=> lab[id] = Dropped
    /\ \A id \in mt : Here(e, lab, id)

LEMMA LooseNone == \A lab, mt, x : Loose(<<>>, lab, mt, x) /\ Lies(<<>>, lab, mt, x)
BY DEF Loose, Lies, KeysIn

LEMMA LooseRest ==
    ASSUME NEW s \in Seq(Tokens), s # <<>>, NEW lab, NEW mt, NEW x, Loose(s, lab, mt, x)
    PROVE  /\ Loose(Tail(s), lab, mt, x)
           /\ Head(s) \in Ids => /\ Head(s) \notin mt /\ lab[Head(s)] = x
                                 /\ Head(s) \notin KeysIn(Tail(s))
<1> DEFINE r == Tail(s)
<1>1. /\ Len(s) \in Nat \ {0} /\ s[1] = Head(s) /\ Len(r) = Len(s) - 1
      /\ \A j \in 1..Len(r) : r[j] = s[j + 1]
  BY EmptySeq, LenProperties, HeadTailProperties
<1>2. \A j \in 1..Len(r) : j + 1 \in 1..Len(s) /\ j + 1 # 1
  BY <1>1
<1>3. /\ \A i, j \in 1..Len(s) : i # j /\ s[i] \in Ids => s[i] # s[j]
      /\ \A id \in KeysIn(s) : id \notin mt /\ lab[id] = x
  BY DEF Loose
<1> HIDE DEF r
<1>4. KeysIn(r) \subseteq KeysIn(s)
  BY <1>1, <1>2 DEF KeysIn
<1>5. \A i, j \in 1..Len(r) : i # j /\ r[i] \in Ids => r[i] # r[j]
  <2> SUFFICES ASSUME NEW i \in 1..Len(r), NEW j \in 1..Len(r), i # j, r[i] \in Ids
               PROVE  r[i] # r[j]
    OBVIOUS
  <2>1. i + 1 # j + 1
    OBVIOUS
  <2> QED
    BY <1>1, <1>2, <1>3, <2>1
<1>6. Loose(r, lab, mt, x)
  BY <1>3, <1>4, <1>5 DEF Loose
<1>7. ASSUME Head(s) \in Ids
      PROVE  Head(s) \notin mt /\ lab[Head(s)] = x /\ Head(s) \notin KeysIn(r)
  <2>1. 1 \in 1..Len(s)
    BY <1>1
  <2>2. Head(s) \in KeysIn(s)
    BY <1>1, <1>7, <2>1 DEF KeysIn
  <2>3. \A j \in 1..Len(r) : r[j] # Head(s)
    BY <1>1, <1>2, <1>3, <1>7, <2>1
  <2> QED
    BY <1>3, <2>2, <2>3 DEF KeysIn
<1> QED
  BY <1>6, <1>7 DEF r

LEMMA LooseOn ==
    ASSUME NEW s \in Seq(Tokens), NEW t \in Tokens, NEW lab, NEW mt, NEW x,
           Loose(s, lab, mt, x),
           t \in Ids => t \notin KeysIn(s) /\ t \notin mt /\ lab[t] = x
    PROVE  Loose(Append(s, t), lab, mt, x)
<1> DEFINE r == Append(s, t)
<1>1. /\ Len(s) \in Nat /\ Len(r) = Len(s) + 1 /\ r[Len(s) + 1] = t
      /\ \A j \in 1..Len(s) : r[j] = s[j]
  BY AppendOK
<1>2. /\ \A i, j \in 1..Len(s) : i # j /\ s[i] \in Ids => s[i] # s[j]
      /\ \A id \in KeysIn(s) : id \notin mt /\ lab[id] = x
  BY DEF Loose
<1>3. \A j \in 1..Len(r) : j = Len(s) + 1 \/ j \in 1..Len(s)
  BY <1>1
<1> HIDE DEF r
<1>4. KeysIn(r) \subseteq KeysIn(s) \union ({t} \cap Ids)
  <2> SUFFICES ASSUME NEW i \in 1..Len(r), r[i] \in Ids
               PROVE  r[i] \in KeysIn(s) \union ({t} \cap Ids)
    BY DEF KeysIn
  <2> QED
    BY <1>1, <1>3 DEF KeysIn
<1>5. \A j \in 1..Len(s) : t \in Ids => s[j] # t
  BY DEF KeysIn
<1>6. \A i, j \in 1..Len(r) : i # j /\ r[i] \in Ids => r[i] # r[j]
  <2> SUFFICES ASSUME NEW i \in 1..Len(r), NEW j \in 1..Len(r), i # j, r[i] \in Ids,
                      r[i] = r[j]
               PROVE  FALSE
    OBVIOUS
  <2>1. CASE i \in 1..Len(s) /\ j \in 1..Len(s)
    BY <1>1, <1>2, <2>1
  <2>2. CASE i = Len(s) + 1 /\ j \in 1..Len(s)
    BY <1>1, <1>5, <2>2
  <2>3. CASE j = Len(s) + 1 /\ i \in 1..Len(s)
    BY <1>1, <1>5, <2>3
  <2> QED
    BY <1>3, <2>1, <2>2, <2>3
<1>7. Loose(r, lab, mt, x)
  BY <1>2, <1>4, <1>6 DEF Loose
<1> QED
  BY <1>7 DEF r

\* Names are changed together.
LEMMA LooseSame ==
    ASSUME NEW s, NEW lab, NEW mt, NEW x, NEW lab2, NEW mt2, NEW y, Loose(s, lab, mt, x),
           \A id \in KeysIn(s) : lab2[id] = y /\ id \notin mt2
    PROVE  Loose(s, lab2, mt2, y)
BY DEF Loose

LEMMA PairKeys ==
    ASSUME NEW kvs \in Seq(Pairs), NEW j \in 1..Len(kvs)
    PROVE  kvs[j] \in Pairs /\ kvs[j].key \in Ids /\ kvs[j].raw \in Seq(Tokens)
           /\ Own(kvs[j]) \subseteq Ids
<1>1. kvs[j] \in Pairs
  BY ElementOfSeq, LenProperties
<1> QED
  BY <1>1 DEF Pairs, Own, KeysIn

LEMMA LiesOwn ==
    ASSUME NEW kvs \in Seq(Pairs), NEW lab, NEW mt, NEW x, NEW lab2, NEW mt2, NEW y,
           Lies(kvs, lab, mt, x),
           \A j \in 1..Len(kvs) : \A id \in Own(kvs[j]) :
               lab2[id] = y /\ (id \in mt2 <=> id \in mt)
    PROVE  Lies(kvs, lab2, mt2, y)
<1>1. ASSUME NEW j \in 1..Len(kvs)
      PROVE  /\ kvs[j].key \in mt2 /\ lab2[kvs[j].key] = y
             /\ Loose(kvs[j].raw, lab2, mt2, y)
  <2>1. kvs[j].key \in mt /\ Loose(kvs[j].raw, lab, mt, x)
    BY DEF Lies
  <2>2. \A id \in KeysIn(kvs[j].raw) : id \notin mt
    BY <2>1 DEF Loose
  <2>3. \A id \in KeysIn(kvs[j].raw) : lab2[id] = y /\ id \notin mt2
    BY <2>2 DEF Own
  <2>4. Loose(kvs[j].raw, lab2, mt2, y)
    BY <2>1, <2>3, LooseSame
  <2> QED
    BY <2>1, <2>4 DEF Own
<1> QED
  BY <1>1 DEF Lies

LEMMA LiesNames ==
    ASSUME NEW kvs \in Seq(Pairs), NEW lab, NEW mt, NEW x, Lies(kvs, lab, mt, x)
    PROVE  \A j \in 1..Len(kvs) : \A id \in Own(kvs[j]) : id \in Ids /\ lab[id] = x
<1>1. \A j \in 1..Len(kvs) : Own(kvs[j]) \subseteq Ids
  BY PairKeys
<1> QED
  BY <1>1 DEF Lies, Loose, Own

LEMMA LiesSame ==
    ASSUME NEW kvs \in Seq(Pairs), NEW lab, NEW mt, NEW x, NEW lab2, NEW mt2, NEW y,
           Lies(kvs, lab, mt, x),
           \A id \in Ids : lab[id] = x => lab2[id] = y /\ (id \in mt2 <=> id \in mt)
    PROVE  Lies(kvs, lab2, mt2, y)
BY LiesNames, LiesOwn

LEMMA LiesRest ==
    ASSUME NEW kvs \in Seq(Pairs), kvs # <<>>, NEW lab, NEW mt, NEW x,
           Lies(kvs, lab, mt, x)
    PROVE  LET kv == Head(kvs)
               s == Tail(kvs)
           IN  /\ Lies(s, lab, mt, x) /\ kv \in Pairs /\ s \in Seq(Pairs)
               /\ kv.key \in mt /\ lab[kv.key] = x /\ Loose(kv.raw, lab, mt, x)
               /\ \A j \in 1..Len(s) : Own(kv) \cap Own(s[j]) = {}
               /\ \A j \in 1..Len(kvs) : kvs[j] = kv \/ \E i \in 1..Len(s) : kvs[j] = s[i]
<1> DEFINE kv == Head(kvs)
           s == Tail(kvs)
<1>1. /\ Len(kvs) \in Nat \ {0} /\ kvs[1] = kv /\ Len(s) = Len(kvs) - 1
      /\ kv \in Pairs /\ s \in Seq(Pairs)
      /\ \A j \in 1..Len(s) : s[j] = kvs[j + 1]
  BY EmptySeq, LenProperties, HeadTailProperties
<1>2. \A j \in 1..Len(s) : j + 1 \in 1..Len(kvs) /\ j + 1 # 1
  BY <1>1
<1>3. 1 \in 1..Len(kvs)
  BY <1>1
<1> HIDE DEF kv, s
<1>4. \A i, j \in 1..Len(s) : i # j => Own(s[i]) \cap Own(s[j]) = {}
  <2> SUFFICES ASSUME NEW i \in 1..Len(s), NEW j \in 1..Len(s), i # j
               PROVE  Own(s[i]) \cap Own(s[j]) = {}
    OBVIOUS
  <2>1. i + 1 # j + 1
    OBVIOUS
  <2> QED
    BY <1>1, <1>2, <2>1 DEF Lies
<1>5. Lies(s, lab, mt, x)
  BY <1>1, <1>2, <1>4 DEF Lies
<1>6. kv.key \in mt /\ lab[kv.key] = x /\ Loose(kv.raw, lab, mt, x)
  BY <1>1, <1>3 DEF Lies
<1>7. \A j \in 1..Len(s) : Own(kv) \cap Own(s[j]) = {}
  BY <1>1, <1>2, <1>3 DEF Lies
<1>8. ASSUME NEW j \in 1..Len(kvs), j # 1 PROVE \E i \in 1..Len(s) : kvs[j] = s[i]
  <2>1. j - 1 \in 1..Len(s) /\ (j - 1) + 1 = j
    BY <1>1, <1>8
  <2> QED
    BY <1>1, <2>1
<1> QED
  BY <1>1, <1>5, <1>6, <1>7, <1>8 DEF kv, s

\* A pair whose names are not x comes after those of kvs.
LEMMA LiesPut ==
    ASSUME NEW kvs \in Seq(Pairs), NEW kv \in Pairs, NEW lab, NEW mt, NEW x, NEW lab2,
           Lies(kvs, lab, mt, x), kv.key \in mt,
           \A id \in Own(kv) : lab[id] # x /\ lab2[id] = x,
           \A id \in Ids : lab[id] = x => lab2[id] = x,
           Loose(kv.raw, lab2, mt, x)
    PROVE  Lies(Append(kvs, kv), lab2, mt, x)
<1> DEFINE r == Append(kvs, kv)
           n == Len(kvs)
<1>1. /\ n \in Nat /\ Len(r) = n + 1 /\ r[n + 1] = kv
      /\ \A j \in 1..n : r[j] = kvs[j]
  BY AppendOK
<1>2. \A j \in 1..Len(r) : j = n + 1 \/ j \in 1..n
  BY <1>1
<1>3. Lies(kvs, lab2, mt, x)
  BY LiesSame
<1>4. \A j \in 1..n : kvs[j] \in Pairs /\ kvs[j].key \in Ids
  <2>1. \A j \in 1..n : kvs[j] \in Pairs
    BY ElementOfSeq, LenProperties
  <2> QED
    BY <2>1 DEF Pairs
<1>5. \A j \in 1..n : \A id \in Own(kvs[j]) : lab[id] = x
  BY DEF Lies, Loose, Own
<1>6. \A j \in 1..n : Own(kvs[j]) \cap Own(kv) = {}
  BY <1>5
<1> HIDE DEF r, n
<1>7. ASSUME NEW j \in 1..Len(r)
      PROVE  r[j].key \in mt /\ lab2[r[j].key] = x /\ Loose(r[j].raw, lab2, mt, x)
  <2>1. CASE j = n + 1
    BY <1>1, <2>1 DEF Own
  <2>2. CASE j \in 1..n
    BY <1>1, <1>3, <2>2 DEF Lies, n
  <2> QED
    BY <1>2, <2>1, <2>2
<1>8. ASSUME NEW i \in 1..Len(r), NEW j \in 1..Len(r), i # j
      PROVE  Own(r[i]) \cap Own(r[j]) = {}
  <2>1. CASE i \in 1..n /\ j \in 1..n
    BY <1>1, <1>3, <1>8, <2>1 DEF Lies, n
  <2>2. CASE i = n + 1 /\ j \in 1..n
    BY <1>1, <1>6, <2>2
  <2>3. CASE j = n + 1 /\ i \in 1..n
    BY <1>1, <1>6, <2>3
  <2> QED
    BY <1>2, <1>8, <2>1, <2>2, <2>3
<1>9. Lies(r, lab2, mt, x)
  BY <1>7, <1>8 DEF Lies
<1> QED
  BY <1>9 DEF r

LEMMA StoredWithin ==
    ASSUME NEW e, NEW r, NEW lab, NEW mt, Always(e), Stored(e, lab, mt), Within(e, r)
    PROVE  Stored(r, lab, mt)
<1>1. ASSUME NEW k \in 1..Len(r.frames)
      PROVE  Lies(r.frames[k].deferred, lab, mt, InFrame(k))
  BY LooseNone DEF Within, Stored
<1>2. ASSUME NEW k \in 1..Len(r.calls)
      PROVE  Lies(r.calls[k].todo, lab, mt, InTodo(k))
  BY LooseNone DEF Within, Stored
<1>3. ASSUME NEW k \in 1..Len(r.calls)
      PROVE  Loose(r.calls[k].raw, lab, mt, InRaw(k))
  <2>1. CASE r.calls[k].raw = <<>>
    BY <2>1, LooseNone
  <2>2. CASE k \in 1..Len(e.calls) /\ r.calls[k].raw = e.calls[k].raw
    BY <2>2 DEF Stored
  <2>3. CASE /\ k \in 1..Len(e.calls) /\ e.calls[k].raw # <<>>
             /\ r.calls[k].raw = Tail(e.calls[k].raw)
    <3>1. e.calls[k].raw \in Seq(Tokens) /\ Loose(e.calls[k].raw, lab, mt, InRaw(k))
      BY <2>3, EffectParts DEF Stored
    <3> QED
      BY <2>3, <3>1, LooseRest
  <2> QED
    BY <2>1, <2>2, <2>3 DEF Within
<1> QED
  BY <1>1, <1>2, <1>3 DEF Stored

\* Names of pairs that are read, copied, taken or not met stay.
Carries(lab, lab2) ==
    \A id \in Ids : /\ lab[id] = Nowhere => lab2[id] = Nowhere
                    /\ lab2[id] = InHand <=> lab[id] = InHand
                    /\ lab2[id] = InCopy <=> lab[id] = InCopy
                    /\ lab2[id] = Taken <=> lab[id] = Taken

LEMMA CarriesSelf == \A lab : Carries(lab, lab)
BY DEF Carries

LEMMA SortedKeeps ==
    ASSUME NEW e, NEW r, NEW lab, NEW mt, Always(e), Sorted(e, lab, mt), Keeps(e, r)
    PROVE  Sorted(r, lab, mt)
<1>1. Within(e, r) /\ r.dropped = e.dropped
  BY DEF Keeps
<1>2. Stored(r, lab, mt)
  BY <1>1, StoredWithin DEF Sorted
<1>3. ASSUME NEW id \in mt PROVE Here(r, lab, id)
  <2>1. Here(e, lab, id)
    BY DEF Sorted
  <2>2. CASE lab[id] \in {InHand, Taken, Dropped}
    BY <2>2 DEF Here
  <2>3. CASE \E k \in 1..Len(e.frames) : \E j \in 1..Len(e.frames[k].deferred) :
                  e.frames[k].deferred[j].key = id
    <3>1. PICK k \in 1..Len(e.frames) : \E j \in 1..Len(e.frames[k].deferred) :
                  e.frames[k].deferred[j].key = id
      BY <2>3
    <3>2. e.frames[k].deferred # <<>>
      BY <3>1
    <3>3. k \in 1..Len(r.frames) /\ r.frames[k].deferred = e.frames[k].deferred
      BY <3>2 DEF Keeps
    <3> QED
      BY <3>1, <3>3 DEF Here
  <2>4. CASE \E k \in 1..Len(e.calls) : \E j \in 1..Len(e.calls[k].todo) :
                  e.calls[k].todo[j].key = id
    <3>1. PICK k \in 1..Len(e.calls) : \E j \in 1..Len(e.calls[k].todo) :
                  e.calls[k].todo[j].key = id
      BY <2>4
    <3>2. e.calls[k].todo # <<>>
      BY <3>1
    <3>3. k \in 1..Len(r.calls) /\ r.calls[k].todo = e.calls[k].todo
      BY <3>2 DEF Keeps
    <3> QED
      BY <3>1, <3>3 DEF Here
  <2> QED
    BY <2>1, <2>2, <2>3, <2>4 DEF Here
<1> QED
  BY <1>1, <1>2, <1>3 DEF Sorted

\* Names may change where nothing has them, and where all that do change.
LEMMA StoredNames ==
    ASSUME NEW e, NEW lab, NEW mt, NEW lab2, NEW mt2, Always(e), Stored(e, lab, mt),
           \A id \in Ids :
               (\E k \in Nat : lab[id] \in {InFrame(k), InTodo(k), InRaw(k)}) =>
               lab2[id] = lab[id] /\ (id \in mt2 <=> id \in mt)
    PROVE  Stored(e, lab2, mt2)
<1>1. ASSUME NEW k \in 1..Len(e.frames)
      PROVE  Lies(e.frames[k].deferred, lab2, mt2, InFrame(k))
  <2>1. e.frames[k].deferred \in Seq(Pairs) /\ k \in Nat
    BY EffectParts
  <2>2. Lies(e.frames[k].deferred, lab, mt, InFrame(k))
    BY DEF Stored
  <2>3. \A id \in Ids : lab[id] = InFrame(k) =>
                        lab2[id] = InFrame(k) /\ (id \in mt2 <=> id \in mt)
    BY <2>1
  <2> QED
    BY <2>1, <2>2, <2>3, LiesSame
<1>2. ASSUME NEW k \in 1..Len(e.calls)
      PROVE  /\ Lies(e.calls[k].todo, lab2, mt2, InTodo(k))
             /\ Loose(e.calls[k].raw, lab2, mt2, InRaw(k))
  <2>1. e.calls[k].todo \in Seq(Pairs) /\ k \in Nat
    BY EffectParts
  <2>2. Lies(e.calls[k].todo, lab, mt, InTodo(k)) /\ Loose(e.calls[k].raw, lab, mt, InRaw(k))
    BY DEF Stored
  <2>3. \A id \in Ids : lab[id] = InTodo(k) =>
                        lab2[id] = InTodo(k) /\ (id \in mt2 <=> id \in mt)
    BY <2>1
  <2>4. \A id \in KeysIn(e.calls[k].raw) : lab2[id] = InRaw(k) /\ id \notin mt2
    BY <2>1, <2>2 DEF Loose, KeysIn
  <2> QED
    BY <2>1, <2>2, <2>3, <2>4, LiesSame, LooseSame
<1> QED
  BY <1>1, <1>2 DEF Stored

\* The pairs that are dropped are named so.
LEMMA SortedDrops ==
    ASSUME NEW e, NEW r, NEW lab, NEW mt, Always(e), Always(r), Len(e.frames) >= 1,
           Sorted(e, lab, mt), Drops(e, r)
    PROVE  \E lab2 : Sorted(r, lab2, mt) /\ Carries(lab, lab2)
<1> DEFINE n == Len(e.frames)
           ds == e.frames[n].deferred
           lab2 == [id \in Ids |-> IF id \in r.dropped THEN Dropped ELSE lab[id]]
<1>1. /\ n \in Nat /\ n \in 1..n /\ ds \in Seq(Pairs)
      /\ Len(r.frames) = n /\ r.frames[n].deferred = <<>>
      /\ \A k \in 1..n - 1 : r.frames[k].deferred = e.frames[k].deferred
      /\ \A k \in 1..n : k = n \/ k \in 1..n - 1
  <2>1. n \in Nat
    BY EffectParts
  <2>2. n \in 1..n /\ \A k \in 1..n : k = n \/ k \in 1..n - 1
    BY <2>1
  <2> QED
    BY <2>1, <2>2, EffectParts DEF Drops
<1>2. /\ mt \subseteq Ids /\ Stored(e, lab, mt)
      /\ \A id \in Ids : id \in e.dropped <=> lab[id] = Dropped
      /\ \A id \in mt : Here(e, lab, id)
  BY DEF Sorted
<1>3. r.dropped = e.dropped \union {kv.key : kv \in Members(ds)}
  BY DEF Drops
<1>4. \A id \in Ids : id \in r.dropped => lab[id] \in {Dropped, InFrame(n)}
  <2> SUFFICES ASSUME NEW id \in Ids, id \in r.dropped, id \notin e.dropped
               PROVE  lab[id] = InFrame(n)
    BY <1>2
  <2>1. PICK j \in 1..Len(ds) : id = ds[j].key
    BY <1>3 DEF Members
  <2>2. Lies(ds, lab, mt, InFrame(n))
    BY <1>1, <1>2 DEF Stored
  <2> QED
    BY <2>1, <2>2 DEF Lies
<1>5. \A j \in 1..Len(ds) : ds[j].key \in r.dropped
  BY <1>3 DEF Members
<1>6. Stored(r, lab, mt)
  BY <1>2, DropsWithin, StoredWithin
<1>7. /\ \A k \in Nat : InTodo(k) \notin {Dropped, InFrame(n)}
      /\ \A k \in Nat : InRaw(k) \notin {Dropped, InFrame(n)}
      /\ \A k \in Nat : k # n => InFrame(k) \notin {Dropped, InFrame(n)}
      /\ Nowhere \notin {Dropped, InFrame(n)} /\ InHand \notin {Dropped, InFrame(n)}
      /\ InCopy \notin {Dropped, InFrame(n)} /\ Taken \notin {Dropped, InFrame(n)}
      /\ Dropped \notin {Nowhere, InHand, InCopy, Taken}
  BY NamesApart
<1> HIDE DEF n, ds
<1>8. \A id \in Ids : /\ id \in r.dropped => lab2[id] = Dropped
                      /\ id \notin r.dropped => lab2[id] = lab[id]
  OBVIOUS
<1> HIDE DEF lab2
<1>9. ASSUME NEW k \in 1..Len(r.frames)
      PROVE  Lies(r.frames[k].deferred, lab2, mt, InFrame(k))
  <2>1. CASE k = n
    BY <1>1, <2>1, LooseNone
  <2>2. CASE k # n
    <3>1. k \in Nat /\ r.frames[k].deferred \in Seq(Pairs)
      BY EffectParts
    <3>2. Lies(r.frames[k].deferred, lab, mt, InFrame(k))
      BY <1>6 DEF Stored
    <3>3. \A id \in Ids : lab[id] = InFrame(k) => lab2[id] = InFrame(k)
      BY <1>4, <1>7, <1>8, <2>2, <3>1
    <3> QED
      BY <3>1, <3>2, <3>3, LiesSame
  <2> QED
    BY <2>1, <2>2
<1>10. ASSUME NEW k \in 1..Len(r.calls)
       PROVE  /\ Lies(r.calls[k].todo, lab2, mt, InTodo(k))
              /\ Loose(r.calls[k].raw, lab2, mt, InRaw(k))
  <2>1. k \in Nat /\ r.calls[k].todo \in Seq(Pairs)
    BY EffectParts
  <2>2. Lies(r.calls[k].todo, lab, mt, InTodo(k)) /\ Loose(r.calls[k].raw, lab, mt, InRaw(k))
    BY <1>6 DEF Stored
  <2>3. \A id \in Ids : /\ lab[id] = InTodo(k) => lab2[id] = InTodo(k)
                        /\ lab[id] = InRaw(k) => lab2[id] = InRaw(k)
    BY <1>4, <1>7, <1>8, <2>1
  <2>4. \A id \in KeysIn(r.calls[k].raw) : lab2[id] = InRaw(k) /\ id \notin mt
    BY <2>2, <2>3 DEF Loose, KeysIn
  <2>5. Lies(r.calls[k].todo, lab2, mt, InTodo(k))
    BY <2>1, <2>2, <2>3, LiesSame
  <2> QED
    BY <2>2, <2>4, <2>5, LooseSame
<1>11. \A id \in Ids : id \in r.dropped <=> lab2[id] = Dropped
  BY <1>2, <1>3, <1>8
<1>12. ASSUME NEW id \in mt PROVE Here(r, lab2, id)
  <2>1. id \in Ids /\ Here(e, lab, id)
    BY <1>2
  <2>2. CASE id \in r.dropped
    BY <1>8, <2>1, <2>2 DEF Here
  <2>3. CASE id \notin r.dropped /\ lab[id] \in {InHand, Taken, Dropped}
    BY <1>8, <2>1, <2>3 DEF Here
  <2>4. CASE id \notin r.dropped /\ \E k \in 1..n : \E j \in 1..Len(e.frames[k].deferred) :
                  e.frames[k].deferred[j].key = id
    <3>1. PICK k \in 1..n : \E j \in 1..Len(e.frames[k].deferred) :
                  e.frames[k].deferred[j].key = id
      BY <2>4
    <3>2. k # n
      BY <1>5, <2>4, <3>1 DEF ds
    <3>3. k \in 1..n - 1 /\ k \in 1..Len(r.frames)
      BY <1>1, <3>2
    <3>4. r.frames[k].deferred = e.frames[k].deferred
      BY <1>1, <3>3
    <3> QED
      BY <3>1, <3>3, <3>4 DEF Here
  <2>5. CASE \E k \in 1..Len(e.calls) : \E j \in 1..Len(e.calls[k].todo) :
                  e.calls[k].todo[j].key = id
    BY <2>5 DEF Here, Drops, SameCalls
  <2> QED
    BY <2>1, <2>2, <2>3, <2>4, <2>5 DEF Here, n
<1>13. Carries(lab, lab2)
  <2> SUFFICES ASSUME NEW id \in Ids
               PROVE  /\ lab[id] = Nowhere => lab2[id] = Nowhere
                      /\ lab2[id] = InHand <=> lab[id] = InHand
                      /\ lab2[id] = InCopy <=> lab[id] = InCopy
                      /\ lab2[id] = Taken <=> lab[id] = Taken
    BY DEF Carries
  <2>1. CASE id \in r.dropped
    BY <1>4, <1>7, <1>8, <2>1
  <2>2. CASE id \notin r.dropped
    BY <1>8, <2>2
  <2> QED
    BY <2>1, <2>2
<1>14. Sorted(r, lab2, mt)
  BY <1>2, <1>9, <1>10, <1>11, <1>12 DEF Sorted, Stored
<1> QED
  BY <1>13, <1>14

\* Those that pass to a replay get its name.
LEMMA SortedPasses ==
    ASSUME NEW e, NEW r, NEW lab, NEW mt, Always(e), Len(e.frames) >= 1,
           Sorted(e, lab, mt), Passes(e, r)
    PROVE  \E lab2 : Sorted(r, lab2, mt) /\ Carries(lab, lab2)
<1> DEFINE n == Len(e.frames)
           m == Len(e.calls)
           ds == e.frames[n].deferred
           lab2 == [id \in Ids |-> IF lab[id] = InFrame(n) THEN InTodo(m + 1) ELSE lab[id]]
<1>1. /\ n \in Nat /\ n \in 1..n /\ ds \in Seq(Pairs) /\ m \in Nat
      /\ Len(r.frames) = n /\ r.frames[n].deferred = <<>>
      /\ \A k \in 1..n - 1 : r.frames[k].deferred = e.frames[k].deferred
      /\ \A k \in 1..n : k = n \/ k \in 1..n - 1
      /\ \A k \in 1..m + 1 : k = m + 1 \/ (k \in 1..m /\ k # m + 1)
      /\ \A k \in 1..m : k \in 1..m + 1
      /\ m + 1 \in 1..m + 1
  <2>1. n \in Nat /\ m \in Nat
    BY EffectParts
  <2>2. n \in 1..n /\ \A k \in 1..n : k = n \/ k \in 1..n - 1
    BY <2>1
  <2>3. /\ \A k \in 1..m + 1 : k = m + 1 \/ (k \in 1..m /\ k # m + 1)
        /\ \A k \in 1..m : k \in 1..m + 1
        /\ m + 1 \in 1..m + 1
    BY <2>1
  <2> QED
    BY <2>1, <2>2, <2>3, EffectParts DEF Passes
<1>2. /\ mt \subseteq Ids /\ Stored(e, lab, mt)
      /\ \A id \in Ids : id \in e.dropped <=> lab[id] = Dropped
      /\ \A id \in mt : Here(e, lab, id)
  BY DEF Sorted
<1>3. /\ Len(r.calls) = m + 1
      /\ \A k \in 1..m : r.calls[k].todo = e.calls[k].todo /\ r.calls[k].raw = e.calls[k].raw
      /\ r.calls[m + 1].todo = ds /\ r.calls[m + 1].raw = <<>>
      /\ r.dropped = e.dropped
  BY DEF Passes
<1>7. /\ \A k \in Nat : InTodo(k) # InFrame(n) /\ InRaw(k) # InFrame(n)
      /\ \A k \in Nat : k # n => InFrame(k) # InFrame(n)
      /\ Nowhere # InFrame(n) /\ InHand # InFrame(n) /\ InCopy # InFrame(n)
      /\ Taken # InFrame(n) /\ Dropped # InFrame(n)
      /\ InTodo(m + 1) \notin {InCopy, InHand, Taken, Dropped, Nowhere}
  BY NamesApart
<1> HIDE DEF n, m, ds
<1>8. \A id \in Ids : /\ lab[id] = InFrame(n) => lab2[id] = InTodo(m + 1)
                      /\ lab[id] # InFrame(n) => lab2[id] = lab[id]
  OBVIOUS
<1> HIDE DEF lab2
<1>9. ASSUME NEW k \in 1..Len(r.frames)
      PROVE  Lies(r.frames[k].deferred, lab2, mt, InFrame(k))
  <2>1. CASE k = n
    BY <1>1, <2>1, LooseNone
  <2>2. CASE k # n
    <3>1. k \in Nat /\ k \in 1..n - 1 /\ k \in 1..Len(e.frames)
      BY <1>1, <2>2 DEF n
    <3>2. e.frames[k].deferred \in Seq(Pairs) /\ Lies(e.frames[k].deferred, lab, mt, InFrame(k))
      BY <1>2, <3>1, EffectParts DEF Stored
    <3>3. \A id \in Ids : lab[id] = InFrame(k) => lab2[id] = InFrame(k)
      BY <1>7, <1>8, <2>2, <3>1
    <3>4. Lies(e.frames[k].deferred, lab2, mt, InFrame(k))
      BY <3>2, <3>3, LiesSame
    <3> QED
      BY <1>1, <3>1, <3>4
  <2> QED
    BY <2>1, <2>2
<1>10. ASSUME NEW k \in 1..m
       PROVE  /\ Lies(e.calls[k].todo, lab2, mt, InTodo(k))
              /\ Loose(e.calls[k].raw, lab2, mt, InRaw(k))
  <2>1. k \in Nat /\ e.calls[k].todo \in Seq(Pairs)
    BY EffectParts DEF m
  <2>2. Lies(e.calls[k].todo, lab, mt, InTodo(k)) /\ Loose(e.calls[k].raw, lab, mt, InRaw(k))
    BY <1>2 DEF Stored, m
  <2>3. \A id \in Ids : /\ lab[id] = InTodo(k) => lab2[id] = InTodo(k)
                        /\ lab[id] = InRaw(k) => lab2[id] = InRaw(k)
    BY <1>7, <1>8, <2>1
  <2>4. \A id \in KeysIn(e.calls[k].raw) : lab2[id] = InRaw(k) /\ id \notin mt
    BY <2>2, <2>3 DEF Loose, KeysIn
  <2>5. Lies(e.calls[k].todo, lab2, mt, InTodo(k))
    BY <2>1, <2>2, <2>3, LiesSame
  <2> QED
    BY <2>2, <2>4, <2>5, LooseSame
<1>11. Lies(ds, lab2, mt, InTodo(m + 1))
  <2>1. Lies(ds, lab, mt, InFrame(n))
    BY <1>1, <1>2 DEF Stored, n, ds
  <2> QED
    BY <1>1, <1>8, <2>1, LiesSame
<1>12. ASSUME NEW k \in 1..Len(r.calls)
       PROVE  /\ Lies(r.calls[k].todo, lab2, mt, InTodo(k))
              /\ Loose(r.calls[k].raw, lab2, mt, InRaw(k))
  <2>1. CASE k = m + 1
    BY <1>3, <1>11, <2>1, LooseNone
  <2>2. CASE k \in 1..m
    BY <1>3, <1>10, <2>2
  <2> QED
    BY <1>1, <1>3, <2>1, <2>2
<1>13. \A id \in Ids : id \in r.dropped <=> lab2[id] = Dropped
  BY <1>2, <1>3, <1>7, <1>8
<1>14. ASSUME NEW id \in mt PROVE Here(r, lab2, id)
  <2>1. id \in Ids /\ Here(e, lab, id)
    BY <1>2
  <2>3. CASE lab[id] \in {InHand, Taken, Dropped}
    BY <1>7, <1>8, <2>1, <2>3 DEF Here
  <2>4. CASE \E k \in 1..n : \E j \in 1..Len(e.frames[k].deferred) :
                  e.frames[k].deferred[j].key = id
    <3>1. PICK k \in 1..n : \E j \in 1..Len(e.frames[k].deferred) :
                  e.frames[k].deferred[j].key = id
      BY <2>4
    <3>2. CASE k = n
      <4>1. \E j \in 1..Len(r.calls[m + 1].todo) : r.calls[m + 1].todo[j].key = id
        BY <1>3, <3>1, <3>2 DEF ds
      <4> QED
        BY <1>1, <1>3, <4>1 DEF Here
    <3>3. CASE k # n
      <4>1. k \in 1..n - 1 /\ k \in 1..Len(r.frames)
        BY <1>1, <3>3
      <4>2. r.frames[k].deferred = e.frames[k].deferred
        BY <1>1, <4>1
      <4> QED
        BY <3>1, <4>1, <4>2 DEF Here
    <3> QED
      BY <3>2, <3>3
  <2>5. CASE \E k \in 1..m : \E j \in 1..Len(e.calls[k].todo) : e.calls[k].todo[j].key = id
    <3>1. PICK k \in 1..m : \E j \in 1..Len(e.calls[k].todo) : e.calls[k].todo[j].key = id
      BY <2>5
    <3>2. k \in 1..Len(r.calls) /\ r.calls[k].todo = e.calls[k].todo
      BY <1>1, <1>3
    <3> QED
      BY <3>1, <3>2 DEF Here
  <2> QED
    BY <2>1, <2>3, <2>4, <2>5 DEF Here, n, m
<1>15. Carries(lab, lab2)
  <2> SUFFICES ASSUME NEW id \in Ids
               PROVE  /\ lab[id] = Nowhere => lab2[id] = Nowhere
                      /\ lab2[id] = InHand <=> lab[id] = InHand
                      /\ lab2[id] = InCopy <=> lab[id] = InCopy
                      /\ lab2[id] = Taken <=> lab[id] = Taken
    BY DEF Carries
  <2> QED
    BY <1>7, <1>8
<1>16. Sorted(r, lab2, mt)
  BY <1>2, <1>9, <1>12, <1>13, <1>14 DEF Sorted, Stored
<1> QED
  BY <1>15, <1>16

\* The pair that was read, and what is inside it, get the name of the frame
\* that holds them from now on.
LEMMA SortedPuts ==
    ASSUME NEW e, NEW r, NEW lab, NEW mt, NEW kv \in Pairs, Always(e),
           Len(e.frames) >= 1, Sorted(e, lab, mt), Puts(e, r, kv),
           kv.key \in mt, lab[kv.key] = InHand, Loose(kv.raw, lab, mt, InCopy)
    PROVE  \E lab2 :
               /\ Sorted(r, lab2, mt)
               /\ \A id \in Ids :
                    /\ lab[id] = Nowhere => lab2[id] = Nowhere
                    /\ lab2[id] = InHand <=> lab[id] = InHand /\ id # kv.key
                    /\ lab2[id] = Taken <=> lab[id] = Taken
<1> DEFINE n == Len(e.frames)
           ds == e.frames[n].deferred
           own == Own(kv)
           lab2 == [id \in Ids |-> IF id \in own THEN InFrame(n) ELSE lab[id]]
<1>1. /\ n \in Nat /\ n \in 1..n /\ ds \in Seq(Pairs)
      /\ Len(r.frames) = n /\ r.frames[n].deferred = Append(ds, kv)
      /\ \A k \in 1..n - 1 : r.frames[k].deferred = e.frames[k].deferred
      /\ \A k \in 1..n : k = n \/ k \in 1..n - 1
  <2>1. n \in Nat
    BY EffectParts
  <2>2. n \in 1..n /\ \A k \in 1..n : k = n \/ k \in 1..n - 1
    BY <2>1
  <2> QED
    BY <2>1, <2>2, EffectParts DEF Puts
<1>2. /\ mt \subseteq Ids /\ Stored(e, lab, mt)
      /\ \A id \in Ids : id \in e.dropped <=> lab[id] = Dropped
      /\ \A id \in mt : Here(e, lab, id)
  BY DEF Sorted
<1>3. SameCalls(e, r) /\ r.dropped = e.dropped
  BY DEF Puts
<1>4. /\ kv.key \in Ids /\ kv.raw \in Seq(Tokens)
      /\ own \subseteq Ids /\ kv.key \in own
      /\ \A id \in own : id # kv.key => id \notin mt
      /\ \A id \in own : lab[id] \in {InHand, InCopy} /\ (id # kv.key => lab[id] = InCopy)
  <2>1. \A id \in KeysIn(kv.raw) : id \in Ids /\ id \notin mt /\ lab[id] = InCopy
    BY DEF Loose, KeysIn
  <2>2. kv.key \in Ids /\ kv.raw \in Seq(Tokens)
    BY DEF Pairs
  <2> QED
    BY <2>1, <2>2 DEF Own
<1>7. /\ \A k \in Nat : /\ InTodo(k) \notin {InHand, InCopy}
                        /\ InRaw(k) \notin {InHand, InCopy}
                        /\ InFrame(k) \notin {InHand, InCopy}
      /\ InFrame(n) \notin {InCopy, InHand, Taken, Dropped, Nowhere}
      /\ Taken \notin {InHand, InCopy} /\ Dropped \notin {InHand, InCopy}
      /\ Nowhere \notin {InHand, InCopy} /\ InCopy # InHand
  BY NamesApart
<1> HIDE DEF n, ds, own
<1>8. \A id \in Ids : /\ id \in own => lab2[id] = InFrame(n)
                      /\ id \notin own => lab2[id] = lab[id]
  OBVIOUS
<1> HIDE DEF lab2
<1>9. Stored(e, lab2, mt)
  <2>1. \A id \in Ids : (\E k \in Nat : lab[id] \in {InFrame(k), InTodo(k), InRaw(k)}) =>
                        id \notin own
    BY <1>4, <1>7
  <2>2. \A id \in Ids : (\E k \in Nat : lab[id] \in {InFrame(k), InTodo(k), InRaw(k)}) =>
               lab2[id] = lab[id] /\ (id \in mt <=> id \in mt)
    BY <1>8, <2>1
  <2> QED
    BY <1>2, <2>2, StoredNames
<1>10. Lies(Append(ds, kv), lab2, mt, InFrame(n))
  <2>1. Lies(ds, lab, mt, InFrame(n))
    BY <1>1, <1>2 DEF Stored, n, ds
  <2>2. \A id \in Own(kv) : lab[id] # InFrame(n) /\ lab2[id] = InFrame(n)
    BY <1>4, <1>7, <1>8 DEF own
  <2>3. \A id \in Ids : lab[id] = InFrame(n) => lab2[id] = InFrame(n)
    BY <1>8
  <2>4. \A id \in KeysIn(kv.raw) : lab2[id] = InFrame(n) /\ id \notin mt
    BY <2>2 DEF Loose, Own
  <2>5. Loose(kv.raw, lab2, mt, InFrame(n))
    BY <2>4, LooseSame
  <2> QED
    BY <1>1, <2>1, <2>2, <2>3, <2>5, LiesPut
<1>11. ASSUME NEW k \in 1..Len(r.frames)
       PROVE  Lies(r.frames[k].deferred, lab2, mt, InFrame(k))
  <2>1. CASE k = n
    BY <1>1, <1>10, <2>1
  <2>2. CASE k # n
    <3>1. k \in 1..n - 1 /\ k \in 1..Len(e.frames)
      BY <1>1, <2>2 DEF n
    <3> QED
      BY <1>1, <1>9, <3>1 DEF Stored
  <2> QED
    BY <2>1, <2>2
<1>12. ASSUME NEW k \in 1..Len(r.calls)
       PROVE  /\ Lies(r.calls[k].todo, lab2, mt, InTodo(k))
              /\ Loose(r.calls[k].raw, lab2, mt, InRaw(k))
  BY <1>3, <1>9 DEF Stored, SameCalls
<1>13. \A id \in Ids : id \in r.dropped <=> lab2[id] = Dropped
  BY <1>2, <1>3, <1>4, <1>7, <1>8
<1>14. ASSUME NEW id \in mt PROVE Here(r, lab2, id)
  <2>1. id \in Ids /\ Here(e, lab, id)
    BY <1>2
  <2>2. CASE id = kv.key
    <3>1. Len(ds) + 1 \in 1..Len(Append(ds, kv)) /\ Append(ds, kv)[Len(ds) + 1] = kv
      <4>1. Len(ds) \in Nat /\ Len(Append(ds, kv)) = Len(ds) + 1
            /\ Append(ds, kv)[Len(ds) + 1] = kv
        BY <1>1, AppendOK
      <4> QED
        BY <4>1
    <3> QED
      BY <1>1, <2>2, <3>1 DEF Here
  <2>3. CASE id # kv.key /\ lab[id] \in {InHand, Taken, Dropped}
    BY <1>4, <1>8, <2>1, <2>3 DEF Here
  <2>4. CASE \E k \in 1..n : \E j \in 1..Len(e.frames[k].deferred) :
                  e.frames[k].deferred[j].key = id
    <3>1. PICK k \in 1..n : \E j \in 1..Len(e.frames[k].deferred) :
                  e.frames[k].deferred[j].key = id
      BY <2>4
    <3>2. CASE k = n
      <4>1. PICK j \in 1..Len(ds) : ds[j].key = id
        BY <3>1, <3>2 DEF ds
      <4>2. Len(ds) \in Nat /\ Len(Append(ds, kv)) = Len(ds) + 1 /\ Append(ds, kv)[j] = ds[j]
        BY <1>1, AppendOK
      <4>3. j \in 1..Len(Append(ds, kv))
        BY <4>2
      <4> QED
        BY <1>1, <4>1, <4>2, <4>3 DEF Here
    <3>3. CASE k # n
      <4>1. k \in 1..n - 1 /\ k \in 1..Len(r.frames)
        BY <1>1, <3>3
      <4>2. r.frames[k].deferred = e.frames[k].deferred
        BY <1>1, <4>1
      <4> QED
        BY <3>1, <4>1, <4>2 DEF Here
    <3> QED
      BY <3>2, <3>3
  <2>5. CASE \E k \in 1..Len(e.calls) : \E j \in 1..Len(e.calls[k].todo) :
                  e.calls[k].todo[j].key = id
    BY <1>3, <2>5 DEF Here, SameCalls
  <2> QED
    BY <2>1, <2>2, <2>3, <2>4, <2>5 DEF Here, n
<1>15. \A id \in Ids : /\ lab[id] = Nowhere => lab2[id] = Nowhere
                       /\ lab2[id] = InHand <=> lab[id] = InHand /\ id # kv.key
                       /\ lab2[id] = Taken <=> lab[id] = Taken
  <2> SUFFICES ASSUME NEW id \in Ids
               PROVE  /\ lab[id] = Nowhere => lab2[id] = Nowhere
                      /\ lab2[id] = InHand <=> lab[id] = InHand /\ id # kv.key
                      /\ lab2[id] = Taken <=> lab[id] = Taken
    OBVIOUS
  <2>1. CASE id \in own
    BY <1>4, <1>7, <1>8, <2>1
  <2>2. CASE id \notin own
    BY <1>4, <1>8, <2>2
  <2> QED
    BY <2>1, <2>2
<1>16. Sorted(r, lab2, mt)
  BY <1>2, <1>11, <1>12, <1>13, <1>14 DEF Sorted, Stored
<1> QED
  BY <1>15, <1>16

LEMMA SortedHooks ==
    ASSUME NEW e, NEW r, NEW lab, NEW mt, Always(e), Always(r), Len(e.frames) >= 1,
           Sorted(e, lab, mt), Hooks(e, r), ~r.dead
    PROVE  \E lab2 : Sorted(r, lab2, mt) /\ Carries(lab, lab2)
BY SortedKeeps, SortedDrops, CarriesSelf DEF Hooks

LEMMA SortedEnds ==
    ASSUME NEW e, NEW r, NEW lab, NEW mt, Always(e), Len(e.frames) >= 1,
           Sorted(e, lab, mt), Ends(e, r)
    PROVE  \E lab2 : Sorted(r, lab2, mt) /\ Carries(lab, lab2)
BY SortedKeeps, SortedPasses, CarriesSelf DEF Ends

\* Names of what is nowhere may change.
LEMMA SortedNames ==
    ASSUME NEW e, NEW lab, NEW mt, NEW lab2, NEW mt2, Always(e), Sorted(e, lab, mt),
           mt2 \subseteq Ids,
           \A id \in Ids :
               (\E k \in Nat : lab[id] \in {InFrame(k), InTodo(k), InRaw(k)}) =>
               lab2[id] = lab[id] /\ (id \in mt2 <=> id \in mt),
           \A id \in Ids : lab2[id] = Dropped <=> lab[id] = Dropped,
           \A id \in mt2 : \/ id \in mt /\ lab2[id] = lab[id]
                           \/ lab2[id] \in {InHand, Taken, Dropped}
    PROVE  Sorted(e, lab2, mt2)
<1>1. Stored(e, lab2, mt2)
  BY StoredNames DEF Sorted
<1>2. ASSUME NEW id \in mt2 PROVE Here(e, lab2, id)
  BY DEF Sorted, Here
<1> QED
  BY <1>1, <1>2 DEF Sorted

\* The pair id is being read, to be deferred.
OnHand(id) ==
    \/ regOpen /\ regT = "rtDefer" /\ regKey = id
    \/ pendSet /\ pend = "Defer" /\ LastOf(path) = id

\* Pairs the document has not come to are nowhere.
Beyond(lab, mt, dc) == \A id \in Ids : id > dc.last => lab[id] = Nowhere /\ id \notin mt

Counts(lab, tk) ==
    /\ tk \in [Ids -> Nat]
    /\ \A id \in Ids : tk[id] = IF lab[id] = Taken THEN 1 ELSE 0

Handed(lab) ==
    /\ \A id : OnHand(id) => id \in met /\ lab[id] = InHand
    /\ \A id \in met : lab[id] = InHand => OnHand(id)
    /\ regOpen /\ regT = "rtDefer" => Loose(capBuf, lab, met, InCopy)

\* Names can be given to all pairs, each one.
Books(lab) ==
    Sorted(Now, lab, met) /\ Beyond(lab, met, doc) /\ Counts(lab, taken) /\ Handed(lab)
Accounted == ~dead => \E lab : Books(lab)

LEMMA AccountedNext ==
    ASSUME NEW r, Becomes(r), NEW lab, Sorted(r, lab, met'), Beyond(lab, met', doc'),
           Counts(lab, taken'), Handed(lab)'
    PROVE  Accounted'
<1>1. frames' = r.frames /\ calls' = r.calls /\ dropped' = r.dropped
  BY DEF Becomes
<1>2. Sorted(Now, lab, met)'
  <2>1. Now'.frames = frames' /\ Now'.calls = calls' /\ Now'.dropped = dropped'
    BY DEF Now
  <2>2. Stored(Now', lab, met') <=> Stored(r, lab, met')
    BY <1>1, <2>1 DEF Stored
  <2>3. \A id : Here(Now', lab, id) <=> Here(r, lab, id)
    BY <1>1, <2>1 DEF Here
  <2>4. Sorted(Now', lab, met')
    BY <1>1, <2>1, <2>2, <2>3 DEF Sorted
  <2> QED
    BY <2>4
<1>3. Beyond(lab, met, doc)' /\ Counts(lab, taken)'
  BY DEF Beyond, Counts
<1>4. Books(lab)'
  BY <1>2, <1>3 DEF Books
<1> QED
  BY <1>4 DEF Accounted

\* What is carried over.
LEMMA CarriedOver ==
    ASSUME NEW lab, NEW lab2, NEW mt, NEW dc, NEW tk, Carries(lab, lab2),
           Beyond(lab, mt, dc), Counts(lab, tk)
    PROVE  Beyond(lab2, mt, dc) /\ Counts(lab2, tk)
BY DEF Carries, Beyond, Counts

\* When no pair is read any more, or the same one is.
LEMMA HandedNone ==
    ASSUME NEW lab, \A id : ~OnHand(id)', \A id \in met' : lab[id] # InHand,
           ~(regOpen /\ regT = "rtDefer")'
    PROVE  Handed(lab)'
BY DEF Handed

LEMMA HandedSame ==
    ASSUME NEW lab, NEW lab2, Handed(lab), Carries(lab, lab2), met' = met, met \subseteq Ids,
           \A id : OnHand(id)' <=> OnHand(id),
           (regOpen /\ regT = "rtDefer")' => /\ regOpen /\ regT = "rtDefer"
                                             /\ capBuf' = capBuf
    PROVE  Handed(lab2)'
<1>1. \A id : OnHand(id)' => id \in met' /\ lab2[id] = InHand
  BY DEF Handed, Carries
<1>2. \A id \in met' : lab2[id] = InHand => OnHand(id)'
  BY DEF Handed, Carries
<1>3. (regOpen /\ regT = "rtDefer")' => Loose(capBuf', lab2, met', InCopy)
  <2> SUFFICES ASSUME (regOpen /\ regT = "rtDefer")'
               PROVE  Loose(capBuf, lab2, met, InCopy)
    OBVIOUS
  <2>1. Loose(capBuf, lab, met, InCopy)
    BY DEF Handed
  <2>2. \A id \in KeysIn(capBuf) : lab2[id] = InCopy /\ id \notin met
    BY <2>1 DEF Loose, KeysIn, Carries
  <2> QED
    BY <2>1, <2>2, LooseSame
<1> QED
  BY <1>1, <1>2, <1>3 DEF Handed

\* A token is taken from its source; a key has no name then.
LEMMA TokenSorted ==
    ASSUME IInv, Faithful, NEW tok \in Tokens, Ready(tok), Reads(tok), NEW lab, Books(lab)
    PROVE  \E lab2 :
               /\ Sorted(Consumed(Now), lab2, met) /\ Carries(lab, lab2)
               /\ Beyond(lab2, met, doc') /\ Counts(lab2, taken)
               /\ tok \in Ids => /\ tok \notin met /\ lab2[tok] = Nowhere
                                 /\ \A id \in Ids : id > doc'.last => id # tok
<1> DEFINE e == Consumed(Now)
           m == Len(calls)
<1>1. /\ Always(Now) /\ doc \in DocType /\ doc' \in DocType
      /\ calls = <<>> => /\ Grows(tok) /\ doc' = Extended(tok)
                         /\ Extended(tok) \in DocType
      /\ calls # <<>> => doc' = doc
      /\ Always(e)
  BY TokenFaith, TokenOK DEF IInv
<1>2. /\ Sorted(Now, lab, met) /\ Beyond(lab, met, doc) /\ Counts(lab, taken)
  BY DEF Books
<1>3. CASE calls = <<>>
  <2>1. e = Now
    BY <1>3 DEF Consumed
  <2>2. /\ doc'.last = IF tok \in Ids THEN tok ELSE doc.last
        /\ tok \in Ids => tok = doc.last + 1
        /\ doc.last \in Nat
    BY <1>1, <1>3, TextGrows
  <2>3. tok \in Ids => tok \notin met /\ lab[tok] = Nowhere
    <3> SUFFICES ASSUME tok \in Ids PROVE tok > doc.last
      BY <1>2 DEF Beyond
    <3> QED
      BY <2>2
  <2>4. \A id \in Ids : id > doc'.last => id > doc.last /\ (tok \in Ids => id # tok)
    <3>1. CASE tok \in Ids
      <4>1. Ids \subseteq Nat
        BY TokensApart
      <4>2. \A id \in Ids : id > doc.last + 1 => id > doc.last /\ id # doc.last + 1
        BY <2>2, <4>1
      <4> QED
        BY <2>2, <3>1, <4>2
    <3>2. CASE tok \notin Ids
      BY <2>2, <3>2
    <3> QED
      BY <3>1, <3>2
  <2>5. Beyond(lab, met, doc')
    BY <1>2, <2>4 DEF Beyond
  <2>6. Sorted(e, lab, met)
    BY <1>2, <2>1
  <2> QED
    BY <1>2, <2>3, <2>4, <2>5, <2>6, CarriesSelf
<1>4. CASE calls # <<>>
  <2>1. /\ Keeps(Now, e) /\ Len(e.calls) = m
        /\ m \in 1..m /\ call.raw \in Seq(Tokens) /\ call.raw # <<>>
        /\ tok = Head(call.raw) /\ calls[m].raw = call.raw
        /\ e.calls[m].raw = Tail(call.raw)
        /\ doc' = doc
    BY <1>1, <1>4, ConsumedStore
  <2>2. Sorted(e, lab, met) /\ Stored(e, lab, met)
    BY <1>1, <1>2, <2>1, SortedKeeps DEF Sorted
  <2>3. CASE tok \notin Ids
    BY <1>2, <2>1, <2>2, <2>3, CarriesSelf
  <2>4. CASE tok \in Ids
    <3> DEFINE lab2 == [id \in Ids |-> IF id = tok THEN Nowhere ELSE lab[id]]
    <3>1. /\ tok \notin met /\ lab[tok] = InRaw(m) /\ tok \notin KeysIn(Tail(call.raw))
      <4>1. Loose(call.raw, lab, met, InRaw(m))
        BY <1>2, <2>1, NowIs DEF Sorted, Stored
      <4> QED
        BY <2>1, <2>4, <4>1, LooseRest
    <3>2. /\ InRaw(m) \notin {InCopy, InHand, Taken, Dropped, Nowhere}
          /\ Nowhere \notin {InCopy, InHand, Taken, Dropped}
          /\ \A k : InFrame(k) # InRaw(m) /\ InTodo(k) # InRaw(m)
          /\ \A k : InRaw(k) = InRaw(m) => k = m
      BY NamesApart
    <3>3. lab2[tok] = Nowhere /\ \A id \in Ids : id # tok => lab2[id] = lab[id]
      BY <2>4
    <3> HIDE DEF e, m, lab2
    <3>4. ASSUME NEW k \in 1..Len(e.frames)
          PROVE  Lies(e.frames[k].deferred, lab2, met, InFrame(k))
      <4>1. e.frames[k].deferred \in Seq(Pairs)
            /\ Lies(e.frames[k].deferred, lab, met, InFrame(k))
        BY <1>1, <2>2, EffectParts DEF Stored
      <4>2. \A id \in Ids : lab[id] = InFrame(k) => lab2[id] = InFrame(k)
        BY <3>1, <3>2, <3>3
      <4> QED
        BY <4>1, <4>2, LiesSame
    <3>5. ASSUME NEW k \in 1..Len(e.calls)
          PROVE  /\ Lies(e.calls[k].todo, lab2, met, InTodo(k))
                 /\ Loose(e.calls[k].raw, lab2, met, InRaw(k))
      <4>1. e.calls[k].todo \in Seq(Pairs) /\ Lies(e.calls[k].todo, lab, met, InTodo(k))
            /\ Loose(e.calls[k].raw, lab, met, InRaw(k))
        BY <1>1, <2>2, EffectParts DEF Stored
      <4>2. \A id \in Ids : lab[id] = InTodo(k) => lab2[id] = InTodo(k)
        BY <3>1, <3>2, <3>3
      <4>3. tok \notin KeysIn(e.calls[k].raw)
        <5>1. CASE k = m
          BY <2>1, <3>1, <5>1
        <5>2. CASE k # m
          BY <3>1, <3>2, <4>1, <5>2 DEF Loose
        <5> QED
          BY <5>1, <5>2
      <4>4. \A id \in KeysIn(e.calls[k].raw) : lab2[id] = InRaw(k) /\ id \notin met
        BY <3>3, <4>1, <4>3 DEF Loose, KeysIn
      <4>5. Loose(e.calls[k].raw, lab2, met, InRaw(k))
        BY <4>1, <4>4, LooseSame
      <4> QED
        BY <4>1, <4>2, <4>5, LiesSame
    <3>6. ASSUME NEW id \in met PROVE Here(e, lab2, id)
      <4>1. Here(e, lab, id) /\ id # tok /\ id \in Ids
        BY <2>2, <3>1 DEF Sorted
      <4>2. lab2[id] = lab[id]
        BY <3>3, <4>1
      <4> QED
        BY <4>1, <4>2 DEF Here
    <3>7. \A id \in Ids : id \in e.dropped <=> lab2[id] = Dropped
      BY <2>2, <3>1, <3>2, <3>3 DEF Sorted
    <3>8. Sorted(e, lab2, met)
      BY <2>2, <3>4, <3>5, <3>6, <3>7 DEF Sorted, Stored
    <3>9. Carries(lab, lab2)
      BY <3>1, <3>2, <3>3 DEF Carries
    <3>10. Beyond(lab2, met, doc') /\ Counts(lab2, taken)
      BY <1>2, <2>1, <3>9, CarriedOver
    <3>11. \A id \in Ids : id > doc'.last => id # tok
      BY <1>2, <2>1, <3>1, <3>2 DEF Beyond
    <3> QED
      BY <3>1, <3>3, <3>8, <3>9, <3>10, <3>11 DEF e
  <2> QED
    BY <2>3, <2>4
<1> QED
  BY <1>3, <1>4

\* OnKey was asked about the pair id, which has got its name.
LEMMA AsksAccounted ==
    ASSUME NEW e, Always(e), Len(e.frames) >= 1, e.path \in Seq(Ids), NEW id \in Ids,
           NEW raw, NEW act, NEW r, Asks(e, r, id, raw, act), ~regOpen, NEW lab,
           Sorted(e, lab, met'), Beyond(lab, met', doc'), Counts(lab, taken'),
           \A i \in met' : lab[i] = InHand <=> i = id /\ act = "Defer"
    PROVE  Accounted'
<1>1. /\ Becomes(r) /\ ~r.dead /\ Always(r) /\ Hooks(e, r)
      /\ path' = Append(e.path, id) /\ pend' = act /\ met' = met \union {id}
      /\ regOpen' = regOpen
  BY DEF Asks
<1>2. PICK lab2 : Sorted(r, lab2, met') /\ Carries(lab, lab2)
  BY <1>1, SortedHooks
<1>3. Beyond(lab2, met', doc') /\ Counts(lab2, taken')
  BY <1>2, CarriedOver
<1>4. LastOf(path') = id
  BY <1>1, AppendOK
<1>5. \A i : OnHand(i)' => i = id /\ act = "Defer"
  BY <1>1, <1>4 DEF OnHand
<1>6. act = "Defer" => OnHand(id)'
  BY <1>1, <1>4 DEF OnHand, Asks
<1>7. met' \subseteq Ids
  BY <1>2 DEF Sorted
<1>8. \A i \in met' : lab2[i] = InHand <=> i = id /\ act = "Defer"
  BY <1>2, <1>7 DEF Carries
<1>9. \A i : OnHand(i)' => i \in met' /\ lab2[i] = InHand
  BY <1>1, <1>5, <1>8
<1>10. \A i \in met' : lab2[i] = InHand => OnHand(i)'
  BY <1>6, <1>8
<1>11. Handed(lab2)'
  BY <1>1, <1>9, <1>10 DEF Handed
<1> QED
  BY <1>1, <1>2, <1>3, <1>11, AccountedNext

\* The count of a pair that was taken, and the names that go with it.
LEMMA CountsAsked ==
    ASSUME NEW lab, NEW lab2, NEW id \in Ids, NEW act, Counts(lab, taken), lab[id] # Taken,
           lab2[id] = (IF act = "Defer" THEN InHand ELSE Taken),
           \A i \in Ids : i # id => (lab2[i] = Taken <=> lab[i] = Taken),
           taken' = (IF act = "Defer" THEN taken ELSE [taken EXCEPT ![id] = @ + 1])
    PROVE  Counts(lab2, taken')
<1>1. taken \in [Ids -> Nat] /\ taken[id] = 0
  BY DEF Counts
<1>2. InHand # Taken
  BY NamesApart
<1>3. CASE act = "Defer"
  BY <1>1, <1>2, <1>3 DEF Counts
<1>4. CASE act # "Defer"
  <2>1. taken' = [taken EXCEPT ![id] = 1]
    BY <1>1, <1>4
  <2>2. taken' \in [Ids -> Nat] /\ taken'[id] = 1 /\ \A i \in Ids : i # id => taken'[i] = taken[i]
    BY <1>1, <2>1
  <2> QED
    BY <1>4, <2>2 DEF Counts
<1> QED
  BY <1>3, <1>4

LEMMA KeyAccounted ==
    ASSUME IInv, Faithful, Accounted, NEW id \in Ids, NEW act \in Answers,
           NEW cb \in Callbacks, Key(id, act, cb)
    PROVE  Accounted'
<1> DEFINE e == Consumed(Now)
<1>1. CASE dead'
  BY <1>1 DEF Accounted
<1>2. CASE ~dead'
  <2>1. /\ Ready(id) /\ Reads(id) /\ ~regOpen /\ ~pendSet /\ id \in Tokens
        /\ Always(e) /\ e.path = path /\ path \in Seq(Ids)
        /\ Len(e.frames) >= 1
        /\ \E r : Asks(e, r, id, id, act)
    BY <1>2, KeyStore
  <2>2. PICK r : Asks(e, r, id, id, act)
    BY <2>1
  <2>3. ~dead
    BY <2>1 DEF Ready, Scanning
  <2>4. PICK lab : Books(lab)
    BY <2>3 DEF Accounted
  <2>5. PICK lab1 : /\ Sorted(e, lab1, met) /\ Carries(lab, lab1)
                    /\ Beyond(lab1, met, doc') /\ Counts(lab1, taken)
                    /\ id \notin met /\ lab1[id] = Nowhere
                    /\ \A i \in Ids : i > doc'.last => i # id
    BY <2>1, <2>4, TokenSorted
  <2> DEFINE x == IF act = "Defer" THEN InHand ELSE Taken
             lab2 == [i \in Ids |-> IF i = id THEN x ELSE lab1[i]]
  <2>6. lab2[id] = x /\ \A i \in Ids : i # id => lab2[i] = lab1[i]
    OBVIOUS
  <2>7. /\ x \in {InHand, Taken} /\ x # Dropped /\ Nowhere # Dropped /\ Taken # Nowhere
        /\ \A k : Nowhere \notin {InFrame(k), InTodo(k), InRaw(k)}
        /\ InHand # Taken /\ InHand # Nowhere
        /\ x = InHand <=> act = "Defer"
    BY NamesApart
  <2>8. met' = met \union {id} /\ met \subseteq Ids
        /\ taken' = (IF act = "Defer" THEN taken ELSE [taken EXCEPT ![id] = @ + 1])
    BY <2>2, <2>5 DEF Asks, Sorted
  <2> HIDE DEF lab2, e
  <2>9. Sorted(e, lab2, met')
    <3> HIDE DEF x
    <3>1. \A i \in Ids : (\E k \in Nat : lab1[i] \in {InFrame(k), InTodo(k), InRaw(k)}) =>
                         i # id
      BY <2>5, <2>7
    <3>2. \A i \in Ids : (\E k \in Nat : lab1[i] \in {InFrame(k), InTodo(k), InRaw(k)}) =>
                         lab2[i] = lab1[i] /\ (i \in met' <=> i \in met)
      BY <2>6, <2>8, <3>1
    <3>3. \A i \in Ids : lab2[i] = Dropped <=> lab1[i] = Dropped
      BY <2>5, <2>6, <2>7
    <3>4. \A i \in met' : \/ i \in met /\ lab2[i] = lab1[i]
                          \/ lab2[i] \in {InHand, Taken, Dropped}
      BY <2>6, <2>7, <2>8
    <3>5. met' \subseteq Ids
      BY <2>8
    <3> QED
      BY <2>1, <2>5, <3>2, <3>3, <3>4, <3>5, SortedNames
  <2>10. Beyond(lab2, met', doc')
    BY <2>5, <2>6, <2>8 DEF Beyond
  <2>11. Counts(lab2, taken')
    <3>1. lab1[id] # Taken /\ \A i \in Ids : i # id => (lab2[i] = Taken <=> lab1[i] = Taken)
      BY <2>5, <2>6, <2>7
    <3> QED
      BY <2>5, <2>6, <2>8, <3>1, CountsAsked
  <2>12. \A i \in met' : lab2[i] = InHand <=> i = id /\ act = "Defer"
    <3>1. \A i \in met : lab[i] # InHand
      BY <2>1, <2>4 DEF Books, Handed, OnHand
    <3>2. \A i \in met : lab1[i] # InHand
      BY <2>5, <2>8, <3>1 DEF Carries
    <3> QED
      BY <2>5, <2>6, <2>7, <2>8, <3>2
  <2> QED
    BY <2>1, <2>2, <2>9, <2>10, <2>11, <2>12, AsksAccounted
<1> QED
  BY <1>1, <1>2

\* The next pair leaves its replay for a hook, what is inside it to be read.
LEMMA ReplayNextAccounted ==
    ASSUME IInv, Accounted, NEW act \in Answers, NEW cb \in Callbacks,
           ReplayNext(act, cb)
    PROVE  Accounted'
<1> DEFINE kv == Head(call.todo)
           e == [Now EXCEPT !.calls[Len(calls)].todo = Tail(@),
                            !.calls[Len(calls)].raw = kv.raw]
           m == Len(calls)
           id == kv.key
           s == Tail(call.todo)
           keys == KeysIn(kv.raw)
           x == IF act = "Defer" THEN InHand ELSE Taken
<1>1. CASE dead'
  BY <1>1 DEF Accounted
<1>2. CASE ~dead'
  <2>1. /\ Between /\ call.todo # <<>> /\ doc' = doc
        /\ \E r : Asks(e, r, id, kv.keyRaw, act)
    BY <1>2, ReplayNextStore
  <2>2. /\ Always(e) /\ kv \in Pairs
        /\ call.todo \in Seq(Pairs)
        /\ call = calls[m] /\ m \in 1..m /\ path \in Seq(Ids) /\ ~regOpen /\ ~dead
        /\ ~pendSet /\ Len(frames) >= 1
        /\ e.frames = frames /\ e.path = path /\ e.dropped = dropped
        /\ Len(e.calls) = m /\ \A k \in 1..m - 1 : e.calls[k] = calls[k]
        /\ e.calls[m].todo = s /\ e.calls[m].raw = kv.raw
    BY <2>1, NextPairStore
  <2>3. PICK lab : Books(lab)
    BY <2>2 DEF Accounted
  <2>4. /\ Sorted(Now, lab, met) /\ Stored(Now, lab, met) /\ met \subseteq Ids
        /\ Beyond(lab, met, doc) /\ Counts(lab, taken)
    BY <2>3 DEF Books, Sorted
  <2>5. Always(Now)
    BY DEF IInv
  <2>6. /\ Lies(s, lab, met, InTodo(m)) /\ s \in Seq(Pairs)
        /\ id \in met /\ lab[id] = InTodo(m) /\ Loose(kv.raw, lab, met, InTodo(m))
        /\ \A j \in 1..Len(s) : Own(kv) \cap Own(s[j]) = {}
        /\ \A j \in 1..Len(call.todo) : call.todo[j] = kv \/ \E i \in 1..Len(s) : call.todo[j] = s[i]
    <3>1. Lies(call.todo, lab, met, InTodo(m))
      BY <2>2, <2>4, NowIs DEF Stored
    <3> HIDE DEF m
    <3> QED
      BY <2>1, <2>2, <3>1, LiesRest
  <2>7. /\ id \in Ids /\ kv.raw \in Seq(Tokens) /\ id \notin keys
        /\ \A i \in keys : i \in Ids /\ i \notin met /\ lab[i] = InTodo(m)
        /\ Own(kv) = {id} \union keys
    BY <2>2, <2>6 DEF Pairs, Loose, KeysIn, Own
  <2>8. PICK r : Asks(e, r, id, kv.keyRaw, act)
    BY <2>1
  <2>9. /\ x \in {InHand, Taken} /\ x \notin {Dropped, Nowhere}
        /\ Nowhere # Dropped /\ Taken # Nowhere
        /\ InHand # Taken /\ InHand # Nowhere
        /\ x = InHand <=> act = "Defer"
        /\ \A k : /\ InFrame(k) # InTodo(m) /\ InRaw(k) # InTodo(m)
                  /\ InTodo(k) = InTodo(m) => k = m
        /\ InTodo(m) \notin {InCopy, InHand, Taken, Dropped, Nowhere}
        /\ InRaw(m) \notin {InCopy, InHand, Taken, Dropped, Nowhere}
    BY NamesApart
  <2> DEFINE lab2 == [i \in Ids |-> IF i = id THEN x
                                    ELSE IF i \in keys THEN InRaw(m) ELSE lab[i]]
  <2>10. /\ lab2[id] = x /\ \A i \in keys : lab2[i] = InRaw(m)
         /\ \A i \in Ids : i # id /\ i \notin keys => lab2[i] = lab[i]
    BY <2>7
  <2>11. met' = met
         /\ taken' = (IF act = "Defer" THEN taken ELSE [taken EXCEPT ![id] = @ + 1])
    BY <2>6, <2>8 DEF Asks
  <2> HIDE DEF lab2, e, m, s, x
  <2>12. \A i \in Ids : lab[i] # InTodo(m) => lab2[i] = lab[i]
    BY <2>6, <2>7, <2>10
  <2>13. ASSUME NEW k \in 1..Len(e.frames)
         PROVE  Lies(e.frames[k].deferred, lab2, met, InFrame(k))
    <3>1. e.frames[k].deferred \in Seq(Pairs)
      BY <2>2, EffectParts
    <3>2. Lies(e.frames[k].deferred, lab, met, InFrame(k))
      BY <2>2, <2>4, NowIs DEF Stored
    <3>3. \A i \in Ids : lab[i] = InFrame(k) => lab2[i] = InFrame(k)
      BY <2>9, <2>12
    <3> QED
      BY <3>1, <3>2, <3>3, LiesSame
  <2>14. ASSUME NEW k \in 1..m - 1
         PROVE  /\ Lies(e.calls[k].todo, lab2, met, InTodo(k))
                /\ Loose(e.calls[k].raw, lab2, met, InRaw(k))
    <3>1. k \in 1..Len(calls) /\ k # m
      BY <2>2 DEF m
    <3>2. /\ calls[k].todo \in Seq(Pairs) /\ Lies(calls[k].todo, lab, met, InTodo(k))
          /\ Loose(calls[k].raw, lab, met, InRaw(k)) /\ e.calls[k] = calls[k]
      BY <2>2, <2>4, <2>5, <3>1, NowIs, EffectParts DEF Stored
    <3>3. \A i \in Ids : /\ lab[i] = InTodo(k) => lab2[i] = InTodo(k)
                         /\ lab[i] = InRaw(k) => lab2[i] = InRaw(k)
      BY <2>9, <2>12, <3>1
    <3>4. \A i \in KeysIn(calls[k].raw) : lab2[i] = InRaw(k) /\ i \notin met
      BY <3>2, <3>3 DEF Loose, KeysIn
    <3>5. Loose(calls[k].raw, lab2, met, InRaw(k))
      BY <3>2, <3>4, LooseSame
    <3> QED
      BY <3>2, <3>3, <3>5, LiesSame
  <2>15. Lies(s, lab2, met, InTodo(m)) /\ Loose(kv.raw, lab2, met, InRaw(m))
    <3>1. \A j \in 1..Len(s) : \A i \in Own(s[j]) : i \in Ids /\ lab[i] = InTodo(m)
      BY <2>6, LiesNames
    <3>2. \A j \in 1..Len(s) : \A i \in Own(s[j]) : i # id /\ i \notin keys
      BY <2>6, <2>7
    <3>3. \A j \in 1..Len(s) : \A i \in Own(s[j]) : lab2[i] = InTodo(m)
      BY <2>10, <3>1, <3>2
    <3>4. Lies(s, lab2, met, InTodo(m))
      BY <2>6, <3>3, LiesOwn
    <3>5. Loose(kv.raw, lab2, met, InRaw(m))
      BY <2>6, <2>7, <2>10, LooseSame
    <3> QED
      BY <3>4, <3>5
  <2>16. Stored(e, lab2, met)
    <3>1. ASSUME NEW k \in 1..Len(e.calls)
          PROVE  /\ Lies(e.calls[k].todo, lab2, met, InTodo(k))
                 /\ Loose(e.calls[k].raw, lab2, met, InRaw(k))
      <4>1. CASE k = m
        BY <2>2, <2>15, <4>1
      <4>2. CASE k # m
        <5>1. k \in 1..m - 1
          BY <2>2, <4>2
        <5> QED
          BY <2>14, <5>1
      <4> QED
        BY <4>1, <4>2
    <3> QED
      BY <2>13, <3>1 DEF Stored
  <2>17. ASSUME NEW i \in met PROVE Here(e, lab2, i)
    <3>1. CASE i = id
      BY <2>9, <2>10, <3>1 DEF Here
    <3>2. CASE i # id
      <4>1. Here(Now, lab, i) /\ i \in Ids /\ i \notin keys /\ lab2[i] = lab[i]
        BY <2>4, <2>7, <2>10, <3>2 DEF Sorted
      <4>2. CASE lab[i] \in {InHand, Taken, Dropped}
        BY <4>1, <4>2 DEF Here
      <4>3. CASE \E k \in 1..Len(frames) : \E j \in 1..Len(frames[k].deferred) :
                      frames[k].deferred[j].key = i
        BY <2>2, <4>3 DEF Here
      <4>4. CASE \E k \in 1..m : \E j \in 1..Len(calls[k].todo) : calls[k].todo[j].key = i
        <5>1. PICK k \in 1..m : \E j \in 1..Len(calls[k].todo) : calls[k].todo[j].key = i
          BY <4>4
        <5>2. CASE k = m
          <6>1. PICK j \in 1..Len(call.todo) : call.todo[j].key = i
            BY <2>2, <5>1, <5>2
          <6>2. \E l \in 1..Len(s) : call.todo[j] = s[l]
            BY <2>6, <3>2, <6>1
          <6>3. \E l \in 1..Len(e.calls[m].todo) : e.calls[m].todo[l].key = i
            BY <2>2, <6>1, <6>2
          <6> QED
            BY <2>2, <6>3 DEF Here
        <5>3. CASE k # m
          <6>1. k \in 1..m - 1 /\ k \in 1..Len(e.calls)
            BY <2>2, <5>3
          <6>2. e.calls[k] = calls[k]
            BY <2>2, <6>1
          <6> QED
            BY <5>1, <6>1, <6>2 DEF Here
        <5> QED
          BY <5>2, <5>3
      <4> QED
        BY <4>1, <4>2, <4>3, <4>4, NowIs DEF Here, m
    <3> QED
      BY <3>1, <3>2
  <2>18. \A i \in Ids : i \in e.dropped <=> lab2[i] = Dropped
    <3>1. \A i \in Ids : lab2[i] = Dropped <=> lab[i] = Dropped
      BY <2>6, <2>7, <2>9, <2>10
    <3> QED
      BY <2>2, <2>4, <3>1, NowIs DEF Sorted
  <2>19. Sorted(e, lab2, met')
    BY <2>4, <2>11, <2>16, <2>17, <2>18 DEF Sorted
  <2>20. Beyond(lab2, met', doc')
    <3>1. \A i \in Ids : i > doc.last => lab2[i] = Nowhere /\ i \notin met
      BY <2>4, <2>9, <2>12 DEF Beyond
    <3> QED
      BY <2>1, <2>11, <3>1 DEF Beyond
  <2>21. Counts(lab2, taken')
    <3>1. lab[id] # Taken /\ \A i \in Ids : i # id => (lab2[i] = Taken <=> lab[i] = Taken)
      BY <2>6, <2>7, <2>9, <2>10
    <3>2. lab2[id] = (IF act = "Defer" THEN InHand ELSE Taken)
      BY <2>10 DEF x
    <3>3. Counts(lab, taken) /\ id \in Ids
      BY <2>4, <2>7
    <3> HIDE DEF id, kv
    <3>4. PICK c, n2 : c \in Ids /\ c = id /\ n2 = lab2
      BY <3>3
    <3>5. /\ taken' = (IF act = "Defer" THEN taken ELSE [taken EXCEPT ![c] = @ + 1])
          /\ n2[c] = (IF act = "Defer" THEN InHand ELSE Taken)
          /\ lab[c] # Taken /\ \A i \in Ids : i # c => (n2[i] = Taken <=> lab[i] = Taken)
      BY <2>11, <3>1, <3>2, <3>4
    <3>6. Counts(n2, taken')
      BY <3>3, <3>4, <3>5, CountsAsked
    <3> QED
      BY <3>4, <3>6
  <2>22. \A i \in met' : lab2[i] = InHand <=> i = id /\ act = "Defer"
    <3>1. \A i \in met : lab[i] # InHand
      BY <2>2, <2>3 DEF Books, Handed, OnHand
    <3>2. \A i \in met : i # id => lab2[i] # InHand
      BY <2>4, <2>7, <2>10, <3>1
    <3> QED
      BY <2>9, <2>10, <2>11, <3>2
  <2> HIDE DEF id, kv
  <2>23. Len(e.frames) >= 1 /\ e.path \in Seq(Ids)
    BY <2>2
  <2> QED
    BY <2>2, <2>7, <2>8, <2>19, <2>20, <2>21, <2>22, <2>23, AsksAccounted
<1> QED
  BY <1>1, <1>2

\* The pair whose value begins is the one a hook was asked about.
LEMMA ValueAccounted ==
    ASSUME IInv, Faithful, Accounted, NEW tok \in Tokens, Value(tok)
    PROVE  Accounted'
<1> DEFINE e == Consumed(Now)
<1>1. CASE dead'
  BY <1>1 DEF Accounted
<1>2. CASE ~dead'
  <2>1. /\ tok \notin Ids /\ Ready(tok) /\ Reads(tok) /\ ~regOpen /\ pendSet /\ ~dead
        /\ Always(e) /\ \E r : Begins(tok, e, r)
    BY <1>2, ValueStore
  <2>2. PICK r : Begins(tok, e, r)
    BY <2>1
  <2>3. PICK lab : Books(lab)
    BY <2>1 DEF Accounted
  <2>4. PICK lab2 : /\ Sorted(e, lab2, met) /\ Carries(lab, lab2)
                    /\ Beyond(lab2, met, doc') /\ Counts(lab2, taken)
    BY <2>1, <2>3, TokenSorted
  <2>5. /\ Becomes(r) /\ Keeps(e, r) /\ path' = path /\ pendSet' = FALSE
        /\ taken' = taken /\ met' = met
    BY <2>2 DEF Begins
  <2> HIDE DEF e
  <2>6. Sorted(r, lab2, met)
    BY <2>1, <2>4, <2>5, SortedKeeps
  <2>7. \A id : OnHand(id) <=> pend = "Defer" /\ LastOf(path) = id
    BY <2>1 DEF OnHand
  <2>8. /\ (regOpen /\ regT = "rtDefer")' <=> pend = "Defer"
        /\ pend = "Defer" => regKey' = LastOf(path) /\ capBuf' = <<tok>>
    BY <2>1, <2>2 DEF Begins
  <2>9. \A id : OnHand(id)' <=> OnHand(id)
    BY <2>5, <2>7, <2>8 DEF OnHand
  <2>10. met \subseteq Ids /\ Handed(lab)
    BY <2>3, <2>4 DEF Sorted, Books
  <2>11. \A id \in met : lab2[id] = InHand <=> lab[id] = InHand
    BY <2>4, <2>10 DEF Carries
  <2>12. \A id : OnHand(id)' => id \in met' /\ lab2[id] = InHand
    BY <2>5, <2>9, <2>10, <2>11 DEF Handed
  <2>13. \A id \in met' : lab2[id] = InHand => OnHand(id)'
    BY <2>5, <2>9, <2>10, <2>11 DEF Handed
  <2>14. Loose(<<tok>>, lab2, met, InCopy)
    <3>1. /\ <<tok>> = Append(<<>>, tok) /\ <<>> \in Seq(Tokens)
          /\ Loose(<<>>, lab2, met, InCopy)
      BY LooseNone
    <3> QED
      BY <2>1, <3>1, LooseOn
  <2>15. (regOpen /\ regT = "rtDefer")' => Loose(capBuf', lab2, met', InCopy)
    BY <2>5, <2>8, <2>14
  <2>16. Handed(lab2)'
    BY <2>12, <2>13, <2>15 DEF Handed
  <2> QED
    BY <2>4, <2>5, <2>6, <2>16, AccountedNext
<1> QED
  BY <1>1, <1>2

\* A region ends: the pair it has read is held, if it was to be.
LEMMA EndAccounted ==
    ASSUME NEW e, Always(e), Len(e.frames) >= 1, e.path # <<>>,
           NEW raw \in Seq(Tokens), NEW cb,
           regT = "rtDefer" => kvRaw \in Ids /\ regKey \in Ids,
           Becomes(endRegion(e, raw, cb)), regOpen' = FALSE, pendSet' = FALSE,
           met' = met, taken' = taken,
           NEW lab, Sorted(e, lab, met), Beyond(lab, met, doc'), Counts(lab, taken),
           \A id \in met : lab[id] = InHand => regT = "rtDefer" /\ regKey = id,
           regT = "rtDefer" => /\ regKey \in met /\ lab[regKey] = InHand
                               /\ Loose(raw, lab, met, InCopy)
    PROVE  Accounted'
<1> DEFINE r == endRegion(e, raw, cb)
           kv == [key |-> regKey, keyRaw |-> kvRaw, raw |-> raw]
<1>1. CASE r.dead
  BY <1>1 DEF Becomes, Accounted
<1>2. CASE ~r.dead
  <2>1. PICK h : /\ Always(h) /\ Len(h.frames) >= 1 /\ Ends(h, r)
                 /\ IF regT = "rtDefer" THEN Puts(e, h, kv)
                    ELSE Keeps(e, h) \/ Drops(e, h)
    BY <1>2, EndRegionStore
  <2>2. met \subseteq Ids
    BY DEF Sorted
  <2>3. PICK lab2 : /\ Sorted(h, lab2, met) /\ Beyond(lab2, met, doc') /\ Counts(lab2, taken)
                    /\ \A id \in met : lab2[id] # InHand
    <3>1. CASE regT = "rtDefer"
      <4>1. kv \in Pairs /\ kv.key = regKey /\ kv.raw = raw
        BY <3>1 DEF Pairs
      <4> HIDE DEF kv
      <4>2. PICK l2 : /\ Sorted(h, l2, met)
                      /\ \A id \in Ids :
                           /\ lab[id] = Nowhere => l2[id] = Nowhere
                           /\ l2[id] = InHand <=> lab[id] = InHand /\ id # kv.key
                           /\ l2[id] = Taken <=> lab[id] = Taken
        BY <2>1, <3>1, <4>1, SortedPuts
      <4>3. Beyond(l2, met, doc') /\ Counts(l2, taken)
        BY <4>2 DEF Beyond, Counts
      <4>4. \A id \in met : l2[id] # InHand
        BY <2>2, <4>1, <4>2
      <4> QED
        BY <4>2, <4>3, <4>4
    <3>2. CASE regT # "rtDefer"
      <4>1. PICK l2 : Sorted(h, l2, met) /\ Carries(lab, l2)
        BY <2>1, <3>2, SortedKeeps, SortedDrops, CarriesSelf
      <4>2. Beyond(l2, met, doc') /\ Counts(l2, taken)
        BY <4>1, CarriedOver
      <4>3. \A id \in met : l2[id] # InHand
        BY <2>2, <3>2, <4>1 DEF Carries
      <4> QED
        BY <4>1, <4>2, <4>3
    <3> QED
      BY <3>1, <3>2
  <2> HIDE DEF r
  <2>4. PICK l3 : Sorted(r, l3, met) /\ Carries(lab2, l3)
    BY <2>1, <2>3, SortedEnds
  <2>5. Beyond(l3, met, doc') /\ Counts(l3, taken)
    BY <2>3, <2>4, CarriedOver
  <2>6. \A id \in met : l3[id] # InHand
    BY <2>2, <2>3, <2>4 DEF Carries
  <2>7. Handed(l3)'
    <3>1. \A id : ~OnHand(id)'
      BY DEF OnHand
    <3> QED
      BY <2>6, <3>1 DEF Handed
  <2>8. Becomes(r)
    BY DEF r
  <2> QED
    BY <2>4, <2>5, <2>7, <2>8, AccountedNext
<1> QED
  BY <1>1, <1>2

LEMMA SimpleEndAccounted ==
    ASSUME IInv, Accounted, NEW cb \in Callbacks, SimpleEnd(cb)
    PROVE  Accounted'
<1>1. /\ ~dead /\ regOpen /\ ~pendSet /\ Always(Now)
      /\ Len(frames) >= 1 /\ path # <<>> /\ capBuf \in Seq(Tokens)
      /\ regT = "rtDefer" => kvRaw \in Ids /\ regKey \in Ids
      /\ Becomes(endRegion(Now, capBuf, cb)) /\ regOpen' = FALSE
      /\ doc' = doc /\ pendSet' = pendSet /\ taken' = taken /\ met' = met
  BY SimpleEndStore
<1>2. pendSet' = FALSE
  BY <1>1 DEF IInv, RestType
<1>3. PICK lab : Books(lab)
  BY <1>1 DEF Accounted
<1>4. /\ Sorted(Now, lab, met) /\ Beyond(lab, met, doc') /\ Counts(lab, taken)
      /\ Handed(lab)
  BY <1>1, <1>3 DEF Books
<1>5. \A id \in met : lab[id] = InHand => regT = "rtDefer" /\ regKey = id
  BY <1>1, <1>4 DEF Handed, OnHand
<1>6. regT = "rtDefer" => /\ regKey \in met /\ lab[regKey] = InHand
                          /\ Loose(capBuf, lab, met, InCopy)
  BY <1>1, <1>4 DEF Handed, OnHand
<1>7. Len(Now.frames) >= 1 /\ Now.path # <<>>
  BY <1>1, NowIs
<1> QED
  BY <1>1, <1>2, <1>4, <1>5, <1>6, <1>7, EndAccounted

\* A key inside a value that is copied goes into the copy.
LEMMA RegionByteAccounted ==
    ASSUME IInv, Faithful, Accounted, NEW tok \in Tokens, NEW cb \in Callbacks,
           RegionByte(tok, cb)
    PROVE  Accounted'
<1> DEFINE c == Consumed(Now)
           ends == tok = Close /\ depth - 1 = regDepth
<1>1. /\ Ready(tok) /\ Reads(tok) /\ regOpen /\ ~pendSet /\ ~dead /\ Always(Now)
      /\ Len(frames) >= 1 /\ path # <<>> /\ capBuf \in Seq(Tokens)
      /\ regT = "rtDefer" => kvRaw \in Ids /\ regKey \in Ids
      /\ pend' = pend /\ pendSet' = pendSet /\ taken' = taken /\ met' = met
      /\ \E e, raw : Advances(tok, cb, e, raw)
  BY RegionStore
<1>2. PICK e, raw : Advances(tok, cb, e, raw)
  BY <1>1
<1>3. /\ Always(e) /\ e.frames = frames /\ e.calls = c.calls
      /\ e.path = path /\ e.dropped = dropped /\ raw \in Seq(Tokens)
      /\ regT = "rtDefer" => raw = Append(capBuf, tok)
  BY <1>2 DEF Advances
<1>4. /\ ends => /\ Becomes(endRegion(e, raw, cb))
                 /\ regOpen' = FALSE /\ regT' = "rtNone"
      /\ ~ends => /\ Becomes(e) /\ capBuf' = raw /\ regOpen' = regOpen
                  /\ regT' = regT /\ regDepth' = regDepth /\ regKey' = regKey
  BY <1>2 DEF Advances
<1>5. PICK lab : Books(lab)
  BY <1>1 DEF Accounted
<1>6. PICK lab1 : /\ Sorted(c, lab1, met) /\ Carries(lab, lab1)
                  /\ Beyond(lab1, met, doc') /\ Counts(lab1, taken)
                  /\ tok \in Ids => /\ tok \notin met /\ lab1[tok] = Nowhere
                                    /\ \A id \in Ids : id > doc'.last => id # tok
  BY <1>1, <1>5, TokenSorted
<1>7. Always(c) /\ c.frames = frames /\ c.dropped = dropped
  <2>1. Always(c) /\ c.frames = frames
    BY <1>1, TokenOK
  <2>2. c.dropped = dropped
    BY <1>1, ConsumedStore
  <2> QED
    BY <2>1, <2>2
<1> HIDE DEF c, ends
<1>8. Sorted(e, lab1, met)
  <2>1. Keeps(c, e)
    BY <1>3, <1>7, SameKeeps
  <2> QED
    BY <1>6, <1>7, <2>1, SortedKeeps
<1>9. met \subseteq Ids /\ Handed(lab)
  BY <1>5, <1>8 DEF Sorted, Books
<1>10. /\ \A id \in met : lab[id] = InHand <=> regT = "rtDefer" /\ regKey = id
       /\ regT = "rtDefer" => regKey \in met /\ Loose(capBuf, lab, met, InCopy)
  BY <1>1, <1>9 DEF Handed, OnHand
<1> DEFINE moved == tok \in Ids /\ regT = "rtDefer"
<1>11. PICK lab2 :
          /\ \A id \in Ids : ~(moved /\ id = tok) => lab2[id] = lab1[id]
          /\ moved => lab2[tok] = InCopy
  <2> DEFINE l == [id \in Ids |-> IF moved /\ id = tok THEN InCopy ELSE lab1[id]]
  <2>1. /\ \A id \in Ids : ~(moved /\ id = tok) => l[id] = lab1[id]
        /\ moved => l[tok] = InCopy
    OBVIOUS
  <2> HIDE DEF l
  <2> QED
    BY <2>1
<1>12. /\ InCopy \notin {Nowhere, InHand, Taken, Dropped}
       /\ Nowhere \notin {InHand, Taken, Dropped, InCopy}
       /\ \A k : Nowhere \notin {InFrame(k), InTodo(k), InRaw(k)}
  BY NamesApart
<1>13. Sorted(e, lab2, met)
  <2>1. \A id \in Ids : (\E k \in Nat : lab1[id] \in {InFrame(k), InTodo(k), InRaw(k)}) =>
                        ~(moved /\ id = tok)
    BY <1>6, <1>12
  <2>2. \A id \in Ids : (\E k \in Nat : lab1[id] \in {InFrame(k), InTodo(k), InRaw(k)}) =>
                        lab2[id] = lab1[id] /\ (id \in met <=> id \in met)
    BY <1>11, <2>1
  <2>3. \A id \in Ids : lab2[id] = Dropped <=> lab1[id] = Dropped
    BY <1>6, <1>11, <1>12
  <2>4. \A id \in met : \/ id \in met /\ lab2[id] = lab1[id]
                        \/ lab2[id] \in {InHand, Taken, Dropped}
    BY <1>6, <1>9, <1>11
  <2> QED
    BY <1>3, <1>8, <1>9, <2>2, <2>3, <2>4, SortedNames
<1>14. Beyond(lab2, met, doc') /\ Counts(lab2, taken)
  <2>1. Beyond(lab2, met, doc')
    BY <1>6, <1>11 DEF Beyond
  <2>2. \A id \in Ids : lab2[id] = Taken <=> lab1[id] = Taken
    BY <1>6, <1>11, <1>12
  <2> QED
    BY <1>6, <2>1, <2>2 DEF Counts
<1>15. \A id \in met : lab2[id] = InHand <=> regT = "rtDefer" /\ regKey = id
  <2>1. \A id \in met : lab1[id] = InHand <=> lab[id] = InHand
    BY <1>6, <1>9 DEF Carries
  <2>2. \A id \in met : lab2[id] = lab1[id]
    BY <1>6, <1>9, <1>11
  <2> QED
    BY <1>10, <2>1, <2>2
<1>16. regT = "rtDefer" => Loose(raw, lab2, met, InCopy)
  <2> SUFFICES ASSUME regT = "rtDefer" PROVE Loose(Append(capBuf, tok), lab2, met, InCopy)
    BY <1>3
  <2>1. \A id \in KeysIn(capBuf) : id \in Ids /\ lab1[id] = InCopy /\ id \notin met
    BY <1>6, <1>10 DEF Loose, KeysIn, Carries
  <2>2. tok \in Ids => tok \notin KeysIn(capBuf)
    BY <1>6, <1>12, <2>1
  <2>3. \A id \in KeysIn(capBuf) : lab2[id] = InCopy /\ id \notin met
    BY <1>11, <2>1, <2>2
  <2>4. Loose(capBuf, lab2, met, InCopy)
    BY <1>10, <2>3, LooseSame
  <2>5. tok \in Ids => tok \notin KeysIn(capBuf) /\ tok \notin met /\ lab2[tok] = InCopy
    BY <1>6, <1>11, <2>2
  <2> QED
    BY <1>1, <2>4, <2>5, LooseOn
<1>17. CASE ends
  <2>1. pendSet' = FALSE
    BY <1>1 DEF IInv, RestType
  <2>2. /\ \A id \in met : lab2[id] = InHand => regT = "rtDefer" /\ regKey = id
        /\ regT = "rtDefer" => /\ regKey \in met /\ lab2[regKey] = InHand
                               /\ Loose(raw, lab2, met, InCopy)
    BY <1>10, <1>15, <1>16
  <2>3. Len(e.frames) >= 1 /\ e.path # <<>>
    BY <1>1, <1>3
  <2> QED
    BY <1>1, <1>3, <1>4, <1>13, <1>14, <1>17, <2>1, <2>2, <2>3, EndAccounted
<1>18. CASE ~ends
  <2>1. \A id : OnHand(id)' <=> regT = "rtDefer" /\ regKey = id
    BY <1>1, <1>4, <1>18 DEF OnHand
  <2>2. /\ \A id : OnHand(id)' => id \in met' /\ lab2[id] = InHand
        /\ \A id \in met' : lab2[id] = InHand => OnHand(id)'
    BY <1>1, <1>10, <1>15, <2>1
  <2>3. (regOpen /\ regT = "rtDefer")' => Loose(capBuf', lab2, met', InCopy)
    BY <1>1, <1>4, <1>16, <1>18
  <2>4. Handed(lab2)'
    BY <2>2, <2>3 DEF Handed
  <2> QED
    BY <1>1, <1>4, <1>13, <1>14, <1>18, <2>4, AccountedNext
<1> QED
  BY <1>17, <1>18

\* Where no pair is read, none is afterwards.
LEMMA IdleAccounted ==
    ASSUME IInv, NEW r, Becomes(r), NEW lab, Sorted(r, lab, met), Beyond(lab, met, doc'),
           Counts(lab, taken), \A id \in met : lab[id] # InHand,
           ~regOpen, ~pendSet, regOpen' = regOpen, pendSet' = pendSet,
           taken' = taken, met' = met
    PROVE  Accounted'
<1>1. (\A id : ~OnHand(id)') /\ ~(regOpen /\ regT = "rtDefer")'
  BY DEF OnHand
<1>2. Handed(lab)'
  BY <1>1 DEF Handed
<1> QED
  BY <1>2, AccountedNext

LEMMA CloseFrameAccounted ==
    ASSUME IInv, Faithful, Accounted, NEW cb \in Callbacks \union {"releaseNow"},
           CloseFrame(cb)
    PROVE  Accounted'
<1> DEFINE e == Consumed(Now)
<1>1. CASE dead'
  BY <1>1 DEF Accounted
<1>2. CASE ~dead'
  <2>1. /\ Close \in Tokens /\ Ready(Close) /\ Reads(Close)
        /\ ~regOpen /\ ~pendSet /\ ~dead
        /\ Always(e) /\ Len(e.frames) >= 1
        /\ regOpen' = regOpen /\ pendSet' = pendSet /\ taken' = taken /\ met' = met
        /\ \E h, r : /\ Always(h) /\ Len(h.frames) >= 1 /\ Becomes(r)
                     /\ Hooks(e, h) /\ ~h.dead /\ Ends(h, r)
    BY <1>2, CloseFrameStore
  <2>2. PICK h, r : /\ Always(h) /\ Len(h.frames) >= 1 /\ Becomes(r)
                    /\ Hooks(e, h) /\ ~h.dead /\ Ends(h, r)
    BY <2>1
  <2>3. PICK lab : Books(lab)
    BY <2>1 DEF Accounted
  <2>4. PICK lab1 : /\ Sorted(e, lab1, met) /\ Carries(lab, lab1)
                    /\ Beyond(lab1, met, doc') /\ Counts(lab1, taken)
    BY <2>1, <2>3, TokenSorted
  <2> HIDE DEF e
  <2>5. PICK lab2 : Sorted(h, lab2, met) /\ Carries(lab1, lab2)
    BY <2>1, <2>2, <2>4, SortedHooks
  <2>6. PICK lab3 : Sorted(r, lab3, met) /\ Carries(lab2, lab3)
    BY <2>2, <2>5, SortedEnds
  <2>7. Beyond(lab3, met, doc') /\ Counts(lab3, taken)
    BY <2>4, <2>5, <2>6, CarriedOver
  <2>8. \A id \in met : lab[id] # InHand
    BY <2>1, <2>3 DEF Books, Handed, OnHand
  <2>9. \A id \in met : lab3[id] # InHand
    BY <2>4, <2>5, <2>6, <2>8 DEF Carries, Sorted
  <2> QED
    BY <2>1, <2>2, <2>6, <2>7, <2>9, IdleAccounted
<1> QED
  BY <1>1, <1>2

LEMMA ReturnAccounted ==
    ASSUME IInv, Accounted, Return
    PROVE  Accounted'
<1>1. CASE dead'
  BY <1>1 DEF Accounted
<1>2. CASE ~dead'
  <2>1. /\ ~dead /\ Always(Now) /\ ~regOpen /\ ~pendSet
        /\ regOpen' = regOpen /\ pendSet' = pendSet
        /\ doc' = doc /\ taken' = taken /\ met' = met
        /\ \E a, b, r : /\ Always(a) /\ Always(b) /\ Becomes(r)
                        /\ Keeps(Now, a) /\ Keeps(a, b)
                        /\ \/ Keeps(b, r)
                           \/ Len(b.frames) >= 1 /\ Passes(b, r)
    BY <1>2, ReturnStore
  <2>2. PICK a, b, r : /\ Always(a) /\ Always(b) /\ Becomes(r)
                       /\ Keeps(Now, a) /\ Keeps(a, b)
                       /\ \/ Keeps(b, r)
                          \/ Len(b.frames) >= 1 /\ Passes(b, r)
    BY <2>1
  <2>3. PICK lab : Books(lab)
    BY <2>1 DEF Accounted
  <2>4. /\ Sorted(Now, lab, met) /\ Beyond(lab, met, doc') /\ Counts(lab, taken)
        /\ \A id \in met : lab[id] # InHand
    BY <2>1, <2>3 DEF Books, Handed, OnHand
  <2>5. Sorted(b, lab, met)
    BY <2>1, <2>2, <2>4, SortedKeeps
  <2>6. PICK lab2 : Sorted(r, lab2, met) /\ Carries(lab, lab2)
    BY <2>2, <2>5, SortedKeeps, SortedPasses, CarriesSelf
  <2>7. Beyond(lab2, met, doc') /\ Counts(lab2, taken)
    BY <2>4, <2>6, CarriedOver
  <2>8. \A id \in met : lab2[id] # InHand
    BY <2>4, <2>6 DEF Carries, Sorted
  <2> QED
    BY <2>1, <2>2, <2>6, <2>7, <2>8, IdleAccounted
<1> QED
  BY <1>1, <1>2

LEMMA ReplayEndAccounted ==
    ASSUME IInv, IInv', Accounted, ReplayEnd
    PROVE  Accounted'
<1>1. /\ ~dead /\ Always(Now) /\ ~regOpen' /\ ~pendSet'
      /\ regOpen' = regOpen /\ pendSet' = pendSet
      /\ doc' = doc /\ taken' = taken /\ met' = met
      /\ \E e : Becomes(e) /\ Keeps(Now, e)
  BY ReplayEndStore
<1>2. PICK e : Becomes(e) /\ Keeps(Now, e)
  BY <1>1
<1>3. PICK lab : Books(lab)
  BY <1>1 DEF Accounted
<1>4. /\ Sorted(Now, lab, met) /\ Beyond(lab, met, doc') /\ Counts(lab, taken)
      /\ \A id \in met : lab[id] # InHand
  BY <1>1, <1>3 DEF Books, Handed, OnHand
<1>5. Sorted(e, lab, met)
  BY <1>1, <1>2, <1>4, SortedKeeps
<1> QED
  BY <1>1, <1>2, <1>4, <1>5, IdleAccounted

\* A step that moves no pair.
LEMMA PausesAccounted ==
    ASSUME Accounted, Suspends \/ Resume \/ UNCHANGED vars
    PROVE  Accounted'
<1>1. /\ frames' = frames /\ calls' = calls /\ dead' = dead /\ doc' = doc
      /\ dropped' = dropped /\ met' = met /\ taken' = taken
      /\ pend' = pend /\ pendSet' = pendSet /\ path' = path
      /\ regOpen' = regOpen /\ regT' = regT /\ regKey' = regKey /\ capBuf' = capBuf
  <2>1. CASE Suspends
    BY <2>1 DEF Suspends, Becomes, Now, regVars, tallies
  <2>2. CASE Resume
    BY <2>2 DEF Resume, readVars, regVars, heldVars, histVars, tallies
  <2>3. CASE UNCHANGED vars
    BY <2>3 DEF vars, readVars, regVars, heldVars, stopVars, histVars, tallies
  <2> QED
    BY <2>1, <2>2, <2>3
<1>2. /\ Now'.frames = frames' /\ Now'.calls = calls' /\ Now'.dropped = dropped'
      /\ Now.frames = frames /\ Now.calls = calls /\ Now.dropped = dropped
  BY DEF Now
<1> SUFFICES ASSUME ~dead, NEW lab, Books(lab) PROVE Books(lab)'
  BY <1>1 DEF Accounted
<1>3. Sorted(Now, lab, met)'
  <2>1. Stored(Now', lab, met) <=> Stored(Now, lab, met)
    BY <1>1, <1>2 DEF Stored
  <2>2. \A id : Here(Now', lab, id) <=> Here(Now, lab, id)
    BY <1>1, <1>2 DEF Here
  <2>3. Sorted(Now, lab, met)
    BY DEF Books
  <2>4. Sorted(Now', lab, met')
    BY <1>1, <1>2, <2>1, <2>2, <2>3 DEF Sorted
  <2> QED
    BY <2>4
<1>4. Beyond(lab, met, doc)' /\ Counts(lab, taken)'
  BY <1>1 DEF Books
<1>5. Handed(lab)'
  <2>1. \A id : OnHand(id)' <=> OnHand(id)
    BY <1>1 DEF OnHand
  <2>2. Handed(lab)
    BY DEF Books
  <2> QED
    BY <1>1, <2>1, <2>2 DEF Handed
<1> QED
  BY <1>3, <1>4, <1>5 DEF Books

LEMMA InitAccounted == Init => Accounted
<1> SUFFICES ASSUME Init PROVE Accounted
  OBVIOUS
<1> DEFINE lab == [id \in Ids |-> Nowhere]
<1>1. /\ frames = <<NewFrame>> /\ calls = <<>> /\ ~pendSet /\ ~regOpen
      /\ met = {} /\ dropped = {} /\ taken = [id \in Ids |-> 0]
  BY DEF Init
<1>2. Nowhere \notin {Taken, Dropped}
  BY NamesApart
<1>3. Len(calls) = 0 /\ Len(frames) = 1 /\ frames[1].deferred = <<>>
  BY <1>1 DEF NewFrame
<1>4. \A id \in Ids : lab[id] = Nowhere
  OBVIOUS
<1> HIDE DEF lab
<1>5. \A k \in 1..Len(frames) : Lies(frames[k].deferred, lab, met, InFrame(k))
  <2> SUFFICES ASSUME NEW k \in 1..Len(frames)
               PROVE  Lies(frames[k].deferred, lab, met, InFrame(k))
    OBVIOUS
  <2>1. k = 1
    BY <1>3
  <2> QED
    BY <1>3, <2>1, LooseNone
<1>6. \A k \in 1..Len(calls) : FALSE
  BY <1>3
<1>7. Sorted(Now, lab, met)
  BY <1>1, <1>2, <1>4, <1>5, <1>6, NowIs DEF Sorted, Stored
<1>8. Beyond(lab, met, doc) /\ Counts(lab, taken)
  BY <1>1, <1>2, <1>4 DEF Beyond, Counts
<1>9. Handed(lab)
  BY <1>1 DEF Handed, OnHand
<1> QED
  BY <1>7, <1>8, <1>9 DEF Accounted, Books

LEMMA NextAccounted ==
    ASSUME IInv, IInv', Faithful, Accounted, dead => dead', [Next]_vars
    PROVE  Accounted'
<1>1. ASSUME NEW id \in Ids, NEW act \in Answers, NEW cb \in Callbacks, Key(id, act, cb)
      PROVE  Accounted'
  BY <1>1, KeyAccounted
<1>2. ASSUME NEW tok \in Tokens, Value(tok) PROVE Accounted'
  BY <1>2, ValueAccounted
<1>3. ASSUME NEW tok \in Tokens, NEW cb \in Callbacks, RegionByte(tok, cb)
      PROVE  Accounted'
  BY <1>3, RegionByteAccounted
<1>4. ASSUME NEW cb \in Callbacks, SimpleEnd(cb) PROVE Accounted'
  BY <1>4, SimpleEndAccounted
<1>5. ASSUME NEW cb \in Callbacks \union {"releaseNow"}, CloseFrame(cb) PROVE Accounted'
  BY <1>5, CloseFrameAccounted
<1>6. ASSUME NEW act \in Answers, NEW cb \in Callbacks, ReplayNext(act, cb)
      PROVE  Accounted'
  BY <1>6, ReplayNextAccounted
<1>7. CASE ReplayEnd
  BY <1>7, ReplayEndAccounted
<1>8. CASE Return
  BY <1>8, ReturnAccounted
<1>9. CASE Suspends \/ Resume \/ UNCHANGED vars
  BY <1>9, PausesAccounted
<1> QED
  BY <1>1, <1>2, <1>3, <1>4, <1>5, <1>6, <1>7, <1>8, <1>9 DEF Next, ScanStep

\* As many pairs as there are keys are held in one place, at most.
LEMMA FewPairs ==
    ASSUME NEW kvs \in Seq(Pairs), NEW lab, NEW mt, NEW x, Lies(kvs, lab, mt, x)
    PROVE  /\ Len(kvs) \in Nat /\ 1..Len(kvs) \subseteq Ids
           /\ \A i, j \in 1..Len(kvs) : kvs[i].key = kvs[j].key => i = j
<1> DEFINE n == Len(kvs)
           f == [j \in 1..n |-> kvs[j].key]
<1>1. n \in Nat /\ MaxKeys \in Nat
  BY LenProperties, DeferralAssumption
<1>2. \A i, j \in 1..n : kvs[i].key = kvs[j].key => i = j
  <2> SUFFICES ASSUME NEW i \in 1..n, NEW j \in 1..n, i # j PROVE kvs[i].key # kvs[j].key
    OBVIOUS
  <2>1. Own(kvs[i]) \cap Own(kvs[j]) = {}
    BY DEF Lies
  <2>2. kvs[i].key \in Own(kvs[i]) /\ kvs[j].key \in Own(kvs[j])
    BY DEF Own
  <2> QED
    BY <2>1, <2>2
<1>3. f \in [1..n -> 1..MaxKeys] /\ \A i \in 1..n : f[i] = kvs[i].key
  <2>1. \A j \in 1..n : kvs[j].key \in Ids
    BY PairKeys
  <2> QED
    BY <2>1 DEF Ids
<1> HIDE DEF n, f
<1>4. /\ IsFiniteSet(1..n) /\ IsFiniteSet(1..MaxKeys)
      /\ Cardinality(1..n) = n /\ Cardinality(1..MaxKeys) = MaxKeys
  <2>1. IsFiniteSet(1..n) /\ Cardinality(1..n) = IF 1 > n THEN 0 ELSE n - 1 + 1
    BY <1>1, FS_Interval
  <2>2. /\ IsFiniteSet(1..MaxKeys)
        /\ Cardinality(1..MaxKeys) = IF 1 > MaxKeys THEN 0 ELSE MaxKeys - 1 + 1
    BY <1>1, FS_Interval
  <2> QED
    BY <1>1, <2>1, <2>2
<1>5. ~(MaxKeys < n)
  <2> SUFFICES ASSUME MaxKeys < n PROVE FALSE
    OBVIOUS
  <2> DEFINE S == 1..n
             T == 1..MaxKeys
  <2>1. IsFiniteSet(S) /\ IsFiniteSet(T) /\ Cardinality(T) < Cardinality(S) /\ f \in [S -> T]
    BY <1>3, <1>4
  <2> HIDE DEF S, T
  <2>2. \E i, j \in S : i # j /\ f[i] = f[j]
    BY <2>1, FS_PigeonHole
  <2> QED
    BY <1>2, <1>3, <2>2 DEF S
<1>6. 1..n \subseteq 1..MaxKeys
  BY <1>1, <1>5
<1> QED
  BY <1>1, <1>2, <1>6 DEF n, Ids

\* Each pair of which a hook was asked is in one place, taken or dropped.
LEMMA OnePlace ==
    ASSUME IInv, Accounted, ~dead, NEW id \in met
    PROVE  Cardinality(Places(id)) + taken[id] + (IF id \in dropped THEN 1 ELSE 0) = 1
<1> DEFINE A == {x \in {"frame"} \X (DOMAIN frames) \X Ids :
                    /\ x[3] \in DOMAIN frames[x[2]].deferred
                    /\ frames[x[2]].deferred[x[3]].key = id}
           B == {x \in {"replay"} \X (DOMAIN calls) \X Ids :
                    /\ x[3] \in DOMAIN calls[x[2]].todo
                    /\ calls[x[2]].todo[x[3]].key = id}
           C == IF OnHand(id) THEN {<<"read", 0, 0>>} ELSE {}
<1>1. PICK lab : Books(lab)
  BY DEF Accounted
<1>2. /\ Stored(Now, lab, met) /\ id \in Ids /\ Here(Now, lab, id)
      /\ id \in dropped <=> lab[id] = Dropped
      /\ taken[id] = (IF lab[id] = Taken THEN 1 ELSE 0)
      /\ OnHand(id) <=> lab[id] = InHand
  BY <1>1, NowIs DEF Books, Sorted, Counts, Handed
<1>3. /\ DOMAIN frames = 1..Len(frames) /\ DOMAIN calls = 1..Len(calls)
      /\ \A k \in 1..Len(frames) : frames[k].deferred \in Seq(Pairs)
      /\ \A k \in 1..Len(calls) : calls[k].todo \in Seq(Pairs)
  BY EffectParts, NowIs DEF IInv
<1>4. ASSUME NEW k \in DOMAIN frames
      PROVE  /\ DOMAIN frames[k].deferred = 1..Len(frames[k].deferred)
             /\ 1..Len(frames[k].deferred) \subseteq Ids
             /\ \A j \in 1..Len(frames[k].deferred) : frames[k].deferred[j].key = id =>
                    /\ lab[id] = InFrame(k)
                    /\ \A i \in 1..Len(frames[k].deferred) :
                            frames[k].deferred[i].key = id => i = j
  <2>1. frames[k].deferred \in Seq(Pairs) /\ Lies(frames[k].deferred, lab, met, InFrame(k))
    BY <1>2, <1>3, NowIs DEF Stored
  <2>2. DOMAIN frames[k].deferred = 1..Len(frames[k].deferred)
    BY <2>1, LenProperties
  <2>3. \A j \in 1..Len(frames[k].deferred) : frames[k].deferred[j].key = id =>
              lab[id] = InFrame(k)
    BY <2>1 DEF Lies
  <2> QED
    BY <2>1, <2>2, <2>3, FewPairs
<1>5. ASSUME NEW k \in DOMAIN calls
      PROVE  /\ DOMAIN calls[k].todo = 1..Len(calls[k].todo)
             /\ 1..Len(calls[k].todo) \subseteq Ids
             /\ \A j \in 1..Len(calls[k].todo) : calls[k].todo[j].key = id =>
                    /\ lab[id] = InTodo(k)
                    /\ \A i \in 1..Len(calls[k].todo) :
                            calls[k].todo[i].key = id => i = j
  <2>1. calls[k].todo \in Seq(Pairs) /\ Lies(calls[k].todo, lab, met, InTodo(k))
    BY <1>2, <1>3, NowIs DEF Stored
  <2>2. DOMAIN calls[k].todo = 1..Len(calls[k].todo)
    BY <2>1, LenProperties
  <2>3. \A j \in 1..Len(calls[k].todo) : calls[k].todo[j].key = id => lab[id] = InTodo(k)
    BY <2>1 DEF Lies
  <2> QED
    BY <2>1, <2>2, <2>3, FewPairs
<1>6. Places(id) = A \union B \union C
  BY DEF Places, OnHand
<1>7. \A x \in A : \E k \in DOMAIN frames : \E j \in 1..Len(frames[k].deferred) :
          x = <<"frame", k, j>> /\ frames[k].deferred[j].key = id
  BY <1>4
<1>8. \A x \in B : \E k \in DOMAIN calls : \E j \in 1..Len(calls[k].todo) :
          x = <<"replay", k, j>> /\ calls[k].todo[j].key = id
  BY <1>5
<1>9. \A k \in DOMAIN frames : \A j \in 1..Len(frames[k].deferred) :
          frames[k].deferred[j].key = id => <<"frame", k, j>> \in A
  BY <1>4
<1>10. \A k \in DOMAIN calls : \A j \in 1..Len(calls[k].todo) :
          calls[k].todo[j].key = id => <<"replay", k, j>> \in B
  BY <1>5
<1> HIDE DEF A, B
<1>11. (\A x \in A : \E k : lab[id] = InFrame(k)) /\ (\A x \in B : \E k : lab[id] = InTodo(k))
  BY <1>4, <1>5, <1>7, <1>8
<1>12. CASE lab[id] \in {InHand, Taken, Dropped}
  <2>1. A = {} /\ B = {}
    BY <1>11, <1>12, NamesApart
  <2>2. CASE lab[id] = InHand
    <3>1. Places(id) = {<<"read", 0, 0>>} /\ taken[id] = 0 /\ id \notin dropped
      BY <1>2, <1>6, <2>1, <2>2, NamesApart
    <3>2. Cardinality(Places(id)) = 1
      BY <3>1, FS_Singleton
    <3> QED
      BY <3>1, <3>2
  <2>3. CASE lab[id] # InHand
    <3>1. Places(id) = {}
      BY <1>2, <1>6, <2>1, <2>3
    <3>2. Cardinality(Places(id)) = 0
      BY <3>1, FS_EmptySet
    <3>3. lab[id] = Taken <=> lab[id] # Dropped
      BY <1>12, <2>3, NamesApart
    <3> QED
      BY <1>2, <3>2, <3>3
  <2> QED
    BY <2>2, <2>3
<1>13. CASE lab[id] \notin {InHand, Taken, Dropped}
  <2>1. C = {} /\ taken[id] = 0 /\ id \notin dropped
    BY <1>2, <1>13
  <2>2. \E x : A \union B = {x}
    <3>1. CASE \E k \in DOMAIN frames : \E j \in 1..Len(frames[k].deferred) :
                    frames[k].deferred[j].key = id
      <4>1. PICK k, j : /\ k \in DOMAIN frames /\ j \in 1..Len(frames[k].deferred)
                        /\ frames[k].deferred[j].key = id
        BY <3>1
      <4>2. lab[id] = InFrame(k)
        BY <1>4, <4>1
      <4>3. B = {}
        BY <1>11, <4>2, NamesApart
      <4>4. <<"frame", k, j>> \in A
        BY <1>9, <4>1
      <4>5. ASSUME NEW x \in A PROVE x = <<"frame", k, j>>
        <5>1. PICK l, i : /\ l \in DOMAIN frames /\ i \in 1..Len(frames[l].deferred)
                          /\ x = <<"frame", l, i>> /\ frames[l].deferred[i].key = id
          BY <1>7
        <5>2. lab[id] = InFrame(l)
          BY <1>4, <5>1
        <5>3. l = k
          BY <4>2, <5>2, NamesApart
        <5> QED
          BY <1>4, <4>1, <5>1, <5>3
      <4> QED
        BY <4>3, <4>4, <4>5
    <3>2. CASE \E k \in DOMAIN calls : \E j \in 1..Len(calls[k].todo) :
                    calls[k].todo[j].key = id
      <4>1. PICK k, j : /\ k \in DOMAIN calls /\ j \in 1..Len(calls[k].todo)
                        /\ calls[k].todo[j].key = id
        BY <3>2
      <4>2. lab[id] = InTodo(k)
        BY <1>5, <4>1
      <4>3. A = {}
        BY <1>11, <4>2, NamesApart
      <4>4. <<"replay", k, j>> \in B
        BY <1>10, <4>1
      <4>5. ASSUME NEW x \in B PROVE x = <<"replay", k, j>>
        <5>1. PICK l, i : /\ l \in DOMAIN calls /\ i \in 1..Len(calls[l].todo)
                          /\ x = <<"replay", l, i>> /\ calls[l].todo[i].key = id
          BY <1>8
        <5>2. lab[id] = InTodo(l)
          BY <1>5, <5>1
        <5>3. l = k
          BY <4>2, <5>2, NamesApart
        <5> QED
          BY <1>5, <4>1, <5>1, <5>3
      <4> QED
        BY <4>3, <4>4, <4>5
    <3> QED
      BY <1>2, <1>3, <1>13, <3>1, <3>2, NowIs DEF Here
  <2>3. \E x : Places(id) = {x}
    <3>1. Places(id) = A \union B
      BY <1>6, <2>1
    <3> QED
      BY <2>2, <3>1
  <2>4. Cardinality(Places(id)) = 1
    BY <2>3, FS_Singleton
  <2> QED
    BY <2>1, <2>4
<1> QED
  BY <1>12, <1>13

-----------------------------------------------------------------------------
(* The theorems.                                                           *)

\* What a frame holds, and what waits in a replay, is what the document had:
\* the raw key of that very pair and the whole of its value, for pairs of the
\* document and for pairs inside held values that were deferred in a replay,
\* though kvRaw, capBuf and regKey (sc.kvRaw, sc.capBuf, sc.regKey) are single
\* fields that every replay overwrites.
THEOREM HeldCorrect ==
    ASSUME UsedPlainly
    PROVE  Spec => []HeldIsValue
<1> DEFINE Along == ~dead => Agree
<1>1. Init => Along /\ Faithful
  BY InitFaith DEF Init, Agree
<1>2. IInv /\ IInv' /\ Along /\ Faithful /\ [Next]_vars => Along' /\ Faithful'
  <2> SUFFICES ASSUME IInv, IInv', Along, Faithful, [Next]_vars
               PROVE  Along' /\ Faithful'
    OBVIOUS
  <2>1. dead => dead'
    BY DeadStays
  <2>2. Goes
    BY NextMoves DEF Moves
  <2>3. Along'
    BY <2>1, <2>2, AgreeNext
  <2>4. Faithful'
    BY <2>1, NextFaith
  <2> QED
    BY <2>3, <2>4
<1>3. IInv /\ Faithful => HeldIsValue
  BY FaithHeld
<1> QED
  BY <1>1, <1>2, <1>3, Invariance, PTL DEF Spec

\* No pair is lost or dispatched twice: one about which a hook was asked is in
\* exactly one place -- held by a frame (df.deferred), waiting in a replay
\* (doRelease), or being read -- until it is dispatched for good or dropped by
\* the hook (DropDeferred), through nested replays, pairs deferred again after
\* a release and frames closed and opened over the same storage.
THEOREM PairsCorrect ==
    ASSUME UsedPlainly
    PROVE  Spec => []PairsAccounted
<1> DEFINE Along == ~dead => Agree
<1>1. Init => Along /\ Faithful /\ Accounted
  BY InitFaith, InitAccounted DEF Init, Agree
<1>2. IInv /\ IInv' /\ Along /\ Faithful /\ Accounted /\ [Next]_vars =>
          Along' /\ Faithful' /\ Accounted'
  <2> SUFFICES ASSUME IInv, IInv', Along, Faithful, Accounted, [Next]_vars
               PROVE  Along' /\ Faithful' /\ Accounted'
    OBVIOUS
  <2>1. dead => dead'
    BY DeadStays
  <2>2. Goes
    BY NextMoves DEF Moves
  <2>3. Along'
    BY <2>1, <2>2, AgreeNext
  <2>4. Faithful'
    BY <2>1, NextFaith
  <2>5. Accounted'
    BY <2>1, NextAccounted
  <2> QED
    BY <2>3, <2>4, <2>5
<1>3. IInv /\ Accounted => PairsAccounted
  BY OnePlace DEF PairsAccounted
<1> QED
  BY <1>1, <1>2, <1>3, Invariance, PTL DEF Spec

=============================================================================
