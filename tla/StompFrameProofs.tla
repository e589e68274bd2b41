--------------------------- MODULE StompFrameProofs ---------------------------
(***************************************************************************)
(* The parser of StompFrame reads exactly the texts that are frames, for   *)
(* texts of any length; and a frame keeps reading as its text says.        *)
(***************************************************************************)
EXTENDS StompFrame, FiniteSetTheorems, SequenceTheorems, TLAPS

LEMMA NaturalsFromZero ==
    ASSUME NEW S \in SUBSET Nat, 0 \in S, \A n \in S : n + 1 \in S
    PROVE  S = Nat
<1> DEFINE T == Nat \ S
           R == OpToRel(<, Nat)
<1>1. IsWellFoundedOn(R, Nat)
  BY NatLessThanWellFounded
<1>2. SUFFICES ASSUME T # {} PROVE FALSE
  OBVIOUS
<1>3. \A x, y \in Nat : x < y => <<x, y>> \in R
  BY DEF OpToRel
<1> HIDE DEF R
<1>4. PICK x \in T : \A y \in T : ~(<<y, x>> \in R)
  BY <1>1, <1>2, WFMin
<1>5. x # 0 /\ x - 1 \in Nat
  OBVIOUS
<1>6. x - 1 \in S
  <2>1. x - 1 < x
    BY <1>5
  <2> QED  BY <1>3, <1>4, <1>5, <2>1
<1>7. (x - 1) + 1 = x
  BY <1>5
<1> QED  BY <1>4, <1>6, <1>7

(* The least of some numbers.                                              *)
LEMMA MinFacts ==
    ASSUME NEW S \in SUBSET Nat, S # {}
    PROVE  Min(S) \in S /\ \A y \in S : Min(S) <= y
<1> DEFINE R == OpToRel(<, Nat)
<1>1. IsWellFoundedOn(R, Nat)
  BY NatLessThanWellFounded
<1>2. \A x, y \in Nat : x < y => <<x, y>> \in R
  BY DEF OpToRel
<1> HIDE DEF R
<1>3. PICK n \in S : \A m \in S : ~(<<m, n>> \in R)
  BY <1>1, WFMin
<1>4. ASSUME NEW m \in S PROVE n <= m
  <2>1. m \in Nat /\ n \in Nat /\ ~(m < n)
    BY <1>2, <1>3
  <2> QED  BY <2>1
<1> QED  BY <1>3, <1>4 DEF Min

(* Two names of the least of some numbers.                                 *)
LEMMA MinIs ==
    ASSUME NEW S \in SUBSET Nat, NEW n \in S, \A y \in S : n <= y
    PROVE  Min(S) = n
<1>1. Min(S) \in S /\ Min(S) <= n /\ n <= Min(S)
  BY MinFacts
<1>2. Min(S) \in Nat /\ n \in Nat
  BY <1>1
<1> QED  BY <1>1, <1>2

LEMMA TextFacts ==
    ASSUME NEW text, IsText(text)
    PROVE  /\ Len(text) \in Nat /\ DOMAIN text = 1 .. Len(text)
           /\ \A i \in 1 .. Len(text) : text[i] \in Range(text)
BY DEF IsText

LEMMA FindFacts ==
    ASSUME NEW text, IsText(text), NEW token, NEW from \in Nat \ {0}, NEW p, p = Find(text, token, from)
    PROVE  \/ p = npos /\ \A i \in from .. Len(text) : text[i] # token
           \/ /\ p \in from .. Len(text) /\ text[p] = token
              /\ \A i \in from .. p - 1 : text[i] # token
<1> DEFINE places == {i \in from .. Len(text) : text[i] = token}
<1>1. Len(text) \in Nat
  BY TextFacts
<1>2. p = IF places = {} THEN npos ELSE Min(places)
  BY DEF Find
<1>3. CASE places = {}
  BY <1>2, <1>3
<1>4. CASE places # {}
  <2>1. places \in SUBSET Nat
    BY <1>1
  <2>2. p \in places /\ \A i \in places : p <= i
    BY <1>2, <1>4, <2>1, MinFacts
  <2>3. ASSUME NEW i \in from .. p - 1 PROVE text[i] # token
    BY <1>1, <2>2
  <2> QED  BY <2>2, <2>3
<1> QED  BY <1>3, <1>4

(* A part of a text.                                                       *)
IsPart(u, text, i, j) ==
    /\ u \in Seq(Range(text))
    /\ Len(u) = IF i <= j THEN j - i + 1 ELSE 0
    /\ \A k \in 1 .. Len(u) : u[k] = text[i + k - 1]

LEMMA PartFacts ==
    ASSUME NEW text, IsText(text), NEW i \in Nat \ {0}, NEW j \in Nat, j <= Len(text)
    PROVE  IsPart(SubSeq(text, i, j), text, i, j)
<1> DEFINE u == SubSeq(text, i, j)
<1>1. Len(text) \in Nat /\ \A k \in 1 .. Len(text) : text[k] \in Range(text)
  BY TextFacts
<1>2. \A k \in i .. j : text[k] \in Range(text)
  BY <1>1
<1>3. /\ u \in Seq(Range(text))
      /\ Len(u) = IF i <= j THEN j - i + 1 ELSE 0
      /\ \A k \in 1 .. j - i + 1 : u[k] = text[i + k - 1]
  BY <1>2, SubSeqProperties
<1> HIDE DEF u
<1>4. IsPart(u, text, i, j)
  BY <1>3 DEF IsPart
<1> QED  BY <1>4 DEF u

LEMMA OneWord ==
    ASSUME NEW A, NEW u \in Seq(A), Len(u) = 1, NEW S
    PROVE  u \in Seq(S) <=> u[1] \in S
<1>1. u = <<u[1]>>
  OBVIOUS
<1>2. ASSUME u \in Seq(S) PROVE u[1] \in S
  BY <1>2
<1>3. ASSUME u[1] \in S PROVE <<u[1]>> \in Seq(S)
  BY <1>3
<1> QED  BY <1>1, <1>2, <1>3

(* A name is recognised when it stands alone.                              *)
LEMMA HeaderFacts ==
    ASSUME NEW text, IsText(text), NEW i \in Nat \ {0}, NEW j \in Nat, j <= Len(text), i <= j + 1,
           NEW header, header = ToHeader(SubSeq(text, i, j))
    PROVE  header = IF i = j /\ text[i] \in Headers THEN text[i] ELSE "kInvalid"
<1>1. PICK u : u = SubSeq(text, i, j)
  OBVIOUS
<1>2. IsPart(u, text, i, j)
  BY <1>1, PartFacts
<1>3. header = IF u \in Seq(Headers) /\ Len(u) = 1 THEN u[1] ELSE "kInvalid"
  BY <1>1 DEF ToHeader
<1>4. CASE i = j
  <2>1. Len(u) = 1 /\ u[1] = text[i]
    BY <1>2, <1>4 DEF IsPart
  <2>2. u \in Seq(Headers) <=> text[i] \in Headers
    BY <1>2, <2>1, OneWord DEF IsPart
  <2> QED  BY <1>3, <1>4, <2>1, <2>2
<1>5. CASE i # j
  <2>1. Len(u) # 1
    BY <1>2, <1>5 DEF IsPart
  <2> QED  BY <1>3, <1>5, <2>1
<1> QED  BY <1>4, <1>5

LEMMA CommandFacts ==
    ASSUME NEW text, IsText(text), NEW j \in Nat, j <= Len(text),
           NEW command, command = ToCommand(SubSeq(text, 1, j))
    PROVE  command = IF j = 1 /\ text[1] \in Commands THEN text[1] ELSE "kInvalid"
<1>1. PICK u : u = SubSeq(text, 1, j)
  OBVIOUS
<1>2. IsPart(u, text, 1, j)
  BY <1>1, PartFacts
<1>3. command = IF u \in Seq(Commands) /\ Len(u) = 1 THEN u[1] ELSE "kInvalid"
  BY <1>1 DEF ToCommand
<1>4. CASE j = 1
  <2>1. Len(u) = 1 /\ u[1] = text[1]
    BY <1>2, <1>4 DEF IsPart
  <2>2. u \in Seq(Commands) <=> text[1] \in Commands
    BY <1>2, <2>1, OneWord DEF IsPart
  <2> QED  BY <1>3, <1>4, <2>1, <2>2
<1>5. CASE j # 1
  <2>1. Len(u) # 1
    BY <1>2, <1>5 DEF IsPart
  <2> QED  BY <1>3, <1>5, <2>1
<1> QED  BY <1>4, <1>5

-----------------------------------------------------------------------------
(* The header lines from a position on, given those after the first.       *)
LineStep(text, i, rest) ==
    IF i > Len(text) \/ text[i] = NL
    THEN [ec |-> "kOk", headers |-> <<>>, blank |-> i]
    ELSE LET colon == Find(text, COLON, i)
             header == ToHeader(SubSeq(text, i, colon - 1))
             end == Find(text, NL, colon + 1)
         IN  IF colon = npos THEN Fails("kParsingMissingColonInHeader")
             ELSE IF header = "kInvalid" THEN Fails("kParsingUnrecognizedHeader")
             ELSE IF colon = Len(text) THEN Fails("throws")
             ELSE IF end = colon + 1 THEN Fails("kParsingEmptyHeaderValue")
             ELSE IF end = npos THEN Fails("kParsingMissingEolAfterHeaderValue")
             ELSE IF rest.ec # "kOk" THEN rest
             ELSE [rest EXCEPT !.headers =
                      WithHeader(@, header, SubSeq(text, colon + 1, end - 1))]

NextLine(text, i) == Find(text, NL, Find(text, COLON, i) + 1) + 1

LEMMA NextLineIsLater ==
    ASSUME NEW text, IsText(text), NEW i \in 1 .. Len(text) + 1, NEW x, NEW y
    PROVE  NextLine(text, i) \in i + 1 .. Len(text) + 1 \/ LineStep(text, i, x) = LineStep(text, i, y)
<1> DEFINE colon == Find(text, COLON, i)
           end == Find(text, NL, colon + 1)
<1>1. Len(text) \in Nat
  BY TextFacts
<1>2. colon = npos \/ colon \in i .. Len(text)
  BY <1>1, FindFacts
<1>3. CASE colon = npos
  BY <1>3 DEF LineStep
<1>4. CASE colon \in i .. Len(text)
  <2>1. colon + 1 \in Nat \ {0}
    BY <1>1, <1>4
  <2>2. end = npos \/ end \in colon + 1 .. Len(text)
    BY <1>1, <2>1, FindFacts
  <2>3. CASE end = npos
    BY <1>4, <2>3 DEF LineStep
  <2>4. CASE end \in colon + 1 .. Len(text)
    <3>1. end + 1 \in i + 1 .. Len(text) + 1
      BY <1>1, <1>4, <2>4
    <3> QED  BY <3>1 DEF NextLine
  <2> QED  BY <2>2, <2>3, <2>4
<1> QED  BY <1>2, <1>3, <1>4

(* The equation that defines the header lines.                             *)
LEMMA HeaderLinesEquation ==
    ASSUME NEW text, IsText(text), NEW i \in 1 .. Len(text) + 1
    PROVE  HeaderLines(text)[i] = LineStep(text, i, HeaderLines(text)[NextLine(text, i)])
<1> DEFINE n == Len(text)
           IsTail(f, k) == f = [j \in n + 2 - k .. n + 1 |-> LineStep(text, j, f[NextLine(text, j)])]
           T == {k \in Nat : k > n + 1 \/ \E f : IsTail(f, k)}
<1>1. n \in Nat
  BY TextFacts
<1> HIDE DEF n
<1>2. 0 \in T
  <2>1. IsTail([j \in n + 2 .. n + 1 |-> 0], 0)
    BY <1>1
  <2> QED  BY <2>1
<1>3. ASSUME NEW k \in T PROVE k + 1 \in T
  <2>1. CASE k >= n + 1
    BY <1>1, <2>1
  <2>2. CASE k < n + 1
    <3>1. PICK f : IsTail(f, k)
      BY <1>1, <2>2
    <3> DEFINE m == n + 1 - k
               g == [j \in m .. n + 1 |->
                        IF j = m THEN LineStep(text, m, f[NextLine(text, m)]) ELSE f[j]]
    <3>2. /\ m \in 1 .. n + 1 /\ n + 2 - (k + 1) = m /\ n + 2 - k = m + 1
          /\ \A j \in m .. n + 1 : j = m \/ j \in m + 1 .. n + 1
          /\ \A j \in m .. n + 1 : j \in 1 .. n + 1
      BY <1>1, <2>2
    <3>3. /\ g[m] = LineStep(text, m, f[NextLine(text, m)])
          /\ \A j \in m + 1 .. n + 1 : g[j] = f[j]
          /\ g = [j \in m .. n + 1 |-> g[j]]
      BY <3>2
    <3>4. \A j \in m + 1 .. n + 1 : f[j] = LineStep(text, j, f[NextLine(text, j)])
      BY <3>1, <3>2
    <3> HIDE DEF g, m
    <3>5. ASSUME NEW j \in m .. n + 1
          PROVE  g[j] = LineStep(text, j, g[NextLine(text, j)])
      <4>1. g[j] = LineStep(text, j, f[NextLine(text, j)])
        BY <3>2, <3>3, <3>4
      <4>2. j \in 1 .. Len(text) + 1
        BY <3>2 DEF n
      <4>3. CASE NextLine(text, j) \in j + 1 .. Len(text) + 1
        <5>1. NextLine(text, j) \in m + 1 .. n + 1
          BY <1>1, <3>2, <4>3 DEF n
        <5> QED  BY <3>3, <4>1, <5>1
      <4>4. CASE NextLine(text, j) \notin j + 1 .. Len(text) + 1
        BY <4>1, <4>2, <4>4, NextLineIsLater
      <4> QED  BY <4>3, <4>4
    <3>6. IsTail(g, k + 1)
      BY <3>2, <3>3, <3>5
    <3> HIDE DEF IsTail
    <3> QED  BY <3>6
  <2> QED  BY <1>1, <2>1, <2>2
<1>4. n + 1 \in T
  <2>1. T = Nat
    BY <1>2, <1>3, NaturalsFromZero
  <2> QED  BY <1>1, <2>1
<1>5. \E f : f = [j \in 1 .. n + 1 |-> LineStep(text, j, f[NextLine(text, j)])]
  <2>1. n + 2 - (n + 1) = 1 /\ ~(n + 1 > n + 1)
    BY <1>1
  <2> QED  BY <1>4, <2>1
<1>6. HeaderLines(text) = CHOOSE f : f = [j \in 1 .. n + 1 |-> LineStep(text, j, f[NextLine(text, j)])]
  BY DEF HeaderLines, LineStep, NextLine, n
<1>7. HeaderLines(text) = [j \in 1 .. n + 1 |-> LineStep(text, j, HeaderLines(text)[NextLine(text, j)])]
  BY <1>5, <1>6
<1> QED  BY <1>7 DEF n

-----------------------------------------------------------------------------
(* What Readings says of the lines from a position on.                     *)
BlankFrom(text, i) == {b \in i .. Len(text) : text[b - 1] = NL /\ text[b] = NL}
StartsFrom(text, i, blank) == {k \in i .. blank - 1 : text[k - 1] = NL}
HeadersFrom(text, i, blank) ==
    [h \in {text[k] : k \in StartsFrom(text, i, blank)} |->
        Value(text, Min({k \in StartsFrom(text, i, blank) : text[k] = h}))]

HeaderErrors ==
    {"kParsingMissingColonInHeader", "kParsingUnrecognizedHeader", "throws",
     "kParsingEmptyHeaderValue", "kParsingMissingEolAfterHeaderValue"}

(* The result of the loop over the header lines is what the lines say.     *)
LinesRead(text, i, r) ==
    /\ r.ec = "kOk" =>
        /\ r = [ec |-> "kOk", headers |-> r.headers, blank |-> r.blank]
        /\ \/ r.blank = Len(text) + 1 /\ BlankFrom(text, i) = {}
           \/ /\ r.blank \in BlankFrom(text, i) /\ \A b \in BlankFrom(text, i) : r.blank <= b
              /\ \A k \in StartsFrom(text, i, r.blank) : IsHeaderLine(text, k)
              /\ r.headers = HeadersFrom(text, i, r.blank)
    /\ r.ec # "kOk" =>
        /\ r.ec \in HeaderErrors
        /\ \A b \in BlankFrom(text, i) : \E k \in StartsFrom(text, i, b) : ~IsHeaderLine(text, k)
        /\ r.ec = "throws" => text[Len(text)] = COLON

HasEnd(text, i) == \E j \in i .. Len(text) : text[j] = NL

LEMMA TokensDiffer == NL # COLON /\ NL \notin Headers /\ COLON \notin Headers /\ NL \notin Commands
BY DEF NL, COLON, Headers, Commands

LEMMA LineEndFacts ==
    ASSUME NEW text, IsText(text), NEW i \in Nat \ {0}, HasEnd(text, i)
    PROVE  /\ LineEnd(text, i) \in i .. Len(text) /\ text[LineEnd(text, i)] = NL
           /\ \A j \in i .. LineEnd(text, i) - 1 : text[j] # NL
<1> DEFINE places == {j \in i .. Len(text) : text[j] = NL}
           e == LineEnd(text, i)
<1>1. Len(text) \in Nat
  BY TextFacts
<1>2. places \in SUBSET Nat /\ places # {} /\ e = Min(places)
  BY <1>1 DEF LineEnd, HasEnd
<1>3. e \in places /\ \A j \in places : e <= j
  BY <1>2, MinFacts
<1>4. \A j \in i .. e - 1 : j \in i .. Len(text) /\ ~(e <= j)
  BY <1>1, <1>3
<1> HIDE DEF e
<1>5. \A j \in i .. e - 1 : text[j] # NL
  BY <1>3, <1>4
<1> QED  BY <1>3, <1>5 DEF e

(* A good header line.                                                     *)
LEMMA GoodLine ==
    ASSUME NEW text, IsText(text), NEW i \in 1 .. Len(text), HasEnd(text, i), IsHeaderLine(text, i), NEW rest
    PROVE  /\ LineEnd(text, i) \in i + 3 .. Len(text)
           /\ NextLine(text, i) = LineEnd(text, i) + 1
           /\ LineStep(text, i, rest) =
                IF rest.ec # "kOk" THEN rest
                ELSE [rest EXCEPT !.headers = WithHeader(@, text[i], Value(text, i))]
<1> DEFINE e == LineEnd(text, i)
           colon == Find(text, COLON, i)
           end == Find(text, NL, colon + 1)
<1>1. Len(text) \in Nat /\ i \in Nat \ {0}
  BY TextFacts
<1>2. e \in i .. Len(text) /\ text[e] = NL /\ \A j \in i .. e - 1 : text[j] # NL
  BY <1>1, LineEndFacts
<1>3. text[i] \in Headers /\ text[i + 1] = COLON /\ e > i + 2
  BY DEF IsHeaderLine
<1>4. e \in i + 3 .. Len(text)
  BY <1>1, <1>2, <1>3
<1> HIDE DEF e
<1>5. colon = i + 1
  <2>1. \/ colon = npos /\ \A j \in i .. Len(text) : text[j] # COLON
        \/ colon \in i .. Len(text) /\ text[colon] = COLON /\ \A j \in i .. colon - 1 : text[j] # COLON
    BY <1>1, FindFacts
  <2>2. i + 1 \in i .. Len(text) /\ text[i] # COLON
    BY <1>1, <1>3, <1>4, TokensDiffer
  <2>3. colon \in i .. Len(text) /\ colon # i /\ ~(i + 1 \in i .. colon - 1)
    BY <1>3, <2>1, <2>2
  <2> QED  BY <1>1, <2>3
<1> HIDE DEF colon
<1>6. end = e
  <2>1. \/ end = npos /\ \A j \in i + 2 .. Len(text) : text[j] # NL
        \/ end \in i + 2 .. Len(text) /\ text[end] = NL /\ \A j \in i + 2 .. end - 1 : text[j] # NL
    <3>1. colon + 1 = i + 2 /\ i + 2 \in Nat \ {0}
      BY <1>1, <1>5
    <3> QED  BY <1>1, <3>1, FindFacts
  <2>2. e \in i + 2 .. Len(text)
    BY <1>1, <1>4
  <2>3. end \in i + 2 .. Len(text) /\ ~(e \in i + 2 .. end - 1) /\ ~(end \in i .. e - 1)
    BY <1>2, <2>1, <2>2
  <2> QED  BY <1>1, <2>2, <2>3
<1>7. ToHeader(SubSeq(text, i, colon - 1)) = text[i]
  <2>1. colon - 1 = i /\ i \in Nat /\ i <= Len(text) /\ i <= i + 1
    BY <1>1, <1>5
  <2> QED  BY <1>1, <1>3, <2>1, HeaderFacts
<1>8. text[i] # "kInvalid" /\ text[i] # NL
  BY <1>3, TokensDiffer DEF Headers
<1>9. /\ ~(i > Len(text)) /\ colon # npos /\ colon # Len(text) /\ end # colon + 1 /\ end # npos
      /\ colon + 1 = i + 2
  BY <1>1, <1>4, <1>5, <1>6 DEF npos
<1>10. SubSeq(text, colon + 1, end - 1) = Value(text, i)
  BY <1>6, <1>9 DEF Value, e
<1>11. LineStep(text, i, rest) =
        IF rest.ec # "kOk" THEN rest
        ELSE [rest EXCEPT !.headers = WithHeader(@, text[i], SubSeq(text, colon + 1, end - 1))]
  BY <1>7, <1>8, <1>9 DEF LineStep, colon
<1>12. NextLine(text, i) = e + 1
  BY <1>6 DEF NextLine, colon
<1> QED  BY <1>4, <1>10, <1>11, <1>12 DEF e

(* Any other line is refused.                                              *)
LEMMA BadLine ==
    ASSUME NEW text, IsText(text), NEW i \in 1 .. Len(text), text[i] # NL,
           ~(HasEnd(text, i) /\ IsHeaderLine(text, i)), NEW rest
    PROVE  /\ LineStep(text, i, rest).ec \in HeaderErrors
           /\ LineStep(text, i, rest).ec = "throws" => text[Len(text)] = COLON
<1> DEFINE colon == Find(text, COLON, i)
           end == Find(text, NL, colon + 1)
           header == ToHeader(SubSeq(text, i, colon - 1))
<1>1. Len(text) \in Nat /\ i \in Nat \ {0} /\ ~(i > Len(text))
  BY TextFacts
<1>2. \/ colon = npos
      \/ colon \in i .. Len(text) /\ text[colon] = COLON
  BY <1>1, FindFacts
<1>3. CASE colon = npos
  BY <1>1, <1>3 DEF LineStep, Fails, HeaderErrors
<1>4. CASE colon \in i .. Len(text) /\ text[colon] = COLON
  <2>1. colon # npos /\ colon - 1 \in Nat /\ colon - 1 <= Len(text) /\ i <= (colon - 1) + 1
    BY <1>1, <1>4 DEF npos
  <2>2. header = IF i = colon - 1 /\ text[i] \in Headers THEN text[i] ELSE "kInvalid"
    BY <1>1, <2>1, HeaderFacts
  <2>3. CASE header = "kInvalid"
    BY <1>1, <2>1, <2>3 DEF LineStep, Fails, HeaderErrors
  <2>4. CASE header # "kInvalid" /\ colon = Len(text)
    BY <1>1, <1>4, <2>1, <2>4 DEF LineStep, Fails, HeaderErrors
  <2>5. CASE header # "kInvalid" /\ colon # Len(text)
    <3>1. i = colon - 1 /\ text[i] \in Headers /\ text[i + 1] = COLON /\ colon = i + 1
      BY <1>1, <1>4, <2>1, <2>2, <2>5
    <3>2. \/ end = npos /\ \A j \in i + 2 .. Len(text) : text[j] # NL
          \/ end \in i + 2 .. Len(text) /\ text[end] = NL
      <4>1. colon + 1 = i + 2 /\ i + 2 \in Nat \ {0}
        BY <1>1, <3>1
      <4> QED  BY <1>1, <4>1, FindFacts
    <3>3. end = colon + 1 \/ end = npos
      <4> SUFFICES ASSUME end # npos PROVE end = colon + 1
        OBVIOUS
      <4>1. end \in i + 2 .. Len(text) /\ text[end] = NL
        BY <3>2
      <4>2. HasEnd(text, i)
        BY <1>1, <4>1 DEF HasEnd
      <4>3. LineEnd(text, i) <= i + 2
        <5>1. LineEnd(text, i) \in i .. Len(text)
          BY <1>1, <4>2, LineEndFacts
        <5> QED  BY <1>1, <3>1, <4>2, <5>1 DEF IsHeaderLine
      <4>4. LineEnd(text, i) \in i .. Len(text) /\ text[LineEnd(text, i)] = NL
        BY <1>1, <4>2, LineEndFacts
      <4>5. LineEnd(text, i) = i + 2
        <5>1. LineEnd(text, i) # i /\ LineEnd(text, i) # i + 1
          BY <3>1, <4>4, TokensDiffer
        <5> QED  BY <1>1, <4>3, <4>4, <5>1
      <4>6. i + 2 \in i + 2 .. Len(text) /\ text[i + 2] = NL
        BY <1>1, <4>4, <4>5
      <4>7. \A j \in i + 2 .. end - 1 : text[j] # NL
        <5>1. colon + 1 = i + 2 /\ i + 2 \in Nat \ {0}
          BY <1>1, <3>1
        <5> QED  BY <1>1, <4>1, <5>1, FindFacts
      <4>8. ~(i + 2 \in i + 2 .. end - 1)
        BY <4>6, <4>7
      <4> QED  BY <1>1, <3>1, <4>1, <4>8
    <3> QED  BY <1>1, <2>1, <2>5, <3>3 DEF LineStep, Fails, HeaderErrors
  <2> QED  BY <2>3, <2>4, <2>5
<1> QED  BY <1>2, <1>3, <1>4

-----------------------------------------------------------------------------
(* One line more before lines that were read.                              *)
LEMMA BlanksAfterLine ==
    ASSUME NEW text, IsText(text), NEW i \in 2 .. Len(text), HasEnd(text, i), IsHeaderLine(text, i),
           NEW j, j = LineEnd(text, i) + 1
    PROVE  /\ j \in i + 4 .. Len(text) + 1 /\ text[j - 1] = NL
           /\ BlankFrom(text, i) = BlankFrom(text, j)
           /\ \A b \in BlankFrom(text, j) : StartsFrom(text, i, b) = {i} \cup StartsFrom(text, j, b) \/ text[i - 1] # NL
<1> DEFINE e == LineEnd(text, i)
<1>1. Len(text) \in Nat /\ i \in Nat \ {0} /\ i \in 1 .. Len(text)
  BY TextFacts
<1>2. e \in i .. Len(text) /\ text[e] = NL /\ \A k \in i .. e - 1 : text[k] # NL
  BY <1>1, LineEndFacts
<1>3. e \in i + 3 .. Len(text)
  BY <1>1, GoodLine
<1> HIDE DEF e
<1>4. j = e + 1 /\ j - 1 = e
  BY <1>3 DEF e
<1>5. j \in i + 4 .. Len(text) + 1 /\ text[j - 1] = NL
  BY <1>1, <1>2, <1>3, <1>4
<1>6. ASSUME NEW b \in i .. Len(text), text[b - 1] = NL, text[b] = NL PROVE b \in j .. Len(text)
  <2>1. ~(b \in i .. e - 1)
    BY <1>2, <1>6
  <2>2. b # e
    <3>1. e - 1 \in i .. e - 1
      BY <1>1, <1>3
    <3> QED  BY <1>2, <1>6, <3>1
  <2> QED  BY <1>1, <1>3, <1>4, <2>1, <2>2
<1>7. \A b \in j .. Len(text) : b \in i .. Len(text)
  BY <1>1, <1>5
<1>8. BlankFrom(text, i) = BlankFrom(text, j)
  BY <1>6, <1>7 DEF BlankFrom
<1>9. ASSUME NEW b \in BlankFrom(text, j), text[i - 1] = NL
      PROVE  StartsFrom(text, i, b) = {i} \cup StartsFrom(text, j, b)
  <2>1. b \in j .. Len(text)
    BY <1>9 DEF BlankFrom
  <2>2. i \in i .. b - 1 /\ \A k \in j .. b - 1 : k \in i .. b - 1
    BY <1>1, <1>5, <2>1
  <2>3. ASSUME NEW k \in i .. b - 1, text[k - 1] = NL PROVE k = i \/ k \in j .. b - 1
    <3>1. ~(k - 1 \in i .. e - 1)
      BY <1>2, <2>3
    <3> QED  BY <1>1, <1>3, <1>4, <2>1, <3>1
  <2> QED  BY <1>9, <2>2, <2>3 DEF StartsFrom
<1> QED  BY <1>5, <1>8, <1>9

LEMMA HeadersAfterLine ==
    ASSUME NEW text, NEW i \in Nat, NEW b \in Nat, NEW j \in Nat, i < j,
           StartsFrom(text, i, b) = {i} \cup StartsFrom(text, j, b)
    PROVE  HeadersFrom(text, i, b) = WithHeader(HeadersFrom(text, j, b), text[i], Value(text, i))
<1>1. PICK S, T : S = StartsFrom(text, i, b) /\ T = StartsFrom(text, j, b)
  OBVIOUS
<1>2. S = {i} \cup T /\ S \in SUBSET Nat /\ \A k \in T : i < k
  BY <1>1 DEF StartsFrom
<1> DEFINE Old == [h \in {text[k] : k \in T} |-> Value(text, Min({k \in T : text[k] = h}))]
           Names == {text[k] : k \in S}
<1>3. Names = DOMAIN Old \cup {text[i]}
  BY <1>2
<1>4. ASSUME NEW h \in Names
      PROVE  Value(text, Min({k \in S : text[k] = h})) = IF h = text[i] THEN Value(text, i) ELSE Old[h]
  <2>1. CASE h = text[i]
    <3> DEFINE P == {k \in S : text[k] = h}
    <3>1. P \in SUBSET Nat /\ i \in P /\ \A k \in P : i <= k
      BY <1>2, <2>1
    <3>2. Min(P) = i
      BY <3>1, MinIs
    <3> QED  BY <2>1, <3>2
  <2>2. CASE h # text[i]
    <3>1. {k \in S : text[k] = h} = {k \in T : text[k] = h}
      BY <1>2, <2>2
    <3>2. h \in {text[k] : k \in T}
      BY <1>2, <2>2
    <3> QED  BY <2>2, <3>1, <3>2
  <2> QED  BY <2>1, <2>2
<1>5. [h \in Names |-> Value(text, Min({k \in S : text[k] = h}))] = WithHeader(Old, text[i], Value(text, i))
  <2> HIDE DEF Old, Names
  <2> QED  BY <1>3, <1>4 DEF WithHeader
<1> QED  BY <1>1, <1>5 DEF HeadersFrom

LEMMA NoHeaders ==
    ASSUME NEW text, NEW i \in Nat
    PROVE  StartsFrom(text, i, i) = {} /\ HeadersFrom(text, i, i) = <<>>
<1>1. StartsFrom(text, i, i) = {}
  BY DEF StartsFrom
<1>2. {text[k] : k \in StartsFrom(text, i, i)} = {}
  BY <1>1
<1>3. PICK f : f = HeadersFrom(text, i, i)
  OBVIOUS
<1>4. DOMAIN f = {} /\ f = [h \in {} |-> f[h]]
  BY <1>2, <1>3 DEF HeadersFrom
<1>5. f = <<>>
  BY <1>4
<1> QED  BY <1>1, <1>3, <1>5

(* Reading one line more.                                                  *)
LEMMA ReadLine ==
    ASSUME NEW text, IsText(text), NEW i \in 2 .. Len(text) + 1, text[i - 1] = NL, NEW rest,
           i <= Len(text) /\ text[i] # NL /\ HasEnd(text, i) /\ IsHeaderLine(text, i)
                => LinesRead(text, NextLine(text, i), rest)
    PROVE  LinesRead(text, i, LineStep(text, i, rest))
<1>1. Len(text) \in Nat /\ i \in Nat /\ i - 1 \in Nat
  BY TextFacts
<1>2. PICK r : r = LineStep(text, i, rest)
  OBVIOUS
<1>3. CASE i > Len(text)
  <2>1. r = [ec |-> "kOk", headers |-> <<>>, blank |-> i]
    BY <1>2, <1>3 DEF LineStep
  <2>2. i = Len(text) + 1 /\ BlankFrom(text, i) = {}
    BY <1>1, <1>3 DEF BlankFrom
  <2>3. LinesRead(text, i, r)
    BY <2>1, <2>2 DEF LinesRead
  <2> QED  BY <1>2, <2>3
<1>4. CASE i <= Len(text) /\ text[i] = NL
  <2>1. r = [ec |-> "kOk", headers |-> <<>>, blank |-> i]
    BY <1>2, <1>4 DEF LineStep
  <2>2. i \in BlankFrom(text, i) /\ \A b \in BlankFrom(text, i) : i <= b
    BY <1>1, <1>4 DEF BlankFrom
  <2>3. LinesRead(text, i, r)
    BY <1>1, <2>1, <2>2, NoHeaders DEF LinesRead
  <2> QED  BY <1>2, <2>3
<1>5. CASE i <= Len(text) /\ text[i] # NL /\ HasEnd(text, i) /\ IsHeaderLine(text, i)
  <2>1. PICK j : j = LineEnd(text, i) + 1
    OBVIOUS
  <2>2. i \in 2 .. Len(text) /\ i \in 1 .. Len(text)
    BY <1>1, <1>5
  <2>3. /\ NextLine(text, i) = j
        /\ r = IF rest.ec # "kOk" THEN rest
               ELSE [rest EXCEPT !.headers = WithHeader(@, text[i], Value(text, i))]
    BY <1>2, <1>5, <2>1, <2>2, GoodLine
  <2>4. /\ j \in i + 4 .. Len(text) + 1 /\ text[j - 1] = NL
        /\ BlankFrom(text, i) = BlankFrom(text, j)
        /\ \A b \in BlankFrom(text, j) : StartsFrom(text, i, b) = {i} \cup StartsFrom(text, j, b)
    BY <1>5, <2>1, <2>2, BlanksAfterLine
  <2>5. LinesRead(text, j, rest)
    BY <1>5, <2>3
  <2>6. CASE rest.ec # "kOk"
    <3>1. LinesRead(text, i, r)
      BY <2>3, <2>4, <2>5, <2>6 DEF LinesRead
    <3> QED  BY <1>2, <3>1
  <2>7. CASE rest.ec = "kOk"
    <3>1. rest = [ec |-> "kOk", headers |-> rest.headers, blank |-> rest.blank]
      BY <2>5, <2>7 DEF LinesRead
    <3>2. r = [ec |-> "kOk", headers |-> WithHeader(rest.headers, text[i], Value(text, i)),
               blank |-> rest.blank]
      BY <2>3, <2>7, <3>1
    <3>3. CASE rest.blank = Len(text) + 1 /\ BlankFrom(text, j) = {}
      <4>1. LinesRead(text, i, r)
        BY <2>4, <3>2, <3>3 DEF LinesRead
      <4> QED  BY <1>2, <4>1
    <3>4. CASE /\ rest.blank \in BlankFrom(text, j) /\ \A b \in BlankFrom(text, j) : rest.blank <= b
               /\ \A k \in StartsFrom(text, j, rest.blank) : IsHeaderLine(text, k)
               /\ rest.headers = HeadersFrom(text, j, rest.blank)
      <4>1. /\ StartsFrom(text, i, rest.blank) = {i} \cup StartsFrom(text, j, rest.blank)
            /\ j \in Nat /\ i < j /\ rest.blank \in Nat
        BY <1>1, <2>4, <3>4 DEF BlankFrom
      <4>2. r.headers = HeadersFrom(text, i, rest.blank)
        BY <1>1, <3>2, <3>4, <4>1, HeadersAfterLine
      <4>3. LinesRead(text, i, r)
        BY <1>5, <2>4, <3>2, <3>4, <4>1, <4>2 DEF LinesRead
      <4> QED  BY <1>2, <4>3
    <3> QED  BY <2>5, <2>7, <3>3, <3>4 DEF LinesRead
  <2> QED  BY <2>6, <2>7
<1>6. CASE i <= Len(text) /\ text[i] # NL /\ ~(HasEnd(text, i) /\ IsHeaderLine(text, i))
  <2>1. i \in 1 .. Len(text)
    BY <1>1, <1>6
  <2>2. r.ec \in HeaderErrors /\ (r.ec = "throws" => text[Len(text)] = COLON)
    BY <1>2, <1>6, <2>1, BadLine
  <2>3. ASSUME NEW b \in BlankFrom(text, i) PROVE \E k \in StartsFrom(text, i, b) : ~IsHeaderLine(text, k)
    <3>1. b \in i .. Len(text) /\ text[b] = NL /\ b # i
      BY <1>6 DEF BlankFrom
    <3>2. HasEnd(text, i)
      BY <3>1 DEF HasEnd
    <3>3. i \in StartsFrom(text, i, b)
      BY <1>1, <3>1 DEF StartsFrom
    <3> QED  BY <1>6, <3>2, <3>3
  <2>4. r.ec # "kOk"
    BY <2>2 DEF HeaderErrors
  <2>5. LinesRead(text, i, r)
    BY <2>2, <2>3, <2>4 DEF LinesRead
  <2> QED  BY <1>2, <2>5
<1> QED  BY <1>1, <1>3, <1>4, <1>5, <1>6

(* The loop reads the lines of every text.                                 *)
LEMMA ReadLines ==
    ASSUME NEW text, IsText(text), NEW i \in 2 .. Len(text) + 1, text[i - 1] = NL
    PROVE  LinesRead(text, i, HeaderLines(text)[i])
<1> DEFINE n == Len(text)
           Read(j) == text[j - 1] = NL => LinesRead(text, j, HeaderLines(text)[j])
           S == {k \in Nat : \A j \in 2 .. n + 1 : n + 1 - j < k => Read(j)}
<1>1. n \in Nat
  BY TextFacts
<1>2. 0 \in S
  <2>1. \A j \in 2 .. n + 1 : ~(n + 1 - j < 0)
    BY <1>1
  <2> HIDE DEF Read
  <2> QED  BY <2>1
<1>3. ASSUME NEW k \in S PROVE k + 1 \in S
  <2>1. SUFFICES ASSUME NEW j \in 2 .. n + 1, n + 1 - j < k + 1, text[j - 1] = NL
                 PROVE  LinesRead(text, j, HeaderLines(text)[j])
    BY <1>3
  <2>2. j \in 2 .. Len(text) + 1 /\ j \in 1 .. Len(text) + 1
    BY <1>1
  <2>3. ASSUME j <= Len(text) /\ text[j] # NL /\ HasEnd(text, j) /\ IsHeaderLine(text, j)
        PROVE  LinesRead(text, NextLine(text, j), HeaderLines(text)[NextLine(text, j)])
    <3>1. j \in 2 .. Len(text) /\ j \in 1 .. Len(text)
      BY <1>1, <2>2, <2>3
    <3>2. PICK m : m = LineEnd(text, j) + 1
      OBVIOUS
    <3>3. m = NextLine(text, j)
      BY <2>3, <3>1, <3>2, GoodLine
    <3>4. m \in j + 4 .. n + 1 /\ text[m - 1] = NL
      BY <2>3, <3>1, <3>2, BlanksAfterLine
    <3>5. m \in 2 .. n + 1 /\ n + 1 - m < k
      BY <1>1, <2>1, <3>4
    <3>6. Read(m)
      <4> HIDE DEF Read
      <4> QED  BY <3>5
    <3> QED  BY <3>3, <3>4, <3>6
  <2>4. LinesRead(text, j, LineStep(text, j, HeaderLines(text)[NextLine(text, j)]))
    BY <2>1, <2>2, <2>3, ReadLine
  <2> QED  BY <2>2, <2>4, HeaderLinesEquation
<1>4. S = Nat
  <2> HIDE DEF S
  <2>1. S \in SUBSET Nat
    BY DEF S
  <2> QED  BY <1>2, <1>3, <2>1, NaturalsFromZero
<1>5. n + 1 \in S /\ i \in 2 .. n + 1 /\ n + 1 - i < n + 1
  BY <1>1, <1>4
<1>6. Read(i)
  <2> HIDE DEF Read
  <2> QED  BY <1>5
<1> QED  BY <1>6

-----------------------------------------------------------------------------
(* The values of good header lines have something in them.                 *)
GoodValues(text, headers) ==
    \A h \in DOMAIN headers : headers[h] # <<>> /\ headers[h] \in Seq(Range(text))

LEMMA ValuesOfLines ==
    ASSUME NEW text, IsText(text), NEW b \in 3 .. Len(text), text[b] = NL,
           \A k \in StartsFrom(text, 3, b) : IsHeaderLine(text, k)
    PROVE  GoodValues(text, HeadersFrom(text, 3, b))
<1>1. Len(text) \in Nat /\ b \in Nat
  BY TextFacts
<1>2. ASSUME NEW k \in StartsFrom(text, 3, b) PROVE Value(text, k) # <<>> /\ Value(text, k) \in Seq(Range(text))
  <2>1. k \in 1 .. Len(text) /\ b \in k .. Len(text) /\ IsHeaderLine(text, k)
    BY <1>1 DEF StartsFrom
  <2>2. HasEnd(text, k)
    BY <2>1 DEF HasEnd
  <2>3. LineEnd(text, k) \in k + 3 .. Len(text)
    BY <2>1, <2>2, GoodLine
  <2>4. PICK u, e : u = Value(text, k) /\ e = LineEnd(text, k)
    OBVIOUS
  <2>5. k + 2 \in Nat \ {0} /\ e - 1 \in Nat /\ e - 1 <= Len(text) /\ k + 2 <= e - 1
    BY <1>1, <2>1, <2>3, <2>4
  <2>6. IsPart(u, text, k + 2, e - 1)
    BY <2>4, <2>5, PartFacts DEF Value
  <2>7. u \in Seq(Range(text)) /\ Len(u) # 0
    BY <2>5, <2>6 DEF IsPart
  <2> QED  BY <2>4, <2>7
<1>3. ASSUME NEW h \in {text[k] : k \in StartsFrom(text, 3, b)}
      PROVE  Min({k \in StartsFrom(text, 3, b) : text[k] = h}) \in StartsFrom(text, 3, b)
  <2> DEFINE P == {k \in StartsFrom(text, 3, b) : text[k] = h}
  <2>1. P \in SUBSET Nat
    BY <1>1 DEF StartsFrom
  <2>2. P # {}
    OBVIOUS
  <2>3. Min(P) \in P
    BY <2>1, <2>2, MinFacts
  <2> QED  BY <2>3
<1> QED  BY <1>2, <1>3 DEF GoodValues, HeadersFrom

(* The declared length of good values.                                     *)
LEMMA LengthFacts ==
    ASSUME NEW text, IsText(text), ~HugeLength(text), NEW headers, GoodValues(text, headers),
           "content-length" \in DOMAIN headers, NEW result,
           NEW length, length = StoI(headers["content-length"], result)
    PROVE  \/ ~length.ok /\ Length(headers) = Unspecified
           \/ length.ok /\ length.result = Length(headers) /\ Length(headers) \in Nat
<1>1. PICK value : value = headers["content-length"]
  OBVIOUS
<1>2. value \in Seq(Range(text)) /\ value # <<>>
  BY <1>1 DEF GoodValues
<1>3. PICK first : first = Head(value)
  OBVIOUS
<1>4. first = value[1] /\ first \in Range(text)
  BY <1>2, <1>3
<1>5. Length(headers) = IF first \in DOMAIN Numeral THEN Numeral[first] ELSE Unspecified
  BY <1>1, <1>4 DEF Length
<1>6. length = IF first \notin DOMAIN Numeral THEN [ok |-> FALSE, result |-> result]
               ELSE [ok |-> TRUE, result |-> IF Numeral[first] = TooLarge THEN result ELSE Numeral[first]]
  BY <1>1, <1>3 DEF StoI
<1>7. CASE first \notin DOMAIN Numeral
  BY <1>5, <1>6, <1>7
<1>8. CASE first \in DOMAIN Numeral
  <2>1. PICK i \in DOMAIN text : first = text[i]
    BY <1>4 DEF Range
  <2>2. Numeral[first] # TooLarge
    BY <1>8, <2>1 DEF HugeLength
  <2>3. Numeral[first] \in Nat
    BY <1>8, <2>2, NumeralAssumption
  <2> QED  BY <1>5, <1>6, <1>8, <2>2, <2>3
<1> QED  BY <1>7, <1>8

BodyErrors ==
    {"kParsingInvalidContentLength", "kParsingContentLengthExceedsFrameLength",
     "kParsingMissingNullInBody", "kParsingJunkAfterBody"}

(* The body is what lies between the blank line and the one null octet     *)
(* that can end it.                                                        *)
BodyRead(text, blank, headers, b) ==
    \/ /\ b.ec \in BodyErrors
       /\ Ends(text, blank, headers) = {}
    \/ \E n \in blank + 1 .. Len(text) :
        /\ Ends(text, blank, headers) = {n}
        /\ b = [ec |-> "kOk", body |-> SubSeq(text, blank + 1, n - 1)]

LEMMA ReadBody ==
    ASSUME NEW text, IsText(text), ~HugeLength(text), NEW blank \in 1 .. Len(text),
           NEW headers, GoodValues(text, headers)
    PROVE  BodyRead(text, blank, headers, Body(text, blank + 1, headers))
<1> DEFINE n == Len(text)
           hasLength == "content-length" \in DOMAIN headers
           length == StoI(headers["content-length"], 0)
           end == IF hasLength THEN blank + 1 + length.result ELSE Find(text, NUL, blank + 1)
<1>1. n \in Nat /\ blank \in Nat /\ blank + 1 \in Nat \ {0} /\ blank <= n
  BY TextFacts
<1>2. PICK b : b = Body(text, blank + 1, headers)
  OBVIOUS
<1>3. b = IF hasLength /\ ~length.ok THEN Fails("kParsingInvalidContentLength")
          ELSE IF hasLength /\ length.result > n - (blank + 1) + 1
               THEN Fails("kParsingContentLengthExceedsFrameLength")
          ELSE IF end \in {npos, n + 1} \/ text[end] # NUL
               THEN Fails("kParsingMissingNullInBody")
          ELSE IF \E i \in end + 1 .. n : text[i] # NL THEN Fails("kParsingJunkAfterBody")
          ELSE [ec |-> "kOk", body |-> SubSeq(text, blank + 1, end - 1)]
  BY <1>2 DEF Body
<1>4. CASE hasLength /\ ~length.ok
  <2>1. Length(headers) = Unspecified
    BY <1>4, LengthFacts
  <2>2. \A k \in blank + 1 .. n : k - blank - 1 \in Nat
    BY <1>1
  <2>3. Ends(text, blank, headers) = {}
    BY <1>4, <2>1, <2>2, NumeralAssumption DEF Ends
  <2>4. b = [ec |-> "kParsingInvalidContentLength"]
    BY <1>3, <1>4 DEF Fails
  <2> QED  BY <1>2, <2>3, <2>4 DEF BodyRead, BodyErrors
<1>5. ASSUME hasLength => length.ok,
             NEW e, e = end, e \in blank + 1 .. n + 1 \/ e = npos \/ (hasLength /\ e \in Nat /\ e > n + 1),
             hasLength => e = blank + 1 + length.result /\ length.result \in Nat,
             \A k \in Ends(text, blank, headers) : k = e,
             e \in blank + 1 .. n /\ text[e] = NUL =>
                IF hasLength THEN Length(headers) = e - blank - 1
                ELSE \A i \in blank + 1 .. e - 1 : text[i] # NUL
      PROVE  BodyRead(text, blank, headers, b)
  <2>1. b = IF hasLength /\ e > n + 1 THEN Fails("kParsingContentLengthExceedsFrameLength")
            ELSE IF e \in {npos, n + 1} \/ text[e] # NUL THEN Fails("kParsingMissingNullInBody")
            ELSE IF \E i \in e + 1 .. n : text[i] # NL THEN Fails("kParsingJunkAfterBody")
            ELSE [ec |-> "kOk", body |-> SubSeq(text, blank + 1, e - 1)]
    <3>1. hasLength => (length.result > n - (blank + 1) + 1 <=> e > n + 1)
      <4> HIDE DEF length
      <4> QED  BY <1>1, <1>5
    <3> HIDE DEF length, end
    <3> QED  BY <1>3, <1>5, <3>1
  <2>2. Ends(text, blank, headers) \in SUBSET (blank + 1 .. n)
    BY DEF Ends
  <2>3. CASE e \notin blank + 1 .. n
    <3>1. Ends(text, blank, headers) = {}
      BY <1>5, <2>2, <2>3
    <3>2. b.ec \in BodyErrors
      <4>1. (hasLength /\ e > n + 1) \/ e \in {npos, n + 1}
        BY <1>1, <1>5, <2>3
      <4> HIDE DEF hasLength, end
      <4> QED  BY <2>1, <4>1 DEF Fails, BodyErrors
    <3> QED  BY <3>1, <3>2 DEF BodyRead
  <2>4. CASE e \in blank + 1 .. n /\ (text[e] # NUL \/ \E i \in e + 1 .. n : text[i] # NL)
    <3>1. Ends(text, blank, headers) = {}
      BY <1>5, <2>4 DEF Ends
    <3>2. b.ec \in BodyErrors
      <4>1. ~(e > n + 1)
        BY <1>1, <2>4
      <4> HIDE DEF hasLength, end
      <4> QED  BY <2>1, <2>4, <4>1 DEF Fails, BodyErrors
    <3> QED  BY <3>1, <3>2 DEF BodyRead
  <2>5. CASE e \in blank + 1 .. n /\ text[e] = NUL /\ \A i \in e + 1 .. n : text[i] = NL
    <3>1. e \in Ends(text, blank, headers)
      BY <1>5, <2>5 DEF Ends
    <3>2. Ends(text, blank, headers) = {e}
      BY <1>5, <3>1
    <3>3. ~(e > n + 1) /\ e \notin {npos, n + 1}
      BY <1>1, <2>5 DEF npos
    <3>4. b = [ec |-> "kOk", body |-> SubSeq(text, blank + 1, e - 1)]
      <4> HIDE DEF hasLength, end
      <4> QED  BY <2>1, <2>5, <3>3
    <3> QED  BY <2>5, <3>2, <3>4 DEF BodyRead
  <2> QED  BY <2>3, <2>4, <2>5
<1>6. CASE hasLength /\ length.ok
  <2>1. length.result = Length(headers) /\ Length(headers) \in Nat
    BY <1>6, LengthFacts
  <2>2. PICK e : e = end
    OBVIOUS
  <2> HIDE DEF length
  <2>3. e = blank + 1 + Length(headers) /\ e \in Nat
    BY <1>1, <1>6, <2>1, <2>2
  <2>4. e \in blank + 1 .. n + 1 \/ e > n + 1
    BY <1>1, <2>1, <2>3
  <2>5. \A k \in Ends(text, blank, headers) : k = e
    <3>1. \A k \in Ends(text, blank, headers) : k \in blank + 1 .. n /\ Length(headers) = k - blank - 1
      BY <1>6 DEF Ends
    <3> QED  BY <1>1, <2>3, <3>1
  <2>6. Length(headers) = e - blank - 1
    BY <1>1, <2>1, <2>3
  <2> HIDE DEF end, hasLength
  <2>7. BodyRead(text, blank, headers, b)
    BY <1>5, <1>6, <2>1, <2>2, <2>3, <2>4, <2>5, <2>6
  <2> QED  BY <1>2, <2>7
<1>7. CASE ~hasLength
  <2>1. PICK e : e = Find(text, NUL, blank + 1)
    OBVIOUS
  <2>2. e = end
    BY <1>7, <2>1
  <2>3. \/ e = npos /\ \A i \in blank + 1 .. n : text[i] # NUL
        \/ /\ e \in blank + 1 .. n /\ text[e] = NUL
           /\ \A i \in blank + 1 .. e - 1 : text[i] # NUL
    BY <1>1, <2>1, FindFacts
  <2>4. e \in blank + 1 .. n + 1 \/ e = npos
    BY <1>1, <2>3
  <2>5. ASSUME NEW k \in Ends(text, blank, headers) PROVE k = e
    <3>1. k \in blank + 1 .. n /\ text[k] = NUL /\ \A i \in blank + 1 .. k - 1 : text[i] # NUL
      BY <1>7 DEF Ends
    <3>2. e \in blank + 1 .. n /\ text[e] = NUL /\ ~(k \in blank + 1 .. e - 1) /\ ~(e \in blank + 1 .. k - 1)
      BY <2>3, <3>1
    <3> QED  BY <1>1, <3>1, <3>2
  <2>6. e \in blank + 1 .. n /\ text[e] = NUL => \A i \in blank + 1 .. e - 1 : text[i] # NUL
    BY <1>1, <2>3 DEF npos
  <2> HIDE DEF end, hasLength, length
  <2>7. BodyRead(text, blank, headers, b)
    BY <1>5, <1>7, <2>2, <2>4, <2>5, <2>6
  <2> QED  BY <1>2, <2>7
<1> QED  BY <1>2, <1>4, <1>6, <1>7

-----------------------------------------------------------------------------
(* The parser.                                                             *)
ParseErrors ==
    {"kParsingMissingEolAfterCommand", "kParsingUnrecognizedCommand",
     "kParsingMissingBlankLineAfterHeaders"} \cup HeaderErrors \cup BodyErrors

(* A declared length that was read is that of the body.                    *)
LengthHolds(f) ==
    "content-length" \in DOMAIN f.headers =>
        \A result :
            LET length == StoI(f.headers["content-length"], result)
            IN  length.ok /\ length.result = Len(f.body) /\ length.result \in Nat

FrameRead(text, f) ==
    \/ /\ f.ec \in ParseErrors
       /\ Readings(text) = {}
       /\ f.ec = "throws" => Last(text) = COLON
    \/ /\ f.ec = "kOk"
       /\ Readings(text) = {Members(f)}
       /\ LengthHolds(f)

LEMMA NoBlank ==
    ASSUME NEW text, Len(text) >= 2 /\ text[1] \in Commands /\ text[2] = NL => Blank(text) = {}
    PROVE  Len(text) \in Nat => Readings(text) = {}
BY DEF Readings

LEMMA ReadCommand ==
    ASSUME NEW text, IsText(text), NEW eol, eol = Find(text, NL, 1),
           NEW command, command = ToCommand(SubSeq(text, 1, eol - 1))
    PROVE  \/ /\ eol = npos \/ (eol # npos /\ command = "kInvalid")
              /\ ~(Len(text) >= 2 /\ text[1] \in Commands /\ text[2] = NL)
           \/ /\ eol = 2 /\ command = text[1] /\ command # "kInvalid"
              /\ Len(text) >= 2 /\ text[1] \in Commands /\ text[2] = NL
<1>1. Len(text) \in Nat
  BY TextFacts
<1>2. \/ eol = npos /\ \A i \in 1 .. Len(text) : text[i] # NL
      \/ eol \in 1 .. Len(text) /\ text[eol] = NL /\ \A i \in 1 .. eol - 1 : text[i] # NL
  BY FindFacts
<1>3. CASE eol = npos
  <2>1. Len(text) >= 2 => 2 \in 1 .. Len(text) /\ text[2] # NL
    <3>1. ~(eol \in 1 .. Len(text))
      BY <1>3 DEF npos
    <3> QED  BY <1>1, <1>2, <3>1
  <2> QED  BY <1>3, <2>1
<1>4. CASE eol # npos
  <2>1. eol \in 1 .. Len(text) /\ text[eol] = NL /\ \A i \in 1 .. eol - 1 : text[i] # NL
    BY <1>2, <1>4
  <2>2. PICK j : j = eol - 1
    OBVIOUS
  <2>3. j \in Nat /\ j <= Len(text) /\ (j = 1 <=> eol = 2)
    BY <1>1, <2>1, <2>2
  <2>4. command = IF eol = 2 /\ text[1] \in Commands THEN text[1] ELSE "kInvalid"
    <3>1. command = ToCommand(SubSeq(text, 1, j))
      BY <2>2
    <3>2. command = IF j = 1 /\ text[1] \in Commands THEN text[1] ELSE "kInvalid"
      BY <2>3, <3>1, CommandFacts
    <3> QED  BY <2>3, <3>2
  <2>5. "kInvalid" \notin Commands
    BY DEF Commands
  <2>6. text[1] \in Commands /\ Len(text) >= 2 /\ text[2] = NL => eol = 2
    <3>1. SUFFICES ASSUME text[1] \in Commands, Len(text) >= 2, text[2] = NL PROVE eol = 2
      OBVIOUS
    <3>2. text[1] # NL
      BY <3>1, TokensDiffer
    <3>3. eol # 1 /\ ~(2 \in 1 .. eol - 1)
      BY <2>1, <3>1, <3>2
    <3> QED  BY <1>1, <2>1, <3>3
  <2>7. eol = 2 => Len(text) >= 2 /\ text[2] = NL
    BY <1>1, <2>1
  <2> QED  BY <1>4, <2>4, <2>5, <2>6, <2>7
<1> QED  BY <1>3, <1>4

(* Every text is parsed as what it is, whatever its length.                *)
LEMMA ReadFrame ==
    ASSUME NEW text, IsText(text), ~HugeLength(text)
    PROVE  FrameRead(text, ParseFrame(text))
<1> DEFINE n == Len(text)
<1>1. n \in Nat
  BY TextFacts
<1>2. PICK eol : eol = Find(text, NL, 1)
  OBVIOUS
<1>3. PICK command : command = ToCommand(SubSeq(text, 1, eol - 1))
  OBVIOUS
<1>4. PICK lines : lines = HeaderLines(text)[eol + 1]
  OBVIOUS
<1>5. PICK body : body = Body(text, lines.blank + 1, lines.headers)
  OBVIOUS
<1>6. PICK f : f = ParseFrame(text)
  OBVIOUS
<1>7. f = IF eol = npos THEN Fails("kParsingMissingEolAfterCommand")
          ELSE IF command = "kInvalid" THEN Fails("kParsingUnrecognizedCommand")
          ELSE IF lines.ec # "kOk" THEN lines
          ELSE IF lines.blank > n THEN Fails("kParsingMissingBlankLineAfterHeaders")
          ELSE IF body.ec # "kOk" THEN body
          ELSE [ec |-> "kOk", command |-> command, headers |-> lines.headers, body |-> body.body]
  BY <1>2, <1>3, <1>4, <1>5, <1>6 DEF ParseFrame
<1>8. \/ /\ eol = npos \/ (eol # npos /\ command = "kInvalid")
         /\ ~(n >= 2 /\ text[1] \in Commands /\ text[2] = NL)
      \/ /\ eol = 2 /\ command = text[1] /\ command # "kInvalid"
         /\ n >= 2 /\ text[1] \in Commands /\ text[2] = NL
  BY <1>2, <1>3, ReadCommand
<1>9. CASE /\ eol = npos \/ (eol # npos /\ command = "kInvalid")
           /\ ~(n >= 2 /\ text[1] \in Commands /\ text[2] = NL)
  <2>1. Readings(text) = {}
    BY <1>1, <1>9, NoBlank
  <2>2. f.ec \in ParseErrors /\ f.ec # "throws"
    BY <1>7, <1>9 DEF Fails, ParseErrors
  <2>3. FrameRead(text, f)
    BY <2>1, <2>2 DEF FrameRead
  <2> QED  BY <1>6, <2>3
<1>10. CASE /\ eol = 2 /\ command = text[1] /\ command # "kInvalid"
            /\ n >= 2 /\ text[1] \in Commands /\ text[2] = NL
  <2>1. 3 \in 2 .. Len(text) + 1 /\ text[3 - 1] = NL
    BY <1>1, <1>10
  <2>2. LinesRead(text, 3, lines)
    <3>1. lines = HeaderLines(text)[3]
      BY <1>4, <1>10
    <3>2. LinesRead(text, 3, HeaderLines(text)[3])
      BY <2>1, ReadLines
    <3> QED  BY <3>1, <3>2
  <2>3. Blank(text) = BlankFrom(text, 3) /\ Blank(text) \in SUBSET Nat
    BY <1>1 DEF Blank, BlankFrom
  <2>4. eol # npos
    BY <1>10 DEF npos
  <2>5. CASE lines.ec # "kOk"
    <3>1. f = lines
      BY <1>7, <1>10, <2>4, <2>5
    <3>2. lines.ec \in HeaderErrors /\ (lines.ec = "throws" => text[n] = COLON)
      BY <2>2, <2>5 DEF LinesRead
    <3>3. Readings(text) = {}
      <4>1. CASE Blank(text) = {}
        BY <1>1, <4>1, NoBlank
      <4>2. CASE Blank(text) # {}
        <5>1. PICK b : b = Min(Blank(text))
          OBVIOUS
        <5>2. b \in BlankFrom(text, 3)
          BY <2>3, <4>2, <5>1, MinFacts
        <5>3. \E k \in StartsFrom(text, 3, b) : ~IsHeaderLine(text, k)
          BY <2>2, <2>5, <5>2 DEF LinesRead
        <5>4. \E k \in Starts(text, b) : ~IsHeaderLine(text, k)
          BY <5>3 DEF Starts, StartsFrom
        <5> QED  BY <5>1, <5>4 DEF Readings
      <4> QED  BY <4>1, <4>2
    <3>4. Last(text) = text[n]
      BY DEF Last
    <3>5. FrameRead(text, f)
      BY <3>1, <3>2, <3>3, <3>4 DEF FrameRead, ParseErrors
    <3> QED  BY <1>6, <3>5
  <2>6. CASE lines.ec = "kOk" /\ lines.blank = n + 1 /\ BlankFrom(text, 3) = {}
    <3>1. f.ec = "kParsingMissingBlankLineAfterHeaders"
      BY <1>1, <1>7, <1>10, <2>4, <2>6 DEF Fails
    <3>2. Readings(text) = {}
      BY <1>1, <2>3, <2>6, NoBlank
    <3>3. FrameRead(text, f)
      BY <3>1, <3>2 DEF FrameRead, ParseErrors
    <3> QED  BY <1>6, <3>3
  <2>7. ASSUME lines.ec = "kOk", NEW blank, blank = lines.blank,
               blank \in BlankFrom(text, 3), \A b \in BlankFrom(text, 3) : blank <= b,
               \A k \in StartsFrom(text, 3, blank) : IsHeaderLine(text, k),
               lines.headers = HeadersFrom(text, 3, blank)
        PROVE  FrameRead(text, f)
    <3>1. PICK headers : headers = lines.headers
      OBVIOUS
    <3>2. blank \in 3 .. Len(text) /\ text[blank] = NL
      BY <2>7 DEF BlankFrom
    <3>3. blank \in 1 .. Len(text) /\ ~(blank > n)
      BY <1>1, <3>2
    <3>4. GoodValues(text, headers)
      BY <2>7, <3>1, <3>2, ValuesOfLines
    <3>5. BodyRead(text, blank, headers, body)
      BY <1>5, <2>7, <3>1, <3>3, <3>4, ReadBody
    <3>6. Min(Blank(text)) = blank /\ Blank(text) # {}
      BY <2>3, <2>7, MinIs
    <3>7. headers = HeadersOf(text, blank)
      BY <2>7, <3>1 DEF HeadersOf, HeadersFrom, Starts, StartsFrom
    <3>8. ~\E k \in Starts(text, blank) : ~IsHeaderLine(text, k)
      BY <2>7 DEF Starts, StartsFrom
    <3>9. Readings(text) =
            {[command |-> text[1], headers |-> headers, body |-> SubSeq(text, blank + 1, m - 1)] :
                m \in Ends(text, blank, headers)}
      BY <1>1, <1>10, <3>6, <3>7, <3>8 DEF Readings
    <3>10. CASE body.ec \in BodyErrors /\ Ends(text, blank, headers) = {}
      <4>1. f = body
        BY <1>7, <1>10, <2>4, <2>7, <3>3, <3>10 DEF BodyErrors
      <4>2. Readings(text) = {}
        BY <3>9, <3>10
      <4>3. f.ec # "throws"
        BY <3>10, <4>1 DEF BodyErrors
      <4> QED  BY <3>10, <4>1, <4>2, <4>3 DEF FrameRead, ParseErrors
    <3>11. ASSUME NEW m \in blank + 1 .. n, Ends(text, blank, headers) = {m},
                  body = [ec |-> "kOk", body |-> SubSeq(text, blank + 1, m - 1)]
           PROVE  FrameRead(text, f)
      <4>1. f = [ec |-> "kOk", command |-> text[1], headers |-> headers,
                 body |-> SubSeq(text, blank + 1, m - 1)]
        BY <1>7, <1>10, <2>4, <2>7, <3>1, <3>3, <3>11
      <4>2. Readings(text) = {Members(f)}
        BY <3>9, <3>11, <4>1 DEF Members
      <4>3. ASSUME "content-length" \in DOMAIN headers, NEW result,
                   NEW length, length = StoI(headers["content-length"], result)
            PROVE  length.ok /\ length.result = Len(f.body) /\ length.result \in Nat
        <5>1. m \in Ends(text, blank, headers)
          BY <3>11
        <5>2. Length(headers) = m - blank - 1
          BY <4>3, <5>1 DEF Ends
        <5>3. blank + 1 \in Nat \ {0} /\ m - 1 \in Nat /\ m - 1 <= Len(text) /\ m - blank - 1 \in Nat
              /\ m - blank - 1 = IF blank + 1 <= m - 1 THEN (m - 1) - (blank + 1) + 1 ELSE 0
          BY <1>1, <3>2, <3>11
        <5>4. IsPart(SubSeq(text, blank + 1, m - 1), text, blank + 1, m - 1)
          BY <5>3, PartFacts
        <5>5. Len(f.body) = m - blank - 1
          BY <4>1, <5>3, <5>4 DEF IsPart
        <5>6. \/ ~length.ok /\ Length(headers) = Unspecified
              \/ length.ok /\ length.result = Length(headers) /\ Length(headers) \in Nat
          BY <3>4, <4>3, LengthFacts
        <5> QED  BY <5>2, <5>3, <5>5, <5>6, NumeralAssumption
      <4>4. LengthHolds(f)
        BY <4>1, <4>3 DEF LengthHolds
      <4> QED  BY <4>1, <4>2, <4>4 DEF FrameRead
    <3> QED  BY <3>5, <3>10, <3>11 DEF BodyRead
  <2>8. FrameRead(text, f)
    BY <1>6, <2>2, <2>5, <2>6, <2>7 DEF LinesRead
  <2> QED  BY <1>6, <2>8
<1> QED  BY <1>8, <1>9, <1>10

-----------------------------------------------------------------------------
(* What is printed is a text.                                              *)
LEMMA TextOfSeq ==
    ASSUME NEW A, NEW text \in Seq(A)
    PROVE  IsText(text)
<1>1. \A i \in 1 .. Len(text) : text[i] \in Range(text)
  BY DEF Range
<1> QED  BY <1>1 DEF IsText

(* Where each sequence is in the whole that FlattenSeq makes of them: the  *)
(* first k of them end at after[k + 1].                                    *)
Layout(s, seqs, k, after) ==
    /\ after \in [1 .. k + 1 -> Nat] /\ after[1] = 0 /\ Len(s) = after[k + 1]
    /\ \A i \in 1 .. k :
        /\ after[i + 1] = after[i] + Len(seqs[i]) /\ after[i + 1] <= after[k + 1]
        /\ \A j \in 1 .. Len(seqs[i]) : s[after[i] + j] = seqs[i][j]
    /\ \A p \in 1 .. Len(s) : \E i \in 1 .. k : \E j \in 1 .. Len(seqs[i]) : p = after[i] + j

LEMMA InsideRange ==
    ASSUME NEW a \in Nat, NEW l \in Nat, NEW m \in Nat, a + l <= m, NEW j \in 1 .. l
    PROVE  a + j \in 1 .. m
OBVIOUS

LEMMA LayoutStart ==
    ASSUME NEW seqs
    PROVE  Layout(<<>>, seqs, 0, [i \in 1 .. 1 |-> 0])
BY DEF Layout

LEMMA LayoutStep ==
    ASSUME NEW A, NEW s \in Seq(A), NEW seqs \in Seq(Seq(A)), NEW k \in Nat, k + 1 <= Len(seqs),
           NEW after, Layout(s, seqs, k, after)
    PROVE  \E then : Layout(s \o seqs[k + 1], seqs, k + 1, then)
<1>1. PICK e, t : e = seqs[k + 1] /\ t = s \o e
  OBVIOUS
<1>2. /\ e \in Seq(A) /\ Len(e) \in Nat /\ Len(s) \in Nat /\ Len(seqs) \in Nat
      /\ \A i \in 1 .. k + 1 : Len(seqs[i]) \in Nat
  BY <1>1
<1>3. /\ t \in Seq(A) /\ Len(t) = Len(s) + Len(e)
      /\ \A p \in 1 .. Len(s) : t[p] = s[p]
      /\ \A j \in 1 .. Len(e) : t[Len(s) + j] = e[j]
  BY <1>1, <1>2
<1>4. PICK then : then = [i \in 1 .. (k + 1) + 1 |-> IF i = (k + 1) + 1 THEN Len(t) ELSE after[i]]
  OBVIOUS
<1>5. /\ after \in [1 .. k + 1 -> Nat] /\ after[1] = 0 /\ Len(s) = after[k + 1]
      /\ \A i \in 1 .. k :
          /\ after[i + 1] = after[i] + Len(seqs[i]) /\ after[i + 1] <= after[k + 1]
          /\ \A j \in 1 .. Len(seqs[i]) : s[after[i] + j] = seqs[i][j]
      /\ \A p \in 1 .. Len(s) : \E i \in 1 .. k : \E j \in 1 .. Len(seqs[i]) : p = after[i] + j
  BY DEF Layout
<1>6. /\ then \in [1 .. (k + 1) + 1 -> Nat] /\ then[(k + 1) + 1] = Len(t)
      /\ \A i \in 1 .. k + 1 : then[i] = after[i]
  BY <1>2, <1>3, <1>4, <1>5
<1>7. then[1] = 0
  BY <1>5, <1>6
<1>8. ASSUME NEW i \in 1 .. k + 1
      PROVE  /\ then[i + 1] = then[i] + Len(seqs[i]) /\ then[i + 1] <= then[(k + 1) + 1]
             /\ \A j \in 1 .. Len(seqs[i]) : t[then[i] + j] = seqs[i][j]
  <2>1. CASE i = k + 1
    <3>1. then[i] = Len(s) /\ seqs[i] = e /\ then[i + 1] = Len(t)
      <4>1. k + 1 \in 1 .. k + 1
        OBVIOUS
      <4> QED  BY <1>1, <1>5, <1>6, <2>1, <4>1
    <3>2. then[i + 1] = then[i] + Len(seqs[i]) /\ then[i + 1] = then[(k + 1) + 1]
      BY <1>3, <1>6, <3>1
    <3>3. then[i + 1] <= then[(k + 1) + 1]
      BY <1>2, <1>3, <3>1, <3>2
    <3> QED  BY <1>3, <3>1, <3>2, <3>3
  <2>2. CASE i # k + 1
    <3>1. i \in 1 .. k /\ i + 1 \in 1 .. k + 1
      BY <2>2
    <3>2. then[i] = after[i] /\ then[i + 1] = after[i + 1] /\ after[i] \in Nat /\ after[i + 1] \in Nat
      BY <1>5, <1>6, <3>1
    <3>3. after[i + 1] = after[i] + Len(seqs[i]) /\ after[i + 1] <= Len(s)
      BY <1>5, <3>1
    <3>4. ASSUME NEW j \in 1 .. Len(seqs[i]) PROVE t[then[i] + j] = seqs[i][j]
      <4>1. s[after[i] + j] = seqs[i][j]
        BY <1>5, <3>1
      <4>2. PICK l, m : l = Len(seqs[i]) /\ m = Len(s)
        OBVIOUS
      <4>3. l \in Nat /\ m \in Nat /\ j \in 1 .. l /\ after[i] + l <= m
        <5>1. l \in Nat /\ m \in Nat /\ j \in 1 .. l
          BY <1>2, <4>2
        <5>2. after[i + 1] = after[i] + l /\ after[i + 1] <= m
          BY <3>3, <4>2
        <5> QED  BY <5>1, <5>2
      <4>4. after[i] + j \in 1 .. m
        BY <3>2, <4>3, InsideRange
      <4>5. t[after[i] + j] = s[after[i] + j]
        BY <1>3, <4>2, <4>4
      <4> QED  BY <3>2, <4>1, <4>5
    <3>5. Len(s) <= Len(t) /\ Len(t) \in Nat
      BY <1>2, <1>3
    <3>6. after[i + 1] <= Len(t)
      BY <1>2, <3>2, <3>3, <3>5
    <3>7. then[i + 1] = then[i] + Len(seqs[i]) /\ then[i + 1] <= then[(k + 1) + 1]
      BY <1>6, <3>2, <3>3, <3>6
    <3> QED  BY <3>4, <3>7
  <2> QED  BY <2>1, <2>2
<1>9. ASSUME NEW p \in 1 .. Len(t)
      PROVE  \E i \in 1 .. k + 1 : \E j \in 1 .. Len(seqs[i]) : p = then[i] + j
  <2>1. CASE p \in 1 .. Len(s)
    <3>1. PICK i \in 1 .. k : \E j \in 1 .. Len(seqs[i]) : p = after[i] + j
      BY <1>5, <2>1
    <3>2. i \in 1 .. k + 1 /\ then[i] = after[i]
      BY <1>6, <3>1
    <3> QED  BY <3>1, <3>2
  <2>2. CASE p \notin 1 .. Len(s)
    <3>1. p - Len(s) \in 1 .. Len(e) /\ p = Len(s) + (p - Len(s))
      BY <1>2, <1>3, <2>2
    <3>2. then[k + 1] = Len(s) /\ k + 1 \in 1 .. k + 1
      BY <1>5, <1>6
    <3> QED  BY <1>1, <3>1, <3>2
  <2> QED  BY <2>1, <2>2
<1>10. Layout(t, seqs, k + 1, then)
  BY <1>6, <1>7, <1>8, <1>9 DEF Layout
<1> QED  BY <1>1, <1>10

LEMMA FlattenLayout ==
    ASSUME NEW A, NEW seqs \in Seq(Seq(A))
    PROVE  FlattenSeq(seqs) \in Seq(A) /\ \E after : Layout(FlattenSeq(seqs), seqs, Len(seqs), after)
<1> DEFINE n == Len(seqs)
           IsHead(f, k) ==
                f = [i \in 1 .. k |-> IF i = 1 THEN seqs[i] ELSE f[i - 1] \o seqs[i]]
           T == {k \in Nat : \E f : IsHead(f, k)}
           Laid(s, k) == s \in Seq(A) /\ \E after : Layout(s, seqs, k, after)
<1>1. n \in Nat
  OBVIOUS
<1>2. 0 \in T
  <2>1. IsHead([i \in 1 .. 0 |-> 0], 0)
    OBVIOUS
  <2> HIDE DEF IsHead
  <2> QED  BY <2>1
<1>3. ASSUME NEW k \in T PROVE k + 1 \in T
  <2>1. k \in Nat
    OBVIOUS
  <2>2. PICK f : IsHead(f, k)
    OBVIOUS
  <2> DEFINE new == IF k + 1 = 1 THEN seqs[k + 1] ELSE f[k] \o seqs[k + 1]
             g == [i \in 1 .. k + 1 |-> IF i = k + 1 THEN new ELSE f[i]]
  <2> HIDE DEF new
  <2>3. /\ g[k + 1] = new /\ (\A i \in 1 .. k : g[i] = f[i])
        /\ g = [i \in 1 .. k + 1 |-> g[i]]
        /\ \A i \in 1 .. k + 1 : i = k + 1 \/ i \in 1 .. k
        /\ \A i \in 1 .. k + 1 : i # 1 => i - 1 \in 1 .. k /\ (i = k + 1 => i - 1 = k)
    BY <2>1
  <2> HIDE DEF g
  <2>4. ASSUME NEW i \in 1 .. k + 1 PROVE g[i] = IF i = 1 THEN seqs[i] ELSE g[i - 1] \o seqs[i]
    <3>1. CASE i = k + 1
      <4>1. k + 1 # 1 => k \in 1 .. k
        BY <2>1
      <4>2. k + 1 # 1 => g[k] = f[k]
        BY <2>3, <4>1
      <4>3. (k + 1) - 1 = k
        BY <2>1
      <4> QED  BY <2>3, <3>1, <4>2, <4>3 DEF new
    <3>2. CASE i \in 1 .. k
      <4>1. f[i] = IF i = 1 THEN seqs[i] ELSE f[i - 1] \o seqs[i]
        BY <2>2, <3>2
      <4> QED  BY <2>3, <3>2, <4>1
    <3> QED  BY <2>3, <3>1, <3>2
  <2>5. IsHead(g, k + 1)
    BY <2>3, <2>4
  <2> HIDE DEF IsHead
  <2> QED  BY <2>1, <2>5
<1>4. \E f : IsHead(f, n)
  <2> HIDE DEF T
  <2>1. T \in SUBSET Nat
    BY DEF T
  <2>2. n \in T
    BY <1>1, <1>2, <1>3, <2>1, NaturalsFromZero
  <2> QED  BY <2>2 DEF T
<1>5. PICK flatten : flatten = CHOOSE f : IsHead(f, n)
  OBVIOUS
<1>6. IsHead(flatten, n)
  <2> HIDE DEF IsHead
  <2> QED  BY <1>4, <1>5
<1> HIDE DEF Laid
<1>7. Laid(<<>>, 0)
  BY LayoutStart DEF Laid
<1>8. ASSUME NEW s, NEW k \in Nat, k + 1 <= n, Laid(s, k) PROVE Laid(s \o seqs[k + 1], k + 1)
  <2>1. seqs[k + 1] \in Seq(A) /\ s \o seqs[k + 1] \in Seq(A)
    <3>1. k + 1 \in 1 .. n /\ s \in Seq(A)
      BY <1>1, <1>8 DEF Laid
    <3>2. seqs[k + 1] \in Seq(A)
      BY <3>1
    <3> QED  BY <3>1, <3>2
  <2>2. PICK after : Layout(s, seqs, k, after)
    BY <1>8 DEF Laid
  <2>3. \E then : Layout(s \o seqs[k + 1], seqs, k + 1, then)
    BY <1>8, <2>2, LayoutStep DEF Laid
  <2> QED  BY <2>1, <2>3 DEF Laid
<1> DEFINE S == {m \in Nat : m \in 1 .. n => Laid(flatten[m], m)}
<1>9. 0 \in S
  OBVIOUS
<1>10. ASSUME NEW m \in S PROVE m + 1 \in S
  <2>1. SUFFICES ASSUME m + 1 \in 1 .. n PROVE Laid(flatten[m + 1], m + 1)
    OBVIOUS
  <2>2. m \in Nat /\ m + 1 <= n /\ (m + 1) - 1 = m
    BY <1>1, <2>1
  <2>3. flatten[m + 1] = IF m + 1 = 1 THEN seqs[m + 1] ELSE flatten[m] \o seqs[m + 1]
    BY <1>6, <2>1, <2>2
  <2>4. CASE m = 0
    <3>1. seqs[m + 1] \in Seq(A)
      BY <2>1
    <3>2. flatten[m + 1] = <<>> \o seqs[m + 1]
      BY <2>3, <2>4, <3>1
    <3> QED  BY <1>7, <1>8, <2>2, <2>4, <3>2
  <2>5. CASE m # 0
    <3>1. m \in 1 .. n /\ m + 1 # 1
      BY <1>1, <2>2, <2>5
    <3>2. Laid(flatten[m], m)
      BY <3>1
    <3>3. flatten[m + 1] = flatten[m] \o seqs[m + 1]
      BY <2>3, <3>1
    <3> HIDE DEF IsHead
    <3> QED  BY <1>8, <2>2, <3>2, <3>3
  <2> QED  BY <2>4, <2>5
<1>11. n \in S
  <2> HIDE DEF S
  <2>1. S \in SUBSET Nat
    BY DEF S
  <2> QED  BY <1>1, <1>9, <1>10, <2>1, NaturalsFromZero
<1>12. FlattenSeq(seqs) = IF n = 0 THEN seqs ELSE flatten[n]
  BY <1>5 DEF FlattenSeq
<1>13. Laid(FlattenSeq(seqs), n)
  <2>1. CASE n = 0
    <3>1. seqs = <<>>
      BY <2>1
    <3> QED  BY <1>7, <1>12, <2>1, <3>1
  <2>2. CASE n # 0
    <3>1. n \in 1 .. n
      BY <1>1, <2>2
    <3> QED  BY <1>11, <1>12, <2>2, <3>1
  <2> QED  BY <2>1, <2>2
<1> QED  BY <1>13 DEF Laid

(* The text of parts whose headers are written in an order: the line of    *)
(* the i-th header begins at 3 + after[i], the blank line is the last.     *)
ValueOf(parts, order, i) == parts.headers[order[i]]

Printed(text, parts, order, after) ==
    /\ IsText(text) /\ Len(order) \in Nat
    /\ after \in [1 .. Len(order) + 1 -> Nat] /\ after[1] = 0
    /\ \A i \in 1 .. Len(order) :
        /\ Len(ValueOf(parts, order, i)) \in Nat
        /\ after[i + 1] = after[i] + Len(ValueOf(parts, order, i)) + 3
        /\ after[i + 1] <= after[Len(order) + 1]
        /\ text[3 + after[i]] = order[i] /\ text[4 + after[i]] = COLON
        /\ \A j \in 1 .. Len(ValueOf(parts, order, i)) : text[4 + after[i] + j] = ValueOf(parts, order, i)[j]
        /\ text[2 + after[i + 1]] = NL
    /\ \A p \in 1 .. after[Len(order) + 1] :
        \E i \in 1 .. Len(order) : \E j \in 1 .. Len(ValueOf(parts, order, i)) + 3 : p = after[i] + j
    /\ text[1] = parts.command /\ text[2] = NL /\ text[3 + after[Len(order) + 1]] = NL
    /\ Len(parts.body) \in Nat /\ Len(text) = 4 + after[Len(order) + 1] + Len(parts.body)
    /\ \A j \in 1 .. Len(parts.body) : text[3 + after[Len(order) + 1] + j] = parts.body[j]
    /\ text[Len(text)] = NUL

IsJoined(u, s, t) ==
    /\ Len(s) \in Nat /\ Len(t) \in Nat /\ Len(u) = Len(s) + Len(t)
    /\ \A p \in 1 .. Len(s) : u[p] = s[p]
    /\ \A j \in 1 .. Len(t) : u[Len(s) + j] = t[j]

LEMMA JoinFacts ==
    ASSUME NEW A, NEW s \in Seq(A), NEW t \in Seq(A)
    PROVE  s \o t \in Seq(A) /\ IsJoined(s \o t, s, t)
<1>1. PICK u : u = s \o t
  OBVIOUS
<1>2. u \in Seq(A)
  BY <1>1
<1>3. IsJoined(u, s, t)
  BY <1>1 DEF IsJoined
<1> QED  BY <1>1, <1>2, <1>3

IsLine(line, name, value) ==
    /\ Len(value) \in Nat /\ Len(line) = Len(value) + 3
    /\ line[1] = name /\ line[2] = COLON /\ line[Len(value) + 3] = NL
    /\ \A j \in 1 .. Len(value) : line[2 + j] = value[j]

LEMMA HeaderLineFacts ==
    ASSUME NEW A, NEW name \in A, NEW value \in Seq(A), COLON \in A, NL \in A,
           NEW line, line = <<name, COLON>> \o value \o <<NL>>
    PROVE  line \in Seq(A) /\ IsLine(line, name, value)
<1>1. PICK l : l = <<name, COLON>> \o value
  OBVIOUS
<1>2. /\ l \in Seq(A) /\ Len(value) \in Nat /\ Len(l) = Len(value) + 2
      /\ l[1] = name /\ l[2] = COLON /\ \A j \in 1 .. Len(value) : l[2 + j] = value[j]
  BY <1>1
<1>3. line = l \o <<NL>>
  BY <1>1
<1>4. /\ line \in Seq(A) /\ Len(line) = Len(l) + 1 /\ line[Len(l) + 1] = NL
      /\ \A j \in 1 .. Len(l) : line[j] = l[j]
  BY <1>2, <1>3
<1> QED  BY <1>2, <1>4 DEF IsLine

IsWhole(text, command, all, body) ==
    /\ Len(all) \in Nat /\ Len(body) \in Nat /\ Len(text) = 4 + Len(all) + Len(body)
    /\ text[1] = command /\ text[2] = NL /\ text[3 + Len(all)] = NL /\ text[Len(text)] = NUL
    /\ \A p \in 1 .. Len(all) : text[2 + p] = all[p]
    /\ \A j \in 1 .. Len(body) : text[3 + Len(all) + j] = body[j]

LEMMA TextOfParts ==
    ASSUME NEW A, NEW command \in A, NEW all \in Seq(A), NEW body \in Seq(A), NL \in A, NUL \in A,
           NEW text, text = <<command, NL>> \o all \o <<NL>> \o body \o <<NUL>>
    PROVE  text \in Seq(A) /\ IsWhole(text, command, all, body)
<1>1. PICK t1 : t1 = <<command, NL>> \o all
  OBVIOUS
<1>2. /\ t1 \in Seq(A) /\ Len(all) \in Nat /\ Len(body) \in Nat /\ Len(t1) = 2 + Len(all)
      /\ t1[1] = command /\ t1[2] = NL /\ \A p \in 1 .. Len(all) : t1[2 + p] = all[p]
  BY <1>1
<1>3. PICK t2 : t2 = t1 \o <<NL>>
  OBVIOUS
<1>4. /\ t2 \in Seq(A) /\ Len(t2) = 3 + Len(all) /\ t2[3 + Len(all)] = NL
      /\ \A p \in 1 .. Len(t1) : t2[p] = t1[p]
  BY <1>2, <1>3
<1>5. PICK t3 : t3 = t2 \o body
  OBVIOUS
<1>6. /\ t3 \in Seq(A) /\ Len(t3) = 3 + Len(all) + Len(body)
      /\ \A p \in 1 .. Len(t2) : t3[p] = t2[p]
      /\ \A j \in 1 .. Len(body) : t3[Len(t2) + j] = body[j]
  <2>1. /\ t3 \in Seq(A) /\ Len(t3) = Len(t2) + Len(body)
        /\ \A p \in 1 .. Len(t2) : t3[p] = t2[p]
        /\ \A j \in 1 .. Len(body) : t3[Len(t2) + j] = body[j]
    <3>1. t2 \in Seq(A)
      BY <1>4
    <3> QED  BY <1>5, <3>1
  <2>2. Len(t3) = 3 + Len(all) + Len(body)
    BY <1>2, <1>4, <2>1
  <2> QED  BY <2>1, <2>2
<1>7. text = t3 \o <<NUL>>
  BY <1>1, <1>3, <1>5
<1>8. /\ text \in Seq(A) /\ Len(text) = Len(t3) + 1 /\ text[Len(t3) + 1] = NUL
      /\ \A p \in 1 .. Len(t3) : text[p] = t3[p]
  <2>1. PICK z : z = <<NUL>>
    OBVIOUS
  <2>2. z \in Seq(A) /\ Len(z) = 1 /\ z[1] = NUL /\ 1 \in 1 .. Len(z)
    BY <2>1
  <2>3. PICK u : u = t3 \o z
    OBVIOUS
  <2>4. u \in Seq(A) /\ IsJoined(u, t3, z)
    <3>1. t3 \in Seq(A) /\ z \in Seq(A)
      BY <1>6, <2>2
    <3> QED  BY <2>3, <3>1, JoinFacts
  <2>5. text = u
    BY <1>7, <2>1, <2>3
  <2>6. IsJoined(text, t3, z)
    BY <2>4, <2>5
  <2> QED  BY <2>2, <2>4, <2>5, <2>6 DEF IsJoined
<1>9. \A p \in 1 .. Len(t1) : p \in 1 .. Len(t2) /\ p \in 1 .. Len(t3) /\ text[p] = t1[p]
  BY <1>2, <1>4, <1>6, <1>8
<1>10. text[1] = command /\ text[2] = NL /\ \A p \in 1 .. Len(all) : text[2 + p] = all[p]
  BY <1>2, <1>9
<1>11. text[3 + Len(all)] = NL
  <2>1. 3 + Len(all) \in 1 .. Len(t2) /\ 3 + Len(all) \in 1 .. Len(t3)
    BY <1>2, <1>4, <1>6
  <2> QED  BY <1>4, <1>6, <1>8, <2>1
<1>12. ASSUME NEW j \in 1 .. Len(body) PROVE text[3 + Len(all) + j] = body[j]
  <2>1. 3 + Len(all) + j \in 1 .. Len(t3) /\ 3 + Len(all) + j = Len(t2) + j
    BY <1>2, <1>4, <1>6
  <2> QED  BY <1>6, <1>8, <2>1
<1>13. Len(text) = 4 + Len(all) + Len(body) /\ text[Len(text)] = NUL
  BY <1>2, <1>6, <1>8
<1> QED  BY <1>2, <1>8, <1>10, <1>11, <1>12, <1>13 DEF IsWhole

LEMMA RenderedIsPrinted ==
    ASSUME NEW parts \in Parts, NEW order \in SetToSeqs(DOMAIN parts.headers)
    PROVE  \E after : Printed(Render(parts, order), parts, order, after)
<1> DEFINE names == DOMAIN parts.headers
           Values == UNION {Range(parts.headers[h]) : h \in names}
           A == {parts.command, NL, COLON, NUL} \cup names \cup Values \cup Range(parts.body)
           Line(i) == <<order[i], COLON>> \o parts.headers[order[i]] \o <<NL>>
           lines == [i \in DOMAIN order |-> Line(i)]
<1>1. parts.body \in Seq(Range(parts.body)) /\ \A h \in names : parts.headers[h] \in Seq(Range(parts.headers[h]))
  BY PartsAssumption DEF IsText
<1>2. parts.body \in Seq(A) /\ \A h \in names : parts.headers[h] \in Seq(A)
  <2>1. Range(parts.body) \subseteq A /\ Values \subseteq A
    BY ZenonT(20)
  <2>2. \A h \in names : Range(parts.headers[h]) \subseteq A
    <3>1. \A h \in names : Range(parts.headers[h]) \subseteq Values
      OBVIOUS
    <3> HIDE DEF A, Values
    <3> QED  BY <2>1, <3>1
  <2>3. ASSUME NEW R, R \subseteq A, NEW s \in Seq(R) PROVE s \in Seq(A)
    <3> HIDE DEF A
    <3> QED  BY <2>3
  <2> HIDE DEF A
  <2> QED  BY <1>1, <2>1, <2>2, <2>3
<1>3. Cardinality(names) \in Nat
  BY PartsAssumption, FS_CardinalityType
<1>4. order \in [1 .. Cardinality(names) -> names]
  BY DEF SetToSeqs
<1>5. parts.command \in A /\ NL \in A /\ COLON \in A /\ NUL \in A /\ names \subseteq A
  OBVIOUS
<1>6. order \in Seq(names) /\ Len(order) \in Nat /\ DOMAIN order = 1 .. Len(order)
  BY <1>3, <1>4
<1> HIDE DEF A
<1>7. ASSUME NEW i \in 1 .. Len(order)
      PROVE  /\ order[i] \in A /\ ValueOf(parts, order, i) \in Seq(A)
             /\ Line(i) = <<order[i], COLON>> \o ValueOf(parts, order, i) \o <<NL>>
  <2>1. order[i] \in names
    BY <1>6
  <2> QED  BY <1>2, <1>5, <2>1 DEF ValueOf
<1>8. ASSUME NEW i \in 1 .. Len(order), NEW value, value = ValueOf(parts, order, i), NEW line, line = Line(i)
      PROVE  line \in Seq(A) /\ IsLine(line, order[i], value)
  <2>1. order[i] \in A /\ value \in Seq(A) /\ line = <<order[i], COLON>> \o value \o <<NL>>
    BY <1>7, <1>8
  <2> HIDE DEF Line
  <2> QED  BY <1>5, <2>1, HeaderLineFacts
<1> HIDE DEF Line
<1>9. lines \in [1 .. Len(order) -> Seq(A)] /\ \A i \in 1 .. Len(order) : lines[i] = Line(i)
  BY <1>6, <1>8
<1>10. lines \in Seq(Seq(A)) /\ Len(lines) = Len(order)
  <2> HIDE DEF lines
  <2> QED  BY <1>6, <1>9
<1> HIDE DEF lines
<1>11. PICK all : all = FlattenSeq(lines)
  OBVIOUS
<1>12. all \in Seq(A) /\ \E after : Layout(all, lines, Len(order), after)
  BY <1>10, <1>11, FlattenLayout
<1>13. PICK after : Layout(all, lines, Len(order), after)
  BY <1>12
<1>14. PICK text : text = Render(parts, order)
  OBVIOUS
<1>15. text = <<parts.command, NL>> \o all \o <<NL>> \o parts.body \o <<NUL>>
  BY <1>11, <1>14 DEF Render, lines, Line
<1>16. /\ text \in Seq(A) /\ Len(all) \in Nat /\ Len(parts.body) \in Nat
       /\ Len(text) = 4 + Len(all) + Len(parts.body)
       /\ text[1] = parts.command /\ text[2] = NL /\ text[3 + Len(all)] = NL /\ text[Len(text)] = NUL
       /\ \A p \in 1 .. Len(all) : text[2 + p] = all[p]
       /\ \A j \in 1 .. Len(parts.body) : text[3 + Len(all) + j] = parts.body[j]
  <2>1. PICK command, body : command = parts.command /\ body = parts.body
    OBVIOUS
  <2>2. command \in A /\ body \in Seq(A) /\ text = <<command, NL>> \o all \o <<NL>> \o body \o <<NUL>>
    BY <1>2, <1>5, <1>15, <2>1
  <2>3. text \in Seq(A) /\ IsWhole(text, command, all, body)
    BY <1>5, <1>12, <2>2, TextOfParts
  <2> QED  BY <2>1, <2>3 DEF IsWhole
<1>17. /\ after \in [1 .. Len(order) + 1 -> Nat] /\ after[1] = 0 /\ Len(all) = after[Len(order) + 1]
       /\ \A i \in 1 .. Len(order) :
            /\ after[i + 1] = after[i] + Len(lines[i]) /\ after[i + 1] <= after[Len(order) + 1]
            /\ \A j \in 1 .. Len(lines[i]) : all[after[i] + j] = lines[i][j]
       /\ \A p \in 1 .. Len(all) : \E i \in 1 .. Len(order) : \E j \in 1 .. Len(lines[i]) : p = after[i] + j
  BY <1>13 DEF Layout
<1>18. ASSUME NEW i \in 1 .. Len(order), NEW value, value = ValueOf(parts, order, i)
       PROVE  /\ Len(value) \in Nat /\ Len(lines[i]) = Len(value) + 3
              /\ after[i + 1] = after[i] + Len(value) + 3
              /\ after[i + 1] <= after[Len(order) + 1]
              /\ text[3 + after[i]] = order[i] /\ text[4 + after[i]] = COLON
              /\ \A j \in 1 .. Len(value) : text[4 + after[i] + j] = value[j]
              /\ text[2 + after[i + 1]] = NL
  <2>1. PICK line : line = lines[i]
    OBVIOUS
  <2>2. /\ Len(value) \in Nat /\ Len(line) = Len(value) + 3
        /\ line[1] = order[i] /\ line[2] = COLON /\ line[Len(value) + 3] = NL
        /\ \A j \in 1 .. Len(value) : line[2 + j] = value[j]
    BY <1>8, <1>9, <1>18, <2>1 DEF IsLine
  <2>3. PICK a, v, m : a = after[i] /\ v = Len(value) /\ m = Len(all)
    OBVIOUS
  <2>4. /\ a \in Nat /\ v \in Nat /\ m \in Nat /\ after[i + 1] = a + v + 3 /\ a + v + 3 <= m
    <3>1. i \in 1 .. Len(order) + 1
      BY <1>6
    <3>2. a \in Nat /\ m \in Nat /\ v \in Nat /\ Len(line) = v + 3
      BY <1>16, <1>17, <2>2, <2>3, <3>1
    <3>3. after[i + 1] = a + Len(line) /\ after[i + 1] <= m
      BY <1>17, <2>1, <2>3
    <3> QED  BY <3>2, <3>3
  <2>5. ASSUME NEW j \in 1 .. v + 3 PROVE text[2 + (a + j)] = line[j]
    <3>1. a + j \in 1 .. m
      BY <2>4
    <3>2. j \in 1 .. Len(line)
      BY <2>2, <2>3
    <3>3. all[a + j] = line[j]
      BY <1>17, <2>1, <2>3, <3>2
    <3> QED  BY <1>16, <2>3, <3>1, <3>3
  <2>6. text[3 + a] = order[i] /\ text[4 + a] = COLON /\ text[2 + after[i + 1]] = NL
    <3>1. /\ 1 \in 1 .. v + 3 /\ 2 \in 1 .. v + 3 /\ v + 3 \in 1 .. v + 3
          /\ 2 + (a + 1) = 3 + a /\ 2 + (a + 2) = 4 + a /\ 2 + (a + (v + 3)) = 2 + after[i + 1]
      BY <2>4
    <3> QED  BY <2>2, <2>3, <2>5, <3>1
  <2>7. ASSUME NEW j \in 1 .. v PROVE text[4 + a + j] = value[j]
    <3>1. 2 + j \in 1 .. v + 3 /\ 2 + (a + (2 + j)) = 4 + a + j
      BY <2>4
    <3> QED  BY <2>2, <2>3, <2>5, <3>1
  <2> QED  BY <1>17, <2>1, <2>2, <2>3, <2>4, <2>6, <2>7
<1>19. ASSUME NEW p \in 1 .. after[Len(order) + 1]
       PROVE  \E i \in 1 .. Len(order) : \E j \in 1 .. Len(ValueOf(parts, order, i)) + 3 : p = after[i] + j
  <2>1. PICK i \in 1 .. Len(order) : \E j \in 1 .. Len(lines[i]) : p = after[i] + j
    BY <1>17
  <2>2. Len(lines[i]) = Len(ValueOf(parts, order, i)) + 3
    BY <1>18
  <2> QED  BY <2>1, <2>2
<1>20. IsText(text)
  BY <1>16, TextOfSeq
<1>21. Printed(text, parts, order, after)
  <2> DEFINE end == after[Len(order) + 1]
             OfLine(i) ==
                /\ Len(ValueOf(parts, order, i)) \in Nat
                /\ after[i + 1] = after[i] + Len(ValueOf(parts, order, i)) + 3
                /\ after[i + 1] <= end
                /\ text[3 + after[i]] = order[i] /\ text[4 + after[i]] = COLON
                /\ \A j \in 1 .. Len(ValueOf(parts, order, i)) :
                      text[4 + after[i] + j] = ValueOf(parts, order, i)[j]
                /\ text[2 + after[i + 1]] = NL
  <2>1. Len(all) = end /\ after \in [1 .. Len(order) + 1 -> Nat] /\ after[1] = 0
    BY <1>17
  <2>2. /\ text[1] = parts.command /\ text[2] = NL /\ text[3 + end] = NL
        /\ Len(parts.body) \in Nat /\ Len(text) = 4 + end + Len(parts.body)
        /\ \A j \in 1 .. Len(parts.body) : text[3 + end + j] = parts.body[j]
        /\ text[Len(text)] = NUL
    <3> HIDE DEF end
    <3>1. PICK l, length, body : l = Len(all) /\ length = Len(text) /\ body = parts.body
      OBVIOUS
    <3>2. length = 4 + l + Len(body) /\ Len(body) \in Nat /\ l = end
      BY <1>16, <2>1, <3>1, Zenon
    <3>3. \A j \in 1 .. Len(body) : text[3 + l + j] = body[j]
      BY <1>16, <3>1, Zenon
    <3>4. text[1] = parts.command /\ text[2] = NL /\ text[3 + l] = NL /\ text[length] = NUL
      BY <1>16, <3>1, Zenon
    <3>5. Len(text) = 4 + end + Len(parts.body) /\ Len(parts.body) \in Nat
      BY <3>1, <3>2
    <3>6. ASSUME NEW j \in 1 .. Len(parts.body) PROVE text[3 + end + j] = parts.body[j]
      BY <3>1, <3>2, <3>3
    <3>7. text[1] = parts.command /\ text[2] = NL /\ text[3 + end] = NL /\ text[Len(text)] = NUL
      BY <3>1, <3>2, <3>4
    <3> QED  BY <3>5, <3>6, <3>7
  <2>3. ASSUME NEW i \in 1 .. Len(order) PROVE OfLine(i)
    <3>1. PICK value : value = ValueOf(parts, order, i)
      OBVIOUS
    <3>2. /\ Len(value) \in Nat /\ after[i + 1] = after[i] + Len(value) + 3 /\ after[i + 1] <= end
          /\ text[3 + after[i]] = order[i] /\ text[4 + after[i]] = COLON
          /\ \A j \in 1 .. Len(value) : text[4 + after[i] + j] = value[j]
          /\ text[2 + after[i + 1]] = NL
      BY <1>18, <3>1
    <3> QED  BY <3>1, <3>2
  <2>4. \A p \in 1 .. end :
            \E i \in 1 .. Len(order) : \E j \in 1 .. Len(ValueOf(parts, order, i)) + 3 : p = after[i] + j
    BY <1>19, Zenon
  <2> QED  BY <1>6, <1>20, <2>1, <2>2, <2>3, <2>4, Zenon DEF Printed
<1> QED  BY <1>14, <1>21

LEMMA RenderedIsText ==
    ASSUME NEW parts \in Parts, NEW order \in SetToSeqs(DOMAIN parts.headers)
    PROVE  IsText(Render(parts, order))
BY RenderedIsPrinted DEF Printed

-----------------------------------------------------------------------------
(* What is printed is read again: its lines are the header lines.          *)
CleanOrder(parts, order) ==
    \A i \in 1 .. Len(order) :
        /\ order[i] \in Headers
        /\ ValueOf(parts, order, i) \in Seq(Range(ValueOf(parts, order, i)))
        /\ \A j \in 1 .. Len(ValueOf(parts, order, i)) : ValueOf(parts, order, i)[j] # NL

LEMMA EqualSequences ==
    ASSUME NEW A, NEW s \in Seq(A), NEW B, NEW t \in Seq(B), Len(s) = Len(t),
           \A i \in 1 .. Len(s) : s[i] = t[i]
    PROVE  s = t
<1>1. s = [i \in 1 .. Len(s) |-> s[i]] /\ t = [i \in 1 .. Len(t) |-> t[i]]
  OBVIOUS
<1> QED  BY <1>1

LEMMA LineEndsPrinted ==
    ASSUME NEW parts, NEW order, CleanOrder(parts, order), NEW text, NEW after,
           Printed(text, parts, order, after), NEW p \in 1 .. after[Len(order) + 1], text[2 + p] = NL
    PROVE  \E i \in 1 .. Len(order) : p = after[i + 1] /\ text[1 + p] # NL
<1>1. PICK i \in 1 .. Len(order) : \E j \in 1 .. Len(ValueOf(parts, order, i)) + 3 : p = after[i] + j
  BY DEF Printed
<1>2. PICK value, a, v : value = ValueOf(parts, order, i) /\ a = after[i] /\ v = Len(value)
  OBVIOUS
<1>3. i \in 1 .. Len(order) + 1 /\ Len(order) \in Nat
  BY DEF Printed
<1>4. /\ a \in Nat /\ v \in Nat /\ after[i + 1] = a + v + 3
      /\ text[3 + a] = order[i] /\ text[4 + a] = COLON
      /\ \A j \in 1 .. v : text[4 + a + j] = value[j]
  BY <1>2, <1>3 DEF Printed
<1>5. order[i] \in Headers /\ \A j \in 1 .. v : value[j] # NL
  BY <1>2 DEF CleanOrder
<1>6. PICK j \in 1 .. v + 3 : p = a + j
  BY <1>1, <1>2
<1>7. text[3 + a] # NL /\ text[4 + a] # NL
  BY <1>4, <1>5, TokensDiffer
<1>8. \A k \in 3 .. v + 2 : text[2 + (a + k)] # NL
  <2>1. SUFFICES ASSUME NEW k \in 3 .. v + 2 PROVE text[2 + (a + k)] # NL
    OBVIOUS
  <2>2. a \in Nat /\ v \in Nat
    BY <1>4
  <2>3. PICK m \in 1 .. v : m = k - 2
    BY <2>2
  <2>4. 4 + a + m = 2 + (a + k)
    BY <2>2, <2>3
  <2>5. text[4 + a + m] = value[m] /\ value[m] # NL
    BY <1>4, <1>5
  <2> QED  BY <2>4, <2>5
<1>9. \A k \in 1 .. v + 2 : text[2 + (a + k)] # NL
  <2>1. SUFFICES ASSUME NEW k \in 1 .. v + 2 PROVE text[2 + (a + k)] # NL
    OBVIOUS
  <2>2. a \in Nat /\ v \in Nat
    BY <1>4
  <2>3. (k = 1 /\ 2 + (a + k) = 3 + a) \/ (k = 2 /\ 2 + (a + k) = 4 + a) \/ k \in 3 .. v + 2
    BY <2>2
  <2> QED  BY <1>7, <1>8, <2>3
<1>10. j = v + 3
  <2>1. j \notin 1 .. v + 2
    BY <1>6, <1>9
  <2> QED  BY <1>4, <2>1
<1>11. p = after[i + 1] /\ v + 2 \in 1 .. v + 2 /\ 1 + p = 2 + (a + (v + 2))
  BY <1>4, <1>6, <1>10
<1> QED  BY <1>9, <1>11

LEMMA PrintedSize ==
    ASSUME NEW parts, NEW order, NEW text, NEW after, Printed(text, parts, order, after),
           NEW blank, blank = 3 + after[Len(order) + 1]
    PROVE  /\ Len(order) \in Nat /\ after[Len(order) + 1] \in Nat /\ blank \in 3 .. Len(text)
           /\ Len(text) \in Nat /\ Len(text) = blank + Len(parts.body) + 1 /\ Len(parts.body) \in Nat
           /\ \A i \in 1 .. Len(order) : after[i] \in Nat /\ after[i + 1] \in Nat /\ after[i + 1] >= after[i] + 3
<1>1. Len(order) \in Nat /\ after \in [1 .. Len(order) + 1 -> Nat]
  BY DEF Printed
<1>2. after[Len(order) + 1] \in Nat
  BY <1>1
<1>3. Len(parts.body) \in Nat /\ Len(text) = 4 + after[Len(order) + 1] + Len(parts.body)
  BY DEF Printed
<1>4. ASSUME NEW i \in 1 .. Len(order)
      PROVE  after[i] \in Nat /\ after[i + 1] \in Nat /\ after[i + 1] >= after[i] + 3
  <2>1. i \in 1 .. Len(order) + 1 /\ i + 1 \in 1 .. Len(order) + 1
    BY <1>1
  <2>2. PICK v : v = Len(ValueOf(parts, order, i))
    OBVIOUS
  <2>3. after[i + 1] = after[i] + v + 3 /\ v \in Nat
    BY <2>2 DEF Printed
  <2>4. after[i] \in Nat /\ after[i + 1] \in Nat
    BY <1>1, <2>1
  <2>5. PICK x, y : x = after[i] /\ y = after[i + 1]
    OBVIOUS
  <2>6. x \in Nat /\ y \in Nat /\ y = x + v + 3 /\ v \in Nat
    BY <2>3, <2>4, <2>5
  <2>7. y >= x + 3
    BY <2>6
  <2> QED  BY <2>4, <2>5, <2>7
<1>5. PICK m, l, t : m = after[Len(order) + 1] /\ l = Len(parts.body) /\ t = Len(text)
  OBVIOUS
<1>6. m \in Nat /\ l \in Nat /\ t = 4 + m + l /\ blank = 3 + m
  BY <1>2, <1>3, <1>5
<1>7. t \in Nat /\ blank \in 3 .. t /\ t = blank + l + 1
  BY <1>6
<1> QED  BY <1>1, <1>2, <1>3, <1>4, <1>5, <1>7

LEMMA PrintedBlank ==
    ASSUME NEW parts, NEW order, CleanOrder(parts, order), NEW text, NEW after,
           Printed(text, parts, order, after), NEW blank, blank = 3 + after[Len(order) + 1]
    PROVE  blank \in BlankFrom(text, 3) /\ \A b \in BlankFrom(text, 3) : blank <= b
<1>1. PICK n, m : n = Len(order) /\ m = after[n + 1]
  OBVIOUS
<1>2. n \in Nat /\ m \in Nat /\ blank = 3 + m /\ blank \in 3 .. Len(text) /\ Len(text) \in Nat
  BY <1>1, PrintedSize
<1>3. text[blank] = NL /\ text[2] = NL
  BY DEF Printed
<1>4. text[blank - 1] = NL
  <2>1. CASE n = 0
    <3>1. m = 0
      BY <1>1, <2>1 DEF Printed
    <3> QED  BY <1>2, <1>3, <3>1
  <2>2. CASE n # 0
    <3>1. n \in 1 .. n
      BY <1>2, <2>2
    <3>2. text[2 + m] = NL
      BY <1>1, <3>1 DEF Printed
    <3> QED  BY <1>2, <3>2
  <2> QED  BY <2>1, <2>2
<1>5. ASSUME NEW b \in BlankFrom(text, 3) PROVE ~(b < blank)
  <2> SUFFICES ASSUME b < blank PROVE FALSE
    OBVIOUS
  <2>1. b \in 3 .. Len(text) /\ text[b - 1] = NL /\ text[b] = NL
    BY DEF BlankFrom
  <2>2. b - 2 \in 1 .. m /\ 2 + (b - 2) = b /\ 1 + (b - 2) = b - 1
    BY <1>2, <2>1
  <2>3. b - 2 \in 1 .. after[Len(order) + 1] /\ text[2 + (b - 2)] = NL /\ text[1 + (b - 2)] = NL
    BY <1>1, <2>1, <2>2
  <2>4. PICK p \in 1 .. after[Len(order) + 1] : p = b - 2 /\ text[2 + p] = NL /\ text[1 + p] = NL
    BY <2>3
  <2>5. \E i \in 1 .. Len(order) : p = after[i + 1] /\ text[1 + p] # NL
    BY <2>4, LineEndsPrinted
  <2> QED  BY <2>4, <2>5
<1>6. blank \in BlankFrom(text, 3)
  BY <1>2, <1>3, <1>4 DEF BlankFrom
<1>7. \A b \in BlankFrom(text, 3) : b \in Nat
  BY <1>2 DEF BlankFrom
<1> QED  BY <1>2, <1>5, <1>6, <1>7

StartsAre(text, blank, order, after) ==
    StartsFrom(text, 3, blank) = {3 + after[i] : i \in 1 .. Len(order)}

LEMMA PrintedStarts ==
    ASSUME NEW parts, NEW order, CleanOrder(parts, order), NEW text, NEW after,
           Printed(text, parts, order, after), NEW blank, blank = 3 + after[Len(order) + 1]
    PROVE  StartsAre(text, blank, order, after)
<1>1. PICK n, m : n = Len(order) /\ m = after[n + 1]
  OBVIOUS
<1>2. /\ n \in Nat /\ m \in Nat /\ blank = 3 + m /\ blank \in 3 .. Len(text) /\ Len(text) \in Nat
      /\ \A i \in 1 .. n : after[i] \in Nat /\ after[i + 1] \in Nat /\ after[i + 1] >= after[i] + 3
  BY <1>1, PrintedSize
<1>3. \A i \in 1 .. n : after[i + 1] <= m /\ text[2 + after[i + 1]] = NL
  BY <1>1 DEF Printed
<1>4. after[1] = 0 /\ text[2] = NL
  BY DEF Printed
<1>5. ASSUME NEW i \in 1 .. n PROVE 3 + after[i] \in StartsFrom(text, 3, blank)
  <2>1. 3 + after[i] \in 3 .. blank - 1
    <3>1. PICK x, y : x = after[i] /\ y = after[i + 1]
      OBVIOUS
    <3>2. x \in Nat /\ y \in Nat /\ y >= x + 3
      BY <1>2, <3>1
    <3>3. y <= m /\ m \in Nat /\ blank = 3 + m
      BY <1>2, <1>3, <3>1
    <3>4. 3 + x \in 3 .. blank - 1
      BY <3>2, <3>3
    <3> QED  BY <3>1, <3>4
  <2>2. text[(3 + after[i]) - 1] = NL
    <3>1. (3 + after[i]) - 1 = 2 + after[i]
      BY <1>2
    <3>2. CASE i = 1
      <4>1. 2 + after[i] = 2
        BY <1>4, <3>2
      <4> QED  BY <1>4, <3>1, <4>1
    <3>3. CASE i # 1
      <4>1. i - 1 \in 1 .. n /\ (i - 1) + 1 = i
        BY <1>2, <3>3
      <4> QED  BY <1>3, <3>1, <4>1
    <3> QED  BY <3>2, <3>3
  <2> QED  BY <2>1, <2>2 DEF StartsFrom
<1>6. ASSUME NEW k \in StartsFrom(text, 3, blank) PROVE \E i \in 1 .. n : k = 3 + after[i]
  <2>1. k \in 3 .. blank - 1 /\ text[k - 1] = NL
    BY DEF StartsFrom
  <2>2. CASE k = 3
    <3>1. m # 0
      BY <1>2, <2>1, <2>2
    <3>2. n # 0
      BY <1>1, <1>4, <3>1
    <3>3. 1 \in 1 .. n
      BY <1>2, <3>2
    <3> QED  BY <1>4, <2>2, <3>3
  <2>3. CASE k # 3
    <3>1. k - 3 \in 1 .. m /\ 2 + (k - 3) = k - 1 /\ k - 3 < m
      BY <1>2, <2>1, <2>3
    <3>2. PICK p \in 1 .. after[Len(order) + 1] : p = k - 3 /\ text[2 + p] = NL
      BY <1>1, <2>1, <3>1
    <3>3. PICK i \in 1 .. n : p = after[i + 1]
      BY <1>1, <3>2, LineEndsPrinted
    <3>4. i + 1 \in 1 .. n
      <4>1. i # n
        BY <1>1, <3>1, <3>2, <3>3
      <4> QED  BY <1>2, <4>1
    <3>5. k = 3 + after[i + 1]
      BY <1>2, <2>1, <3>2, <3>3
    <3> QED  BY <3>4, <3>5
  <2> QED  BY <2>2, <2>3
<1> QED  BY <1>1, <1>5, <1>6 DEF StartsAre

LEMMA PrintedLine ==
    ASSUME NEW parts, NEW order, CleanOrder(parts, order), NEW text, NEW after,
           Printed(text, parts, order, after), NEW i \in 1 .. Len(order), NEW start, start = 3 + after[i]
    PROVE  /\ text[start] = order[i]
           /\ Value(text, start) = ValueOf(parts, order, i)
           /\ IsHeaderLine(text, start) <=> ValueOf(parts, order, i) # <<>>
<1>1. PICK value, a, v, m : /\ value = ValueOf(parts, order, i) /\ a = after[i] /\ v = Len(value)
                            /\ m = after[Len(order) + 1]
  OBVIOUS
<1>2. PICK blank : blank = 3 + m
  OBVIOUS
<1>3. /\ a \in Nat /\ m \in Nat /\ Len(text) \in Nat /\ blank \in 3 .. Len(text) /\ Len(order) \in Nat
  BY <1>1, <1>2, PrintedSize
<1>4. /\ v \in Nat /\ after[i + 1] = a + v + 3 /\ after[i + 1] <= m
      /\ text[3 + a] = order[i] /\ text[4 + a] = COLON /\ text[2 + after[i + 1]] = NL
      /\ \A j \in 1 .. v : text[4 + a + j] = value[j]
  BY <1>1 DEF Printed
<1>5. order[i] \in Headers /\ value \in Seq(Range(value)) /\ \A j \in 1 .. v : value[j] # NL
  BY <1>1 DEF CleanOrder
<1>6. PICK e : e = LineEnd(text, start)
  OBVIOUS
<1>7. IsText(text)
  BY DEF Printed
<1>8. start = 3 + a /\ start \in Nat \ {0} /\ start + 1 = 4 + a
  <2>1. start = 3 + a /\ a \in Nat
    BY <1>1, <1>3
  <2>2. \A x \in Nat : 3 + x \in Nat \ {0} /\ (3 + x) + 1 = 4 + x
    OBVIOUS
  <2> QED  BY <2>1, <2>2
<1>9. 5 + a + v \in start .. Len(text) /\ text[5 + a + v] = NL
  <2>1. 5 + a + v = 2 + after[i + 1]
    BY <1>3, <1>4
  <2> QED  BY <1>2, <1>3, <1>4, <1>8, <2>1
<1>10. e = 5 + a + v
  <2>1. HasEnd(text, start)
    BY <1>9 DEF HasEnd
  <2>2. e \in start .. Len(text) /\ text[e] = NL /\ \A j \in start .. e - 1 : text[j] # NL
    BY <1>6, <1>7, <1>8, <2>1, LineEndFacts
  <2>3. ~(5 + a + v \in start .. e - 1)
    BY <1>9, <2>2
  <2>4. ASSUME NEW k \in 3 + a .. 4 + a + v PROVE text[k] # NL
    <3>1. k = 3 + a \/ k = 4 + a \/ (k - (4 + a) \in 1 .. v /\ 4 + a + (k - (4 + a)) = k)
      BY <1>3, <1>4
    <3> QED  BY <1>4, <1>5, <3>1, TokensDiffer
  <2>5. ~(e \in 3 + a .. 4 + a + v)
    BY <2>2, <2>4
  <2> QED  BY <1>3, <1>4, <1>8, <1>9, <2>2, <2>3, <2>5
<1>11. Value(text, start) = value
  <2>1. PICK u : u = SubSeq(text, 5 + a, 4 + a + v)
    OBVIOUS
  <2>9. a \in Nat /\ v \in Nat /\ start = 3 + a /\ e = 5 + a + v
    BY <1>3, <1>4, <1>8, <1>10
  <2>2. start + 2 = 5 + a /\ e - 1 = 4 + a + v
    BY <2>9
  <2>3. u = Value(text, start)
    BY <1>6, <2>1, <2>2 DEF Value
  <2>4. 5 + a \in Nat \ {0} /\ 4 + a + v \in Nat /\ 4 + a + v <= Len(text)
    BY <1>3, <1>4, <1>9
  <2>5. IsPart(u, text, 5 + a, 4 + a + v)
    BY <1>7, <2>1, <2>4, PartFacts
  <2>6. u \in Seq(Range(text)) /\ Len(u) = v /\ \A j \in 1 .. v : u[j] = text[4 + a + j]
    <3>1. v = IF 5 + a <= 4 + a + v THEN (4 + a + v) - (5 + a) + 1 ELSE 0
      BY <2>9
    <3>2. \A j \in 1 .. v : 5 + a + j - 1 = 4 + a + j
      BY <2>9
    <3> QED  BY <2>5, <3>1, <3>2 DEF IsPart
  <2>7. Len(u) = Len(value) /\ \A j \in 1 .. Len(u) : u[j] = value[j]
    BY <1>1, <1>4, <2>6
  <2>8. u = value
    BY <1>5, <2>6, <2>7, EqualSequences
  <2> QED  BY <2>3, <2>8
<1>12. IsHeaderLine(text, start) <=> value # <<>>
  <2>1. e > start + 2 <=> v > 0
    BY <1>3, <1>4, <1>8, <1>10
  <2>2. value # <<>> <=> v > 0
    BY <1>1, <1>4, <1>5
  <2> QED  BY <1>4, <1>5, <1>6, <1>8, <2>1, <2>2 DEF IsHeaderLine
<1> QED  BY <1>1, <1>4, <1>8, <1>11, <1>12

(* Each header is written once.                                            *)
OrdersAll(order, D) ==
    /\ \A i \in 1 .. Len(order) : order[i] \in D
    /\ \A i, j \in 1 .. Len(order) : order[i] = order[j] => i = j
    /\ \A h \in D : \E i \in 1 .. Len(order) : order[i] = h

LEMMA OrderFacts ==
    ASSUME NEW D, IsFiniteSet(D), NEW order \in SetToSeqs(D)
    PROVE  OrdersAll(order, D)
<1>1. PICK n : n = Cardinality(D)
  OBVIOUS
<1>2. n \in Nat
  BY <1>1, FS_CardinalityType
<1>3. /\ order \in [1 .. n -> D]
      /\ \A i, j \in 1 .. n : i # j => order[i] # order[j]
  BY <1>1 DEF SetToSeqs
<1>4. order \in Injection(1 .. n, D)
  <2>1. IsInjective(order)
    BY <1>3 DEF IsInjective
  <2> QED  BY <1>3, <2>1 DEF Injection
<1>5. Cardinality(1 .. n) = n
  BY <1>2, FS_Interval
<1>6. order \in Surjection(1 .. n, D)
  BY <1>1, <1>4, <1>5, FS_Injection
<1>7. \A h \in D : \E i \in 1 .. n : order[i] = h
  BY <1>6 DEF Surjection
<1>8. Len(order) = n
  BY <1>2, <1>3
<1> QED  BY <1>3, <1>7, <1>8 DEF OrdersAll

LEMMA CleanOrders ==
    ASSUME NEW parts \in Parts, Clean(parts), NEW order, OrdersAll(order, DOMAIN parts.headers)
    PROVE  CleanOrder(parts, order)
<1>1. SUFFICES ASSUME NEW i \in 1 .. Len(order), NEW value, value = ValueOf(parts, order, i)
               PROVE  /\ order[i] \in Headers
                      /\ value \in Seq(Range(value))
                      /\ \A j \in 1 .. Len(value) : value[j] # NL
  BY DEF CleanOrder
<1>2. PICK h \in DOMAIN parts.headers : h = order[i]
  BY DEF OrdersAll
<1>3. value = parts.headers[h]
  BY <1>1, <1>2 DEF ValueOf
<1>4. IsText(value) /\ h \in Headers
  BY <1>3, PartsAssumption
<1>5. NL \notin Range(value)
  BY <1>3 DEF Clean
<1>6. \A j \in 1 .. Len(value) : value[j] \in Range(value)
  BY <1>4, TextFacts
<1> QED  BY <1>2, <1>4, <1>5, <1>6 DEF IsText

LEMMA PrintedHeaders ==
    ASSUME NEW parts, NEW order, CleanOrder(parts, order), OrdersAll(order, DOMAIN parts.headers),
           parts.headers = [h \in DOMAIN parts.headers |-> parts.headers[h]],
           NEW text, NEW after, Printed(text, parts, order, after), NEW blank, blank = 3 + after[Len(order) + 1]
    PROVE  HeadersFrom(text, 3, blank) = parts.headers
<1>1. PICK S, headers, n : S = StartsFrom(text, 3, blank) /\ headers = parts.headers /\ n = Len(order)
  OBVIOUS
<1>2. S = {3 + after[i] : i \in 1 .. n}
  <2>1. StartsAre(text, blank, order, after)
    BY PrintedStarts
  <2> QED  BY <1>1, <2>1 DEF StartsAre
<1>3. \A i \in 1 .. n : text[3 + after[i]] = order[i] /\ Value(text, 3 + after[i]) = headers[order[i]]
  BY <1>1, PrintedLine DEF ValueOf
<1>4. \A i \in 1 .. n : 3 + after[i] \in Nat
  BY <1>1, PrintedSize
<1>5. {text[k] : k \in S} = DOMAIN headers
  BY <1>1, <1>2, <1>3 DEF OrdersAll
<1>6. ASSUME NEW h \in DOMAIN headers
      PROVE  Value(text, Min({k \in S : text[k] = h})) = headers[h]
  <2>1. PICK i \in 1 .. n : order[i] = h
    BY <1>1 DEF OrdersAll
  <2>2. PICK start : start = 3 + after[i]
    OBVIOUS
  <2>3. {k \in S : text[k] = h} = {start}
    BY <1>1, <1>2, <1>3, <2>1, <2>2 DEF OrdersAll
  <2>4. Min({start}) = start
    <3>1. {start} \in SUBSET Nat /\ start <= start
      BY <1>4, <2>2
    <3> QED  BY <3>1, MinIs
  <2> QED  BY <1>3, <2>1, <2>2, <2>3, <2>4
<1>7. HeadersFrom(text, 3, blank) =
        [h \in {text[k] : k \in S} |-> Value(text, Min({k \in S : text[k] = h}))]
  BY <1>1 DEF HeadersFrom
<1>8. HeadersFrom(text, 3, blank) = [h \in DOMAIN headers |-> headers[h]]
  BY <1>5, <1>6, <1>7
<1> QED  BY <1>1, <1>8

(* A body before the last null octet of the text is read completely, if at *)
(* all.                                                                    *)
Delimits(headers, body) ==
    IF "content-length" \in DOMAIN headers
    THEN headers["content-length"] # <<>> /\ Length(headers) = Len(body)
    ELSE NUL \notin Range(body)

BodyComesBack(b, headers, body) ==
    /\ b.ec = "kOk" => b.body = body
    /\ Delimits(headers, body) => b.ec = "kOk"

LEMMA PrintedBody ==
    ASSUME NEW text, IsText(text), NEW body, IsText(body), NEW blank \in 3 .. Len(text),
           Len(text) = blank + Len(body) + 1, text[Len(text)] = NUL,
           \A j \in 1 .. Len(body) : text[blank + j] = body[j],
           NEW headers, "content-length" \in DOMAIN headers => IsText(headers["content-length"]),
           NEW b, b = Body(text, blank + 1, headers)
    PROVE  BodyComesBack(b, headers, body)
<1> DEFINE n == Len(text)
           m == Len(body)
           hasLength == "content-length" \in DOMAIN headers
           length == StoI(headers["content-length"], 0)
           end == IF hasLength THEN blank + 1 + length.result ELSE Find(text, NUL, blank + 1)
           noNumber == hasLength /\ ~length.ok
           tooLong == hasLength /\ length.result > n - (blank + 1) + 1
           missing == end \in {npos, n + 1} \/ text[end] # NUL
           junk == \E i \in end + 1 .. n : text[i] # NL
<1>1. n \in Nat /\ m \in Nat /\ blank \in Nat /\ blank + 1 \in Nat \ {0} /\ n = blank + m + 1
  BY TextFacts
<1>2. b = IF noNumber THEN Fails("kParsingInvalidContentLength")
          ELSE IF tooLong THEN Fails("kParsingContentLengthExceedsFrameLength")
          ELSE IF missing THEN Fails("kParsingMissingNullInBody")
          ELSE IF junk THEN Fails("kParsingJunkAfterBody")
          ELSE [ec |-> "kOk", body |-> SubSeq(text, blank + 1, end - 1)]
  BY DEF Body
<1>3. hasLength => length.result \in Nat
  BY NumeralAssumption DEF StoI
<1>4. \/ Find(text, NUL, blank + 1) = npos
      \/ Find(text, NUL, blank + 1) \in blank + 1 .. n
  BY <1>1, FindFacts
<1>5. text[n] = NUL /\ NUL # NL
  BY DEF NUL, NL
<1>6. SubSeq(text, blank + 1, n - 1) = body
  <2>1. PICK u : u = SubSeq(text, blank + 1, n - 1)
    OBVIOUS
  <2>2. n - 1 \in Nat /\ n - 1 <= n /\ n - 1 = blank + m
    BY <1>1
  <2>3. IsPart(u, text, blank + 1, n - 1)
    BY <1>1, <2>1, <2>2, PartFacts
  <2>4. u \in Seq(Range(text)) /\ Len(u) = m /\ \A k \in 1 .. m : u[k] = text[blank + 1 + k - 1]
    BY <1>1, <2>2, <2>3 DEF IsPart
  <2>5. \A k \in 1 .. m : u[k] = body[k]
    <3>1. \A k \in 1 .. m : blank + 1 + k - 1 = blank + k
      BY <1>1
    <3> QED  BY <2>4, <3>1
  <2> QED  BY <2>1, <2>4, <2>5, EqualSequences DEF IsText
<1> HIDE DEF n, m, hasLength, length, noNumber, tooLong, missing, junk
<1>7. ASSUME b.ec = "kOk" PROVE b.body = body
  <2> HIDE DEF end
  <2>1. ~tooLong /\ ~missing /\ ~junk /\ b.body = SubSeq(text, blank + 1, end - 1)
    BY <1>2, <1>7 DEF Fails
  <2>2. end \in blank + 1 .. n + 1
    <3>1. CASE hasLength
      <4>1. PICK r : r = length.result
        OBVIOUS
      <4>2. r \in Nat /\ end = blank + 1 + r /\ ~(r > n - (blank + 1) + 1)
        BY <1>3, <2>1, <3>1, <4>1 DEF end, tooLong
      <4> QED  BY <1>1, <4>2
    <3>2. CASE ~hasLength
      BY <1>1, <1>4, <2>1, <3>2 DEF end, missing
    <3> QED  BY <3>1, <3>2
  <2>3. ~(n \in end + 1 .. n)
    BY <1>5, <2>1 DEF junk
  <2>4. end = n
    BY <1>1, <2>1, <2>2, <2>3 DEF missing
  <2>5. SubSeq(text, blank + 1, end - 1) = body
    BY <1>6, <2>4
  <2> QED  BY <2>1, <2>5
<1>8. ASSUME Delimits(headers, body) PROVE b.ec = "kOk"
  <2>1. end = n /\ (hasLength => length.ok /\ ~(length.result > n - (blank + 1) + 1))
    <3>1. CASE hasLength
      <4>1. PICK value, first : value = headers["content-length"] /\ first = Head(value)
        OBVIOUS
      <4>2. IsText(value) /\ value # <<>> /\ Length(headers) = m
        BY <1>8, <3>1, <4>1 DEF Delimits, hasLength, m
      <4>3. first = value[1]
        BY <4>1, <4>2 DEF IsText
      <4>4. first \in DOMAIN Numeral /\ Numeral[first] = m
        <5>1. Length(headers) = IF first \in DOMAIN Numeral THEN Numeral[first] ELSE Unspecified
          BY <4>1, <4>3 DEF Length
        <5> QED  BY <1>1, <4>2, <5>1, NumeralAssumption
      <4>5. length = [ok |-> TRUE, result |-> m]
        BY <1>1, <4>1, <4>4, NumeralAssumption DEF StoI, length
      <4>6. length.ok /\ length.result = m
        BY <4>5
      <4>7. end = blank + 1 + m
        BY <3>1, <4>6
      <4> HIDE DEF end
      <4> QED  BY <1>1, <4>6, <4>7
    <3>2. CASE ~hasLength
      <4>1. PICK p : p = Find(text, NUL, blank + 1)
        OBVIOUS
      <4>2. \/ p = npos /\ \A i \in blank + 1 .. n : text[i] # NUL
            \/ p \in blank + 1 .. n /\ text[p] = NUL
        BY <1>1, <4>1, FindFacts DEF n
      <4>3. n \in blank + 1 .. n
        BY <1>1
      <4>4. p \in blank + 1 .. n /\ text[p] = NUL
        BY <1>5, <4>2, <4>3
      <4>5. ASSUME p # n PROVE FALSE
        <5>1. PICK j : j = p - blank
          OBVIOUS
        <5>2. j \in 1 .. m /\ blank + j = p
          BY <1>1, <4>4, <4>5, <5>1
        <5>3. body[j] = NUL
          BY <4>4, <5>2 DEF m
        <5>4. body[j] \in Range(body)
          BY <5>2, TextFacts DEF m
        <5> QED  BY <1>8, <3>2, <5>3, <5>4 DEF Delimits, hasLength
      <4> QED  BY <3>2, <4>1, <4>5
    <3> QED  BY <3>1, <3>2
  <2> HIDE DEF end
  <2>2. end # npos /\ end # n + 1 /\ text[end] = NUL
    BY <1>1, <1>5, <2>1 DEF npos
  <2>3. \A i : i \notin end + 1 .. n
    BY <1>1, <2>1
  <2>4. b = [ec |-> "kOk", body |-> SubSeq(text, blank + 1, end - 1)]
    <3>1. ~noNumber /\ ~tooLong
      BY <2>1 DEF noNumber, tooLong
    <3>2. ~missing /\ ~junk
      BY <2>2, <2>3 DEF missing, junk
    <3> QED  BY <1>2, <3>1, <3>2
  <2> QED  BY <2>4
<1> QED  BY <1>7, <1>8 DEF BodyComesBack

LEMMA PrintedStartsAreLines ==
    ASSUME NEW parts, NEW order, CleanOrder(parts, order), NEW text, NEW after,
           Printed(text, parts, order, after), NEW blank, blank = 3 + after[Len(order) + 1]
    PROVE  \A k \in StartsFrom(text, 3, blank) :
             \E i \in 1 .. Len(order) : IsHeaderLine(text, k) <=> ValueOf(parts, order, i) # <<>>
<1>1. StartsAre(text, blank, order, after)
  BY PrintedStarts
<1>2. SUFFICES ASSUME NEW k \in StartsFrom(text, 3, blank)
               PROVE  \E i \in 1 .. Len(order) : IsHeaderLine(text, k) <=> ValueOf(parts, order, i) # <<>>
  OBVIOUS
<1>3. PICK i \in 1 .. Len(order) : k = 3 + after[i]
  BY <1>1, <1>2 DEF StartsAre
<1> QED  BY <1>3, PrintedLine

(* A text made from parts is read as these parts, if at all; and it is     *)
(* read if the parts are complete.                                         *)
PartsRead(f, parts) ==
    /\ f.ec = "kOk" => Members(f) = parts
    /\ Complete(parts) => f.ec = "kOk"

LEMMA RenderedIsRead ==
    ASSUME NEW parts \in Parts, Clean(parts), NEW order \in SetToSeqs(DOMAIN parts.headers)
    PROVE  PartsRead(ParseFrame(Render(parts, order)), parts)
<1>1. PICK text, headers, content : /\ text = Render(parts, order)
                                    /\ headers = parts.headers /\ content = parts.body
  OBVIOUS
<1>2. PICK after : Printed(text, parts, order, after)
  BY <1>1, RenderedIsPrinted
<1>3. PICK blank : blank = 3 + after[Len(order) + 1]
  OBVIOUS
<1>4. /\ parts = [command |-> parts.command, headers |-> headers, body |-> content]
      /\ headers = [h \in DOMAIN headers |-> headers[h]]
      /\ parts.command \in Commands /\ IsText(content)
      /\ \A h \in DOMAIN headers : IsText(headers[h])
      /\ IsFiniteSet(DOMAIN headers)
  BY <1>1, PartsAssumption
<1>5. OrdersAll(order, DOMAIN parts.headers) /\ CleanOrder(parts, order)
  <2>1. IsFiniteSet(DOMAIN parts.headers)
    BY <1>1, <1>4
  <2>2. OrdersAll(order, DOMAIN parts.headers)
    BY <2>1, OrderFacts
  <2> QED  BY <2>2, CleanOrders
<1>6. /\ blank \in 3 .. Len(text) /\ Len(text) \in Nat /\ Len(text) = blank + Len(content) + 1
      /\ Len(content) \in Nat
  BY <1>1, <1>2, <1>3, PrintedSize
<1>7. blank \in BlankFrom(text, 3) /\ \A b \in BlankFrom(text, 3) : blank <= b
  BY <1>2, <1>3, <1>5, PrintedBlank
<1>8. HeadersFrom(text, 3, blank) = headers
  BY <1>1, <1>2, <1>3, <1>4, <1>5, PrintedHeaders
<1>9. IsText(text) /\ text[1] = parts.command /\ text[2] = NL /\ text[Len(text)] = NUL
  BY <1>2 DEF Printed
<1>10. \A j \in 1 .. Len(content) : text[blank + j] = content[j]
  BY <1>1, <1>2, <1>3 DEF Printed
<1>11. PICK eol, command, lines : /\ eol = Find(text, NL, 1)
                                  /\ command = ToCommand(SubSeq(text, 1, eol - 1))
                                  /\ lines = HeaderLines(text)[eol + 1]
  OBVIOUS
<1>12. eol = 2 /\ command = parts.command /\ command # "kInvalid"
  <2>1. Len(text) >= 2 /\ text[1] \in Commands /\ text[2] = NL
    BY <1>4, <1>6, <1>9
  <2> QED  BY <1>9, <1>11, <2>1, ReadCommand
<1>13. LinesRead(text, 3, lines)
  <2>1. 3 \in 2 .. Len(text) + 1 /\ text[3 - 1] = NL
    BY <1>6, <1>9
  <2>2. LinesRead(text, 3, HeaderLines(text)[3])
    BY <1>9, <2>1, ReadLines
  <2>3. lines = HeaderLines(text)[3]
    BY <1>11, <1>12
  <2> QED  BY <2>2, <2>3
<1>14. lines.ec = "kOk" => lines.blank = blank /\ lines.headers = headers
  <2> SUFFICES ASSUME lines.ec = "kOk" PROVE lines.blank = blank /\ lines.headers = headers
    OBVIOUS
  <2>1. PICK b : b = lines.blank
    OBVIOUS
  <2>2. /\ b \in BlankFrom(text, 3) /\ b <= blank
        /\ lines.headers = HeadersFrom(text, 3, b)
    BY <1>7, <1>13, <2>1 DEF LinesRead
  <2>3. b \in Nat /\ blank \in Nat /\ blank <= b
    BY <1>6, <1>7, <2>2 DEF BlankFrom
  <2>4. b = blank
    BY <2>2, <2>3
  <2> QED  BY <1>8, <2>1, <2>2, <2>4
<1>15. PICK body : body = Body(text, lines.blank + 1, lines.headers)
  OBVIOUS
<1>16. PICK f : f = ParseFrame(text)
  OBVIOUS
<1>17. f = IF lines.ec # "kOk" THEN lines
           ELSE IF lines.blank > Len(text) THEN Fails("kParsingMissingBlankLineAfterHeaders")
           ELSE IF body.ec # "kOk" THEN body
           ELSE [ec |-> "kOk", command |-> command, headers |-> lines.headers, body |-> body.body]
  <2>1. eol # npos
    BY <1>12 DEF npos
  <2>2. f = IF eol = npos THEN Fails("kParsingMissingEolAfterCommand")
            ELSE IF command = "kInvalid" THEN Fails("kParsingUnrecognizedCommand")
            ELSE IF lines.ec # "kOk" THEN lines
            ELSE IF lines.blank > Len(text) THEN Fails("kParsingMissingBlankLineAfterHeaders")
            ELSE IF body.ec # "kOk" THEN body
            ELSE [ec |-> "kOk", command |-> command, headers |-> lines.headers, body |-> body.body]
    BY <1>11, <1>15, <1>16 DEF ParseFrame
  <2> QED  BY <1>12, <2>1, <2>2
<1>18. ASSUME lines.ec = "kOk"
       PROVE  BodyComesBack(body, headers, content)
  <2>1. body = Body(text, blank + 1, headers)
    BY <1>14, <1>15, <1>18
  <2>2. "content-length" \in DOMAIN headers => IsText(headers["content-length"])
    BY <1>4
  <2> QED  BY <1>4, <1>6, <1>9, <1>10, <2>1, <2>2, PrintedBody
<1>19. lines.ec = "kOk" => ~(lines.blank > Len(text))
  BY <1>6, <1>14
<1>20. ASSUME f.ec = "kOk" PROVE Members(f) = parts
  <2>1. lines.ec = "kOk"
    BY <1>17, <1>20
  <2>2. body.ec = "kOk"
    BY <1>17, <1>19, <1>20, <2>1
  <2>3. f = [ec |-> "kOk", command |-> command, headers |-> lines.headers, body |-> body.body]
    BY <1>17, <1>19, <2>1, <2>2
  <2>4. f.command = parts.command /\ f.headers = headers /\ f.body = content
    BY <1>12, <1>14, <1>18, <2>1, <2>2, <2>3 DEF BodyComesBack
  <2>5. Members(f) = [command |-> parts.command, headers |-> headers, body |-> content]
    BY <2>4 DEF Members
  <2> QED  BY <1>4, <2>5
<1>21. ASSUME Complete(parts) PROVE f.ec = "kOk"
  <2>1. \A h \in DOMAIN headers : headers[h] # <<>>
    BY <1>1, <1>21 DEF Complete
  <2>2. Delimits(headers, content)
    BY <1>1, <1>21, <2>1 DEF Complete, Delimits
  <2>3. \A k \in StartsFrom(text, 3, blank) : IsHeaderLine(text, k)
    <3>1. SUFFICES ASSUME NEW k \in StartsFrom(text, 3, blank) PROVE IsHeaderLine(text, k)
      OBVIOUS
    <3>2. PICK i \in 1 .. Len(order) : IsHeaderLine(text, k) <=> ValueOf(parts, order, i) # <<>>
      BY <1>2, <1>3, <1>5, <3>1, PrintedStartsAreLines
    <3>3. order[i] \in DOMAIN headers
      BY <1>1, <1>5 DEF OrdersAll
    <3>4. ValueOf(parts, order, i) = headers[order[i]]
      BY <1>1 DEF ValueOf
    <3> QED  BY <2>1, <3>2, <3>3, <3>4
  <2>4. lines.ec = "kOk"
    BY <1>7, <1>13, <2>3 DEF LinesRead
  <2>5. body.ec = "kOk"
    BY <1>18, <2>2, <2>4 DEF BodyComesBack
  <2>6. f = [ec |-> "kOk", command |-> command, headers |-> lines.headers, body |-> body.body]
    BY <1>17, <1>19, <2>4, <2>5
  <2> QED  BY <2>6
<1>22. PartsRead(f, parts)
  BY <1>20, <1>21 DEF PartsRead
<1> QED  BY <1>1, <1>16, <1>22

-----------------------------------------------------------------------------
(* The objects.  A frame is right while its views point into its own text. *)
(* A text too long to be kept in the object moves with its memory, so the  *)
(* views of such a frame always do.                                        *)
IsFrame(f) ==
    f = [plain |-> f.plain, command |-> f.command, headers |-> f.headers, body |-> f.body,
         at |-> f.at, parts |-> f.parts]

(* A frame made from parts, or a copy of one, and while its views point    *)
(* into its own text, its members.                                         *)
Rendered(text, parts) ==
    parts \in Parts /\ \E order \in SetToSeqs(DOMAIN parts.headers) : text = Render(parts, order)

AsParsed(f, p) == IF p.ec = "kOk" THEN Members(f) = Members(p) ELSE f.command = "kInvalid"

Fits(o, f) ==
    f.parts # NoParts =>
        /\ Rendered(f.plain, f.parts)
        /\ f.at = o => AsParsed(f, ParseFrame(f.plain))

FrameOk(o, f) ==
    /\ IsFrame(f)
    /\ IsText(f.plain)
    /\ Fits(o, f)
    /\ ~HugeLength(f.plain) /\ Readings(f.plain) # {} =>
        /\ f.at = o => Readings(f.plain) = {Members(f)}
        /\ ~Inline(f.plain) => f.at = o

FramesRead == \A o \in Objects : Exists(o) => FrameOk(o, frame[o])

LEMMA DangleFacts ==
    ASSUME NEW f, IsFrame(f)
    PROVE  /\ IsFrame(Dangle(f)) /\ Dangle(f).at = Unspecified
           /\ Dangle(f).plain = f.plain /\ Dangle(f).parts = f.parts
<1>1. PICK headers, body : /\ headers = [h \in DOMAIN f.headers |-> Unspecified]
                           /\ body = IF f.body = <<>> THEN <<>> ELSE Unspecified
  OBVIOUS
<1>2. PICK d : d = [f EXCEPT !.headers = headers, !.body = body, !.at = Unspecified]
  OBVIOUS
<1>3. d = Dangle(f)
  BY <1>1, <1>2 DEF Dangle
<1>4. d = [plain |-> f.plain, command |-> f.command, headers |-> headers, body |-> body,
           at |-> Unspecified, parts |-> f.parts]
  BY <1>2 DEF IsFrame
<1>5. IsFrame(d) /\ d.plain = f.plain /\ d.parts = f.parts /\ d.at = Unspecified
  BY <1>4 DEF IsFrame
<1> QED  BY <1>3, <1>5

LEMMA DangleOk ==
    ASSUME NEW r \in Objects, NEW f, FrameOk(r, f), NEW o, f.at = o, o # r
    PROVE  FrameOk(r, Dangle(f))
<1>1. PICK d : d = Dangle(f)
  OBVIOUS
<1>2. IsFrame(f)
  BY DEF FrameOk
<1>3. IsFrame(d) /\ d.plain = f.plain /\ d.parts = f.parts /\ d.at = Unspecified
  BY <1>1, <1>2, DangleFacts
<1>4. d.at # r
  BY <1>3, NumeralAssumption
<1>5. Fits(r, d)
  BY <1>3, <1>4 DEF FrameOk, Fits
<1>6. FrameOk(r, d)
  BY <1>3, <1>4, <1>5 DEF FrameOk
<1> QED  BY <1>1, <1>6

LEMMA ParsedOk ==
    ASSUME NEW o \in Objects, NEW text, IsText(text), NEW parts, parts # NoParts => Rendered(text, parts),
           NEW old, IsFrame(old), old.at = o => old.command = "kInvalid"
    PROVE  FrameOk(o, Parsed(o, text, parts, old))
<1>1. PICK f, p : f = ParseFrame(text) /\ p = Parsed(o, text, parts, old)
  OBVIOUS
<1>2. p = IF f.ec = "kOk"
          THEN [[old EXCEPT !.plain = text, !.parts = parts]
                    EXCEPT !.command = f.command, !.headers = f.headers, !.body = f.body, !.at = o]
          ELSE [old EXCEPT !.plain = text, !.parts = parts]
  BY <1>1 DEF Parsed
<1>3. CASE f.ec = "kOk"
  <2>1. p = [plain |-> text, command |-> f.command, headers |-> f.headers, body |-> f.body,
             at |-> o, parts |-> parts]
    BY <1>2, <1>3 DEF IsFrame
  <2>2. IsFrame(p) /\ p.plain = text /\ p.at = o /\ p.parts = parts /\ Members(p) = Members(f)
    BY <2>1 DEF IsFrame, Members
  <2>3. ~HugeLength(text) => Readings(text) = {Members(f)}
    <3>1. "kOk" \notin ParseErrors
      BY DEF ParseErrors, HeaderErrors, BodyErrors
    <3>2. ~HugeLength(text) => FrameRead(text, f)
      BY <1>1, ReadFrame
    <3> QED  BY <1>3, <3>1, <3>2 DEF FrameRead
  <2>4. Fits(o, p)
    BY <1>1, <1>3, <2>2 DEF Fits, AsParsed
  <2>5. FrameOk(o, p)
    BY <2>2, <2>3, <2>4 DEF FrameOk
  <2> QED  BY <1>1, <2>5
<1>4. CASE f.ec # "kOk"
  <2>1. IsFrame(p) /\ p.plain = text /\ p.parts = parts /\ p.at = old.at /\ p.command = old.command
    BY <1>2, <1>4 DEF IsFrame
  <2>2. ~HugeLength(text) => Readings(text) = {}
    <3>1. ~HugeLength(text) => FrameRead(text, f)
      BY <1>1, ReadFrame
    <3> QED  BY <1>4, <3>1 DEF FrameRead
  <2>3. Fits(o, p)
    BY <1>1, <1>4, <2>1 DEF Fits, AsParsed
  <2>4. FrameOk(o, p)
    BY <2>1, <2>2, <2>3 DEF FrameOk
  <2> QED  BY <1>1, <2>4
<1> QED  BY <1>3, <1>4

LEMMA MovedOk ==
    ASSUME NEW o \in Objects, NEW q \in Objects, o # q, FrameOk(q, frame[q])
    PROVE  FrameOk(o, Moved(o, q))
<1>1. PICK f, m : f = frame[q] /\ m = Moved(o, q)
  OBVIOUS
<1>2. FrameOk(q, f) /\ IsFrame(f)
  BY <1>1 DEF FrameOk
<1>3. CASE f.at = o
  <2>1. m = Dangle(f)
    BY <1>1, <1>3 DEF Moved
  <2>2. IsFrame(m) /\ m.plain = f.plain /\ m.parts = f.parts /\ m.at = Unspecified
    BY <1>2, <2>1, DangleFacts
  <2>3. m.at # o
    BY <2>2, NumeralAssumption
  <2>4. Fits(o, m)
    BY <1>2, <2>2, <2>3 DEF FrameOk, Fits
  <2>5. FrameOk(o, m)
    BY <1>2, <1>3, <2>2, <2>3, <2>4 DEF FrameOk
  <2> QED  BY <1>1, <2>5
<1>4. CASE f.at # o
  <2>1. m = [f EXCEPT !.at = IF ~Inline(f.plain) /\ f.at = q THEN o ELSE f.at]
    BY <1>1, <1>4 DEF Moved
  <2>2. /\ IsFrame(m) /\ m.plain = f.plain /\ m.parts = f.parts
        /\ Members(m) = Members(f) /\ m.command = f.command
        /\ m.at = IF ~Inline(f.plain) /\ f.at = q THEN o ELSE f.at
    BY <1>2, <2>1 DEF IsFrame, Members
  <2>3. IsText(m.plain)
    BY <1>2, <2>2 DEF FrameOk
  <2>4. ASSUME ~HugeLength(m.plain), Readings(m.plain) # {}
        PROVE  /\ m.at = o => Readings(m.plain) = {Members(m)}
               /\ ~Inline(m.plain) => m.at = o
    <3>1. /\ f.at = q => Readings(f.plain) = {Members(f)}
          /\ ~Inline(f.plain) => f.at = q
      BY <1>2, <2>2, <2>4 DEF FrameOk
    <3> QED  BY <1>4, <2>2, <3>1
  <2>5. Fits(o, m)
    BY <1>2, <1>4, <2>2 DEF FrameOk, Fits, AsParsed
  <2>6. FrameOk(o, m)
    BY <2>2, <2>3, <2>4, <2>5 DEF FrameOk
  <2> QED  BY <1>1, <2>6
<1> QED  BY <1>3, <1>4

LEMMA MovedFromOk ==
    ASSUME NEW q \in Objects, IsFrame(frame[q])
    PROVE  FrameOk(q, MovedFrom(q))
<1>1. PICK d, m : d = Dangle(frame[q]) /\ m = MovedFrom(q)
  OBVIOUS
<1>2. IsFrame(d)
  BY <1>1, DangleFacts
<1>3. m = [d EXCEPT !.plain = <<>>, !.headers = <<>>, !.parts = NoParts, !.at = q]
  BY <1>1 DEF MovedFrom
<1>4. IsFrame(m) /\ m.plain = <<>> /\ m.parts = NoParts
  BY <1>2, <1>3 DEF IsFrame
<1>5. IsText(<<>>) /\ Readings(<<>>) = {}
  BY DEF IsText, Readings
<1>6. FrameOk(q, m)
  BY <1>4, <1>5 DEF FrameOk, Fits
<1> QED  BY <1>1, <1>6

LEMMA PutOk ==
    ASSUME FramesRead, NEW o \in Objects, NEW f, Put(o, f), f = NoFrame \/ FrameOk(o, f)
    PROVE  FramesRead'
<1>1. SUFFICES ASSUME NEW q \in Objects, frame'[q] # NoFrame PROVE FrameOk(q, frame'[q])
  BY DEF FramesRead, Exists
<1>2. frame'[q] = IF q = o THEN f
                  ELSE IF Exists(q) /\ frame[q].at = o THEN Dangle(frame[q]) ELSE frame[q]
  BY DEF Put
<1>3. CASE q = o
  BY <1>1, <1>2, <1>3
<1>4. CASE q # o /\ Exists(q) /\ frame[q].at = o
  <2>1. FrameOk(q, frame[q])
    BY <1>4 DEF FramesRead
  <2>2. FrameOk(q, Dangle(frame[q]))
    BY <1>4, <2>1, DangleOk
  <2> QED  BY <1>2, <1>4, <2>2
<1>5. CASE q # o /\ ~(Exists(q) /\ frame[q].at = o)
  <2>1. frame'[q] = frame[q]
    BY <1>2, <1>5
  <2>2. Exists(q)
    BY <1>1, <2>1 DEF Exists
  <2> QED  BY <2>1, <2>2 DEF FramesRead
<1> QED  BY <1>3, <1>4, <1>5

LEMMA MoveToOk ==
    ASSUME FramesRead, NEW o \in Objects, NEW q \in Objects, o # q, Exists(q), MoveTo(o, q)
    PROVE  FramesRead'
<1>1. SUFFICES ASSUME NEW r \in Objects, frame'[r] # NoFrame PROVE FrameOk(r, frame'[r])
  BY DEF FramesRead, Exists
<1>2. FrameOk(q, frame[q]) /\ IsFrame(frame[q])
  BY DEF FramesRead, FrameOk
<1>3. CASE r = o
  <2>1. frame'[r] = Moved(o, q)
    BY <1>3 DEF MoveTo
  <2> QED  BY <1>2, <1>3, <2>1, MovedOk
<1>4. CASE r = q
  <2>1. frame'[r] = MovedFrom(q)
    BY <1>4 DEF MoveTo
  <2> QED  BY <1>2, <1>4, <2>1, MovedFromOk
<1>5. CASE r # o /\ r # q
  <2>1. frame'[r] = IF Exists(r) /\ frame[r].at = o THEN Dangle(frame[r]) ELSE frame[r]
    BY <1>5 DEF MoveTo
  <2>2. Exists(r)
    BY <1>1, <2>1 DEF Exists
  <2>3. FrameOk(r, frame[r])
    BY <2>2 DEF FramesRead
  <2>4. frame[r].at = o => FrameOk(r, Dangle(frame[r]))
    BY <1>5, <2>3, DangleOk
  <2> QED  BY <2>1, <2>3, <2>4
<1> QED  BY <1>3, <1>4, <1>5

(* What the constructor says of a text.                                    *)
LEMMA VerdictOfText ==
    ASSUME NEW text, IsText(text), ~HugeLength(text), NEW f, f = ParseFrame(text),
           NEW ec \in IF f.ec = "kOk" THEN ValidateFrame(f) ELSE {f.ec}
    PROVE  /\ ec \in {"kOk", "kValidationMissingHeader"} <=> Readings(text) # {}
           /\ ec = "kOk" <=> \E g \in Readings(text) : Required(g.command) \subseteq DOMAIN g.headers
           /\ ec = "throws" => Last(text) = COLON
<1>1. FrameRead(text, f)
  BY ReadFrame
<1>2. ParseErrors \cap {"kOk", "kValidationMissingHeader"} = {}
  BY DEF ParseErrors, HeaderErrors, BodyErrors
<1>3. CASE f.ec \in ParseErrors /\ Readings(text) = {} /\ (f.ec = "throws" => Last(text) = COLON)
  BY <1>2, <1>3
<1>4. CASE f.ec = "kOk" /\ Readings(text) = {Members(f)} /\ LengthHolds(f)
  <2>1. ec = IF Required(f.command) \subseteq DOMAIN f.headers THEN "kOk" ELSE "kValidationMissingHeader"
    <3>1. PICK length : length = StoI(f.headers["content-length"], Unspecified)
      OBVIOUS
    <3>2. "content-length" \in DOMAIN f.headers =>
            length.ok /\ length.result = Len(f.body) /\ length.result # Unspecified
      BY <1>4, <3>1, NumeralAssumption DEF LengthHolds
    <3>3. ValidateFrame(f) =
            IF ~(Required(f.command) \subseteq DOMAIN f.headers) THEN {"kValidationMissingHeader"} ELSE {"kOk"}
      BY <3>1, <3>2 DEF ValidateFrame
    <3> QED  BY <1>4, <3>3
  <2>2. Members(f).command = f.command /\ Members(f).headers = f.headers
    BY DEF Members
  <2> QED  BY <1>4, <2>1, <2>2
<1> QED  BY <1>1, <1>3, <1>4 DEF FrameRead

-----------------------------------------------------------------------------
(* What every step keeps.                                                  *)
FrameInvariant == FramesRead /\ Verdict

LEMMA FramesStart == Init => FrameInvariant
<1> SUFFICES ASSUME Init PROVE FrameInvariant
  OBVIOUS
<1>1. FramesRead
  BY DEF Init, FramesRead, Exists
<1>2. last.text = <<>> /\ last.ec = "kUndefinedError"
  BY DEF Init
<1>3. Readings(<<>>) = {}
  BY DEF Readings
<1>4. Verdict
  BY <1>2, <1>3 DEF Verdict
<1> QED  BY <1>1, <1>4 DEF FrameInvariant

LEMMA ConstructOk ==
    ASSUME FramesRead, NEW o \in Objects, NEW text, IsText(text),
           NEW parts, parts # NoParts => Rendered(text, parts), Construct(o, text, parts)
    PROVE  FrameInvariant'
<1>1. PICK f : f = ParseFrame(text)
  OBVIOUS
<1>2. PICK ec \in IF f.ec = "kOk" THEN ValidateFrame(f) ELSE {f.ec} : last' = [text |-> text, ec |-> ec]
  BY <1>1 DEF Construct
<1>3. FramesRead'
  <2>1. CASE f.ec = "throws"
    <3>1. UNCHANGED frame
      BY <1>1, <2>1 DEF Construct
    <3> QED  BY <3>1 DEF FramesRead, Exists
  <2>2. CASE f.ec # "throws"
    <3>1. Put(o, Parsed(o, text, parts, Empty(o)))
      BY <1>1, <2>2 DEF Construct
    <3>2. IsFrame(Empty(o)) /\ Empty(o).command = "kInvalid"
      BY DEF IsFrame, Empty
    <3>3. FrameOk(o, Parsed(o, text, parts, Empty(o)))
      BY <3>2, ParsedOk
    <3> QED  BY <3>1, <3>3, PutOk
  <2> QED  BY <2>1, <2>2
<1>4. last'.text = text /\ last'.ec = ec
  BY <1>2
<1>5. ~HugeLength(text) =>
        /\ ec \in {"kOk", "kValidationMissingHeader"} <=> Readings(text) # {}
        /\ ec = "kOk" <=> \E g \in Readings(text) : Required(g.command) \subseteq DOMAIN g.headers
        /\ ec = "throws" => Last(text) = COLON
  BY <1>1, <1>2, VerdictOfText
<1>6. Verdict'
  BY <1>4, <1>5 DEF Verdict
<1> QED  BY <1>3, <1>6 DEF FrameInvariant

LEMMA FramesStep == FrameInvariant /\ [Next]_vars => FrameInvariant'
<1> SUFFICES ASSUME FrameInvariant, [Next]_vars PROVE FrameInvariant'
  OBVIOUS
<1>1. FramesRead /\ Verdict
  BY DEF FrameInvariant
<1>2. UNCHANGED last => Verdict'
  BY <1>1 DEF Verdict
<1>3. \A q \in Objects :
        Exists(q) => /\ IsFrame(frame[q]) /\ IsText(frame[q].plain)
                     /\ frame[q].parts # NoParts => Rendered(frame[q].plain, frame[q].parts)
  BY <1>1 DEF FramesRead, FrameOk, Fits
<1>4. ASSUME NEW o \in Objects, FromText(o) PROVE FrameInvariant'
  <2>1. PICK text \in Texts : Construct(o, text, NoParts)
    BY <1>4 DEF FromText
  <2>2. IsText(text)
    BY TextsAssumption
  <2> QED  BY <1>1, <2>1, <2>2, ConstructOk
<1>5. ASSUME NEW o \in Objects, FromParts(o) PROVE FrameInvariant'
  <2>1. PICK parts \in Parts : \E order \in SetToSeqs(DOMAIN parts.headers) :
            Construct(o, Render(parts, order), parts)
    BY <1>5 DEF FromParts
  <2>2. PICK order \in SetToSeqs(DOMAIN parts.headers) : Construct(o, Render(parts, order), parts)
    BY <2>1
  <2>3. IsText(Render(parts, order)) /\ Rendered(Render(parts, order), parts)
    BY RenderedIsText DEF Rendered
  <2> QED  BY <1>1, <2>2, <2>3, ConstructOk
<1>6. ASSUME NEW o \in Objects, Destroy(o) PROVE FrameInvariant'
  <2>1. Put(o, NoFrame) /\ UNCHANGED last
    BY <1>6 DEF Destroy
  <2>2. FramesRead'
    BY <1>1, <2>1, PutOk
  <2> QED  BY <1>2, <2>1, <2>2 DEF FrameInvariant
<1>7. ASSUME NEW o \in Objects, NEW q \in Objects, CopyConstruct(o, q) PROVE FrameInvariant'
  <2>1. Exists(q) /\ Put(o, Parsed(o, frame[q].plain, frame[q].parts, Empty(o))) /\ UNCHANGED last
    BY <1>7 DEF CopyConstruct
  <2>2. IsFrame(Empty(o)) /\ Empty(o).command = "kInvalid"
    BY DEF IsFrame, Empty
  <2>3. FrameOk(o, Parsed(o, frame[q].plain, frame[q].parts, Empty(o)))
    BY <1>3, <2>1, <2>2, ParsedOk
  <2>4. FramesRead'
    BY <1>1, <2>1, <2>3, PutOk
  <2> QED  BY <1>2, <2>1, <2>4 DEF FrameInvariant
<1>8. ASSUME NEW o \in Objects, NEW q \in Objects, CopyAssign(o, q) PROVE FrameInvariant'
  <2>1. PICK old : old = IF frame[o].at = o THEN Dangle(frame[o]) ELSE frame[o]
    OBVIOUS
  <2>2. Exists(o) /\ Exists(q) /\ Put(o, Parsed(o, frame[q].plain, frame[q].parts, old)) /\ UNCHANGED last
    BY <1>8, <2>1 DEF CopyAssign
  <2>3. IsFrame(old) /\ old.at # o
    BY <1>3, <2>1, <2>2, DangleFacts, NumeralAssumption
  <2>4. FrameOk(o, Parsed(o, frame[q].plain, frame[q].parts, old))
    BY <1>3, <2>2, <2>3, ParsedOk
  <2>5. FramesRead'
    BY <1>1, <2>2, <2>4, PutOk
  <2> QED  BY <1>2, <2>2, <2>5 DEF FrameInvariant
<1>9. ASSUME NEW o \in Objects, NEW q \in Objects, MoveConstruct(o, q) \/ MoveAssign(o, q)
      PROVE  FrameInvariant'
  <2>1. o # q /\ Exists(q) /\ MoveTo(o, q) /\ UNCHANGED last
    BY <1>9 DEF MoveConstruct, MoveAssign
  <2>2. FramesRead'
    BY <1>1, <2>1, MoveToOk
  <2> QED  BY <1>2, <2>1, <2>2 DEF FrameInvariant
<1>10. CASE UNCHANGED vars
  <2>1. UNCHANGED frame /\ UNCHANGED last
    BY <1>10 DEF vars
  <2>2. FramesRead'
    BY <1>1, <2>1 DEF FramesRead, Exists
  <2> QED  BY <1>2, <2>1, <2>2 DEF FrameInvariant
<1> QED  BY <1>4, <1>5, <1>6, <1>7, <1>8, <1>9, <1>10 DEF Next

LEMMA FramesAlways == Spec => []FrameInvariant
BY FramesStart, FramesStep, PTL DEF Spec

(* A frame reads as its text says, after any copies, moves, assignments    *)
(* and destructions in any order, for texts of any length: the members are *)
(* what ParseFrame found, or what a parser-free reading of the text is     *)
(* (stomp-frame.h:203-204).                                                *)
THEOREM FramesReadTheirText == Spec => []ReadsItsText
<1>1. FrameInvariant => ReadsItsText
  <2> SUFFICES ASSUME FrameInvariant, NEW o \in Objects, Exists(o),
                      Inline(frame[o].plain) => Sound(o), ~HugeLength(frame[o].plain),
                      NEW f \in Readings(frame[o].plain)
               PROVE  Members(frame[o]) = f
    BY DEF ReadsItsText
  <2>1. FrameOk(o, frame[o])
    BY DEF FrameInvariant, FramesRead
  <2>2. Sound(o)
    BY <2>1 DEF FrameOk, Sound
  <2>3. Readings(frame[o].plain) = {Members(frame[o])}
    BY <2>1, <2>2 DEF FrameOk, Sound
  <2> QED  BY <2>3
<1> QED  BY <1>1, FramesAlways, PTL

(* The constructor accepts exactly the texts that are frames with the      *)
(* headers their command requires (stomp-frame.h:125-128), for texts of    *)
(* any length; it throws only on one that ends with a colon.               *)
THEOREM ConstructorDecides == Spec => []Verdict
<1>1. FrameInvariant => Verdict
  BY DEF FrameInvariant
<1> QED  BY <1>1, FramesAlways, PTL

(* A frame made from its parts has these parts or is refused, in whatever  *)
(* order the unordered_map yields the headers, and so do its copies, for   *)
(* any number of headers and bodies of any length; it is refused only for  *)
(* an empty value or a body that the text cannot delimit.                  *)
THEOREM PartsAlwaysComeBack == Spec => []PartsComeBack
<1>1. FrameInvariant => PartsComeBack
  <2> SUFFICES ASSUME FrameInvariant, NEW o \in Objects, Exists(o), Sound(o),
                      NEW parts, parts = frame[o].parts, parts # NoParts, Clean(parts)
               PROVE  /\ frame[o].command # "kInvalid" => Members(frame[o]) = parts
                      /\ Complete(parts) => frame[o].command # "kInvalid"
    BY DEF PartsComeBack
  <2>1. PICK f : f = frame[o]
    OBVIOUS
  <2>2. Fits(o, f) /\ f.at = o /\ f.parts = parts
    BY <2>1 DEF FrameInvariant, FramesRead, FrameOk, Sound
  <2>3. PICK order \in SetToSeqs(DOMAIN parts.headers) : f.plain = Render(parts, order)
    BY <2>2 DEF Fits, Rendered
  <2>4. PICK p : p = ParseFrame(f.plain)
    OBVIOUS
  <2>5. parts \in Parts /\ AsParsed(f, p)
    BY <2>2, <2>4 DEF Fits, Rendered
  <2>6. PartsRead(p, parts)
    BY <2>3, <2>4, <2>5, RenderedIsRead
  <2>7. CASE p.ec = "kOk"
    <3>1. Members(f) = parts
      BY <2>5, <2>6, <2>7 DEF AsParsed, PartsRead
    <3>2. parts.command # "kInvalid"
      BY <2>5, PartsAssumption DEF Commands
    <3>3. f.command = parts.command
      BY <3>1 DEF Members
    <3> QED  BY <2>1, <3>1, <3>2, <3>3
  <2>8. CASE p.ec # "kOk"
    BY <2>1, <2>5, <2>6, <2>8 DEF AsParsed, PartsRead
  <2> QED  BY <2>7, <2>8
<1> QED  BY <1>1, FramesAlways, PTL
=============================================================================
