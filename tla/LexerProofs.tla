---------------------------- MODULE LexerProofs ----------------------------
(***************************************************************************)
(* The lexer on every text: NextToken cuts off the longest token, and the  *)
(* next one starts where it ends, so the tokens of a text come to an end.  *)
(***************************************************************************)
EXTENDS Lexer, WellFoundedInduction, TLAPS

LEMMA LeastNat ==
  ASSUME NEW S \in SUBSET Nat, S # {}
  PROVE  \E x \in S : \A y \in S : x <= y
<1>1. PICK x \in S : \A y \in S : ~(<<y, x>> \in OpToRel(<, Nat))
  BY NatLessThanWellFounded, WFMin
<1>2. \A y \in S : ~(y < x)
  BY <1>1 DEF OpToRel
<1> QED
  BY <1>2

(* Until stops at the first rune to stop at, or at the end. *)
LEMMA UntilIs ==
  ASSUME NEW text \in Seq(Runes), NEW from \in 0 .. Len(text), NEW stop,
         NEW e, e = Until(text, from, stop)
  PROVE  /\ e \in from .. Len(text)
         /\ \A i \in from .. e - 1 : text[i + 1] \notin stop
         /\ e < Len(text) => text[e + 1] \in stop
<1> DEFINE S == {i \in from .. Len(text) : i = Len(text) \/ text[i + 1] \in stop}
<1>1. Len(text) \in Nat /\ from \in Nat /\ S \in SUBSET Nat /\ Len(text) \in S
  OBVIOUS
<1>2. PICK x \in S : \A y \in S : x <= y
  BY <1>1, LeastNat
<1>3. e = CHOOSE z \in S : \A y \in S : z <= y
  BY DEF Until, Min
<1>4. e \in S /\ \A y \in S : e <= y
  BY <1>2, <1>3
<1>5. \A i \in from .. e - 1 : i \in from .. Len(text) /\ ~(e <= i)
  BY <1>1, <1>4
<1> QED
  BY <1>1, <1>4, <1>5

(* The same by place: what stops the runes of a kind is any other rune. *)
LEMMA WhileIs ==
  ASSUME NEW text \in Seq(Runes), NEW from \in 0 .. Len(text), NEW kind,
         NEW e, e = Until(text, from, Runes \ kind)
  PROVE  /\ e \in from .. Len(text)
         /\ \A i \in from + 1 .. e : text[i] \in kind
         /\ e < Len(text) => text[e + 1] \notin kind
<1>1. /\ e \in from .. Len(text)
      /\ \A i \in from .. e - 1 : text[i + 1] \notin Runes \ kind
      /\ e < Len(text) => text[e + 1] \in Runes \ kind
  BY UntilIs
<1>2. ASSUME NEW i \in from + 1 .. e PROVE text[i] \in kind
  <2>1. i - 1 \in from .. e - 1 /\ i \in 1 .. Len(text) /\ (i - 1) + 1 = i
    BY <1>1
  <2>2. text[i] \in Runes
    BY <2>1
  <2> QED
    BY <1>1, <2>1, <2>2
<1> QED
  BY <1>1, <1>2

(* The token that ends at place b of a text, by places of the text. *)
TokenAt(text, a, b) ==
  \/ text[a] \in Letters /\ \A i \in a .. b : text[i] \in Letters \cup Numerals
  \/ /\ text[a] \in Numerals /\ \A i \in a .. b : text[i] \in Numerals \cup {"."}
     /\ \A i, j \in a .. b : text[i] = "." /\ text[j] = "." => i = j
  \/ a < b /\ \A i \in a .. b : text[i] = "'" <=> i \in {a, b}
  \/ a = b /\ text[a] \in Single \cup {"<", ">"}
  \/ b = a + 1 /\ text[a] \in BeforeEq /\ text[b] = "="

LEMMA IsTokenAt ==
  ASSUME NEW text \in Seq(Runes), NEW a \in 1 .. Len(text), NEW b \in a .. Len(text)
  PROVE  IsToken(SubSeq(text, a, b)) <=> TokenAt(text, a, b)
<1> DEFINE s == SubSeq(text, a, b)
<1>1. /\ a \in Nat /\ b \in Nat /\ 1 <= a /\ a <= b /\ b <= Len(text)
      /\ Len(s) = b - a + 1 /\ DOMAIN s = 1 .. b - a + 1
      /\ \A i \in 1 .. b - a + 1 : s[i] = text[a + i - 1]
  OBVIOUS
<1>2. s[1] = text[a] /\ (b = a + 1 => s[2] = text[b])
  BY <1>1
<1>3. \A i \in DOMAIN s : a + i - 1 \in a .. b /\ s[i] = text[a + i - 1]
  BY <1>1
<1>4. \A i \in a .. b : i - a + 1 \in DOMAIN s /\ s[i - a + 1] = text[i]
  BY <1>1
<1>5. \A i \in DOMAIN s : i \in {1, Len(s)} <=> a + i - 1 \in {a, b}
  BY <1>1
<1>6. (Len(s) >= 2 <=> a < b) /\ (Len(s) = 1 <=> a = b) /\ (Len(s) = 2 <=> b = a + 1)
  BY <1>1
<1>7. \A i, j \in DOMAIN s : a + i - 1 = a + j - 1 => i = j
  BY <1>1
<1>8. \A i, j \in a .. b : i - a + 1 = j - a + 1 => i = j
  BY <1>1
<1>9. \A i \in a .. b : i - a + 1 \in {1, Len(s)} <=> i \in {a, b}
  BY <1>1
<1> HIDE DEF s
<1>10. (\A i \in DOMAIN s : s[i] \in Letters \cup Numerals)
         <=> \A i \in a .. b : text[i] \in Letters \cup Numerals
  BY <1>3, <1>4
<1>11. (\A i \in DOMAIN s : s[i] \in Numerals \cup {"."})
         <=> \A i \in a .. b : text[i] \in Numerals \cup {"."}
  BY <1>3, <1>4
<1>12. (\A i, j \in DOMAIN s : s[i] = "." /\ s[j] = "." => i = j)
         <=> \A i, j \in a .. b : text[i] = "." /\ text[j] = "." => i = j
  <2>1. ASSUME \A i, j \in DOMAIN s : s[i] = "." /\ s[j] = "." => i = j,
               NEW i \in a .. b, NEW j \in a .. b, text[i] = ".", text[j] = "."
        PROVE  i = j
    BY <1>4, <1>8, <2>1
  <2>2. ASSUME \A i, j \in a .. b : text[i] = "." /\ text[j] = "." => i = j,
               NEW i \in DOMAIN s, NEW j \in DOMAIN s, s[i] = ".", s[j] = "."
        PROVE  i = j
    BY <1>3, <1>7, <2>2
  <2> QED
    BY <2>1, <2>2
<1>13. (\A i \in DOMAIN s : s[i] = "'" <=> i \in {1, Len(s)})
         <=> \A i \in a .. b : text[i] = "'" <=> i \in {a, b}
  <2>1. ASSUME \A i \in DOMAIN s : s[i] = "'" <=> i \in {1, Len(s)}, NEW i \in a .. b
        PROVE  text[i] = "'" <=> i \in {a, b}
    <3>1. PICK k \in DOMAIN s : s[k] = text[i] /\ (k \in {1, Len(s)} <=> i \in {a, b})
      BY <1>4, <1>9
    <3> QED
      BY <2>1, <3>1
  <2>2. ASSUME \A i \in a .. b : text[i] = "'" <=> i \in {a, b}, NEW i \in DOMAIN s
        PROVE  s[i] = "'" <=> i \in {1, Len(s)}
    <3>1. PICK k \in a .. b : s[i] = text[k] /\ (i \in {1, Len(s)} <=> k \in {a, b})
      BY <1>3, <1>5
    <3> QED
      BY <2>2, <3>1
  <2> QED
    BY <2>1, <2>2
<1> QED
  BY <1>2, <1>6, <1>10, <1>11, <1>12, <1>13 DEF IsToken, TokenAt, s
-----------------------------------------------------------------------------
(* The four readers *)

(* A reader that starts at place a has found a token of this type, or an   *)
(* error, that ends at place b.                                            *)
Cut(text, a, type, b) ==
  /\ type # "EOF" /\ (text[a] = "'" => type \in {"String", "Err"}) /\ (type = "String" => text[a] = "'")
  /\ b \in a .. Len(text)
  /\ type = "Err" =>
       \/ \A i \in a .. Len(text) : ~TokenAt(text, a, i)
       \/ /\ text[a] \in Numerals /\ text[b] = "." /\ b - 1 \in a .. Len(text)
          /\ TokenAt(text, a, b - 1) /\ \A i \in a .. Len(text) : TokenAt(text, a, i) => i < b
  /\ type # "Err" => TokenAt(text, a, b) /\ \A i \in a .. Len(text) : TokenAt(text, a, i) => i <= b

LEMMA ReadNumber ==
  ASSUME NEW text \in Seq(Runes), NEW start \in 0 .. Len(text) - 1, text[start + 1] \in Numerals
  PROVE  Cut(text, start + 1, readNumber(text, start)[1], readNumber(text, start)[2])
<1>1. PICK a \in Nat : a = start + 1
  OBVIOUS
<1>2. PICK n \in Nat : n = Len(text)
  OBVIOUS
<1>3. PICK w : w = Until(text, start, Runes \ Numerals)
  OBVIOUS
<1>4. /\ w \in start .. n /\ \A i \in a .. w : text[i] \in Numerals
      /\ w < n => text[w + 1] \notin Numerals
  <2>1. start \in 0 .. Len(text)
    OBVIOUS
  <2>2. /\ w \in start .. Len(text) /\ \A i \in start + 1 .. w : text[i] \in Numerals
        /\ w < Len(text) => text[w + 1] \notin Numerals
    BY <1>3, <2>1, WhileIs, Zenon
  <2> QED
    BY <1>1, <1>2, <2>2
<1>5. w \in a .. n /\ a >= 1 /\ a \in 1 .. n
  BY <1>1, <1>2, <1>4
<1>6. /\ text[a] \in Numerals /\ text[a] # "'" /\ text[a] \notin Letters
      /\ text[a] \notin Single /\ text[a] \notin BeforeEq
  BY <1>1, LexerAssumption DEF Numerals, Single, BeforeEq
<1>7. ASSUME NEW i \in a .. n
      PROVE  TokenAt(text, a, i) <=> /\ \A j \in a .. i : text[j] \in Numerals \cup {"."}
                                     /\ \A j, k \in a .. i : text[j] = "." /\ text[k] = "." => j = k
  <2>1. ~(a < i /\ \A j \in a .. i : text[j] = "'" <=> j \in {a, i})
    <3>1. a \in a .. i
      BY <1>7
    <3> QED
      BY <1>6, <3>1
  <2>2. text[a] \notin Single \cup {"<", ">"}
    BY <1>6 DEF BeforeEq
  <2> QED
    BY <1>6, <2>1, <2>2 DEF TokenAt
<1>8. "." \notin Numerals
  BY DEF Numerals
<1>9. CASE ~At(text, w, ".")
  <2>1. readNumber(text, start) = <<"Integer", w>>
    BY <1>3, <1>9 DEF readNumber
  <2>2. \A j \in a .. w : text[j] \in Numerals /\ text[j] # "."
    BY <1>4, <1>8
  <2>3. TokenAt(text, a, w)
    BY <1>5, <1>7, <2>2
  <2>4. ASSUME NEW i \in a .. n, TokenAt(text, a, i), ~(i <= w) PROVE FALSE
    <3>1. w < n /\ w + 1 \in a .. i
      BY <1>5, <2>4
    <3>2. text[w + 1] \in Numerals \cup {"."}
      BY <1>7, <2>4, <3>1
    <3> QED
      BY <1>2, <1>4, <1>9, <3>1, <3>2 DEF At
  <2> QED
    BY <1>1, <1>2, <1>5, <1>6, <2>1, <2>3, <2>4 DEF Cut
<1>10. CASE At(text, w, ".")
  <2>1. w < n /\ text[w + 1] = "." /\ w + 1 \in 0 .. Len(text) /\ w + 1 \in Nat
    BY <1>2, <1>5, <1>10 DEF At
  <2>2. PICK f, e : f = w + 1 /\ e = Until(text, f, Runes \ Numerals)
    OBVIOUS
  <2>3. /\ e \in w + 1 .. n /\ \A i \in (w + 1) + 1 .. e : text[i] \in Numerals
        /\ e < n => text[e + 1] \notin Numerals
    <3>1. f \in 0 .. Len(text)
      BY <2>1, <2>2
    <3>2. /\ e \in f .. Len(text) /\ \A i \in f + 1 .. e : text[i] \in Numerals
          /\ e < Len(text) => text[e + 1] \notin Numerals
      BY <2>2, <3>1, WhileIs, Zenon
    <3> QED
      BY <1>2, <2>2, <3>2
  <2>4. e \in a .. n /\ w + 1 \in a .. e /\ e \in Nat
    BY <1>5, <2>3
  <2>5. \A j \in a .. e : j \in a .. w \/ j = w + 1 \/ j \in (w + 1) + 1 .. e
    BY <1>5, <2>4
  <2>6. \A j \in a .. e : text[j] \in Numerals \cup {"."} /\ (text[j] = "." => j = w + 1)
    BY <1>4, <1>8, <2>1, <2>3, <2>5
  <2>7. TokenAt(text, a, e)
    BY <1>7, <2>4, <2>6
  <2>8. CASE ~At(text, e, ".")
    <3>1. readNumber(text, start) = <<"Float", e>>
      BY <1>3, <1>10, <2>2, <2>8 DEF readNumber
    <3>2. ASSUME NEW i \in a .. n, TokenAt(text, a, i), ~(i <= e) PROVE FALSE
      <4>1. e < n /\ e + 1 \in a .. i
        BY <2>4, <3>2
      <4>2. text[e + 1] \in Numerals \cup {"."}
        BY <1>7, <3>2, <4>1
      <4> QED
        BY <1>2, <2>3, <2>8, <4>1, <4>2 DEF At
    <3> QED
      BY <1>1, <1>2, <1>6, <2>4, <2>7, <3>1, <3>2 DEF Cut
  <2>9. CASE At(text, e, ".")
    <3>1. readNumber(text, start) = <<"Err", e + 1>>
      BY <1>3, <1>10, <2>2, <2>9 DEF readNumber
    <3>2. e < n /\ text[e + 1] = "." /\ e + 1 \in a .. n /\ (e + 1) - 1 = e
      BY <1>2, <2>4, <2>9 DEF At
    <3>3. ASSUME NEW i \in a .. n, TokenAt(text, a, i), ~(i < e + 1) PROVE FALSE
      <4>1. w + 1 \in a .. i /\ e + 1 \in a .. i /\ w + 1 # e + 1
        BY <2>3, <2>4, <3>2, <3>3
      <4> QED
        BY <1>7, <2>1, <3>2, <3>3, <4>1
    <3> QED
      BY <1>1, <1>2, <1>6, <2>4, <2>7, <3>1, <3>2, <3>3 DEF Cut
  <2> QED
    BY <2>8, <2>9
<1> QED
  BY <1>9, <1>10

LEMMA ReadIdent ==
  ASSUME NEW text \in Seq(Runes), NEW start \in 0 .. Len(text) - 1, text[start + 1] \in Letters
  PROVE  Cut(text, start + 1, readIdent(text, start)[1], readIdent(text, start)[2])
<1>1. PICK a \in Nat : a = start + 1
  OBVIOUS
<1>2. PICK n \in Nat : n = Len(text)
  OBVIOUS
<1>3. PICK w, t, kind : /\ kind = Letters \cup Numerals /\ w = Until(text, start, Runes \ kind)
                        /\ t = readIdent(text, start)[1]
  OBVIOUS
<1>4. /\ w \in start .. n /\ \A i \in a .. w : text[i] \in Letters \cup Numerals
      /\ w < n => text[w + 1] \notin Letters \cup Numerals
  <2>1. start \in 0 .. Len(text) /\ w = Until(text, start, Runes \ kind)
    BY <1>3
  <2>2. /\ w \in start .. Len(text) /\ \A i \in start + 1 .. w : text[i] \in kind
        /\ w < Len(text) => text[w + 1] \notin kind
    BY <2>1, WhileIs, Zenon
  <2> QED
    BY <1>1, <1>2, <1>3, <2>2
<1>5. w \in a .. n /\ a \in 1 .. n
  BY <1>1, <1>2, <1>4
<1>6. /\ text[a] \in Letters /\ text[a] # "'" /\ text[a] \notin Numerals
      /\ text[a] \notin Single /\ text[a] \notin BeforeEq
  BY <1>1, LexerAssumption
<1>7. t \in keywords \cup {"Ident"} /\ readIdent(text, start)[2] = w
  BY <1>3 DEF readIdent
<1>8. t \notin {"EOF", "Err", "String"}
  BY <1>7 DEF keywords
<1>9. ASSUME NEW i \in a .. n
      PROVE  TokenAt(text, a, i) <=> \A j \in a .. i : text[j] \in Letters \cup Numerals
  <2>1. ~(a < i /\ \A j \in a .. i : text[j] = "'" <=> j \in {a, i})
    <3>1. a \in a .. i
      BY <1>9
    <3> QED
      BY <1>6, <3>1
  <2>2. text[a] \notin Single \cup {"<", ">"}
    BY <1>6 DEF BeforeEq
  <2> QED
    BY <1>6, <2>1, <2>2 DEF TokenAt
<1>10. TokenAt(text, a, w)
  BY <1>4, <1>5, <1>9
<1>11. ASSUME NEW i \in a .. n, TokenAt(text, a, i), ~(i <= w) PROVE FALSE
  <2>1. w < n /\ w + 1 \in a .. i
    BY <1>5, <1>11
  <2> QED
    BY <1>4, <1>9, <1>11, <2>1
<1> QED
  BY <1>1, <1>2, <1>3, <1>5, <1>6, <1>7, <1>8, <1>10, <1>11 DEF Cut

LEMMA ReadString ==
  ASSUME NEW text \in Seq(Runes), NEW start \in 0 .. Len(text) - 1, text[start + 1] = "'"
  PROVE  Cut(text, start + 1, readString(text, start)[1], readString(text, start)[2])
<1>1. PICK a \in Nat : a = start + 1
  OBVIOUS
<1>2. PICK n \in Nat : n = Len(text)
  OBVIOUS
<1>3. PICK e : e = Until(text, a, {"'"})
  OBVIOUS
<1>4. /\ e \in a .. n /\ \A i \in a .. e - 1 : text[i + 1] # "'"
      /\ e < n => text[e + 1] = "'"
  <2>1. a \in 0 .. Len(text)
    BY <1>1
  <2>2. /\ e \in a .. Len(text) /\ \A i \in a .. e - 1 : text[i + 1] \notin {"'"}
        /\ e < Len(text) => text[e + 1] \in {"'"}
    BY <1>3, <2>1, UntilIs, Zenon
  <2> QED
    BY <1>2, <2>2
<1>5. ASSUME NEW i \in a + 1 .. e PROVE text[i] # "'"
  <2>1. i - 1 \in a .. e - 1 /\ (i - 1) + 1 = i
    BY <1>4
  <2> QED
    BY <1>4, <2>1
<1>6. /\ text[a] = "'" /\ text[a] \notin Letters /\ text[a] \notin Numerals
      /\ text[a] \notin Single \cup {"<", ">"} /\ text[a] \notin BeforeEq
  BY <1>1, LexerAssumption DEF Numerals, Single, BeforeEq
<1>7. ASSUME NEW i \in a .. n
      PROVE  TokenAt(text, a, i) <=> a < i /\ \A j \in a .. i : text[j] = "'" <=> j \in {a, i}
  BY <1>6 DEF TokenAt
<1>8. CASE e = n
  <2>1. readString(text, start) = <<"Err", n>>
    BY <1>1, <1>2, <1>3, <1>8 DEF readString
  <2>2. ASSUME NEW i \in a .. n, TokenAt(text, a, i) PROVE FALSE
    <3>1. a < i /\ text[i] = "'"
      BY <1>7, <2>2
    <3>2. i \in a + 1 .. e
      BY <1>8, <3>1
    <3> QED
      BY <1>5, <3>1, <3>2
  <2> QED
    BY <1>1, <1>2, <1>4, <1>8, <2>1, <2>2 DEF Cut
<1>9. CASE e # n
  <2>1. readString(text, start) = <<"String", e + 1>>
    BY <1>1, <1>2, <1>3, <1>9 DEF readString
  <2>2. e + 1 \in a .. n /\ a < e + 1 /\ text[e + 1] = "'"
    BY <1>4, <1>9
  <2>3. ASSUME NEW j \in a .. e + 1 PROVE text[j] = "'" <=> j \in {a, e + 1}
    <3>1. j = a \/ j = e + 1 \/ (j \in a + 1 .. e /\ j # a /\ j # e + 1)
      BY <1>4
    <3> QED
      BY <1>5, <1>6, <2>2, <3>1
  <2>4. TokenAt(text, a, e + 1)
    BY <1>7, <2>2, <2>3
  <2>5. ASSUME NEW i \in a .. n, TokenAt(text, a, i), ~(i <= e + 1) PROVE FALSE
    <3>1. e + 1 \in a .. i /\ e + 1 # a /\ e + 1 # i
      BY <2>2, <2>5
    <3> QED
      BY <1>7, <2>2, <2>5, <3>1
  <2> QED
    BY <1>1, <1>2, <1>6, <2>1, <2>2, <2>4, <2>5 DEF Cut
<1> QED
  BY <1>8, <1>9

LEMMA ReadOperator ==
  ASSUME NEW text \in Seq(Runes), NEW start \in 0 .. Len(text) - 1,
         text[start + 1] \notin Numerals \cup Letters \cup {"'"}
  PROVE  Cut(text, start + 1, readOperator(text, start)[1], readOperator(text, start)[2])
<1>1. PICK a \in Nat : a = start + 1
  OBVIOUS
<1>2. PICK n \in Nat : n = Len(text)
  OBVIOUS
<1>3. PICK rune : rune = text[a] /\ rune \notin Numerals /\ rune \notin Letters /\ rune # "'"
  BY <1>1
<1>4. a \in 1 .. n
  BY <1>1, <1>2
<1>5. ASSUME NEW i \in a .. n
      PROVE  TokenAt(text, a, i) <=> \/ a = i /\ rune \in Single \cup {"<", ">"}
                                     \/ i = a + 1 /\ rune \in BeforeEq /\ text[a + 1] = "="
  <2>1. a \in a .. i
    BY <1>4
  <2> QED
    BY <1>3, <2>1 DEF TokenAt
<1>6. At(text, a, "=") <=> a + 1 \in a .. n /\ text[a + 1] = "="
  BY <1>2, <1>4 DEF At
<1>7. Single \cap BeforeEq = {} /\ "!" \notin Single
  BY DEF Single, BeforeEq
<1>8. Single \cap {"EOF", "Err", "String"} = {} /\ BeforeEq \cap {"EOF", "Err", "String"} = {}
  BY DEF Single, BeforeEq
<1>9. CASE rune \in Single
  <2>1. readOperator(text, start)[1] = rune /\ readOperator(text, start)[2] = a
    BY <1>1, <1>3, <1>7, <1>9 DEF readOperator
  <2>2. TokenAt(text, a, a)
    BY <1>4, <1>5, <1>9
  <2>3. \A i \in a .. n : TokenAt(text, a, i) => i <= a
    BY <1>5, <1>7, <1>9
  <2> QED
    BY <1>1, <1>2, <1>3, <1>4, <1>8, <1>9, <2>1, <2>2, <2>3 DEF Cut
<1>10. CASE rune \in BeforeEq /\ At(text, a, "=")
  <2>1. readOperator(text, start)[1] \in {"!=", ">=", "<="} /\ readOperator(text, start)[2] = a + 1
    BY <1>1, <1>3, <1>7, <1>10 DEF readOperator, BeforeEq
  <2>2. a + 1 \in a .. n /\ TokenAt(text, a, a + 1)
    BY <1>4, <1>5, <1>6, <1>10
  <2>3. \A i \in a .. n : TokenAt(text, a, i) => i <= a + 1
    BY <1>5
  <2> QED
    BY <1>1, <1>2, <1>3, <1>4, <2>1, <2>2, <2>3 DEF Cut
<1>11. CASE rune \in BeforeEq \ {"!"} /\ ~At(text, a, "=")
  <2>1. readOperator(text, start)[1] = rune /\ readOperator(text, start)[2] = a
    BY <1>1, <1>3, <1>7, <1>11 DEF readOperator
  <2>2. TokenAt(text, a, a)
    BY <1>4, <1>5, <1>11 DEF BeforeEq
  <2>3. \A i \in a .. n : TokenAt(text, a, i) => i <= a
    <3>1. \A i \in a .. n : i = a + 1 => text[a + 1] # "="
      BY <1>6, <1>11
    <3> QED
      BY <1>5, <3>1
  <2> QED
    BY <1>1, <1>2, <1>3, <1>4, <1>8, <1>11, <2>1, <2>2, <2>3 DEF Cut
<1>12. CASE /\ rune \notin Single /\ ~(rune \in BeforeEq /\ At(text, a, "="))
            /\ ~(rune \in BeforeEq \ {"!"} /\ ~At(text, a, "="))
  <2>1. readOperator(text, start)[1] = "Err" /\ readOperator(text, start)[2] = a
    BY <1>1, <1>3, <1>12 DEF readOperator
  <2>2. rune \notin {"<", ">"}
    BY <1>12 DEF BeforeEq
  <2>3. \A i \in a .. n : ~TokenAt(text, a, i)
    <3>1. \A i \in a .. n : i = a + 1 => ~(rune \in BeforeEq /\ text[a + 1] = "=")
      BY <1>6, <1>12
    <3> QED
      BY <1>5, <1>12, <2>2, <3>1
  <2> QED
    BY <1>1, <1>2, <1>3, <1>4, <2>1, <2>3 DEF Cut
<1> QED
  BY <1>9, <1>10, <1>11, <1>12
-----------------------------------------------------------------------------
(* NextToken *)

(* What a reader found is the longest token, or an error as it should be.  *)
LEMMA CutIsLongest ==
  ASSUME NEW text \in Seq(Runes), NEW from \in 0 .. Len(text), NEW start \in from .. Len(text) - 1,
         \A i \in from + 1 .. start : text[i] \in Whitespace,
         text[start + 1] \notin Whitespace,
         NEW next, Cut(text, start + 1, next.token.Type, next.position),
         next.token.Type # "Err" =>
           next.token.Literal = IF next.token.Type = "String"
                                THEN SubSeq(text, start + 2, next.position - 1)
                                ELSE SubSeq(text, start + 1, next.position)
  PROVE  CutsLongest(text, from, next)
<1> DEFINE ends == {i \in start + 1 .. Len(text) : IsToken(SubSeq(text, start + 1, i))}
<1>1. PICK a, b, type : a = start + 1 /\ b = next.position /\ type = next.token.Type
  OBVIOUS
<1>2. Len(text) \in Nat /\ a \in 1 .. Len(text) /\ start \in from .. Len(text) /\ start < Len(text)
  BY <1>1
<1>3. ends = {i \in a .. Len(text) : TokenAt(text, a, i)}
  BY <1>1, <1>2, IsTokenAt
<1> HIDE DEF ends
<1>4. Cut(text, a, type, b)
  BY <1>1
<1>5. type # "EOF" /\ b \in a .. Len(text)
  BY <1>4 DEF Cut
<1>6. type = "Err" => \/ ends = {}
                      \/ /\ text[a] \in Numerals /\ text[b] = "."
                         /\ b - 1 \in ends /\ \A i \in ends : i < b
  BY <1>3, <1>4 DEF Cut
<1>7. type # "Err" => b \in ends /\ \A i \in ends : i <= b
  BY <1>3, <1>4, <1>5 DEF Cut
<1> QED
  BY <1>1, <1>2, <1>5, <1>6, <1>7, Zenon DEF CutsLongest, ends

(* Where there is a rune left that is no white space, its reader is called. *)
LEMMA NextTokenReads ==
  ASSUME NEW text \in Seq(Runes), NEW from \in 0 .. Len(text), NEW line,
         NEW start, start = Until(text, from, Runes \ Whitespace), start \in 0 .. Len(text) - 1
  PROVE  LET next == NextToken(text, from, line)
         IN /\ Cut(text, start + 1, next.token.Type, next.position)
            /\ next.token.Type # "Err" =>
                 next.token.Literal = IF next.token.Type = "String"
                                      THEN SubSeq(text, start + 2, next.position - 1)
                                      ELSE SubSeq(text, start + 1, next.position)
<1> DEFINE rune == text[start + 1]
           read == CASE rune \in Numerals -> readNumber(text, start)
                     [] rune \in Letters -> readIdent(text, start)
                     [] rune = "'" -> readString(text, start)
                     [] OTHER -> readOperator(text, start)
           inner == CASE rune # "'" -> SubSeq(text, start + 1, read[2])
                      [] rune = "'" /\ read[1] = "String" -> SubSeq(text, start + 2, read[2] - 1)
                      [] rune = "'" /\ read[1] = "Err" -> SubSeq(text, start + 2, read[2])
           next == NextToken(text, from, line)
<1>1. start # Len(text)
  OBVIOUS
<1>2. /\ next.token.Type = read[1] /\ next.token.Literal = inner /\ next.position = read[2]
  BY <1>1 DEF NextToken, Token
<1>3. Cut(text, start + 1, read[1], read[2])
  <2>1. CASE rune \in Numerals
    <3>1. rune \notin Letters /\ rune # "'"
      BY <2>1, LexerAssumption DEF Numerals
    <3>2. read = readNumber(text, start)
      BY <2>1, <3>1
    <3> QED
      BY <2>1, <3>2, ReadNumber
  <2>2. CASE rune \in Letters
    <3>1. rune \notin Numerals /\ rune # "'"
      BY <2>2, LexerAssumption
    <3>2. read = readIdent(text, start)
      BY <2>2, <3>1
    <3> QED
      BY <2>2, <3>2, ReadIdent
  <2>3. CASE rune = "'"
    <3>1. rune \notin Numerals /\ rune \notin Letters
      BY <2>3, LexerAssumption DEF Numerals
    <3>2. read = readString(text, start)
      BY <2>3, <3>1
    <3> QED
      BY <2>3, <3>2, ReadString
  <2>4. CASE rune \notin Numerals \cup Letters \cup {"'"}
    <3>1. read = readOperator(text, start)
      BY <2>4
    <3> QED
      BY <2>4, <3>1, ReadOperator
  <2> QED
    BY <2>1, <2>2, <2>3, <2>4
<1>4. /\ rune = "'" => read[1] \in {"String", "Err"}
      /\ read[1] = "String" => rune = "'"
  BY <1>3 DEF Cut
<1> HIDE DEF read
<1>5. read[1] # "Err" => inner = IF read[1] = "String" THEN SubSeq(text, start + 2, read[2] - 1)
                                 ELSE SubSeq(text, start + 1, read[2])
  BY <1>4
<1> HIDE DEF inner, next
<1>6. /\ Cut(text, start + 1, next.token.Type, next.position)
      /\ next.token.Type # "Err" =>
           next.token.Literal = IF next.token.Type = "String"
                                THEN SubSeq(text, start + 2, next.position - 1)
                                ELSE SubSeq(text, start + 1, next.position)
  BY <1>2, <1>3, <1>5
<1> QED
  BY <1>6 DEF next

(* From every place of every text, NextToken skips white space and cuts    *)
(* off the longest token that starts there, without the quotes of a        *)
(* string; it reports an error only where no token starts or where a       *)
(* second point follows a number, and the end only at the end.             *)
THEOREM NextTokenCutsLongest ==
  ASSUME NEW text \in Seq(Runes), NEW from \in 0 .. Len(text), NEW line
  PROVE  CutsLongest(text, from, NextToken(text, from, line))
<1>1. PICK start, next : /\ start = Until(text, from, Runes \ Whitespace)
                         /\ next = NextToken(text, from, line)
  OBVIOUS
<1>2. /\ start \in from .. Len(text) /\ \A i \in from + 1 .. start : text[i] \in Whitespace
      /\ start < Len(text) => text[start + 1] \notin Whitespace
  BY <1>1, WhileIs, Zenon
<1>3. CASE start = Len(text)
  <2>1. next.token.Type = "EOF" /\ next.position = start
    BY <1>1, <1>3 DEF NextToken, Token
  <2>2. CutsLongest(text, from, next)
    BY <1>2, <1>3, <2>1 DEF CutsLongest
  <2> QED
    BY <1>1, <2>2
<1>4. CASE start # Len(text)
  <2>1. start \in from .. Len(text) - 1 /\ start \in 0 .. Len(text) - 1 /\ start < Len(text)
    BY <1>2, <1>4
  <2>2. /\ Cut(text, start + 1, next.token.Type, next.position)
        /\ next.token.Type # "Err" =>
             next.token.Literal = IF next.token.Type = "String"
                                  THEN SubSeq(text, start + 2, next.position - 1)
                                  ELSE SubSeq(text, start + 1, next.position)
    BY <1>1, <2>1, NextTokenReads
  <2>3. CutsLongest(text, from, next)
    BY <1>2, <2>1, <2>2, CutIsLongest
  <2> QED
    BY <1>1, <2>3
<1> QED
  BY <1>3, <1>4

(* The lexer comes to an end: a call that does not report the end of the   *)
(* text has read at least one more rune of it, and never one beyond it.    *)
THEOREM NextTokenAdvances ==
  ASSUME NEW text \in Seq(Runes), NEW from \in 0 .. Len(text), NEW line
  PROVE  LET next == NextToken(text, from, line)
         IN /\ next.position \in from .. Len(text)
            /\ next.token.Type # "EOF" => from < next.position
<1>1. PICK next : next = NextToken(text, from, line)
  OBVIOUS
<1>2. CutsLongest(text, from, next)
  BY <1>1, NextTokenCutsLongest
<1>3. PICK start \in from .. Len(text) :
        IF next.token.Type = "EOF" THEN start = Len(text) /\ next.position = start
        ELSE next.position \in start + 1 .. Len(text)
  BY <1>2 DEF CutsLongest
<1>4. next.position \in from .. Len(text) /\ (next.token.Type # "EOF" => from < next.position)
  BY <1>3
<1> QED
  BY <1>1, <1>4
=============================================================================
