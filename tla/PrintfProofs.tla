---------------------------- MODULE PrintfProofs ----------------------------
(***************************************************************************)
(* Proofs about c_test/printf.c, for words, buffers and formats of any      *)
(* size: what is stored where, how wide a field is, and that a number       *)
(* printed is the number passed.                                            *)
(***************************************************************************)
EXTENDS Printf, SequenceTheorems, NatTheorems, TLAPS

AtLeast0(n) == IF n < 0 THEN 0 ELSE n

----------------------------------------------------------------------------
(* What the operators of FormatOps return: sequences of characters, and how *)
(* long they are.                                                           *)

LEMMA FillSeq ==
  ASSUME NEW S, NEW c \in S, NEW n \in Int
  PROVE  Fill(c, n) \in Seq(S) /\ Len(Fill(c, n)) = AtLeast0(n)
<1>1. 1..n = 1..AtLeast0(n) /\ AtLeast0(n) \in Nat
  BY DEF AtLeast0
<1>2. Fill(c, n) \in [1..AtLeast0(n) -> S]
  BY <1>1 DEF Fill
<1>3. QED
  BY <1>1, <1>2 DEF AtLeast0

LEMMA ReversedSeq ==
  ASSUME NEW S, NEW s \in Seq(S)
  PROVE  Reversed(s) \in Seq(S) /\ Len(Reversed(s)) = Len(s)
<1>1. Reversed(s) \in [1..Len(s) -> S]
  BY DEF Reversed
<1>2. QED
  BY <1>1

LEMMA DigitCountIs ==
  ASSUME NEW v, NEW base
  PROVE  LET n == DigitCount(v, base)
         IN  n \in 1..NtoaSize /\ (Quotients(v, base)[n] = 0 \/ n = NtoaSize)
<1> DEFINE q == Quotients(v, base)
           ends == {n \in 1..NtoaSize : q[n] = 0 \/ n = NtoaSize}
<1>1. NtoaSize \in ends /\ ends \in SUBSET Nat
  BY FormatOpsAssumption
<1>2. DigitCount(v, base) = CHOOSE n \in ends : \A m \in ends : n <= m
  BY DEF DigitCount
<1> HIDE DEF ends
<1>3. \E n \in ends : \A m \in ends : n <= m
  BY <1>1, LeastMember
<1>4. DigitCount(v, base) \in ends
  BY <1>2, <1>3
<1> QED
  BY <1>4 DEF ends

(* The characters of a number: what / and % make of it, and the marks.      *)
Marks == {Zero, HexMark, BinMark}

LEMMA MarksAreChars == Marks \subseteq Char
BY DEF Marks, Char, Zero, HexMark, BinMark

Glyphs(v, base) == Char \cup {Quotients(v, base)[i - 1] % base : i \in 1..NtoaSize}

LEMMA DigitsSeq ==
  ASSUME NEW v, NEW base
  PROVE  /\ Digits(v, base) \in Seq(Glyphs(v, base))
         /\ Len(Digits(v, base)) = DigitCount(v, base)
         /\ Len(Digits(v, base)) \in 1..NtoaSize
<1> DEFINE n == DigitCount(v, base)
<1>1. n \in 1..NtoaSize /\ NtoaSize \in Nat
  BY DigitCountIs, FormatOpsAssumption
<1>2. Digits(v, base) \in [1..n -> Glyphs(v, base)]
  BY <1>1 DEF Digits, Glyphs
<1> HIDE DEF n
<1>3. Digits(v, base) \in Seq(Glyphs(v, base)) /\ Len(Digits(v, base)) = n
  BY <1>1, <1>2
<1> QED
  BY <1>1, <1>3 DEF n

(* A buffer of _ntoa_long, over any characters that hold the marks.         *)
Buffer(S) == {s \in Seq(S) : Len(s) <= NtoaSize}

LEMMA AddBuffer ==
  ASSUME NEW S, Marks \subseteq S, NEW buf \in Buffer(S), NEW c \in S
  PROVE  /\ Add(buf, c) \in Buffer(S)
         /\ Len(Add(buf, c)) = IF Len(buf) < NtoaSize THEN Len(buf) + 1 ELSE NtoaSize
BY FormatOpsAssumption DEF Add, Buffer

LEMMA ZerosToBuffer ==
  ASSUME NEW S, Marks \subseteq S, NEW buf \in Buffer(S), NEW n \in Nat
  PROVE  /\ ZerosTo(buf, n) \in Buffer(S)
         /\ Len(ZerosTo(buf, n)) >= Len(buf)
         /\ Len(ZerosTo(buf, n)) >= Smaller(n, NtoaSize)
<1> DEFINE m == Smaller(n, NtoaSize) - Len(buf)
<1>1. NtoaSize \in Nat /\ m \in Int /\ Len(buf) \in Nat /\ Len(buf) <= NtoaSize
  BY FormatOpsAssumption DEF Smaller, Buffer
<1> HIDE DEF m
<1>b. Zero \in S
  BY DEF Marks
<1>2. Fill(Zero, m) \in Seq(S) /\ Len(Fill(Zero, m)) = AtLeast0(m)
  BY <1>1, <1>b, FillSeq
<1>3. /\ buf \o Fill(Zero, m) \in Seq(S)
      /\ Len(buf \o Fill(Zero, m)) = Len(buf) + AtLeast0(m)
  BY <1>2 DEF Buffer
<1>4. QED
  BY <1>1, <1>3 DEF m, ZerosTo, AtLeast0, Smaller, Buffer

LEMMA PadZerosBuffer ==
  ASSUME NEW S, Marks \subseteq S, NEW buf \in Buffer(S),
         NEW prec \in Nat, NEW w \in Nat, NEW f
  PROVE  /\ PadZeros(buf, prec, w, f) \in Buffer(S)
         /\ Len(PadZeros(buf, prec, w, f)) >= Len(buf)
         /\ "zero" \in f /\ "left" \notin f =>
              Len(PadZeros(buf, prec, w, f)) >= Smaller(w, NtoaSize)
<1>1. /\ ZerosTo(buf, prec) \in Buffer(S)
      /\ Len(ZerosTo(buf, prec)) >= Len(buf)
  BY ZerosToBuffer
<1>2. /\ ZerosTo(ZerosTo(buf, prec), w) \in Buffer(S)
      /\ Len(ZerosTo(ZerosTo(buf, prec), w)) >= Len(ZerosTo(buf, prec))
      /\ Len(ZerosTo(ZerosTo(buf, prec), w)) >= Smaller(w, NtoaSize)
  BY <1>1, ZerosToBuffer
<1>3. /\ Len(buf) \in Nat /\ Len(ZerosTo(buf, prec)) \in Nat
      /\ Len(ZerosTo(ZerosTo(buf, prec), w)) \in Nat
  BY <1>1, <1>2 DEF Buffer
<1>4. QED
  BY <1>1, <1>2, <1>3 DEF PadZeros

(* The mark takes no more characters back than it puts.                     *)
LEMMA PutHashBuffer ==
  ASSUME NEW S, Marks \subseteq S, NEW buf \in Buffer(S),
         NEW base, NEW prec \in Nat, NEW w \in Nat, NEW f
  PROVE  /\ PutHash(buf, base, prec, w, f) \in Buffer(S)
         /\ Len(PutHash(buf, base, prec, w, f)) >= Len(buf)
<1> DEFINE cut == TakeBack(buf, base, prec, w, f)
<1>1. NtoaSize \in Nat \ {0} /\ Len(buf) \in Nat /\ Len(buf) <= NtoaSize
  BY FormatOpsAssumption DEF Buffer
<1>2. /\ cut \in Buffer(S)
      /\ Len(cut) \in {Len(buf), Len(buf) - 1, Len(buf) - 2}
      /\ Len(cut) = Len(buf) - 2 => base = 16
      /\ Len(cut) = Len(buf) - 1 /\ base = 16 => Len(buf) = 1
  <2>1. CASE cut = buf
    BY <2>1, <1>1
  <2>2. CASE cut # buf
    <3> DEFINE k == IF base = 16 /\ Len(buf) > 1 THEN 2 ELSE 1
    <3>1. cut = SubSeq(buf, 1, Len(buf) - k) /\ Len(buf) > 0
      BY <2>2 DEF TakeBack
    <3>2. Len(buf) - k \in Nat /\ Len(buf) - k < Len(buf)
      BY <3>1, <1>1
    <3>3. \A i \in 1..(Len(buf) - k) : buf[i] \in S
      BY <3>2, <1>1 DEF Buffer
    <3> HIDE DEF k
    <3>4. cut \in Seq(S) /\ Len(cut) = Len(buf) - k
      BY <3>1, <3>2, <3>3, <1>1, SubSeqProperties
    <3> HIDE DEF cut
    <3>5. CASE base = 16 /\ Len(buf) > 1
      <4>1. k = 2
        BY <3>5 DEF k
      <4>2. QED
        BY <4>1, <3>4, <3>5, <1>1 DEF Buffer
    <3>6. CASE ~(base = 16 /\ Len(buf) > 1)
      <4>1. k = 1
        BY <3>6 DEF k
      <4>2. QED
        BY <4>1, <3>1, <3>4, <3>6, <1>1 DEF Buffer
    <3>7. QED
      BY <3>5, <3>6
  <2>3. QED
    BY <2>1, <2>2
<1> HIDE DEF cut
<1> DEFINE mark == IF base = 16 THEN Add(cut, HexMark)
                   ELSE IF base = 2 THEN Add(cut, BinMark) ELSE cut
<1>3. /\ mark \in Buffer(S)
      /\ Len(mark) >= Len(cut)
      /\ base = 16 => Len(mark) = IF Len(cut) < NtoaSize THEN Len(cut) + 1 ELSE NtoaSize
  <2>1. HexMark \in S /\ BinMark \in S
    BY DEF Marks
  <2>2. Len(cut) \in Nat /\ Len(cut) <= NtoaSize
    BY <1>2 DEF Buffer
  <2>3. CASE base = 16
    <3>1. mark = Add(cut, HexMark)
      BY <2>3
    <3> HIDE DEF mark
    <3>2. /\ Add(cut, HexMark) \in Buffer(S)
          /\ Len(Add(cut, HexMark)) = IF Len(cut) < NtoaSize THEN Len(cut) + 1 ELSE NtoaSize
      BY <1>2, <2>1, AddBuffer
    <3>3. QED
      BY <1>1, <2>2, <3>1, <3>2
  <2>4. CASE base = 2
    <3>1. mark = Add(cut, BinMark) /\ base # 16
      BY <2>4
    <3> HIDE DEF mark
    <3>2. /\ Add(cut, BinMark) \in Buffer(S)
          /\ Len(Add(cut, BinMark)) = IF Len(cut) < NtoaSize THEN Len(cut) + 1 ELSE NtoaSize
      BY <1>2, <2>1, AddBuffer
    <3>3. QED
      BY <1>1, <2>2, <3>1, <3>2
  <2>5. CASE base \notin {2, 16}
    <3>1. mark = cut /\ base # 16
      BY <2>5
    <3>2. QED
      BY <1>2, <2>2, <3>1
  <2>6. QED
    BY <2>3, <2>4, <2>5
<1> HIDE DEF mark
<1>4. /\ Add(mark, Zero) \in Buffer(S)
      /\ Len(Add(mark, Zero)) = IF Len(mark) < NtoaSize THEN Len(mark) + 1 ELSE NtoaSize
  BY <1>3, AddBuffer DEF Marks
<1>5. PutMark(cut, base) = Add(mark, Zero)
  BY DEF PutMark, mark
<1>6. Len(mark) \in Nat /\ Len(mark) <= NtoaSize /\ Len(cut) \in Nat
  BY <1>2, <1>3 DEF Buffer
<1>7. Len(Add(mark, Zero)) >= Len(buf)
  BY <1>1, <1>2, <1>3, <1>4, <1>6
<1>8. QED
  BY <1>1, <1>4, <1>5, <1>7 DEF PutHash, cut

LEMMA PutSignBuffer ==
  ASSUME NEW S, Char \subseteq S, NEW buf \in Buffer(S), NEW neg \in BOOLEAN, NEW f
  PROVE  /\ PutSign(buf, neg, f) \in Buffer(S)
         /\ Len(PutSign(buf, neg, f)) >= Len(buf)
         /\ neg \/ f \cap {"plus", "space"} # {} =>
              \/ Len(PutSign(buf, neg, f)) >= Len(buf) + 1
              \/ Len(PutSign(buf, neg, f)) = NtoaSize
<1>1. Len(buf) \in Nat /\ Len(buf) <= NtoaSize /\ NtoaSize \in Nat
  BY FormatOpsAssumption DEF Buffer
<1>2. Minus \in Char /\ Plus \in Char /\ Blank \in Char
  BY DEF Char, Minus, Plus, Blank
<1>a. Marks \subseteq S /\ \A c \in {Minus, Plus, Blank} : c \in S
  BY <1>2, MarksAreChars
<1>3. \A c \in {Minus, Plus, Blank} :
        /\ Add(buf, c) \in Buffer(S)
        /\ Len(Add(buf, c)) = IF Len(buf) < NtoaSize THEN Len(buf) + 1 ELSE NtoaSize
  BY <1>a, AddBuffer
<1>4. \A c \in {Minus, Plus, Blank} :
        /\ Add(buf, c) \in Buffer(S)
        /\ Len(Add(buf, c)) >= Len(buf)
        /\ Len(Add(buf, c)) >= Len(buf) + 1 \/ Len(Add(buf, c)) = NtoaSize
  BY <1>1, <1>3
<1>5. CASE neg
  <2>1. PutSign(buf, neg, f) = Add(buf, Minus)
    BY <1>5 DEF PutSign
  <2>2. QED
    BY <2>1, <1>4
<1>6. CASE ~neg /\ "plus" \in f
  <2>1. PutSign(buf, neg, f) = Add(buf, Plus)
    BY <1>6 DEF PutSign
  <2>2. QED
    BY <2>1, <1>4
<1>7. CASE ~neg /\ "plus" \notin f /\ "space" \in f
  <2>1. PutSign(buf, neg, f) = Add(buf, Blank)
    BY <1>7 DEF PutSign
  <2>2. QED
    BY <2>1, <1>4
<1>8. CASE ~neg /\ "plus" \notin f /\ "space" \notin f
  <2>1. PutSign(buf, neg, f) = buf /\ f \cap {"plus", "space"} = {}
    BY <1>8 DEF PutSign
  <2>2. QED
    BY <2>1, <1>1, <1>8
<1>9. QED
  BY <1>5, <1>6, <1>7, <1>8

(* The field of _out_rev: filled up to the width, but for zero padding,     *)
(* which has been done.                                                     *)
LEMMA OutRevLength ==
  ASSUME NEW S, Char \subseteq S, NEW buf \in Seq(S), NEW w \in Nat, NEW f
  PROVE  /\ Len(OutRev(buf, w, f)) \in Nat
         /\ Len(OutRev(buf, w, f)) >= Len(buf)
         /\ Len(OutRev(buf, w, f)) <= Len(buf) \/ Len(OutRev(buf, w, f)) <= w
         /\ Len(OutRev(buf, w, f)) >= w \/ ("zero" \in f /\ "left" \notin f)
<1> DEFINE blanks == Fill(Blank, w - Len(buf))
           front == IF f \cap {"left", "zero"} = {} THEN blanks ELSE << >>
           back == IF "left" \in f THEN blanks ELSE << >>
<1>1. Len(buf) \in Nat /\ w - Len(buf) \in Int /\ Blank \in Char
  BY DEF Char, Blank
<1>2. blanks \in Seq(Char) /\ Len(blanks) = AtLeast0(w - Len(buf))
  BY <1>1, FillSeq
<1>3. blanks \in Seq(S)
  BY <1>2, SeqMonotonic
<1>4. Reversed(buf) \in Seq(S) /\ Len(Reversed(buf)) = Len(buf)
  BY ReversedSeq
<1> HIDE DEF blanks
<1>5. << >> \in Seq(S) /\ Len(<< >>) = 0
  BY EmptySeq
<1>6. front \in Seq(S) /\ back \in Seq(S)
  BY <1>3, <1>5
<1>7. Len(front) = IF f \cap {"left", "zero"} = {} THEN AtLeast0(w - Len(buf)) ELSE 0
  BY <1>2, <1>5
<1>8. Len(back) = IF "left" \in f THEN AtLeast0(w - Len(buf)) ELSE 0
  BY <1>2, <1>5
<1>9. OutRev(buf, w, f) = front \o Reversed(buf) \o back
  BY DEF OutRev, blanks
<1> HIDE DEF front, back
<1>10. Len(OutRev(buf, w, f)) = Len(front) + Len(buf) + Len(back)
  <2>1. /\ front \o Reversed(buf) \in Seq(S)
        /\ Len(front \o Reversed(buf)) = Len(front) + Len(buf)
    BY <1>4, <1>6
  <2>2. Len(front \o Reversed(buf) \o back) = Len(front \o Reversed(buf)) + Len(back)
    BY <2>1, <1>6
  <2>3. QED
    BY <2>1, <2>2, <1>9
<1>11. CASE "left" \in f
  <2>1. Len(front) = 0 /\ Len(back) = AtLeast0(w - Len(buf))
    BY <1>7, <1>8, <1>11
  <2>2. QED
    BY <1>1, <1>10, <2>1 DEF AtLeast0
<1>12. CASE "left" \notin f /\ "zero" \in f
  <2>1. Len(front) = 0 /\ Len(back) = 0
    BY <1>7, <1>8, <1>12
  <2>2. QED
    BY <1>1, <1>10, <1>12, <2>1
<1>13. CASE "left" \notin f /\ "zero" \notin f
  <2>1. f \cap {"left", "zero"} = {}
    BY <1>13
  <2>2. Len(front) = AtLeast0(w - Len(buf)) /\ Len(back) = 0
    BY <1>7, <1>8, <1>13, <2>1
  <2>3. QED
    BY <1>1, <1>10, <2>2 DEF AtLeast0
<1>14. QED
  BY <1>11, <1>12, <1>13

LEMMA NtoaFormatLength ==
  ASSUME NEW S, Char \subseteq S, NEW buf \in Buffer(S), NEW neg \in BOOLEAN, NEW base,
         NEW prec \in Nat, NEW w \in Nat, NEW f
  PROVE  LET text == NtoaFormat(buf, neg, base, prec, w, f)
         IN /\ Len(text) \in Nat
            /\ Len(text) <= NtoaSize \/ Len(text) <= w
            /\ Len(text) >= w \/ ("zero" \in f /\ "left" \notin f /\ w > NtoaSize)
<1> DEFINE sw == SignedWidth(neg, w, f)
           padded == PadZeros(buf, prec, sw, f)
           marked == PutHash(padded, base, prec, sw, f)
           signed == PutSign(marked, neg, f)
           text == OutRev(signed, sw, f)
<1>1. NtoaFormat(buf, neg, base, prec, w, f) = text
  BY DEF NtoaFormat
<1>2. /\ sw \in Nat /\ sw <= w
      /\ sw # w => /\ sw = w - 1 /\ "zero" \in f /\ "left" \notin f
                   /\ neg \/ f \cap {"plus", "space"} # {}
  BY DEF SignedWidth
<1> HIDE DEF sw
<1>3. /\ padded \in Buffer(S)
      /\ "zero" \in f /\ "left" \notin f => Len(padded) >= Smaller(sw, NtoaSize)
  BY <1>2, MarksAreChars, PadZerosBuffer
<1> HIDE DEF padded
<1>4. marked \in Buffer(S) /\ Len(marked) >= Len(padded)
  BY <1>2, <1>3, MarksAreChars, PutHashBuffer
<1> HIDE DEF marked
<1>5. /\ signed \in Buffer(S) /\ Len(signed) >= Len(marked)
      /\ neg \/ f \cap {"plus", "space"} # {} =>
           Len(signed) >= Len(marked) + 1 \/ Len(signed) = NtoaSize
  BY <1>4, PutSignBuffer
<1> HIDE DEF signed
<1>6. /\ Len(text) \in Nat /\ Len(text) >= Len(signed)
      /\ Len(text) <= Len(signed) \/ Len(text) <= sw
      /\ Len(text) >= sw \/ ("zero" \in f /\ "left" \notin f)
  BY <1>2, <1>5, OutRevLength DEF Buffer
<1> HIDE DEF text
<1>7. /\ Len(padded) \in Nat /\ Len(marked) \in Nat /\ Len(signed) \in Nat
      /\ Len(signed) <= NtoaSize /\ NtoaSize \in Nat
  BY <1>3, <1>4, <1>5, FormatOpsAssumption DEF Buffer
<1>8. Len(text) <= NtoaSize \/ Len(text) <= w
  BY <1>2, <1>6, <1>7
<1>9. CASE ~("zero" \in f /\ "left" \notin f)
  BY <1>1, <1>2, <1>6, <1>8, <1>9
<1>10. CASE "zero" \in f /\ "left" \notin f
  <2>1. Len(padded) >= sw \/ Len(padded) >= NtoaSize
    BY <1>3, <1>10, <1>7, <1>2 DEF Smaller
  <2>2. CASE sw = w
    BY <1>1, <1>2, <1>4, <1>5, <1>6, <1>7, <1>8, <1>10, <2>1, <2>2
  <2>3. CASE sw # w
    <3>1. sw = w - 1 /\ (Len(signed) >= Len(marked) + 1 \/ Len(signed) = NtoaSize)
      BY <1>2, <1>5, <2>3
    <3>2. QED
      BY <1>1, <1>2, <1>4, <1>6, <1>7, <1>8, <1>10, <2>1, <3>1
  <2>4. QED
    BY <2>2, <2>3
<1>11. QED
  BY <1>9, <1>10

LEMMA NtoaLongLength ==
  ASSUME NEW v, NEW neg \in BOOLEAN, NEW base, NEW prec \in Nat, NEW w \in Nat, NEW f
  PROVE  LET text == NtoaLong(v, neg, base, prec, w, f)
         IN /\ Len(text) \in Nat
            /\ Len(text) <= NtoaSize \/ Len(text) <= w
            /\ Len(text) >= w \/ ("zero" \in f /\ "left" \notin f /\ w > NtoaSize)
<1> DEFINE buf == IF v = 0 /\ "precision" \in f THEN << >> ELSE Digits(v, base)
           g == IF v = 0 THEN f \ {"hash"} ELSE f
           S == Glyphs(v, base)
<1>1. Char \subseteq S
  BY DEF Glyphs
<1>2. buf \in Buffer(S)
  BY DigitsSeq, FormatOpsAssumption DEF Buffer
<1>3. ("zero" \in f <=> "zero" \in g) /\ ("left" \in f <=> "left" \in g)
  OBVIOUS
<1>4. NtoaLong(v, neg, base, prec, w, f) = NtoaFormat(buf, neg, base, prec, w, g)
  BY DEF NtoaLong
<1> HIDE DEF buf, g, S
<1>5. QED
  BY <1>1, <1>2, <1>3, <1>4, NtoaFormatLength

LEMMA JustifiedLength ==
  ASSUME NEW S, Char \subseteq S, NEW s \in Seq(S), NEW w \in Nat, NEW f
  PROVE  /\ Len(Justified(s, w, f)) \in Nat
         /\ Len(Justified(s, w, f)) = IF Len(s) < w THEN w ELSE Len(s)
<1> DEFINE blanks == Fill(Blank, w - Len(s))
<1>1. Len(s) \in Nat /\ w - Len(s) \in Int /\ Blank \in Char
  BY DEF Char, Blank
<1>2. blanks \in Seq(Char) /\ Len(blanks) = AtLeast0(w - Len(s))
  BY <1>1, FillSeq
<1>3. blanks \in Seq(S)
  BY <1>2, SeqMonotonic
<1> HIDE DEF blanks
<1>4. /\ Len(s \o blanks) = Len(s) + Len(blanks)
      /\ Len(blanks \o s) = Len(s) + Len(blanks)
  BY <1>1, <1>3
<1>5. Justified(s, w, f) \in {s \o blanks, blanks \o s}
  BY DEF Justified, blanks
<1>6. Len(Justified(s, w, f)) = Len(s) + AtLeast0(w - Len(s))
  BY <1>2, <1>4, <1>5
<1>7. QED
  BY <1>1, <1>6 DEF AtLeast0

(* The characters of a string that are printed.                             *)
Own(p, prec, f) == IF "precision" \in f THEN Smaller(Len(p), prec) ELSE Len(p)

LEMMA StringTextLength ==
  ASSUME NEW p \in Strings, NEW prec \in Nat, NEW w \in Nat, NEW f
  PROVE  /\ Len(StringText(p, prec, w, f)) \in Nat
         /\ Len(StringText(p, prec, w, f)) = IF Own(p, prec, f) < w THEN w ELSE Own(p, prec, f)
<1> DEFINE cut == IF "precision" \in f THEN SubSeq(p, 1, Smaller(Len(p), prec)) ELSE p
<1>1. p \in Seq(Char)
  BY PrintfAssumption
<1>2. cut \in Seq(Char) /\ Len(cut) = Own(p, prec, f)
  BY <1>1 DEF Smaller, Own
<1>3. StringText(p, prec, w, f) = Justified(cut, w, f)
  BY DEF StringText
<1> HIDE DEF cut
<1>4. /\ Len(Justified(cut, w, f)) \in Nat
      /\ Len(Justified(cut, w, f)) = IF Len(cut) < w THEN w ELSE Len(cut)
  BY <1>2, JustifiedLength
<1>5. QED
  BY <1>2, <1>3, <1>4

LEMMA ValueTyped ==
  ASSUME NEW spec, NEW w \in Words, NEW f
  PROVE  ValueOf(spec, w, f) \in Int
<1>1. w \in Nat /\ CharMod \in Nat \ {0} /\ ShortMod \in Nat \ {0} /\ IntMod \in Nat \ {0}
  BY PrintfAssumption, FormatOpsAssumption
<1>2. w % CharMod \in Int /\ w % ShortMod \in Int /\ w % IntMod \in Int
  BY <1>1
<1>3. \A m \in {ShortMod, IntMod} : w % m \in Int /\ Signed(w % m, m) \in Int
  BY <1>1, <1>2 DEF Signed
<1>4. QED
  BY <1>2, <1>3 DEF ValueOf

(* The zero padding that stops at the buffer's end, as the flags of the     *)
(* directive have it.                                                       *)
Cut(f, w) == {"zero", "precision"} \cap f = {"zero"} /\ "left" \notin f /\ w > NtoaSize

LEMMA IntegerTextLength ==
  ASSUME NEW spec, NEW x \in Words, NEW prec \in Nat, NEW w \in Nat, NEW f
  PROVE  /\ Len(IntegerText(spec, x, prec, w, f)) \in Nat
         /\ \/ Len(IntegerText(spec, x, prec, w, f)) <= NtoaSize
            \/ Len(IntegerText(spec, x, prec, w, f)) <= w
         /\ Len(IntegerText(spec, x, prec, w, f)) >= w \/ Cut(f, w)
<1> DEFINE v == ValueOf(spec, x, f)
           g == FlagsFor(spec, f)
           text == NtoaLong(Magnitude(v), v < 0, Base(spec), prec, w, g)
<1>1. v \in Int
  BY ValueTyped
<1>2. IntegerText(spec, x, prec, w, f) = text
  BY DEF IntegerText
<1>3. (v < 0) \in BOOLEAN
  BY <1>1
<1>4. /\ "left" \in f => "left" \in g
      /\ "zero" \in g => "zero" \in f /\ "precision" \notin f
  BY DEF FlagsFor
<1> HIDE DEF v, g
<1>5. /\ Len(text) \in Nat
      /\ Len(text) <= NtoaSize \/ Len(text) <= w
      /\ Len(text) >= w \/ ("zero" \in g /\ "left" \notin g /\ w > NtoaSize)
  BY <1>3, NtoaLongLength
<1> HIDE DEF text
<1>6. "zero" \in g /\ "left" \notin g /\ w > NtoaSize => Cut(f, w)
  BY <1>4 DEF Cut
<1>7. QED
  BY <1>2, <1>5, <1>6

LEMMA PointerTextLength ==
  ASSUME NEW x \in Words, NEW prec \in Nat, NEW f
  PROVE  /\ Len(PointerText(x, prec, f)) \in Nat
         /\ \/ Len(PointerText(x, prec, f)) <= NtoaSize
            \/ Len(PointerText(x, prec, f)) <= PtrWidth
         /\ Len(PointerText(x, prec, f)) >= PtrWidth
<1>1. PtrWidth \in Nat /\ PtrWidth <= NtoaSize /\ NtoaSize \in Nat
  BY FormatOpsAssumption
<1> DEFINE g == f \cup {"zero"}
           text == NtoaLong(x, FALSE, 16, prec, PtrWidth, g)
<1>2. PointerText(x, prec, f) = text
  BY DEF PointerText
<1> HIDE DEF g
<1>3. /\ Len(text) \in Nat
      /\ Len(text) <= NtoaSize \/ Len(text) <= PtrWidth
      /\ Len(text) >= PtrWidth \/ PtrWidth > NtoaSize
  BY <1>1, NtoaLongLength
<1> HIDE DEF text
<1>4. QED
  BY <1>1, <1>2, <1>3

----------------------------------------------------------------------------
(* What one directive does to the buffers                                   *)

Bounded ==
  /\ idx \in 0..(SizeMax - 1)
  /\ DOMAIN mem = Counts \cup {NoBuffer}
  /\ TextBounded

LEMMA SizeMaxTyped == SizeMax \in Nat /\ SizeMax \in Counts /\ Counts \subseteq 0..SizeMax
  BY PrintfAssumption, FormatOpsAssumption DEF SizeMax

LEMMA CountsAreBuffers == \A n \in Counts : n # NoBuffer
  BY SizeMaxTyped DEF NoBuffer

LEMMA EmitBounded ==
  ASSUME Bounded, pc # "done", pc' # "done", NEW s, Len(s) \in Nat, Emit(s)
  PROVE  Bounded'
<1> USE SizeMaxTyped
<1>1. idx \in Nat /\ idx' = idx + Len(s) /\ idx' \in 0..(SizeMax - 1) /\ idx <= idx'
  BY DEF Bounded, Emit
<1>2. /\ DOMAIN mem' = Counts \cup {NoBuffer}
      /\ \A n \in Counts : mem'[n] = OutBuffer(mem[n], n, idx, s)
      /\ mem'[NoBuffer] = Nothing
  BY CountsAreBuffers DEF Bounded, TextBounded, Emit, Out, OutNull
<1> DEFINE hit(n) == {k \in idx..(idx + Len(s) - 1) : k < n}
<1>3. \A n \in Counts :
        /\ DOMAIN mem[n] = {k \in 0..idx : k < n /\ k < idx}
        /\ \A k \in DOMAIN mem[n] : mem[n][k] = Text[k]
  BY <1>1 DEF Bounded, TextBounded
<1>4. \A n \in Counts :
        /\ DOMAIN mem'[n] = DOMAIN mem[n] \cup hit(n)
        /\ \A k \in DOMAIN mem'[n] :
             mem'[n][k] = IF k \in hit(n) THEN s[k - idx + 1] ELSE mem[n][k]
  BY <1>2 DEF OutBuffer, Written
<1>5. \A n \in Counts : DOMAIN mem'[n] = {k \in 0..idx' : k < n /\ k < idx'}
  <2> TAKE n \in Counts
  <2>1. n \in Nat
    OBVIOUS
  <2>2. DOMAIN mem'[n] = {k \in 0..idx : k < n /\ k < idx} \cup hit(n)
    BY <1>3, <1>4
  <2>3. QED
    BY <1>1, <2>1, <2>2
<1>6. ASSUME NEW n \in Counts, NEW k \in DOMAIN mem'[n]
      PROVE  mem'[n][k] = mem'[SizeMax][k]
  <2>a. n \in Nat /\ n <= SizeMax
    OBVIOUS
  <2>b. k \in {j \in 0..idx' : j < n /\ j < idx'}
    BY <1>5
  <2>1. n \in Nat /\ n <= SizeMax /\ k \in 0..idx' /\ k < n /\ k < idx'
    BY <2>a, <2>b
  <2>2. k \in DOMAIN mem'[SizeMax]
    BY <1>1, <1>5, <2>1
  <2>3. k \in hit(n) <=> k \in hit(SizeMax)
    BY <1>1, <2>1
  <2>4. CASE k \in hit(n)
    BY <1>4, <2>2, <2>3, <2>4
  <2>5. CASE k \notin hit(n)
    <3>1. mem'[n][k] = mem[n][k] /\ mem'[SizeMax][k] = mem[SizeMax][k]
      BY <1>4, <2>2, <2>3, <2>5
    <3>2. k \in DOMAIN mem[n]
      BY <1>4, <2>5
    <3>3. QED
      BY <1>3, <3>1, <3>2 DEF Text
  <2>6. QED
    BY <2>4, <2>5
<1>7. /\ DOMAIN screen' = {k \in 0..(idx' - 1) : mem'[SizeMax][k] # Nul}
      /\ \A k \in DOMAIN screen' : screen'[k] = mem'[SizeMax][k]
  <2> DEFINE shown == {k \in idx..(idx + Len(s) - 1) : s[k - idx + 1] # Nul}
  <2>1. /\ DOMAIN screen' = DOMAIN screen \cup shown
        /\ \A k \in DOMAIN screen' :
             screen'[k] = IF k \in shown THEN s[k - idx + 1] ELSE screen[k]
    BY DEF Emit, OutChar, Written
  <2>2. /\ DOMAIN screen = {k \in 0..(idx - 1) : mem[SizeMax][k] # Nul}
        /\ \A k \in DOMAIN screen : screen[k] = mem[SizeMax][k]
    BY DEF Bounded, TextBounded, Text
  <2>3. \A k \in idx..(idx' - 1) : mem'[SizeMax][k] = s[k - idx + 1]
    <3> TAKE k \in idx..(idx' - 1)
    <3>1. k \in hit(SizeMax)
      BY <1>1
    <3>2. QED
      BY <1>4, <3>1
  <2>4. \A k \in 0..(idx - 1) : mem'[SizeMax][k] = mem[SizeMax][k]
    <3> TAKE k \in 0..(idx - 1)
    <3>1. k \notin hit(SizeMax) /\ k \in DOMAIN mem'[SizeMax]
      BY <1>1, <1>5
    <3>2. QED
      BY <1>4, <3>1
  <2>5. shown = {k \in idx..(idx' - 1) : mem'[SizeMax][k] # Nul}
    BY <1>1, <2>3
  <2> HIDE DEF shown
  <2>6. DOMAIN screen' = {k \in 0..(idx' - 1) : mem'[SizeMax][k] # Nul}
    BY <1>1, <2>1, <2>2, <2>4, <2>5
  <2>7. \A k \in DOMAIN screen' : screen'[k] = mem'[SizeMax][k]
    BY <1>1, <2>1, <2>2, <2>3, <2>4, <2>5
  <2>8. QED
    BY <2>6, <2>7
<1> HIDE DEF hit
<1>8. QED
  BY <1>1, <1>2, <1>5, <1>6, <1>7 DEF Bounded, TextBounded, Text

LEMMA TerminateBounded ==
  ASSUME Bounded, Terminate
  PROVE  Bounded'
<1> USE SizeMaxTyped
<1>1. /\ idx' = idx /\ idx \in 0..(SizeMax - 1) /\ idx \in Nat
      /\ pc = "text" /\ pc' = "done" /\ screen' = screen
  BY DEF Bounded, Terminate, output
<1> DEFINE end(n) == IF idx < n THEN idx ELSE (n - 1) % IntMod
<1>a. /\ DOMAIN mem' = Counts \cup {NoBuffer}
      /\ \A n \in Counts : mem'[n] = OutBuffer(mem[n], n, end(n), <<Nul>>)
      /\ mem'[NoBuffer] = Nothing
  BY CountsAreBuffers DEF Bounded, TextBounded, Terminate, Out, OutNull
<1>2. \A n \in Counts :
        /\ n > 0 => end(n) = Smaller(idx, n - 1) /\ end(n) < n /\ end(n) \in Nat
        /\ n = 0 => end(n) = SizeMax
  <2> TAKE n \in Counts
  <2>1. n \in Nat /\ n <= SizeMax /\ IntMod \in Nat /\ IntMod = SizeMax + 1
    BY FormatOpsAssumption DEF SizeMax
  <2>2. CASE n = 0
    <3>1. (-1) % IntMod = IntMod - 1
      BY <2>1
    <3>2. QED
      BY <1>1, <2>1, <2>2, <3>1
  <2>3. CASE n > 0
    <3>1. (n - 1) % IntMod = n - 1
      BY <2>1, <2>3
    <3>2. QED
      BY <1>1, <2>1, <2>3, <3>1 DEF Smaller
  <2>4. QED
    BY <2>1, <2>2, <2>3
<1>3. \A n \in Counts :
        /\ DOMAIN mem[n] = {k \in 0..idx : k < n /\ k < idx}
        /\ \A k \in DOMAIN mem[n] : mem[n][k] = mem[SizeMax][k]
  BY <1>1 DEF Bounded, TextBounded, Text
<1>4. \A n \in Counts :
        LET hit == {k \in end(n)..(end(n) + Len(<<Nul>>) - 1) : k < n}
        IN /\ DOMAIN mem'[n] = DOMAIN mem[n] \cup hit
           /\ \A k \in DOMAIN mem'[n] :
                mem'[n][k] = IF k \in hit THEN <<Nul>>[k - end(n) + 1] ELSE mem[n][k]
  <2> TAKE n \in Counts
  <2> DEFINE e == end(n)
             s == <<Nul>>
  <2>1. mem'[n] = OutBuffer(mem[n], n, e, s)
    BY <1>a
  <2> HIDE DEF e, s
  <2>2. LET hit == {k \in e..(e + Len(s) - 1) : k < n}
        IN mem'[n] = [k \in DOMAIN mem[n] \cup hit |-> IF k \in hit THEN s[k - e + 1] ELSE mem[n][k]]
    BY <2>1 DEF OutBuffer, Written
  <2>3. LET hit == {k \in e..(e + Len(s) - 1) : k < n}
        IN /\ DOMAIN mem'[n] = DOMAIN mem[n] \cup hit
           /\ \A k \in DOMAIN mem'[n] :
                mem'[n][k] = IF k \in hit THEN s[k - e + 1] ELSE mem[n][k]
    BY <2>2
  <2> QED BY <2>3 DEF e, s
<1>5. \A n \in Counts :
        LET hit == IF n > 0 THEN {end(n)} ELSE {}
        IN /\ DOMAIN mem'[n] = DOMAIN mem[n] \cup hit
           /\ \A k \in DOMAIN mem'[n] : mem'[n][k] = IF k \in hit THEN Nul ELSE mem[n][k]
  <2> TAKE n \in Counts
  <2> DEFINE hit == {k \in end(n)..(end(n) + Len(<<Nul>>) - 1) : k < n}
  <2>1. n \in Nat /\ Len(<<Nul>>) = 1 /\ <<Nul>>[1] = Nul
    OBVIOUS
  <2>2. hit = IF n > 0 THEN {end(n)} ELSE {}
    <3> HIDE DEF end
    <3>1. QED
      BY <1>2, <2>1
  <2>3. /\ DOMAIN mem'[n] = DOMAIN mem[n] \cup hit
        /\ \A k \in DOMAIN mem'[n] :
             mem'[n][k] = IF k \in hit THEN <<Nul>>[k - end(n) + 1] ELSE mem[n][k]
    BY <1>4
  <2> HIDE DEF hit, end
  <2>4. \A k \in hit : <<Nul>>[k - end(n) + 1] = Nul
    <3> TAKE k \in hit
    <3>1. k = end(n) /\ n > 0 /\ end(n) \in Nat
      BY <1>2, <2>1, <2>2
    <3>2. k - end(n) + 1 = 1
      BY <3>1
    <3>3. QED
      BY <2>1, <3>2
  <2>5. QED
    BY <2>2, <2>3, <2>4
<1> HIDE DEF end
<1>6. \A n \in Counts : DOMAIN mem'[n] = {k \in 0..idx : k < n}
  <2> TAKE n \in Counts
  <2>1. n \in Nat
    OBVIOUS
  <2>2. CASE n = 0
    BY <1>1, <1>3, <1>5, <2>2
  <2>3. CASE n > 0
    <3>1. DOMAIN mem'[n] = {k \in 0..idx : k < n /\ k < idx} \cup {Smaller(idx, n - 1)}
      BY <1>2, <1>3, <1>5, <2>3
    <3>2. QED
      BY <1>1, <2>1, <2>3, <3>1 DEF Smaller
  <2>4. QED
    BY <2>1, <2>2, <2>3
<1>7. /\ mem'[SizeMax][idx] = Nul
      /\ \A k \in 0..(idx - 1) : mem'[SizeMax][k] = mem[SizeMax][k]
  <2>1. SizeMax > 0 /\ end(SizeMax) = idx
    BY <1>1, <1>2 DEF Smaller
  <2>2. QED
    BY <1>1, <1>5, <1>6, <2>1
<1>8. ASSUME NEW n \in Counts, NEW k \in DOMAIN mem'[n], k < (IF n <= idx THEN n - 1 ELSE n)
      PROVE  mem'[n][k] = mem'[SizeMax][k]
  <2>a. n \in Nat
    OBVIOUS
  <2>b. k \in {j \in 0..idx : j < n}
    BY <1>6
  <2>1. n \in Nat /\ k \in 0..idx /\ k < n /\ n > 0
    BY <2>a, <2>b
  <2>2. end(n) = Smaller(idx, n - 1)
    BY <1>2, <2>1
  <2>3. CASE k = idx
    BY <1>1, <1>5, <1>7, <1>8, <2>1, <2>2, <2>3 DEF Smaller
  <2>4. CASE k # idx
    <3>1. k # end(n) /\ k < idx
      BY <1>1, <1>8, <2>1, <2>2, <2>4 DEF Smaller
    <3>2. mem'[n][k] = mem[n][k]
      BY <1>5, <1>8, <2>1, <3>1
    <3>3. k \in DOMAIN mem[n]
      BY <1>1, <1>3, <2>1, <3>1
    <3>4. QED
      BY <1>1, <1>3, <1>7, <2>1, <3>1, <3>2, <3>3
  <2>5. QED
    BY <2>3, <2>4
<1>9. \A n \in Counts : n > 0 => mem'[n][Smaller(idx, n - 1)] = Nul
  <2> TAKE n \in Counts
  <2> HAVE n > 0
  <2>1. end(n) = Smaller(idx, n - 1) /\ end(n) \in DOMAIN mem'[n]
    BY <1>2, <1>5
  <2>2. QED
    BY <1>5, <2>1
<1>10. /\ DOMAIN screen' = {k \in 0..(idx - 1) : mem'[SizeMax][k] # Nul}
       /\ \A k \in DOMAIN screen' : screen'[k] = mem'[SizeMax][k]
  BY <1>1, <1>7 DEF Bounded, TextBounded, Text
<1>11. \A n \in Counts : {k \in 0..idx : k < n} = {k \in 0..idx : k < n /\ (k < idx \/ TRUE)}
  OBVIOUS
<1>12. QED
  BY <1>1, <1>a, <1>6, <1>8, <1>9, <1>10 DEF Bounded, TextBounded, Text

LEMMA OutputKept ==
  ASSUME Bounded, UNCHANGED output, pc # "done", pc' # "done"
  PROVE  Bounded'
BY DEF Bounded, TextBounded, Text, output

LEMMA NothingToFill ==
  ASSUME last' = NoDirective
  PROVE  FieldFilled'
<1>1. last'.kind = "none"
  BY DEF NoDirective
<1>2. QED
  BY <1>1 DEF FieldFilled, Integral

----------------------------------------------------------------------------
(* The invariant.  TextBounded speaks of what is stored, FieldFilled of the *)
(* directive just carried out; that there is none while one is being read   *)
(* is part of TypeOK.                                                       *)
IInv == TypeOK /\ TextBounded /\ FieldFilled

Parsing ==
  Percent \/ TakeFlag \/ WidthDigit \/ WidthStar \/ Point
  \/ PrecisionDigit \/ PrecisionStar \/ TakeLength

LEMMA InitInvariant == Init => IInv
<1> SUFFICES ASSUME Init PROVE IInv
  OBVIOUS
<1>1. 0 \in 0..(SizeMax - 1) /\ MaxFormat \in Nat
  BY PrintfAssumption, FormatOpsAssumption DEF SizeMax
<1>2. TypeOK
  BY <1>1 DEF Init, TypeOK, InDirective
<1>3. /\ DOMAIN screen = {} /\ \A n \in Counts : DOMAIN mem[n] = {}
      /\ idx = 0 /\ pc = "text" /\ mem[NoBuffer] = Nothing
  BY DEF Init, Nothing
<1>a. {k \in 0..(idx - 1) : Text[k] # Nul} = {}
  BY <1>3
<1>b. \A n \in Counts : {k \in 0..idx : k < n /\ (k < idx \/ pc = "done")} = {}
  BY <1>3
<1>4. TextBounded
  BY <1>3, <1>a, <1>b DEF TextBounded
<1>5. FieldFilled
  BY DEF Init, FieldFilled, Integral, NoDirective
<1>6. QED
  BY <1>2, <1>4, <1>5 DEF IInv

LEMMA ParsingInvariant == IInv /\ Parsing => IInv'
<1> SUFFICES ASSUME IInv, Parsing PROVE IInv'
  OBVIOUS
<1>1. Bounded /\ TypeOK
  BY DEF IInv, Bounded, TypeOK
<1>2. /\ pc # "done" /\ pc' \in InDirective /\ UNCHANGED output
      /\ read' = read + 1 /\ read < MaxFormat
      /\ va' \in Nat /\ passed' \in Nat
      /\ last' = NoDirective
  <2>1. va \in Nat /\ passed \in Nat /\ (pc \in InDirective => last = NoDirective)
    BY <1>1 DEF TypeOK
  <2>2. CASE Percent
    BY <2>1, <2>2 DEF Percent, Read, InDirective, caller
  <2>3. CASE TakeFlag
    BY <2>1, <2>3 DEF TakeFlag, Read, InDirective, caller
  <2>4. CASE WidthDigit
    BY <2>1, <2>4 DEF WidthDigit, Read, InDirective, caller
  <2>5. CASE WidthStar
    <3>1. va' = va + 1 /\ passed' = passed + 1
      BY <2>5 DEF WidthStar, TakeWord
    <3>2. va' \in Nat /\ passed' \in Nat
      BY <2>1, <3>1
    <3>3. /\ pc # "done" /\ pc \in InDirective /\ pc' \in InDirective
          /\ read' = read + 1 /\ read < MaxFormat
      BY <2>5 DEF WidthStar, Read, InDirective
    <3>4. UNCHANGED output /\ UNCHANGED last
      BY <2>5 DEF WidthStar
    <3>5. QED
      BY <2>1, <3>1, <3>2, <3>3, <3>4
  <2>6. CASE Point
    BY <2>1, <2>6 DEF Point, Read, InDirective, caller
  <2>7. CASE PrecisionDigit
    BY <2>1, <2>7 DEF PrecisionDigit, Read, InDirective, caller
  <2>8. CASE PrecisionStar
    <3>1. va' = va + 1 /\ passed' = passed + 1
      BY <2>8 DEF PrecisionStar, TakeWord
    <3>2. va' \in Nat /\ passed' \in Nat
      BY <2>1, <3>1
    <3>3. /\ pc # "done" /\ pc \in InDirective /\ pc' \in InDirective
          /\ read' = read + 1 /\ read < MaxFormat
      BY <2>8 DEF PrecisionStar, Read, InDirective
    <3>4. UNCHANGED output /\ UNCHANGED last
      BY <2>8 DEF PrecisionStar
    <3>5. QED
      BY <2>1, <3>1, <3>2, <3>3, <3>4
  <2>9. CASE TakeLength
    BY <2>1, <2>9 DEF TakeLength, Read, InDirective, caller
  <2>10. QED
    BY <2>2, <2>3, <2>4, <2>5, <2>6, <2>7, <2>8, <2>9 DEF Parsing
<1>3. flags' \in SUBSET Flag /\ width' \in Nat /\ precision' \in Nat
  <2>1. flags \in SUBSET Flag /\ width \in Nat /\ precision \in Nat
    BY <1>1 DEF TypeOK
  <2>2. CASE Percent
    BY <2>1, <2>2 DEF Percent
  <2>3. CASE TakeFlag
    BY <2>1, <2>3 DEF TakeFlag, Flag
  <2>4. CASE WidthDigit
    BY <2>1, <2>4, PrintfAssumption DEF WidthDigit
  <2>5. CASE WidthStar
    <3>1. PICK w \in Stars : /\ width' = Magnitude(w)
                             /\ flags' = IF w < 0 THEN flags \cup {"left"} ELSE flags
      BY <2>5 DEF WidthStar
    <3>2. w \in Int
      BY PrintfAssumption
    <3>3. Magnitude(w) \in Nat
      BY <3>2 DEF Magnitude
    <3>4. QED
      BY <2>1, <2>5, <3>1, <3>3 DEF WidthStar, Flag
  <2>6. CASE Point
    BY <2>1, <2>6 DEF Point, Flag
  <2>7. CASE PrecisionDigit
    BY <2>1, <2>7, PrintfAssumption DEF PrecisionDigit
  <2>8. CASE PrecisionStar
    <3>1. PICK p \in Stars : precision' = IF p > 0 THEN p ELSE 0
      BY <2>8 DEF PrecisionStar
    <3>2. p \in Int
      BY PrintfAssumption
    <3>3. precision' \in Nat
      BY <3>1, <3>2
    <3>4. QED
      BY <2>1, <2>8, <3>3 DEF PrecisionStar
  <2>9. CASE TakeLength
    BY <2>1, <2>9 DEF TakeLength, Flag
  <2>10. QED
    BY <2>2, <2>3, <2>4, <2>5, <2>6, <2>7, <2>8, <2>9 DEF Parsing
<1>4. Bounded'
  BY <1>1, <1>2, OutputKept DEF InDirective
<1>5. TypeOK'
  BY <1>1, <1>2, <1>3, <1>4, PrintfAssumption DEF TypeOK, Bounded
<1>6. FieldFilled'
  BY <1>2, NothingToFill
<1>7. QED
  BY <1>4, <1>5, <1>6 DEF IInv, Bounded

(* What every action that prints a text has in common.                      *)
Printing(s) ==
  /\ pc \in InDirective \cup {"text"} /\ pc' \in {"text", "lost"}
  /\ read' \in 0..MaxFormat
  /\ UNCHANGED parse
  /\ Emit(s)

LEMMA ReadPrinting ==
  ASSUME TypeOK, Read(InDirective, "text"), UNCHANGED parse, NEW s, Emit(s)
  PROVE  Printing(s) /\ pc' = "text"
<1>1. read' \in 0..MaxFormat
  BY PrintfAssumption DEF TypeOK, Read
<1>2. QED
  BY <1>1 DEF Read, Printing

LEMMA PrintingBounded ==
  ASSUME IInv, NEW s, Len(s) \in Nat, Printing(s)
  PROVE  /\ Bounded'
         /\ read' \in 0..MaxFormat
         /\ flags' \in SUBSET Flag /\ width' \in Nat /\ precision' \in Nat
         /\ flags' = flags /\ width' = width /\ precision' = precision
<1>1. Bounded /\ TypeOK
  BY DEF IInv, Bounded, TypeOK
<1>2. Bounded'
  BY <1>1, EmitBounded DEF Printing, InDirective
<1>3. QED
  BY <1>1, <1>2 DEF Printing, TypeOK, parse

LEMMA PrintedTyped ==
  ASSUME IInv, NEW s, Len(s) \in Nat, Printing(s), FieldFilled',
         pc' = "text",
         \/ TakeWord
         \/ UNCHANGED caller
         \/ SkipWords
  PROVE  IInv'
<1>1. TypeOK
  BY DEF IInv
<1>2. /\ Bounded' /\ read' \in 0..MaxFormat
      /\ flags' \in SUBSET Flag /\ width' \in Nat /\ precision' \in Nat
  BY PrintingBounded
<1>3. va' \in Nat /\ passed' \in Nat
  <2>1. va \in Nat /\ passed \in Nat
    BY <1>1 DEF TypeOK
  <2>2. CASE TakeWord
    BY <2>1, <2>2 DEF TakeWord
  <2>3. CASE UNCHANGED caller
    BY <2>1, <2>3 DEF caller
  <2>4. CASE SkipWords
    BY <2>1, <2>4 DEF SkipWords
  <2> QED
    BY <2>2, <2>3, <2>4
<1>4. TypeOK'
  BY <1>2, <1>3 DEF TypeOK, Bounded, InDirective
<1>5. QED
  BY <1>2, <1>4 DEF IInv, Bounded

LEMMA NumberFilled ==
  ASSUME FieldWidth' \in Nat, Integral', Len(last'.text) \in Nat,
         Len(last'.text) <= NtoaSize \/ Len(last'.text) <= FieldWidth',
         Len(last'.text) >= FieldWidth' \/ (ZeroPadded' /\ FieldWidth' > NtoaSize)
  PROVE  FieldFilled'
<1>1. ~(last'.kind \in {"char", "string"})
  BY DEF Integral
<1>2. QED
  BY <1>1 DEF FieldFilled

LEMMA IntegerInvariant == IInv /\ Integer => IInv'
<1> SUFFICES ASSUME IInv, Integer PROVE IInv'
  OBVIOUS
<1>1. PICK spec \in {"d", "u", "x", "o", "b"}, w \in Words :
        LET s == IntegerText(spec, w, precision, width, flags)
        IN /\ Emit(s)
           /\ last' = [kind |-> "integer", spec |-> spec, word |-> w, text |-> s]
  BY DEF Integer
<1> DEFINE s == IntegerText(spec, w, precision, width, flags)
<1>2. TypeOK
  BY DEF IInv
<1>3. width \in Nat /\ precision \in Nat /\ NtoaSize \in Nat
  BY <1>2, FormatOpsAssumption DEF TypeOK
<1>4. /\ Len(s) \in Nat
      /\ Len(s) <= NtoaSize \/ Len(s) <= width
      /\ Len(s) >= width \/ Cut(flags, width)
  BY <1>3, IntegerTextLength
<1>5. last'.kind = "integer" /\ last'.text = s /\ Emit(s)
  BY <1>1
<1> HIDE DEF s
<1>a. Read(InDirective, "text") /\ TakeWord /\ UNCHANGED parse
  BY DEF Integer
<1>6. Printing(s) /\ TakeWord /\ pc' = "text"
  BY <1>2, <1>5, <1>a, ReadPrinting
<1>7. flags' = flags /\ width' = width
  BY <1>4, <1>6, PrintingBounded
<1>8. FieldWidth' = width /\ Integral'
  BY <1>5, <1>7 DEF FieldWidth, Integral
<1>9. Cut(flags, width) => ZeroPadded' /\ FieldWidth' > NtoaSize
  BY <1>7, <1>8 DEF Cut, ZeroPadded
<1>10. FieldFilled'
  BY <1>3, <1>4, <1>5, <1>8, <1>9, NumberFilled
<1>11. QED
  BY <1>4, <1>6, <1>10, PrintedTyped

LEMMA PointerInvariant == IInv /\ Pointer => IInv'
<1> SUFFICES ASSUME IInv, Pointer PROVE IInv'
  OBVIOUS
<1>1. PICK w \in Words :
        LET s == PointerText(w, precision, flags)
        IN /\ Emit(s)
           /\ last' = [kind |-> "pointer", word |-> w, text |-> s]
  BY DEF Pointer
<1> DEFINE s == PointerText(w, precision, flags)
<1>2. TypeOK
  BY DEF IInv
<1>3. precision \in Nat /\ NtoaSize \in Nat /\ PtrWidth \in Nat
  BY <1>2, FormatOpsAssumption DEF TypeOK
<1>4. /\ Len(s) \in Nat
      /\ Len(s) <= NtoaSize \/ Len(s) <= PtrWidth
      /\ Len(s) >= PtrWidth
  BY <1>3, PointerTextLength
<1>5. last'.kind = "pointer" /\ last'.text = s /\ Emit(s)
  BY <1>1
<1> HIDE DEF s
<1>a. Read(InDirective, "text") /\ TakeWord /\ UNCHANGED parse
  BY DEF Pointer
<1>6. Printing(s) /\ TakeWord /\ pc' = "text"
  BY <1>2, <1>5, <1>a, ReadPrinting
<1>7. FieldWidth' = PtrWidth /\ Integral'
  BY <1>5 DEF FieldWidth, Integral
<1>8. FieldFilled'
  BY <1>3, <1>4, <1>5, <1>7, NumberFilled
<1>9. QED
  BY <1>4, <1>6, <1>8, PrintedTyped

LEMMA CharacterInvariant == IInv /\ Character => IInv'
<1> SUFFICES ASSUME IInv, Character PROVE IInv'
  OBVIOUS
<1>1. PICK c \in {Other, Nul} :
        LET s == CharText(c, width, flags)
        IN /\ Emit(s)
           /\ last' = [kind |-> "char", size |-> 1, text |-> s]
  BY DEF Character
<1> DEFINE s == CharText(c, width, flags)
<1>2. TypeOK
  BY DEF IInv
<1>3. width \in Nat
  BY <1>2 DEF TypeOK
<1>4. <<c>> \in Seq(Char) /\ Len(<<c>>) = 1
  BY DEF Char, Other, Nul
<1>b. /\ Len(Justified(<<c>>, width, flags)) \in Nat
      /\ Len(Justified(<<c>>, width, flags)) = IF Len(<<c>>) < width THEN width ELSE Len(<<c>>)
  BY <1>3, <1>4, JustifiedLength
<1>c. s = Justified(<<c>>, width, flags)
  BY DEF CharText
<1> HIDE DEF s
<1>d. Len(s) \in Nat /\ Len(s) = IF Len(<<c>>) < width THEN width ELSE Len(<<c>>)
  BY <1>b, <1>c
<1>5. Len(s) \in Nat /\ Len(s) = IF 1 < width THEN width ELSE 1
  BY <1>4, <1>d
<1>6. last'.kind = "char" /\ last'.size = 1 /\ last'.text = s /\ Emit(s)
  BY <1>1 DEF s
<1>a. Read(InDirective, "text") /\ TakeWord /\ UNCHANGED parse
  BY DEF Character
<1>7. Printing(s) /\ TakeWord /\ pc' = "text"
  BY <1>2, <1>6, <1>a, ReadPrinting
<1>8. width' = width
  BY <1>5, <1>7, PrintingBounded
<1>9. FieldFilled'
  BY <1>5, <1>6, <1>8 DEF FieldFilled, Integral
<1>10. QED
  BY <1>5, <1>7, <1>9, PrintedTyped

LEMMA StringInvariant == IInv /\ String => IInv'
<1> SUFFICES ASSUME IInv, String PROVE IInv'
  OBVIOUS
<1>1. PICK p \in Strings :
        LET s == StringText(p, precision, width, flags)
        IN /\ Emit(s)
           /\ last' = [kind |-> "string", size |-> Len(p), text |-> s]
  BY DEF String
<1> DEFINE s == StringText(p, precision, width, flags)
<1>2. TypeOK
  BY DEF IInv
<1>3. width \in Nat /\ precision \in Nat
  BY <1>2 DEF TypeOK
<1>4. /\ Len(s) \in Nat
      /\ Len(s) = IF Own(p, precision, flags) < width THEN width ELSE Own(p, precision, flags)
  BY <1>3, StringTextLength
<1> HIDE DEF s
<1>5. last'.kind = "string" /\ last'.size = Len(p) /\ last'.text = s /\ Emit(s)
  BY <1>1 DEF s
<1>a. Read(InDirective, "text") /\ TakeWord /\ UNCHANGED parse
  BY DEF String
<1>6. Printing(s) /\ TakeWord /\ pc' = "text"
  BY <1>2, <1>5, <1>a, ReadPrinting
<1>7. flags' = flags /\ width' = width /\ precision' = precision
  BY <1>4, <1>6, PrintingBounded
<1>8. FieldFilled'
  BY <1>4, <1>5, <1>7 DEF FieldFilled, Integral, Own
<1>9. QED
  BY <1>4, <1>6, <1>8, PrintedTyped

LEMMA OtherInvariant == IInv /\ (TextChar \/ Literal \/ Float) => IInv'
<1> SUFFICES ASSUME IInv, TextChar \/ Literal \/ Float PROVE IInv'
  OBVIOUS
<1>1. /\ Emit(<<Other>>) /\ last' = NoDirective /\ UNCHANGED parse
      /\ UNCHANGED caller \/ SkipWords
      /\ Read({"text"}, "text") \/ Read(InDirective, "text")
  BY DEF TextChar, Literal, Float, caller, parse
<1>2. Len(<<Other>>) \in Nat
  OBVIOUS
<1>3. pc \in InDirective \cup {"text"} /\ pc' = "text" /\ read' \in 0..MaxFormat
  BY <1>1, PrintfAssumption DEF IInv, TypeOK, Read
<1>4. Printing(<<Other>>)
  BY <1>1, <1>3 DEF Printing
<1>5. FieldFilled'
  BY <1>1, NothingToFill
<1>6. QED
  BY <1>1, <1>2, <1>3, <1>4, <1>5, PrintedTyped

LEMMA LongLongInvariant == IInv /\ LongLong => IInv'
<1> SUFFICES ASSUME IInv, LongLong PROVE IInv'
  OBVIOUS
<1>1. /\ Bounded /\ TypeOK
      /\ Read(InDirective, "text") /\ SkipWords /\ last' = NoDirective
      /\ UNCHANGED <<parse, output>>
  BY DEF IInv, Bounded, TypeOK, LongLong
<1>2. Bounded'
  BY <1>1, OutputKept DEF Read, InDirective
<1>3. va' \in Nat /\ passed' \in Nat
  BY <1>1 DEF TypeOK, SkipWords
<1>a. /\ flags' \in SUBSET Flag /\ width' \in Nat /\ precision' \in Nat
      /\ read' \in 0..MaxFormat /\ pc' = "text"
  BY <1>1, PrintfAssumption DEF TypeOK, Read, parse
<1>4. TypeOK'
  BY <1>1, <1>2, <1>3, <1>a DEF TypeOK, Bounded, InDirective
<1>5. FieldFilled'
  BY <1>1, NothingToFill
<1>6. QED
  BY <1>2, <1>4, <1>5 DEF IInv, Bounded

LEMMA LostInvariant == IInv /\ (StringAstray \/ CutOff) => IInv'
<1> SUFFICES ASSUME IInv, StringAstray \/ CutOff PROVE IInv'
  OBVIOUS
<1>1. Bounded /\ TypeOK
  BY DEF IInv, Bounded, TypeOK
<1>2. /\ pc \in InDirective /\ pc' = "lost" /\ read' \in 0..MaxFormat
      /\ last' = NoDirective /\ UNCHANGED parse /\ UNCHANGED caller
  BY <1>1, PrintfAssumption DEF StringAstray, CutOff, Read, TypeOK, parse, caller
<1>3. Bounded'
  <2>1. CASE StringAstray
    BY <1>1, <1>2, <2>1, OutputKept DEF StringAstray, InDirective
  <2>2. CASE CutOff
    BY <1>1, <1>2, <2>2, EmitBounded DEF CutOff, InDirective
  <2>3. QED
    BY <2>1, <2>2
<1>4. TypeOK'
  BY <1>1, <1>2, <1>3 DEF TypeOK, Bounded, InDirective, parse, caller
<1>5. FieldFilled'
  BY <1>2, NothingToFill
<1>6. QED
  BY <1>3, <1>4, <1>5 DEF IInv, Bounded

LEMMA TerminateInvariant == IInv /\ Terminate => IInv'
<1> SUFFICES ASSUME IInv, Terminate PROVE IInv'
  OBVIOUS
<1>1. Bounded /\ TypeOK
  BY DEF IInv, Bounded, TypeOK
<1>2. /\ pc' = "done" /\ last' = NoDirective /\ UNCHANGED <<read, parse, caller>>
  BY DEF Terminate
<1>3. Bounded'
  BY <1>1, TerminateBounded
<1>4. TypeOK'
  BY <1>1, <1>2, <1>3 DEF TypeOK, Bounded, InDirective, parse, caller
<1>5. FieldFilled'
  BY <1>2, NothingToFill
<1>6. QED
  BY <1>3, <1>4, <1>5 DEF IInv, Bounded

(* The invariant is inductive, for any words, counts and formats.           *)
THEOREM PrintfInductive == Spec => []IInv
<1>1. Init => IInv
  BY InitInvariant
<1>2. IInv /\ [Next]_vars => IInv'
  <2> SUFFICES ASSUME IInv, [Next]_vars PROVE IInv'
    OBVIOUS
  <2>1. CASE Next
    BY <2>1, ParsingInvariant, IntegerInvariant, LongLongInvariant, PointerInvariant,
       CharacterInvariant, StringInvariant, OtherInvariant, LostInvariant,
       TerminateInvariant DEF Next, Parsing
  <2>2. CASE UNCHANGED vars
    BY <2>2 DEF vars, IInv, TypeOK, TextBounded, Text, FieldFilled, Integral, ZeroPadded,
       FieldWidth
  <2>3. QED
    BY <2>1, <2>2
<1>3. QED
  BY <1>1, <1>2, PTL DEF Spec

(* snprintf's buffer holds the beginning of the text and a NUL, never more  *)
(* than its count, for every format, every argument and every count.        *)
THEOREM OutputBounded == Spec => []TextBounded
<1>1. IInv => TextBounded
  BY DEF IInv
<1>2. QED
  BY <1>1, PrintfInductive, PTL

(* No field is printed shorter than its width, but for zeros that would not *)
(* fit _ntoa_long's buffer, and that buffer is never overrun.               *)
THEOREM FieldsFilled == Spec => []FieldFilled
<1>1. IInv => FieldFilled
  BY DEF IInv
<1>2. QED
  BY <1>1, PrintfInductive, PTL

----------------------------------------------------------------------------
(* The digits of a value, and what a text that holds them reads back as.    *)

LEMMA DivisionMonotone ==
  ASSUME NEW a \in Nat, NEW c \in Nat, a <= c, NEW b \in Nat, b >= 2
  PROVE  a \div b \in Nat /\ a \div b <= c \div 2 /\ c \div 2 \in Nat
<1> DEFINE x == a \div b
           y == c \div 2
           r == a % b
<1>1. x \in Int /\ r \in 0..(b - 1) /\ a = b * x + r
  BY Division
<1>2. y \in Int /\ c <= 2 * y + 1 /\ y >= 0
  OBVIOUS
<1> HIDE DEF x, y, r
<1>3. x >= 0
  <2>1. CASE x <= -1
    <3>1. b * x <= b * (-1) /\ b * (-1) = -b
      BY <1>1, <2>1
    <3> QED
      BY <1>1, <3>1
  <2> QED
    BY <1>1, <2>1
<1>4. x <= y
  <2>1. CASE x >= y + 1
    <3>1. b * x >= 2 * x
      BY <1>1, <1>3
    <3> QED
      BY <1>1, <1>2, <2>1, <3>1
  <2> QED
    BY <1>1, <1>2, <2>1
<1> QED
  BY <1>1, <1>2, <1>3, <1>4 DEF x, y

(* The chain of the quotients of v.                                         *)
IsChain(q, v, base) ==
  /\ q[0] = v
  /\ \A i \in 0..NtoaSize : q[i] \in Nat
  /\ \A i \in 0..(NtoaSize - 1) : q[i + 1] = q[i] \div base

LEMMA QuotientsAre ==
  ASSUME NEW v \in Nat, NEW base \in Nat, base >= 2
  PROVE  IsChain(Quotients(v, base), v, base)
<1> DEFINE n == NtoaSize
           step == [p \in Nat \X Nat |-> p[2] \div base]
           q == CHOOSE f : f = [i \in 0..n |-> IF i = 0 THEN v ELSE f[i - 1] \div base]
<1>1. Quotients(v, base) = q
  BY DEF Quotients
<1>2. \A k \in Nat : k \div base \in Nat
  BY DivisionMonotone
<1>3. n \in Nat
  BY FormatOpsAssumption
<1>4. PICK g : Carries(g, Nat, v, step)
  <2>1. IsStep(step, Nat)
    BY <1>2 DEF IsStep
  <2> HIDE DEF step
  <2> QED
    BY <2>1, RecursionExists
<1> DEFINE P == [i \in 0..n |-> g[i]]
<1>5. ASSUME NEW i \in 0..n
      PROVE  P[i] = IF i = 0 THEN v ELSE P[i - 1] \div base
  <2>1. CASE i = 0
    BY <1>4, <2>1 DEF Carries
  <2>2. CASE i # 0
    <3>1. i - 1 \in 0..n /\ i - 1 \in Nat /\ (i - 1) + 1 = i
      BY <1>3, <2>2
    <3>2. g[(i - 1) + 1] = step[<<i - 1, g[i - 1]>>] /\ g[i - 1] \in Nat
      BY <1>4, <3>1 DEF Carries
    <3>3. g[i] = g[i - 1] \div base
      BY <3>1, <3>2
    <3> QED
      BY <2>2, <3>1, <3>3
  <2> QED
    BY <2>1, <2>2
<1>6. P = [i \in 0..n |-> IF i = 0 THEN v ELSE P[i - 1] \div base]
  <2>1. P = [i \in 0..n |-> P[i]]
    OBVIOUS
  <2> HIDE DEF P, n
  <2> QED
    BY <1>5, <2>1, Zenon
<1>7. q = [i \in 0..n |-> IF i = 0 THEN v ELSE q[i - 1] \div base]
  <2> HIDE DEF P, n
  <2> QED
    BY <1>6
<1> HIDE DEF q, P, step
<1>8. \A i \in 0..n : q[i] = IF i = 0 THEN v ELSE q[i - 1] \div base
  BY <1>7
<1>9. ASSUME NEW i \in 0..(n - 1) PROVE q[i + 1] = q[i] \div base
  <2>1. i + 1 \in 0..n /\ i + 1 # 0 /\ (i + 1) - 1 = i
    BY <1>3
  <2> QED
    BY <1>8, <2>1
<1>10. q[0] = v
  BY <1>3, <1>8
<1> DEFINE S == {i \in Nat : q[i] \in Nat}
<1>11. 0 \in S
  BY <1>10
<1>12. ASSUME NEW i \in 0..(n - 1), i \in S PROVE i + 1 \in S
  BY <1>2, <1>9, <1>12
<1>13. \A i \in 0..n : i \in S
  <2> HIDE DEF S, n
  <2> QED
    BY <1>3, <1>11, <1>12, InductionUpTo
<1> QED
  BY <1>1, <1>9, <1>10, <1>13 DEF IsChain

(* The digits of a word come to an end before the buffer does.              *)
LEMMA DigitsEnd ==
  ASSUME NEW v \in 0..(IntMod - 1), NEW base \in Nat, base >= 2
  PROVE  Quotients(v, base)[DigitCount(v, base)] = 0
<1> DEFINE q == Quotients(v, base)
           w == Quotients(IntMod - 1, 2)
           S == {i \in Nat : q[i] <= w[i]}
<1>1. IntMod - 1 \in Nat /\ NtoaSize \in Nat /\ v \in Nat
  BY FormatOpsAssumption
<1>2. IsChain(q, v, base) /\ IsChain(w, IntMod - 1, 2)
  <2>1. IsChain(q, v, base)
    BY <1>1, QuotientsAre
  <2>2. \A k \in Nat : IsChain(Quotients(k, 2), k, 2)
    BY QuotientsAre
  <2> QED
    BY <1>1, <2>1, <2>2
<1> HIDE DEF q, w
<1>3. 0 \in S
  BY <1>1, <1>2 DEF IsChain
<1>4. ASSUME NEW i \in 0..(NtoaSize - 1), i \in S PROVE i + 1 \in S
  <2>1. q[i] \in Nat /\ w[i] \in Nat /\ q[i] <= w[i]
    BY <1>1, <1>2, <1>4 DEF IsChain
  <2>2. q[i + 1] = q[i] \div base /\ w[i + 1] = w[i] \div 2
    BY <1>2 DEF IsChain
  <2>3. q[i] \div base <= w[i] \div 2
    BY <2>1, DivisionMonotone
  <2> QED
    BY <2>2, <2>3
<1>5. \A i \in 0..NtoaSize : i \in S
  <2> HIDE DEF S
  <2> QED
    BY <1>1, <1>3, <1>4, InductionUpTo
<1>6. q[NtoaSize] = 0
  <2>1. q[NtoaSize] <= w[NtoaSize] /\ q[NtoaSize] \in Nat
    BY <1>1, <1>2, <1>5 DEF IsChain
  <2>2. w[NtoaSize] = 0
    BY WordFits DEF w
  <2> QED
    BY <2>1, <2>2
<1> QED
  BY <1>6, DigitCountIs DEF q

(* A digit is less than its base.                                           *)
LEMMA DigitIs ==
  ASSUME NEW x \in Nat, NEW base \in Nat, base >= 2
  PROVE  \E r \in 0..(base - 1) : r = x % base /\ x = (x \div base) * base + r
<1>1. x \in Int /\ base \in Nat \ {0}
  OBVIOUS
<1>2. /\ x \div base \in Int /\ x % base \in 0..(base - 1)
      /\ x = base * (x \div base) + (x % base)
  BY <1>1, Division
<1> DEFINE r == x % base
           y == x \div base
<1>3. y \in Int /\ r \in 0..(base - 1) /\ x = base * y + r
  BY <1>2
<1> HIDE DEF r, y
<1>4. x = y * base + r
  BY <1>3
<1>5. r = x % base /\ y = x \div base
  BY DEF r, y
<1> QED
  BY <1>3, <1>4, <1>5, Zenon

LEMMA ChainDigits ==
  ASSUME NEW q, NEW v, NEW base \in Nat, base >= 2, IsChain(q, v, base),
         NEW i \in 0..(NtoaSize - 1)
  PROVE  /\ q[i] \in Nat /\ q[i + 1] \in Nat
         /\ \E r \in 0..(base - 1) : r = q[i] % base /\ q[i] = q[i + 1] * base + r
<1>1. NtoaSize \in Nat /\ i \in 0..NtoaSize /\ i + 1 \in 0..NtoaSize
  BY FormatOpsAssumption
<1>2. q[i] \in Nat /\ q[i + 1] \in Nat /\ q[i + 1] = q[i] \div base
  BY <1>1 DEF IsChain
<1> DEFINE x == q[i]
<1>3. x \in Nat
  BY <1>2
<1> HIDE DEF x
<1>4. \E r \in 0..(base - 1) : r = x % base /\ x = (x \div base) * base + r
  BY <1>3, DigitIs
<1> QED
  BY <1>2, <1>4, Zenon DEF x

(* A text that shows the digits d, the last of them first, behind what adds *)
(* nothing to them and before what is no digit.                             *)
ShowsAt(s, d, o) ==
  /\ o + Len(d) <= Len(s)
  /\ \A i \in 1..o : s[i] \notin 1..15
  /\ \A j \in 1..Len(d) : s[o + j] = d[Len(d) + 1 - j]
  /\ \A i \in (o + Len(d) + 1)..Len(s) : s[i] \notin 0..15

Shows(s, d) == Len(s) \in Nat /\ \E o \in Nat : ShowsAt(s, d, o)

(* The digits of v, all of them.                                            *)
DigitsOf(d, v, base) ==
  /\ Len(d) \in 0..NtoaSize
  /\ \A k \in 1..Len(d) : d[k] = Quotients(v, base)[k - 1] % base
  /\ Quotients(v, base)[Len(d)] = 0

LEMMA ReadBackIs ==
  ASSUME NEW s, NEW d, NEW v \in Nat, NEW base \in 2..16, DigitsOf(d, v, base), Shows(s, d)
  PROVE  ReadBack(s, base) = v
<1> DEFINE n == Len(s)
           k == Len(d)
           q == Quotients(v, base)
           upto == CHOOSE f : f = [i \in 0..n |-> IF i = 0 THEN 0
                             ELSE IF s[i] \in 0..15 THEN f[i - 1] * base + s[i]
                             ELSE f[i - 1]]
<1>1. ReadBack(s, base) = upto[n]
  BY DEF ReadBack
<1>2. PICK o \in Nat : ShowsAt(s, d, o)
  BY DEF Shows
<1>3. n \in Nat /\ k \in Nat /\ k <= NtoaSize /\ NtoaSize \in Nat /\ o + k <= n
  BY <1>2, FormatOpsAssumption DEF Shows, ShowsAt, DigitsOf
<1>4. IsChain(q, v, base)
  BY QuotientsAre
<1>5. q[0] = v /\ q[k] = 0
  BY <1>4 DEF IsChain, DigitsOf
<1>6. ASSUME NEW i \in (o + 1)..(o + k)
      PROVE  /\ s[i] \in 0..15 /\ q[k - (i - o)] \in Nat /\ q[k + 1 - (i - o)] \in Nat
             /\ q[k - (i - o)] = q[k + 1 - (i - o)] * base + s[i]
  <2> DEFINE m == k - (i - o)
  <2>1. m \in 0..(NtoaSize - 1) /\ i - o \in 1..k /\ o + (i - o) = i /\ k + 1 - (i - o) = m + 1
        /\ m + 1 \in 1..k
    BY <1>3
  <2>2. s[i] = d[m + 1]
    BY <1>2, <2>1 DEF ShowsAt
  <2>3. d[m + 1] = q[m] % base
    <3>1. (m + 1) - 1 = m
      BY <2>1
    <3> HIDE DEF m, q
    <3> QED
      BY <2>1, <3>1 DEF DigitsOf, q
  <2> HIDE DEF m, q
  <2>4. q[m] \in Nat /\ q[m + 1] \in Nat
    BY <1>4, <2>1, ChainDigits
  <2>5. PICK r \in 0..(base - 1) : r = q[m] % base /\ q[m] = q[m + 1] * base + r
    BY <1>4, <2>1, ChainDigits
  <2>6. s[i] = r
    BY <2>2, <2>3, <2>5, Zenon
  <2>7. q[m] = q[m + 1] * base + s[i]
    BY <2>5, <2>6, Zenon
  <2>8. s[i] \in 0..15
    <3>1. r \in 0..(base - 1)
      OBVIOUS
    <3> QED
      BY <2>6, <3>1
  <2> QED
    BY <2>1, <2>4, <2>7, <2>8, Zenon DEF m
<1> HIDE DEF q
<1> DEFINE P == [i \in 0..n |-> IF i <= o THEN 0
                                ELSE IF i <= o + k THEN q[k - (i - o)] ELSE v]
<1>7. ASSUME NEW i \in 0..n
      PROVE  P[i] = IF i = 0 THEN 0
                    ELSE IF s[i] \in 0..15 THEN P[i - 1] * base + s[i]
                    ELSE P[i - 1]
  <2>1. CASE i = 0
    BY <1>3, <2>1
  <2>2. CASE i \in 1..o
    <3>1. P[i] = 0 /\ P[i - 1] = 0
      BY <1>3, <2>2
    <3>2. s[i] \notin 1..15
      BY <1>2, <2>2 DEF ShowsAt
    <3> HIDE DEF P
    <3>3. s[i] \in 0..15 => s[i] = 0
      BY <3>2
    <3> QED
      BY <2>2, <3>1, <3>3
  <2>3. CASE i \in (o + 1)..(o + k)
    <3>1. P[i] = q[k - (i - o)]
      BY <1>3, <2>3
    <3>2. P[i - 1] = q[k + 1 - (i - o)]
      <4>1. CASE i = o + 1
        <5>1. P[i - 1] = 0 /\ k + 1 - (i - o) = k
          BY <1>3, <2>3, <4>1
        <5> QED
          BY <1>5, <5>1
      <4>2. CASE i # o + 1
        <5>1. i - 1 \in 0..n /\ ~(i - 1 <= o) /\ i - 1 <= o + k /\ k - ((i - 1) - o) = k + 1 - (i - o)
          BY <1>3, <2>3, <4>2
        <5> QED
          BY <5>1
      <4> QED
        BY <4>1, <4>2
    <3> HIDE DEF P
    <3> QED
      BY <1>3, <1>6, <2>3, <3>1, <3>2
  <2>4. CASE i \in (o + k + 1)..n
    <3>1. P[i] = v
      BY <1>3, <2>4
    <3>2. P[i - 1] = v
      <4>1. CASE i # o + k + 1
        BY <1>3, <2>4, <4>1
      <4>2. CASE i = o + k + 1 /\ k > 0
        <5>1. i - 1 \in 0..n /\ ~(i - 1 <= o) /\ i - 1 <= o + k /\ k - ((i - 1) - o) = 0
          BY <1>3, <2>4, <4>2
        <5> QED
          BY <1>5, <5>1
      <4>3. CASE i = o + k + 1 /\ k = 0
        <5>1. P[i - 1] = 0
          BY <1>3, <2>4, <4>3
        <5> QED
          BY <1>5, <4>3, <5>1
      <4> QED
        BY <1>3, <4>1, <4>2, <4>3
    <3>3. s[i] \notin 0..15
      BY <1>2, <2>4 DEF ShowsAt
    <3> HIDE DEF P
    <3> QED
      BY <1>3, <2>4, <3>1, <3>2, <3>3
  <2> QED
    BY <1>3, <2>1, <2>2, <2>3, <2>4
<1>8. P = [i \in 0..n |-> IF i = 0 THEN 0
                          ELSE IF s[i] \in 0..15 THEN P[i - 1] * base + s[i]
                          ELSE P[i - 1]]
  <2>1. P = [i \in 0..n |-> P[i]]
    OBVIOUS
  <2> HIDE DEF P, n
  <2> QED
    BY <1>7, <2>1, Zenon
<1>9. upto = [i \in 0..n |-> IF i = 0 THEN 0
                             ELSE IF s[i] \in 0..15 THEN upto[i - 1] * base + s[i]
                             ELSE upto[i - 1]]
  <2> HIDE DEF P, n
  <2> QED
    BY <1>8
<1> HIDE DEF upto
<1>10. \A i \in 0..n : upto[i] = IF i = 0 THEN 0
                                 ELSE IF s[i] \in 0..15 THEN upto[i - 1] * base + s[i]
                                 ELSE upto[i - 1]
  BY <1>9
<1>11. P[n] = v
  <2>1. n <= o => n = o /\ k = 0
    BY <1>3
  <2>2. ~(n <= o) /\ n <= o + k => k - (n - o) = 0
    BY <1>3
  <2> HIDE DEF n, k
  <2> QED
    BY <1>3, <1>5, <2>1, <2>2
<1> HIDE DEF P
<1> DEFINE S == {i \in Nat : upto[i] = P[i]}
<1>12. 0 \in S
  BY <1>3, <1>7, <1>10
<1>13. ASSUME NEW i \in 0..(n - 1), i \in S PROVE i + 1 \in S
  <2>1. i + 1 \in 0..n /\ i + 1 # 0 /\ (i + 1) - 1 = i /\ i + 1 \in Nat
    BY <1>3
  <2>2. upto[i] = P[i]
    BY <1>13
  <2> QED
    BY <1>7, <1>10, <2>1, <2>2
<1>14. \A i \in 0..n : i \in S
  <2> HIDE DEF S, n
  <2> QED
    BY <1>3, <1>12, <1>13, InductionUpTo
<1>15. upto[n] = P[n]
  <2>1. n \in 0..n
    BY <1>3
  <2> QED
    BY <1>14, <2>1
<1> QED
  BY <1>1, <1>11, <1>15

----------------------------------------------------------------------------
(* The buffer of _ntoa_long at each stage of _ntoa_format.                  *)

(* The digits d come first in the buffer and what follows adds nothing.     *)
Begun(buf, d) ==
  /\ buf \in Buffer(Char)
  /\ Len(d) \in 0..Len(buf)
  /\ \A k \in 1..Len(d) : buf[k] = d[k]
  /\ \A k \in (Len(d) + 1)..Len(buf) : buf[k] \notin 1..15

LEMMA AddBegun ==
  ASSUME NEW d, NEW buf, Begun(buf, d), NEW c \in Char \ (1..15)
  PROVE  Begun(Add(buf, c), d)
<1>1. /\ buf \in Seq(Char) /\ Len(buf) \in Nat /\ Len(buf) <= NtoaSize
      /\ Len(d) \in Nat /\ Len(d) <= Len(buf)
  BY DEF Begun, Buffer
<1>2. CASE Len(buf) < NtoaSize
  <2> DEFINE r == Append(buf, c)
  <2>1. Add(buf, c) = r
    BY <1>2 DEF Add
  <2>2. /\ r \in Seq(Char) /\ Len(r) = Len(buf) + 1 /\ r[Len(buf) + 1] = c
        /\ \A k \in 1..Len(buf) : r[k] = buf[k]
    BY <1>1
  <2> HIDE DEF r
  <2>3. Len(r) <= NtoaSize
    BY <1>1, <1>2, <2>2, FormatOpsAssumption
  <2>4. \A k \in 1..Len(d) : r[k] = d[k]
    BY <1>1, <2>2 DEF Begun
  <2>5. ASSUME NEW k \in (Len(d) + 1)..Len(r) PROVE r[k] \notin 1..15
    <3>1. CASE k = Len(buf) + 1
      BY <2>2, <3>1
    <3>2. CASE k # Len(buf) + 1
      <4>1. k \in 1..Len(buf) /\ k \in (Len(d) + 1)..Len(buf)
        BY <1>1, <2>2, <3>2
      <4> QED
        BY <2>2, <4>1 DEF Begun
    <3> QED
      BY <3>1, <3>2
  <2> QED
    BY <1>1, <2>1, <2>2, <2>3, <2>4, <2>5 DEF Begun, Buffer
<1>3. CASE ~(Len(buf) < NtoaSize)
  BY <1>3 DEF Add
<1> QED
  BY <1>2, <1>3

LEMMA ZerosToBegun ==
  ASSUME NEW d, NEW buf, Begun(buf, d), NEW n \in Nat
  PROVE  LET r == ZerosTo(buf, n)
         IN  /\ Begun(r, d)
             /\ Len(r) = IF Len(buf) < Smaller(n, NtoaSize) THEN Smaller(n, NtoaSize)
                         ELSE Len(buf)
<1> DEFINE m == Smaller(n, NtoaSize) - Len(buf)
           z == Fill(Zero, m)
           r == ZerosTo(buf, n)
<1>1. /\ buf \in Seq(Char) /\ Len(buf) \in Nat /\ Len(buf) <= NtoaSize /\ NtoaSize \in Nat
      /\ Len(d) \in Nat /\ Len(d) <= Len(buf) /\ Smaller(n, NtoaSize) \in Nat /\ m \in Int
      /\ Smaller(n, NtoaSize) <= NtoaSize
  BY FormatOpsAssumption DEF Begun, Buffer, Smaller
<1>2. z \in Seq({Zero}) /\ Len(z) = AtLeast0(m)
  <2> HIDE DEF m
  <2> QED
    BY <1>1, FillSeq
<1>a. z \in Seq(Char)
  <2>1. z \in Seq({Zero}) /\ {Zero} \subseteq Char
    BY <1>2 DEF Char, Zero
  <2> HIDE DEF z
  <2> QED
    BY <2>1, SeqMonotonic
<1>3. r = buf \o z
  BY DEF ZerosTo
<1> HIDE DEF z, r
<1>4. /\ r \in Seq(Char) /\ Len(r) = Len(buf) + Len(z)
      /\ \A k \in 1..Len(buf) : r[k] = buf[k]
      /\ \A k \in (Len(buf) + 1)..Len(r) : r[k] = z[k - Len(buf)]
  BY <1>1, <1>a, <1>3
<1>5. Len(r) = IF Len(buf) < Smaller(n, NtoaSize) THEN Smaller(n, NtoaSize) ELSE Len(buf)
  BY <1>1, <1>2, <1>4 DEF AtLeast0
<1>6. \A k \in 1..Len(d) : r[k] = d[k]
  BY <1>1, <1>4 DEF Begun
<1>7. ASSUME NEW k \in (Len(d) + 1)..Len(r) PROVE r[k] \notin 1..15
  <2>1. CASE k <= Len(buf)
    BY <1>1, <1>4, <2>1 DEF Begun
  <2>2. CASE ~(k <= Len(buf))
    <3>1. k \in (Len(buf) + 1)..Len(r) /\ k - Len(buf) \in 1..Len(z)
      BY <1>1, <1>2, <1>4, <2>2 DEF AtLeast0
    <3>2. z[k - Len(buf)] = Zero
      BY <1>2, <3>1
    <3> QED
      BY <1>4, <3>1, <3>2 DEF Zero
  <2> QED
    BY <2>1, <2>2
<1>8. Len(r) <= NtoaSize
  BY <1>1, <1>5
<1>9. Begun(r, d)
  BY <1>1, <1>4, <1>5, <1>6, <1>7, <1>8 DEF Begun, Buffer
<1> QED
  BY <1>5, <1>9 DEF r

(* What TakeBack removes.                                                   *)
Taken(buf, base) == IF base = 16 /\ Len(buf) > 1 THEN 2 ELSE 1

LEMMA TakeBackBegun ==
  ASSUME NEW d, NEW buf, Begun(buf, d), NEW base, NEW prec \in Nat, NEW w \in Nat, NEW f,
         "precision" \notin f /\ Len(buf) \in {prec, w}
            => Len(d) + Taken(buf, base) <= Len(buf)
  PROVE  Begun(TakeBack(buf, base, prec, w, f), d)
<1>1. /\ buf \in Seq(Char) /\ Len(buf) \in Nat /\ Len(buf) <= NtoaSize
      /\ Len(d) \in Nat /\ Len(d) <= Len(buf)
  BY DEF Begun, Buffer
<1>2. CASE TakeBack(buf, base, prec, w, f) = buf
  BY <1>2
<1>3. CASE TakeBack(buf, base, prec, w, f) # buf
  <2> DEFINE r == SubSeq(buf, 1, Len(buf) - Taken(buf, base))
             m == Len(buf) - Taken(buf, base)
  <2>1. /\ TakeBack(buf, base, prec, w, f) = r
        /\ "precision" \notin f /\ Len(buf) \in {prec, w}
    BY <1>3 DEF TakeBack, Taken
  <2>2. m \in Nat /\ Len(d) <= m /\ m <= Len(buf)
    BY <1>1, <2>1 DEF Taken
  <2>3. r \in Seq(Char) /\ Len(r) = m /\ \A k \in 1..m : r[k] = buf[k]
    <3>1. r = SubSeq(buf, 1, m)
      OBVIOUS
    <3> HIDE DEF r, m
    <3>2. \A i \in 1..m : buf[i] \in Char
      BY <1>1, <2>2
    <3> QED
      BY <1>1, <2>2, <3>1, <3>2, SubSeqProperties
  <2> HIDE DEF r, m
  <2>4. \A k \in 1..Len(d) : r[k] = d[k]
    BY <1>1, <2>2, <2>3 DEF Begun
  <2>5. \A k \in (Len(d) + 1)..Len(r) : r[k] \notin 1..15
    BY <1>1, <2>2, <2>3 DEF Begun
  <2> QED
    BY <1>1, <2>1, <2>2, <2>3, <2>4, <2>5, FormatOpsAssumption DEF Begun, Buffer
<1> QED
  BY <1>2, <1>3

LEMMA PutMarkBegun ==
  ASSUME NEW d, NEW buf, Begun(buf, d), NEW base
  PROVE  Begun(PutMark(buf, base), d)
<1>1. {Zero, HexMark, BinMark} \subseteq Char \ (1..15)
  BY DEF Char, Zero, HexMark, BinMark
<1> DEFINE r == IF base = 16 THEN Add(buf, HexMark)
                ELSE IF base = 2 THEN Add(buf, BinMark) ELSE buf
<1>2. Begun(r, d)
  BY <1>1, AddBegun
<1> HIDE DEF r
<1>3. Begun(Add(r, Zero), d)
  BY <1>1, <1>2, AddBegun
<1> QED
  BY <1>3 DEF PutMark, r

LEMMA PutSignBegun ==
  ASSUME NEW d, NEW buf, Begun(buf, d), NEW neg, NEW f
  PROVE  Begun(PutSign(buf, neg, f), d)
<1>1. {Minus, Plus, Blank} \subseteq Char \ (1..15)
  BY DEF Char, Minus, Plus, Blank
<1>2. \A c \in {Minus, Plus, Blank} : Begun(Add(buf, c), d)
  BY <1>1, AddBegun
<1> QED
  BY <1>2 DEF PutSign

(* A text is a buffer backwards, between blanks.                            *)
Backwards(t, buf) ==
  \E a, b \in Nat :
    /\ Len(t) = a + Len(buf) + b
    /\ \A i \in 1..a : t[i] = Blank
    /\ \A i \in 1..Len(buf) : t[a + i] = buf[Len(buf) + 1 - i]
    /\ \A i \in (a + Len(buf) + 1)..Len(t) : t[i] = Blank

LEMMA OutRevIs ==
  ASSUME NEW S, Blank \in S, NEW buf \in Seq(S), NEW w \in Nat, NEW f
  PROVE  OutRev(buf, w, f) \in Seq(S) /\ Backwards(OutRev(buf, w, f), buf)
<1> DEFINE blanks == Fill(Blank, w - Len(buf))
           front == IF f \cap {"left", "zero"} = {} THEN blanks ELSE << >>
           back == IF "left" \in f THEN blanks ELSE << >>
           rev == Reversed(buf)
           t == OutRev(buf, w, f)
<1>1. Len(buf) \in Nat /\ w - Len(buf) \in Int
  OBVIOUS
<1>2. blanks \in Seq({Blank})
  BY <1>1, FillSeq
<1>3. rev \in Seq(S) /\ Len(rev) = Len(buf) /\ \A i \in 1..Len(buf) : rev[i] = buf[Len(buf) + 1 - i]
  <2>1. rev \in Seq(S) /\ Len(rev) = Len(buf)
    BY ReversedSeq
  <2> QED
    BY <2>1 DEF Reversed
<1>4. t = (front \o rev) \o back
  BY DEF OutRev
<1> HIDE DEF blanks, rev, t
<1>5. front \in Seq({Blank}) /\ back \in Seq({Blank})
  BY <1>2
<1> HIDE DEF front, back
<1>6. front \in Seq(S) /\ back \in Seq(S)
  BY <1>5, SeqMonotonic
<1>7. /\ Len(front) \in Nat /\ Len(back) \in Nat
      /\ \A i \in 1..Len(front) : front[i] = Blank
      /\ \A i \in 1..Len(back) : back[i] = Blank
  BY <1>5
<1> DEFINE u == front \o rev
<1>a. /\ u \in Seq(S) /\ Len(u) = Len(front) + Len(rev)
      /\ \A i \in 1..(Len(front) + Len(rev)) :
           u[i] = IF i <= Len(front) THEN front[i] ELSE rev[i - Len(front)]
  <2>1. front \in Seq(S) /\ rev \in Seq(S)
    BY <1>3, <1>6
  <2> QED
    BY <2>1, ConcatProperties
<1>8. /\ u \in Seq(S) /\ Len(u) = Len(front) + Len(buf)
      /\ \A i \in 1..Len(front) : u[i] = front[i]
      /\ \A i \in 1..Len(buf) : u[Len(front) + i] = rev[i]
  <2> HIDE DEF u
  <2>1. ASSUME NEW i \in 1..Len(buf) PROVE u[Len(front) + i] = rev[i]
    <3>1. Len(front) + i \in 1..(Len(front) + Len(rev)) /\ ~(Len(front) + i <= Len(front))
          /\ (Len(front) + i) - Len(front) = i
      BY <1>1, <1>3, <1>7
    <3> QED
      BY <1>a, <3>1
  <2> QED
    BY <1>1, <1>3, <1>7, <1>a, <2>1
<1> HIDE DEF u
<1>9. t = u \o back
  BY <1>4 DEF u
<1>10. /\ t \in Seq(S) /\ Len(t) = Len(u) + Len(back)
       /\ \A i \in 1..Len(u) : t[i] = u[i]
       /\ \A i \in (Len(u) + 1)..Len(t) : t[i] = back[i - Len(u)]
  <2>1. /\ u \o back \in Seq(S) /\ Len(u \o back) = Len(u) + Len(back)
        /\ \A i \in 1..(Len(u) + Len(back)) :
             (u \o back)[i] = IF i <= Len(u) THEN u[i] ELSE back[i - Len(u)]
    BY <1>6, <1>8, ConcatProperties
  <2>2. /\ t \in Seq(S) /\ Len(t) = Len(u) + Len(back)
        /\ \A i \in 1..Len(t) : t[i] = IF i <= Len(u) THEN u[i] ELSE back[i - Len(u)]
    BY <1>9, <2>1
  <2>3. Len(u) \in Nat /\ Len(back) \in Nat
    BY <1>1, <1>7, <1>8
  <2> QED
    BY <2>2, <2>3
<1>11. ASSUME NEW i \in 1..Len(front) PROVE t[i] = Blank
  <2>1. i \in 1..Len(u)
    BY <1>1, <1>7, <1>8
  <2> QED
    BY <1>7, <1>8, <1>10, <2>1
<1>12. ASSUME NEW i \in 1..Len(buf) PROVE t[Len(front) + i] = buf[Len(buf) + 1 - i]
  <2>1. Len(front) + i \in 1..Len(u)
    BY <1>1, <1>7, <1>8
  <2> QED
    BY <1>3, <1>8, <1>10, <2>1
<1>13. ASSUME NEW i \in (Len(front) + Len(buf) + 1)..Len(t) PROVE t[i] = Blank
  <2>1. i \in (Len(u) + 1)..Len(t) /\ i - Len(u) \in 1..Len(back)
    BY <1>1, <1>7, <1>8, <1>10
  <2> QED
    BY <1>7, <1>10, <2>1
<1>14. Len(t) = Len(front) + Len(buf) + Len(back)
  BY <1>1, <1>7, <1>8, <1>10
<1>15. Backwards(t, buf)
  <2> SUFFICES \E a, b \in Nat :
         /\ Len(t) = a + Len(buf) + b
         /\ \A i \in 1..a : t[i] = Blank
         /\ \A i \in 1..Len(buf) : t[a + i] = buf[Len(buf) + 1 - i]
         /\ \A i \in (a + Len(buf) + 1)..Len(t) : t[i] = Blank
    BY DEF Backwards
  <2>1. Len(front) \in Nat /\ Len(back) \in Nat
    BY <1>7
  <2> WITNESS Len(front) \in Nat, Len(back) \in Nat
  <2> QED
    BY <1>11, <1>12, <1>13, <1>14
<1> QED
  BY <1>10, <1>15 DEF t

LEMMA OutRevShows ==
  ASSUME NEW d, NEW buf, Begun(buf, d), NEW w \in Nat, NEW f
  PROVE  Shows(OutRev(buf, w, f), d)
<1> DEFINE t == OutRev(buf, w, f)
           n == Len(buf)
           k == Len(d)
<1>1. buf \in Seq(Char) /\ n \in Nat /\ k \in Nat /\ k <= n /\ Blank \in Char
  BY DEF Begun, Buffer, Char, Blank
<1>2. Backwards(t, buf)
  BY <1>1, OutRevIs
<1> HIDE DEF t
<1>3. PICK a \in Nat, b \in Nat :
        /\ Len(t) = a + n + b
        /\ \A i \in 1..a : t[i] = Blank
        /\ \A i \in 1..n : t[a + i] = buf[n + 1 - i]
        /\ \A i \in (a + n + 1)..Len(t) : t[i] = Blank
  BY <1>2 DEF Backwards
<1> DEFINE o == a + (n - k)
<1>4. o \in Nat /\ o + k = a + n /\ Len(t) \in Nat /\ o + k <= Len(t)
  BY <1>1, <1>3
<1>5. ASSUME NEW i \in 1..o PROVE t[i] \notin 1..15
  <2>1. CASE i <= a
    BY <1>3, <2>1 DEF Blank
  <2>2. CASE ~(i <= a)
    <3>1. i - a \in 1..n /\ a + (i - a) = i /\ n + 1 - (i - a) \in (k + 1)..n
      BY <1>1, <2>2
    <3>2. t[i] = buf[n + 1 - (i - a)]
      BY <1>3, <3>1
    <3> QED
      BY <3>1, <3>2 DEF Begun
  <2> QED
    BY <2>1, <2>2
<1>6. ASSUME NEW j \in 1..k PROVE t[o + j] = d[k + 1 - j]
  <2>1. (n - k) + j \in 1..n /\ o + j = a + ((n - k) + j) /\ n + 1 - ((n - k) + j) = k + 1 - j
        /\ k + 1 - j \in 1..k
    BY <1>1
  <2>2. t[o + j] = buf[k + 1 - j]
    BY <1>3, <2>1
  <2> QED
    BY <2>1, <2>2 DEF Begun
<1>7. ASSUME NEW i \in (o + k + 1)..Len(t) PROVE t[i] \notin 0..15
  BY <1>3, <1>4 DEF Blank
<1> HIDE DEF o
<1>8. ShowsAt(t, d, o)
  BY <1>4, <1>5, <1>6, <1>7 DEF ShowsAt
<1> QED
  BY <1>4, <1>8 DEF Shows, t

LEMMA PadZerosBegun ==
  ASSUME NEW d \in Buffer(0..15), NEW prec \in Nat, NEW w \in Nat, NEW f
  PROVE  LET p == PadZeros(d, prec, w, f)
         IN  /\ Begun(p, d)
             /\ Len(p) # Len(d) =>
                  /\ "left" \notin f
                  /\ Len(p) = Smaller(prec, NtoaSize)
                       \/ ("zero" \in f /\ Len(p) = Smaller(w, NtoaSize))
             /\ prec = 0 /\ Len(p) # Len(d) => "zero" \in f /\ Len(p) = Smaller(w, NtoaSize)
<1> DEFINE p == PadZeros(d, prec, w, f)
           z == ZerosTo(d, prec)
           y == ZerosTo(z, w)
<1>1. Begun(d, d)
  <2>1. d \in Buffer(Char)
    <3>1. 0..15 \subseteq Char
      BY DEF Char
    <3> QED
      BY <3>1, SeqMonotonic DEF Buffer
  <2>2. Len(d) \in Nat /\ (Len(d) + 1)..Len(d) = {} /\ Len(d) \in 0..Len(d)
    BY DEF Buffer
  <2> QED
    BY <2>1, <2>2 DEF Begun
<1>2. /\ Begun(z, d)
      /\ Len(z) = IF Len(d) < Smaller(prec, NtoaSize) THEN Smaller(prec, NtoaSize) ELSE Len(d)
  BY <1>1, ZerosToBegun
<1> HIDE DEF z
<1>3. /\ Begun(y, d)
      /\ Len(y) = IF Len(z) < Smaller(w, NtoaSize) THEN Smaller(w, NtoaSize) ELSE Len(z)
  BY <1>2, ZerosToBegun
<1> HIDE DEF y
<1>4. Len(d) \in Nat /\ NtoaSize \in Nat
  BY FormatOpsAssumption DEF Buffer
<1>5. p = IF "left" \in f THEN d ELSE IF "zero" \in f THEN y ELSE z
  BY DEF PadZeros, y, z
<1>6. prec = 0 => Len(z) = Len(d)
  BY <1>2, <1>4 DEF Smaller
<1> HIDE DEF p
<1>7. CASE "left" \in f
  BY <1>1, <1>5, <1>7 DEF p
<1>8. CASE "left" \notin f /\ "zero" \in f
  BY <1>2, <1>3, <1>5, <1>6, <1>8 DEF p
<1>9. CASE "left" \notin f /\ "zero" \notin f
  BY <1>2, <1>5, <1>6, <1>9 DEF p
<1> QED
  BY <1>7, <1>8, <1>9

(* The mark takes the place of digits in no other field.                    *)
LEMMA NtoaFormatShows ==
  ASSUME NEW d \in Buffer(0..15), NEW neg \in BOOLEAN, NEW base, NEW prec \in Nat, NEW w \in Nat,
         NEW f, SignedWidth(neg, w, f) \in Nat,
         "hash" \in f /\ "precision" \notin f =>
           /\ prec = 0 /\ Len(d) # 0
           /\ SignedWidth(neg, w, f) # Len(d)
           /\ ~(/\ base = 16 /\ "left" \notin f /\ "zero" \in f
                /\ SignedWidth(neg, w, f) = Len(d) + 1)
  PROVE  Shows(NtoaFormat(d, neg, base, prec, w, f), d)
<1> DEFINE sw == SignedWidth(neg, w, f)
           p == PadZeros(d, prec, sw, f)
           cut == TakeBack(p, base, prec, sw, f)
           m == PutHash(p, base, prec, sw, f)
           g == PutSign(m, neg, f)
<1>1. sw \in Nat
  OBVIOUS
<1>2. "hash" \in f /\ "precision" \notin f =>
        /\ prec = 0 /\ Len(d) # 0 /\ sw # Len(d)
        /\ ~(base = 16 /\ "left" \notin f /\ "zero" \in f /\ sw = Len(d) + 1)
  OBVIOUS
<1>3. NtoaFormat(d, neg, base, prec, w, f) = OutRev(g, sw, f)
  BY DEF NtoaFormat
<1> HIDE DEF sw
<1>4. /\ Begun(p, d)
      /\ Len(p) # Len(d) => "left" \notin f
      /\ prec = 0 /\ Len(p) # Len(d) => "zero" \in f /\ Len(p) = Smaller(sw, NtoaSize)
  BY <1>1, PadZerosBegun
<1>5. Len(d) \in Nat /\ Len(p) \in Nat /\ Len(d) <= Len(p)
  BY <1>4 DEF Begun, Buffer
<1> HIDE DEF p
<1>6. Begun(m, d)
  <2>1. CASE "hash" \notin f
    BY <1>4, <2>1 DEF PutHash
  <2>2. CASE "hash" \in f
    <3>1. ASSUME "precision" \notin f, Len(p) \in {prec, sw}
          PROVE  Len(d) + Taken(p, base) <= Len(p)
      <4>1. prec = 0 /\ Len(d) # 0 /\ sw # Len(d) /\ Len(p) = sw
        BY <1>2, <1>5, <2>2, <3>1
      <4>2. Len(p) > Len(d) /\ "left" \notin f /\ "zero" \in f
        BY <1>4, <1>5, <4>1
      <4>3. base = 16 => Len(p) # Len(d) + 1
        BY <1>2, <2>2, <3>1, <4>1, <4>2
      <4>4. CASE base = 16
        BY <1>5, <4>2, <4>3, <4>4 DEF Taken
      <4>5. CASE base # 16
        BY <1>5, <4>2, <4>5 DEF Taken
      <4> QED
        BY <4>4, <4>5
    <3>2. Begun(cut, d)
      BY <1>1, <1>4, <3>1, TakeBackBegun
    <3> HIDE DEF cut
    <3>3. Begun(PutMark(cut, base), d)
      BY <3>2, PutMarkBegun
    <3> QED
      BY <2>2, <3>3 DEF PutHash, cut
  <2> QED
    BY <2>1, <2>2
<1> HIDE DEF m
<1>7. Begun(g, d)
  BY <1>6, PutSignBegun
<1> HIDE DEF g
<1> QED
  BY <1>1, <1>3, <1>7, OutRevShows

(* A number that is not negative has no minus, and one that is has one      *)
(* where the buffer has room for it.                                        *)
NoMinus == Char \ {Minus}
HasMinus(t) == \E i \in DOMAIN t : t[i] = Minus

LEMMA NotSigned ==
  ASSUME NEW d \in Buffer(0..15), NEW base, NEW prec \in Nat, NEW w \in Nat,
         NEW f, SignedWidth(FALSE, w, f) \in Nat
  PROVE  NtoaFormat(d, FALSE, base, prec, w, f) \in Seq(NoMinus)
<1> DEFINE sw == SignedWidth(FALSE, w, f)
           p == PadZeros(d, prec, sw, f)
           m == PutHash(p, base, prec, sw, f)
           g == PutSign(m, FALSE, f)
<1>1. sw \in Nat
  OBVIOUS
<1>2. NtoaFormat(d, FALSE, base, prec, w, f) = OutRev(g, sw, f)
  BY DEF NtoaFormat
<1> HIDE DEF sw
<1>3. Marks \subseteq NoMinus /\ 0..15 \subseteq NoMinus /\ Plus \in NoMinus /\ Blank \in NoMinus
  BY DEF NoMinus, Marks, Char, Zero, HexMark, BinMark, Plus, Blank, Minus
<1>4. d \in Buffer(NoMinus)
  BY <1>3, SeqMonotonic DEF Buffer
<1>5. p \in Buffer(NoMinus)
  BY <1>1, <1>3, <1>4, PadZerosBuffer
<1> HIDE DEF p
<1>6. m \in Buffer(NoMinus)
  BY <1>1, <1>3, <1>5, PutHashBuffer
<1> HIDE DEF m
<1>7. \A c \in {Plus, Blank} : Add(m, c) \in Buffer(NoMinus)
  BY <1>3, <1>6, AddBuffer
<1>8. g \in Buffer(NoMinus)
  BY <1>6, <1>7 DEF PutSign
<1> HIDE DEF g
<1>9. g \in Seq(NoMinus)
  BY <1>8 DEF Buffer
<1> QED
  BY <1>1, <1>2, <1>3, <1>9, OutRevIs

LEMMA SignedWithin ==
  ASSUME NEW d \in Buffer(0..15), Len(d) < NtoaSize, NEW base, NEW prec \in Nat,
         NEW w \in Nat, NEW f, "hash" \notin f,
         "left" \in f \/ prec < NtoaSize,
         "left" \notin f /\ "zero" \in f => w <= NtoaSize
  PROVE  HasMinus(NtoaFormat(d, TRUE, base, prec, w, f))
<1> DEFINE sw == SignedWidth(TRUE, w, f)
           p == PadZeros(d, prec, sw, f)
           g == Add(p, Minus)
           t == OutRev(g, sw, f)
<1>1. sw \in Nat /\ ("left" \notin f /\ "zero" \in f => sw < NtoaSize)
  BY FormatOpsAssumption DEF SignedWidth
<1>2. NtoaFormat(d, TRUE, base, prec, w, f) = t
  BY DEF NtoaFormat, PutHash, PutSign
<1> HIDE DEF sw
<1>3. /\ Begun(p, d)
      /\ Len(p) # Len(d) =>
           /\ "left" \notin f
           /\ Len(p) = Smaller(prec, NtoaSize) \/ ("zero" \in f /\ Len(p) = Smaller(sw, NtoaSize))
  BY <1>1, PadZerosBegun
<1> HIDE DEF p
<1>4. Len(p) < NtoaSize
  BY <1>1, <1>3 DEF Smaller
<1>5. p \in Seq(Char) /\ Len(p) \in Nat /\ g = Append(p, Minus)
  BY <1>3, <1>4 DEF Begun, Buffer, Add
<1>6. g \in Seq(Char) /\ Len(g) = Len(p) + 1 /\ g[Len(g)] = Minus
  <2>1. Minus \in Char
    BY DEF Minus, Char
  <2> QED
    BY <1>5, <2>1
<1> HIDE DEF g
<1>7. t \in Seq(Char) /\ Backwards(t, g)
  <2>1. Blank \in Char
    BY DEF Blank, Char
  <2> QED
    BY <1>1, <1>6, <2>1, OutRevIs
<1> HIDE DEF t
<1>8. PICK a \in Nat, b \in Nat :
        /\ Len(t) = a + Len(g) + b
        /\ \A i \in 1..Len(g) : t[a + i] = g[Len(g) + 1 - i]
  BY <1>7 DEF Backwards
<1>9. a + 1 \in 1..Len(t) /\ 1 \in 1..Len(g) /\ Len(g) + 1 - 1 = Len(g)
  BY <1>5, <1>6, <1>8
<1>10. t[a + 1] = Minus
  BY <1>6, <1>8, <1>9
<1>11. a + 1 \in DOMAIN t
  BY <1>7, <1>9
<1> QED
  BY <1>2, <1>10, <1>11 DEF HasMinus

----------------------------------------------------------------------------
(* What is printed for each specifier reads back as its value.              *)

(* The digits that _ntoa_long hands to _ntoa_format.                        *)
Handed(v, base, f) == IF v = 0 /\ "precision" \in f THEN << >> ELSE Digits(v, base)

LEMMA HandedDigits ==
  ASSUME NEW v \in 0..(IntMod - 1), NEW base \in 2..16, NEW f
  PROVE  LET d == Handed(v, base, f)
         IN  /\ d \in Buffer(0..15) /\ DigitsOf(d, v, base)
             /\ Len(d) # 0 => d = Digits(v, base) /\ Len(d) = DigitCount(v, base)
             /\ "precision" \notin f \/ v # 0 => Len(d) = DigitCount(v, base) /\ Len(d) # 0
<1> DEFINE q == Quotients(v, base)
           n == DigitCount(v, base)
           e == Digits(v, base)
           d == Handed(v, base, f)
<1>1. v \in Nat /\ base \in Nat /\ base >= 2 /\ NtoaSize \in Nat /\ IntMod \in Nat
  BY FormatOpsAssumption
<1>2. IsChain(q, v, base)
  BY <1>1, QuotientsAre
<1>3. n \in 1..NtoaSize /\ q[n] = 0
  <2>1. n \in 1..NtoaSize
    BY DigitCountIs
  <2>2. q[n] = 0
    BY <1>1, DigitsEnd
  <2> QED
    BY <2>1, <2>2
<1>4. e = [k \in 1..n |-> q[k - 1] % base]
  BY DEF Digits
<1> HIDE DEF q, n, e
<1>5. \A k \in 1..n : q[k - 1] % base \in 0..15
  <2> TAKE k \in 1..n
  <2>1. k - 1 \in 0..(NtoaSize - 1)
    BY <1>1, <1>3
  <2>2. PICK r \in 0..(base - 1) : r = q[k - 1] % base
    BY <1>1, <1>2, <2>1, ChainDigits
  <2>3. r \in 0..15
    BY <2>2
  <2> QED
    BY <2>2, <2>3, Zenon
<1>6. /\ e \in Seq(0..15) /\ Len(e) = n /\ \A k \in 1..n : e[k] = q[k - 1] % base
  <2>1. e \in [1..n -> 0..15]
    BY <1>4, <1>5, Zenon
  <2>2. e \in Seq(0..15) /\ Len(e) = n
    BY <1>3, <2>1
  <2>3. \A k \in 1..n : e[k] = q[k - 1] % base
    BY <1>4, Zenon
  <2> QED
    BY <2>2, <2>3
<1>7. CASE v = 0 /\ "precision" \in f
  <2>1. d = << >> /\ Len(d) = 0
    BY <1>7 DEF Handed
  <2>2. q[0] = 0
    BY <1>2, <1>7 DEF IsChain
  <2>3. d \in Buffer(0..15)
    BY <1>1, <2>1 DEF Buffer
  <2> HIDE DEF d
  <2>4. DigitsOf(d, v, base)
    BY <1>1, <2>1, <2>2 DEF DigitsOf, q
  <2> QED
    BY <1>7, <2>1, <2>3, <2>4 DEF d
<1>8. CASE ~(v = 0 /\ "precision" \in f)
  <2>1. d = e
    BY <1>8 DEF Handed, e
  <2> HIDE DEF d
  <2>2. d \in Buffer(0..15) /\ Len(d) = n /\ Len(d) # 0
    BY <1>1, <1>3, <1>6, <2>1 DEF Buffer
  <2>3. DigitsOf(d, v, base)
    <3>1. \A k \in 1..Len(d) : d[k] = q[k - 1] % base
      BY <1>6, <2>1, <2>2, Zenon
    <3>2. Len(d) \in 0..NtoaSize /\ q[Len(d)] = 0
      BY <1>1, <1>3, <2>2
    <3> QED
      BY <3>1, <3>2, Zenon DEF DigitsOf, q
  <2> QED
    BY <2>1, <2>2, <2>3 DEF d, n, e
<1> QED
  BY <1>7, <1>8

LEMMA NtoaLongIs ==
  ASSUME NEW v, NEW neg, NEW base, NEW prec, NEW w, NEW f
  PROVE  NtoaLong(v, neg, base, prec, w, f) =
           NtoaFormat(Handed(v, base, f), neg, base, prec, w,
                      IF v = 0 THEN f \ {"hash"} ELSE f)
BY DEF NtoaLong, Handed

(* The hash matters for values other than 0 only.                           *)
LEMMA SameWidth ==
  ASSUME NEW neg, NEW w \in Nat, NEW f
  PROVE  /\ SignedWidth(neg, w, f \ {"hash"}) = SignedWidth(neg, w, f)
         /\ SignedWidth(neg, w, f) \in Nat
BY DEF SignedWidth

(* The mark does not take the place of a digit.                             *)
MarkFits(n, room, base, prec, f) ==
  "hash" \in f /\ "precision" \notin f =>
    /\ prec = 0 /\ room # n
    /\ ~(base = 16 /\ "left" \notin f /\ "zero" \in f /\ room = n + 1)

LEMMA NtoaLongReads ==
  ASSUME NEW v \in 0..(IntMod - 1), NEW neg \in BOOLEAN, NEW base \in 2..16, NEW prec \in Nat,
         NEW w \in Nat, NEW f,
         MarkFits(DigitCount(v, base), SignedWidth(neg, w, f), base, prec, f)
  PROVE  ReadBack(NtoaLong(v, neg, base, prec, w, f), base) = v
<1> DEFINE d == Handed(v, base, f)
           g == IF v = 0 THEN f \ {"hash"} ELSE f
           t == NtoaFormat(d, neg, base, prec, w, g)
<1>1. /\ d \in Buffer(0..15) /\ DigitsOf(d, v, base)
      /\ "precision" \notin f \/ v # 0 => Len(d) = DigitCount(v, base) /\ Len(d) # 0
  BY HandedDigits
<1>2. /\ SignedWidth(neg, w, g) = SignedWidth(neg, w, f)
      /\ SignedWidth(neg, w, g) \in Nat
  BY SameWidth
<1>3. /\ "hash" \in g => "hash" \in f /\ v # 0
      /\ "left" \notin g => "left" \notin f
      /\ "zero" \in g => "zero" \in f
      /\ "precision" \notin g => "precision" \notin f
  OBVIOUS
<1>4. NtoaLong(v, neg, base, prec, w, f) = t
  BY NtoaLongIs
<1> HIDE DEF d, g
<1>5. Shows(t, d)
  BY <1>1, <1>2, <1>3, NtoaFormatShows DEF MarkFits
<1> HIDE DEF t
<1>6. v \in Nat
  BY FormatOpsAssumption
<1>7. ReadBack(t, base) = v
  BY <1>1, <1>5, <1>6, ReadBackIs
<1> QED
  BY <1>4, <1>7

LEMMA NtoaLongSign ==
  ASSUME NEW v \in 0..(IntMod - 1), NEW neg \in BOOLEAN, NEW base \in 2..16, NEW prec \in Nat,
         NEW w \in Nat, NEW f
  PROVE  LET t == NtoaLong(v, neg, base, prec, w, f)
         IN  /\ ~neg => ~HasMinus(t)
             /\ /\ neg /\ v # 0 /\ "hash" \notin f
                /\ DigitCount(v, base) < NtoaSize
                /\ "left" \in f \/ prec < NtoaSize
                /\ "left" \notin f /\ "zero" \in f => w <= NtoaSize
                => HasMinus(t)
<1> DEFINE d == Handed(v, base, f)
           g == IF v = 0 THEN f \ {"hash"} ELSE f
           t == NtoaFormat(d, neg, base, prec, w, g)
<1>1. d \in Buffer(0..15) /\ (v # 0 => Len(d) = DigitCount(v, base))
  BY HandedDigits
<1>2. SignedWidth(neg, w, g) \in Nat
  BY SameWidth
<1>3. NtoaLong(v, neg, base, prec, w, f) = t
  BY NtoaLongIs
<1>4. v # 0 => g = f
  OBVIOUS
<1> HIDE DEF d, g
<1>5. ASSUME ~neg PROVE ~HasMinus(t)
  <2>1. neg = FALSE
    BY <1>5
  <2>2. t \in Seq(NoMinus)
    BY <1>1, <1>2, <2>1, NotSigned
  <2> HIDE DEF t
  <2> QED
    BY <2>2 DEF NoMinus, HasMinus
<1>6. ASSUME neg, v # 0, "hash" \notin f, DigitCount(v, base) < NtoaSize,
             "left" \in f \/ prec < NtoaSize,
             "left" \notin f /\ "zero" \in f => w <= NtoaSize
      PROVE  HasMinus(t)
  <2>1. neg = TRUE /\ g = f /\ Len(d) < NtoaSize
    BY <1>1, <1>4, <1>6
  <2> DEFINE u == NtoaFormat(d, TRUE, base, prec, w, f)
  <2>2. HasMinus(u)
    BY <1>1, <1>6, <2>1, SignedWithin
  <2>3. t = u
    BY <2>1
  <2> HIDE DEF t, u
  <2> QED
    BY <2>2, <2>3
<1> QED
  BY <1>3, <1>5, <1>6

Specifier == {"d", "u", "x", "o", "b"}

LEMMA ValueBounded ==
  ASSUME NEW spec \in Specifier, NEW w \in Words, NEW f
  PROVE  LET v == ValueOf(spec, w, f)
         IN  /\ v \in Int /\ Magnitude(v) \in 0..(IntMod - 1)
             /\ v < 0 => spec = "d" /\ Magnitude(v) # 0
<1>1. /\ w \in Nat /\ CharMod \in Nat \ {0} /\ ShortMod \in Nat \ {0} /\ IntMod \in Nat \ {0}
      /\ CharMod <= IntMod /\ ShortMod <= IntMod
  BY PrintfAssumption, FormatOpsAssumption
<1>2. \A m \in Nat \ {0} : w % m \in 0..(m - 1)
  BY <1>1, Division
<1>3. ASSUME NEW m \in Nat \ {0}, m <= IntMod, NEW n \in 0..(m - 1)
      PROVE  /\ n \in Int /\ Magnitude(n) \in 0..(IntMod - 1) /\ ~(n < 0)
             /\ Signed(n, m) \in Int /\ Magnitude(Signed(n, m)) \in 0..(IntMod - 1)
             /\ Signed(n, m) < 0 => Magnitude(Signed(n, m)) # 0
  BY <1>1, <1>3 DEF Magnitude, Signed
<1>4. w % CharMod \in 0..(CharMod - 1)
  BY <1>1, <1>2
<1>5. \A m \in {ShortMod, IntMod} : w % m \in 0..(m - 1) /\ m \in Nat \ {0} /\ m <= IntMod
  BY <1>1, <1>2
<1>6. CASE "char" \in f
  <2>1. ValueOf(spec, w, f) = w % CharMod
    BY <1>6 DEF ValueOf
  <2> QED
    BY <1>1, <1>3, <1>4, <2>1
<1>7. CASE "char" \notin f
  <2>1. PICK m \in {ShortMod, IntMod} :
          ValueOf(spec, w, f) = IF spec = "d" THEN Signed(w % m, m) ELSE w % m
    BY <1>7 DEF ValueOf
  <2>2. PICK n \in 0..(m - 1) : n = w % m
    BY <1>5
  <2>3. ValueOf(spec, w, f) = IF spec = "d" THEN Signed(n, m) ELSE n
    BY <2>1, <2>2
  <2>4. m \in Nat \ {0} /\ m <= IntMod
    BY <1>5
  <2> QED
    BY <1>3, <2>3, <2>4
<1> QED
  BY <1>6, <1>7

LEMMA BaseBounded ==
  ASSUME NEW spec \in Specifier
  PROVE  Base(spec) \in 2..16 /\ (spec = "d" => Base(spec) = 10)
BY DEF Base, Specifier

(* A precision is kept only with its flag.                                  *)
PrecisionKnown ==
  /\ "precision" \notin flags => precision = 0
  /\ pc \in {"point", "precision"} => "precision" \in flags

LEMMA IntegerReads ==
  ASSUME NEW spec \in Specifier, NEW x \in Words, NEW prec \in Nat, NEW w \in Nat, NEW f,
         "precision" \notin f => prec = 0
  PROVE  LET v == ValueOf(spec, x, f)
             n == DigitCount(Magnitude(v), Base(spec))
             t == IntegerText(spec, x, prec, w, f)
             zeros == "left" \notin f /\ {"zero", "precision"} \cap f = {"zero"}
         IN  /\ ~(/\ "hash" \in f /\ "precision" \notin f /\ Base(spec) # 10
                  /\ w = n \/ (w = n + 1 /\ Base(spec) = 16 /\ zeros))
                => ReadBack(t, Base(spec)) = Magnitude(v)
             /\ (n < NtoaSize /\ ("left" \in f \/ prec < NtoaSize) /\ (zeros => w <= NtoaSize))
                => (v < 0 <=> HasMinus(t))
<1> DEFINE v == ValueOf(spec, x, f)
           base == Base(spec)
           n == DigitCount(Magnitude(v), base)
           g == FlagsFor(spec, f)
           neg == v < 0
           t == NtoaLong(Magnitude(v), neg, base, prec, w, g)
           zeros == "left" \notin f /\ {"zero", "precision"} \cap f = {"zero"}
<1>1. /\ v \in Int /\ Magnitude(v) \in 0..(IntMod - 1)
      /\ v < 0 => spec = "d" /\ Magnitude(v) # 0
  BY ValueBounded
<1>2. base \in 2..16 /\ (spec = "d" => base = 10)
  BY BaseBounded
<1>3. /\ "hash" \in g => "hash" \in f /\ base # 10
      /\ "precision" \notin g <=> "precision" \notin f
      /\ "left" \notin g <=> "left" \notin f
      /\ "zero" \in g /\ "left" \notin g => zeros
      /\ spec # "d" => g \cap {"plus", "space"} = {}
  BY DEF FlagsFor
<1>4. IntegerText(spec, x, prec, w, f) = t
  BY DEF IntegerText
<1>5. neg \in BOOLEAN /\ (neg <=> v < 0)
  BY <1>1
<1> HIDE DEF v, base, g, neg, zeros
<1>6. base # 10 => SignedWidth(neg, w, g) = w
  BY <1>1, <1>2, <1>3, <1>5 DEF SignedWidth
<1>7. ASSUME ~(/\ "hash" \in f /\ "precision" \notin f /\ base # 10
               /\ w = n \/ (w = n + 1 /\ base = 16 /\ zeros))
      PROVE  ReadBack(t, base) = Magnitude(v)
  <2>1. MarkFits(n, SignedWidth(neg, w, g), base, prec, g)
    BY <1>3, <1>6, <1>7 DEF MarkFits
  <2> QED
    BY <1>1, <1>2, <1>5, <2>1, NtoaLongReads
<1>8. ASSUME n < NtoaSize, "left" \in f \/ prec < NtoaSize, zeros => w <= NtoaSize
      PROVE  neg <=> HasMinus(t)
  <2>1. neg => Magnitude(v) # 0 /\ "hash" \notin g
    BY <1>1, <1>2, <1>3, <1>5
  <2>2. /\ "left" \in g \/ prec < NtoaSize
        /\ "left" \notin g /\ "zero" \in g => w <= NtoaSize
    BY <1>3, <1>8
  <2> QED
    BY <1>1, <1>2, <1>5, <1>8, <2>1, <2>2, NtoaLongSign
<1> HIDE DEF t
<1> QED
  BY <1>4, <1>5, <1>7, <1>8 DEF v, base, zeros

LEMMA PointerReads ==
  ASSUME NEW x \in Words, NEW prec \in Nat, NEW f, "precision" \notin f => prec = 0
  PROVE  LET n == DigitCount(x, 16)
             t == PointerText(x, prec, f)
             room == SignedWidth(FALSE, PtrWidth, f \cup {"zero"})
         IN  /\ x \in Nat
             /\ ~(/\ "hash" \in f /\ "precision" \notin f
                  /\ room = n \/ (room = n + 1 /\ "left" \notin f))
                => ReadBack(t, 16) = x
             /\ ~HasMinus(t)
<1> DEFINE neg == FALSE
           n == DigitCount(x, 16)
           g == f \cup {"zero"}
           t == NtoaLong(x, neg, 16, prec, PtrWidth, g)
           room == SignedWidth(neg, PtrWidth, g)
<1>1. /\ x \in 0..(IntMod - 1) /\ x \in Nat /\ PtrWidth \in Nat /\ 16 \in 2..16
      /\ neg \in BOOLEAN /\ ~neg
  BY PrintfAssumption, FormatOpsAssumption
<1>2. PointerText(x, prec, f) = t
  BY DEF PointerText
<1>3. /\ "hash" \in g <=> "hash" \in f
      /\ "precision" \notin g <=> "precision" \notin f
      /\ "left" \notin g <=> "left" \notin f
  OBVIOUS
<1> HIDE DEF g, neg
<1>4. ASSUME ~(/\ "hash" \in f /\ "precision" \notin f
               /\ room = n \/ (room = n + 1 /\ "left" \notin f))
      PROVE  ReadBack(t, 16) = x
  <2>1. MarkFits(n, room, 16, prec, g)
    BY <1>3, <1>4 DEF MarkFits
  <2> QED
    BY <1>1, <2>1, NtoaLongReads
<1>5. ~HasMinus(t)
  BY <1>1, NtoaLongSign
<1> HIDE DEF t
<1> QED
  BY <1>1, <1>2, <1>4, <1>5 DEF g, neg

----------------------------------------------------------------------------
LEMMA InitKnown == Init => PrecisionKnown
BY DEF Init, PrecisionKnown

LEMMA PrecisionKept ==
  ASSUME PrecisionKnown, [Next]_vars
  PROVE  PrecisionKnown'
<1>1. CASE Percent \/ PrecisionDigit
  BY <1>1 DEF PrecisionKnown, Percent, PrecisionDigit, Read
<1>2. CASE TakeFlag \/ WidthDigit \/ WidthStar \/ TakeLength
  <2>1. /\ precision' = precision /\ pc' \in {"flags", "width", "width *", "length"}
        /\ "precision" \in flags => "precision" \in flags'
    BY <1>2 DEF TakeFlag, WidthDigit, WidthStar, TakeLength, Read
  <2> QED
    BY <2>1 DEF PrecisionKnown
<1>3. CASE Point
  BY <1>3 DEF PrecisionKnown, Point, Read
<1>4. CASE PrecisionStar
  BY <1>4 DEF PrecisionKnown, PrecisionStar, Read
<1>5. CASE \/ TextChar \/ Integer \/ LongLong \/ Pointer \/ Character \/ String
           \/ StringAstray \/ Literal \/ Float \/ CutOff \/ Terminate
  <2>1. UNCHANGED parse /\ pc' \in {"text", "lost", "done"}
    BY <1>5 DEF TextChar, Integer, LongLong, Pointer, Character, String, StringAstray,
       Literal, Float, CutOff, Terminate, Read
  <2> QED
    BY <2>1 DEF PrecisionKnown, parse
<1>6. CASE UNCHANGED vars
  BY <1>6 DEF PrecisionKnown, vars
<1> QED
  BY <1>1, <1>2, <1>3, <1>4, <1>5, <1>6 DEF Next

LEMMA IntegerReadsBack ==
  ASSUME IInv, PrecisionKnown, Integer
  PROVE  NumberReadsBack'
<1>1. PICK spec \in Specifier, w \in Words :
        last' = [kind |-> "integer", spec |-> spec, word |-> w,
                 text |-> IntegerText(spec, w, precision, width, flags)]
  BY DEF Integer, Specifier
<1> DEFINE v == ValueOf(spec, w, flags)
           base == Base(spec)
           n == DigitCount(Magnitude(v), base)
           t == IntegerText(spec, w, precision, width, flags)
           zeros == "left" \notin flags /\ {"zero", "precision"} \cap flags = {"zero"}
<1>2. /\ precision \in Nat /\ width \in Nat /\ ("precision" \notin flags => precision = 0)
      /\ flags' = flags /\ width' = width /\ precision' = precision
  BY DEF IInv, TypeOK, PrecisionKnown, Integer, parse
<1>3. /\ ~(/\ "hash" \in flags /\ "precision" \notin flags /\ base # 10
           /\ width = n \/ (width = n + 1 /\ base = 16 /\ zeros))
         => ReadBack(t, base) = Magnitude(v)
      /\ (n < NtoaSize /\ ("left" \in flags \/ precision < NtoaSize)
          /\ (zeros => width <= NtoaSize))
         => (v < 0 <=> HasMinus(t))
  BY <1>2, IntegerReads
<1>4. last'.kind = "integer" /\ last'.spec = spec /\ last'.word = w /\ last'.text = t
  BY <1>1
<1>5. IntBase' = base /\ IntValue' = v
  BY <1>2, <1>4 DEF IntBase, IntValue
<1> HIDE DEF v, base, t
<1>6. ZeroPadded' <=> zeros
  BY <1>2, <1>4 DEF ZeroPadded, Integral
<1>7. MarkEatsDigits' <=> /\ "hash" \in flags /\ "precision" \notin flags /\ base # 10
                          /\ width = n \/ (width = n + 1 /\ base = 16 /\ zeros)
  BY <1>2, <1>4, <1>5, <1>6 DEF MarkEatsDigits
<1>8. RoomForSign' <=> /\ n < NtoaSize
                       /\ "left" \in flags \/ precision < NtoaSize
                       /\ zeros => width <= NtoaSize
  BY <1>2, <1>5, <1>6 DEF RoomForSign
<1>9. ~MarkEatsDigits' => ReadBack(last'.text, IntBase') = Magnitude(IntValue')
  BY <1>3, <1>4, <1>5, <1>7
<1>10. RoomForSign' => (IntValue' < 0 <=> \E i \in DOMAIN last'.text : last'.text[i] = Minus)
  BY <1>3, <1>4, <1>5, <1>8 DEF HasMinus
<1> QED
  BY <1>9, <1>10 DEF NumberReadsBack

LEMMA PointerReadsBack ==
  ASSUME IInv, PrecisionKnown, Pointer
  PROVE  NumberReadsBack'
<1>1. PICK w \in Words :
        last' = [kind |-> "pointer", word |-> w, text |-> PointerText(w, precision, flags)]
  BY DEF Pointer
<1> DEFINE n == DigitCount(w, 16)
           t == PointerText(w, precision, flags)
           room == SignedWidth(FALSE, PtrWidth, flags \cup {"zero"})
<1>2. /\ precision \in Nat /\ ("precision" \notin flags => precision = 0)
      /\ flags' = flags /\ width' = width /\ precision' = precision
  BY DEF IInv, TypeOK, PrecisionKnown, Pointer, parse
<1>3. /\ w \in Nat
      /\ ~(/\ "hash" \in flags /\ "precision" \notin flags
           /\ room = n \/ (room = n + 1 /\ "left" \notin flags))
         => ReadBack(t, 16) = w
      /\ ~HasMinus(t)
  BY <1>2, PointerReads
<1>4. last'.kind = "pointer" /\ last'.word = w /\ last'.text = t
  BY <1>1
<1>5. IntBase' = 16 /\ IntValue' = w /\ Magnitude(w) = w
  BY <1>2, <1>3, <1>4 DEF IntBase, IntValue, Magnitude
<1> HIDE DEF t, room
<1>6. ZeroPadded' <=> "left" \notin flags
  BY <1>2, <1>4 DEF ZeroPadded, Integral
<1>7. MarkEatsDigits' <=> /\ "hash" \in flags /\ "precision" \notin flags
                          /\ room = n \/ (room = n + 1 /\ "left" \notin flags)
  <2>1. DigitCount(Magnitude(IntValue'), IntBase') = n
    BY <1>5
  <2>2. SignedWidth(FALSE, PtrWidth, flags' \cup {"zero"}) = room
    BY <1>2 DEF room
  <2> HIDE DEF n
  <2>3. MarkEatsDigits' <=>
          /\ "hash" \in flags' /\ "precision" \notin flags' /\ IntBase' # 10
          /\ room = n \/ (room = n + 1 /\ IntBase' = 16 /\ ZeroPadded')
    BY <1>4, <2>1, <2>2 DEF MarkEatsDigits
  <2> QED
    BY <1>2, <1>5, <1>6, <2>3
<1>8. ~MarkEatsDigits' => ReadBack(last'.text, IntBase') = Magnitude(IntValue')
  BY <1>3, <1>4, <1>5, <1>7
<1>9. IntValue' < 0 <=> \E i \in DOMAIN last'.text : last'.text[i] = Minus
  BY <1>3, <1>4, <1>5 DEF HasMinus
<1> QED
  BY <1>8, <1>9 DEF NumberReadsBack

LEMMA NoNumberReadsBack ==
  ASSUME last'.kind \notin {"integer", "pointer"}
  PROVE  NumberReadsBack'
BY DEF NumberReadsBack, Integral

(* Every number printed reads back as the number that was passed, whatever  *)
(* the flags, the width and the precision: but where the mark of # takes    *)
(* digits away.                                                             *)
THEOREM NumbersReadBack == Spec => []NumberReadsBack
<1> DEFINE Inv == PrecisionKnown /\ NumberReadsBack
<1>1. Init => Inv
  BY InitKnown DEF Init, NumberReadsBack, Integral, NoDirective
<1>2. IInv /\ IInv' /\ Inv /\ [Next]_vars => Inv'
  <2> SUFFICES ASSUME IInv, IInv', Inv, [Next]_vars PROVE Inv'
    OBVIOUS
  <2>1. PrecisionKnown'
    BY PrecisionKept
  <2>2. CASE Integer
    BY <2>1, <2>2, IntegerReadsBack
  <2>3. CASE Pointer
    BY <2>1, <2>3, PointerReadsBack
  <2>4. CASE Character \/ String
    <3>1. last'.kind \in {"char", "string"}
      BY <2>4 DEF Character, String
    <3> QED
      BY <2>1, <3>1, NoNumberReadsBack
  <2>5. CASE \/ TextChar \/ Percent \/ LongLong \/ StringAstray \/ Literal \/ Float
             \/ CutOff \/ Terminate
    <3>1. last' = NoDirective
      BY <2>5, Zenon DEF TextChar, Percent, LongLong, StringAstray, Literal, Float, CutOff,
         Terminate
    <3>2. last'.kind = "none"
      BY <3>1 DEF NoDirective
    <3> QED
      BY <2>1, <3>2, NoNumberReadsBack
  <2>6. CASE \/ TakeFlag \/ WidthDigit \/ WidthStar \/ Point \/ PrecisionDigit
             \/ PrecisionStar \/ TakeLength
    <3>1. pc' \in InDirective
      BY <2>6 DEF TakeFlag, WidthDigit, WidthStar, Point, PrecisionDigit, PrecisionStar,
         TakeLength, Read, InDirective
    <3>2. pc' \in InDirective => last' = NoDirective
      BY DEF IInv, TypeOK
    <3>3. last' = NoDirective
      BY <3>1, <3>2
    <3>4. last'.kind = "none"
      BY <3>3 DEF NoDirective
    <3> QED
      BY <2>1, <3>4, NoNumberReadsBack
  <2>7. CASE UNCHANGED vars
    BY <2>1, <2>7 DEF vars, NumberReadsBack, Integral, MarkEatsDigits, RoomForSign,
       IntBase, IntValue, ZeroPadded
  <2> QED
    BY <2>2, <2>3, <2>4, <2>5, <2>6, <2>7 DEF Next
<1>3. QED
  BY <1>1, <1>2, PrintfInductive, PTL DEF Spec
============================================================================
