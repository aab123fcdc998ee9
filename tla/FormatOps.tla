----------------------------- MODULE FormatOps -----------------------------
(***************************************************************************)
(* What one directive of a format prints, in c_test/printf.c: the digits of *)
(* a number, what is put in front of them, and the padding of the field.    *)
(* A text is a sequence of characters and a set of flags is what the code   *)
(* keeps in the bits of an int.  The two cases of the letters are one here: *)
(* X is x, and FLAGS_UPPERCASE does not appear.                             *)
(***************************************************************************)
EXTENDS Integers, Sequences, FiniteSets

CONSTANTS
  NtoaSize,   \* PRINTF_NTOA_BUFFER_SIZE, which is also the bits of a word
  PtrWidth,   \* sizeof(void *) * 2, the width of %p
  CharMod,    \* 2^8, 2^16 and 2^32: the values of a char,
  ShortMod,   \* of a short
  IntMod      \* and of an int, a long, a pointer or a size

ASSUME FormatOpsAssumption ==
  /\ NtoaSize \in Nat \ {0} /\ PtrWidth \in 1..NtoaSize
  /\ {CharMod, ShortMod, IntMod} \subseteq Nat \ {0, 1}
  /\ CharMod <= IntMod /\ ShortMod <= IntMod

(* The characters: the digits, where the letters up to f are among them,    *)
(* the ones a directive puts beside them, and any other.                    *)
Zero == 0
Blank == 16
Plus == 17
Minus == 18
HexMark == 19
BinMark == 20
Other == 21
Nul == 22
Char == 0..22

Flag == {"zero", "left", "plus", "space", "hash", "precision",
         "char", "short", "long", "long long"}

Smaller(a, b) == IF a < b THEN a ELSE b

Fill(c, n) == [i \in 1..n |-> c]

Reversed(s) == [i \in 1..Len(s) |-> s[Len(s) + 1 - i]]

----------------------------------------------------------------------------
(* Numbers: _ntoa_long, _ntoa_format and _out_rev.  The buffer is filled    *)
(* from the last character to the first.                                    *)

(* What is left of v behind each digit.                                     *)
Quotients(v, base) ==
  LET q[i \in 0..NtoaSize] == IF i = 0 THEN v ELSE q[i - 1] \div base IN q

(* A word has no more binary digits than the buffer holds.                  *)
ASSUME WordFits == Quotients(IntMod - 1, 2)[NtoaSize] = 0

(* The last digit is the first that leaves nothing, or fills the buffer.    *)
DigitCount(v, base) ==
  LET last == {n \in 1..NtoaSize : Quotients(v, base)[n] = 0 \/ n = NtoaSize}
  IN CHOOSE n \in last : \A m \in last : n <= m

Digits(v, base) == [i \in 1..DigitCount(v, base) |-> Quotients(v, base)[i - 1] % base]

(* Faulty variant: the width makes room for a sign that is not printed.     *)
SignedWidthAlways(neg, width, flags) ==
  IF "left" \notin flags /\ "zero" \in flags /\ width > 0 THEN width - 1 ELSE width

SignedWidth(neg, width, flags) ==
  IF /\ "left" \notin flags /\ "zero" \in flags /\ width > 0
     /\ neg \/ flags \cap {"plus", "space"} # {}
  THEN width - 1
  ELSE width

(* Zeros until the buffer holds n characters, or is full.                   *)
ZerosTo(buf, n) == buf \o Fill(Zero, Smaller(n, NtoaSize) - Len(buf))

PadZeros(buf, prec, width, flags) ==
  IF "left" \in flags
  THEN buf
  ELSE IF "zero" \in flags
  THEN ZerosTo(ZerosTo(buf, prec), width)
  ELSE ZerosTo(buf, prec)

Add(buf, c) == IF Len(buf) < NtoaSize THEN Append(buf, c) ELSE buf

(* Faulty variant: zeros that the precision asks for are taken back too.    *)
TakeBackInPrecision(buf, base, prec, width, flags) ==
  IF Len(buf) > 0 /\ Len(buf) \in {prec, width}
  THEN SubSeq(buf, 1, Len(buf) - (IF base = 16 /\ Len(buf) > 1 THEN 2 ELSE 1))
  ELSE buf

(* Room for the mark is made by taking back what may be padding.            *)
TakeBack(buf, base, prec, width, flags) ==
  IF "precision" \notin flags /\ Len(buf) > 0 /\ Len(buf) \in {prec, width}
  THEN SubSeq(buf, 1, Len(buf) - (IF base = 16 /\ Len(buf) > 1 THEN 2 ELSE 1))
  ELSE buf

PutMark(buf, base) ==
  Add(IF base = 16 THEN Add(buf, HexMark)
      ELSE IF base = 2 THEN Add(buf, BinMark) ELSE buf, Zero)

PutHash(buf, base, prec, width, flags) ==
  IF "hash" \in flags THEN PutMark(TakeBack(buf, base, prec, width, flags), base) ELSE buf

PutSign(buf, neg, flags) ==
  IF neg THEN Add(buf, Minus)
  ELSE IF "plus" \in flags THEN Add(buf, Plus)
  ELSE IF "space" \in flags THEN Add(buf, Blank)
  ELSE buf

OutRev(buf, width, flags) ==
  (IF flags \cap {"left", "zero"} = {} THEN Fill(Blank, width - Len(buf)) ELSE << >>)
  \o Reversed(buf)
  \o (IF "left" \in flags THEN Fill(Blank, width - Len(buf)) ELSE << >>)

NtoaFormat(buf, neg, base, prec, width, flags) ==
  LET w == SignedWidth(neg, width, flags)
      padded == PadZeros(buf, prec, w, flags)
  IN OutRev(PutSign(PutHash(padded, base, prec, w, flags), neg, flags), w, flags)

(* No mark for 0, and no digit for a 0 with a precision.                    *)
NtoaLong(v, neg, base, prec, width, flags) ==
  NtoaFormat(IF v = 0 /\ "precision" \in flags THEN << >> ELSE Digits(v, base),
             neg, base, prec, width, IF v = 0 THEN flags \ {"hash"} ELSE flags)

----------------------------------------------------------------------------
(* The specifiers                                                           *)

Base(spec) == CASE spec = "x" -> 16 [] spec = "o" -> 8 [] spec = "b" -> 2 [] OTHER -> 10

FlagsFor(spec, flags) ==
  flags \ UNION {IF Base(spec) = 10 THEN {"hash"} ELSE {},
                 IF spec # "d" THEN {"plus", "space"} ELSE {},
                 IF "precision" \in flags THEN {"zero"} ELSE {}}

Signed(n, m) == IF 2 * n < m THEN n ELSE n - m

(* The value of the word w: a char has no sign in this build, so that %hhd  *)
(* of -1 is 255.                                                            *)
ValueOf(spec, w, flags) ==
  IF "char" \in flags THEN w % CharMod
  ELSE LET m == IF "short" \in flags THEN ShortMod ELSE IntMod
       IN IF spec = "d" THEN Signed(w % m, m) ELSE w % m

(* 0 - INT_MIN is INT_MIN again, whose unsigned value is the magnitude.     *)
Magnitude(v) == IF v < 0 THEN 0 - v ELSE v

IntegerText(spec, w, prec, width, flags) ==
  LET v == ValueOf(spec, w, flags)
  IN NtoaLong(Magnitude(v), v < 0, Base(spec), prec, width, FlagsFor(spec, flags))

PointerText(w, prec, flags) == NtoaLong(w, FALSE, 16, prec, PtrWidth, flags \cup {"zero"})

Justified(s, width, flags) ==
  IF "left" \in flags THEN s \o Fill(Blank, width - Len(s))
                      ELSE Fill(Blank, width - Len(s)) \o s

CharText(c, width, flags) == Justified(<<c>>, width, flags)

(* A precision of 0 is no limit for _strnlen_s, but one for the output.     *)
StringText(s, prec, width, flags) ==
  Justified(IF "precision" \in flags THEN SubSeq(s, 1, Smaller(Len(s), prec)) ELSE s,
            width, flags)
============================================================================
