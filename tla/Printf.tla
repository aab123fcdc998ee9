------------------------------ MODULE Printf ------------------------------
(***************************************************************************)
(* _vsnprintf of c_test/printf.c, with which every guest program prints.    *)
(* The program chooses the format as it is read, character by character,    *)
(* and the words it passes for it.  The functions of the family differ in   *)
(* where the characters go: here one text is handed to all of them, to a    *)
(* buffer for each count given to snprintf, the largest of which is         *)
(* sprintf's, to no buffer, and to the screen of printf.                    *)
(***************************************************************************)
EXTENDS FormatOps

CONSTANTS
  Counts,     \* the sizes given to snprintf
  Words,      \* the words passed for a number or a pointer
  Stars,      \* the ints passed for a *
  Strings,    \* the strings passed for %s
  Figures,    \* the digits that widths and precisions are written with
  MaxNumber,  \* a bound: the largest width or precision written in a format
  MaxFormat   \* a bound: the characters of a format

SizeMax == IntMod - 1    \* (size_t)-1

ASSUME PrintfAssumption ==
  /\ Counts \subseteq 0..SizeMax /\ SizeMax \in Counts
  /\ Words \subseteq 0..(IntMod - 1) /\ Stars \subseteq Int
  /\ Strings \subseteq Seq(Char \ {Nul})
  /\ Figures \subseteq 0..9 /\ MaxNumber \in Nat /\ MaxFormat \in Nat

VARIABLES
  pc,         \* what _vsnprintf expects next, or how it ended
  read,       \* characters of the format read
  flags, width, precision,
  idx,        \* characters handed out so far
  mem,        \* by count: the bytes stored in the buffer, or through NULL
  screen,     \* by idx: the characters _putchar was called with
  va,         \* words of the argument list taken
  passed,     \* words the caller put there for the directives so far
  last        \* the directive just carried out

vars == <<pc, read, flags, width, precision, idx, mem, screen, va, passed,
          last>>

parse == <<flags, width, precision>>
output == <<idx, mem, screen>>
caller == <<va, passed>>

(* In the place of a count: the buffer is NULL.                             *)
NoBuffer == -1

Nothing == [i \in {} |-> Nul]
NoDirective == [kind |-> "none"]

Init ==
  /\ pc = "text" /\ read = 0
  /\ flags = {} /\ width = 0 /\ precision = 0
  /\ idx = 0
  /\ mem = [n \in Counts \cup {NoBuffer} |-> Nothing]
  /\ screen = Nothing
  /\ va = 0 /\ passed = 0
  /\ last = NoDirective

----------------------------------------------------------------------------
(* The output functions                                                     *)

(* The places hit take what s has for them.                                 *)
Written(old, i, s, hit) ==
  [k \in DOMAIN old \cup hit |-> IF k \in hit THEN s[k - i + 1] ELSE old[k]]

OutBuffer(old, n, i, s) == Written(old, i, s, {k \in i..(i + Len(s) - 1) : k < n})

OutNull(old) == old

(* _vsnprintf replaces the output function when there is no buffer.         *)
Out(old, n, i, s) == IF n = NoBuffer THEN OutNull(old) ELSE OutBuffer(old, n, i, s)

OutChar(old, i, s) == Written(old, i, s, {k \in i..(i + Len(s) - 1) : s[k - i + 1] # Nul})

(* One out(c, buffer, idx++, maxlen) for each character.  A bound: a text   *)
(* is shorter than the largest size.                                        *)
Emit(s) ==
  /\ idx + Len(s) < SizeMax
  /\ idx' = idx + Len(s)
  /\ mem' = [n \in DOMAIN mem |-> Out(mem[n], n, idx, s)]
  /\ screen' = OutChar(screen, idx, s)

----------------------------------------------------------------------------
(* The format                                                               *)

Read(from, to) ==
  /\ pc \in from /\ pc' = to
  /\ read < MaxFormat /\ read' = read + 1

(* va_arg: a word is passed for the directive and taken.                    *)
TakeWord == va' = va + 1 /\ passed' = passed + 1

(* 64 bits are two words of the caller, and one more where the calling      *)
(* convention aligns them; nobody takes them.                               *)
SkipWords ==
  /\ \E n \in {2, 3} : passed' = passed + n
  /\ UNCHANGED va

TextChar ==
  /\ Read({"text"}, "text")
  /\ Emit(<<Other>>)
  /\ last' = NoDirective
  /\ UNCHANGED <<parse, caller>>

Percent ==
  /\ Read({"text"}, "flags")
  /\ flags' = {} /\ width' = 0 /\ precision' = 0
  /\ last' = NoDirective
  /\ UNCHANGED <<output, caller>>

TakeFlag ==
  /\ Read({"flags"}, "flags")
  /\ \E f \in {"zero", "left", "plus", "space", "hash"} : flags' = flags \cup {f}
  /\ UNCHANGED <<width, precision, output, caller, last>>

(* _atoi: a width does not begin with 0, which is a flag.                   *)
WidthDigit ==
  /\ Read({"flags", "width"}, "width")
  /\ \E d \in Figures :
       /\ pc = "flags" => d # 0
       /\ width * 10 + d <= MaxNumber
       /\ width' = width * 10 + d
  /\ UNCHANGED <<flags, precision, output, caller, last>>

WidthStar ==
  /\ Read({"flags"}, "width *")
  /\ \E w \in Stars :
       /\ width' = Magnitude(w)
       /\ flags' = IF w < 0 THEN flags \cup {"left"} ELSE flags
  /\ TakeWord
  /\ UNCHANGED <<precision, output, last>>

Point ==
  /\ Read({"flags", "width", "width *"}, "point")
  /\ flags' = flags \cup {"precision"}
  /\ UNCHANGED <<width, precision, output, caller, last>>

PrecisionDigit ==
  /\ Read({"point", "precision"}, "precision")
  /\ \E d \in Figures :
       /\ precision * 10 + d <= MaxNumber
       /\ precision' = precision * 10 + d
  /\ UNCHANGED <<flags, width, output, caller, last>>

PrecisionStar ==
  /\ Read({"point"}, "precision *")
  /\ \E p \in Stars : precision' = IF p > 0 THEN p ELSE 0
  /\ TakeWord
  /\ UNCHANGED <<flags, width, output, last>>

(* hh, h, l, t and z, and then ll and j, which are 64 bits here.            *)
TakeLength ==
  /\ Read({"flags", "width", "width *", "point", "precision", "precision *"}, "length")
  /\ \E f \in {{"short", "char"}, {"short"}, {"long"}, {"long", "long long"}} :
       flags' = flags \cup f
  /\ UNCHANGED <<width, precision, output, caller, last>>

InDirective ==
  {"flags", "width", "width *", "point", "precision", "precision *", "length"}

----------------------------------------------------------------------------
(* The specifiers                                                           *)

Integer ==
  /\ Read(InDirective, "text")
  /\ "long long" \notin flags
  /\ \E spec \in {"d", "u", "x", "o", "b"}, w \in Words :
       LET s == IntegerText(spec, w, precision, width, flags)
       IN /\ Emit(s)
          /\ last' = [kind |-> "integer", spec |-> spec, word |-> w, text |-> s]
  /\ TakeWord
  /\ UNCHANGED parse

LongLong ==
  /\ Read(InDirective, "text")
  /\ "long long" \in flags
  /\ SkipWords
  /\ last' = NoDirective
  /\ UNCHANGED <<parse, output>>

Pointer ==
  /\ Read(InDirective, "text")
  /\ \E w \in Words :
       LET s == PointerText(w, precision, flags)
       IN /\ Emit(s)
          /\ last' = [kind |-> "pointer", word |-> w, text |-> s]
  /\ TakeWord
  /\ UNCHANGED parse

Character ==
  /\ Read(InDirective, "text")
  /\ \E c \in {Other, Nul} :
       LET s == CharText(c, width, flags)
       IN /\ Emit(s)
          /\ last' = [kind |-> "char", size |-> 1, text |-> s]
  /\ TakeWord
  /\ UNCHANGED parse

String ==
  /\ Read(InDirective, "text")
  /\ va = passed
  /\ \E p \in Strings :
       LET s == StringText(p, precision, width, flags)
       IN /\ Emit(s)
          /\ last' = [kind |-> "string", size |-> Len(p), text |-> s]
  /\ TakeWord
  /\ UNCHANGED parse

(* The word taken for the string is one that was passed for a number.       *)
StringAstray ==
  /\ Read(InDirective, "lost")
  /\ va # passed
  /\ last' = NoDirective
  /\ UNCHANGED <<parse, output, caller>>

(* %% and, as they stand, the characters that are no specifier.             *)
Literal ==
  /\ Read(InDirective, "text")
  /\ Emit(<<Other>>)
  /\ last' = NoDirective
  /\ UNCHANGED <<parse, caller>>

(* %f prints its letter: a double is passed and nobody takes it.            *)
Float ==
  /\ Read(InDirective, "text")
  /\ Emit(<<Other>>)
  /\ SkipWords
  /\ last' = NoDirective
  /\ UNCHANGED parse

(* A format that ends in a directive: the terminator is printed and passed  *)
(* over, and what follows the format in memory is read as its continuation. *)
CutOff ==
  /\ pc \in InDirective /\ pc' = "lost"
  /\ Emit(<<Nul>>)
  /\ last' = NoDirective
  /\ UNCHANGED <<read, parse, caller>>

(* Faulty variant: the place of the terminator is not limited.              *)
TerminateAtIdx ==
  /\ pc = "text" /\ pc' = "done"
  /\ mem' = [n \in DOMAIN mem |-> Out(mem[n], n, idx, <<Nul>>)]
  /\ last' = NoDirective
  /\ UNCHANGED <<read, parse, idx, screen, caller>>

Terminate ==
  /\ pc = "text" /\ pc' = "done"
  /\ mem' = [n \in DOMAIN mem |->
               Out(mem[n], n, IF idx < n THEN idx ELSE (n - 1) % IntMod, <<Nul>>)]
  /\ last' = NoDirective
  /\ UNCHANGED <<read, parse, idx, screen, caller>>

Next ==
  \/ TextChar \/ Percent \/ TakeFlag \/ WidthDigit \/ WidthStar \/ Point
  \/ PrecisionDigit \/ PrecisionStar \/ TakeLength
  \/ Integer \/ LongLong \/ Pointer \/ Character \/ String \/ StringAstray
  \/ Literal \/ Float \/ CutOff \/ Terminate

Spec == Init /\ [][Next]_vars

----------------------------------------------------------------------------
(* Properties                                                               *)

TypeOK ==
  /\ pc \in InDirective \cup {"text", "done", "lost"}
  /\ flags \in SUBSET Flag /\ width \in Nat /\ precision \in Nat
  /\ idx \in 0..(SizeMax - 1)
  /\ read \in 0..MaxFormat
  /\ DOMAIN mem = Counts \cup {NoBuffer}
  /\ pc \in InDirective => last = NoDirective
  /\ va \in Nat /\ passed \in Nat

(* The text as sprintf has it.                                              *)
Text == mem[SizeMax]

(* What debug.h says of snprintf: whatever the count, the buffer gets the   *)
(* beginning of the text that sprintf would write, is never stored to at or *)
(* behind the count, and ends in a NUL once the text is complete; and the   *)
(* number returned is the length of the whole text, also for a program that *)
(* passes NULL, for which nothing is stored.  What printf shows is that     *)
(* text without its NULs.                                                   *)
TextBounded ==
  /\ \A n \in Counts :
       LET kept == IF pc = "done" /\ n <= idx THEN n - 1 ELSE n
       IN /\ DOMAIN mem[n] = {k \in 0..idx : k < n /\ (k < idx \/ pc = "done")}
          /\ \A k \in DOMAIN mem[n] : k < kept => mem[n][k] = Text[k]
          /\ pc = "done" /\ n > 0 => mem[n][Smaller(idx, n - 1)] = Nul
  /\ mem[NoBuffer] = Nothing
  /\ DOMAIN screen = {k \in 0..(idx - 1) : Text[k] # Nul}
  /\ \A k \in DOMAIN screen : screen[k] = Text[k]

Integral == last.kind \in {"integer", "pointer"}
IntBase == IF last.kind = "pointer" THEN 16 ELSE Base(last.spec)
IntValue == IF last.kind = "pointer" THEN last.word ELSE ValueOf(last.spec, last.word, flags)
FieldWidth == IF last.kind = "pointer" THEN PtrWidth ELSE width
ZeroPadded ==
  /\ Integral /\ "left" \notin flags
  /\ last.kind = "pointer" \/ {"zero", "precision"} \cap flags = {"zero"}

(* The digits of a text, read as a number.                                  *)
ReadBack(s, base) ==
  LET upto[i \in 0..Len(s)] ==
        IF i = 0 THEN 0
        ELSE IF s[i] \in 0..15 THEN upto[i - 1] * base + s[i]
        ELSE upto[i - 1]
  IN upto[Len(s)]

(* With # the mark takes the place of digits, not of padding, in a field as *)
(* wide as the number, or one wider with zeros in base 16.  A pointer's     *)
(* field is narrower by the sign it may be given.                           *)
MarkEatsDigits ==
  LET n == DigitCount(Magnitude(IntValue), IntBase)
      room == IF last.kind = "pointer"
              THEN SignedWidth(FALSE, PtrWidth, flags \cup {"zero"}) ELSE width
  IN /\ "hash" \in flags /\ "precision" \notin flags /\ IntBase # 10
     /\ \/ room = n
        \/ room = n + 1 /\ IntBase = 16 /\ ZeroPadded

(* The sign comes last and is dropped when zeros fill the buffer.           *)
RoomForSign ==
  /\ DigitCount(Magnitude(IntValue), IntBase) < NtoaSize
  /\ "left" \in flags \/ precision < NtoaSize
  /\ ZeroPadded => width <= NtoaSize

(* Whatever its flags, width and precision, a printed number reads back as  *)
(* the value it was printed from, with the sign of that value; but for the  *)
(* two cases above, where the code prints another number.                   *)
NumberReadsBack ==
  Integral =>
    /\ ~MarkEatsDigits => ReadBack(last.text, IntBase) = Magnitude(IntValue)
    /\ RoomForSign =>
         (IntValue < 0 <=> \E i \in DOMAIN last.text : last.text[i] = Minus)

(* A field is never shorter than its width, unless zeros would have to      *)
(* reach beyond the buffer of _ntoa_long; a number fits its field or that   *)
(* buffer, and a string or a character takes its field or its own length.   *)
FieldFilled ==
  LET own == IF "precision" \in flags /\ last.kind = "string"
             THEN Smaller(last.size, precision) ELSE last.size
  IN CASE Integral ->
            /\ (ZeroPadded /\ FieldWidth > NtoaSize) \/ Len(last.text) >= FieldWidth
            /\ Len(last.text) <= NtoaSize \/ Len(last.text) <= FieldWidth
       [] last.kind \in {"char", "string"} ->
            Len(last.text) = IF own < width THEN width ELSE own
       [] OTHER -> TRUE
============================================================================
