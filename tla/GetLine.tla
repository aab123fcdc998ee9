------------------------------ MODULE GetLine ------------------------------
(***************************************************************************)
(* A whole guest program: c_test/fib.c, which reads lines with get_string   *)
(* (standard.c) into a growing string, converts them with str2int, frees    *)
(* them and asks again until it gets a number it can use.                   *)
(*                                                                          *)
(* The heap is that of HeapOps.  Here the bytes of the buffer are kept:     *)
(* text maps the positions that were stored to since the buffer was         *)
(* allocated to the bytes there; the other bytes are the memory's own.      *)
(***************************************************************************)
EXTENDS StringOps, SequencesExt

CONSTANTS
  Digit,      \* the digits the user has
  Modulus,    \* 2^32: the values of an int
  MaxInput,   \* MAX_INPUT of fib.c
  MaxLine     \* a bound: the longest line typed

Minus == 10
Other == 11   \* any character that is neither
Nul == 12
Char == Digit \cup {Minus, Other}

ASSUME GetLineAssumption ==
  /\ Digit \subseteq 0..9
  /\ Modulus \in Nat /\ MaxInput \in Nat /\ 2 * MaxInput < Modulus
  /\ MaxLine \in Nat
  /\ HeaderSize + StructSize < HeapSize   \* the first request succeeds

VARIABLES
  heap,
  phase,    \* where the program is, or how it ended
  at, str,  \* get_string's string
  text,     \* the bytes stored in its buffer
  typed,    \* what the user typed in this line
  line,     \* what str2int was given last
  input,    \* the number get_input returned
  lines     \* lines ended

vars == <<heap, phase, at, str, text, typed, line, input, lines>>

Empty == [i \in {} |-> Nul]

Init ==
  /\ heap = HeapInit
  /\ phase = "prompt"
  /\ at = Null
  /\ str = [data |-> Null, length |-> 0, capacity |-> 0]
  /\ text = Empty
  /\ typed = << >> /\ line = << >>
  /\ input = 0
  /\ lines = 0

----------------------------------------------------------------------------
(* The library                                                              *)

(* Faulty variant: one byte too few is copied, over memory that is zero.    *)
MovedShort(t, s, r) ==
  IF r.str.data = s.data
  THEN t
  ELSE [i \in DOMAIN t \cap 0..(s.length - 1) |-> IF i < s.length - 1 THEN t[i] ELSE Nul]

(* What memcpy leaves in the buffer when a string has moved.                *)
Moved(t, s, r) ==
  IF r.str.data = s.data THEN t ELSE [i \in DOMAIN t \cap 0..(s.length - 1) |-> t[i]]

(* string_append_char: the character and the terminator behind it.          *)
Stored(t, s, r, c) == Put(Put(Moved(t, s, r), s.length, c), r.str.length, Nul)

(* A C string ends at its first NUL.                                        *)
CString(t) ==
  LET end == Min({i \in DOMAIN t : t[i] = Nul})
  IN [i \in 1..end |-> t[i - 1]]

Signed(n) == IF 2 * n < Modulus THEN n ELSE n - Modulus

IsNumber(s) == Other \notin Range(s)

(* Faulty variant: the digits are added without their places.               *)
Str2IntBase1(s) ==
  LET value[i \in 0..Len(s)] ==
        IF i = 0 THEN 0
        ELSE IF s[i] = Minus THEN value[i - 1] ELSE (value[i - 1] + s[i]) % Modulus
  IN Signed(IF Minus \in Range(s) THEN (Modulus - value[Len(s)]) % Modulus ELSE value[Len(s)])

(* Every '-' is skipped, wherever it stands, and makes the number negative. *)
Str2Int(s) ==
  LET value[i \in 0..Len(s)] ==
        IF i = 0 THEN 0
        ELSE IF s[i] = Minus THEN value[i - 1] ELSE (value[i - 1] * 10 + s[i]) % Modulus
  IN Signed(IF Minus \in Range(s) THEN (Modulus - value[Len(s)]) % Modulus ELSE value[Len(s)])

(* The test refuses numbers greater than MAX_INPUT, though the message at   *)
(* fib.c:61 asks for a smaller one.                                         *)
Usable(n) == 0 <= n /\ n <= MaxInput

----------------------------------------------------------------------------
(* The program                                                              *)

(* string_new("") of get_string; it returns NULL when there is no memory.   *)
NewLine ==
  /\ phase = "prompt"
  /\ LET r == StringNewLen(heap, 0)
     IN /\ heap' = r.heap
        /\ at' = r.at
        /\ str' = IF r.at = Null THEN str ELSE r.str
  /\ text' = Empty
  /\ typed' = << >>
  /\ phase' = "reading"
  /\ UNCHANGED <<line, input, lines>>

(* The string is NULL; the model stops at the first use of it.              *)
Fault ==
  /\ phase = "reading" /\ at = Null
  /\ phase' = "faulted"
  /\ UNCHANGED <<heap, at, str, text, typed, line, input, lines>>

ReadChar ==
  /\ phase = "reading" /\ at # Null
  /\ Len(typed) < MaxLine
  /\ \E c \in Char :
       LET r == StringAppendChar(heap, str)
       IN /\ heap' = r.heap
          /\ str' = r.str
          /\ text' = Stored(text, str, r, c)
          /\ typed' = Append(typed, c)
          /\ phase' = IF Inside(r.heap, r.str.data, r.str.length) THEN "reading" ELSE "overrun"
  /\ UNCHANGED <<at, line, input, lines>>

(* The line is shrunk, ended by one more NUL and handed to str2int; the     *)
(* structure is freed by get_string and the buffer by get_input.            *)
Ended ==
  LET fit  == StringShrink(heap, str)
      full == StringAppendChar(fit.heap, fit.str)
  IN [heap |-> full.heap, str |-> full.str,
      text |-> Stored(Moved(text, str, fit), fit.str, full, Nul)]

Overrun ==
  /\ phase = "reading" /\ at # Null
  /\ ~Inside(Ended.heap, Ended.str.data, Ended.str.length)
  /\ phase' = "overrun"
  /\ UNCHANGED <<heap, at, str, text, typed, line, input, lines>>

EndLine ==
  /\ phase = "reading" /\ at # Null
  /\ Inside(Ended.heap, Ended.str.data, Ended.str.length)
  /\ str' = Ended.str
  /\ text' = Ended.text
  /\ line' = CString(Ended.text)
  /\ heap' = FreeStr(Ended.heap, at, Ended.str)
  /\ lines' = lines + 1
  /\ phase' = "converting"
  /\ UNCHANGED <<at, typed, input>>

(* A line that is no number makes get_input load from NULL before it asks   *)
(* again; whether a load from there faults is the machine's.                *)
Junk ==
  /\ phase = "converting" /\ ~IsNumber(line)
  /\ phase' \in {"prompt", "faulted"}
  /\ UNCHANGED <<heap, at, str, text, typed, line, input, lines>>

Convert ==
  /\ phase = "converting" /\ IsNumber(line)
  /\ input' = Str2Int(line)
  /\ phase' = IF Usable(input') THEN "accepted" ELSE "prompt"
  /\ UNCHANGED <<heap, at, str, text, typed, line, lines>>

Next == NewLine \/ Fault \/ ReadChar \/ Overrun \/ EndLine \/ Junk \/ Convert

Spec == Init /\ [][Next]_vars

----------------------------------------------------------------------------
(* The three ways fib.c computes                                            *)

Fib[n \in Nat] ==
  IF n < 2 THEN n ELSE (Fib[n - 1] + Fib[n - 2]) % Modulus

CursedFib[n \in Int] ==
  IF n < 1 THEN 0 ELSE IF n < 2 THEN 1 ELSE (CursedFib[n - 1] + CursedFib[n - 2]) % Modulus

(* a and b behind the loop's turn for i.                                    *)
Turn(ab) == <<ab[2], (ab[1] + ab[2]) % Modulus>>

(* Faulty variant: the loop stops before n.                                 *)
FastFibShort(n) ==
  LET ab[i \in 0..n] == IF i < 2 THEN <<0, 1>> ELSE Turn(ab[i - 1])
  IN IF n = 0 THEN 0 ELSE ab[n - 1][2]

FastFib(n) ==
  LET ab[i \in 0..n] == IF i < 2 THEN <<0, 1>> ELSE Turn(ab[i - 1])
  IN IF n = 0 THEN 0 ELSE ab[n][2]

----------------------------------------------------------------------------
(* Properties                                                               *)

(* string.c:140-158, standard.c:39-67.  Whatever buffers the line went      *)
(* through, what str2int reads is what was typed: the bytes survive every   *)
(* move, and a NUL stands right behind the last one.                        *)
LineReturned ==
  /\ phase = "converting" => line = typed
  /\ phase = "reading" /\ typed # << >> => CString(text) = typed

(* What a line says: from the last digit to the first, each by its place.   *)
Numeral(s) ==
  LET sum[i \in 0..Len(s)] ==
        IF i = 0
        THEN [n |-> 0, place |-> 1]
        ELSE LET c == s[Len(s) + 1 - i]
                 behind == sum[i - 1]
             IN IF c = Minus THEN behind
                ELSE [n |-> behind.n + c * behind.place, place |-> 10 * behind.place]
  IN IF Minus \in Range(s) THEN -sum[Len(s)].n ELSE sum[Len(s)].n

(* fib.c:33-66, standard.c:9-34.  A number that an int can hold is taken    *)
(* for what it says: get_input returns it if fib can use it, and asks again *)
(* only if fib cannot.  Of a longer one it returns only what fib can use.   *)
FitsInt(n) == -Modulus <= 2 * n /\ 2 * n < Modulus
Refused == phase = "prompt" /\ lines > 0 /\ IsNumber(typed)
AcceptedIsTyped ==
  /\ phase = "accepted" => Usable(input)
  /\ phase = "accepted" /\ FitsInt(Numeral(typed)) => input = Numeral(typed)
  /\ Refused /\ FitsInt(Numeral(typed)) => ~Usable(Numeral(typed))

(* fib.c:83-115.  The three algorithms agree on every number accepted.      *)
AlgorithmsAgree ==
  phase = "accepted" =>
    /\ FastFib(input) = Fib[input]
    /\ CursedFib[input] = Fib[input]
============================================================================
