------------------------------ MODULE UartEcho ------------------------------
(***************************************************************************)
(* The UART device running the guest program src/c_test/echo_out.c, which  *)
(* polls LSR, loads the byte, turns a small letter into a capital one and  *)
(* transmits it.  get_string (src/c_test/standard.c:46-49) polls the same  *)
(* way.  The guest never enables an interrupt, so check_ints only reads    *)
(* the flag, and the two threads are all there is.                         *)
(***************************************************************************)
EXTENDS Uart

\* The guest may transmit any byte.
ASSUME EchoAssumption == Value = Byte

VARIABLES
  gpc,          \* the guest: polling LSR, about to load RHR, about to store
  c             \* its local variable

echoVars == <<vars, gpc, c>>

(***************************************************************************)
(* 'a' <= c && c <= 'z', on the bits of c: 0110_0001 to 0111_1010.  Then   *)
(* adding 'A' - 'a' clears bit 5.                                          *)
(***************************************************************************)
IsSmall(b) ==
  /\ {5, 6} \subseteq b /\ 7 \notin b
  /\ b \cap (0..4) # {}
  /\ ~({3, 4} \subseteq b /\ (2 \in b \/ {0, 1} \subseteq b))

ToCapital(b) == IF IsSmall(b) THEN b \ {5} ELSE b

EchoInit ==
  /\ Init
  /\ gpc = "poll"
  /\ c = Zero

\* Faulty variant: the guest loads RHR without looking at LSR.
PollNothing ==
  /\ gpc = "poll"
  /\ MutexFree
  /\ gpc' = "load"
  /\ UNCHANGED <<vars, c>>

\* while ((UART(5) & 1) == 0);
Poll ==
  /\ gpc = "poll"
  /\ MutexFree
  /\ gpc' = IF RxReady THEN "load" ELSE "poll"
  /\ UNCHANGED <<vars, c>>

\* Faulty variant: c keeps the byte of the round before.
LoadStale ==
  /\ gpc = "load"
  /\ LoadRhr
  /\ c' = IF received = << >> THEN Zero ELSE received[Len(received)]
  /\ gpc' = "put"

Load ==
  /\ gpc = "load"
  /\ LoadRhr
  /\ c' = mem[RHR]
  /\ gpc' = "put"

Put ==
  /\ gpc = "put"
  /\ Transmit(ToCapital(c))
  /\ gpc' = "poll"
  /\ UNCHANGED c

EchoGuest == Poll \/ Load \/ Put

EchoNext ==
  \/ (\E b \in Input : Type(b)) /\ UNCHANGED <<gpc, c>>
  \/ (Reader \/ SpuriousWake) /\ UNCHANGED <<gpc, c>>
  \/ EchoGuest

(***************************************************************************)
(* Both threads run whenever they can: the input thread is an operating    *)
(* system thread, the guest is driven by the loop of main.  Spurious       *)
(* wake-ups and the user are not assumed to happen.                        *)
(***************************************************************************)
EchoSpec ==
  /\ EchoInit
  /\ [][EchoNext]_echoVars
  /\ WF_echoVars(Reader /\ UNCHANGED <<gpc, c>>)
  /\ WF_echoVars(EchoGuest)

-----------------------------------------------------------------------------

(***************************************************************************)
(* The guest's check of LSR is still valid when it loads RHR, two guest    *)
(* instructions and any number of input-thread steps later: it never       *)
(* takes a byte that LSR did not announce.                                 *)
(***************************************************************************)
CheckedLoad == gpc = "load" => RxReady

\* The value of a byte.
Code(b) ==
  LET bit(k, v) == IF k \in b THEN v ELSE 0
  IN  bit(0, 1) + bit(1, 2) + bit(2, 4) + bit(3, 8) + bit(4, 16) + bit(5, 32)
        + bit(6, 64) + bit(7, 128)

\* A character's number in UTF-8, up to 255.
Utf8Codes(n) ==
  IF n < 128 THEN <<n>> ELSE <<192 + n \div 64, 128 + (n % 64)>>

(***************************************************************************)
(* stdout shows one character for each byte typed, in order and nothing    *)
(* else: the one whose number the byte is, with 32 taken from the numbers  *)
(* 97 to 122 of the small letters.  A byte of 128 or more is two bytes     *)
(* there, so a character that is typed in UTF-8 does not come back as it   *)
(* was typed.                                                              *)
(***************************************************************************)
EchoesInOrder ==
  /\ Len(printed) <= Len(typed)
  /\ \A i \in 1..Len(printed) :
       [k \in DOMAIN printed[i] |-> Code(printed[i][k])] =
         Utf8Codes(Code(typed[i]) - IF Code(typed[i]) \in 97..122 THEN 32 ELSE 0)

\* Every byte typed is echoed: the input thread never sleeps through the
\* load that makes room, and the guest never polls in vain for ever.
EveryByteEchoed ==
  \A i \in 1..MaxTyped : (Len(typed) >= i) ~> (Len(printed) >= i)
=============================================================================
