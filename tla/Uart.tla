-------------------------------- MODULE Uart --------------------------------
(***************************************************************************)
(* The UART device (src/src/devices/uart.rs): a 256-byte register block    *)
(* shared by two threads under a mutex, a condition variable on which the  *)
(* input thread waits for room, and an atomic interrupt flag.              *)
(*                                                                         *)
(* The input thread loops: read one byte from stdin, lock the block, wait  *)
(* while LSR shows an unread byte, write the byte into RHR, set the flag,  *)
(* show the byte in LSR.  The emulator thread runs the guest's loads and   *)
(* stores.                                                                 *)
(*                                                                         *)
(* Grain of atomicity.  The block is only accessed under the mutex, so a   *)
(* critical section is one step, except that the input thread's last one   *)
(* is split where it sets the flag: is_interrupting reads the flag without *)
(* the mutex and so sees it up before LSR shows the byte.  In between the  *)
(* input thread holds the mutex (pc = "stored") and guest accesses block.  *)
(***************************************************************************)
EXTENDS Naturals, Sequences

CONSTANTS
  Input,        \* the bytes a user may type
  Value,        \* the bytes a guest may store
  Offset,       \* the registers of the block the model keeps
  StoreOffset,  \* those of them the guest stores to, THR apart
  MaxTyped,     \* bound: bytes typed
  MaxEofReads,  \* bound: reads of stdin that return end of file
  MaxPrinted    \* bound: transmissions

RHR == 0        \* receive holding register, for loads
THR == 0        \* transmit holding register, for stores: the same address
LSR == 5        \* line status register

Byte == SUBSET (0..7)      \* a byte is the set of its bits that are 1
Zero == {}
UART_LSR_RX == 0           \* the bits of LSR
UART_LSR_TX == 5

(***************************************************************************)
(* No guest of the repository stores to LSR, which a 16550 defines as      *)
(* read-only; Store would write it like any other register.                *)
(***************************************************************************)
ASSUME UartAssumption ==
  /\ Input \subseteq Byte
  /\ Value \subseteq Byte
  /\ {RHR, LSR} \subseteq Offset
  /\ StoreOffset \subseteq Offset \ {THR, LSR}
  /\ MaxTyped \in Nat
  /\ MaxEofReads \in Nat
  /\ MaxPrinted \in Nat

VARIABLES
  mem,          \* the register block
  interrupting, \* the atomic flag
  pc,           \* where the input thread is
  byte,         \* its one-byte buffer, kept from one read to the next
  typed,        \* the bytes typed so far
  nread,        \* how many of them stdin has handed out
  eof,          \* stdin is closed
  eofReads,     \* how many reads returned Ok(0)
  received,     \* the bytes the guest loaded from RHR while LSR showed one
  printed       \* what each transmission wrote to stdout, in bytes

device == <<mem, interrupting>>
thread == <<pc, byte, nread, eofReads>>
stdin  == <<typed, eof>>
guest  == <<received, printed>>
vars   == <<device, thread, stdin, guest>>

RxReady == UART_LSR_RX \in mem[LSR]
\* Faulty variant: the bit is assigned and not or-ed into the register.
RxSetAssigned(m) == [m EXCEPT ![LSR] = {UART_LSR_RX}]

RxSet(m) == [m EXCEPT ![LSR] = @ \cup {UART_LSR_RX}]
RxClear(m) == [m EXCEPT ![LSR] = @ \ {UART_LSR_RX}]

Init ==
  /\ mem = [o \in Offset |-> IF o = LSR THEN {UART_LSR_TX} ELSE Zero]
  /\ interrupting = FALSE
  /\ pc = "read"
  /\ byte = Zero
  /\ typed = << >>
  /\ nread = 0
  /\ eof = FALSE
  /\ eofReads = 0
  /\ received = << >>
  /\ printed = << >>

-----------------------------------------------------------------------------
(* The terminal.                                                           *)

Type(b) ==
  /\ ~eof
  /\ Len(typed) < MaxTyped
  /\ typed' = Append(typed, b)
  /\ UNCHANGED <<device, thread, eof, guest>>

CloseInput ==
  /\ ~eof
  /\ eof' = TRUE
  /\ UNCHANGED <<device, thread, typed, guest>>

-----------------------------------------------------------------------------
(* The input thread.  A read that fails prints a message and reads again:  *)
(* no step.                                                                *)

ReadByte ==
  /\ pc = "read"
  /\ nread < Len(typed)
  /\ byte' = typed[nread + 1]
  /\ nread' = nread + 1
  /\ pc' = "lock"
  /\ UNCHANGED <<device, eofReads, stdin, guest>>

(* At end of file read returns Ok(0) and leaves the buffer as it was; the  *)
(* match arm Ok(_v) does not look at the count.                            *)
ReadEof ==
  /\ pc = "read"
  /\ eof
  /\ nread = Len(typed)
  /\ eofReads < MaxEofReads
  /\ eofReads' = eofReads + 1
  /\ pc' = "lock"
  /\ UNCHANGED <<device, byte, nread, stdin, guest>>

AwaitRoom ==
  /\ pc = "lock"
  /\ RxReady
  /\ pc' = "wait"
  /\ UNCHANGED <<device, byte, nread, eofReads, stdin, guest>>

\* Faulty variant: the byte is written without waiting for room.
StoreByteUnchecked ==
  /\ pc = "lock"
  /\ mem' = [mem EXCEPT ![RHR] = byte]
  /\ interrupting' = TRUE
  /\ pc' = "stored"
  /\ UNCHANGED <<byte, nread, eofReads, stdin, guest>>

StoreByte ==
  /\ pc = "lock"
  /\ ~RxReady
  /\ mem' = [mem EXCEPT ![RHR] = byte]
  /\ interrupting' = TRUE
  /\ pc' = "stored"
  /\ UNCHANGED <<byte, nread, eofReads, stdin, guest>>

ShowByte ==
  /\ pc = "stored"
  /\ mem' = RxSet(mem)
  /\ pc' = "read"
  /\ UNCHANGED <<interrupting, byte, nread, eofReads, stdin, guest>>

\* A condition variable may wake its waiter for no reason.
SpuriousWake ==
  /\ pc = "wait"
  /\ pc' = "lock"
  /\ UNCHANGED <<device, byte, nread, eofReads, stdin, guest>>

Reader == ReadByte \/ ReadEof \/ AwaitRoom \/ StoreByte \/ ShowByte

-----------------------------------------------------------------------------
(* The guest's accesses, each under the mutex.  Loads of the other         *)
(* registers change nothing; an access that is not byte-sized faults.      *)

\* Faulty variant: the flag is set and the byte shown in two critical sections.
MutexFreeEarly == TRUE

MutexFree == pc # "stored"

\* Faulty variant: the load does not wake the input thread.
NotifyNobody == pc' = pc

NotifyOne == pc' = IF pc = "wait" THEN "lock" ELSE pc

LoadRhr ==
  /\ MutexFree
  /\ NotifyOne
  /\ mem' = RxClear(mem)
  /\ received' = IF RxReady THEN Append(received, mem[RHR]) ELSE received
  /\ UNCHANGED <<interrupting, byte, nread, eofReads, stdin, printed>>

(***************************************************************************)
(* value as u8 as char is the character whose number is the byte, and      *)
(* print! writes it in UTF-8: as the byte itself below 128, from there on  *)
(* as two, 110_000xx with the byte's two highest bits and 10_xxxxxx with   *)
(* the six others.                                                         *)
(***************************************************************************)
Utf8(b) ==
  IF 7 \in b
  THEN <<{1, 6, 7} \cup (IF 6 \in b THEN {0} ELSE {}), {7} \cup (b \cap (0..5))>>
  ELSE <<b>>

Transmit(v) ==
  /\ MutexFree
  /\ Len(printed) < MaxPrinted
  /\ printed' = Append(printed, Utf8(v))
  /\ UNCHANGED <<device, thread, stdin, received>>

Store(o, v) ==
  /\ MutexFree
  /\ mem' = [mem EXCEPT ![o] = v]
  /\ UNCHANGED <<interrupting, thread, stdin, guest>>

Guest ==
  \/ LoadRhr
  \/ \E v \in Value : Transmit(v)
  \/ \E o \in StoreOffset, v \in Value : Store(o, v)

-----------------------------------------------------------------------------
(* In OpenNext stdin stays open; the user may close it once.               *)

OpenNext == (\E b \in Input : Type(b)) \/ Reader \/ SpuriousWake \/ Guest
Next == OpenNext \/ CloseInput

Spec == Init /\ [][Next]_vars

-----------------------------------------------------------------------------
(* Properties.                                                             *)

(***************************************************************************)
(* Every variable holds a value of its type, and LSR always announces the  *)
(* transmitter as empty: the input thread and the loads change one bit of  *)
(* it and leave the others (uart.rs:64, 84, 119).                          *)
(***************************************************************************)
TypeOK ==
  /\ mem \in [Offset -> Byte]
  /\ mem[LSR] \ {UART_LSR_RX} = {UART_LSR_TX}
  /\ interrupting \in BOOLEAN
  /\ pc \in {"read", "lock", "wait", "stored"}
  /\ byte \in Byte
  /\ typed \in Seq(Input) /\ Len(typed) <= MaxTyped
  /\ nread \in 0..Len(typed)
  /\ eof \in BOOLEAN
  /\ eofReads \in 0..MaxEofReads
  /\ received \in Seq(Byte)
  /\ printed \in Seq({Utf8(v) : v \in Value}) /\ Len(printed) <= MaxPrinted

\* The input thread holds a byte it has not shown yet.
InFlight == pc # "read"

\* What the i-th read of stdin left in the buffer: the i-th byte typed, and
\* at end of file whatever was there before.
Expected(i) == IF i <= nread THEN typed[i] ELSE byte

(***************************************************************************)
(* The bytes the guest has received, then the byte LSR shows, then the     *)
(* byte the input thread holds, are the results of the reads of stdin, in  *)
(* order: nothing typed is lost, overtaken, overwritten before the guest   *)
(* loads it, or shown twice, whatever the guest transmits meanwhile.       *)
(* (The wait loop of the input thread and the RHR arm of load.)            *)
(***************************************************************************)
InOrder ==
  /\ Len(received) + (IF RxReady THEN 1 ELSE 0) + (IF InFlight THEN 1 ELSE 0)
       = nread + eofReads
  /\ \A i \in 1..Len(received) : received[i] = Expected(i)
  /\ RxReady => mem[RHR] = Expected(Len(received) + 1)
  /\ InFlight => byte = Expected(nread + eofReads)

(***************************************************************************)
(* No wake-up is lost: the input thread sleeps on the condition variable   *)
(* only while LSR shows an unread byte, so the load that takes this byte   *)
(* is still to come and will wake it.                                      *)
(***************************************************************************)
SleepsOnlyWhenFull == pc = "wait" => RxReady

(***************************************************************************)
(* The flag goes up before LSR shows the byte, and without the mutex a     *)
(* reader sees it at once; yet a guest that reacts to the first interrupt  *)
(* finds the byte, because its access to LSR waits for the mutex.          *)
(***************************************************************************)
FirstInterruptHasByte ==
  interrupting /\ MutexFree /\ received = << >> => RxReady

\* What the steps of the input thread rely on: end of file comes after the
\* last byte, and between its two writes the thread holds an interrupting
\* device whose RHR has the new byte and whose LSR does not show it.
ReaderState ==
  /\ eofReads > 0 => eof /\ nread = Len(typed)
  /\ ~MutexFree => interrupting /\ ~RxReady /\ mem[RHR] = byte

(***************************************************************************)
(* The inductive invariant of UartProofs: the parts above hold each other  *)
(* up (StoreByte keeps the pipeline only because end of file comes last,   *)
(* ShowByte only because RHR still holds the byte).                        *)
(***************************************************************************)
IInv ==
  /\ TypeOK
  /\ InOrder
  /\ SleepsOnlyWhenFull
  /\ FirstInterruptHasByte
  /\ ReaderState

(***************************************************************************)
(* What uart.rs:40 says of LSR bit 0: "data has been receive and saved in  *)
(* the receive holding register".  So there is a typed byte that the guest *)
(* has not received.  Fails at end of file: the old byte is shown again.   *)
(***************************************************************************)
RxMeansNewData == RxReady => Len(received) < Len(typed)

(***************************************************************************)
(* Until stdin is closed the device, with its two threads, lock and flag,  *)
(* is the one-place buffer UartPort: every step is a step of the port or   *)
(* invisible to it.                                                        *)
(***************************************************************************)
Port == INSTANCE UartPort WITH full <- RxReady, irq <- interrupting
PortSpec == Port!Init /\ [][eof' \/ Port!Next]_(Port!portVars)
=============================================================================
