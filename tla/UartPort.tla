------------------------------ MODULE UartPort ------------------------------
(***************************************************************************)
(* What the UART promises the guest, without threads, lock or condition    *)
(* variable: a receive register of capacity one in front of the keyboard,  *)
(* and an interrupt line.  Every typed byte reaches the guest once and in  *)
(* order.  Uart.tla is shown to implement this module until stdin is       *)
(* closed (UartProofs!ImplementsPort), and RunLoop.tla uses it in place of *)
(* the whole device.                                                       *)
(***************************************************************************)
EXTENDS Naturals, Sequences

CONSTANTS
  Input,        \* the bytes a user may type
  MaxTyped      \* bound: how many bytes are typed

VARIABLES
  typed,        \* what the user typed, in order
  received,     \* what the guest took from the receive register, in order
  full,         \* the line status register shows a received byte
  irq           \* the interrupt line

portVars == <<typed, received, full, irq>>

Init ==
  /\ typed = << >>
  /\ received = << >>
  /\ full = FALSE
  /\ irq = FALSE

Type(b) ==
  /\ Len(typed) < MaxTyped
  /\ typed' = Append(typed, b)
  /\ UNCHANGED <<received, full, irq>>

\* There is a byte to show and no byte is shown yet.
CanFill == ~full /\ Len(received) < Len(typed)

\* The line goes up before the byte shows: the two are separate steps.
Raise ==
  /\ CanFill
  /\ irq' = TRUE
  /\ UNCHANGED <<typed, received, full>>

Fill ==
  /\ CanFill
  /\ irq
  /\ full' = TRUE
  /\ UNCHANGED <<typed, received, irq>>

\* The guest loads the byte the register shows: always the next one typed.
Receive ==
  /\ full
  /\ full' = FALSE
  /\ received' = Append(received, typed[Len(received) + 1])
  /\ UNCHANGED <<typed, irq>>

Next ==
  \/ \E b \in Input : Type(b)
  \/ Raise
  \/ Fill
  \/ Receive

Spec == Init /\ [][Next]_portVars
=============================================================================
