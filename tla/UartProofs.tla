----------------------------- MODULE UartProofs -----------------------------
(***************************************************************************)
(* Proofs about the UART device for every alphabet and every bound: the    *)
(* inductive invariant IInv of Uart.tla, its consequences, and that the    *)
(* device implements UartPort while stdin stays open; and about the echo   *)
(* program of UartEcho.tla, whose every step is one of the device.         *)
(***************************************************************************)
EXTENDS UartEcho, TLAPS

\* Setting and clearing the RX bit changes this bit of LSR and no other.
LEMMA RxBit ==
  ASSUME NEW m \in [Offset -> Byte]
  PROVE  /\ RxSet(m) \in [Offset -> Byte]
         /\ UART_LSR_RX \in RxSet(m)[LSR]
         /\ RxSet(m)[RHR] = m[RHR]
         /\ RxSet(m)[LSR] \ {UART_LSR_RX} = m[LSR] \ {UART_LSR_RX}
         /\ RxClear(m) \in [Offset -> Byte]
         /\ UART_LSR_RX \notin RxClear(m)[LSR]
         /\ RxClear(m)[RHR] = m[RHR]
         /\ RxClear(m)[LSR] \ {UART_LSR_RX} = m[LSR] \ {UART_LSR_RX}
  BY UartAssumption
  DEF UartAssumption, RxSet, RxClear, Byte, UART_LSR_RX, RHR, LSR

\* Every element of a sequence has an index below that of a new last element.
LEMMA ReadByteTyped ==
  ASSUME TypeOK, nread < Len(typed)
  PROVE  typed[nread + 1] \in Byte
  BY UartAssumption DEF TypeOK, UartAssumption

-----------------------------------------------------------------------------
(* Type correctness.                                                       *)

\* In the initial state nothing has been read and the register is empty.
LEMMA InitTypeOK == Init => TypeOK
<1> SUFFICES ASSUME Init PROVE TypeOK
  OBVIOUS
<1> USE UartAssumption DEF UartAssumption, Init
<1>1. Zero \in Byte /\ {UART_LSR_TX} \in Byte
  BY DEF Byte, Zero, UART_LSR_TX
<1>2. interrupting \in BOOLEAN /\ eof \in BOOLEAN
  OBVIOUS
<1>3. /\ mem \in [Offset -> Byte]
      /\ pc \in {"read", "lock", "wait", "stored"}
      /\ byte \in Byte
      /\ typed \in Seq(Input) /\ Len(typed) <= MaxTyped
      /\ nread \in 0..Len(typed)
      /\ eofReads \in 0..MaxEofReads
      /\ received \in Seq(Byte)
      /\ printed = << >> /\ 0 <= MaxPrinted
  BY <1>1
<1>4. mem[LSR] \ {UART_LSR_RX} = {UART_LSR_TX}
  BY DEF UART_LSR_RX, UART_LSR_TX
<1>5. printed \in Seq({Utf8(v) : v \in Value}) /\ Len(printed) <= MaxPrinted
  BY <1>3
<1> QED
  BY <1>2, <1>3, <1>4, <1>5 DEF TypeOK

\* No step of the user, of the input thread or of the guest leaves the types.
LEMMA TypeOKStep == ASSUME TypeOK, [Next]_vars PROVE TypeOK'
<1> USE DEF device, thread, stdin, guest
<1>1. ASSUME NEW b \in Input, Type(b) PROVE TypeOK'
  <2>1. typed' \in Seq(Input) /\ Len(typed') <= MaxTyped
        /\ nread' \in 0..Len(typed')
    BY <1>1, UartAssumption DEF TypeOK, Type, UartAssumption
  <2> QED
    BY <2>1, <1>1, Zenon DEF TypeOK, Type
<1>2. CASE CloseInput
  BY <1>2, Zenon DEF TypeOK, CloseInput
<1>3. CASE ReadByte
  <2>1. nread' \in 0..Len(typed)
    BY <1>3 DEF TypeOK, ReadByte
  <2>2. byte' \in Byte
    BY <1>3, ReadByteTyped DEF ReadByte
  <2> QED
    BY <2>1, <2>2, <1>3, Zenon DEF TypeOK, ReadByte
<1>4. CASE ReadEof
  <2>1. eofReads' \in 0..MaxEofReads
    BY <1>4, UartAssumption DEF TypeOK, ReadEof, UartAssumption
  <2> QED
    BY <2>1, <1>4, Zenon DEF TypeOK, ReadEof
<1>5. CASE AwaitRoom
  BY <1>5, Zenon DEF TypeOK, AwaitRoom
<1>6. CASE StoreByte
  <2>1. mem' \in [Offset -> Byte] /\ mem'[LSR] = mem[LSR]
    BY <1>6, UartAssumption DEF TypeOK, StoreByte, UartAssumption, RHR, LSR
  <2> QED
    BY <2>1, <1>6, Zenon DEF TypeOK, StoreByte
<1>7. CASE ShowByte
  <2>1. /\ mem' \in [Offset -> Byte]
        /\ mem'[LSR] \ {UART_LSR_RX} = {UART_LSR_TX}
    BY <1>7, RxBit DEF TypeOK, ShowByte
  <2> QED
    BY <2>1, <1>7, Zenon DEF TypeOK, ShowByte
<1>8. CASE SpuriousWake
  BY <1>8, Zenon DEF TypeOK, SpuriousWake
<1>9. CASE LoadRhr
  <2>1. /\ mem' \in [Offset -> Byte]
        /\ mem'[LSR] \ {UART_LSR_RX} = {UART_LSR_TX}
    BY <1>9, RxBit DEF TypeOK, LoadRhr
  <2>2. received' \in Seq(Byte)
    BY <1>9, UartAssumption DEF TypeOK, LoadRhr, UartAssumption
  <2>3. pc' \in {"read", "lock", "wait", "stored"}
    BY <1>9, Zenon DEF TypeOK, LoadRhr, NotifyOne
  <2> QED
    BY <2>1, <2>2, <2>3, <1>9, Zenon DEF TypeOK, LoadRhr
<1>10. ASSUME NEW v \in Value, Transmit(v) PROVE TypeOK'
  <2>1. Utf8(v) \in {Utf8(w) : w \in Value}
    OBVIOUS
  <2>2. /\ printed' \in Seq({Utf8(w) : w \in Value})
        /\ Len(printed') <= MaxPrinted
    BY <1>10, <2>1, UartAssumption DEF TypeOK, Transmit, UartAssumption
  <2> QED
    BY <2>2, <1>10, Zenon DEF TypeOK, Transmit
<1>11. ASSUME NEW o \in StoreOffset, NEW v \in Value, Store(o, v)
       PROVE  TypeOK'
  <2>1. mem' \in [Offset -> Byte] /\ mem'[LSR] = mem[LSR]
    BY <1>11, UartAssumption DEF TypeOK, Store, UartAssumption, LSR
  <2> QED
    BY <2>1, <1>11, Zenon DEF TypeOK, Store
<1>12. CASE UNCHANGED vars
  BY <1>12, Zenon DEF TypeOK, vars
<1> QED
  BY <1>1, <1>2, <1>3, <1>4, <1>5, <1>6, <1>7, <1>8, <1>9, <1>10, <1>11,
     <1>12, Zenon
  DEF Next, OpenNext, Reader, Guest

(***************************************************************************)
(* Every variable of the device keeps the type its declaration gives it.   *)
(***************************************************************************)
THEOREM TypeCorrect == Spec => []TypeOK
  BY InitTypeOK, TypeOKStep, PTL DEF Spec

-----------------------------------------------------------------------------
(* The inductive invariant.                                                *)

\* Initially the pipeline is empty and nobody holds or awaits anything.
LEMMA InitIInv == Init => IInv
<1> SUFFICES ASSUME Init PROVE IInv
  OBVIOUS
<1>1. TypeOK
  BY InitTypeOK
<1>2. ~RxReady
  BY UartAssumption
  DEF Init, UartAssumption, RxReady, UART_LSR_RX, UART_LSR_TX, LSR
<1>3. InOrder
  BY <1>2 DEF Init, InOrder, InFlight
<1>4. SleepsOnlyWhenFull /\ FirstInterruptHasByte /\ ReaderState
  BY DEF Init, SleepsOnlyWhenFull, FirstInterruptHasByte, ReaderState,
         MutexFree
<1> QED
  BY <1>1, <1>3, <1>4 DEF IInv

\* The counters of the pipeline are natural numbers.
LEMMA Counts ==
  ASSUME TypeOK
  PROVE  /\ Len(received) \in Nat /\ Len(typed) \in Nat
         /\ nread \in Nat /\ eofReads \in Nat
         /\ nread <= Len(typed)
  BY UartAssumption DEF TypeOK, UartAssumption

\* A step that leaves alone what the guest has received, what LSR shows and
\* what the input thread holds keeps the pipeline in order.
LEMMA InOrderFrame ==
  ASSUME TypeOK, InOrder,
         UNCHANGED <<received, nread, eofReads, byte>>,
         RxReady' = RxReady, InFlight' = InFlight,
         RxReady => mem'[RHR] = mem[RHR],
         \A i \in Nat \ {0} : i <= nread => typed'[i] = typed[i]
  PROVE  InOrder'
<1>1. \A i \in Nat \ {0} : Expected(i)' = Expected(i)
  BY DEF Expected
<1>2. \A i \in 1..Len(received) : i \in Nat \ {0}
  BY Counts
<1>3. \A i \in 1..Len(received') : received'[i] = Expected(i)'
  BY <1>1, <1>2 DEF InOrder
<1>4. RxReady' => mem'[RHR] = Expected(Len(received) + 1)'
  BY <1>1, Counts DEF InOrder
<1>5. InFlight' => byte' = Expected(nread + eofReads)'
  BY <1>1, Counts DEF InOrder
<1> QED
  BY <1>3, <1>4, <1>5 DEF InOrder

\* The store of a register that is not LSR leaves LSR and RHR alone.
LEMMA StoreElsewhere ==
  ASSUME TypeOK, NEW o \in StoreOffset, NEW v \in Value, Store(o, v)
  PROVE  RxReady' = RxReady /\ mem'[RHR] = mem[RHR]
  BY UartAssumption
  DEF TypeOK, UartAssumption, Store, RxReady, RHR, THR, LSR

\* No step loses, overtakes, overwrites or repeats a byte.
LEMMA InOrderStep == ASSUME IInv, [Next]_vars PROVE InOrder'
<1> USE DEF IInv, device, thread, stdin, guest
<1> TypeOK /\ InOrder /\ ReaderState
  OBVIOUS
<1>0. \A i \in 1..Len(received) : i \in Nat \ {0}
  BY Counts
<1>1. ASSUME NEW b \in Input, Type(b) PROVE InOrder'
  <2>1. \A i \in Nat \ {0} : i <= nread => typed'[i] = typed[i]
    BY <1>1 DEF Type, TypeOK
  <2> QED
    BY <2>1, <1>1, InOrderFrame DEF Type, RxReady, InFlight
<1>2. CASE CloseInput
  BY <1>2, InOrderFrame DEF CloseInput, RxReady, InFlight
<1>3. CASE ReadByte
  <2>1. eofReads = 0 /\ ~InFlight /\ InFlight' /\ RxReady' = RxReady
    BY <1>3, Counts DEF ReadByte, ReaderState, InFlight, RxReady
  <2>2. \A i \in Nat \ {0} : i <= nread => Expected(i)' = Expected(i)
    BY <1>3, Counts DEF ReadByte, Expected
  <2>3. \A i \in 1..Len(received') : received'[i] = Expected(i)'
    BY <1>3, <2>1, <2>2, Counts DEF ReadByte, InOrder
  <2>4. RxReady' => mem'[RHR] = Expected(Len(received) + 1)'
    BY <1>3, <2>1, <2>2, Counts DEF ReadByte, InOrder
  <2>5. byte' = Expected(nread + eofReads)'
    BY <1>3, <2>1, Counts DEF ReadByte, Expected
  <2>6. nread' + eofReads' = nread + eofReads + 1
    BY <1>3, Counts DEF ReadByte
  <2> QED
    BY <1>3, <2>1, <2>3, <2>4, <2>5, <2>6, Counts DEF ReadByte, InOrder
<1>4. CASE ReadEof
  <2>1. ~InFlight /\ InFlight' /\ RxReady' = RxReady
    BY <1>4 DEF ReadEof, InFlight, RxReady
  <2>2. \A i \in Nat \ {0} : Expected(i)' = Expected(i)
    BY <1>4 DEF ReadEof, Expected
  <2>3. \A i \in 1..Len(received') : received'[i] = Expected(i)'
    BY <1>4, <1>0, <2>2 DEF ReadEof, InOrder
  <2>4. RxReady' => mem'[RHR] = Expected(Len(received) + 1)'
    BY <1>4, <2>1, <2>2, Counts DEF ReadEof, InOrder
  <2>5. byte' = Expected(nread + eofReads)'
    BY <1>4, Counts DEF ReadEof, Expected
  <2>6. nread' + eofReads' = nread + eofReads + 1
    BY <1>4, Counts DEF ReadEof
  <2> QED
    BY <1>4, <2>1, <2>3, <2>4, <2>5, <2>6, Counts DEF ReadEof, InOrder
<1>5. CASE AwaitRoom
  BY <1>5, InOrderFrame DEF AwaitRoom, RxReady, InFlight
<1>6. CASE StoreByte
  <2>1. RxReady' = RxReady /\ InFlight' = InFlight /\ ~RxReady
    BY <1>6 DEF StoreByte, TypeOK, RxReady, InFlight, RHR, LSR
  <2>2. \A i \in Nat \ {0} : i <= nread => typed'[i] = typed[i]
    BY <1>6 DEF StoreByte
  <2> QED
    BY <2>1, <2>2, <1>6, InOrderFrame DEF StoreByte
<1>7. CASE ShowByte
  <2>1. ~RxReady /\ RxReady' /\ InFlight /\ ~InFlight' /\ mem'[RHR] = byte
    BY <1>7, RxBit
    DEF ShowByte, ReaderState, MutexFree, RxReady, InFlight, TypeOK
  <2>2. Len(received) + 1 = nread + eofReads
    BY <2>1, Counts DEF InOrder
  <2>3. mem'[RHR] = Expected(Len(received) + 1)
    BY <2>1, <2>2 DEF InOrder
  <2>4. \A i \in Nat \ {0} : Expected(i)' = Expected(i)
    BY <1>7 DEF ShowByte, Expected
  <2>5. \A i \in 1..Len(received') : received'[i] = Expected(i)'
    BY <1>7, <1>0, <2>4 DEF ShowByte, InOrder
  <2>6. mem'[RHR] = Expected(Len(received) + 1)'
    <3>1. Len(received) + 1 \in Nat \ {0}
      BY Counts
    <3> QED
      BY <1>7, <2>3, <2>4, <3>1 DEF ShowByte, Expected
  <2> QED
    BY <1>7, <2>1, <2>2, <2>5, <2>6, Counts DEF ShowByte, InOrder
<1>8. CASE SpuriousWake
  BY <1>8, InOrderFrame DEF SpuriousWake, RxReady, InFlight
<1>9. CASE LoadRhr
  <2>1. InFlight' = InFlight /\ ~RxReady' /\ mem'[RHR] = mem[RHR]
    BY <1>9, RxBit, Zenon
    DEF LoadRhr, NotifyOne, InFlight, RxReady, TypeOK
  <2>2. \A i \in Nat \ {0} : Expected(i)' = Expected(i)
    BY <1>9 DEF LoadRhr, Expected
  <2>3. InFlight' => byte' = Expected(nread + eofReads)'
    BY <1>9, <2>1, <2>2, Counts DEF LoadRhr, InOrder
  <2>4. CASE ~RxReady
    <3>1. received' = received
      BY <1>9, <2>4 DEF LoadRhr
    <3>2. \A i \in 1..Len(received') : received'[i] = Expected(i)'
      BY <1>0, <2>2, <3>1 DEF InOrder
    <3> QED
      BY <1>9, <2>1, <2>3, <2>4, <3>1, <3>2 DEF LoadRhr, InOrder
  <2>5. CASE RxReady
    <3>1. received' = Append(received, mem[RHR])
      BY <1>9, <2>5 DEF LoadRhr
    <3>2. /\ Len(received') = Len(received) + 1
          /\ received'[Len(received) + 1] = mem[RHR]
          /\ \A i \in 1..Len(received) : received'[i] = received[i]
      BY <3>1 DEF TypeOK
    <3>3. \A i \in 1..Len(received') : received'[i] = Expected(i)
      BY <2>5, <3>2, Counts DEF InOrder
    <3>4. \A i \in 1..Len(received') : received'[i] = Expected(i)'
      BY <2>2, <3>2, <3>3, Counts
    <3> QED
      BY <1>9, <2>1, <2>3, <2>5, <3>2, <3>4, Counts DEF LoadRhr, InOrder
  <2> QED
    BY <2>4, <2>5
<1>10. ASSUME NEW v \in Value, Transmit(v) PROVE InOrder'
  BY <1>10, InOrderFrame DEF Transmit, RxReady, InFlight
<1>11. ASSUME NEW o \in StoreOffset, NEW v \in Value, Store(o, v)
       PROVE  InOrder'
  BY <1>11, StoreElsewhere, InOrderFrame DEF Store, InFlight
<1>12. CASE UNCHANGED vars
  BY <1>12, InOrderFrame DEF vars, RxReady, InFlight
<1> QED
  BY <1>1, <1>2, <1>3, <1>4, <1>5, <1>6, <1>7, <1>8, <1>9, <1>10, <1>11,
     <1>12, Zenon
  DEF Next, OpenNext, Reader, Guest

-----------------------------------------------------------------------------
(* The other parts of the invariant.                                       *)

\* The input thread sleeps only on a full register, and whoever sees the
\* first interrupt finds the byte.
LEMMA WaitStep ==
  ASSUME IInv, [Next]_vars
  PROVE  SleepsOnlyWhenFull' /\ FirstInterruptHasByte'
<1> USE DEF IInv, device, thread, stdin, guest, SleepsOnlyWhenFull,
            FirstInterruptHasByte, MutexFree
<1>1. ASSUME NEW b \in Input, Type(b)
      PROVE  SleepsOnlyWhenFull' /\ FirstInterruptHasByte'
  BY <1>1 DEF Type, RxReady
<1>2. CASE CloseInput
  BY <1>2 DEF CloseInput, RxReady
<1>3. CASE ReadByte
  BY <1>3 DEF ReadByte, RxReady
<1>4. CASE ReadEof
  BY <1>4 DEF ReadEof, RxReady
<1>5. CASE AwaitRoom
  BY <1>5 DEF AwaitRoom, RxReady
<1>6. CASE StoreByte
  BY <1>6 DEF StoreByte
<1>7. CASE ShowByte
  <2>1. RxReady'
    BY <1>7, RxBit DEF ShowByte, RxReady, TypeOK
  <2> QED
    BY <2>1
<1>8. CASE SpuriousWake
  BY <1>8 DEF SpuriousWake, RxReady
<1>9. CASE LoadRhr
  <2>1. pc' # "wait"
    BY <1>9 DEF LoadRhr, NotifyOne
  <2>2. RxReady => received' # << >>
    BY <1>9 DEF LoadRhr, TypeOK
  <2> QED
    BY <1>9, <2>1, <2>2 DEF LoadRhr
<1>10. ASSUME NEW v \in Value, Transmit(v)
       PROVE  SleepsOnlyWhenFull' /\ FirstInterruptHasByte'
  BY <1>10 DEF Transmit, RxReady
<1>11. ASSUME NEW o \in StoreOffset, NEW v \in Value, Store(o, v)
       PROVE  SleepsOnlyWhenFull' /\ FirstInterruptHasByte'
  BY <1>11, StoreElsewhere DEF Store
<1>12. CASE UNCHANGED vars
  BY <1>12 DEF vars, RxReady
<1> QED
  BY <1>1, <1>2, <1>3, <1>4, <1>5, <1>6, <1>7, <1>8, <1>9, <1>10, <1>11,
     <1>12, Zenon
  DEF Next, OpenNext, Reader, Guest

\* End of file comes last, and the two writes of the input thread are not
\* disturbed.
LEMMA ReaderStateStep == ASSUME IInv, [Next]_vars PROVE ReaderState'
<1> USE DEF IInv, device, thread, stdin, guest, ReaderState, MutexFree
<1>1. ASSUME NEW b \in Input, Type(b) PROVE ReaderState'
  BY <1>1, Counts DEF Type, RxReady
<1>2. CASE CloseInput
  BY <1>2 DEF CloseInput, RxReady
<1>3. CASE ReadByte
  BY <1>3, Counts DEF ReadByte
<1>4. CASE ReadEof
  BY <1>4 DEF ReadEof
<1>5. CASE AwaitRoom
  BY <1>5 DEF AwaitRoom
<1>6. CASE StoreByte
  <2>1. ~RxReady' /\ mem'[RHR] = byte
    BY <1>6, UartAssumption
    DEF StoreByte, TypeOK, UartAssumption, RxReady, RHR, LSR
  <2> QED
    BY <1>6, <2>1 DEF StoreByte
<1>7. CASE ShowByte
  BY <1>7 DEF ShowByte
<1>8. CASE SpuriousWake
  BY <1>8 DEF SpuriousWake
<1>9. CASE LoadRhr
  BY <1>9 DEF LoadRhr, NotifyOne
<1>10. ASSUME NEW v \in Value, Transmit(v) PROVE ReaderState'
  BY <1>10 DEF Transmit
<1>11. ASSUME NEW o \in StoreOffset, NEW v \in Value, Store(o, v)
       PROVE  ReaderState'
  BY <1>11 DEF Store
<1>12. CASE UNCHANGED vars
  BY <1>12 DEF vars, RxReady
<1> QED
  BY <1>1, <1>2, <1>3, <1>4, <1>5, <1>6, <1>7, <1>8, <1>9, <1>10, <1>11,
     <1>12, Zenon
  DEF Next, OpenNext, Reader, Guest

\* The four parts together.
LEMMA IInvStep == ASSUME IInv, [Next]_vars PROVE IInv'
<1>1. TypeOK'
  BY TypeOKStep DEF IInv
<1> QED
  BY <1>1, InOrderStep, WaitStep, ReaderStateStep DEF IInv

(***************************************************************************)
(* IInv is an invariant of the device, end of file included.               *)
(***************************************************************************)
THEOREM Inductive == Spec => []IInv
  BY InitIInv, IInvStep, PTL DEF Spec

(***************************************************************************)
(* What the guest receives is what the reads of stdin returned, in order,  *)
(* whatever the interleaving of the two threads (load, store and the loop  *)
(* of the input thread).                                                   *)
(***************************************************************************)
THEOREM Order == Spec => []InOrder
<1>1. IInv => InOrder
  BY DEF IInv
<1> QED
  BY Inductive, <1>1, PTL

(***************************************************************************)
(* The wait loop and notify_one lose no wake-up.                           *)
(***************************************************************************)
THEOREM NoLostWakeup == Spec => []SleepsOnlyWhenFull
<1>1. IInv => SleepsOnlyWhenFull
  BY DEF IInv
<1> QED
  BY Inductive, <1>1, PTL

(***************************************************************************)
(* The atomic flag may be set before the byte is shown: no guest can tell. *)
(***************************************************************************)
THEOREM InterruptWithByte == Spec => []FirstInterruptHasByte
<1>1. IInv => FirstInterruptHasByte
  BY DEF IInv
<1> QED
  BY Inductive, <1>1, PTL

-----------------------------------------------------------------------------
(* The device implements UartPort until stdin is closed.                   *)

\* Without end of file every read of stdin returned a new byte.
OpenInv == IInv /\ ~eof

\* End of file is for good: until then each step is one of OpenNext.
LEMMA OpenStep ==
  ASSUME IInv, [Next]_vars, ~eof'
  PROVE  OpenInv /\ [OpenNext]_vars
<1>1. CASE CloseInput
  BY <1>1 DEF CloseInput
<1>2. CASE [OpenNext]_vars
  <2>1. eof' = eof
    BY <1>2, Zenon
    DEF OpenNext, Type, Reader, ReadByte, ReadEof, AwaitRoom, StoreByte,
        ShowByte, SpuriousWake, Guest, LoadRhr, Transmit, Store, stdin, vars
  <2> QED
    BY <1>2, <2>1, Zenon DEF OpenInv
<1> QED
  BY <1>1, <1>2, Zenon DEF Next

\* The initial state of the device is that of the port.
LEMMA PortInit == Init => Port!Init
  BY UartAssumption
  DEF Init, Port!Init, UartAssumption, RxReady, UART_LSR_RX, UART_LSR_TX, LSR

\* A step that leaves LSR, the flag and both ends alone is none of the port's.
LEMMA PortStutter ==
  ASSUME RxReady' = RxReady, UNCHANGED <<typed, received, interrupting>>
  PROVE  [Port!Next]_Port!portVars
  BY DEF Port!portVars

\* Each step of the device is a step of the port or none.
LEMMA PortStep ==
  ASSUME OpenInv, [OpenNext]_vars
  PROVE  [Port!Next]_Port!portVars
<1> USE DEF device, thread, stdin, guest
<1> TypeOK /\ InOrder /\ ReaderState /\ eofReads = 0
  BY Counts DEF OpenInv, IInv, ReaderState
<1>1. ASSUME NEW b \in Input, Type(b) PROVE [Port!Next]_Port!portVars
  <2>1. Port!Type(b)
    BY <1>1 DEF Type, Port!Type, RxReady
  <2> QED
    BY <2>1, Zenon DEF Port!Next
<1>2. CASE ReadByte
  BY <1>2, PortStutter DEF ReadByte, RxReady
<1>3. CASE ReadEof
  BY <1>3, PortStutter DEF ReadEof, RxReady
<1>4. CASE AwaitRoom
  BY <1>4, PortStutter DEF AwaitRoom, RxReady
<1>5. CASE StoreByte
  <2>1. Len(received) < Len(typed)
    BY <1>5, Counts DEF StoreByte, InOrder, InFlight
  <2>2. RxReady' = RxReady
    BY <1>5 DEF StoreByte, TypeOK, RxReady, RHR, LSR
  <2>3. Port!Raise
    BY <1>5, <2>1, <2>2 DEF StoreByte, Port!Raise, Port!CanFill
  <2> QED
    BY <2>3, Zenon DEF Port!Next
<1>6. CASE ShowByte
  <2>1. ~RxReady /\ RxReady' /\ interrupting
    BY <1>6, RxBit DEF ShowByte, ReaderState, MutexFree, RxReady, TypeOK
  <2>2. Len(received) < Len(typed)
    BY <1>6, <2>1, Counts DEF ShowByte, InOrder, InFlight
  <2>3. Port!Fill
    BY <1>6, <2>1, <2>2 DEF ShowByte, Port!Fill, Port!CanFill
  <2> QED
    BY <2>3, Zenon DEF Port!Next
<1>7. CASE SpuriousWake
  BY <1>7, PortStutter DEF SpuriousWake, RxReady
<1>8. CASE LoadRhr
  <2>1. ~RxReady'
    BY <1>8, RxBit DEF LoadRhr, RxReady, TypeOK
  <2>2. CASE ~RxReady
    <3>1. RxReady' = RxReady
      BY <2>1, <2>2 DEF RxReady
    <3>2. received' = received
      BY <1>8, <2>2 DEF LoadRhr
    <3> QED
      BY <1>8, <3>1, <3>2, PortStutter DEF LoadRhr
  <2>3. CASE RxReady
    <3>1. Len(received) + 1 <= nread
      BY <2>3, Counts DEF InOrder
    <3>2. mem[RHR] = typed[Len(received) + 1]
      BY <2>3, <3>1 DEF InOrder, Expected
    <3>3. Port!Receive
      BY <1>8, <2>1, <2>3, <3>2 DEF LoadRhr, Port!Receive
    <3> QED
      BY <3>3, Zenon DEF Port!Next
  <2> QED
    BY <2>2, <2>3
<1>9. ASSUME NEW v \in Value, Transmit(v)
      PROVE  [Port!Next]_Port!portVars
  BY <1>9, PortStutter DEF Transmit, RxReady
<1>10. ASSUME NEW o \in StoreOffset, NEW v \in Value, Store(o, v)
       PROVE  [Port!Next]_Port!portVars
  BY <1>10, StoreElsewhere, PortStutter DEF Store
<1>11. CASE UNCHANGED vars
  BY <1>11, PortStutter DEF vars, RxReady
<1> QED
  BY <1>1, <1>2, <1>3, <1>4, <1>5, <1>6, <1>7, <1>8, <1>9, <1>10, <1>11,
     Zenon
  DEF OpenNext, Reader, Guest

(***************************************************************************)
(* Until stdin is closed the two-thread device behaves as the one-place    *)
(* buffer UartPort: typed bytes come out of RHR once each and in order, an *)
(* interrupt precedes the first of them, and the line never falls.         *)
(***************************************************************************)
THEOREM ImplementsPort == Spec => PortSpec
<1>1. Init => Port!Init
  BY PortInit
<1>2. IInv /\ [Next]_vars => [eof' \/ Port!Next]_(Port!portVars)
  <2> SUFFICES ASSUME IInv, [Next]_vars, ~eof'
               PROVE  [Port!Next]_Port!portVars
    BY Zenon
  <2> QED
    BY OpenStep, PortStep
<1> QED
  BY Inductive, <1>1, <1>2, PTL DEF Spec, PortSpec

-----------------------------------------------------------------------------
(* The echo program of UartEcho.tla on the device.                         *)

\* The program clears bit 5 of the codes 97 to 122 and of no others.
LEMMA CapitalCode ==
  ASSUME NEW b \in Byte
  PROVE  /\ ToCapital(b) \in Byte
         /\ Code(ToCapital(b)) =
              Code(b) - IF Code(b) \in 97..122 THEN 32 ELSE 0
<1>1. IsSmall(b) <=> Code(b) \in 97..122
  BY DEF IsSmall, Code, Byte
<1>2. IsSmall(b) => Code(b \ {5}) = Code(b) - 32
  BY DEF IsSmall, Code
<1>3. Code(b) \in Nat
  BY DEF Code
<1> QED
  BY <1>1, <1>2, <1>3 DEF ToCapital, Byte

\* What print! writes for a byte is the UTF-8 of the character it numbers.
LEMMA CharacterNumber ==
  ASSUME NEW b \in Byte
  PROVE  [k \in DOMAIN Utf8(b) |-> Code(Utf8(b)[k])] = Utf8Codes(Code(b))
<1>1. CASE 7 \notin b
  <2>1. Code(b) < 128
    BY <1>1 DEF Code
  <2> QED
    BY <1>1, <2>1 DEF Utf8, Utf8Codes
<1>2. CASE 7 \in b
  <2> DEFINE high == {1, 6, 7} \cup (IF 6 \in b THEN {0} ELSE {})
             low  == {7} \cup (b \cap (0..5))
  <2>1. Code(b) \in 128..255
    BY <1>2 DEF Code
  <2>2. Code(high) = 192 + Code(b) \div 64
    BY <1>2 DEF Code
  <2>3. Code(low) = 128 + (Code(b) % 64)
    BY <1>2 DEF Code
  <2>4. Utf8(b) = <<high, low>>
    BY <1>2 DEF Utf8
  <2> HIDE DEF high, low
  <2> QED
    BY <2>1, <2>2, <2>3, <2>4 DEF Utf8Codes
<1> QED
  BY <1>1, <1>2

(***************************************************************************)
(* What the guest has printed is what it loaded, but for the byte it holds *)
(* between the load and the store; what it loaded is what was typed.       *)
(***************************************************************************)
Echoed ==
  /\ Len(received) = Len(printed) + (IF gpc = "put" THEN 1 ELSE 0)
  /\ \A i \in 1..Len(printed) : printed[i] = Utf8(ToCapital(typed[i]))
  /\ gpc = "put" => c = typed[Len(received)]

EchoInv ==
  /\ IInv
  /\ ~eof
  /\ gpc \in {"poll", "load", "put"} /\ c \in Byte
  /\ CheckedLoad
  /\ Echoed

LEMMA EchoInitInv == EchoInit => EchoInv
<1> SUFFICES ASSUME EchoInit PROVE EchoInv
  OBVIOUS
<1>1. IInv /\ ~eof
  BY InitIInv DEF EchoInit, Init
<1>2. gpc = "poll" /\ c \in Byte
  BY DEF EchoInit, Zero, Byte
<1>3. received = << >> /\ printed = << >>
  BY DEF EchoInit, Init
<1>4. Echoed
  BY <1>2, <1>3 DEF Echoed
<1> QED
  BY <1>1, <1>2, <1>4 DEF EchoInv, CheckedLoad

\* Without end of file the guest has received typed bytes only.
LEMMA Typed ==
  ASSUME EchoInv
  PROVE  /\ Len(printed) \in Nat
         /\ Len(printed) <= Len(received) /\ Len(received) <= Len(typed)
         /\ RxReady => /\ Len(received) + 1 <= Len(typed)
                       /\ mem[RHR] = typed[Len(received) + 1]
<1>1. TypeOK /\ InOrder /\ ReaderState /\ eofReads = 0
  BY Counts DEF EchoInv, IInv, ReaderState
<1>2. Len(printed) \in Nat
  BY <1>1 DEF TypeOK
<1>3. Len(printed) <= Len(received)
  BY <1>1, <1>2, Counts DEF EchoInv, Echoed
<1>4. /\ Len(received) <= nread
      /\ RxReady => Len(received) + 1 <= nread
  <2>1. Len(received) \in Nat /\ nread \in Nat
    BY <1>1, Counts
  <2>2. Len(received) + (IF RxReady THEN 1 ELSE 0) + (IF InFlight THEN 1 ELSE 0)
          = nread + eofReads
    BY <1>1 DEF InOrder
  <2>3. CASE InFlight
    BY <1>1, <2>1, <2>2, <2>3
  <2>4. CASE ~InFlight
    BY <1>1, <2>1, <2>2, <2>4
  <2> QED
    BY <2>3, <2>4
<1>5. RxReady => mem[RHR] = typed[Len(received) + 1]
  BY <1>1, <1>4, Counts DEF InOrder, Expected
<1> QED
  BY <1>1, <1>2, <1>3, <1>4, <1>5, Counts

\* Each step of the program and of the keyboard is one of the device.
LEMMA EchoIsDevice == EchoInv /\ [EchoNext]_echoVars => [Next]_vars
<1> SUFFICES ASSUME EchoInv, [EchoNext]_echoVars PROVE [Next]_vars
  OBVIOUS
<1>1. CASE Poll
  BY <1>1 DEF Poll
<1>2. CASE Load
  BY <1>2 DEF Load, Next, OpenNext, Guest
<1>3. CASE Put
  <2>1. ToCapital(c) \in Value
    BY CapitalCode, EchoAssumption DEF EchoInv
  <2> QED
    BY <1>3, <2>1 DEF Put, Next, OpenNext, Guest
<1> QED
  BY <1>1, <1>2, <1>3 DEF EchoNext, EchoGuest, echoVars, Next, OpenNext

\* The keyboard and the input thread leave the guest's side alone, and LSR
\* goes on showing what it showed.
LEMMA Beside ==
  ASSUME EchoInv, (\E b \in Input : Type(b)) \/ Reader \/ SpuriousWake
  PROVE  /\ UNCHANGED <<received, printed, eof>>
         /\ RxReady => RxReady'
         /\ \A i \in 1..Len(typed) : typed'[i] = typed[i]
<1> USE DEF device, thread, stdin, guest
<1>0. TypeOK
  BY DEF EchoInv, IInv
<1>1. CASE \E b \in Input : Type(b)
  BY <1>0, <1>1 DEF TypeOK, Type, RxReady
<1>2. CASE ReadByte \/ ReadEof \/ AwaitRoom \/ SpuriousWake
  BY <1>2 DEF ReadByte, ReadEof, AwaitRoom, SpuriousWake, RxReady
<1>3. CASE StoreByte
  BY <1>3 DEF StoreByte
<1>4. CASE ShowByte
  BY <1>0, <1>4, RxBit DEF ShowByte, RxReady, TypeOK
<1> QED
  BY <1>1, <1>2, <1>3, <1>4 DEF Reader

LEMMA EchoStepInv == EchoInv /\ [EchoNext]_echoVars => EchoInv'
<1> SUFFICES ASSUME EchoInv, [EchoNext]_echoVars PROVE EchoInv'
  OBVIOUS
<1>0. IInv' /\ TypeOK /\ TypeOK'
  BY EchoIsDevice, IInvStep DEF EchoInv, IInv
<1>1. CASE \/ (\E b \in Input : Type(b)) /\ UNCHANGED <<gpc, c>>
           \/ (Reader \/ SpuriousWake) /\ UNCHANGED <<gpc, c>>
  <2>1. /\ UNCHANGED <<received, printed, eof, gpc, c>>
        /\ RxReady => RxReady'
        /\ \A i \in 1..Len(typed) : typed'[i] = typed[i]
    BY <1>1, Beside
  <2>2. Echoed'
    BY <2>1, Typed, <1>0, Counts DEF EchoInv, Echoed
  <2> QED
    BY <1>0, <2>1, <2>2 DEF EchoInv, CheckedLoad
<1>2. CASE Poll
  <2>1. UNCHANGED <<received, printed, eof, typed, mem, c>>
    BY <1>2 DEF Poll, vars, device, stdin, guest
  <2>2. gpc = "poll" /\ gpc' \in {"poll", "load"} /\ (gpc' = "load" => RxReady)
    BY <1>2 DEF Poll
  <2> QED
    BY <1>0, <2>1, <2>2 DEF EchoInv, CheckedLoad, Echoed, RxReady
<1>3. CASE Load
  <2>1. RxReady
    BY <1>3 DEF EchoInv, CheckedLoad, Load
  <2>2. /\ received' = Append(received, mem[RHR]) /\ c' = mem[RHR]
        /\ gpc = "load" /\ gpc' = "put"
        /\ UNCHANGED <<printed, eof, typed>>
    BY <1>3, <2>1 DEF Load, LoadRhr, stdin
  <2>3. Len(received') = Len(received) + 1
    BY <1>0, <2>2 DEF TypeOK
  <2>4. c' \in Byte
    BY <1>0, <2>2, UartAssumption DEF TypeOK
  <2>5. c' = typed'[Len(received')]
    BY <2>1, <2>2, <2>3, Typed
  <2> QED
    BY <1>0, <2>2, <2>3, <2>4, <2>5 DEF EchoInv, CheckedLoad, Echoed
<1>4. CASE Put
  <2>1. /\ printed' = Append(printed, Utf8(ToCapital(c)))
        /\ gpc = "put" /\ gpc' = "poll"
        /\ UNCHANGED <<received, eof, typed, c>>
    BY <1>4 DEF Put, Transmit, stdin
  <2>2. /\ Len(printed') = Len(printed) + 1
        /\ printed'[Len(printed) + 1] = Utf8(ToCapital(c))
        /\ \A i \in 1..Len(printed) : printed'[i] = printed[i]
    BY <1>0, <2>1 DEF TypeOK
  <2>3. Len(received) = Len(printed) + 1 /\ c = typed[Len(received)]
    BY <2>1 DEF EchoInv, Echoed
  <2>4. \A i \in 1..Len(printed') : printed'[i] = Utf8(ToCapital(typed'[i]))
    BY <2>1, <2>2, <2>3, Typed DEF EchoInv, Echoed
  <2> QED
    BY <1>0, <2>1, <2>2, <2>3, <2>4, Typed DEF EchoInv, CheckedLoad, Echoed
<1>5. CASE UNCHANGED echoVars
  <2>1. UNCHANGED <<received, printed, eof, typed, mem, gpc, c>>
    BY <1>5 DEF echoVars, vars, device, stdin, guest
  <2> QED
    BY <1>0, <2>1 DEF EchoInv, CheckedLoad, Echoed, RxReady
<1> QED
  BY <1>1, <1>2, <1>3, <1>4, <1>5 DEF EchoNext, EchoGuest

(***************************************************************************)
(* When the guest loads RHR its check of LSR still holds, whatever the     *)
(* input thread did since (echo_out.c:6-7).                                *)
(***************************************************************************)
THEOREM LoadChecked == EchoSpec => []CheckedLoad
<1>1. EchoInv => CheckedLoad
  BY DEF EchoInv
<1> QED
  BY <1>1, EchoInitInv, EchoStepInv, PTL DEF EchoSpec

LEMMA EchoedInOrder == EchoInv => EchoesInOrder
<1> SUFFICES ASSUME EchoInv PROVE EchoesInOrder
  OBVIOUS
<1>1. Len(printed) <= Len(typed)
  BY Typed, Counts DEF EchoInv, IInv
<1>2. ASSUME NEW i \in 1..Len(printed)
      PROVE  typed[i] \in Byte /\ printed[i] = Utf8(ToCapital(typed[i]))
  <2>1. i \in 1..Len(typed)
    BY <1>1, Typed, Counts DEF EchoInv, IInv
  <2> QED
    BY <2>1, UartAssumption DEF EchoInv, IInv, TypeOK, Echoed
<1>3. ASSUME NEW i \in 1..Len(printed)
      PROVE  [k \in DOMAIN printed[i] |-> Code(printed[i][k])] =
               Utf8Codes(Code(typed[i]) -
                           IF Code(typed[i]) \in 97..122 THEN 32 ELSE 0)
  BY <1>2, CapitalCode, CharacterNumber
<1> QED
  BY <1>1, <1>3 DEF EchoesInOrder

(***************************************************************************)
(* The echo program prints one character for each byte typed, in order:    *)
(* the character of that number in UTF-8, the small letters made capital.  *)
(***************************************************************************)
THEOREM EchoCorrect == EchoSpec => []EchoesInOrder
  BY EchoedInOrder, EchoInitInv, EchoStepInv, PTL DEF EchoSpec

(***************************************************************************)
(* The echo program, polling and without interrupts, meets the device as   *)
(* the one-place buffer of UartPort: none of its loads and stores depends  *)
(* on the threads, the lock or the condition variable behind it.           *)
(***************************************************************************)
THEOREM EchoUsesPort == EchoSpec => Port!Spec
<1>1. EchoInit => Port!Init
  BY PortInit DEF EchoInit
<1>2. EchoInv /\ [EchoNext]_echoVars => [Port!Next]_(Port!portVars)
  <2> SUFFICES ASSUME EchoInv, [EchoNext]_echoVars
               PROVE  [Port!Next]_Port!portVars
    OBVIOUS
  <2>1. IInv /\ [Next]_vars /\ ~eof'
    BY EchoIsDevice, EchoStepInv DEF EchoInv
  <2>2. OpenInv /\ [OpenNext]_vars
    BY <2>1, OpenStep
  <2> QED
    BY <2>2, PortStep
<1> QED
  BY <1>1, <1>2, EchoInitInv, EchoStepInv, PTL DEF EchoSpec, Port!Spec
=============================================================================
