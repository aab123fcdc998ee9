------------------------------- MODULE RunLoop ------------------------------
(***************************************************************************)
(* The emulator loop (src/src/main.rs): one instruction of the guest, then *)
(* check_ints, which polls the devices, posts external interrupts and      *)
(* takes at most one trap.                                                 *)
(*                                                                         *)
(* It composes the CLINT, the PLIC, the UART (as UartPort: its input       *)
(* thread runs beside the loop) and the notify register of the disk.       *)
(* The hart itself is riscv-vm's and is external: a guest instruction may  *)
(* do whatever its privilege allows, Take is how take_trap enters a        *)
(* handler.  The guest of this module is any program; RunLoopOs has a      *)
(* disciplined one.                                                        *)
(***************************************************************************)
EXTENDS Clint, Plic, Sequences

CONSTANTS
  Int,         \* the interrupts in play
  Delegated,   \* mideleg
  Input,       \* the bytes a user may type
  MaxTyped,    \* bound: bytes typed
  MaxNotify    \* bound: stores to QUEUE_NOTIFY

UART_IRQ == 10
VIRTIO_IRQ == 1

AllInt == {"MEI", "MSI", "MTI", "SEI", "SSI", "STI"}
None == "none"
Mode == {"M", "S", "U"}

ASSUME RunLoopAssumption ==
  /\ {UART_IRQ, VIRTIO_IRQ} = Source
  /\ Int \subseteq AllInt
  /\ "SEI" \in Int
  /\ Delegated \subseteq {"SEI", "SSI", "STI"}
  /\ MaxNotify \in Nat

VARIABLES
  phase,       \* what the loop does next: "step" or "check"
  priv,        \* the privilege mode
  gie,         \* the modes whose interrupt-enable bit in mstatus is 1
  mie,         \* the interrupts enabled in mie
  mip,         \* the interrupts posted in mip
  taken,       \* the interrupt the check before this instruction took
  typed, received, full, irq,   \* the UART
  notify,      \* queue_notify is not u32::MAX, its value for no notify
  notified,    \* how often the guest stored to it
  settledUpTo, \* how many of these stores came before the last disk_access,
               \* or the last of them that stored u32::MAX, or are it
  owed         \* an external interrupt was raised and not taken since

hart == <<priv, gie, mie, mip>>
disk == <<notify, notified, settledUpTo>>
uart == <<typed, received, full, irq>>
loopVars == <<phase, taken, owed, hart, disk, uart, clintVars, plicVars>>

Uart == INSTANCE UartPort

LoopInit ==
  /\ ClintInit
  /\ PlicInit
  /\ Uart!Init
  /\ phase = "step"
  /\ priv = "M"
  /\ gie = {}
  /\ mie = {}
  /\ mip = {}
  /\ taken = None
  /\ notify = FALSE
  /\ notified = 0
  /\ settledUpTo = 0
  /\ owed = FALSE

-----------------------------------------------------------------------------
(* check_ints.                                                             *)

\* Faulty variant: the enable bits are not looked at.
NeverDisabled == FALSE

\* 3.1.6.1, as coded: M looks at MIE, S at SIE, U at nothing.
GloballyDisabled == priv \in {"M", "S"} \ gie

\* Faulty variant: the UART's line is not looked at.
PolledDisk == IF notify THEN VIRTIO_IRQ ELSE 0

\* Faulty variant: the UART is looked at last and hides the disk.
PolledUartLast == IF irq THEN UART_IRQ ELSE IF notify THEN VIRTIO_IRQ ELSE 0

\* Faulty variant: irq |= VIRTIO_IRQ.
PolledBoth ==
  (IF notify THEN VIRTIO_IRQ ELSE 0) + (IF irq THEN UART_IRQ ELSE 0)

\* What irq is after both devices were asked.
Polled == IF notify THEN VIRTIO_IRQ ELSE IF irq THEN UART_IRQ ELSE 0

Priority == <<"MEI", "MSI", "MTI", "SEI", "SSI", "STI">>

\* The first interrupt, in the order of the tests, that is in the set.
First(ints) ==
  Priority[CHOOSE k \in 1..6 :
             /\ Priority[k] \in ints
             /\ \A j \in 1..(k - 1) : Priority[j] \notin ints]

\* take_trap (external): a delegated interrupt below M goes to S.
Take(i) ==
  LET target == IF priv # "M" /\ i \in Delegated THEN "S" ELSE "M"
  IN  /\ priv' = target
      /\ gie' = gie \ {target}
      /\ taken' = i

TakeNothing == taken' = None /\ UNCHANGED <<priv, gie>>

\* Before anything else; xIE, mip and mie are not looked at.
TimerShortcut ==
  /\ TimerFires
  /\ Take("MTI")
  /\ UNCHANGED <<mie, mip, owed, disk, uart, clintVars, plicVars>>

CheckDisabled ==
  /\ ~TimerFires
  /\ GloballyDisabled
  /\ TakeNothing
  /\ UNCHANGED <<mie, mip, owed, disk, uart, clintVars, plicVars>>

\* Faulty variant: the register is not reset, the request is served again.
PollDiskAgain ==
  /\ settledUpTo' = IF notify THEN notified ELSE settledUpTo
  /\ UNCHANGED <<notify, notified>>

\* is_interrupting of the disk resets the register, then disk_access runs.
PollDisk ==
  /\ notify' = FALSE
  /\ settledUpTo' = IF notify THEN notified ELSE settledUpTo
  /\ UNCHANGED notified

\* Only one source is raised: the disk hides the UART.
RaiseExternal ==
  IF Polled = 0 THEN UNCHANGED plicVars ELSE UpdatePending(Polled)

\* Faulty variant: the bit of mip is the one of M-mode.
PostedForM == IF Polled = 0 THEN mip ELSE mip \cup {"MEI"}

Posted == IF Polled = 0 THEN mip ELSE mip \cup {"SEI"}

\* Faulty variant: every posted interrupt is cleared with the one taken.
TakeAllPending ==
  LET ready == mie \cap Posted
  IN  IF ready = {}
      THEN TakeNothing /\ mip' = Posted
      ELSE Take(First(ready)) /\ mip' = Posted \ ready

\* Faulty variant: what is taken stays posted.
TakeAndKeep ==
  /\ mip' = Posted
  /\ IF mie \cap Posted = {} THEN TakeNothing ELSE Take(First(mie \cap Posted))

TakePending ==
  LET ready == mie \cap Posted
  IN  IF ready = {}
      THEN TakeNothing /\ mip' = Posted
      ELSE Take(First(ready)) /\ mip' = Posted \ {First(ready)}

CheckEnabled ==
  /\ ~TimerFires
  /\ ~GloballyDisabled
  /\ PollDisk
  /\ RaiseExternal
  /\ TakePending
  /\ owed' = ((Polled # 0 \/ owed) /\ taken' # "SEI")
  /\ UNCHANGED <<mie, uart, clintVars>>

CheckInts ==
  /\ phase = "check"
  /\ phase' = "step"
  /\ TimerShortcut \/ CheckDisabled \/ CheckEnabled

-----------------------------------------------------------------------------
(* One instruction of the guest: an access to the hart's registers, or a   *)
(* store to a device.  Instructions that touch neither are TakeTime.       *)

TakeTime == UNCHANGED <<hart, owed, disk, uart, clintVars, plicVars>>

HartOnly == UNCHANGED <<owed, disk, uart, clintVars, plicVars>>

\* csrw mstatus and sstatus: a mode sets its own enable bit or a lower one.
WriteEnableBits(bits) ==
  /\ priv # "U"
  /\ priv = "S" => bits \cap {"M"} = gie \cap {"M"}
  /\ gie' = bits
  /\ UNCHANGED <<priv, mie, mip>>
  /\ HartOnly

\* csrw mie and sie.
WriteMie(ints) ==
  /\ priv # "U"
  /\ priv = "S" => ints \ Delegated = mie \ Delegated
  /\ mie' = ints
  /\ UNCHANGED <<priv, gie, mip>>
  /\ HartOnly

\* csrw mip and sip.  A guest that clears SEIP gives up what was owed.
WriteMip(ints) ==
  /\ priv # "U"
  /\ priv = "S" => ints \ Delegated = mip \ Delegated
  /\ mip' = ints
  /\ owed' = (owed /\ "SEI" \in ints)
  /\ UNCHANGED <<priv, gie, mie>>
  /\ UNCHANGED <<disk, uart, clintVars, plicVars>>

\* ecall and exceptions, to the same mode or a higher one.
EnterHandler(mode) ==
  /\ mode = "M" \/ (mode = "S" /\ priv # "M")
  /\ priv' = mode
  /\ gie' = gie \ {mode}
  /\ UNCHANGED <<mie, mip>>
  /\ HartOnly

\* mret and sret: xIE is restored to what xPIE was, either value.
Return(mode, bits) ==
  /\ \/ priv = "M" /\ bits \in {gie, gie \cup {"M"}}
     \/ priv = "S" /\ mode # "M" /\ bits \in {gie, gie \cup {"S"}}
  /\ priv' = mode
  /\ gie' = bits
  /\ UNCHANGED <<mie, mip>>
  /\ HartOnly

HartInstruction ==
  \/ TakeTime
  \/ \E bits \in SUBSET {"M", "S"} : WriteEnableBits(bits)
  \/ \E ints \in SUBSET Int : WriteMie(ints) \/ WriteMip(ints)
  \/ \E mode \in Mode : EnterHandler(mode)
  \/ \E mode \in Mode, bits \in SUBSET {"M", "S"} : Return(mode, bits)

(***************************************************************************)
(* A store to QUEUE_NOTIFY leaves any value there, a queue's index or the  *)
(* u32::MAX that is_interrupting takes for none: then a notify that was    *)
(* pending is withdrawn.  (A store of a byte or a halfword is merged into  *)
(* the register and may leave either.)                                     *)
(***************************************************************************)
StoreQueueNotify(none) ==
  /\ notified < MaxNotify
  /\ notify' = ~none
  /\ notified' = notified + 1
  /\ settledUpTo' = IF none THEN notified' ELSE settledUpTo
  /\ UNCHANGED <<uart, clintVars, plicVars>>

StoreClint == ClintStore /\ UNCHANGED <<disk, uart, plicVars>>

(***************************************************************************)
(* The PLIC reads no priority, no threshold and no enable bit of context 0,*)
(* and completes the same way through either context.                      *)
(***************************************************************************)
StorePlic ==
  /\ \/ \E v \in CompleteValue : Complete(1, v)
     \/ \E ids \in SUBSET Source : WriteEnable(1, ids)
     \/ \E w \in PendingWord, bits \in {{}, {1}} : WritePending(w, bits)
  /\ UNCHANGED <<disk, uart, clintVars>>

LoadUart == Uart!Receive /\ UNCHANGED <<disk, clintVars, plicVars>>

DeviceInstruction ==
  /\ \/ \E none \in BOOLEAN : StoreQueueNotify(none)
     \/ StoreClint \/ StorePlic \/ LoadUart
  /\ UNCHANGED <<hart, owed>>

\* The loop of main: the closure runs after every instruction.
Step ==
  /\ phase = "step"
  /\ phase' = "check"
  /\ HartInstruction \/ DeviceInstruction
  /\ taken' = None

\* An instruction that step() fails on ends the loop.
Stop ==
  /\ phase = "step"
  /\ phase' = "stopped"
  /\ UNCHANGED <<taken, owed, hart, disk, uart, clintVars, plicVars>>

\* The user and the input thread, at any time.
Keyboard ==
  /\ phase # "stopped"
  /\ \/ \E b \in Input : Uart!Type(b)
     \/ Uart!Raise
     \/ Uart!Fill
  /\ UNCHANGED <<phase, taken, owed, hart, disk, clintVars, plicVars>>

LoopNext == Step \/ CheckInts \/ Stop \/ Keyboard

LoopSpec == LoopInit /\ [][LoopNext]_loopVars

-----------------------------------------------------------------------------
(* Properties.                                                             *)

\* Every variable of the loop holds a value of its type.
LoopTypeOK ==
  /\ phase \in {"step", "check", "stopped"}
  /\ priv \in Mode
  /\ gie \subseteq {"M", "S"}
  /\ mie \subseteq Int
  /\ mip \subseteq Int
  /\ taken \in Int \cup {None, "MTI"}
  /\ notify \in BOOLEAN
  /\ notified \in 0..MaxNotify
  /\ settledUpTo \in 0..MaxNotify
  /\ owed \in BOOLEAN

(***************************************************************************)
(* An external interrupt that check_ints raised stays posted until the     *)
(* hart takes it or the guest clears it: not lost to an interrupt of       *)
(* higher priority in the same check, to a check with interrupts disabled, *)
(* to a mask in mie, or to the timer shortcut.                             *)
(***************************************************************************)
ExternalStaysPosted == owed => "SEI" \in mip

(***************************************************************************)
(* A store to QUEUE_NOTIFY stays pending through checks with interrupts    *)
(* disabled and through timer interrupts, and is served exactly once: one  *)
(* is pending if and only if there was one since the last disk_access and  *)
(* since the guest itself last stored the value for none.                  *)
(***************************************************************************)
NotifyAccounted ==
  /\ settledUpTo <= notified
  /\ notify <=> settledUpTo < notified
=============================================================================
