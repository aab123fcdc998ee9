------------------------------ MODULE RunLoopOs -----------------------------
(***************************************************************************)
(* The emulator loop running a small operating system, shaped like the     *)
(* xv6 the README names as its goal: the kernel runs in S and delegates    *)
(* its interrupts there, keeps external interrupts enabled in mie, has at  *)
(* most one disk request in flight, and its handler claims an interrupt,   *)
(* looks at the device, completes the interrupt and returns.               *)
(***************************************************************************)
EXTENDS RunLoop

CONSTANT MaxSoftware   \* bound: software interrupts the kernel sends itself

ASSUME OsAssumption ==
  {"SEI", "SSI"} = Delegated /\ Delegated \subseteq Int

VARIABLES
  gpc,        \* "main", or where the handler is
  saved,      \* the mode and the SIE bit to return to
  id,         \* the interrupt the handler claimed
  waiting,    \* a disk request was submitted and not reported done
  software    \* how many software interrupts were sent

osVars == <<gpc, saved, id, waiting, software>>

\* The kernel has set up the hart and the PLIC and starts with SIE = 0.
OsInit ==
  /\ ClintInit
  /\ Uart!Init
  /\ pending = {} /\ outstanding = {} /\ overwritten = {}
  /\ enable = {1} \X Source
  /\ priority = [s \in Source |-> 0]
  /\ threshold = [c \in Context |-> 0]
  /\ claim = [c \in Context |-> 0]
  /\ phase = "step" /\ taken = None
  /\ priv = "S" /\ gie = {}
  /\ mie = Delegated /\ mip = {}
  /\ notify = FALSE /\ notified = 0 /\ settledUpTo = 0
  /\ owed = FALSE
  /\ gpc = "main"
  /\ saved = [mode |-> "S", sie |-> {}]
  /\ id = 0
  /\ waiting = FALSE
  /\ software = 0

Instruction(A) ==
  /\ phase = "step"
  /\ phase' = "check"
  /\ taken' = None
  /\ A

-----------------------------------------------------------------------------
(* The kernel outside its handler, and user programs.                      *)

Work == TakeTime /\ UNCHANGED osVars

IntrOn == priv = "S" /\ WriteEnableBits({"S"}) /\ UNCHANGED osVars

IntrOff == priv = "S" /\ WriteEnableBits({}) /\ UNCHANGED osVars

EnterUser == priv = "S" /\ Return("U", gie \cup {"S"}) /\ UNCHANGED osVars

SystemCall == priv = "U" /\ EnterHandler("S") /\ UNCHANGED osVars

\* The driver stores the index of the queue.
Submit ==
  /\ priv = "S"
  /\ ~waiting
  /\ waiting' = TRUE
  /\ StoreQueueNotify(FALSE)
  /\ UNCHANGED <<hart, owed, gpc, saved, id, software>>

SendSoftware ==
  /\ priv = "S"
  /\ software < MaxSoftware
  /\ software' = software + 1
  /\ WriteMip(mip \cup {"SSI"})
  /\ UNCHANGED <<gpc, saved, id, waiting>>

Main ==
  /\ gpc = "main"
  /\ Work \/ IntrOn \/ IntrOff \/ EnterUser \/ SystemCall \/ Submit
       \/ SendSoftware

-----------------------------------------------------------------------------
(* The handler, entered with SIE = 0.                                      *)

Claim ==
  /\ gpc = "claim"
  /\ id' = ReadClaim(1)
  /\ gpc' = IF id' = 0 THEN "return" ELSE "device"
  /\ TakeTime
  /\ UNCHANGED <<saved, waiting, software>>

\* The used ring tells whether the request is done.
DiskDone ==
  /\ gpc = "device" /\ id = VIRTIO_IRQ
  /\ waiting' = (waiting /\ settledUpTo < notified)
  /\ gpc' = "complete"
  /\ TakeTime
  /\ UNCHANGED <<saved, id, software>>

DrainUart ==
  /\ gpc = "device" /\ id = UART_IRQ
  /\ IF full
     THEN LoadUart /\ UNCHANGED <<hart, owed, gpc>>
     ELSE TakeTime /\ gpc' = "complete"
  /\ UNCHANGED <<saved, id, waiting, software>>

CompleteClaimed ==
  /\ gpc = "complete"
  /\ Complete(1, id)
  /\ id' = 0
  /\ gpc' = "return"
  /\ UNCHANGED <<hart, owed, disk, uart, clintVars, saved, waiting, software>>

ReturnFromTrap ==
  /\ gpc = "return"
  /\ gpc' = "main"
  /\ Return(saved.mode, gie \cup saved.sie)
  /\ UNCHANGED <<saved, id, waiting, software>>

Handler ==
  Claim \/ DiskDone \/ DrainUart \/ CompleteClaimed \/ ReturnFromTrap

OsStep == Instruction(Main \/ Handler)

\* A trap takes the guest to its handler; a software interrupt needs no more.
OsCheck ==
  /\ CheckInts
  /\ IF taken' = None
     THEN UNCHANGED <<gpc, saved>>
     ELSE /\ gpc' = IF taken' = "SEI" THEN "claim" ELSE "return"
          /\ saved' = [mode |-> priv, sie |-> gie]
  /\ UNCHANGED <<id, waiting, software>>

InputThread ==
  /\ Uart!Raise \/ Uart!Fill
  /\ UNCHANGED <<phase, taken, owed, hart, disk, clintVars, plicVars, osVars>>

OsNext ==
  \/ OsStep
  \/ OsCheck
  \/ Keyboard /\ UNCHANGED osVars

allVars == <<loopVars, osVars>>

(***************************************************************************)
(* The loop never stops running and the input thread is a thread of the    *)
(* operating system.  The kernel may keep interrupts off for a while, not  *)
(* for ever.                                                               *)
(***************************************************************************)
OsSpec ==
  /\ OsInit
  /\ [][OsNext]_allVars
  /\ WF_allVars(OsStep)
  /\ WF_allVars(OsCheck)
  /\ WF_allVars(InputThread)
  /\ SF_allVars(Instruction(gpc = "main" /\ (IntrOn \/ EnterUser)))

-----------------------------------------------------------------------------
(* Properties.                                                             *)

(***************************************************************************)
(* Every external interrupt the kernel takes shows it a source to claim,   *)
(* however the raises, the claims and the completions fall: check_ints     *)
(* posts SEIP, and no completion clears the claim register in between.     *)
(***************************************************************************)
NoSpuriousClaim ==
  gpc = "claim" \/ "SEI" \in mip => claim[1] # 0

(***************************************************************************)
(* When the disk has served a request the kernel waits for, its handler    *)
(* has claimed the disk's interrupt or will find it in the claim register: *)
(* the UART, whose line stays up for ever after the first byte, does not   *)
(* replace it first.                                                       *)
(***************************************************************************)
CompletionShown ==
  waiting /\ settledUpTo = notified =>
    \/ gpc = "claim" /\ claim[1] = VIRTIO_IRQ
    \/ gpc = "device" /\ id = VIRTIO_IRQ

\* The handler is not interrupted by another interrupt before it returns.
HandlerNotReentered ==
  [][gpc # "main" /\ OsCheck => taken' = None]_allVars

\* Every disk request is reported to the kernel as done.
RequestCompletes == waiting ~> ~waiting

\* Every byte typed reaches the kernel through an interrupt.
ByteReceived ==
  \A i \in 1..MaxTyped : (Len(typed) >= i) ~> (Len(received) >= i)

\* Until the UART first raises its line, a software interrupt that the
\* kernel sends itself is taken, whatever the disk does meanwhile.
SoftwareTakenWhileQuiet == ("SSI" \in mip) ~> ("SSI" \notin mip \/ irq)

(***************************************************************************)
(* main.rs:156-157, quoting 3.1.9: "An interrupt i will be taken if bit i  *)
(* is set in both mip and mie, and if interrupts are globally enabled".    *)
(* Fails after the first byte typed: the UART never lowers its line, and   *)
(* an external interrupt comes before a software one.                      *)
(***************************************************************************)
SoftwareTaken == ("SSI" \in mip) ~> ("SSI" \notin mip)
=============================================================================
