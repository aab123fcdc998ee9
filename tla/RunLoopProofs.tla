---------------------------- MODULE RunLoopProofs ---------------------------
(***************************************************************************)
(* Proofs about the emulator loop, for every set of interrupts, every      *)
(* delegation and every guest: its invariants, and that it uses the PLIC   *)
(* as Plic.tla allows; then about the kernel of RunLoopOs.tla on that      *)
(* loop, for any number of bytes typed, disk requests and software         *)
(* interrupts, and that it is one of the guests.                           *)
(***************************************************************************)
EXTENDS RunLoopOs, PlicProofs

\* The inductive invariant: its parts are invariants of their own.
LoopInv ==
  /\ LoopTypeOK
  /\ ExternalStaysPosted
  /\ NotifyAccounted

\* First returns a member of a nonempty set of interrupts.
LEMMA FirstIsMember ==
  ASSUME NEW ints \in SUBSET AllInt, ints # {}
  PROVE  First(ints) \in ints
<1> DEFINE Is(k) == /\ Priority[k] \in ints
                    /\ \A j \in 1..(k - 1) : Priority[j] \notin ints
<1>1. \E k \in 1..6 : Priority[k] \in ints
  <2>1. PICK i \in ints : i \in AllInt
    OBVIOUS
  <2>2. \E k \in 1..6 : Priority[k] = i
    BY <2>1 DEF AllInt, Priority
  <2> QED
    BY <2>2
<1>2. \E k \in 1..6 : Is(k)
  <2>1. CASE Priority[1] \in ints
    <3>1. Is(1)
      BY <2>1
    <3> QED
      BY <3>1
  <2>2. CASE Priority[1] \notin ints /\ Priority[2] \in ints
    <3>1. Is(2)
      BY <2>2
    <3> QED
      BY <3>1
  <2>3. CASE (\A j \in 1..2 : Priority[j] \notin ints) /\ Priority[3] \in ints
    <3>1. Is(3)
      BY <2>3
    <3> QED
      BY <3>1
  <2>4. CASE (\A j \in 1..3 : Priority[j] \notin ints) /\ Priority[4] \in ints
    <3>1. Is(4)
      BY <2>4
    <3> QED
      BY <3>1
  <2>5. CASE (\A j \in 1..4 : Priority[j] \notin ints) /\ Priority[5] \in ints
    <3>1. Is(5)
      BY <2>5
    <3> QED
      BY <3>1
  <2>6. CASE \A j \in 1..5 : Priority[j] \notin ints
    <3>1. Priority[6] \in ints
      BY <1>1, <2>6
    <3>2. Is(6)
      BY <2>6, <3>1
    <3> QED
      BY <3>2
  <2> QED
    BY <2>1, <2>2, <2>3, <2>4, <2>5, <2>6
<1> QED
  BY <1>2 DEF First

LEMMA LoopInitInv == LoopInit => LoopInv
<1> SUFFICES ASSUME LoopInit PROVE LoopInv
  OBVIOUS
<1> USE DEF LoopInit
<1>1. LoopTypeOK
  <2>1. notified \in 0..MaxNotify /\ settledUpTo \in 0..MaxNotify
    BY RunLoopAssumption DEF RunLoopAssumption
  <2>2. taken \in Int \cup {None, "MTI"}
    OBVIOUS
  <2>3. gie \subseteq {"M", "S"} /\ mie \subseteq Int /\ mip \subseteq Int
    OBVIOUS
  <2>4. phase \in {"step", "check", "stopped"} /\ priv \in Mode
    BY DEF Mode
  <2>5. notify \in BOOLEAN /\ owed \in BOOLEAN
    BY Zenon
  <2> QED
    BY <2>1, <2>2, <2>3, <2>4, <2>5, Zenon DEF LoopTypeOK
<1>2. ExternalStaysPosted
  BY Zenon DEF ExternalStaysPosted
<1>3. NotifyAccounted
  <2>1. ~(settledUpTo < notified) /\ settledUpTo <= notified
    OBVIOUS
  <2>2. ~notify
    BY Zenon
  <2> QED
    BY <2>1, <2>2, Zenon DEF NotifyAccounted
<1> QED
  BY <1>1, <1>2, <1>3 DEF LoopInv

\* Taking an interrupt keeps the hart's registers in their types.
LEMMA TakeType ==
  ASSUME LoopTypeOK, NEW i \in Int \cup {"MTI"}, Take(i)
  PROVE  /\ priv' \in Mode /\ gie' \subseteq {"M", "S"}
         /\ taken' \in Int \cup {None, "MTI"}
         /\ taken' = i
  BY DEF LoopTypeOK, Take, Mode

LEMMA TakeNothingType ==
  ASSUME LoopTypeOK, TakeNothing
  PROVE  /\ priv' \in Mode /\ gie' \subseteq {"M", "S"}
         /\ taken' \in Int \cup {None, "MTI"}
         /\ taken' = None
  BY DEF LoopTypeOK, TakeNothing, Mode

-----------------------------------------------------------------------------
(* check_ints preserves each part.                                         *)

LEMMA TimerShortcutInv ==
  ASSUME LoopInv, CheckInts, TimerShortcut
  PROVE  LoopInv'
<1> USE DEF LoopInv
<1>1. Take("MTI") /\ phase' = "step"
  BY DEF CheckInts, TimerShortcut
<1>2. UNCHANGED <<mie, mip, owed, notify, notified, settledUpTo>>
  BY DEF TimerShortcut, disk
<1>3. LoopTypeOK'
  <2>1. /\ priv' \in Mode /\ gie' \subseteq {"M", "S"}
        /\ taken' \in Int \cup {None, "MTI"}
    BY <1>1, TakeType
  <2> QED
    BY <2>1, <1>1, <1>2, Zenon DEF LoopTypeOK
<1>4. ExternalStaysPosted' /\ NotifyAccounted'
  BY <1>2, Zenon DEF ExternalStaysPosted, NotifyAccounted
<1> QED
  BY <1>3, <1>4

LEMMA CheckDisabledInv ==
  ASSUME LoopInv, CheckInts, CheckDisabled
  PROVE  LoopInv'
<1> USE DEF LoopInv
<1>1. TakeNothing /\ phase' = "step"
  BY DEF CheckInts, CheckDisabled
<1>2. UNCHANGED <<mie, mip, owed, notify, notified, settledUpTo>>
  BY DEF CheckDisabled, disk
<1>3. LoopTypeOK'
  <2>1. /\ priv' \in Mode /\ gie' \subseteq {"M", "S"}
        /\ taken' \in Int \cup {None, "MTI"}
    BY <1>1, TakeNothingType
  <2> QED
    BY <2>1, <1>1, <1>2, Zenon DEF LoopTypeOK
<1>4. ExternalStaysPosted' /\ NotifyAccounted'
  BY <1>2, Zenon DEF ExternalStaysPosted, NotifyAccounted
<1> QED
  BY <1>3, <1>4

\* What takes place when interrupts are enabled: mip loses what was taken.
LEMMA PendingTaken ==
  ASSUME LoopTypeOK, TakePending
  PROVE  /\ priv' \in Mode /\ gie' \subseteq {"M", "S"}
         /\ taken' \in Int \cup {None, "MTI"}
         /\ mip' = Posted \ {taken'}
         /\ mip' \subseteq Int
<1> DEFINE ready == mie \cap Posted
<1>1. Posted \subseteq Int /\ ready \subseteq Int
  BY RunLoopAssumption DEF RunLoopAssumption, Posted, LoopTypeOK
<1>2. None \notin Posted
  BY <1>1, RunLoopAssumption DEF RunLoopAssumption, AllInt, None
<1>3. CASE ready = {}
  <2>1. TakeNothing /\ mip' = Posted
    BY <1>3 DEF TakePending
  <2> QED
    BY <2>1, <1>1, <1>2, TakeNothingType
<1>4. CASE ready # {}
  <2>1. First(ready) \in ready
    BY <1>1, <1>4, FirstIsMember, RunLoopAssumption DEF RunLoopAssumption
  <2> HIDE DEF ready
  <2>2. Take(First(ready)) /\ mip' = Posted \ {First(ready)}
    BY <1>4, Zenon DEF TakePending, ready
  <2>3. First(ready) \in Int
    BY <2>1, <1>1
  <2> QED
    BY <2>2, <2>3, <1>1, TakeType
<1> QED
  BY <1>3, <1>4

LEMMA CheckEnabledInv ==
  ASSUME LoopInv, CheckInts, CheckEnabled
  PROVE  LoopInv'
<1> USE DEF LoopInv
<1>1. PollDisk /\ TakePending /\ phase' = "step"
  BY DEF CheckInts, CheckEnabled
<1>2. owed' = ((Polled # 0 \/ owed) /\ taken' # "SEI") /\ mie' = mie
  BY DEF CheckEnabled
<1>3. /\ priv' \in Mode /\ gie' \subseteq {"M", "S"}
      /\ taken' \in Int \cup {None, "MTI"}
      /\ mip' = Posted \ {taken'}
      /\ mip' \subseteq Int
  BY <1>1, PendingTaken
<1>4. /\ notified' = notified
      /\ settledUpTo' \in 0..MaxNotify
      /\ ~(settledUpTo' < notified') /\ settledUpTo' <= notified'
  BY <1>1 DEF PollDisk, LoopTypeOK, NotifyAccounted
<1>5. notify' = FALSE
  BY <1>1 DEF PollDisk
<1>6. LoopTypeOK'
  <2>1. owed' \in BOOLEAN /\ notify' \in BOOLEAN
    BY <1>2, <1>5, Zenon
  <2> QED
    BY <2>1, <1>1, <1>2, <1>3, <1>4, Zenon DEF LoopTypeOK
<1>7. ExternalStaysPosted'
  <2>1. Polled # 0 \/ owed => "SEI" \in Posted
    BY DEF Posted, ExternalStaysPosted
  <2> QED
    BY <2>1, <1>2, <1>3 DEF ExternalStaysPosted
<1>8. NotifyAccounted'
  BY <1>4, <1>5, Zenon DEF NotifyAccounted
<1> QED
  BY <1>6, <1>7, <1>8

-----------------------------------------------------------------------------
(* The guest and the keyboard.                                             *)

\* What every instruction does to the hart and what was owed.
LEMMA HartInstructionType ==
  ASSUME LoopTypeOK, ExternalStaysPosted, HartInstruction
  PROVE  /\ priv' \in Mode /\ gie' \subseteq {"M", "S"}
         /\ mie' \subseteq Int /\ mip' \subseteq Int
         /\ owed' \in BOOLEAN
         /\ owed' => "SEI" \in mip'
         /\ UNCHANGED <<notify, notified, settledUpTo>>
<1> USE DEF LoopTypeOK, ExternalStaysPosted, HartOnly, hart, disk, Mode
<1>1. CASE TakeTime
  BY <1>1 DEF TakeTime
<1>2. CASE \E bits \in SUBSET {"M", "S"} : WriteEnableBits(bits)
  BY <1>2 DEF WriteEnableBits
<1>3. CASE \E ints \in SUBSET Int : WriteMie(ints)
  BY <1>3 DEF WriteMie
<1>4. CASE \E ints \in SUBSET Int : WriteMip(ints)
  <2>1. PICK ints \in SUBSET Int : WriteMip(ints)
    BY <1>4
  <2>2. /\ mip' = ints
        /\ UNCHANGED <<priv, gie, mie, notify, notified, settledUpTo>>
    BY <2>1 DEF WriteMip
  <2>3. owed' = (owed /\ "SEI" \in ints)
    BY <2>1 DEF WriteMip
  <2> QED
    BY <2>2, <2>3
<1>5. CASE \E mode \in Mode : EnterHandler(mode)
  BY <1>5 DEF EnterHandler
<1>6. CASE \E mode \in Mode, bits \in SUBSET {"M", "S"} : Return(mode, bits)
  BY <1>6 DEF Return
<1> QED
  BY <1>1, <1>2, <1>3, <1>4, <1>5, <1>6 DEF HartInstruction

LEMMA DeviceInstructionType ==
  ASSUME LoopTypeOK, NotifyAccounted, DeviceInstruction
  PROVE  /\ UNCHANGED <<priv, gie, mie, mip, owed>>
         /\ notify' \in BOOLEAN
         /\ notified' \in 0..MaxNotify /\ settledUpTo' \in 0..MaxNotify
         /\ NotifyAccounted'
<1>1. UNCHANGED <<priv, gie, mie, mip, owed>>
  BY DEF DeviceInstruction, hart
<1>2. ASSUME NEW none \in BOOLEAN, StoreQueueNotify(none)
      PROVE  /\ notify' \in BOOLEAN
             /\ notified' \in 0..MaxNotify /\ settledUpTo' \in 0..MaxNotify
             /\ NotifyAccounted'
  <2>1. /\ notified' = notified + 1 /\ notified < MaxNotify
        /\ settledUpTo' = IF none THEN notified' ELSE settledUpTo
    BY <1>2 DEF StoreQueueNotify
  <2>2. notify' = ~none
    BY <1>2 DEF StoreQueueNotify
  <2>3. /\ notified' \in 0..MaxNotify /\ settledUpTo' \in 0..MaxNotify
        /\ settledUpTo' <= notified'
    BY <2>1, RunLoopAssumption
    DEF LoopTypeOK, NotifyAccounted, RunLoopAssumption
  <2>4. settledUpTo' < notified' <=> ~none
    BY <2>1, RunLoopAssumption
    DEF LoopTypeOK, NotifyAccounted, RunLoopAssumption
  <2> QED
    BY <2>2, <2>3, <2>4, Zenon DEF NotifyAccounted
<1>3. CASE StoreClint \/ StorePlic \/ LoadUart
  <2>1. UNCHANGED <<notify, notified, settledUpTo>>
    BY <1>3 DEF StoreClint, StorePlic, LoadUart, disk
  <2> QED
    BY <1>1, <2>1, Zenon DEF LoopTypeOK, NotifyAccounted
<1> QED
  BY <1>1, <1>2, <1>3, Zenon DEF DeviceInstruction

LEMMA StepInv ==
  ASSUME LoopInv, Step
  PROVE  LoopInv'
<1> USE DEF LoopInv
<1>1. /\ phase' = "check" /\ taken' = None
      /\ HartInstruction \/ DeviceInstruction
  BY DEF Step
<1>2. taken' \in Int \cup {None, "MTI"}
  BY <1>1
<1>3. CASE HartInstruction
  <2>1. /\ priv' \in Mode /\ gie' \subseteq {"M", "S"}
        /\ mie' \subseteq Int /\ mip' \subseteq Int
        /\ owed' \in BOOLEAN
        /\ owed' => "SEI" \in mip'
        /\ UNCHANGED <<notify, notified, settledUpTo>>
    BY <1>3, HartInstructionType
  <2>2. LoopTypeOK'
    BY <1>1, <1>2, <2>1, Zenon DEF LoopTypeOK
  <2>3. ExternalStaysPosted' /\ NotifyAccounted'
    BY <2>1, Zenon DEF ExternalStaysPosted, NotifyAccounted
  <2> QED
    BY <2>2, <2>3
<1>4. CASE DeviceInstruction
  <2>1. /\ UNCHANGED <<priv, gie, mie, mip, owed>>
        /\ notify' \in BOOLEAN
        /\ notified' \in 0..MaxNotify /\ settledUpTo' \in 0..MaxNotify
        /\ NotifyAccounted'
    BY <1>4, DeviceInstructionType
  <2>2. LoopTypeOK'
    BY <1>1, <1>2, <2>1, Zenon DEF LoopTypeOK
  <2>3. ExternalStaysPosted'
    BY <2>1, Zenon DEF ExternalStaysPosted
  <2> QED
    BY <2>1, <2>2, <2>3
<1> QED
  BY <1>1, <1>3, <1>4

\* The loop stops, the keyboard acts, or nothing happens.
LEMMA IdleInv ==
  ASSUME LoopInv, Stop \/ Keyboard \/ UNCHANGED loopVars
  PROVE  LoopInv'
<1> USE DEF LoopInv
<1>1. /\ UNCHANGED <<taken, owed, priv, gie, mie, mip>>
      /\ UNCHANGED <<notify, notified, settledUpTo>>
      /\ phase' = phase \/ phase' = "stopped"
  BY DEF Stop, Keyboard, loopVars, hart, disk
<1>2. LoopTypeOK'
  BY <1>1, Zenon DEF LoopTypeOK
<1>3. ExternalStaysPosted' /\ NotifyAccounted'
  BY <1>1, Zenon DEF ExternalStaysPosted, NotifyAccounted
<1> QED
  BY <1>2, <1>3

LEMMA LoopStepInv == LoopInv /\ [LoopNext]_loopVars => LoopInv'
<1> SUFFICES ASSUME LoopInv, [LoopNext]_loopVars PROVE LoopInv'
  OBVIOUS
<1>1. CASE CheckInts
  BY <1>1, TimerShortcutInv, CheckDisabledInv, CheckEnabledInv DEF CheckInts
<1>2. CASE Step
  BY <1>2, StepInv
<1>3. CASE Stop \/ Keyboard \/ UNCHANGED loopVars
  BY <1>3, IdleInv
<1> QED
  BY <1>1, <1>2, <1>3, Zenon DEF LoopNext

-----------------------------------------------------------------------------

\* Every variable of the loop keeps its type, whatever the guest does.
THEOREM LoopTypeCorrect == LoopSpec => []LoopTypeOK
<1>1. LoopInv => LoopTypeOK
  BY DEF LoopInv
<1> QED
  BY <1>1, LoopInitInv, LoopStepInv, PTL DEF LoopSpec

(***************************************************************************)
(* For every set of interrupts in play and every delegation: an external   *)
(* interrupt that check_ints raised stays posted in mip until it is taken  *)
(* or the guest clears it.                                                 *)
(***************************************************************************)
THEOREM ExternalNotLost == LoopSpec => []ExternalStaysPosted
<1>1. LoopInv => ExternalStaysPosted
  BY DEF LoopInv
<1> QED
  BY <1>1, LoopInitInv, LoopStepInv, PTL DEF LoopSpec

(***************************************************************************)
(* For every number of stores, of queue indices or of u32::MAX: a notify   *)
(* is pending exactly when there was one since the last disk_access and    *)
(* since the guest last stored the value for none.                         *)
(***************************************************************************)
THEOREM NotifyServedOnce == LoopSpec => []NotifyAccounted
<1>1. LoopInv => NotifyAccounted
  BY DEF LoopInv
<1> QED
  BY <1>1, LoopInitInv, LoopStepInv, PTL DEF LoopSpec

-----------------------------------------------------------------------------
(* The devices inside the loop.                                            *)

\* What check_ints polled is nothing or a source of the PLIC.
LEMMA PolledIsSource == Polled \in {0} \cup Source
  BY RunLoopAssumption DEF RunLoopAssumption, Polled

\* The loop starts with the PLIC as it is after new.
LEMMA LoopPlicInit == LoopInit => PlicInit
  BY DEF LoopInit

LEMMA LoopPlicStep == [LoopNext]_loopVars => [PlicNext]_plicVars
<1> SUFFICES ASSUME [LoopNext]_loopVars PROVE [PlicNext]_plicVars
  OBVIOUS
<1>1. CASE CheckInts
  <2>1. CASE CheckEnabled
    <3>1. RaiseExternal
      BY <2>1 DEF CheckEnabled
    <3>2. CASE Polled = 0
      BY <3>1, <3>2, Zenon DEF RaiseExternal
    <3>3. CASE Polled # 0
      <4>1. UpdatePending(Polled) /\ Polled \in Source
        BY <3>1, <3>3, PolledIsSource, Zenon DEF RaiseExternal
      <4> QED
        BY <4>1, Zenon DEF PlicNext
    <3> QED
      BY <3>2, <3>3
  <2>2. CASE TimerShortcut \/ CheckDisabled
    BY <2>2, Zenon DEF TimerShortcut, CheckDisabled
  <2> QED
    BY <1>1, <2>1, <2>2, Zenon DEF CheckInts
<1>2. CASE Step
  <2>1. CASE StorePlic
    <3>1. Context = {0, 1}
      BY DEF Context
    <3>2. 1 \in Context
      BY <3>1
    <3> QED
      BY <2>1, <3>2, Zenon DEF StorePlic, PlicNext
  <2>2. CASE \/ HartInstruction \/ StoreClint \/ LoadUart
             \/ \E none \in BOOLEAN : StoreQueueNotify(none)
    BY <2>2, Zenon
    DEF HartInstruction, TakeTime, WriteEnableBits, WriteMie, WriteMip,
        EnterHandler, Return, HartOnly, StoreQueueNotify, StoreClint, LoadUart
  <2> QED
    BY <1>2, <2>1, <2>2, Zenon DEF Step, DeviceInstruction
<1>3. CASE Stop \/ Keyboard \/ UNCHANGED loopVars
  BY <1>3, Zenon DEF Stop, Keyboard, loopVars
<1> QED
  BY <1>1, <1>2, <1>3, Zenon DEF LoopNext

(***************************************************************************)
(* The loop and any guest use the PLIC as a guest of Plic.tla does: no     *)
(* step of check_ints, of the guest or of the keyboard reaches its         *)
(* registers in another way, so what is proved of the PLIC by itself holds *)
(* of it in the machine.                                                   *)
(***************************************************************************)
THEOREM LoopUsesPlic == LoopSpec => PlicSpec
  BY LoopPlicInit, LoopPlicStep, PTL DEF LoopSpec, PlicSpec

(***************************************************************************)
(* In the machine too the claim register shows only what was raised and    *)
(* not completed since, and the pending array, as far as the guest did not *)
(* store to it, tells exactly which sources these are.                     *)
(***************************************************************************)
THEOREM MachineClaims == LoopSpec => [](ClaimOutstanding /\ PendingExact)
  BY LoopUsesPlic, ClaimNotStale, PendingFaithful, PTL

-----------------------------------------------------------------------------
(* The kernel on the loop.                                                 *)

USE OsAssumption, RunLoopAssumption

\* What the kernel's registers hold: only software interrupts stay posted,
\* because a check that posts an external one takes it.
OsTypes ==
  /\ priv \in {"S", "U"} /\ gie \subseteq {"S"}
  /\ mie = Delegated /\ mip \subseteq {"SSI"}
  /\ msip = 0
  /\ enable = {1} \X Source /\ claim \in [Context -> {0} \cup Source]
  /\ notify \in BOOLEAN /\ notified \in Nat /\ settledUpTo \in Nat
  /\ gpc \in {"main", "claim", "device", "complete", "return"}
  /\ saved \in [mode : {"S", "U"}, sie : SUBSET {"S"}]
  /\ id \in {0} \cup Source
  /\ waiting \in BOOLEAN

\* The handler runs with interrupts disabled.
HandlerMasked == gpc # "main" => priv = "S" /\ gie = {}

\* A request the kernel waits for is on its way: announced to the disk,
\* shown by the claim register, or claimed.
RequestOnItsWay ==
  waiting =>
    \/ notify
    \/ gpc = "claim" /\ claim[1] = VIRTIO_IRQ
    \/ gpc = "device" /\ id = VIRTIO_IRQ

OsInv ==
  /\ OsTypes
  /\ NotifyAccounted
  /\ HandlerMasked
  /\ RequestOnItsWay
  /\ gpc = "claim" => claim[1] # 0

LEMMA OsInitInv == OsInit => OsInv
<1> SUFFICES ASSUME OsInit PROVE OsInv
  OBVIOUS
<1> USE DEF OsInit
<1>1. notify = FALSE /\ notified = 0 /\ settledUpTo = 0 /\ waiting = FALSE
  OBVIOUS
<1>2. NotifyAccounted
  BY <1>1 DEF NotifyAccounted
<1>3. gpc = "main" /\ claim \in [Context -> {0} \cup Source] /\ msip = 0
  BY DEF ClintInit
<1>4. saved \in [mode : {"S", "U"}, sie : SUBSET {"S"}]
  OBVIOUS
<1>5. OsTypes
  <2>1. /\ priv = "S" /\ gie = {} /\ mie = Delegated /\ mip = {} /\ id = 0
        /\ enable = {1} \X Source
    OBVIOUS
  <2>2. notify \in BOOLEAN /\ waiting \in BOOLEAN
    BY <1>1
  <2> HIDE DEF OsInit
  <2> QED
    BY <1>1, <1>3, <1>4, <2>1, <2>2 DEF OsTypes
<1> QED
  BY <1>1, <1>2, <1>3, <1>5 DEF OsInv, HandlerMasked, RequestOnItsWay

LEMMA NoTimer == OsTypes => ~TimerFires
<1> SUFFICES ASSUME OsTypes PROVE ~TimerFires
  OBVIOUS
<1>1. msip = 0 /\ (0 \div 8) % 2 = 0
  BY DEF OsTypes
<1> QED
  BY <1>1 DEF TimerFires, MSIP_BIT

\* An external interrupt comes before a software one.
LEMMA ExternalFirst ==
  ASSUME NEW ints \in SUBSET {"SEI", "SSI"}, "SEI" \in ints
  PROVE  First(ints) = "SEI"
<1> DEFINE Is(k) == /\ Priority[k] \in ints
                    /\ \A j \in 1..(k - 1) : Priority[j] \notin ints
<1>1. Is(4)
  BY DEF Priority
<1>2. ASSUME NEW k \in 1..6, Is(k) PROVE k = 4
  <2>1. Priority[k] \in {"SEI", "SSI"}
    BY <1>2
  <2>2. k \in {4, 5}
    BY <2>1 DEF Priority
  <2>3. k # 5
    BY <1>2 DEF Priority
  <2> QED
    BY <2>2, <2>3
<1>3. (CHOOSE k \in 1..6 : Is(k)) = 4
  <2> HIDE DEF Is
  <2> QED
    BY <1>1, <1>2
<1> QED
  BY <1>3 DEF First, Priority

-----------------------------------------------------------------------------
(* check_ints.                                                             *)

LEMMA CheckMasked ==
  ASSUME OsInv, CheckInts, GloballyDisabled
  PROVE  /\ taken' = None
         /\ UNCHANGED <<hart, disk, clintVars, plicVars>>
<1>1. CheckDisabled
  BY NoTimer DEF CheckInts, TimerShortcut, CheckEnabled, OsInv
<1> QED
  BY <1>1 DEF CheckDisabled, TakeNothing, hart

\* A check that is let through posts the disk's interrupt or else the
\* UART's, and takes it at once.
LEMMA CheckOpen ==
  ASSUME OsInv, CheckInts, ~GloballyDisabled
  PROVE  /\ priv' \in {"S", "U"} /\ gie' \subseteq {"S"}
         /\ mie' = mie /\ mip' \subseteq {"SSI"} /\ msip' = msip
         /\ enable' = enable /\ claim' \in [Context -> {0} \cup Source]
         /\ notify' = FALSE /\ notified' = notified
         /\ settledUpTo' = IF notify THEN notified ELSE settledUpTo
         /\ taken' # None => priv' = "S" /\ gie' = {}
         /\ taken' = "SEI" => claim'[1] # 0
         /\ notify => taken' = "SEI" /\ claim'[1] = VIRTIO_IRQ
<1>0. OsTypes
  BY DEF OsInv
<1>1. CheckEnabled
  BY <1>0, NoTimer DEF CheckInts, TimerShortcut, CheckDisabled
<1>2. /\ notify' = FALSE /\ notified' = notified /\ mie' = mie
      /\ settledUpTo' = IF notify THEN notified ELSE settledUpTo
      /\ msip' = msip
  BY <1>1 DEF CheckEnabled, PollDisk, clintVars
<1>3. ASSUME NEW i \in {"SEI", "SSI"}, Take(i)
      PROVE  priv' = "S" /\ gie' = {}
  <2>1. priv # "M" /\ gie \ {"S"} = {} /\ i \in Delegated
    BY <1>0 DEF OsTypes
  <2> QED
    BY <1>3, <2>1 DEF Take
<1>4. \A i : Take(i) => taken' = i
  BY DEF Take
<1>5. TakeNothing => priv' = priv /\ gie' = gie /\ taken' = None
  BY DEF TakeNothing
<1> DEFINE ready == mie \cap Posted
<1>6. CASE Polled = 0
  <2>1. UNCHANGED plicVars /\ ~notify
    BY <1>0, <1>1, <1>6 DEF CheckEnabled, RaiseExternal, Polled, VIRTIO_IRQ, OsTypes
  <2>2. claim' = claim /\ enable' = enable
    BY <2>1 DEF plicVars, settings
  <2>3. Posted = mip /\ ready \subseteq {"SSI"}
    BY <1>0, <1>6 DEF Posted, OsTypes
  <2>4. CASE ready = {}
    <3>1. TakeNothing /\ mip' = mip
      BY <1>1, <2>3, <2>4 DEF CheckEnabled, TakePending
    <3> QED
      BY <1>0, <1>2, <1>5, <2>1, <2>2, <3>1 DEF OsTypes, None
  <2>5. CASE ready # {}
    <3>1. First(ready) \in ready
      BY <2>3, <2>5, FirstIsMember DEF AllInt
    <3>2. First(ready) = "SSI"
      BY <2>3, <3>1
    <3> HIDE DEF ready
    <3>3. Take("SSI") /\ mip' = Posted \ {"SSI"}
      BY <1>1, <2>5, <3>2, Zenon DEF CheckEnabled, TakePending, ready
    <3> QED
      BY <1>0, <1>2, <1>3, <1>4, <2>1, <2>2, <2>3, <3>3 DEF OsTypes, None
  <2> QED
    BY <2>4, <2>5
<1>7. CASE Polled # 0
  <2>1. UpdatePending(Polled) /\ Polled \in Source /\ (notify => Polled = VIRTIO_IRQ)
    BY <1>1, <1>7 DEF CheckEnabled, RaiseExternal, Polled
  <2>2. IsEnable(1, Polled)
    BY <1>0, <2>1 DEF IsEnable, OsTypes
  <2>3. claim' = [claim EXCEPT ![1] = Polled] /\ enable' = enable
    BY <2>1, <2>2 DEF UpdatePending, UpdateClaim, settings
  <2>4. claim' \in [Context -> {0} \cup Source] /\ claim'[1] = Polled
    BY <1>0, <2>1, <2>3 DEF OsTypes, Context
  <2>5. Posted = mip \cup {"SEI"} /\ ready \subseteq {"SEI", "SSI"} /\ "SEI" \in ready
    BY <1>0, <1>7 DEF Posted, OsTypes
  <2>6. First(ready) = "SEI"
    BY <2>5, ExternalFirst
  <2> HIDE DEF ready
  <2>7. Take("SEI") /\ mip' = Posted \ {"SEI"}
    BY <1>1, <2>5, <2>6, Zenon DEF CheckEnabled, TakePending, ready
  <2>8. mip' \subseteq {"SSI"}
    BY <1>0, <2>5, <2>7 DEF OsTypes
  <2> QED
    BY <1>2, <1>3, <1>4, <1>7, <2>1, <2>3, <2>4, <2>7, <2>8
<1> QED
  BY <1>6, <1>7

LEMMA OsCheckInv ==
  ASSUME OsInv, OsCheck
  PROVE  OsInv'
<1> USE DEF hart, disk, clintVars, plicVars, settings
<1>0. OsTypes /\ CheckInts /\ UNCHANGED <<id, waiting>>
  BY DEF OsInv, OsCheck
<1>1. CASE GloballyDisabled
  <2>1. /\ taken' = None
        /\ UNCHANGED <<hart, disk, clintVars, plicVars>>
    BY <1>0, <1>1, CheckMasked
  <2>2. UNCHANGED <<gpc, saved>>
    BY <2>1 DEF OsCheck
  <2> QED
    BY <1>0, <2>1, <2>2
    DEF OsInv, OsTypes, NotifyAccounted, HandlerMasked, RequestOnItsWay
<1>2. CASE ~GloballyDisabled
  <2>1. /\ priv' \in {"S", "U"} /\ gie' \subseteq {"S"}
        /\ mie' = mie /\ mip' \subseteq {"SSI"} /\ msip' = msip
        /\ enable' = enable /\ claim' \in [Context -> {0} \cup Source]
        /\ notify' = FALSE /\ notified' = notified
        /\ settledUpTo' = IF notify THEN notified ELSE settledUpTo
        /\ taken' # None => priv' = "S" /\ gie' = {}
        /\ taken' = "SEI" => claim'[1] # 0
        /\ notify => taken' = "SEI" /\ claim'[1] = VIRTIO_IRQ
    BY <1>0, <1>2, CheckOpen
  <2>2. gpc = "main"
    BY <1>2 DEF OsInv, HandlerMasked, GloballyDisabled
  <2>3. /\ gpc' \in {"main", "claim", "return"}
        /\ gpc' # "main" => taken' # None
        /\ gpc' = "claim" <=> taken' = "SEI"
        /\ saved' \in [mode : {"S", "U"}, sie : SUBSET {"S"}]
    <3>1. saved' \in {saved, [mode |-> priv, sie |-> gie]}
      BY DEF OsCheck
    <3>2. saved' \in [mode : {"S", "U"}, sie : SUBSET {"S"}]
      <4>1. saved \in [mode : {"S", "U"}, sie : SUBSET {"S"}]
        BY <1>0 DEF OsTypes
      <4>2. priv \in {"S", "U"} /\ gie \in SUBSET {"S"}
        BY <1>0 DEF OsTypes
      <4>3. CASE saved' = saved
        BY <4>1, <4>3, Zenon
      <4>4. CASE saved' = [mode |-> priv, sie |-> gie]
        <5>1. [mode |-> priv, sie |-> gie] \in [mode : {"S", "U"}, sie : SUBSET {"S"}]
          BY <4>2
        <5> QED
          BY <4>4, <5>1, Zenon
      <4> QED
        BY <3>1, <4>3, <4>4
    <3> QED
      BY <2>2, <3>2 DEF OsCheck, None
  <2>4. OsTypes'
    BY <1>0, <2>1, <2>3 DEF OsTypes
  <2>5. NotifyAccounted'
    <3>1. settledUpTo' = notified'
      BY <1>0, <2>1 DEF OsInv, NotifyAccounted, OsTypes
    <3> QED
      BY <1>0, <2>1, <3>1 DEF NotifyAccounted, OsTypes
  <2>6. RequestOnItsWay'
    BY <1>0, <2>1, <2>2, <2>3 DEF OsInv, RequestOnItsWay
  <2> QED
    BY <2>1, <2>3, <2>4, <2>5, <2>6 DEF OsInv, HandlerMasked
<1> QED
  BY <1>1, <1>2

-----------------------------------------------------------------------------
(* The kernel and user programs.                                           *)

LEMMA MainInv ==
  ASSUME OsInv, Main
  PROVE  OsInv'
<1> USE DEF hart, disk, clintVars, plicVars, settings, osVars, HartOnly
<1>0. OsTypes /\ gpc = "main"
  BY DEF OsInv, Main
<1>1. CASE Work \/ IntrOn \/ IntrOff \/ EnterUser \/ SystemCall \/ SendSoftware
  <2>1. /\ priv' \in {"S", "U"} /\ gie' \subseteq {"S"} /\ mie' = mie
        /\ mip' \subseteq {"SSI"}
    BY <1>0, <1>1
    DEF Work, IntrOn, IntrOff, EnterUser, SystemCall, SendSoftware, TakeTime,
        WriteEnableBits, Return, EnterHandler, WriteMip, OsTypes
  <2>2. UNCHANGED <<disk, clintVars, plicVars, gpc, saved, id, waiting>>
    BY <1>1
    DEF Work, IntrOn, IntrOff, EnterUser, SystemCall, SendSoftware, TakeTime,
        WriteEnableBits, Return, EnterHandler, WriteMip
  <2> QED
    BY <1>0, <2>1, <2>2
    DEF OsInv, OsTypes, NotifyAccounted, HandlerMasked, RequestOnItsWay
<1>2. CASE Submit
  <2>1. /\ notify' = TRUE /\ notified' = notified + 1 /\ waiting' = TRUE
        /\ UNCHANGED <<settledUpTo, clintVars, plicVars, hart, gpc, saved, id>>
    BY <1>2 DEF Submit, StoreQueueNotify
  <2>2. NotifyAccounted'
    <3>1. settledUpTo' < notified' /\ settledUpTo' <= notified'
      BY <1>0, <2>1 DEF OsInv, NotifyAccounted, OsTypes
    <3> QED
      BY <2>1, <3>1 DEF NotifyAccounted
  <2>3. OsTypes'
    BY <1>0, <2>1 DEF OsTypes
  <2> QED
    BY <1>0, <2>1, <2>2, <2>3 DEF OsInv, HandlerMasked, RequestOnItsWay
<1> QED
  BY <1>1, <1>2 DEF Main

LEMMA HandlerInv ==
  ASSUME OsInv, Handler
  PROVE  OsInv'
<1> USE DEF hart, disk, clintVars, plicVars, settings
<1>0. OsTypes /\ HandlerMasked
  BY DEF OsInv
<1>1. CASE Claim
  <2>1. /\ gpc = "claim" /\ id' = claim[1]
        /\ gpc' = IF id' = 0 THEN "return" ELSE "device"
        /\ UNCHANGED <<hart, disk, clintVars, plicVars, saved, waiting>>
    BY <1>1 DEF Claim, TakeTime, ReadClaim
  <2>2. id' \in {0} \cup Source /\ gpc' = "device"
    BY <1>0, <2>1 DEF OsInv, OsTypes, Context
  <2> QED
    BY <1>0, <2>1, <2>2
    DEF OsInv, OsTypes, NotifyAccounted, HandlerMasked, RequestOnItsWay
<1>2. CASE DiskDone
  <2>1. /\ gpc = "device" /\ gpc' = "complete"
        /\ waiting' = (waiting /\ settledUpTo < notified)
        /\ UNCHANGED <<hart, disk, clintVars, plicVars, saved, id>>
    BY <1>2 DEF DiskDone, TakeTime
  <2>2. waiting' \in BOOLEAN /\ (waiting' => notify')
    BY <2>1 DEF OsInv, NotifyAccounted
  <2> QED
    BY <1>0, <2>1, <2>2
    DEF OsInv, OsTypes, NotifyAccounted, HandlerMasked, RequestOnItsWay
<1>3. CASE DrainUart
  <2>1. /\ gpc = "device" /\ id = UART_IRQ /\ gpc' \in {"device", "complete"}
        /\ UNCHANGED <<hart, disk, clintVars, plicVars, saved, id, waiting>>
    BY <1>3 DEF DrainUart, LoadUart, TakeTime
  <2>2. UART_IRQ # VIRTIO_IRQ
    BY DEF UART_IRQ, VIRTIO_IRQ
  <2> QED
    BY <1>0, <2>1, <2>2
    DEF OsInv, OsTypes, NotifyAccounted, HandlerMasked, RequestOnItsWay
<1>4. CASE CompleteClaimed
  <2>1. /\ gpc = "complete" /\ gpc' = "return" /\ id' = 0
        /\ claim' = UpdateClaim(0) /\ enable' = enable
        /\ UNCHANGED <<hart, disk, clintVars, saved, waiting>>
    BY <1>4 DEF CompleteClaimed, Complete
  <2>2. claim' \in [Context -> {0} \cup Source]
    BY <1>0, <2>1 DEF OsTypes, UpdateClaim
  <2> QED
    BY <1>0, <2>1, <2>2
    DEF OsInv, OsTypes, NotifyAccounted, HandlerMasked, RequestOnItsWay
<1>5. CASE ReturnFromTrap
  <2>1. /\ gpc = "return" /\ gpc' = "main"
        /\ priv' = saved.mode /\ gie' = gie \cup saved.sie
        /\ UNCHANGED <<mie, mip, disk, clintVars, plicVars, saved, id, waiting>>
    BY <1>5 DEF ReturnFromTrap, Return, HartOnly
  <2>2. saved.mode \in {"S", "U"} /\ saved.sie \subseteq {"S"}
    BY <1>0 DEF OsTypes
  <2> QED
    BY <1>0, <2>1, <2>2
    DEF OsInv, OsTypes, NotifyAccounted, HandlerMasked, RequestOnItsWay
<1> QED
  BY <1>1, <1>2, <1>3, <1>4, <1>5 DEF Handler

LEMMA OsStepInv == OsInv /\ [OsNext]_allVars => OsInv'
<1> SUFFICES ASSUME OsInv, [OsNext]_allVars PROVE OsInv'
  OBVIOUS
<1>1. CASE OsStep
  BY <1>1, MainInv, HandlerInv DEF OsStep, Instruction
<1>2. CASE OsCheck
  BY <1>2, OsCheckInv
<1>3. CASE (Keyboard /\ UNCHANGED osVars) \/ UNCHANGED allVars
  <2>1. UNCHANGED <<hart, disk, clintVars, plicVars, osVars>>
    BY <1>3 DEF Keyboard, allVars, loopVars
  <2> QED
    BY <2>1
    DEF OsInv, OsTypes, NotifyAccounted, HandlerMasked, RequestOnItsWay,
        hart, disk, clintVars, plicVars, settings, osVars
<1> QED
  BY <1>1, <1>2, <1>3 DEF OsNext

-----------------------------------------------------------------------------

LEMMA OsCorrect == OsSpec => []OsInv
  BY OsInitInv, OsStepInv, PTL DEF OsSpec

(***************************************************************************)
(* Every external interrupt the kernel takes shows it a source to claim,   *)
(* however many bytes and requests are under way.                          *)
(***************************************************************************)
THEOREM ClaimHonest == OsSpec => []NoSpuriousClaim
<1>1. OsInv => NoSpuriousClaim
  BY DEF OsInv, OsTypes, NoSpuriousClaim
<1> QED
  BY <1>1, OsCorrect, PTL

(***************************************************************************)
(* A request the disk has served is shown to the kernel by the claim       *)
(* register or has been claimed: the UART's line, which stays up, never    *)
(* replaces it.                                                            *)
(***************************************************************************)
THEOREM CompletionNotHidden == OsSpec => []CompletionShown
<1>1. OsInv => CompletionShown
  BY DEF OsInv, OsTypes, NotifyAccounted, RequestOnItsWay, CompletionShown
<1> QED
  BY <1>1, OsCorrect, PTL

(***************************************************************************)
(* The handler is not interrupted before it returns, not even by the timer *)
(* shortcut, which looks at no mask.                                       *)
(***************************************************************************)
THEOREM HandlerAlone == OsSpec => HandlerNotReentered
<1>1. OsInv /\ [OsNext]_allVars
        => [gpc # "main" /\ OsCheck => taken' = None]_allVars
  <2> SUFFICES ASSUME OsInv, gpc # "main", OsCheck PROVE taken' = None
    OBVIOUS
  <2>1. GloballyDisabled
    BY DEF OsInv, HandlerMasked, GloballyDisabled
  <2> QED
    BY <2>1, CheckMasked DEF OsCheck
<1> QED
  BY <1>1, OsCorrect, PTL DEF OsSpec, HandlerNotReentered

-----------------------------------------------------------------------------
(* The kernel is one of the guests of RunLoop.tla.                         *)

\* What has to hold for that: the kernel's own invariant, and those of the
\* loop and of the PLIC, which OsInit satisfies although it finds the enable
\* bits set.
KernelInv == OsInv /\ LoopInv /\ PlicTypeOK /\ ClaimOutstanding /\ PendingExact

LEMMA KernelInit == OsInit => KernelInv
<1> SUFFICES ASSUME OsInit PROVE KernelInv
  OBVIOUS
<1>1. OsInv
  BY OsInitInv
<1>2. LoopInv
  <2> USE DEF OsInit
  <2>1. notified \in 0..MaxNotify /\ settledUpTo \in 0..MaxNotify
    BY RunLoopAssumption DEF RunLoopAssumption
  <2>2. taken \in Int \cup {None, "MTI"}
    OBVIOUS
  <2>3. gie \subseteq {"M", "S"} /\ mie \subseteq Int /\ mip \subseteq Int
    BY OsAssumption DEF OsAssumption
  <2>4. phase \in {"step", "check", "stopped"} /\ priv \in Mode
    BY DEF Mode
  <2>5. notify \in BOOLEAN /\ owed \in BOOLEAN /\ ~owed
    BY Zenon
  <2>6. LoopTypeOK
    BY <2>1, <2>2, <2>3, <2>4, <2>5, Zenon DEF LoopTypeOK
  <2>7. ExternalStaysPosted
    BY <2>5, Zenon DEF ExternalStaysPosted
  <2> HIDE DEF OsInit
  <2> QED
    BY <1>1, <2>6, <2>7 DEF LoopInv, OsInv
<1>3. PlicTypeOK
  BY PlicAssumption DEF PlicAssumption, OsInit, PlicTypeOK, Context
<1>4. ClaimOutstanding
  BY DEF OsInit, ClaimOutstanding, Context
<1>5. PendingExact
  BY DEF OsInit, PendingExact, Untouched
<1> QED
  BY <1>1, <1>2, <1>3, <1>4, <1>5 DEF KernelInv

\* What the kernel and user programs do, any guest may do.
LEMMA MainIsHart ==
  ASSUME KernelInv, Main
  PROVE  HartInstruction \/ DeviceInstruction
<1>0. gie \subseteq {"M", "S"} /\ mip \subseteq Int /\ "SSI" \in Int
  BY OsAssumption DEF OsAssumption, KernelInv, LoopInv, LoopTypeOK
<1>1. CASE Work
  BY <1>1 DEF Work, HartInstruction
<1>2. CASE IntrOn \/ IntrOff
  BY <1>2 DEF IntrOn, IntrOff, HartInstruction
<1>3. CASE EnterUser
  <2>1. "U" \in Mode /\ gie \cup {"S"} \in SUBSET {"M", "S"}
    BY <1>0 DEF Mode
  <2> QED
    BY <1>3, <2>1, Zenon DEF EnterUser, HartInstruction
<1>4. CASE SystemCall
  <2>1. "S" \in Mode
    BY DEF Mode
  <2> QED
    BY <1>4, <2>1, Zenon DEF SystemCall, HartInstruction
<1>5. CASE Submit
  <2>1. FALSE \in BOOLEAN
    OBVIOUS
  <2> QED
    BY <1>5, <2>1, Zenon DEF Submit, DeviceInstruction, hart
<1>6. CASE SendSoftware
  <2>1. mip \cup {"SSI"} \in SUBSET Int
    BY <1>0
  <2> QED
    BY <1>6, <2>1, Zenon DEF SendSoftware, HartInstruction
<1> QED
  BY <1>1, <1>2, <1>3, <1>4, <1>5, <1>6, Zenon DEF Main

\* And so may the handler, provided it completes what it claimed.
LEMMA HandlerIsHart ==
  ASSUME KernelInv, Handler, gpc = "complete" => id # 0
  PROVE  HartInstruction \/ DeviceInstruction
<1>0. gie \subseteq {"M", "S"} /\ id \in {0} \cup Source
  BY DEF KernelInv, LoopInv, LoopTypeOK, OsInv, OsTypes
<1>1. CASE Claim \/ DiskDone
  BY <1>1, Zenon DEF Claim, DiskDone, HartInstruction
<1>2. CASE DrainUart
  BY <1>2, Zenon DEF DrainUart, HartInstruction, DeviceInstruction
<1>3. CASE CompleteClaimed
  <2>1. id \in CompleteValue
    BY <1>0, <1>3, PlicAssumption DEF PlicAssumption, CompleteClaimed
  <2>2. UNCHANGED <<disk, uart, clintVars, hart, owed>> /\ Complete(1, id)
    BY <1>3, Zenon DEF CompleteClaimed
  <2> QED
    BY <2>1, <2>2, Zenon DEF StorePlic, DeviceInstruction
<1>4. CASE ReturnFromTrap
  <2>1. saved.mode \in Mode /\ gie \cup saved.sie \in SUBSET {"M", "S"}
    BY <1>0 DEF KernelInv, OsInv, OsTypes, Mode
  <2> QED
    BY <1>4, <2>1, Zenon DEF ReturnFromTrap, HartInstruction
<1> QED
  BY <1>1, <1>2, <1>3, <1>4, Zenon DEF Handler

\* What the handler has claimed was raised and is not completed yet.
ClaimedOutstanding == gpc \in {"device", "complete"} => id \in outstanding

LEMMA OsIsLoop ==
  ASSUME KernelInv, ClaimedOutstanding, [OsNext]_allVars
  PROVE  [LoopNext]_loopVars
<1>1. CASE OsStep
  <2>1. Main \/ Handler
    BY <1>1, Zenon DEF OsStep, Instruction
  <2>2. gpc = "complete" => id # 0
    BY PlicAssumption
    DEF PlicAssumption, ClaimedOutstanding, KernelInv, PlicTypeOK
  <2>3. HartInstruction \/ DeviceInstruction
    BY <2>1, <2>2, MainIsHart, HandlerIsHart
  <2> QED
    BY <1>1, <2>3, Zenon DEF OsStep, Instruction, Step, LoopNext
<1>2. CASE OsCheck
  BY <1>2, Zenon DEF OsCheck, LoopNext
<1>3. CASE Keyboard
  BY <1>3, Zenon DEF LoopNext
<1>4. CASE UNCHANGED allVars
  BY <1>4, Zenon DEF allVars
<1> QED
  BY <1>1, <1>2, <1>3, <1>4, Zenon DEF OsNext

\* The handler is masked, so that no check comes between the claim and the
\* completion.
LEMMA ClaimedStep ==
  ASSUME KernelInv, ClaimedOutstanding, [OsNext]_allVars
  PROVE  ClaimedOutstanding'
<1> USE DEF ClaimedOutstanding
<1>0. OsInv /\ OsTypes /\ ClaimOutstanding
  BY DEF KernelInv, OsInv
<1>1. CASE OsStep
  <2>1. CASE Main
    <3>1. gpc = "main" /\ gpc' = gpc
      BY <2>1
      DEF Main, Work, IntrOn, IntrOff, EnterUser, SystemCall, Submit,
          SendSoftware, osVars
    <3> QED
      BY <3>1
  <2>2. CASE Claim
    <3>1. id' = claim[1] /\ claim[1] # 0 /\ outstanding' = outstanding
      BY <1>0, <2>2
      DEF Claim, ReadClaim, OsInv, TakeTime, plicVars, history
    <3> QED
      BY <1>0, <3>1 DEF ClaimOutstanding
  <2>3. CASE DiskDone \/ DrainUart
    <3>1. gpc = "device" /\ id' = id /\ outstanding' = outstanding
      BY <2>3 DEF DiskDone, DrainUart, TakeTime, LoadUart, plicVars, history
    <3> QED
      BY <3>1
  <2>4. CASE CompleteClaimed \/ ReturnFromTrap
    <3>1. gpc' \in {"return", "main"}
      BY <2>4 DEF CompleteClaimed, ReturnFromTrap
    <3> QED
      BY <3>1
  <2> QED
    BY <1>1, <2>1, <2>2, <2>3, <2>4, Zenon DEF OsStep, Instruction, Handler
<1>2. CASE OsCheck
  <2>1. CASE gpc = "main"
    <3>1. gpc' \in {"main", "claim", "return"}
      BY <1>2, <2>1 DEF OsCheck
    <3> QED
      BY <3>1
  <2>2. CASE gpc # "main"
    <3>1. GloballyDisabled
      BY <1>0, <2>2 DEF OsInv, HandlerMasked, GloballyDisabled
    <3>2. taken' = None /\ CheckDisabled
      BY <1>0, <1>2, <3>1, CheckMasked, NoTimer
      DEF OsCheck, CheckInts, TimerShortcut, CheckEnabled
    <3>3. gpc' = gpc /\ id' = id /\ outstanding' = outstanding
      BY <1>2, <3>2 DEF OsCheck, CheckDisabled, plicVars, history
    <3> QED
      BY <3>3
  <2> QED
    BY <2>1, <2>2
<1>3. CASE (Keyboard /\ UNCHANGED osVars) \/ UNCHANGED allVars
  <2>1. gpc' = gpc /\ id' = id /\ outstanding' = outstanding
    BY <1>3 DEF Keyboard, allVars, loopVars, osVars, plicVars, history
  <2> QED
    BY <2>1
<1> QED
  BY <1>1, <1>2, <1>3, Zenon DEF OsNext

MachineInv == KernelInv /\ ClaimedOutstanding

LEMMA MachineInit == OsInit => MachineInv
  BY KernelInit DEF MachineInv, ClaimedOutstanding, OsInit

LEMMA MachineStep == MachineInv /\ [OsNext]_allVars => MachineInv'
<1> SUFFICES ASSUME MachineInv, [OsNext]_allVars PROVE MachineInv'
  OBVIOUS
<1>1. KernelInv /\ ClaimedOutstanding
  BY DEF MachineInv
<1>2. [LoopNext]_loopVars
  BY <1>1, OsIsLoop
<1>3. OsInv' /\ LoopInv'
  BY <1>1, <1>2, OsStepInv, LoopStepInv DEF KernelInv
<1>4. [PlicNext]_plicVars
  BY <1>2, LoopPlicStep
<1>5. PlicTypeOK' /\ ClaimOutstanding' /\ PendingExact'
  BY <1>1, <1>4, PlicTypeOKStep, ClaimStep, PendingStep DEF KernelInv
<1> QED
  BY <1>1, <1>3, <1>5, ClaimedStep DEF MachineInv, KernelInv

(***************************************************************************)
(* Every step of the kernel, of its handler and of the loop under it is a  *)
(* step of the loop with some guest: RunLoopOs.tla leaves out no effect of *)
(* the loop and adds none.                                                 *)
(***************************************************************************)
THEOREM KernelIsGuest == OsSpec => [][LoopNext]_loopVars
<1>1. MachineInv /\ [OsNext]_allVars => [LoopNext]_loopVars
  BY OsIsLoop DEF MachineInv
<1> QED
  BY <1>1, MachineInit, MachineStep, PTL DEF OsSpec

(***************************************************************************)
(* The kernel never completes an interrupt that is not outstanding, no     *)
(* external interrupt is lost under it, and no store to QUEUE_NOTIFY is    *)
(* served twice or forgotten.                                              *)
(***************************************************************************)
THEOREM KernelCompletes ==
  OsSpec => [](LoopInv /\ PendingExact /\ ClaimedOutstanding)
<1>1. MachineInv => LoopInv /\ PendingExact /\ ClaimedOutstanding
  BY DEF MachineInv, KernelInv
<1> QED
  BY <1>1, MachineInit, MachineStep, PTL DEF OsSpec
=============================================================================
