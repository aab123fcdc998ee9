------------------------------- MODULE Virtio -------------------------------
(***************************************************************************)
(* The disk (src/src/devices/viritio.rs): the registers of the legacy      *)
(* virtio block device that decide what it does, the virtqueue in guest    *)
(* memory, and disk_access, which the loop runs when QUEUE_NOTIFY was      *)
(* stored to.                                                              *)
(*                                                                         *)
(* The driver is the guest's: it is modelled as the virtio specification   *)
(* the source cites has it, with the lowest free descriptor chain used     *)
(* first, as xv6 does.  A chain is its three descriptors together: a       *)
(* request; a head that starts no chain fails the asserts of disk_access.  *)
(***************************************************************************)
EXTENDS Integers, Sequences, FiniteSetsExt

CONSTANTS
  Sector, Image, Value, Blank,   \* as in DiskPort
  Chain,                  \* the heads of the driver's descriptor chains
  MaxInFlight,            \* how many requests the driver keeps in flight
  IndexMod,               \* 2^16: the indices of the rings are halfwords
  MaxRequest,             \* bound: requests made
  MaxReset                \* bound: resets

QUEUE_SIZE == 8
Slot == 0..(QUEUE_SIZE - 1)

ASSUME VirtioAssumption ==
  /\ Chain \subseteq Slot
  /\ MaxInFlight \in Nat \ {0}
  /\ IndexMod \in Nat \ {0} /\ IndexMod % QUEUE_SIZE = 0
  /\ MaxRequest \in Nat
  /\ MaxReset \in Nat
  /\ Image \subseteq Sector
  /\ Blank \notin Value

Request ==
  [op : {"in"}, sector : Sector, value : {Blank}] \cup
  [op : {"out"}, sector : Sector, value : Value]

NoChain == [op |-> "none"]

VARIABLES
  status,      \* the bits of the status register
  config,      \* the driver has stored to QUEUE_PFN and its like
  virtqueue,   \* the cached address: "none", or what config gave then
  notify,      \* queue_notify holds a queue index
  interrupt,   \* interrupt_status
  id,          \* the device's count of used elements
  sectors,     \* what the disk image holds
  desc,        \* the chain at each head, in guest memory
  ring,        \* the available ring
  availIdx,    \* its index
  usedRing,    \* the used ring
  usedIdx,     \* its index
  seen,        \* how many used elements the driver has looked at
  inFlight,    \* the heads made available and not got back
  resets,      \* how often the driver reset the device
  made,        \* the requests made available, in order
  carried,     \* the requests carried out, in order
  answers,     \* the value each of these transferred
  stale,       \* the notify is one of before the last reset
  misfired,    \* a disk access answered such a notify
  stopped      \* "no", or the panic that ended the emulator

registers == <<status, config, virtqueue, notify, interrupt, id>>
memory == <<desc, ring, availIdx, usedRing, usedIdx>>
driver == <<seen, inFlight, resets>>
history == <<made, carried, answers, stale, misfired>>
vars == <<registers, sectors, memory, driver, history, stopped>>

EmptyQueue ==
  /\ ring' = [k \in Slot |-> 0]
  /\ availIdx' = 0
  /\ usedRing' = [k \in Slot |-> 0]
  /\ usedIdx' = 0
  /\ seen' = 0

Init ==
  /\ status = {}
  /\ config = FALSE
  /\ virtqueue = "none"
  /\ notify = FALSE
  /\ interrupt = 0
  /\ id = 0
  /\ sectors = [s \in Image |-> Blank]
  /\ desc = [h \in Slot |-> NoChain]
  /\ ring = [k \in Slot |-> 0]
  /\ availIdx = 0
  /\ usedRing = [k \in Slot |-> 0]
  /\ usedIdx = 0
  /\ seen = 0
  /\ inFlight = {}
  /\ resets = 0
  /\ made = << >>
  /\ carried = << >>
  /\ answers = << >>
  /\ stale = FALSE
  /\ misfired = FALSE
  /\ stopped = "no"

-----------------------------------------------------------------------------
(* Stores to the registers.                                                *)

\* Faulty variant: the shift that tests the bit is the one of bit 2.
TestsBitTwo(bits) == ((IF "DRIVER_OK" \in bits THEN 4 ELSE 0) \div 4) = 1

\* (status & 4) >> 3 == 1.
DriverOkSeen(bits) == ((IF "DRIVER_OK" \in bits THEN 4 ELSE 0) \div 8) = 1

\* The address VirtqueueAddr::new computes: right once the registers are set.
AddressNow == IF config THEN "right" ELSE "wrong"

\* Faulty variant: a reset leaves the count of used elements.
WriteStatusKeepsId(bits) ==
  /\ status' = bits
  /\ interrupt' = IF bits = {} THEN 0 ELSE interrupt
  /\ virtqueue' = IF DriverOkSeen(bits) THEN AddressNow ELSE virtqueue
  /\ stopped' = IF "FAILED" \in bits THEN "driver failed" ELSE "no"
  /\ UNCHANGED <<config, notify, id>>

WriteStatus(bits) ==
  /\ status' = bits
  /\ IF bits = {}
     THEN id' = 0 /\ interrupt' = 0
     ELSE UNCHANGED <<id, interrupt>>
  /\ virtqueue' = IF DriverOkSeen(bits) THEN AddressNow ELSE virtqueue
  /\ stopped' = IF "FAILED" \in bits THEN "driver failed" ELSE "no"
  /\ UNCHANGED <<config, notify>>

\* virtqueue(): the cached address, or one computed for this access.
QueueAddress == IF virtqueue = "none" THEN AddressNow ELSE virtqueue

-----------------------------------------------------------------------------
(* The driver.  It may reset the device at any time, giving up what is in  *)
(* flight, and starts with empty rings again; the notify register and the  *)
(* cached address survive a reset.  It configures the queue and sets       *)
(* DRIVER_OK in either order (xv6 sets DRIVER_OK first).                   *)

Reset ==
  /\ resets < MaxReset
  /\ resets' = resets + 1
  /\ WriteStatus({})
  /\ EmptyQueue
  /\ desc' \in {desc, [h \in Slot |-> NoChain]}
  /\ inFlight' = {}
  /\ made' = SubSeq(made, 1, Len(answers))
  /\ stale' = notify
  /\ UNCHANGED <<sectors, carried, answers, misfired>>

DriverOk ==
  /\ "DRIVER_OK" \notin status
  /\ WriteStatus(status \cup {"DRIVER_OK"})
  /\ UNCHANGED <<sectors, memory, driver, history>>

GiveUp ==
  /\ WriteStatus(status \cup {"FAILED"})
  /\ UNCHANGED <<sectors, memory, driver, history>>

Configure ==
  /\ ~config
  /\ config' = TRUE
  /\ UNCHANGED <<status, virtqueue, notify, interrupt, id, sectors, memory,
                 driver, history, stopped>>

\* The driver builds and announces a request with interrupts disabled, so
\* disk_access does not run in between.
Submit(r) ==
  /\ config /\ "DRIVER_OK" \in status
  /\ Len(made) < MaxRequest
  /\ Cardinality(inFlight) < MaxInFlight
  /\ Chain \ inFlight # {}
  /\ LET h == Min(Chain \ inFlight)
     IN  /\ desc' = [desc EXCEPT ![h] = r]
         /\ ring' = [ring EXCEPT ![availIdx % QUEUE_SIZE] = h]
         /\ inFlight' = inFlight \cup {h}
  /\ availIdx' = (availIdx + 1) % IndexMod
  /\ notify' = TRUE
  /\ made' = Append(made, r)
  /\ stale' = FALSE
  /\ UNCHANGED <<status, config, virtqueue, interrupt, id, sectors, usedRing,
                 usedIdx, seen, resets, carried, answers, misfired, stopped>>

\* read, for the one register whose value the driver stores back.
ReadInterruptStatus == interrupt

\* INTERRUPT_ACK: the status register becomes what is stored.
WriteInterruptAck(v) == interrupt' = v

\* The driver acknowledges the status it read (which leaves it as it is) and
\* takes the next element of the used ring.
Collect ==
  /\ seen # usedIdx
  /\ WriteInterruptAck(ReadInterruptStatus)
  /\ inFlight' = inFlight \ {usedRing[seen % QUEUE_SIZE]}
  /\ seen' = (seen + 1) % IndexMod
  /\ UNCHANGED <<status, config, virtqueue, notify, id, sectors, memory, resets,
                 history, stopped>>

-----------------------------------------------------------------------------
(* disk_access.                                                            *)

(***************************************************************************)
(* The head is the halfword idx % 8 bytes into the ring, whose elements    *)
(* are halfwords: for an odd index, the high byte of one element and the   *)
(* low byte of the next.                                                   *)
(***************************************************************************)
HeadIndex ==
  LET byte == availIdx % QUEUE_SIZE
      k    == byte \div 2
  IN  IF byte % 2 = 0
      THEN ring[k]
      ELSE ring[k] \div 256 + 256 * (ring[k + 1] % 256)

ChainAt(head) == IF head \in Slot THEN desc[head] ELSE NoChain

\* Faulty variant: the test of VIRTQ_DESC_F_WRITE is the wrong way round.
CarryOutSwapped(r) ==
  /\ sectors' = IF r.op = "in"
                THEN [sectors EXCEPT ![r.sector] = r.value]
                ELSE sectors
  /\ carried' = Append(carried, r)
  /\ answers' = Append(answers, sectors'[r.sector])

CarryOut(r) ==
  /\ sectors' = IF r.op = "out"
                THEN [sectors EXCEPT ![r.sector] = r.value]
                ELSE sectors
  /\ carried' = Append(carried, r)
  /\ answers' = Append(answers, sectors'[r.sector])

PutUsed(head) ==
  /\ usedRing' = [usedRing EXCEPT ![id % QUEUE_SIZE] = head]
  /\ id' = id + 1
  /\ usedIdx' = id' % IndexMod

\* Faulty variant: the disk waits until its last interrupt is acknowledged.
AwaitAcknowledge == notify /\ interrupt = 0 /\ notify' = FALSE

\* is_interrupting: the register is reset before the access.
IsInterrupting == notify /\ notify' = FALSE

\* Faulty variant: interrupt_status += 1.
CountInterrupt == interrupt' = interrupt + 1

RaiseInterrupt == interrupt' = 1

(***************************************************************************)
(* The emulator ends in the middle of the access: at an assert, or at the  *)
(* index of a byte, because neither read_disk nor write_disk tests whether *)
(* the image has the sector.                                               *)
(***************************************************************************)
Panic(why) ==
  /\ stopped' = why
  /\ UNCHANGED <<sectors, carried, answers, usedRing, id, usedIdx>>

DiskAccess ==
  /\ IsInterrupting
  /\ RaiseInterrupt
  /\ LET head == HeadIndex
         r    == ChainAt(head)
     IN  IF QueueAddress # "right" \/ r = NoChain
         THEN Panic("disk access failed")
         ELSE IF r.sector \notin Image
         THEN Panic("sector beyond the image")
         ELSE CarryOut(r) /\ PutUsed(head) /\ UNCHANGED stopped
  /\ stale' = FALSE
  /\ misfired' = (misfired \/ stale)
  /\ UNCHANGED <<status, config, virtqueue, desc, ring, availIdx, seen,
                 inFlight, resets, made>>

\* The model ends where the program does, and at an access that misfired.
Running == stopped = "no" /\ ~misfired

Next ==
  /\ Running
  /\ \/ Reset \/ DriverOk \/ GiveUp \/ Configure
     \/ \E r \in Request : Submit(r)
     \/ Collect \/ DiskAccess

(***************************************************************************)
(* The loop runs disk_access in any check with interrupts enabled, and the *)
(* driver enables them and looks at the used ring in its handler.          *)
(***************************************************************************)
Spec ==
  /\ Init /\ [][Next]_vars
  /\ WF_vars(Running /\ DiskAccess)
  /\ WF_vars(Running /\ Collect)

-----------------------------------------------------------------------------
(* Properties.                                                             *)

\* Every variable holds a value of its type.
TypeOK ==
  /\ status \subseteq {"DRIVER_OK", "FAILED"}
  /\ config \in BOOLEAN
  /\ virtqueue \in {"none", "right", "wrong"}
  /\ notify \in BOOLEAN
  /\ interrupt \in {0, 1}
  /\ id \in Nat
  /\ availIdx \in 0..(IndexMod - 1) /\ usedIdx \in 0..(IndexMod - 1)
  /\ seen \in 0..(IndexMod - 1)
  /\ sectors \in [Image -> Value \cup {Blank}]
  /\ desc \in [Slot -> Request \cup {NoChain}]
  /\ ring \in [Slot -> Slot] /\ usedRing \in [Slot -> Slot]
  /\ inFlight \subseteq Chain
  /\ resets \in 0..MaxReset
  /\ made \in Seq(Request) /\ carried \in Seq(Request)
  /\ answers \in Seq(Value \cup {Blank})
  /\ stale \in BOOLEAN /\ misfired \in BOOLEAN
  /\ stopped \in {"no", "driver failed", "disk access failed",
                 "sector beyond the image"}

(***************************************************************************)
(* reset keeps queue_notify.  A driver that resets the device while a      *)
(* notify is pending is safe only if it announces a request before the     *)
(* loop comes to check: otherwise a disk access runs on the queue that was *)
(* given up.  The model ends at such an access.                            *)
(***************************************************************************)

(***************************************************************************)
(* The used elements the driver has not looked at name requests that are   *)
(* in flight, each once, across the wrap of the ring and of the indices    *)
(* and across a reset with a request in flight: the driver never frees a   *)
(* chain the device still has or frees one twice.                          *)
(***************************************************************************)
UsedInFlight ==
  LET new == {n \in 0..(IndexMod - 1) : n < (usedIdx - seen) % IndexMod}
      at(n) == usedRing[(seen + n) % QUEUE_SIZE]
  IN  ~misfired =>
        /\ \A n \in new : at(n) \in inFlight
        /\ \A m, n \in new : at(m) = at(n) => m = n

(***************************************************************************)
(* A disk access never fails an assert or misses the queue of a driver     *)
(* that configured one, in whichever order it configures it and sets       *)
(* DRIVER_OK (the address is computed when it is used), and also after a   *)
(* reset; and the index of the image panics only for a request that names  *)
(* a sector the image does not have.                                       *)
(***************************************************************************)
AccessSucceeds ==
  ~misfired =>
    /\ stopped # "disk access failed"
    /\ stopped = "sector beyond the image" =>
         made[Len(answers) + 1].sector \notin Image

(***************************************************************************)
(* viritio.rs:330-331, of the feature the device offers: "all buffers are  *)
(* used by the device in the same order in which they have been made       *)
(* available".                                                             *)
(***************************************************************************)
InOrder ==
  /\ Len(carried) <= Len(made)
  /\ \A k \in 1..Len(carried) : carried[k] = made[k]

(***************************************************************************)
(* Every request made is carried out, unless the driver gives it up with a *)
(* reset or stops the emulator, which a sector beyond the image does too.  *)
(***************************************************************************)
EveryRequestCarried ==
  \A i \in 1..MaxRequest :
    (Len(made) >= i) ~> (Len(carried) >= i \/ Len(made) < i \/ ~Running)

(***************************************************************************)
(* For a driver with one request in flight the device is DiskPort: the     *)
(* requests are carried out once each and in order, reads return what was  *)
(* written, and a reset only forgets what was not carried out yet.         *)
(***************************************************************************)
Port == INSTANCE DiskPort
PortSpec == Port!Init /\ [][misfired' \/ Port!Next]_(Port!portVars)
=============================================================================
