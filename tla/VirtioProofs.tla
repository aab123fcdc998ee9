---------------------------- MODULE VirtioProofs ----------------------------
(***************************************************************************)
(* Proofs about the disk of Virtio.tla: its types and what it holds, for   *)
(* any driver; and for a driver with one chain, as xv6 has when it does    *)
(* one request at a time, that the device gives every request back once    *)
(* and implements DiskPort.                                                *)
(***************************************************************************)
EXTENDS Virtio, FiniteSetTheorems, SequenceTheorems, NatTheorems, TLAPS

USE VirtioAssumption

LEMMA SlotIs == Slot = {0, 1, 2, 3, 4, 5, 6, 7}
BY DEF Slot, QUEUE_SIZE

LEMMA SlotFinite == IsFiniteSet(Slot)
<1>1. ASSUME NEW a \in Int, NEW b \in Int PROVE IsFiniteSet(a..b)
  BY <1>1, FS_Interval
<1>2. 0 \in Int /\ QUEUE_SIZE - 1 \in Int
  BY DEF QUEUE_SIZE
<1> QED
  BY <1>1, <1>2 DEF Slot

(***************************************************************************)
(* The lowest of some heads is one of them, and below none of them.        *)
(***************************************************************************)
LEMMA MinIs ==
  ASSUME NEW S \in SUBSET Slot, S # {}
  PROVE  Min(S) \in S /\ \A y \in S : Min(S) <= y
<1>1. \E x \in S : \A y \in S : x <= y
  <2>1. S \in SUBSET Nat /\ \A y \in S : y <= 7
    BY SlotIs
  <2>2. CASE 0 \in S
    BY <2>1, <2>2
  <2>3. CASE 0 \notin S /\ 1 \in S
    BY <2>1, <2>3
  <2>4. CASE S \cap 0..1 = {} /\ 2 \in S
    BY <2>1, <2>4
  <2>5. CASE S \cap 0..2 = {} /\ 3 \in S
    BY <2>1, <2>5
  <2>6. CASE S \cap 0..3 = {} /\ 4 \in S
    BY <2>1, <2>6
  <2>7. CASE S \cap 0..4 = {} /\ 5 \in S
    BY <2>1, <2>7
  <2>8. CASE S \cap 0..5 = {} /\ 6 \in S
    BY <2>1, <2>8
  <2>9. CASE S \cap 0..6 = {}
    <3>1. \A y \in S : y = 7
      BY <2>1, <2>9
    <3> QED
      BY <3>1
  <2> QED
    BY <2>2, <2>3, <2>4, <2>5, <2>6, <2>7, <2>8, <2>9, SlotIs
<1> QED
  BY <1>1 DEF Min

LEMMA RequestIsChain == \A r \in Request : r # NoChain
BY DEF Request, NoChain

LEMMA IndexIsNat == \A i \in 0..(IndexMod - 1) : i \in Nat
OBVIOUS

LEMMA IndexRange ==
  \A n \in Nat : n % IndexMod \in 0..(IndexMod - 1) /\ n % QUEUE_SIZE \in Slot
<1>1. \A n \in Nat, m \in Nat \ {0} : n % m \in 0..(m - 1)
  OBVIOUS
<1>2. QUEUE_SIZE \in Nat \ {0} /\ Slot = 0..(QUEUE_SIZE - 1)
  BY DEF QUEUE_SIZE, Slot
<1> QED
  BY <1>1, <1>2

(***************************************************************************)
(* No access is without a request, until one misfires: there are never     *)
(* more answers than requests, and while a notify is pending, fewer.       *)
(***************************************************************************)
Answered ==
  ~misfired =>
    /\ Len(answers) <= Len(made)
    /\ notify /\ ~stale => Len(answers) < Len(made)

(***************************************************************************)
(* What a reset leaves of the requests made.                               *)
(***************************************************************************)
LEMMA GivenUp ==
  ASSUME made \in Seq(Request), answers \in Seq(Value \cup {Blank}),
         Len(answers) <= Len(made)
  PROVE  /\ SubSeq(made, 1, Len(answers)) \in Seq(Request)
         /\ Len(SubSeq(made, 1, Len(answers))) = Len(answers)
<1>1. Len(answers) \in Nat
  BY LenProperties
<1>2. \A i \in 1..Len(answers) : i \in 1..Len(made)
  BY <1>1, LenProperties
<1>3. /\ SubSeq(made, 1, Len(answers)) \in Seq(Request)
      /\ Len(SubSeq(made, 1, Len(answers)))
           = IF 1 <= Len(answers) THEN Len(answers) - 1 + 1 ELSE 0
  BY <1>1, <1>2, SubSeqProperties
<1> QED
  BY <1>1, <1>3

-----------------------------------------------------------------------------
(* Types, for any driver.                                                  *)

LEMMA TypeOKInit == Init => TypeOK
<1> SUFFICES ASSUME Init PROVE TypeOK
  OBVIOUS
<1> USE DEF Init
<1>1. /\ 0 \in 0..(IndexMod - 1) /\ 0 \in Slot /\ 0 \in 0..MaxReset
  BY SlotIs
<1>2. desc \in [Slot -> Request \cup {NoChain}]
  OBVIOUS
<1>3. ring \in [Slot -> Slot] /\ usedRing \in [Slot -> Slot]
  BY <1>1
<1>4. sectors \in [Image -> Value \cup {Blank}]
  OBVIOUS
<1> QED
  BY <1>1, <1>2, <1>3, <1>4 DEF TypeOK

LEMMA WriteStatusTypes ==
  ASSUME TypeOK, NEW bits \in SUBSET {"DRIVER_OK", "FAILED"}, WriteStatus(bits)
  PROVE  /\ status' \subseteq {"DRIVER_OK", "FAILED"}
         /\ config' = config /\ notify' = notify
         /\ virtqueue' = virtqueue
         /\ interrupt' \in {0, 1} /\ id' \in Nat
         /\ bits = {} => id' = 0
         /\ bits # {} => id' = id
         /\ stopped' \in {"no", "driver failed"}
<1>1. ~DriverOkSeen(bits)
  BY DEF DriverOkSeen
<1>2. /\ status' = bits /\ config' = config /\ notify' = notify
      /\ virtqueue' = virtqueue
      /\ stopped' \in {"no", "driver failed"}
  BY <1>1 DEF WriteStatus
<1>3. bits = {} => id' = 0 /\ interrupt' = 0
  BY DEF WriteStatus
<1>4. bits # {} => id' = id /\ interrupt' = interrupt
  BY DEF WriteStatus
<1>5. id \in Nat /\ interrupt \in {0, 1}
  BY DEF TypeOK
<1>6. interrupt' \in {0, 1} /\ id' \in Nat
  BY <1>3, <1>4, <1>5
<1> QED
  BY <1>2, <1>3, <1>4, <1>6

LEMMA TypeOKStep == TypeOK /\ Answered /\ [Next]_vars => TypeOK'
<1> SUFFICES ASSUME TypeOK, Answered, [Next]_vars PROVE TypeOK'
  OBVIOUS
<1>0. 0 \in 0..(IndexMod - 1) /\ 0 \in Slot
  BY SlotIs
<1>1. CASE Running /\ Reset
  <2>1. WriteStatus({})
    BY <1>1 DEF Reset
  <2>2. /\ status' \subseteq {"DRIVER_OK", "FAILED"} /\ config' = config
        /\ notify' = notify /\ virtqueue' = virtqueue /\ interrupt' \in {0, 1}
        /\ id' \in Nat /\ stopped' \in {"no", "driver failed"}
    BY <2>1, WriteStatusTypes
  <2>3. /\ ring' \in [Slot -> Slot] /\ usedRing' \in [Slot -> Slot]
        /\ availIdx' = 0 /\ usedIdx' = 0 /\ seen' = 0
    BY <1>0, <1>1 DEF Reset, EmptyQueue
  <2>4. desc' \in [Slot -> Request \cup {NoChain}]
    BY <1>1 DEF Reset, TypeOK
  <2>a. /\ resets \in 0..MaxReset /\ made \in Seq(Request)
        /\ answers \in Seq(Value \cup {Blank})
    BY DEF TypeOK
  <2>b. resets < MaxReset /\ resets' = resets + 1
    BY <1>1 DEF Reset
  <2>5. resets' \in 0..MaxReset
    BY <2>a, <2>b
  <2>c. made' = SubSeq(made, 1, Len(answers)) /\ Len(answers) <= Len(made)
    BY <1>1 DEF Reset, Running, Answered
  <2>6. made' \in Seq(Request)
    BY <2>a, <2>c, GivenUp
  <2>7. inFlight' = {} /\ stale' = notify
        /\ UNCHANGED <<sectors, carried, answers, misfired>>
    BY <1>1 DEF Reset
  <2> QED
    BY <1>0, <2>2, <2>3, <2>4, <2>5, <2>6, <2>7 DEF TypeOK
<1>2. CASE DriverOk \/ GiveUp
  <2>1. PICK bits \in SUBSET {"DRIVER_OK", "FAILED"} : WriteStatus(bits)
    BY <1>2 DEF DriverOk, GiveUp, TypeOK
  <2>2. UNCHANGED <<sectors, memory, driver, history>>
    BY <1>2 DEF DriverOk, GiveUp
  <2>3. /\ status' \subseteq {"DRIVER_OK", "FAILED"} /\ config' = config
        /\ notify' = notify /\ virtqueue' = virtqueue /\ interrupt' \in {0, 1}
        /\ id' \in Nat /\ stopped' \in {"no", "driver failed"}
    BY <2>1, WriteStatusTypes
  <2> QED
    BY <2>2, <2>3 DEF TypeOK, memory, driver, history
<1>3. CASE Configure
  BY <1>3 DEF Configure, TypeOK, memory, driver, history
<1>4. ASSUME NEW r \in Request, Submit(r) PROVE TypeOK'
  <2>1. Min(Chain \ inFlight) \in Chain
    BY <1>4, MinIs DEF Submit
  <2>a. availIdx \in Nat
    BY IndexIsNat DEF TypeOK
  <2>2. /\ availIdx % QUEUE_SIZE \in Slot
        /\ (availIdx + 1) % IndexMod \in 0..(IndexMod - 1)
    BY <2>a, IndexRange
  <2>3. desc' \in [Slot -> Request \cup {NoChain}] /\ ring' \in [Slot -> Slot]
    BY <1>4, <2>1, <2>2 DEF Submit, TypeOK
  <2>4. /\ inFlight' \subseteq Chain /\ availIdx' \in 0..(IndexMod - 1)
        /\ notify' = TRUE /\ made' \in Seq(Request) /\ stale' = FALSE
    <3>1. /\ availIdx' = (availIdx + 1) % IndexMod
          /\ notify' = TRUE /\ made' = Append(made, r) /\ stale' = FALSE
          /\ inFlight' = inFlight \cup {Min(Chain \ inFlight)}
      BY <1>4 DEF Submit
    <3>2. made \in Seq(Request) /\ inFlight \subseteq Chain
      BY DEF TypeOK
    <3> QED
      BY <3>1, <3>2, <2>1, <2>2, <1>4, AppendProperties
  <2>5. UNCHANGED <<status, config, virtqueue, interrupt, id, sectors, usedRing,
                    usedIdx, seen, resets, carried, answers, misfired, stopped>>
    BY <1>4 DEF Submit
  <2> QED
    BY <2>3, <2>4, <2>5 DEF TypeOK
<1>5. CASE Collect
  <2>1. seen' \in 0..(IndexMod - 1)
    <3>1. seen \in Nat /\ seen' = (seen + 1) % IndexMod
      BY <1>5, IndexIsNat DEF Collect, TypeOK
    <3> QED
      BY <3>1, IndexRange
  <2>2. interrupt' = interrupt
    BY <1>5 DEF Collect, WriteInterruptAck, ReadInterruptStatus
  <2> QED
    BY <1>5, <2>1, <2>2 DEF Collect, TypeOK, memory, history
<1>6. CASE DiskAccess
  <2> DEFINE r == ChainAt(HeadIndex)
  <2>1. /\ notify' = FALSE /\ interrupt' = 1 /\ stale' = FALSE
        /\ misfired' = (misfired \/ stale)
        /\ UNCHANGED <<status, config, virtqueue, desc, ring, availIdx, seen,
                       inFlight, resets, made>>
    BY <1>6 DEF DiskAccess, IsInterrupting, RaiseInterrupt
  <2>2. CASE QueueAddress = "right" /\ r # NoChain /\ r.sector \in Image
    <3>1. HeadIndex \in Slot /\ r \in Request
      BY <2>2 DEF ChainAt, TypeOK
    <3>2. CarryOut(r) /\ PutUsed(HeadIndex) /\ UNCHANGED stopped
      BY <1>6, <2>2 DEF DiskAccess
    <3>3. id % QUEUE_SIZE \in Slot /\ (id + 1) % IndexMod \in 0..(IndexMod - 1)
      <4>1. id \in Nat
        BY DEF TypeOK
      <4> QED
        BY <4>1, IndexRange
    <3>4. /\ id' \in Nat /\ usedIdx' \in 0..(IndexMod - 1)
          /\ usedRing' \in [Slot -> Slot]
      <4>1. id \in Nat /\ usedRing \in [Slot -> Slot]
        BY DEF TypeOK
      <4>2. /\ id' = id + 1 /\ usedIdx' = id' % IndexMod
            /\ usedRing' = [usedRing EXCEPT ![id % QUEUE_SIZE] = HeadIndex]
        BY <3>2 DEF PutUsed
      <4> QED
        BY <4>1, <4>2, <3>1, <3>3
    <3>5. r.sector \in Image /\ (r.op = "out" => r.value \in Value)
      BY <2>2, <3>1 DEF Request
    <3>6. sectors' \in [Image -> Value \cup {Blank}]
      BY <3>2, <3>5 DEF CarryOut, TypeOK
    <3>7. carried' \in Seq(Request) /\ answers' \in Seq(Value \cup {Blank})
      <4>1. /\ carried' = Append(carried, r)
            /\ answers' = Append(answers, sectors'[r.sector])
        BY <3>2 DEF CarryOut
      <4>2. sectors'[r.sector] \in Value \cup {Blank}
        BY <3>5, <3>6
      <4>3. carried \in Seq(Request) /\ answers \in Seq(Value \cup {Blank})
        BY DEF TypeOK
      <4> HIDE DEF r
      <4> QED
        BY <4>1, <4>2, <4>3, <3>1, AppendProperties
    <3> QED
      BY <2>1, <3>2, <3>4, <3>6, <3>7 DEF TypeOK
  <2>3. CASE ~(QueueAddress = "right" /\ r # NoChain /\ r.sector \in Image)
    <3>1. /\ stopped' \in {"disk access failed", "sector beyond the image"}
          /\ UNCHANGED <<sectors, carried, answers, usedRing, id, usedIdx>>
      BY <1>6, <2>3 DEF DiskAccess, Panic
    <3> QED
      BY <2>1, <3>1 DEF TypeOK
  <2> QED
    BY <2>2, <2>3
<1>7. CASE UNCHANGED vars
  BY <1>7 DEF TypeOK, vars, registers, memory, driver, history
<1> QED
  BY <1>1, <1>2, <1>3, <1>4, <1>5, <1>6, <1>7 DEF Next

LEMMA AnsweredInit == Init => Answered
BY DEF Init, Answered

LEMMA AnsweredStep == TypeOK /\ Answered /\ [Next]_vars => Answered'
<1> SUFFICES ASSUME TypeOK, Answered, [Next]_vars PROVE Answered'
  OBVIOUS
<1>0. /\ made \in Seq(Request) /\ answers \in Seq(Value \cup {Blank})
      /\ Len(made) \in Nat /\ Len(answers) \in Nat
  BY LenProperties DEF TypeOK
<1>1. CASE Running /\ Reset
  <2>1. /\ answers' = answers /\ stale' = notify
        /\ made' = SubSeq(made, 1, Len(answers)) /\ Len(answers) <= Len(made)
    BY <1>1 DEF Reset, Running, Answered
  <2>2. Len(made') = Len(answers)
    BY <1>0, <2>1, GivenUp
  <2>3. WriteStatus({})
    BY <1>1 DEF Reset
  <2>4. notify' = notify
    BY <2>3, WriteStatusTypes
  <2> QED
    BY <1>0, <2>1, <2>2, <2>4 DEF Answered
<1>2. CASE DriverOk \/ GiveUp \/ Configure \/ Collect
  <2>1. UNCHANGED <<made, answers, notify, stale, misfired>>
    BY <1>2 DEF DriverOk, GiveUp, Configure, Collect, WriteStatus, history
  <2> QED
    BY <2>1 DEF Answered
<1>3. ASSUME NEW r \in Request, Submit(r) PROVE Answered'
  <2>1. made' = Append(made, r) /\ UNCHANGED <<answers, misfired>>
    BY <1>3 DEF Submit
  <2>2. Len(made') = Len(made) + 1
    BY <1>0, <1>3, <2>1, AppendProperties
  <2> QED
    BY <1>0, <2>1, <2>2 DEF Answered
<1>4. CASE Running /\ DiskAccess
  <2>1. notify /\ notify' = FALSE /\ misfired' = (misfired \/ stale) /\ made' = made
    BY <1>4 DEF DiskAccess, IsInterrupting
  <2>2. CASE stale
    BY <2>1, <2>2 DEF Answered
  <2>3. CASE ~stale
    <3>1. Len(answers) < Len(made)
      BY <1>4, <2>1, <2>3 DEF Answered, Running
    <3>2. \/ answers' = answers
          \/ \E v : answers' = Append(answers, v)
      BY <1>4 DEF DiskAccess, CarryOut, Panic
    <3>3. \A v : Len(Append(answers, v)) = Len(answers) + 1
      BY <1>0
    <3> QED
      BY <1>0, <2>1, <3>1, <3>2, <3>3 DEF Answered
  <2> QED
    BY <2>2, <2>3 DEF TypeOK
<1>5. CASE UNCHANGED vars
  BY <1>5 DEF Answered, vars, registers, history
<1> QED
  BY <1>1, <1>2, <1>3, <1>4, <1>5 DEF Next

(***************************************************************************)
(* The registers, the rings and the image of the disk keep their types,    *)
(* for any chains, any number of them in flight and any order of stores.   *)
(***************************************************************************)
THEOREM TypeCorrect == Spec => []TypeOK
<1>1. Init => TypeOK /\ Answered
  BY TypeOKInit, AnsweredInit
<1>2. TypeOK /\ Answered /\ [Next]_vars => (TypeOK /\ Answered)'
  BY TypeOKStep, AnsweredStep
<1> QED
  BY <1>1, <1>2, PTL DEF Spec

-----------------------------------------------------------------------------
(* A driver with one request in flight, in the chain at head 0.            *)

(***************************************************************************)
(* A request goes round: nothing in flight, one announced, one given back; *)
(* or it names a sector beyond the image, and ends the emulator.           *)
(* The device counts its elements in id and the driver sees what fits a    *)
(* halfword of it; both rings hold nothing but the head 0, so that the     *)
(* device finds it wherever it looks.                                      *)
(***************************************************************************)
Idle ==
  /\ inFlight = {} /\ (notify => stale)
  /\ Len(answers) = Len(made) /\ usedIdx = seen

Announced ==
  /\ inFlight = {0} /\ notify /\ ~stale /\ config
  /\ Len(made) = Len(answers) + 1 /\ desc[0] = made[Len(made)]
  /\ usedIdx = seen

GivenBack ==
  /\ inFlight = {0} /\ ~notify
  /\ Len(answers) = Len(made) /\ usedIdx = (seen + 1) % IndexMod

Beyond ==
  /\ stopped = "sector beyond the image"
  /\ Len(made) = Len(answers) + 1 /\ made[Len(answers) + 1].sector \notin Image
  /\ usedIdx = seen

HeadZero == \A k \in Slot : ring[k] = 0 /\ usedRing[k] = 0

RoundInv ==
  /\ TypeOK
  /\ virtqueue = "none"
  /\ HeadZero
  /\ ~misfired => /\ stopped # "disk access failed"
                  /\ usedIdx = id % IndexMod
                  /\ \/ Beyond
                     \/ /\ stopped # "sector beyond the image"
                        /\ Idle \/ Announced \/ GivenBack

(***************************************************************************)
(* The halfword of the next count is the next halfword.                    *)
(***************************************************************************)
LEMMA NextIndex ==
  ASSUME NEW n \in Nat, NEW m \in Nat \ {0}
  PROVE  ((n % m) + 1) % m = (n + 1) % m
<1> DEFINE q == n \div m
           r == n % m
<1>1. q \in Int /\ r \in 0..(m - 1) /\ n = m * q + r
  BY Division
<1> HIDE DEF q, r
<1>2. CASE r + 1 < m
  <2>a. n + 1 = m * q + (r + 1) /\ r + 1 \in 0..(m - 1)
    BY <1>1, <1>2
  <2>b. (n + 1) % m = r + 1
    BY <1>1, <2>a, Remainder
  <2>1. (n + 1) % m = r + 1 /\ (r + 1) % m = r + 1
    BY <1>1, <1>2, <2>b
  <2> QED
    BY <2>1 DEF r
<1>3. CASE r + 1 = m
  <2>1. q + 1 \in Int /\ n + 1 = m * (q + 1) + 0
    BY <1>1, <1>3
  <2>2. (n + 1) % m = 0
    BY <1>1, <2>1, Remainder
  <2>3. (r + 1) % m = 0
    BY <1>1, <1>3
  <2> QED
    BY <2>2, <2>3 DEF r
<1> QED
  BY <1>1, <1>2, <1>3

LEMMA OneBehind ==
  ASSUME NEW m \in Nat \ {0, 1}, NEW i \in 0..(m - 1)
  PROVE  (((i + 1) % m) - i) % m = 1
<1>1. CASE i + 1 < m
  BY <1>1
<1>2. CASE i + 1 = m
  <2>1. (i + 1) % m = 0
    BY <1>2
  <2>2. 0 - i = m * (-1) + 1
    BY <1>2
  <2>3. (0 - i) % m = 1
    BY <2>2, Remainder
  <2> QED
    BY <2>1, <2>3
<1> QED
  BY <1>1, <1>2

LEMMA IndexModIs == IndexMod \in Nat \ {0, 1}
BY DEF QUEUE_SIZE

LEMMA RoundInit == Init => RoundInv
<1> SUFFICES ASSUME Init PROVE RoundInv
  OBVIOUS
<1>1. TypeOK
  BY TypeOKInit
<1>2. 0 % IndexMod = 0
  BY IndexModIs
<1>3. HeadZero
  BY DEF Init, HeadZero
<1>4. virtqueue = "none" /\ stopped = "no" /\ usedIdx = 0 /\ id = 0 /\ Idle
  BY DEF Init, Idle
<1> QED
  BY <1>1, <1>2, <1>3, <1>4 DEF RoundInv

(***************************************************************************)
(* While both rings hold only 0, the device finds the head 0: at an even   *)
(* place one element, at an odd one the halves of two.                     *)
(***************************************************************************)
LEMMA HeadFound ==
  ASSUME TypeOK, HeadZero
  PROVE  HeadIndex = 0
<1> DEFINE byte == availIdx % QUEUE_SIZE
<1>1. byte \in 0..7
  <2>1. availIdx \in Nat
    BY IndexIsNat DEF TypeOK
  <2> QED
    BY <2>1, IndexRange DEF Slot, QUEUE_SIZE
<1>2. byte \div 2 \in 0..3
  BY <1>1
<1>3. byte \div 2 \in Slot /\ byte \div 2 + 1 \in Slot
  BY <1>2 DEF Slot, QUEUE_SIZE
<1>4. ring[byte \div 2] = 0 /\ ring[byte \div 2 + 1] = 0
  BY <1>3 DEF HeadZero
<1> HIDE DEF byte
<1>5. 0 \div 256 + 256 * (0 % 256) = 0
  OBVIOUS
<1> QED
  BY <1>4, <1>5 DEF HeadIndex, byte

(***************************************************************************)
(* An access that answers an announced request finds its chain, and puts   *)
(* it into the used ring and answers it if the image has the sector.       *)
(***************************************************************************)
LEMMA AccessAnswers ==
  ASSUME TypeOK, HeadZero, virtqueue = "none", Announced, DiskAccess
  PROVE  /\ made[Len(made)] \in Request
         /\ IF made[Len(made)].sector \in Image
            THEN /\ CarryOut(made[Len(made)]) /\ PutUsed(0)
                 /\ stopped' = stopped
            ELSE Panic("sector beyond the image")
<1>1. HeadIndex = 0
  BY HeadFound
<1>2. made[Len(made)] \in Request
  <2>1. made \in Seq(Request) /\ answers \in Seq(Value \cup {Blank})
    BY DEF TypeOK
  <2>2. Len(made) \in 1..Len(made)
    BY <2>1, LenProperties DEF Announced
  <2> QED
    BY <2>1, <2>2, LenProperties
<1>3. ChainAt(0) = made[Len(made)]
  BY SlotIs DEF ChainAt, Announced
<1>4. QueueAddress = "right" /\ ChainAt(HeadIndex) # NoChain
  BY <1>1, <1>2, <1>3, RequestIsChain DEF QueueAddress, AddressNow, Announced
<1> QED
  BY <1>1, <1>2, <1>3, <1>4 DEF DiskAccess

LEMMA RoundStep ==
  ASSUME MaxInFlight = 1, 0 \in Chain, RoundInv, Answered, [Next]_vars
  PROVE  RoundInv'
<1>0. TypeOK /\ TypeOK'
  BY TypeOKStep DEF RoundInv
<1>a. /\ made \in Seq(Request) /\ answers \in Seq(Value \cup {Blank})
      /\ Len(made) \in Nat /\ Len(answers) \in Nat /\ id \in Nat
      /\ 0 \in Slot
  BY <1>0, LenProperties, SlotIs DEF TypeOK
<1>1. CASE Running /\ Reset
  <2>1. WriteStatus({})
    BY <1>1 DEF Reset
  <2>2. /\ notify' = notify /\ virtqueue' = virtqueue /\ id' = 0
        /\ stopped' \in {"no", "driver failed"}
    BY <1>0, <2>1, WriteStatusTypes
  <2>3. HeadZero' /\ usedIdx' = 0 /\ seen' = 0
    BY <1>1 DEF Reset, EmptyQueue, HeadZero
  <2>4. /\ inFlight' = {} /\ stale' = notify /\ answers' = answers
        /\ made' = SubSeq(made, 1, Len(answers)) /\ Len(answers) <= Len(made)
    BY <1>1 DEF Reset, Running, Answered
  <2>5. Len(made') = Len(answers)
    BY <1>a, <2>4, GivenUp
  <2>6. Idle'
    BY <2>2, <2>3, <2>4, <2>5 DEF Idle
  <2>7. 0 % IndexMod = 0
    BY IndexModIs
  <2> QED
    BY <1>0, <2>2, <2>3, <2>6, <2>7 DEF RoundInv
<1>2. CASE Running /\ (DriverOk \/ GiveUp)
  <2>1. PICK bits \in SUBSET {"DRIVER_OK", "FAILED"} :
          bits # {} /\ WriteStatus(bits)
    BY <1>0, <1>2 DEF DriverOk, GiveUp, TypeOK
  <2>2. /\ config' = config /\ notify' = notify /\ virtqueue' = virtqueue
        /\ id' = id /\ stopped' \in {"no", "driver failed"}
    BY <1>0, <2>1, WriteStatusTypes
  <2>3. UNCHANGED <<memory, driver, history>>
    BY <1>2 DEF DriverOk, GiveUp
  <2>4. HeadZero'
    BY <2>3 DEF RoundInv, HeadZero, memory
  <2>5. ~misfired => (Idle \/ Announced \/ GivenBack)'
    BY <1>2, <2>2, <2>3 DEF RoundInv, Running, Beyond, Idle, Announced, GivenBack,
       memory, driver, history
  <2> QED
    BY <1>0, <2>2, <2>3, <2>4, <2>5 DEF RoundInv, memory, history
<1>3. CASE Running /\ Configure
  <2>1. /\ config' = TRUE
        /\ UNCHANGED <<virtqueue, notify, id, memory, driver, history, stopped>>
    BY <1>3 DEF Configure
  <2>2. HeadZero'
    BY <2>1 DEF RoundInv, HeadZero, memory
  <2>3. ~misfired => (Idle \/ Announced \/ GivenBack)'
    BY <1>3, <2>1 DEF RoundInv, Running, Beyond, Idle, Announced, GivenBack, memory,
       driver, history
  <2> QED
    BY <1>0, <1>3, <2>1, <2>2, <2>3 DEF RoundInv, Running, memory, history
<1>4. ASSUME Running, NEW r \in Request, Submit(r) PROVE RoundInv'
  <2>1. inFlight = {}
    <3>1. Cardinality(inFlight) < 1 /\ inFlight \subseteq Slot
      BY <1>0, <1>4 DEF Submit, TypeOK
    <3>2. IsFiniteSet(Slot)
      BY SlotFinite
    <3>3. IsFiniteSet(inFlight)
      BY <3>1, <3>2, FS_Subset
    <3>4. Cardinality(inFlight) = 0
      BY <3>1, <3>3, FS_CardinalityType
    <3> QED
      BY <3>3, <3>4, FS_EmptySet
  <2>2. Min(Chain \ inFlight) = 0
    <3>1. Chain \ inFlight \in SUBSET Slot /\ 0 \in Chain \ inFlight
      BY <2>1
    <3>2. /\ Min(Chain \ inFlight) \in Chain \ inFlight
          /\ Min(Chain \ inFlight) <= 0
      BY <3>1, MinIs
    <3> QED
      BY <3>1, <3>2, SlotIs
  <2>3. /\ desc' = [desc EXCEPT ![0] = r]
        /\ ring' = [ring EXCEPT ![availIdx % QUEUE_SIZE] = 0]
        /\ inFlight' = inFlight \cup {0}
        /\ notify' = TRUE /\ made' = Append(made, r) /\ stale' = FALSE /\ config
        /\ UNCHANGED <<config, virtqueue, id, usedRing, usedIdx, seen, answers,
                       misfired, stopped>>
    BY <1>4, <2>2 DEF Submit
  <2>a. /\ ring \in [Slot -> Slot] /\ desc \in [Slot -> Request \cup {NoChain}]
        /\ availIdx % QUEUE_SIZE \in Slot
    BY <1>0, IndexIsNat, IndexRange DEF TypeOK
  <2>4. HeadZero'
    <3>1. HeadZero
      BY DEF RoundInv
    <3>2. usedRing' = usedRing /\ \A k \in Slot : ring'[k] = 0
      BY <2>3, <2>a, <3>1 DEF HeadZero
    <3> QED
      BY <3>1, <3>2 DEF HeadZero
  <2>5. Idle
    BY <1>4, <2>1 DEF RoundInv, Running, Beyond, Announced, GivenBack
  <2>6. Len(made') = Len(made) + 1 /\ made'[Len(made')] = r
    BY <1>a, <1>4, <2>3, AppendProperties
  <2>7. desc'[0] = r
    BY <1>a, <2>3, <2>a
  <2>8. Announced'
    BY <2>1, <2>3, <2>5, <2>6, <2>7 DEF Announced, Idle
  <2> QED
    BY <1>0, <1>4, <2>3, <2>4, <2>8 DEF RoundInv, Running
<1>5. CASE Running /\ Collect
  <2>1. /\ seen # usedIdx
        /\ inFlight' = inFlight \ {usedRing[seen % QUEUE_SIZE]}
        /\ seen' = (seen + 1) % IndexMod
        /\ UNCHANGED <<virtqueue, notify, id, memory, history, stopped>>
    BY <1>5 DEF Collect
  <2>2. GivenBack
    BY <1>5, <2>1 DEF RoundInv, Running, Beyond, Idle, Announced
  <2>3. usedRing[seen % QUEUE_SIZE] = 0
    BY <1>0, IndexIsNat, IndexRange DEF RoundInv, HeadZero, TypeOK
  <2>4. Idle'
    BY <2>1, <2>2, <2>3 DEF GivenBack, Idle, memory, history
  <2>5. HeadZero'
    BY <2>1 DEF RoundInv, HeadZero, memory
  <2> QED
    BY <1>0, <1>5, <2>1, <2>4, <2>5 DEF RoundInv, Running, memory, history
<1>6. CASE Running /\ DiskAccess
  <2>1. /\ notify /\ notify' = FALSE /\ misfired' = (misfired \/ stale)
        /\ UNCHANGED <<config, virtqueue, desc, ring, seen, inFlight, made>>
    BY <1>6 DEF DiskAccess, IsInterrupting
  <2>2. CASE stale
    <3>1. HeadZero'
      <4>1. HeadIndex = 0
        BY <1>0, HeadFound DEF RoundInv
      <4>2. UNCHANGED usedRing \/ PutUsed(0)
        BY <1>6, <4>1 DEF DiskAccess, Panic
      <4> QED
        BY <1>0, <2>1, <4>2 DEF RoundInv, HeadZero, PutUsed, TypeOK
    <3> QED
      BY <1>0, <2>1, <2>2, <3>1 DEF RoundInv
  <2>3. CASE ~stale /\ made[Len(made)].sector \in Image
    <3>1. Announced
      BY <1>6, <2>1, <2>3 DEF RoundInv, Running, Beyond, Idle, GivenBack
    <3>2. /\ CarryOut(made[Len(made)]) /\ PutUsed(0) /\ stopped' = stopped
      BY <1>0, <1>6, <2>3, <3>1, AccessAnswers DEF RoundInv
    <3>3. Len(answers') = Len(answers) + 1
      <4>1. \E v : answers' = Append(answers, v)
        BY <3>2 DEF CarryOut
      <4>2. \A v : Len(Append(answers, v)) = Len(answers) + 1
        BY <1>a
      <4> QED
        BY <4>1, <4>2
    <3>4. id' = id + 1 /\ usedIdx' = (id + 1) % IndexMod
      BY <3>2 DEF PutUsed
    <3>5. usedIdx = id % IndexMod /\ usedIdx = seen
      BY <1>6, <3>1 DEF RoundInv, Running, Announced
    <3>6. usedIdx' = (seen + 1) % IndexMod
      <4>1. IndexMod \in Nat \ {0}
        BY IndexModIs
      <4>2. ((id % IndexMod) + 1) % IndexMod = (id + 1) % IndexMod
        BY <1>a, <4>1, NextIndex
      <4> QED
        BY <3>4, <3>5, <4>2
    <3>7. GivenBack'
      BY <1>a, <2>1, <3>1, <3>3, <3>6 DEF Announced, GivenBack
    <3>8. HeadZero'
      <4>1. HeadZero /\ usedRing \in [Slot -> Slot]
        BY <1>0 DEF RoundInv, TypeOK
      <4>2. usedRing' = [usedRing EXCEPT ![id % QUEUE_SIZE] = 0]
        BY <3>2 DEF PutUsed
      <4>3. \A k \in Slot : usedRing'[k] = 0
        BY <4>1, <4>2 DEF HeadZero
      <4> QED
        BY <2>1, <4>1, <4>3 DEF HeadZero
    <3>9. virtqueue' = "none" /\ stopped' # "disk access failed"
      BY <1>6, <2>1, <3>2 DEF RoundInv, Running
    <3> QED
      BY <1>0, <1>6, <3>2, <3>4, <3>7, <3>8, <3>9 DEF RoundInv, Running
  <2>4. CASE ~stale /\ made[Len(made)].sector \notin Image
    <3>1. Announced
      BY <1>6, <2>1, <2>4 DEF RoundInv, Running, Beyond, Idle, GivenBack
    <3>2. Panic("sector beyond the image")
      BY <1>0, <1>6, <2>4, <3>1, AccessAnswers DEF RoundInv
    <3>3. Beyond'
      BY <1>a, <2>1, <2>4, <3>1, <3>2 DEF Announced, Beyond, Panic
    <3>4. HeadZero' /\ virtqueue' = "none" /\ usedIdx' = id' % IndexMod
      BY <1>6, <2>1, <3>2 DEF RoundInv, Running, HeadZero, Panic
    <3>5. stopped' # "disk access failed"
      BY <3>2 DEF Panic
    <3> QED
      BY <1>0, <3>3, <3>4, <3>5 DEF RoundInv
  <2> QED
    BY <1>0, <2>2, <2>3, <2>4 DEF TypeOK
<1>7. CASE UNCHANGED vars
  BY <1>0, <1>7 DEF RoundInv, HeadZero, Beyond, Idle, Announced, GivenBack, vars,
     registers, memory, driver, history
<1> QED
  BY <1>1, <1>2, <1>3, <1>4, <1>5, <1>6, <1>7 DEF Next

LEMMA RoundCorrect ==
  ASSUME MaxInFlight = 1, 0 \in Chain
  PROVE  Spec => [](RoundInv /\ Answered)
<1>1. Init => RoundInv /\ Answered
  BY RoundInit, AnsweredInit
<1>2. RoundInv /\ Answered /\ [Next]_vars => (RoundInv /\ Answered)'
  <2>1. RoundInv /\ Answered /\ [Next]_vars => RoundInv'
    BY RoundStep
  <2>2. RoundInv /\ Answered /\ [Next]_vars => Answered'
    BY AnsweredStep DEF RoundInv
  <2> QED
    BY <2>1, <2>2
<1> QED
  BY <1>1, <1>2, PTL DEF Spec

(***************************************************************************)
(* What the driver has not looked at in the used ring is at most one       *)
(* element, and it is the head in flight.                                  *)
(***************************************************************************)
LEMMA RoundUsed == RoundInv => UsedInFlight
<1> SUFFICES ASSUME RoundInv, ~misfired PROVE
      LET new == {n \in 0..(IndexMod - 1) : n < (usedIdx - seen) % IndexMod}
          at(n) == usedRing[(seen + n) % QUEUE_SIZE]
      IN  /\ \A n \in new : at(n) \in inFlight
          /\ \A m, n \in new : at(m) = at(n) => m = n
  BY DEF UsedInFlight
<1> DEFINE new == {n \in 0..(IndexMod - 1) : n < (usedIdx - seen) % IndexMod}
<1>1. seen \in 0..(IndexMod - 1) /\ seen \in Nat
  BY IndexIsNat DEF RoundInv, TypeOK
<1>2. CASE usedIdx = seen
  <2>1. (usedIdx - seen) % IndexMod = 0
    BY <1>1, <1>2, IndexModIs
  <2>2. new = {}
    BY <2>1
  <2> QED
    BY <2>2
<1>3. CASE GivenBack
  <2>1. (usedIdx - seen) % IndexMod = 1
    BY <1>1, <1>3, IndexModIs, OneBehind DEF GivenBack
  <2>2. \A n \in new : n = 0
    BY <2>1
  <2>3. usedRing[seen % QUEUE_SIZE] = 0
    BY <1>1, IndexRange DEF RoundInv, HeadZero
  <2>4. inFlight = {0} /\ seen + 0 = seen
    BY <1>1, <1>3 DEF GivenBack
  <2> HIDE DEF new
  <2>5. \A n \in new : usedRing[(seen + n) % QUEUE_SIZE] \in inFlight
    BY <2>2, <2>3, <2>4
  <2> QED
    BY <2>2, <2>5 DEF new
<1> QED
  BY <1>2, <1>3 DEF RoundInv, Beyond, Idle, Announced

(***************************************************************************)
(* A driver with one request in flight gets it back once, and nothing      *)
(* else: across the wrap of the ring and of the halfword indices, and      *)
(* after a reset that gave a request up.                                   *)
(***************************************************************************)
THEOREM UsedCorrect ==
  ASSUME MaxInFlight = 1, 0 \in Chain
  PROVE  Spec => []UsedInFlight
<1>1. RoundInv => UsedInFlight
  BY RoundUsed
<1>2. Spec => [](RoundInv /\ Answered)
  BY RoundCorrect
<1> QED
  BY <1>1, <1>2, PTL

(***************************************************************************)
(* For such a driver no access fails, unless it answers a notify of before *)
(* a reset or the driver asked for a sector the image does not have: the   *)
(* address is computed at each access, and the odd places of the available *)
(* ring, read across two elements, hold 0 as the others do.                *)
(***************************************************************************)
THEOREM AccessCorrect ==
  ASSUME MaxInFlight = 1, 0 \in Chain
  PROVE  Spec => []AccessSucceeds
<1>1. RoundInv => AccessSucceeds
  BY DEF RoundInv, Beyond, AccessSucceeds
<1>2. Spec => [](RoundInv /\ Answered)
  BY RoundCorrect
<1> QED
  BY <1>1, <1>2, PTL

-----------------------------------------------------------------------------
(* Every step of the device is one of DiskPort, or none.                   *)

LEMMA PortStep ==
  ASSUME MaxInFlight = 1, 0 \in Chain, RoundInv, Answered, [Next]_vars
  PROVE  [misfired' \/ Port!Next]_(Port!portVars)
<1>0. TypeOK
  BY DEF RoundInv
<1> USE DEF Port!portVars
<1>1. CASE Running /\ Reset
  <2>1. Port!Forget
    BY <1>1 DEF Reset, Port!Forget
  <2> QED
    BY <2>1 DEF Port!Next
<1>2. CASE DriverOk \/ GiveUp \/ Configure \/ Collect
  BY <1>2 DEF DriverOk, GiveUp, Configure, Collect, history
<1>3. ASSUME NEW r \in Request, Submit(r)
      PROVE  [misfired' \/ Port!Next]_(Port!portVars)
  <2>1. Port!Make(r) /\ r \in Port!Request
    BY <1>3 DEF Submit, Port!Make, Request, Port!Request
  <2> QED
    BY <2>1 DEF Port!Next
<1>4. CASE Running /\ DiskAccess
  <2>1. notify /\ misfired' = (misfired \/ stale) /\ made' = made
    BY <1>4 DEF DiskAccess, IsInterrupting
  <2>2. CASE stale
    BY <2>1, <2>2
  <2>3. CASE ~stale
    <3>1. Announced
      BY <1>4, <2>1, <2>3 DEF RoundInv, Running, Beyond, Idle, GivenBack
    <3>2. /\ Len(answers) \in Nat /\ Len(made) = Len(answers) + 1
      BY <1>0, <3>1, LenProperties DEF TypeOK, Announced
    <3>3. CASE made[Len(made)].sector \in Image
      <4>1. CarryOut(made[Len(made)])
        BY <1>0, <1>4, <3>1, <3>3, AccessAnswers DEF RoundInv
      <4>2. Port!CarryNext
        BY <2>1, <3>2, <3>3, <4>1 DEF CarryOut, Port!CarryNext, Port!Carry
      <4> QED
        BY <4>2 DEF Port!Next
    <3>4. CASE made[Len(made)].sector \notin Image
      <4>1. Panic("sector beyond the image")
        BY <1>0, <1>4, <3>1, <3>4, AccessAnswers DEF RoundInv
      <4> QED
        BY <2>1, <4>1 DEF Panic
    <3> QED
      BY <3>3, <3>4
  <2> QED
    BY <2>2, <2>3
<1>5. CASE UNCHANGED vars
  BY <1>5 DEF vars, history
<1> QED
  BY <1>1, <1>2, <1>3, <1>4, <1>5 DEF Next

(***************************************************************************)
(* For a driver with one request in flight the device implements the disk  *)
(* of DiskPort, up to an access that answers a notify of before a reset.   *)
(***************************************************************************)
THEOREM ImplementsPort ==
  ASSUME MaxInFlight = 1, 0 \in Chain
  PROVE  Spec => PortSpec
<1>1. Init => Port!Init
  BY DEF Init, Port!Init
<1>2. RoundInv /\ Answered /\ [Next]_vars
        => [misfired' \/ Port!Next]_(Port!portVars)
  BY PortStep
<1>3. Spec => [](RoundInv /\ Answered)
  BY RoundCorrect
<1> QED
  BY <1>1, <1>2, <1>3, PTL DEF Spec, PortSpec

-----------------------------------------------------------------------------
(* What the disk hands over, for any driver.                               *)

\* Of the first n requests of rs, the last one for sector s transferred v;
\* or none was for s, and v is what a sector has at the start.
Latest(rs, vs, s, n, v) ==
  \/ v = Blank /\ \A m \in 1..n : rs[m].sector # s
  \/ \E m \in 1..n :
       /\ rs[m].sector = s /\ vs[m] = v
       /\ \A k \in (m + 1)..n : rs[k].sector # s

\* A request that writes transfers its own value, and one that reads what
\* the last request for its sector transferred before it.
Transfers(rs, vs, n) ==
  IF rs[n].op = "out" THEN vs[n] = rs[n].value
  ELSE Latest(rs, vs, rs[n].sector, n - 1, vs[n])

\* Every request carried out transferred what it should have.
TransfersLatest == \A n \in 1..Len(answers) : Transfers(carried, answers, n)

\* The image holds what the requests so far left in it.
ImageLatest ==
  \A s \in Image : Latest(carried, answers, s, Len(answers), sectors[s])

DataInv ==
  /\ TypeOK
  /\ Answered
  /\ Len(carried) = Len(answers)
  /\ TransfersLatest
  /\ ImageLatest

LEMMA DataInit == Init => DataInv
<1> SUFFICES ASSUME Init PROVE DataInv
  OBVIOUS
<1>1. TypeOK /\ Answered
  BY TypeOKInit, AnsweredInit
<1>2. carried = << >> /\ answers = << >> /\ sectors = [s \in Image |-> Blank]
  BY DEF Init
<1>3. Len(carried) = 0 /\ Len(answers) = 0
  BY <1>2
<1>4. TransfersLatest
  BY <1>3 DEF TransfersLatest
<1>5. ImageLatest
  BY <1>2, <1>3 DEF ImageLatest, Latest
<1> QED
  BY <1>1, <1>3, <1>4, <1>5 DEF DataInv

\* A longer history says the same of its beginning.
LEMMA LatestKept ==
  ASSUME NEW rs, NEW vs, NEW rs2, NEW vs2, NEW s, NEW v, NEW n \in Nat,
         \A m \in 1..n : rs2[m] = rs[m] /\ vs2[m] = vs[m],
         Latest(rs, vs, s, n, v)
  PROVE  Latest(rs2, vs2, s, n, v)
<1>1. CASE v = Blank /\ \A m \in 1..n : rs[m].sector # s
  BY <1>1 DEF Latest
<1>2. ASSUME NEW m \in 1..n,
             rs[m].sector = s, vs[m] = v,
             \A k \in (m + 1)..n : rs[k].sector # s
      PROVE  Latest(rs2, vs2, s, n, v)
  <2>1. \A k \in (m + 1)..n : k \in 1..n
    OBVIOUS
  <2>2. /\ rs2[m].sector = s /\ vs2[m] = v
        /\ \A k \in (m + 1)..n : rs2[k].sector # s
    BY <1>2, <2>1
  <2> QED
    BY <2>2 DEF Latest
<1> QED
  BY <1>1, <1>2 DEF Latest

\* One more request for another sector leaves the latest for this one.
LEMMA LatestElsewhere ==
  ASSUME NEW rs, NEW vs, NEW s, NEW v, NEW n \in Nat,
         Latest(rs, vs, s, n, v), rs[n + 1].sector # s
  PROVE  Latest(rs, vs, s, n + 1, v)
<1>0. \A k \in 1..(n + 1) : k \in 1..n \/ k = n + 1
  OBVIOUS
<1>1. CASE v = Blank /\ \A m \in 1..n : rs[m].sector # s
  BY <1>0, <1>1 DEF Latest
<1>2. ASSUME NEW m \in 1..n,
             rs[m].sector = s, vs[m] = v,
             \A k \in (m + 1)..n : rs[k].sector # s
      PROVE  Latest(rs, vs, s, n + 1, v)
  <2>1. \A k \in (m + 1)..(n + 1) : k \in (m + 1)..n \/ k = n + 1
    OBVIOUS
  <2>2. m \in 1..(n + 1) /\ \A k \in (m + 1)..(n + 1) : rs[k].sector # s
    BY <1>2, <2>1
  <2> QED
    BY <1>2, <2>2 DEF Latest
<1> QED
  BY <1>1, <1>2 DEF Latest

LEMMA DataCarried ==
  ASSUME DataInv, NEW r \in Request, r.sector \in Image, CarryOut(r)
  PROVE  /\ Len(carried') = Len(answers')
         /\ TransfersLatest'
         /\ ImageLatest'
<1> DEFINE n == Len(answers)
<1>1. /\ n \in Nat /\ Len(carried) = n
      /\ carried \in Seq(Request) /\ answers \in Seq(Value \cup {Blank})
      /\ sectors \in [Image -> Value \cup {Blank}]
  BY LenProperties DEF DataInv, TypeOK
<1>2. /\ carried' = Append(carried, r)
      /\ answers' = Append(answers, sectors'[r.sector])
      /\ sectors' = IF r.op = "out"
                    THEN [sectors EXCEPT ![r.sector] = r.value]
                    ELSE sectors
  BY DEF CarryOut
<1>3. r.sector \in Image
  OBVIOUS
<1>4. /\ Len(carried') = n + 1 /\ Len(answers') = n + 1
      /\ carried'[n + 1] = r /\ answers'[n + 1] = sectors'[r.sector]
      /\ \A m \in 1..n : carried'[m] = carried[m] /\ answers'[m] = answers[m]
  BY <1>1, <1>2
<1>5. /\ r.op = "out" => sectors'[r.sector] = r.value
      /\ r.op # "out" => sectors'[r.sector] = sectors[r.sector]
      /\ \A s \in Image : s # r.sector => sectors'[s] = sectors[s]
  BY <1>1, <1>2, <1>3
<1>6. \A m \in 1..n : Transfers(carried, answers, m)
  BY DEF DataInv, TransfersLatest
<1>7. \A s \in Image : Latest(carried, answers, s, n, sectors[s])
  BY DEF DataInv, ImageLatest
<1> HIDE DEF n
\* Before the new request nothing changed.
<1>8. ASSUME NEW s, NEW v, NEW m \in 0..n, Latest(carried, answers, s, m, v)
      PROVE  Latest(carried', answers', s, m, v)
  <2>1. m \in Nat
    BY <1>1
  <2>2. \A k \in 1..m : carried'[k] = carried[k] /\ answers'[k] = answers[k]
    BY <1>1, <1>4
  <2> QED
    BY <1>8, <2>1, <2>2, LatestKept
<1>9. ASSUME NEW m \in 1..(n + 1) PROVE Transfers(carried', answers', m)
  <2>1. CASE m \in 1..n
    <3>1. Transfers(carried, answers, m)
      BY <1>6, <2>1
    <3>2. m - 1 \in 0..n
      BY <1>1, <2>1
    <3>3. carried'[m] = carried[m] /\ answers'[m] = answers[m]
      BY <1>4, <2>1
    <3>4. CASE carried[m].op = "out"
      BY <3>1, <3>3, <3>4 DEF Transfers
    <3>5. CASE carried[m].op # "out"
      <4>1. Latest(carried, answers, carried[m].sector, m - 1, answers[m])
        BY <3>1, <3>5 DEF Transfers
      <4>2. Latest(carried', answers', carried[m].sector, m - 1, answers[m])
        BY <1>8, <3>2, <4>1
      <4> QED
        BY <3>3, <3>5, <4>2 DEF Transfers
    <3> QED
      BY <3>4, <3>5
  <2>2. CASE m = n + 1
    <3>1. CASE r.op = "out"
      BY <1>4, <1>5, <2>2, <3>1 DEF Transfers
    <3>2. CASE r.op # "out"
      <4>1. Latest(carried', answers', r.sector, n, sectors[r.sector])
        BY <1>1, <1>3, <1>7, <1>8
      <4>2. m - 1 = n
        BY <1>1, <2>2
      <4> QED
        BY <1>4, <1>5, <2>2, <3>2, <4>1, <4>2 DEF Transfers
    <3> QED
      BY <3>1, <3>2
  <2> QED
    BY <1>1, <2>1, <2>2
<1>10. ASSUME NEW s \in Image
       PROVE  Latest(carried', answers', s, n + 1, sectors'[s])
  <2>1. CASE s = r.sector
    <3>1. n + 1 \in 1..(n + 1) /\ (n + 1 + 1)..(n + 1) = {}
      BY <1>1
    <3> QED
      BY <1>4, <2>1, <3>1 DEF Latest
  <2>2. CASE s # r.sector
    <3>1. Latest(carried', answers', s, n, sectors'[s])
      BY <1>1, <1>5, <1>7, <1>8, <2>2
    <3> QED
      BY <1>1, <1>4, <2>2, <3>1, LatestElsewhere
  <2> QED
    BY <2>1, <2>2
<1> QED
  BY <1>4, <1>9, <1>10 DEF TransfersLatest, ImageLatest

LEMMA DataStep == DataInv /\ [Next]_vars => DataInv'
<1> SUFFICES ASSUME DataInv, [Next]_vars PROVE DataInv'
  OBVIOUS
<1>1. TypeOK' /\ Answered'
  BY TypeOKStep, AnsweredStep DEF DataInv
<1>2. CASE UNCHANGED <<sectors, carried, answers>>
  BY <1>1, <1>2 DEF DataInv, TransfersLatest, ImageLatest
<1>3. CASE DiskAccess
  <2>1. ASSUME NEW r \in Request, r.sector \in Image, CarryOut(r)
        PROVE  DataInv'
    BY <1>1, <2>1, DataCarried DEF DataInv
  <2>2. ChainAt(HeadIndex) \in Request \cup {NoChain}
    BY DEF ChainAt, DataInv, TypeOK
  <2>3. \/ /\ CarryOut(ChainAt(HeadIndex)) /\ ChainAt(HeadIndex) # NoChain
           /\ ChainAt(HeadIndex).sector \in Image
        \/ UNCHANGED <<sectors, carried, answers>>
    BY <1>3, Zenon DEF DiskAccess, Panic
  <2> QED
    BY <1>2, <2>1, <2>2, <2>3
<1>4. CASE Reset \/ DriverOk \/ GiveUp \/ Configure \/ Collect
  BY <1>2, <1>4 DEF Reset, DriverOk, GiveUp, Configure, Collect, history
<1>5. CASE \E r \in Request : Submit(r)
  BY <1>2, <1>5 DEF Submit
<1>6. CASE UNCHANGED vars
  BY <1>2, <1>6 DEF vars, history
<1> QED
  BY <1>3, <1>4, <1>5, <1>6 DEF Next

(***************************************************************************)
(* Whatever chains the driver uses, however many requests it has in flight *)
(* and however often it resets the device, up to and after an access that  *)
(* misfires: a write transfers the value it names, a read the value that   *)
(* the last request for its sector transferred, and the image is never     *)
(* anything else.                                                          *)
(***************************************************************************)
THEOREM DiskRemembers == Spec => [](TransfersLatest /\ ImageLatest)
<1>1. DataInv => TransfersLatest /\ ImageLatest
  BY DEF DataInv
<1> QED
  BY <1>1, DataInit, DataStep, PTL DEF Spec
=============================================================================
