----------------------------- MODULE PlicProofs -----------------------------
(***************************************************************************)
(* Proofs about the PLIC for every set of sources below 32 and every set   *)
(* of completed values below 128.                                          *)
(***************************************************************************)
EXTENDS Plic, TLAPS

\* The layout of the pending array gives no two ids the same bit: ids in the
\* same word differ by less than 4, so their bits differ too.
LEMMA BitInjective ==
  ASSUME NEW a \in 0..127, NEW b \in 0..127, PendingBit(a) = PendingBit(b)
  PROVE  a = b
<1>1. a \div 4 = b \div 4 /\ a % 32 = b % 32
  BY DEF PendingBit, WORD_SIZE
<1> QED
  BY <1>1

\* The bit of an id is inside the array.
LEMMA BitInArray ==
  ASSUME NEW a \in 0..127
  PROVE  PendingBit(a) \in Word \X Word
<1>1. a \div 4 \in 0..31 /\ a % 32 \in 0..31
  OBVIOUS
<1> QED
  BY <1>1 DEF PendingBit, WORD_SIZE, Word

\* Every id of the model is below 128, and none of the sources is 0.
LEMMA Ids ==
  /\ \A s \in Source : s \in 0..127 /\ s \in Nat \ {0}
  /\ \A v \in CompleteValue : v \in 0..127
  BY PlicAssumption DEF PlicAssumption

-----------------------------------------------------------------------------

LEMMA PlicInitTypeOK == PlicInit => PlicTypeOK
  BY PlicAssumption
  DEF PlicAssumption, PlicInit, PlicTypeOK, Context

LEMMA UpdateClaimType ==
  ASSUME PlicTypeOK, NEW irq \in {0} \cup Source
  PROVE  /\ UpdateClaim(irq) \in [Context -> {0} \cup Source]
         /\ UpdateClaim(irq)[0] = 0
         /\ UpdateClaim(irq)[1] \in {claim[1], irq}
         /\ irq = 0 => UpdateClaim(irq)[1] = 0
  BY DEF PlicTypeOK, UpdateClaim, Context

LEMMA PlicTypeOKStep == ASSUME PlicTypeOK, [PlicNext]_plicVars PROVE PlicTypeOK'
<1> USE DEF settings, history
<1>1. ASSUME NEW s \in Source, UpdatePending(s) PROVE PlicTypeOK'
  BY <1>1, UpdateClaimType, BitInArray, Ids DEF UpdatePending, PlicTypeOK
<1>2. ASSUME NEW c \in Context, NEW v \in CompleteValue, Complete(c, v)
      PROVE  PlicTypeOK'
  BY <1>2, UpdateClaimType DEF Complete, ClearBit, PlicTypeOK
<1>3. ASSUME NEW c \in Context, NEW ids \in SUBSET Source, WriteEnable(c, ids)
      PROVE  PlicTypeOK'
  BY <1>3 DEF WriteEnable, PlicTypeOK
<1>4. ASSUME NEW s \in Source, NEW p \in PriorityValue, WritePriority(s, p)
      PROVE  PlicTypeOK'
  BY <1>4 DEF WritePriority, PlicTypeOK
<1>5. ASSUME NEW c \in Context, NEW p \in PriorityValue, WriteThreshold(c, p)
      PROVE  PlicTypeOK'
  BY <1>5 DEF WriteThreshold, PlicTypeOK
<1>6. ASSUME NEW w \in PendingWord, NEW bits \in {{}, {1}},
             WritePending(w, bits)
      PROVE  PlicTypeOK'
  BY <1>6, PlicAssumption DEF WritePending, PlicTypeOK, PlicAssumption, Word
<1>7. CASE UNCHANGED plicVars
  BY <1>7 DEF plicVars, PlicTypeOK
<1> QED
  BY <1>1, <1>2, <1>3, <1>4, <1>5, <1>6, <1>7, Zenon DEF PlicNext

(***************************************************************************)
(* The registers of the PLIC keep their types, and the claim register of   *)
(* context 0 stays 0, whatever the guest stores.                           *)
(***************************************************************************)
THEOREM PlicTypeCorrect == PlicSpec => []PlicTypeOK
  BY PlicInitTypeOK, PlicTypeOKStep, PTL DEF PlicSpec

LEMMA ClaimStep ==
  ASSUME PlicTypeOK, ClaimOutstanding, [PlicNext]_plicVars
  PROVE  ClaimOutstanding'
<1> USE DEF settings, history
<1>1. ASSUME NEW s \in Source, UpdatePending(s) PROVE ClaimOutstanding'
  BY <1>1, UpdateClaimType DEF UpdatePending, ClaimOutstanding
<1>2. ASSUME NEW c \in Context, NEW v \in CompleteValue, Complete(c, v)
      PROVE  ClaimOutstanding'
  BY <1>2, UpdateClaimType DEF Complete, ClaimOutstanding
<1>3. CASE UNCHANGED <<claim, outstanding>>
  BY <1>3 DEF ClaimOutstanding
<1> QED
  BY <1>1, <1>2, <1>3, Zenon
  DEF PlicNext, WriteEnable, WritePriority, WriteThreshold,
      WritePending, plicVars

(***************************************************************************)
(* No handler is told to claim an interrupt that was completed since it    *)
(* was raised, even by a guest that stores to the pending array.           *)
(***************************************************************************)
THEOREM ClaimNotStale == PlicSpec => []ClaimOutstanding
<1>1. PlicInit => PlicTypeOK /\ ClaimOutstanding
  BY PlicInitTypeOK DEF PlicInit, ClaimOutstanding, Context
<1>2. PlicTypeOK /\ ClaimOutstanding /\ [PlicNext]_plicVars
        => (PlicTypeOK /\ ClaimOutstanding)'
  BY PlicTypeOKStep, ClaimStep
<1> QED
  BY <1>1, <1>2, PTL DEF PlicSpec

LEMMA PendingStep ==
  ASSUME PlicTypeOK, PendingExact, [PlicNext]_plicVars
  PROVE  PendingExact'
<1> USE DEF settings, history
<1>1. ASSUME NEW s \in Source, UpdatePending(s) PROVE PendingExact'
  BY <1>1 DEF UpdatePending, PendingExact, Untouched
<1>2. ASSUME NEW c \in Context, NEW v \in CompleteValue, Complete(c, v)
      PROVE  PendingExact'
  <2>1. \A s \in outstanding : PendingBit(s) = PendingBit(v) => s = v
    BY Ids, BitInjective DEF PlicTypeOK
  <2> QED
    BY <1>2, <2>1 DEF Complete, ClearBit, PendingExact, Untouched
<1>3. ASSUME NEW w \in PendingWord, NEW bits \in {{}, {1}},
             WritePending(w, bits)
      PROVE  PendingExact'
  BY <1>3 DEF WritePending, PendingExact, Untouched
<1>4. CASE UNCHANGED <<pending, outstanding, overwritten>>
  BY <1>4 DEF PendingExact, Untouched
<1> QED
  BY <1>1, <1>2, <1>3, <1>4, Zenon
  DEF PlicNext, WriteEnable, WritePriority, WriteThreshold, plicVars

(***************************************************************************)
(* Where the guest leaves the pending array alone, the array is exactly    *)
(* the set of sources raised and not completed: its layout is unlike the   *)
(* documented one, but it confuses no two sources.                         *)
(***************************************************************************)
THEOREM PendingFaithful == PlicSpec => []PendingExact
<1>1. PlicInit => PlicTypeOK /\ PendingExact
  BY PlicInitTypeOK DEF PlicInit, PendingExact, Untouched
<1>2. PlicTypeOK /\ PendingExact /\ [PlicNext]_plicVars
        => (PlicTypeOK /\ PendingExact)'
  BY PlicTypeOKStep, PendingStep
<1> QED
  BY <1>1, <1>2, PTL DEF PlicSpec
=============================================================================
