-------------------------------- MODULE Plic --------------------------------
(***************************************************************************)
(* The platform-level interrupt controller (src/src/devices/plic.rs): the  *)
(* emulator loop raises a source with update_pending, the guest's interrupt*)
(* handlers claim it and complete it with clear_pending, and both may be   *)
(* in the middle of another source's round.                                *)
(*                                                                         *)
(* A register of 32 bits is the set of its bits that are 1.  Accesses that *)
(* are not a whole aligned word fault and change nothing; loads change     *)
(* nothing.  The actions of this module leave the rest of the machine to   *)
(* the modules that extend it.                                             *)
(***************************************************************************)
EXTENDS Naturals, FiniteSets

CONSTANTS
  Source,          \* the interrupt ids the devices raise
  CompleteValue,   \* the values a guest stores to a claim/complete register
  PriorityValue,   \* the values it stores to priorities and thresholds
  PendingWord      \* the words of the pending array it stores to

WORD_SIZE == 4
Word == 0..31          \* the words of the pending array, and the bits of one
Context == {0, 1}      \* 1 is the S-mode context

ASSUME PlicAssumption ==
  /\ Source \subseteq 1..31
  /\ Source \subseteq CompleteValue
  /\ CompleteValue \subseteq 0..127
  /\ PriorityValue \subseteq Nat
  /\ 0 \in PriorityValue
  /\ PendingWord \subseteq Word

VARIABLES
  pending,     \* the bits <<word, bit>> of the pending array that are 1
  enable,      \* the pairs <<context, id>> whose enable bit is 1
  priority,    \* of each source
  threshold,   \* of each context
  claim,       \* the claim register of each context
  outstanding, \* the sources raised since they were last completed
  overwritten  \* the words of the pending array the guest stored to

settings == <<enable, priority, threshold>>
history == <<outstanding, overwritten>>
plicVars == <<pending, settings, claim, history>>

PlicInit ==
  /\ pending = {}
  /\ enable = {}
  /\ priority = [s \in Source |-> 0]
  /\ threshold = [c \in Context |-> 0]
  /\ claim = [c \in Context |-> 0]
  /\ outstanding = {}
  /\ overwritten = {}

-----------------------------------------------------------------------------
(* The three updates, as functions of the state they change.               *)

\* Faulty variant: the bit within the word is lost.
WordOnly(irq) == <<irq \div WORD_SIZE, 0>>

\* The word is irq / 4, where 4 is the size of a word in bytes, and the
\* bit is irq (modulo 32: the shift of a 32-bit word wraps).
PendingBit(irq) == <<irq \div WORD_SIZE, irq % 32>>

\* Faulty variant: every bit of the word goes.
ClearWord(bits, irq) == {b \in bits : b[1] # irq \div WORD_SIZE}

ClearBit(bits, irq) == bits \ {PendingBit(irq)}

IsEnable(context, irq) == <<context, irq>> \in enable

\* Faulty variant: a completion leaves the claim register as it is.
ClaimKept(irq) ==
  IF irq # 0 /\ IsEnable(1, irq) THEN [claim EXCEPT ![1] = irq] ELSE claim

\* Faulty variant: the register gets the index of the pending word.
ClaimWordIndex(irq) ==
  IF irq = 0 THEN [claim EXCEPT ![1] = 0]
  ELSE IF IsEnable(1, irq) THEN [claim EXCEPT ![1] = irq \div WORD_SIZE] ELSE claim

\* update_claim: the latest enabled source replaces whatever context 1 shows.
UpdateClaim(irq) ==
  IF IsEnable(1, irq) \/ irq = 0 THEN [claim EXCEPT ![1] = irq] ELSE claim

UpdatePending(irq) ==
  /\ pending' = pending \cup {PendingBit(irq)}
  /\ claim' = UpdateClaim(irq)
  /\ outstanding' = outstanding \cup {irq}
  /\ UNCHANGED <<settings, overwritten>>

-----------------------------------------------------------------------------
(* The guest's loads and stores.                                           *)

\* read, for the one register whose value steers a guest.
ReadClaim(context) == claim[context]

(***************************************************************************)
(* A store to the claim/complete register of either context.  Completing   *)
(* an id clears its pending bit and the claim register of context 1.  A    *)
(* value of 32 to 127 overflows the shift: a release build wraps it, a     *)
(* debug build stops there (as every build does above 127): no step.       *)
(***************************************************************************)
Complete(context, irq) ==
  /\ pending' = ClearBit(pending, irq)
  /\ claim' = UpdateClaim(0)
  /\ outstanding' = outstanding \ {irq}
  /\ UNCHANGED <<settings, overwritten>>

\* A store sets all the enable bits of a word at once.
WriteEnable(context, ids) ==
  /\ enable' = {e \in enable : e[1] # context} \cup ({context} \X ids)
  /\ UNCHANGED <<pending, priority, threshold, claim, history>>

WritePriority(s, p) ==
  /\ priority' = [priority EXCEPT ![s] = p]
  /\ UNCHANGED <<pending, enable, threshold, claim, history>>

WriteThreshold(context, p) ==
  /\ threshold' = [threshold EXCEPT ![context] = p]
  /\ UNCHANGED <<pending, enable, priority, claim, history>>

\* The pending array can be stored to like the rest: a word of any bits.
WritePending(word, bits) ==
  /\ pending' = {b \in pending : b[1] # word} \cup ({word} \X bits)
  /\ overwritten' = overwritten \cup {word}
  /\ UNCHANGED <<settings, claim, outstanding>>

-----------------------------------------------------------------------------
(* The controller by itself, with a guest that stores to every register.   *)

PlicNext ==
  \/ \E s \in Source : UpdatePending(s)
  \/ \E c \in Context, v \in CompleteValue : Complete(c, v)
  \/ \E c \in Context, ids \in SUBSET Source : WriteEnable(c, ids)
  \/ \E s \in Source, p \in PriorityValue : WritePriority(s, p)
  \/ \E c \in Context, p \in PriorityValue : WriteThreshold(c, p)
  \/ \E w \in PendingWord, bits \in {{}, {1}} : WritePending(w, bits)

PlicSpec == PlicInit /\ [][PlicNext]_plicVars

-----------------------------------------------------------------------------
(* Properties.                                                             *)

\* Every register holds a value of its type; context 0 is never claimed for.
PlicTypeOK ==
  /\ pending \subseteq Word \X Word
  /\ enable \subseteq Context \X Source
  /\ priority \in [Source -> PriorityValue]
  /\ threshold \in [Context -> PriorityValue]
  /\ claim \in [Context -> {0} \cup Source] /\ claim[0] = 0
  /\ outstanding \subseteq Source
  /\ overwritten \subseteq PendingWord

(***************************************************************************)
(* The words of the pending array that the guest did not store to tell     *)
(* exactly which sources were raised and not completed since, whatever the *)
(* order of raises and completions: the layout of the array gives no two   *)
(* ids the same bit, and completing one never clears or keeps another      *)
(* (update_pending, clear_pending).  The comment at plic.rs:77-78 has a    *)
(* claim clear the bit; in the code a claim is a load and changes nothing. *)
(***************************************************************************)
Untouched(bits) == {b \in bits : b[1] \notin overwritten}

PendingExact ==
  Untouched(pending) = Untouched({PendingBit(s) : s \in outstanding})

(***************************************************************************)
(* The guest is never told to claim an interrupt that it has completed     *)
(* since it was raised: update_claim(0) runs on every completion.          *)
(***************************************************************************)
ClaimOutstanding == claim[1] # 0 => claim[1] \in outstanding
=============================================================================
