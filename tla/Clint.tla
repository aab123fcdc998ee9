-------------------------------- MODULE Clint -------------------------------
(***************************************************************************)
(* The core-local interruptor (src/src/devices/clint.rs): the timer, its   *)
(* compare register and the software interrupt register of the one hart.   *)
(*                                                                         *)
(* mtime and mtimecmp are 64 bits wide and are reached through words at    *)
(* offsets 0 ("low") and 4 ("high").  WordBase stands for 2^32.  Accesses  *)
(* that are not a word fault and change nothing.                           *)
(*                                                                         *)
(* The method increment, which would advance mtime and post interrupts, is *)
(* called from nowhere, so the device changes by the guest's stores only.  *)
(***************************************************************************)
EXTENDS Naturals

CONSTANTS
  WordBase,    \* the number of values of a word
  Data         \* the words the guest stores

Half == {"low", "high"}
MSIP_BIT == 8    \* bit 3, of mip and, for main.rs, of the msip register too

ASSUME ClintAssumption ==
  /\ WordBase \in Nat \ {0, 1}
  /\ Data \subseteq 0..(WordBase - 1)

VARIABLES
  mtime,
  mtimecmp,
  msip

clintVars == <<mtime, mtimecmp, msip>>

ClintInit ==
  /\ mtime = 0
  /\ mtimecmp = 0
  /\ msip = 0

\* write: either half of the register replaces all of it.
StoreMtimecmp(h, d) ==
  /\ mtimecmp' = d
  /\ UNCHANGED <<mtime, msip>>

StoreMtime(h, d) ==
  /\ mtime' = d
  /\ UNCHANGED <<mtimecmp, msip>>

StoreMsip(d) ==
  /\ msip' = d
  /\ UNCHANGED <<mtime, mtimecmp>>

ClintStore ==
  \/ \E h \in Half, d \in Data : StoreMtimecmp(h, d) \/ StoreMtime(h, d)
  \/ \E d \in Data : StoreMsip(d)

\* read returns the low word, whichever half is addressed.
ReadWord(r) == r % WordBase

\* The timer shortcut of check_ints (main.rs:82-96): bit 3 of msip, though
\* its comment says that msip is 1.
TimerFires ==
  /\ ReadWord(mtime) >= ReadWord(mtimecmp)
  /\ (msip \div MSIP_BIT) % 2 = 1
=============================================================================
