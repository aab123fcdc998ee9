------------------------------ MODULE DiskPort ------------------------------
(***************************************************************************)
(* What the disk promises its driver, without rings, indices or notifies:  *)
(* the requests are carried out once each, in the order in which they were *)
(* made, and a request that reads returns what its sector holds then; the  *)
(* driver may give up those that were not.                                 *)
(***************************************************************************)
EXTENDS Sequences, Naturals

CONSTANTS
  Sector,       \* the sectors a driver may ask for
  Image,        \* those of them the disk has
  Value,        \* what a sector may hold; the disk image has Blank
  Blank,
  MaxRequest    \* bound: requests made

\* "in" reads a sector, "out" writes a value to it.
Request ==
  [op : {"in"}, sector : Sector, value : {Blank}] \cup
  [op : {"out"}, sector : Sector, value : Value]

VARIABLES
  made,         \* the requests, in order
  answers,      \* the value each request carried out transferred
  sectors       \* the disk

portVars == <<made, answers, sectors>>

Init ==
  /\ made = << >>
  /\ answers = << >>
  /\ sectors = [s \in Image |-> Blank]

Make(r) ==
  /\ Len(made) < MaxRequest
  /\ made' = Append(made, r)
  /\ UNCHANGED <<answers, sectors>>

Carry(r) ==
  /\ sectors' = IF r.op = "out"
                THEN [sectors EXCEPT ![r.sector] = r.value]
                ELSE sectors
  /\ answers' = Append(answers, sectors'[r.sector])

\* A request for a sector the disk does not have is never answered, nor is
\* any after it.
CarryNext ==
  /\ Len(answers) < Len(made)
  /\ made[Len(answers) + 1].sector \in Image
  /\ Carry(made[Len(answers) + 1])
  /\ UNCHANGED made

\* The driver gives up the requests that were not carried out.
Forget ==
  /\ made' = SubSeq(made, 1, Len(answers))
  /\ UNCHANGED <<answers, sectors>>

Next == (\E r \in Request : Make(r)) \/ CarryNext \/ Forget

Spec == Init /\ [][Next]_portVars
=============================================================================
