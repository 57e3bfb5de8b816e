---------------------------- MODULE AtomicRegister ----------------------------
(***************************************************************************)
(* What a protocol file promises: a register that holds whole versions.  A *)
(* write replaces the version in one step; a read latches the version it   *)
(* finds when it opens the file and answers with it.                       *)
(***************************************************************************)
EXTENDS Naturals

CONSTANT Readers

VARIABLES reg,    \* the version in the file, 0 while there is no file
          latch,  \* per reader: the version it has opened, 0 if none
          out     \* per reader: the version it answered last, 0 if none

registerVars == <<reg, latch, out>>

RegisterInit ==
  /\ reg = 0
  /\ latch = [r \in Readers |-> 0]
  /\ out = [r \in Readers |-> 0]

\* A version replaces only older ones.
Replace ==
  /\ reg' \in Nat
  /\ reg' > reg
  /\ UNCHANGED <<latch, out>>

Latch(r) ==
  /\ latch' = [latch EXCEPT ![r] = reg]
  /\ UNCHANGED <<reg, out>>

Answer(r) ==
  /\ latch[r] # 0
  /\ out' = [out EXCEPT ![r] = latch[r]]
  /\ latch' = [latch EXCEPT ![r] = 0]
  /\ UNCHANGED reg

RegisterNext == Replace \/ \E r \in Readers : Latch(r) \/ Answer(r)

RegisterSpec == RegisterInit /\ [][RegisterNext]_registerVars
===============================================================================
