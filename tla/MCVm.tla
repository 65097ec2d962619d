-------------------------------- MODULE MCVm --------------------------------
(***************************************************************************)
(* Code for TLC: the two files of the virtual-memory test environment, one *)
(* at a time; part says which one moves.  The supervisor has a shorter     *)
(* shift register; that the six bits of the code have the period it names  *)
(* is evaluated as it stands.                                              *)
(***************************************************************************)
EXTENDS Vm, Strings

SixBits == INSTANCE Vm WITH Bits <- 6, Touched <- {}

ASSUME SixBitsAssumption == \A entropy \in {1, 63} : SixBits!FramesDiffer(entropy)

\* Memories that hold one byte but for two places, one of them above 127.
SomeMemories ==
  {[a \in 0 .. 11 |-> IF a = i THEN 200 ELSE IF a = j THEN 0 ELSE 7] :
     i \in 0 .. 11, j \in {2, 7, 11}}

VARIABLE part

vars == <<vmVars, strVars, part>>

Init == VmBoot /\ StrIdle /\ part \in {"vm", "string"}

Next ==
  \/ part = "vm" /\ VmNext /\ UNCHANGED <<strVars, part>>
  \/ part = "string" /\ StrNext /\ UNCHANGED <<vmVars, part>>

FairSpec == Init /\ [][Next]_vars /\ VmFairness

=============================================================================
