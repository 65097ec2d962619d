------------------------------ MODULE MCFetch ------------------------------
(***************************************************************************)
(* Code for TLC.  An instruction is written at its first halfword; what a  *)
(* 32-bit instruction has in its second halfword is written as the         *)
(* instruction a jump into it would find.                                  *)
(***************************************************************************)
EXTENDS FetchProps, TLC

C(op, tgt) == [long |-> FALSE, op |-> op, tgt |-> tgt]
L(op, tgt) == [long |-> TRUE, op |-> op, tgt |-> tgt]
NopC == C("PLAIN", {})
NopL == L("PLAIN", {})

-----------------------------------------------------------------------------
(* Two programs over four words, the last of which faults.  The first has a   *)
(* 16-bit branch in a lower half to an upper half, and behind it a plain      *)
(* 32-bit instruction and a jump that both span words.  The second has a      *)
(* return and a jump in one word and an instruction of which only the upper   *)
(* half faults.  FENCE.I replaces one by the other; SFENCE.VMA maps a copy of *)
(* the second.                                                                *)

FirstCode ==
  0 :> C("BRANCH", {5}) @@ 1 :> NopL @@ 2 :> NopC @@ 3 :> L("JAL", {0}) @@
  4 :> NopC @@ 5 :> NopC @@ 6 :> NopC @@ 7 :> NopC
SecondCode ==
  0 :> NopL @@ 1 :> NopC @@ 2 :> C("RET", {3}) @@ 3 :> C("JAL", {5}) @@
  4 :> NopC @@ 5 :> NopL @@ 6 :> NopC @@ 7 :> NopC

TwoPrograms == 0 :> FirstCode @@ 1 :> SecondCode @@ 2 :> SecondCode
FenceSwaps == 0 :> {1} @@ 1 :> {0} @@ 2 :> {0}
SfenceCopies == 0 :> {} @@ 1 :> {2} @@ 2 :> {1}
Resume == 0 :> {3} @@ 1 :> {0} @@ 2 :> {0}

\* Where their instructions start: the theorems about the path apply to them.
TwoStarts == 0 :> {0, 1, 3, 5, 6, 7} @@ 1 :> {0, 2, 3, 4, 5, 7} @@ 2 :> {0, 2, 3, 4, 5, 7}

ASSUME StartsAssumption == Code = TwoPrograms => Separate(TwoStarts)

-----------------------------------------------------------------------------
(* SFENCE.VMA maps other code at the same addresses: a branch with another    *)
(* target.  The predictor still knows the first one.                          *)

NoSuccessor == 0 :> {} @@ 1 :> {}
Remaps == 0 :> {1} @@ 1 :> {}
ResumeAtStart == 0 :> {0} @@ 1 :> {0}
BranchTo(t) ==
  0 :> C("BRANCH", {t}) @@ 1 :> NopC @@ 2 :> NopC @@ 3 :> NopC @@
  4 :> NopC @@ 5 :> NopC
TwoTargets == 0 :> BranchTo(2) @@ 1 :> BranchTo(4)

-----------------------------------------------------------------------------
(* A jump to the upper half of a word that faults, where the data on the bus  *)
(* happen to look like the first half of a 32-bit instruction.                *)

JumpToFault ==
  0 :> (0 :> C("JAL", {3}) @@ 1 :> NopC @@ 2 :> NopC @@ 3 :> NopC @@
        4 :> NopC @@ 5 :> NopC)
OneVersion == 0 :> {}
ResumeNowhere == 0 :> {}

=============================================================================
