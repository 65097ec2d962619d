----------------------------- MODULE MCPipeline -----------------------------
(***************************************************************************)
(* Small programs for TLC.  Each is a loop that meets one group of the     *)
(* pipeline's hazards; its wrong paths and traps lead back into it.        *)
(***************************************************************************)
EXTENDS PipelineProps, FiniteSets, TLC

\* The four fields that matter of an instruction, and a branch or jump target.
I(op, rd, rs1, rs2, tgt) ==
  [op |-> op, rd |-> rd, rs1 |-> rs1, rs2 |-> rs2, tgt |-> tgt]

Plain(op, rd, rs1, rs2) == I(op, rd, rs1, rs2, 0)

ThreeRegs == 0..2
Bits == {0, 1}

\* Distinct enough that a stale operand changes the result.
MCResult(p, a, b) == (p + a + b) % 2
MCTaken(a, b) == a # b

\* The next address, wrapping to the first.
FallOf(prog) == [p \in DOMAIN prog |-> (p + 1) % Cardinality(DOMAIN prog)]

-----------------------------------------------------------------------------
(* Data and control hazards.  A multi-cycle result, a load, a branch and an *)
(* indirect jump each feed the next; address 6 is behind a jump, so its     *)
(* faulting fetch is only ever on a wrong path.                             *)

HazardProg ==
  0 :> Plain("MUL", 1, 2, 0) @@
  1 :> Plain("LOAD", 2, 1, 0) @@
  2 :> I("BRANCH", 0, 2, 1, 4) @@
  3 :> Plain("ALU", 1, 1, 2) @@
  4 :> Plain("JALR", 1, 2, 0) @@
  5 :> I("JAL", 0, 0, 0, 0) @@
  6 :> Plain("ALU", 2, 2, 2)
HazardAddr == 0..6
HazardFall == FallOf(HazardProg)
HazardJump(p, a) == IF a = 0 THEN 5 ELSE 3
HazardPredicted ==
  [p \in HazardAddr |->
     CASE HazardProg[p].op = "BRANCH" -> {4}
       [] HazardProg[p].op = "JAL" -> {0}
       [] HazardProg[p].op = "JALR" -> {3, 5}
       [] OTHER -> {}]

-----------------------------------------------------------------------------
(* Serialisation.  Interrupts are enabled at 1, may come anywhere up to 6,  *)
(* and are returned from by the handler at 7; the WFI may sleep.  The load   *)
(* may fault, so everything behind it is decoded on a wrong path as well.    *)

SystemProg ==
  0 :> Plain("ALU", 1, 0, 0) @@
  1 :> Plain("CSR", 2, 1, 0) @@
  2 :> Plain("LOAD", 2, 1, 0) @@
  3 :> Plain("WFI", 0, 0, 0) @@
  4 :> Plain("FENCEI", 0, 0, 0) @@
  5 :> Plain("SFENCE", 0, 0, 0) @@
  6 :> I("JAL", 1, 0, 0, 1) @@
  7 :> Plain("CSR", 1, 2, 0) @@
  8 :> Plain("XRET", 0, 0, 0)
SystemAddr == 0..8
SystemFall == FallOf(SystemProg)
SystemPredicted ==
  [p \in SystemAddr |-> IF p = 6 THEN {1} ELSE {}]
SystemResult(p, a, b) == IF p = 0 THEN 1 ELSE (a + b) % 2

-----------------------------------------------------------------------------
(* Memory.  A reservation, a store conditional, an uncached store, an atomic *)
(* and a fence; any of them may fault, and the last jump may be misaligned.  *)

MemoryProg ==
  0 :> Plain("LOAD", 1, 0, 0) @@
  1 :> Plain("LR", 2, 0, 0) @@
  2 :> Plain("SC", 2, 1, 1) @@
  3 :> Plain("STORE", 0, 0, 2) @@
  4 :> Plain("AMO", 2, 0, 1) @@
  5 :> Plain("FENCE", 0, 0, 0) @@
  6 :> Plain("JALR", 0, 2, 0)
MemoryAddr == 0..6
MemoryData == 0..2
MemoryFall == FallOf(MemoryProg)
MemoryJump(p, a) == IF a = 2 THEN 5 ELSE 0
MemoryPredicted == [p \in MemoryAddr |-> IF p = 6 THEN {0} ELSE {}]

-----------------------------------------------------------------------------
(* Waiting for the store buffer.  Two stores and a fence in a tight loop,    *)
(* with one entry in the store buffer: the second store waits for the first, *)
(* the fence for both, and a fault squashes what is behind it.               *)

StoreProg ==
  0 :> Plain("STORE", 0, 0, 1) @@
  1 :> Plain("AMO", 1, 0, 2) @@
  2 :> Plain("FENCE", 0, 0, 0) @@
  3 :> I("JAL", 0, 0, 0, 0)
StoreAddr == 0..3
StoreFall == FallOf(StoreProg)
StoreJump(p, a) == 0
StorePredicted == [p \in StoreAddr |-> IF p = 3 THEN {0} ELSE {}]

=============================================================================
