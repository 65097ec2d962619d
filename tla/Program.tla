------------------------------ MODULE Program ------------------------------
(***************************************************************************)
(* The program the core runs and the pure part of its instruction set:     *)
(* what the decoder, the ALU and the address adders compute, abstracted to *)
(* what control depends on.  Isa and Pipeline both read the program from   *)
(* here, so neither can run a different one.                               *)
(***************************************************************************)
EXTENDS Naturals

CONSTANTS
  Addr,          \* instruction addresses
  Reg,           \* registers of the one register file modelled; 0 is x0
  Data,          \* register values; 0 is the reset value, 1 is "enabled" in a CSR
  Prog,          \* the instruction at each address
  Fall,          \* the address after each instruction (pc + 2 or pc + 4)
  ResetPc,       \* where the core starts
  TrapVec,       \* the trap vector
  FetchFault,    \* addresses whose fetch ends in an access or page fault
  BadTarget,     \* targets that are misaligned because misa.C is 0
  BadAddr,       \* data addresses that are misaligned for the access
  Result(_, _, _),  \* aluresult of the instruction at an address
  Taken(_, _),      \* branch_taken
  JumpTo(_, _)      \* the jump address of a JALR

ControlOp == {"BRANCH", "JAL", "JALR"}
FenceOp   == {"FENCE", "FENCEI"}
AccessOp  == {"LOAD", "STORE", "AMO", "LR", "SC"}
SystemOp  == {"CSR", "XRET"}

\* WFI is decoded but never executed; ILL stands for every instruction the
\* decoder turns into an exception (illegal, ecall, ebreak).
Op == ControlOp \cup FenceOp \cup AccessOp \cup SystemOp
        \cup {"ALU", "MUL", "SFENCE", "WFI", "ILL"}

Instr == [op : Op, rd : Reg, rs1 : Reg, rs2 : Reg, tgt : Addr]

\* The decoder zeroes rd for these (decoder.bsv:402), or accepts only rd = 0.
NoDest == {"BRANCH", "STORE", "XRET", "FENCE", "FENCEI", "SFENCE"}

ASSUME ProgramAssumption ==
  /\ {ResetPc, TrapVec} \subseteq Addr
  /\ 0 \in Reg
  /\ {0, 1} \subseteq Data
  /\ Prog \in [Addr -> Instr]
  /\ \A p \in Addr : Prog[p].op \in NoDest => Prog[p].rd = 0
  /\ Fall \in [Addr -> Addr]
  /\ FetchFault \subseteq Addr
  /\ BadTarget \subseteq Addr
  /\ BadAddr \subseteq Data
  /\ \A p \in Addr : Prog[p].op = "WFI" => Prog[Fall[p]].op # "WFI"

ASSUME ValueAssumption ==
  /\ \A p \in Addr, a, b \in Data : Result(p, a, b) \in Data
  /\ \A a, b \in Data : Taken(a, b) \in BOOLEAN
  /\ \A p \in Addr, a \in Data : JumpTo(p, a) \in Addr

\* jump_address: the base is rs1 for a JALR and the pc otherwise.
Target(p, a) == IF Prog[p].op = "JALR" THEN JumpTo(p, a) ELSE Prog[p].tgt

\* Whether the control instruction at p leaves the straight line.
Jumps(p, a, b) ==
  \/ Prog[p].op \in {"JAL", "JALR"}
  \/ Prog[p].op = "BRANCH" /\ Taken(a, b)

\* redirect_pc: the address that really follows p.
Successor(p, a, b) == IF Jumps(p, a, b) THEN Target(p, a) ELSE Fall[p]

\* Instructions whose successor is fetched again (InstrMeta.rerun), and the
\* pseudo cause the re-fetch carries.
SyncOp == SystemOp \cup FenceOp \cup {"SFENCE"}

RerunCause == {"Rerun", "IcacheFence", "SFence"}

RerunKind(op) ==
  CASE op = "FENCEI" -> "IcacheFence"
    [] op = "SFENCE" -> "SFence"
    [] OTHER         -> "Rerun"

=============================================================================
