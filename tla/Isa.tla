-------------------------------- MODULE Isa --------------------------------
(***************************************************************************)
(* What the pipeline promises: the program runs one instruction at a time. *)
(* There are no stages, epochs, bypasses or queues here.  Loads return any *)
(* value (the data cache is outside src/), a store is visible as the value *)
(* last written, and interrupts may come whenever they are enabled.        *)
(*                                                                         *)
(* sync remembers that the last instruction retired was one whose effects  *)
(* the fetch side may not have seen: nothing may retire until the next     *)
(* instruction has been fetched again.  After FENCE.I or SFENCE.VMA that   *)
(* re-fetch must carry the request that flushes the instruction side.      *)
(***************************************************************************)
EXTENDS Program

VARIABLES
  pc,    \* address of the next instruction
  rf,    \* register file
  csr,   \* the CSR that enables interrupts (mstatus.MIE)
  pcsr,  \* its value before the last trap (mstatus.MPIE)
  epc,   \* mepc
  mem,   \* the value last stored
  sync   \* "none", or the cause the coming re-fetch must carry

vars == <<pc, rf, csr, pcsr, epc, mem, sync>>

TypeOK ==
  /\ pc \in Addr
  /\ rf \in [Reg -> Data]
  /\ {csr, pcsr, mem} \subseteq Data
  /\ epc \in Addr
  /\ sync \in {"none"} \cup RerunCause

Init ==
  /\ pc = ResetPc
  /\ rf = [r \in Reg |-> 0]
  /\ csr = 0
  /\ pcsr = 0
  /\ epc = ResetPc
  /\ mem = 0
  /\ sync = "none"

\* A WFI may end as soon as it starts, so it counts as already passed.
Here == {pc} \cup {Fall[p] : p \in {q \in {pc} : Prog[q].op = "WFI"}}

Src1(p) == rf[Prog[p].rs1]
Src2(p) == rf[Prog[p].rs2]

Write(p, v) ==
  rf' = [rf EXCEPT ![Prog[p].rd] = IF Prog[p].rd = 0 THEN @ ELSE v]

Runs(p, ops) ==
  /\ sync = "none"
  /\ p \in Here \ FetchFault
  /\ Prog[p].op \in ops

Step(p) == pc' = Successor(p, Src1(p), Src2(p))

Misaimed(p) ==
  Jumps(p, Src1(p), Src2(p)) /\ Target(p, Src1(p)) \in BadTarget

Compute(p) ==
  /\ Runs(p, {"ALU", "MUL"} \cup ControlOp)
  /\ ~ Misaimed(p)
  /\ Write(p, Result(p, Src1(p), Src2(p)))
  /\ Step(p)
  /\ UNCHANGED <<csr, pcsr, epc, mem, sync>>

Load(p) ==
  /\ Runs(p, {"LOAD", "LR"})
  /\ Src1(p) \notin BadAddr
  /\ \E v \in Data : Write(p, v)
  /\ Step(p)
  /\ UNCHANGED <<csr, pcsr, epc, mem, sync>>

Store(p) ==
  /\ Runs(p, {"STORE", "AMO", "SC"})
  /\ Src1(p) \notin BadAddr
  /\ mem' = Src2(p)
  /\ \E v \in IF Prog[p].op = "AMO" THEN Data ELSE {0} : Write(p, v)
  /\ Step(p)
  /\ UNCHANGED <<csr, pcsr, epc, sync>>

StoreConditionalFails(p) ==
  /\ Runs(p, {"SC"})
  /\ Src1(p) \notin BadAddr
  /\ Write(p, 1)
  /\ Step(p)
  /\ UNCHANGED <<csr, pcsr, epc, mem, sync>>

AccessCsr(p) ==
  /\ Runs(p, {"CSR"})
  /\ csr' = Src1(p)
  /\ Write(p, csr)
  /\ Step(p)
  /\ sync' = "Rerun"
  /\ UNCHANGED <<pcsr, epc, mem>>

Fence(p) ==
  /\ Runs(p, FenceOp \cup {"SFENCE"})
  /\ Step(p)
  /\ sync' = RerunKind(Prog[p].op)
  /\ UNCHANGED <<rf, csr, pcsr, epc, mem>>

Return(p) ==
  /\ Runs(p, {"XRET"})
  /\ pc' = epc
  /\ csr' = pcsr
  /\ pcsr' = 1
  /\ UNCHANGED <<rf, epc, mem, sync>>

TakeTrap(p) ==
  /\ sync = "none"
  /\ p \in Here
  /\ pc' = TrapVec
  /\ epc' = p
  /\ pcsr' = csr
  /\ csr' = 0
  /\ UNCHANGED <<rf, mem, sync>>

Exception(p) ==
  /\ \/ p \in FetchFault
     \/ Prog[p].op \in AccessOp \cup {"ILL"}
     \/ Misaimed(p)
  /\ TakeTrap(p)

Interrupt(p) == csr = 1 /\ TakeTrap(p)

\* The re-fetch may also happen when nothing asks for it: it changes nothing.
Refetch(cause) ==
  /\ sync \in {"none", cause}
  /\ sync' = "none"
  /\ pc' \in Here
  /\ UNCHANGED <<rf, csr, pcsr, epc, mem>>

Next ==
  \/ \E p \in Addr :
       \/ Compute(p)
       \/ Load(p)
       \/ Store(p)
       \/ StoreConditionalFails(p)
       \/ AccessCsr(p)
       \/ Fence(p)
       \/ Return(p)
       \/ Exception(p)
       \/ Interrupt(p)
  \/ \E c \in RerunCause : Refetch(c)

Spec == Init /\ [][Next]_vars

=============================================================================
