------------------------------ MODULE Pipeline ------------------------------
(***************************************************************************)
(* The pipeline from the decode stage to write back: stage2 .. stage5, the *)
(* inter-stage buffers, the bypass network and the redirections of         *)
(* riscv.bsv.  The fetch side is the environment that delivers predicted   *)
(* instructions, and the data memory subsystem is external.                *)
(*                                                                         *)
(* An action is one rule of the source with everything riscv.bsv connects  *)
(* to it in the same clock cycle.  The order of the actions stands for the *)
(* order of the rules inside a cycle (execute, decode, write back, memory) *)
(* as well as for the order of cycles.  One thing that order cannot give:  *)
(* in the cycle of a redirection decode still reads the old epochs and the *)
(* flush wires, so a redirection may decode one instruction on the way.    *)
(***************************************************************************)
EXTENDS Program, Sequences

CONSTANTS
  Predicted,   \* for each address, the targets the branch predictor may give
  Uncached,    \* store instructions whose address is not cacheable
  DmemFaults,  \* whether the data side may answer with a fault
  SbSize       \* entries of the store buffer

ASSUME PipelineAssumption ==
  /\ Predicted \in [Addr -> SUBSET Addr]
  /\ \A p \in Addr :
       /\ Prog[p].op \notin ControlOp => Predicted[p] = {}
       /\ Prog[p].op = "BRANCH" => Predicted[p] \subseteq {Prog[p].tgt}
  /\ Uncached \subseteq Addr
  /\ DmemFaults \in BOOLEAN
  /\ SbSize \in Nat \ {0}

Pipe1Size == 2   \* mkSizedFIFOF(2)
DeepPipe3 == 3    \* mutant: one entry the bypass network cannot see
Pipe3Size == 2   \* mkSizedFIFOF(2), the common and the type part alike
DmemSize  == 1   \* requests the data side holds before it answers

VARIABLES
  fetchPc,            \* stage0: address fetched next
  eEpoch, wEpoch,     \* every stage's copy: they all flip in the same cycle
  pipe1,              \* stage1 to stage2
  rgStall, rgWfi,     \* stage2: trap seen, WFI seen
  rgRerun, rgKind,    \* stage2: rg_rerun, and which of rg_fencei/sfence_rerun
  rgOp1, rgOp2,       \* stage2: the operand registers
  pipe2,              \* stage2 to stage3 (one entry, LFIFO)
  rgMulti,            \* stage3: rg_stall, a multi-cycle unit is busy
  reserved,           \* stage3: rg_loadreserved_addr
  pipe3,              \* stage3 to stage4
  pipe4,              \* stage4 to stage5 (one entry, LFIFO)
  rgStoreInit,        \* stage5: rg_store_initiated
  rgCsrWait,          \* csr: rg_csr_wait
  csrResp,            \* csr: the answer of the daisy chain, if any
  rf, csr, pcsr, epc, \* register file; mstatus.MIE, mstatus.MPIE, mepc
  irq,                \* an interrupt is pending and locally enabled (mip & mie)
  dreq, dresp, sb,    \* external data side: requests, answer, store buffer
  mem,                \* external: the value last stored
  archPc, sync        \* history: where and in which state the program stands

fetchVars == <<fetchPc, pipe1>>
decodeVars == <<rgStall, rgWfi, rgRerun, rgKind, pipe2>>
opVars == <<rgOp1, rgOp2>>
execVars == <<rgMulti, reserved, pipe3>>
dmemVars == <<dreq, dresp>>
storeVars == <<rgStoreInit, sb, mem>>
csrVars == <<rgCsrWait, csrResp, csr, pcsr, epc>>
archVars == <<archPc, sync>>

vars == <<fetchVars, eEpoch, wEpoch, decodeVars, opVars, execVars, pipe4, dmemVars,
          storeVars, csrVars, rf, irq, archVars>>

Epochs == <<eEpoch, wEpoch>>

MemType == {"LOAD", "STORE", "AMO", "FENCE"}

Init ==
  /\ fetchPc = ResetPc
  /\ eEpoch = 0 /\ wEpoch = 0
  /\ pipe1 = <<>> /\ pipe2 = <<>> /\ pipe3 = <<>> /\ pipe4 = <<>>
  /\ rgStall = FALSE /\ rgWfi = FALSE /\ rgRerun = FALSE /\ rgKind = "Rerun"
  /\ rgOp1 = [addr |-> 0, data |-> 0]
  /\ rgOp2 = [addr |-> 0, data |-> 0]
  /\ rgMulti = FALSE
  /\ reserved = {}
  /\ rgStoreInit = FALSE
  /\ rgCsrWait = FALSE /\ csrResp = <<>>
  /\ rf = [r \in Reg |-> 0]
  /\ csr = 0 /\ pcsr = 0 /\ epc = ResetPc
  /\ irq = FALSE
  /\ dreq = <<>> /\ dresp = <<>> /\ sb = <<>>
  /\ mem = 0
  /\ archPc = ResetPc /\ sync = "none"

-----------------------------------------------------------------------------
(* stage0 and stage1, as the decode stage sees them *)

\* Mutant: the hit of the BTB stands for the direction.
DeliverHit ==
  /\ Len(pipe1) < Pipe1Size
  /\ \E pred \in BOOLEAN :
       /\ fetchPc' \in IF pred THEN Predicted[fetchPc] ELSE {Fall[fetchPc]}
       /\ pipe1' = Append(pipe1, [pc |-> fetchPc, ep |-> Epochs,
                                  pred |-> Predicted[fetchPc] # {}])
  /\ UNCHANGED <<eEpoch, wEpoch, decodeVars, opVars, execVars, pipe4, dmemVars,
                 storeVars, csrVars, rf, irq, archVars>>

\* The fetch side delivers the next address of the predicted stream with the
\* current epochs; pred is the most significant bit of the 2-bit prediction.
Deliver ==
  /\ Len(pipe1) < Pipe1Size
  /\ \E pred \in BOOLEAN :
       /\ fetchPc' \in IF pred THEN Predicted[fetchPc] ELSE {Fall[fetchPc]}
       /\ pipe1' = Append(pipe1, [pc |-> fetchPc, ep |-> Epochs, pred |-> pred])
  /\ UNCHANGED <<eEpoch, wEpoch, decodeVars, opVars, execVars, pipe4, dmemVars,
                 storeVars, csrVars, rf, irq, archVars>>

-----------------------------------------------------------------------------
(* stage2 *)

TakeInterrupt == irq /\ csr = 1

DecodedType(p) ==
  IF rgRerun \/ TakeInterrupt \/ p \in FetchFault \/ Prog[p].op = "ILL"
  THEN "TRAP"
  ELSE Prog[p].op

\* Mutant: every re-run is a plain one.
PlainCause(p) == IF rgRerun THEN "Rerun" ELSE IF TakeInterrupt THEN "Interrupt" ELSE "Exception"

DecodedCause(p) ==
  CASE rgRerun       -> rgKind
    [] ~ rgRerun /\ TakeInterrupt -> "Interrupt"
    [] OTHER         -> "Exception"

\* A trap names x0 as its operands; x0 reads as 0.
Operand(p, r) ==
  LET a == IF DecodedType(p) = "TRAP" THEN 0 ELSE r
  IN  [addr |-> a, data |-> IF a = 0 THEN 0 ELSE rf[a]]

\* Mutant: the fences are not followed by a re-run.
RerunSystemOnly(p) == ~ rgRerun /\ Prog[p].op \in SystemOp

\* meta.rerun: decided by the instruction, cleared by a re-run trap only.
RerunNext(p) == ~ rgRerun /\ Prog[p].op \in SyncOp

DropStale ==
  /\ Head(pipe1).ep # Epochs
  /\ UNCHANGED <<rgStall, rgWfi, rgRerun, rgKind, opVars>>
  /\ pipe2' = <<>>

SleepOnWfi(flush) ==
  /\ Head(pipe1).ep = Epochs
  /\ DecodedType(Head(pipe1).pc) = "WFI"
  /\ rgWfi' = ~ flush
  /\ UNCHANGED <<rgStall, rgRerun, rgKind, opVars>>
  /\ pipe2' = <<>>

\* Mutant: a trap decoded in the cycle of a flush stalls as well.
DispatchStalling(flush) ==
  LET h == Head(pipe1)
      t == DecodedType(h.pc)
  IN  /\ h.ep = Epochs
      /\ t # "WFI"
      /\ pipe2' = <<[pc |-> h.pc, ep |-> h.ep, type |-> t,
                     cause |-> IF t = "TRAP" THEN DecodedCause(h.pc) ELSE "none",
                     pred |-> h.pred]>>
      /\ rgOp1' = Operand(h.pc, Prog[h.pc].rs1)
      /\ rgOp2' = Operand(h.pc, Prog[h.pc].rs2)
      /\ rgRerun' = (RerunNext(h.pc) /\ ~ flush)
      /\ rgKind' = IF t = "TRAP" THEN "Rerun" ELSE RerunKind(t)
      /\ rgStall' = (t = "TRAP")
      /\ UNCHANGED rgWfi

Dispatch(flush) ==
  LET h == Head(pipe1)
      p == h.pc
      t == DecodedType(p)
  IN  /\ h.ep = Epochs
      /\ t # "WFI"
      /\ pipe2' = <<[pc |-> p, ep |-> h.ep, type |-> t,
                     cause |-> IF t = "TRAP" THEN DecodedCause(p) ELSE "none",
                     pred |-> h.pred]>>
      /\ rgOp1' = Operand(p, Prog[p].rs1)
      /\ rgOp2' = Operand(p, Prog[p].rs2)
      /\ rgRerun' = (RerunNext(p) /\ ~ flush)
      /\ rgKind' = IF t = "TRAP" THEN "Rerun" ELSE RerunKind(t)
      /\ rgStall' = (t = "TRAP" /\ ~ flush)
      /\ UNCHANGED rgWfi

\* decode_and_opfetch into the empty pipe2; flush: a flush wire is high.
DecodeInto(flush) ==
  /\ pipe1 # <<>>
  /\ ~ rgStall
  /\ ~ rgWfi
  /\ pipe1' = Tail(pipe1)
  /\ \/ DropStale
     \/ SleepOnWfi(flush)
     \/ Dispatch(flush)

Decode ==
  /\ pipe2 = <<>>
  /\ DecodeInto(FALSE)
  /\ UNCHANGED <<fetchPc, eEpoch, wEpoch, execVars, pipe4, dmemVars, storeVars,
                 csrVars, rf, irq, archVars>>

WaitForInterrupt ==
  /\ rgWfi
  /\ irq
  /\ rgWfi' = FALSE
  /\ UNCHANGED <<fetchVars, eEpoch, wEpoch, rgStall, rgRerun, rgKind, pipe2, opVars,
                 execVars, pipe4, dmemVars, storeVars, csrVars, rf, irq, archVars>>

\* Mutant: clear_stall is guarded by rg_rerun.
ClearRerun ==
  /\ rgStall' = (rgStall /\ ~ rgRerun)
  /\ rgRerun' = FALSE
  /\ rgWfi' = FALSE
  /\ UNCHANGED <<rgKind, opVars, pipe1>>

\* What a flush does to stage2 when it decodes nothing in that cycle:
\* clear_stall acts only when rg_stall is set.
ClearStall ==
  /\ rgStall' = FALSE
  /\ rgRerun' = (rgRerun /\ ~ rgStall)
  /\ rgWfi' = FALSE
  /\ UNCHANGED <<rgKind, opVars, pipe1>>

\* A re-direction as the fetch side and stage2 see it.  after: what the stage
\* that re-directs leaves in pipe2.  Decode may run in the same cycle.
Redirect(target, after) ==
  /\ fetchPc' = target
  /\ \/ ClearStall /\ pipe2' = after
     \/ after = <<>> /\ DecodeInto(TRUE)

-----------------------------------------------------------------------------
(* The bypass network *)

NoForward == [valid |-> FALSE, available |-> FALSE, addr |-> 0, data |-> 0]

Offer(e, available) ==
  [valid |-> e.rd # 0 /\ e.ep = wEpoch, available |-> available,
   addr |-> e.rd, data |-> e.val]

\* Mutant: what is in pipe3 is always taken for a result.
ForwardUnready ==
  IF pipe3 # <<>> /\ Head(pipe3).type # "WAIT"
  THEN Offer(Head(pipe3), TRUE)
  ELSE NoForward

\* Only the head of pipe3 is offered, and only when its type part is there.
ForwardFromExe1 ==
  IF pipe3 # <<>> /\ Head(pipe3).type # "WAIT"
  THEN Offer(Head(pipe3), Head(pipe3).type = "REG")
  ELSE NoForward

\* A SYSTEM or TRAP in pipe4 carries no destination.
ForwardFromMem1 ==
  IF pipe4 # <<>> /\ Head(pipe4).type \in {"REG", "STORE"}
  THEN Offer(Head(pipe4), TRUE)
  ELSE NoForward

ForwardData(op, youngest, youngestp1) ==
  IF youngest.valid /\ youngest.addr = op.addr
  THEN [available |-> youngest.available, data |-> youngest.data]
  ELSE IF youngestp1.valid /\ youngestp1.addr = op.addr
  THEN [available |-> youngestp1.available, data |-> youngestp1.data]
  ELSE [available |-> TRUE, data |-> op.data]

Rs1 == ForwardData(rgOp1, ForwardFromExe1, ForwardFromMem1)
Rs2 == ForwardData(rgOp2, ForwardFromExe1, ForwardFromMem1)

OperandsAvailable == Rs1.available /\ Rs2.available

-----------------------------------------------------------------------------
(* stage3 *)

\* Mutant: the space in pipe3 is not looked at.
ExecOverrun == pipe2 # <<>> /\ ~ rgMulti /\ Len(dreq) < DmemSize

\* rule_condition and the implicit conditions of rl_capture_latest_ops, which
\* hold it back even when it would only drop the instruction.
ExecReady ==
  /\ pipe2 # <<>>
  /\ ~ rgMulti
  /\ Len(pipe3) < Pipe3Size
  /\ Len(dreq) < DmemSize

InExec == Head(pipe2)

\* Mutant: the epochs are not looked at.
ExecutesStale(types) ==
  /\ ExecReady
  /\ InExec.type \in types
  /\ InExec.type = "TRAP" \/ OperandsAvailable

Executes(types) ==
  /\ ExecReady
  /\ InExec.ep = Epochs
  /\ InExec.type \in types
  /\ InExec.type = "TRAP" \/ OperandsAvailable

\* Mutant: stage4 and stage5 get the epoch of the execute stage.
EntryEEpoch(type, val, cause) ==
  [pc |-> InExec.pc, rd |-> Prog[InExec.pc].rd, ep |-> InExec.ep[1],
   type |-> type, val |-> val, cause |-> cause]

Entry(type, val, cause) ==
  [pc |-> InExec.pc, rd |-> Prog[InExec.pc].rd, ep |-> InExec.ep[2],
   type |-> type, val |-> val, cause |-> cause]

\* The instruction leaves pipe2 for pipe3.
Issue(type, val, cause) == pipe3' = Append(pipe3, Entry(type, val, cause))

NoRedirect ==
  /\ pipe2' = <<>>
  /\ UNCHANGED <<fetchVars, eEpoch, rgStall, rgWfi, rgRerun, rgKind, opVars>>

ExecFrame ==
  UNCHANGED <<wEpoch, pipe4, dresp, storeVars, csrVars, rf, irq, archVars>>

ExecDrop ==
  /\ ExecReady
  /\ InExec.ep # Epochs
  /\ NoRedirect
  /\ ExecFrame
  /\ UNCHANGED <<execVars, dreq>>

ExecTrap ==
  /\ Executes({"TRAP"})
  /\ Issue("TRAP", 0, InExec.cause)
  /\ NoRedirect
  /\ ExecFrame
  /\ UNCHANGED <<rgMulti, reserved, dreq>>

\* An SFENCE is sent to the data side and goes on as a regular instruction.
ExecAlu ==
  /\ Executes({"ALU", "SFENCE"})
  /\ Issue("REG", Result(InExec.pc, Rs1.data, Rs2.data), "none")
  /\ NoRedirect
  /\ ExecFrame
  /\ UNCHANGED <<rgMulti, reserved, dreq>>

\* The common part enters pipe3 now, the type part when the unit has finished.
ExecMulti ==
  /\ Executes({"MUL"})
  /\ Issue("WAIT", Result(InExec.pc, Rs1.data, Rs2.data), "none")
  /\ rgMulti' = TRUE
  /\ NoRedirect
  /\ ExecFrame
  /\ UNCHANGED <<reserved, dreq>>

DelayedOutput ==
  /\ rgMulti
  /\ pipe3' = [pipe3 EXCEPT ![Len(pipe3)].type = "REG"]
  /\ rgMulti' = FALSE
  /\ UNCHANGED <<fetchVars, eEpoch, wEpoch, decodeVars, opVars, reserved, pipe4, dmemVars,
                 storeVars, csrVars, rf, irq, archVars>>

ExecSystem ==
  /\ Executes(SystemOp)
  /\ Issue(InExec.type, Rs1.data, "none")
  /\ NoRedirect
  /\ ExecFrame
  /\ UNCHANGED <<rgMulti, reserved, dreq>>

\* send_memory_request
Request(type) ==
  /\ dreq' = Append(dreq, [pc |-> InExec.pc, ep |-> InExec.ep[2], type |-> type,
                           val |-> Rs2.data])
  /\ Issue(type, 0, "none")
  /\ NoRedirect
  /\ ExecFrame
  /\ UNCHANGED rgMulti

ExecMisaligned ==
  /\ Executes(AccessOp)
  /\ Rs1.data \in BadAddr
  /\ Issue("TRAP", 0, "Exception")
  /\ NoRedirect
  /\ ExecFrame
  /\ UNCHANGED <<rgMulti, reserved, dreq>>

ExecAccess ==
  /\ Executes({"LOAD", "STORE", "AMO"})
  /\ Rs1.data \notin BadAddr
  /\ Request(InExec.type)
  /\ UNCHANGED reserved

\* The reserved fields of FENCE.I are zero, as an assembler leaves them: with
\* others stage3.bsv:352-354 could take their sum for a misaligned address.
ExecFence ==
  /\ Executes(FenceOp)
  /\ Request("FENCE")
  /\ UNCHANGED reserved

ExecLoadReserved ==
  /\ Executes({"LR"})
  /\ Rs1.data \notin BadAddr
  /\ Request("LOAD")
  /\ reserved' = {Rs1.data}

ExecStoreConditional ==
  /\ Executes({"SC"})
  /\ Rs1.data \notin BadAddr
  /\ reserved' = {}
  /\ \/ /\ Rs1.data \in reserved
        /\ Request("STORE")
     \/ /\ Rs1.data \notin reserved
        /\ Issue("REG", 1, "none")
        /\ NoRedirect
        /\ ExecFrame
        /\ UNCHANGED <<rgMulti, dreq>>

\* wr_next_pc: the instruction decode will take next.
NextPc == Head(pipe1).pc

\* A branch is mispredicted when its direction is; a jump when its target is.
Mispredicted ==
  IF InExec.type = "BRANCH"
  THEN Taken(Rs1.data, Rs2.data) # InExec.pred
  ELSE NextPc # Target(InExec.pc, Rs1.data)

ControlTrap ==
  /\ Jumps(InExec.pc, Rs1.data, Rs2.data)
  /\ Target(InExec.pc, Rs1.data) \in BadTarget

\* A control instruction also waits for the pc behind it.
ExecControl ==
  /\ Executes(ControlOp)
  /\ pipe1 # <<>>
  /\ \/ /\ ControlTrap
        /\ Issue("TRAP", 0, "Exception")
        /\ NoRedirect
     \/ /\ ~ ControlTrap
        /\ Issue("REG", Result(InExec.pc, Rs1.data, Rs2.data), "none")
        /\ \/ ~ Mispredicted /\ NoRedirect
           \/ /\ Mispredicted
              /\ eEpoch' = 1 - eEpoch
              /\ Redirect(Successor(InExec.pc, Rs1.data, Rs2.data), <<>>)
  /\ ExecFrame
  /\ UNCHANGED <<rgMulti, reserved, dreq>>

Exec ==
  \/ ExecDrop
  \/ ExecTrap
  \/ ExecAlu
  \/ ExecMulti
  \/ ExecSystem
  \/ ExecMisaligned
  \/ ExecAccess
  \/ ExecFence
  \/ ExecLoadReserved
  \/ ExecStoreConditional
  \/ ExecControl

-----------------------------------------------------------------------------
(* The data memory subsystem (external) *)

Answer(trap, val) ==
  /\ dreq' = Tail(dreq)
  /\ dresp' = <<[pc |-> Head(dreq).pc, ep |-> Head(dreq).ep, trap |-> trap, val |-> val]>>

DmemFault ==
  /\ DmemFaults
  /\ dreq # <<>> /\ dresp = <<>>
  /\ Head(dreq).type # "FENCE"
  /\ Answer(TRUE, 0)
  /\ UNCHANGED sb

\* A load, or a fence once the store buffer has drained.
DmemRead ==
  /\ dreq # <<>> /\ dresp = <<>>
  /\ \/ Head(dreq).type = "LOAD"
     \/ Head(dreq).type = "FENCE" /\ sb = <<>>
  /\ \E v \in Data : Answer(FALSE, v)
  /\ UNCHANGED sb

\* A store waits in the store buffer for the write-back stage.
DmemStore ==
  /\ dreq # <<>> /\ dresp = <<>>
  /\ Head(dreq).type \in {"STORE", "AMO"}
  /\ Len(sb) < SbSize
  /\ \E v \in Data : Answer(FALSE, v)
  /\ sb' = Append(sb, [pc |-> Head(dreq).pc, ep |-> Head(dreq).ep, val |-> Head(dreq).val])

DmemRespond ==
  /\ DmemFault \/ DmemRead \/ DmemStore
  /\ UNCHANGED <<fetchVars, eEpoch, wEpoch, decodeVars, opVars, execVars, pipe4,
                 rgStoreInit, mem, csrVars, rf, irq, archVars>>

-----------------------------------------------------------------------------
(* stage4 *)

InMem == Head(pipe3)

\* What goes on to pipe4 when the answer r belongs to the instruction.
Answered(r) ==
  CASE r.trap -> [InMem EXCEPT !.type = "TRAP", !.cause = "Exception"]
    [] ~ r.trap /\ InMem.type = "STORE" -> [InMem EXCEPT !.type = "STORE", !.val = 0]
    [] ~ r.trap /\ InMem.type = "AMO" -> [InMem EXCEPT !.type = "STORE", !.val = r.val]
    [] OTHER -> [InMem EXCEPT !.type = "REG", !.val = r.val]

\* Mutant: stage4 drops by epoch, as the note in stage4 warns not to.
PassSquashed ==
  /\ InMem.type # "WAIT"
  /\ InMem.type \in MemType => InMem.ep # wEpoch
  /\ pipe4' = <<IF InMem.type \in MemType THEN [InMem EXCEPT !.type = "REG"] ELSE InMem>>
  /\ pipe3' = Tail(pipe3)
  /\ UNCHANGED dresp

PassInstruction ==
  /\ InMem.type \notin MemType \cup {"WAIT"}
  /\ pipe4' = <<InMem>>
  /\ pipe3' = Tail(pipe3)
  /\ UNCHANGED dresp

\* An answer of the other epoch is thrown away and the instruction waits on.
TakeAnswer ==
  /\ InMem.type \in MemType
  /\ dresp # <<>>
  /\ dresp' = <<>>
  /\ IF Head(dresp).ep = InMem.ep
     THEN pipe4' = <<Answered(Head(dresp))>> /\ pipe3' = Tail(pipe3)
     ELSE UNCHANGED <<pipe3, pipe4>>

CheckInstruction ==
  /\ pipe3 # <<>>
  /\ pipe4 = <<>>
  /\ PassInstruction \/ TakeAnswer
  /\ UNCHANGED <<fetchVars, eEpoch, wEpoch, decodeVars, opVars, rgMulti, reserved, dreq,
                 storeVars, csrVars, rf, irq, archVars>>

-----------------------------------------------------------------------------
(* stage5 and the CSR module *)

InWb == Head(pipe4)

\* Mutant: the epoch is not looked at.
CommitsStale(types) == pipe4 # <<>> /\ InWb.type \in types

Commits(types) ==
  /\ pipe4 # <<>>
  /\ InWb.ep = wEpoch
  /\ InWb.type \in types

\* Mutant: a commit does not reach the operands read before it.
NotUpdated(op, r, v) == op

Updated(op, r, v) == IF op.addr = r /\ r # 0 THEN [op EXCEPT !.data = v] ELSE op

\* commit_rd: the register file and the operands waiting in front of stage3.
CommitRd(r, v) ==
  /\ rf' = IF r = 0 THEN rf ELSE [rf EXCEPT ![r] = v]
  /\ rgOp1' = Updated(rgOp1, r, v)
  /\ rgOp2' = Updated(rgOp2, r, v)

\* History: the instruction at p is done, with the registers it saw.
Retire(p) ==
  /\ archPc' = Successor(p, rf[Prog[p].rs1], rf[Prog[p].rs2])
  /\ sync' = IF Prog[p].op \in SyncOp THEN RerunKind(Prog[p].op) ELSE sync

\* wr_flush
FlushFromWb(target) ==
  /\ wEpoch' = 1 - wEpoch
  /\ Redirect(target, pipe2)

NoFlush == UNCHANGED <<fetchVars, wEpoch, decodeVars>>

CommitFrame == UNCHANGED <<eEpoch, execVars, dmemVars, irq>>

\* mav_upd_on_trap, then the flush to the trap vector.
TrapTo(p) ==
  /\ epc' = p
  /\ pcsr' = csr
  /\ csr' = 0
  /\ archPc' = TrapVec
  /\ FlushFromWb(TrapVec)
  /\ UNCHANGED <<rgCsrWait, csrResp, rf, sync>>

\* The flush asks the fetch side for what the cause says, and for nothing else.
CommitRerun ==
  /\ Commits({"TRAP"})
  /\ InWb.cause \in RerunCause
  /\ pipe4' = <<>>
  /\ archPc' = InWb.pc
  /\ sync' = IF sync = InWb.cause THEN "none" ELSE sync
  /\ FlushFromWb(InWb.pc)
  /\ CommitFrame
  /\ UNCHANGED <<csrVars, storeVars, rf>>

CommitTrap ==
  /\ Commits({"TRAP"})
  /\ InWb.cause \notin RerunCause
  /\ pipe4' = <<>>
  /\ TrapTo(InWb.pc)
  /\ CommitFrame
  /\ UNCHANGED storeVars

\* Mutant: a squashed store is performed too.
InitiateAlways == sb' = Tail(sb) /\ mem' = Head(sb).val

\* initiate_store: the data side performs the oldest store it holds, unless it
\* was made in an epoch that is over.
InitiateStore ==
  /\ sb' = Tail(sb)
  /\ mem' = IF Head(sb).ep = wEpoch THEN Head(sb).val ELSE mem

\* store_is_cached: said of the oldest store the data side holds.
StoreIsCached == Head(sb).pc \notin Uncached

CommitStore ==
  /\ Commits({"STORE"})
  /\ sb # <<>>
  /\ ~ rgStoreInit
  /\ StoreIsCached
  /\ pipe4' = <<>>
  /\ InitiateStore
  /\ CommitRd(InWb.rd, InWb.val)
  /\ Retire(InWb.pc)
  /\ NoFlush
  /\ CommitFrame
  /\ UNCHANGED <<csrVars, rgStoreInit>>

\* A store that is not cached is sent out first and answered later.
InitiateUncached ==
  /\ Commits({"STORE"})
  /\ sb # <<>>
  /\ ~ rgStoreInit
  /\ ~ StoreIsCached
  /\ rgStoreInit' = TRUE
  /\ NoFlush
  /\ CommitFrame
  /\ UNCHANGED <<pipe4, sb, mem, opVars, rf, csrVars, archVars>>

\* Mutant: rg_store_initiated is not reset.
UncachedDoneKeeps ==
  /\ Commits({"STORE"})
  /\ rgStoreInit
  /\ pipe4' = <<>>
  /\ InitiateStore
  /\ CommitRd(InWb.rd, InWb.val)
  /\ Retire(InWb.pc)
  /\ NoFlush
  /\ CommitFrame
  /\ UNCHANGED <<csrVars, rgStoreInit>>

UncachedDone ==
  /\ Commits({"STORE"})
  /\ rgStoreInit
  /\ rgStoreInit' = FALSE
  /\ pipe4' = <<>>
  /\ InitiateStore
  /\ CommitRd(InWb.rd, InWb.val)
  /\ Retire(InWb.pc)
  /\ NoFlush
  /\ CommitFrame
  /\ UNCHANGED csrVars

UncachedError ==
  /\ DmemFaults
  /\ Commits({"STORE"})
  /\ rgStoreInit
  /\ rgStoreInit' = FALSE
  /\ pipe4' = <<>>
  /\ sb' = Tail(sb)
  /\ TrapTo(InWb.pc)
  /\ CommitFrame
  /\ UNCHANGED mem

\* system_instruction sends the request into the daisy chain ...
CsrRequest ==
  /\ Commits({"CSR"})
  /\ ~ rgCsrWait
  /\ rgCsrWait' = TRUE
  /\ NoFlush
  /\ CommitFrame
  /\ UNCHANGED <<pipe4, storeVars, opVars, rf, csrResp, csr, pcsr, epc, archVars>>

\* ... a group of the chain writes its register and answers the old value ...
CsrAnswer ==
  /\ rgCsrWait
  /\ csrResp = <<>>
  /\ csrResp' = <<csr>>
  /\ csr' = InWb.val
  /\ UNCHANGED <<fetchVars, eEpoch, wEpoch, decodeVars, opVars, execVars, pipe4, dmemVars,
                 storeVars, rgCsrWait, pcsr, epc, rf, irq, archVars>>

\* ... and the instruction commits without a flush.
CommitCsr ==
  /\ Commits({"CSR"})
  /\ csrResp # <<>>
  /\ rgCsrWait' = FALSE
  /\ csrResp' = <<>>
  /\ pipe4' = <<>>
  /\ CommitRd(InWb.rd, Head(csrResp))
  /\ Retire(InWb.pc)
  /\ NoFlush
  /\ CommitFrame
  /\ UNCHANGED <<storeVars, csr, pcsr, epc>>

\* mav_upd_on_ret
CommitXret ==
  /\ Commits({"XRET"})
  /\ pipe4' = <<>>
  /\ csr' = pcsr
  /\ pcsr' = 1
  /\ archPc' = epc
  /\ FlushFromWb(epc)
  /\ CommitFrame
  /\ UNCHANGED <<storeVars, rgCsrWait, csrResp, epc, rf, sync>>

CommitReg ==
  /\ Commits({"REG"})
  /\ pipe4' = <<>>
  /\ CommitRd(InWb.rd, InWb.val)
  /\ Retire(InWb.pc)
  /\ NoFlush
  /\ CommitFrame
  /\ UNCHANGED <<csrVars, storeVars>>

\* Mutant: a dropped store stays in the store buffer.
DropKeepsStore ==
  /\ pipe4 # <<>>
  /\ InWb.ep # wEpoch
  /\ pipe4' = <<>>
  /\ NoFlush
  /\ CommitFrame
  /\ UNCHANGED <<storeVars, opVars, rf, csrVars, archVars>>

\* An instruction of the other epoch leaves no trace, except that its store
\* must leave the store buffer.
DropInstruction ==
  /\ pipe4 # <<>>
  /\ InWb.ep # wEpoch
  /\ pipe4' = <<>>
  /\ \/ InWb.type # "STORE" /\ UNCHANGED <<sb, mem>>
     \/ InWb.type = "STORE" /\ sb # <<>> /\ InitiateStore
  /\ NoFlush
  /\ CommitFrame
  /\ UNCHANGED <<rgStoreInit, opVars, rf, csrVars, archVars>>

InstructionCommit ==
  \/ CommitRerun
  \/ CommitTrap
  \/ CommitStore
  \/ InitiateUncached
  \/ UncachedDone
  \/ UncachedError
  \/ CsrRequest
  \/ CommitCsr
  \/ CommitXret
  \/ CommitReg
  \/ DropInstruction

-----------------------------------------------------------------------------
\* The devices raise and lower their interrupts as they like.
ToggleIrq ==
  /\ irq' = ~ irq
  /\ UNCHANGED <<fetchVars, eEpoch, wEpoch, decodeVars, opVars, execVars, pipe4, dmemVars,
                 storeVars, csrVars, rf, archVars>>

Next ==
  \/ Deliver
  \/ Decode
  \/ WaitForInterrupt
  \/ Exec
  \/ DelayedOutput
  \/ DmemRespond
  \/ CheckInstruction
  \/ CsrAnswer
  \/ InstructionCommit
  \/ ToggleIrq

Spec == Init /\ [][Next]_vars

\* Every rule whose conditions hold fires in that cycle; the external data side
\* and CSR chain answer, and the multi-cycle units finish.
FairSpec ==
  /\ Spec
  /\ WF_vars(Deliver)
  /\ WF_vars(Decode)
  /\ WF_vars(WaitForInterrupt)
  /\ WF_vars(Exec)
  /\ WF_vars(DelayedOutput)
  /\ WF_vars(DmemRespond)
  /\ WF_vars(CheckInstruction)
  /\ WF_vars(CsrAnswer)
  /\ WF_vars(InstructionCommit)

=============================================================================
