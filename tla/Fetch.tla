------------------------------- MODULE Fetch -------------------------------
(***************************************************************************)
(* The fetch side: stage0 (program counter and prediction), stage1 (the    *)
(* realignment of 2- and 4-byte instructions), the buffers pipe0 and pipe1 *)
(* and the re-directions, with the instruction memory subsystem outside.   *)
(* Decode, execute and write back are reduced to what they do to fetch.    *)
(*                                                                         *)
(* The instruction memory is read a word at a time and an instruction may  *)
(* start at either half of a word and span two.  Two streams leave stage0: *)
(* requests, tagged with the epochs, and the entries of pipe0, which carry *)
(* no tag and are paired with the answers by their order alone.            *)
(*                                                                         *)
(* Code may change.  A version is one state of the code (or of the address *)
(* translation); the program changes it and then executes FENCE.I (or      *)
(* SFENCE.VMA).  What is fetched before that instruction commits may be    *)
(* old or new and is squashed, so the change is put at the commit.         *)
(***************************************************************************)
EXTENDS Btb, Sequences

CONSTANTS
  Version,      \* states of the code
  FirstVersion,
  Code,         \* in a version, the instruction that starts at each halfword
  FaultWord,    \* words whose fetch ends in a fault
  FaultData,    \* whether the data of a faulting answer may look like 32-bit code
  AfterFence,   \* versions FENCE.I may make visible
  AfterSfence,  \* versions SFENCE.VMA may make visible
  ResetPc,
  TrapVec,
  WbTarget,     \* in a version, the other targets of write back: re-runs, returns
  IcacheDepth   \* requests the instruction memory subsystem holds

Op == {"PLAIN", "BRANCH", "JAL", "RET"}

ASSUME FetchAssumption ==
  /\ FirstVersion \in Version
  /\ Code \in [Version -> [Half -> [long : BOOLEAN, op : Op, tgt : SUBSET Half]]]
  /\ \A v \in Version, a \in Half : Code[v][a].op # "PLAIN" => Code[v][a].tgt # {}
  /\ FaultWord \subseteq Word
  /\ FaultData \subseteq BOOLEAN /\ FaultData # {}
  /\ AfterFence \in [Version -> SUBSET Version]
  /\ AfterSfence \in [Version -> SUBSET Version]
  /\ {ResetPc, TrapVec} \subseteq Half
  /\ WbTarget \in [Version -> SUBSET Half]
  /\ IcacheDepth \in Nat \ {0}

Pipe0Size == 3   \* mkSizedFIFOF(3)
Pipe1Size == 2   \* mkSizedFIFOF(2)
RespSize  == 2   \* mkSizedBypassFIFOF(2)

VARIABLES
  pc, fence, sfence, delayed,   \* stage0: rg_pc, rg_fence, rg_sfence, rg_delayed_redirect
  td,                           \* stage3: wr_training_data, applied in the next cycle
  eEpoch, wEpoch,               \* every stage's copy: they all flip in the same cycle
  pipe0,                        \* stage0 to stage1
  ireq, iresp,                  \* the instruction side: requests, ff_memory_response
  stale,                        \* external: versions the instruction side may still hold
  kept, receivingUpper,         \* stage1: rg_prev while rg_action is CheckPrev, rg_receiving_upper
  pipe1,                        \* stage1 to stage2
  pipe2, stall,                 \* the instruction before execute; rg_stall of stage2
  inFlight,                     \* an executed instruction may still re-direct
  ver,                          \* the version the program relies on
  arch                          \* history: address of the next instruction to execute

stage0Vars == <<pc, fence, sfence, delayed>>
epochVars == <<eEpoch, wEpoch>>
icacheVars == <<ireq, iresp, stale>>
stage1Vars == <<kept, receivingUpper>>
backVars == <<pipe2, stall, inFlight, td>>
progVars == <<ver, arch>>

vars == <<btbVars, stage0Vars, epochVars, pipe0, icacheVars, stage1Vars, pipe1,
          backVars, progVars>>

Epochs == <<eEpoch, wEpoch>>
Length(v, a) == IF Code[v][a].long THEN 2 ELSE 1

Init ==
  /\ BtbInit
  /\ pc = ResetPc /\ fence = FALSE /\ sfence = FALSE /\ delayed = <<>>
  /\ eEpoch = 0 /\ wEpoch = 0
  /\ pipe0 = <<>> /\ ireq = <<>> /\ iresp = <<>> /\ pipe1 = <<>> /\ pipe2 = <<>>
  /\ stale = {}
  /\ kept = <<>> /\ receivingUpper = FALSE
  /\ stall = FALSE /\ inFlight = FALSE /\ td = <<>>
  /\ ver = FirstVersion
  /\ arch = ResetPc

-----------------------------------------------------------------------------
(* stage0 *)

Send(kind) ==
  /\ Len(pipe0) < Pipe0Size
  /\ Len(ireq) < IcacheDepth
  /\ ~ bpuInit
  /\ ireq' = Append(ireq, [word |-> WordOf(pc), ep |-> Epochs, kind |-> kind])

\* A 32-bit control instruction in the upper half: its other half must be
\* fetched before its target.
EdgeCase(r) == r.hi /\ ~ r.instr16

\* Mutant: the target is fetched without the rest of the instruction.
NextPcAtOnce(r) ==
  IF delayed # <<>> THEN Head(delayed)
  ELSE IF r.pred THEN r.target
  ELSE Plus(2 * WordOf(pc), 2)

NextPc(r) ==
  IF delayed # <<>> THEN Head(delayed)
  ELSE IF r.pred /\ ~ EdgeCase(r) THEN r.target
  ELSE Plus(2 * WordOf(pc), 2)

\* rl_gen_next_pc
GenNextPc ==
  /\ ~ fence /\ ~ sfence
  /\ Send("fetch")
  /\ \E r \in Predictions(pc) :
       /\ pc' = NextPc(r)
       /\ delayed' = IF delayed = <<>> /\ EdgeCase(r) /\ r.pred THEN <<r.target>> ELSE <<>>
       /\ pipe0' = Append(pipe0, [word |-> WordOf(pc), discard |-> IsHi(pc),
                                  hi |-> r.hi, pred |-> r.pred])
  /\ UNCHANGED <<btbVars, fence, sfence, epochVars, iresp, stale, stage1Vars, pipe1,
                 backVars, progVars>>

\* Mutant: the predictor is not told of the fence.
GenFenceKeepsBtb ==
  /\ fence \/ sfence
  /\ td = <<>>
  /\ Send(IF fence THEN "fence" ELSE "sfence")
  /\ fence' = FALSE
  /\ sfence' = FALSE
  /\ UNCHANGED <<btbVars, pc, delayed, epochVars, pipe0, iresp, stale, stage1Vars,
                 pipe1, backVars, progVars>>

\* The same rule behind a fence: the request goes to the instruction side only
\* and the pc is kept for the next round.  A training registered before the
\* flush reaches the buffer in this round, before the buffer is cleared.
GenFence ==
  /\ fence \/ sfence
  /\ td = <<>>
  /\ Send(IF fence THEN "fence" ELSE "sfence")
  /\ fence' = FALSE
  /\ sfence' = FALSE
  /\ bpuInit' = (bpuInit \/ fence)
  /\ UNCHANGED <<btb, allocate, pc, delayed, epochVars, pipe0, iresp, stale, stage1Vars,
                 pipe1, backVars, progVars>>

ClearBtb ==
  /\ Clear
  /\ UNCHANGED <<stage0Vars, epochVars, pipe0, icacheVars, stage1Vars, pipe1, backVars,
                 progVars>>

TrainBtb ==
  /\ td # <<>>
  /\ Train(Head(td))
  /\ td' = <<>>
  /\ UNCHANGED <<stage0Vars, epochVars, pipe0, icacheVars, stage1Vars, pipe1, pipe2,
                 stall, inFlight, progVars>>

-----------------------------------------------------------------------------
(* The instruction memory subsystem (external) *)

\* Mutant: an answer comes with one too many waiting.
ResponseFitsOff == Len(iresp) <= RespSize

ResponseFits == Len(iresp) < RespSize

\* Answers come in order.  A word may be read from a line filled before the
\* code changed, until the fence has been taken.
IcacheRespond ==
  /\ ireq # <<>>
  /\ Head(ireq).kind = "fetch"
  /\ ResponseFits
  /\ LET w == Head(ireq).word
         trap == w \in FaultWord
     IN  \E v \in {ver} \cup stale :
           \E lo \in IF trap THEN FaultData ELSE {Code[v][2 * w].long},
              hi \in IF trap THEN FaultData ELSE {Code[v][2 * w + 1].long} :
             iresp' = Append(iresp, [word |-> w, ep |-> Head(ireq).ep, trap |-> trap,
                                     ver |-> v, lo |-> lo, hi |-> hi])
  /\ ireq' = Tail(ireq)
  /\ UNCHANGED <<btbVars, stage0Vars, epochVars, pipe0, stale, stage1Vars, pipe1,
                 backVars, progVars>>

\* A fence is not answered.
IcacheFence ==
  /\ ireq # <<>>
  /\ Head(ireq).kind # "fetch"
  /\ stale' = {}
  /\ ireq' = Tail(ireq)
  /\ UNCHANGED <<btbVars, stage0Vars, epochVars, pipe0, iresp, stage1Vars, pipe1,
                 backVars, progVars>>

-----------------------------------------------------------------------------
(* stage1: process_instruction *)

Resp == Head(iresp)
FromStage0 == Head(pipe0)

Deq == iresp' = Tail(iresp) /\ pipe0' = Tail(pipe0)

Part(w, half, v) == [at |-> 2 * w + half, ver |-> v]

\* What goes to pipe1; parts: the halves it is made of, in order.
Enq(at, parts, trap, pred) ==
  pipe1' = Append(pipe1, [pc |-> at, parts |-> parts, ep |-> Epochs, trap |-> trap,
                          upperErr |-> receivingUpper /\ Resp.trap, pred |-> pred])

\* rg_action becomes None: whatever rg_prev holds is not read again.
Settle == kept' = <<>> /\ receivingUpper' = FALSE

\* rg_action becomes CheckPrev: the upper half of the word is kept, with the
\* prediction stage0 made for the word.
KeepUpperHalf ==
  /\ kept' = <<[word |-> FromStage0.word, long |-> Resp.hi, ver |-> Resp.ver,
                ep |-> Epochs, hi |-> FromStage0.hi, pred |-> FromStage0.pred]>>
  /\ receivingUpper' = TRUE

\* Mutant: only the response is dropped.
DropHalf ==
  /\ iresp' = Tail(iresp)
  /\ Settle
  /\ UNCHANGED <<pipe0, pipe1>>

\* Mutant: rg_receiving_upper is not reset with rg_action.
DropKeepsUpper ==
  /\ Deq
  /\ kept' = <<>>
  /\ UNCHANGED <<receivingUpper, pipe1>>

\* The response is of another epoch.
DropResponse ==
  /\ Deq
  /\ Settle
  /\ UNCHANGED pipe1

Prev == Head(kept)
PrevPc == 2 * Prev.word + 1
PrevPart == Part(Prev.word, 1, Prev.ver)

\* A prediction for the lower half of a word is not one for its upper half.
PrevPred == Prev.hi /\ Prev.pred

\* The kept half is the first of a 32-bit instruction.
JoinHalves ==
  /\ Prev.long
  /\ Enq(PrevPc, <<PrevPart, Part(Resp.word, 0, Resp.ver)>>, Resp.trap, PrevPred)
  /\ IF PrevPred THEN Settle ELSE KeepUpperHalf
  /\ Deq

\* The kept half is an instruction of its own; the response is left for the
\* next round.
TakePrev ==
  /\ ~ Prev.long
  /\ Enq(PrevPc, <<PrevPart>>, FALSE, PrevPred)
  /\ Settle
  /\ UNCHANGED <<iresp, pipe0>>

\* The target of a jump is the upper half of the word, and only half of an
\* instruction: nothing is passed on, and neither is a fault of this response.
KeepUpper ==
  /\ Resp.hi
  /\ KeepUpperHalf
  /\ Deq
  /\ UNCHANGED pipe1

TakeUpper ==
  /\ ~ Resp.hi
  /\ Enq(2 * FromStage0.word + 1, <<Part(Resp.word, 1, Resp.ver)>>, Resp.trap,
         FromStage0.hi /\ FromStage0.pred)
  /\ kept' = <<>>
  /\ Deq
  /\ UNCHANGED receivingUpper

\* A whole instruction; the prediction is passed on as it is.
TakeWord ==
  /\ Resp.lo
  /\ Enq(2 * FromStage0.word,
         <<Part(Resp.word, 0, Resp.ver), Part(Resp.word, 1, Resp.ver)>>,
         Resp.trap, FromStage0.pred)
  /\ kept' = <<>>
  /\ Deq
  /\ UNCHANGED receivingUpper

LowerPred == ~ FromStage0.hi /\ FromStage0.pred

\* Mutant: the upper half is looked at behind a jump of the lower half as well.
TakeLowerAlways ==
  /\ ~ Resp.lo
  /\ Enq(2 * FromStage0.word, <<Part(Resp.word, 0, Resp.ver)>>, Resp.trap, LowerPred)
  /\ KeepUpperHalf
  /\ Deq

\* A 16-bit instruction in the lower half; the upper half is kept unless fetch
\* has left the word by then.
TakeLower ==
  /\ ~ Resp.lo
  /\ Enq(2 * FromStage0.word, <<Part(Resp.word, 0, Resp.ver)>>, Resp.trap, LowerPred)
  /\ IF LowerPred THEN Settle ELSE KeepUpperHalf
  /\ Deq

\* A half kept under other epochs is ignored.
HasPrev == kept # <<>> /\ Prev.ep = Epochs

ProcessInstruction ==
  /\ pipe0 # <<>>
  /\ iresp # <<>>
  /\ Len(pipe1) < Pipe1Size
  /\ \/ Resp.ep # Epochs /\ DropResponse
     \/ /\ Resp.ep = Epochs
        /\ \/ HasPrev /\ (JoinHalves \/ TakePrev)
           \/ ~ HasPrev /\ FromStage0.discard /\ (KeepUpper \/ TakeUpper)
           \/ ~ HasPrev /\ ~ FromStage0.discard /\ (TakeWord \/ TakeLower)
  /\ UNCHANGED <<btbVars, stage0Vars, epochVars, ireq, stale, backVars, progVars>>

-----------------------------------------------------------------------------
(* Decode and execute *)

\* A trap makes decode wait for a flush.
Decode ==
  /\ pipe1 # <<>>
  /\ pipe2 = <<>>
  /\ ~ stall
  /\ LET h == Head(pipe1)
     IN  IF h.ep = Epochs
         THEN pipe2' = <<h>> /\ stall' = h.trap
         ELSE UNCHANGED <<pipe2, stall>>
  /\ pipe1' = Tail(pipe1)
  /\ UNCHANGED <<btbVars, stage0Vars, epochVars, pipe0, icacheVars, stage1Vars, inFlight,
                 td, progVars>>

InExec == Head(pipe2)
LiveInExec == pipe2 # <<>> /\ InExec.ep = Epochs
Insn(e) == Code[e.parts[1].ver][e.parts[1].at]

ExecFrame ==
  UNCHANGED <<btbVars, pipe0, icacheVars, stage1Vars, pipe1, wEpoch, ver>>

NoRedirect == UNCHANGED <<stage0Vars, eEpoch, stall>>

ExecDrop ==
  /\ pipe2 # <<>>
  /\ InExec.ep # Epochs
  /\ pipe2' = <<>>
  /\ NoRedirect
  /\ ExecFrame
  /\ UNCHANGED <<inFlight, td, arch>>

\* A trap, or an instruction that is not a control instruction.
ExecPlain ==
  /\ LiveInExec
  /\ InExec.trap \/ Insn(InExec).op = "PLAIN"
  /\ pipe2' = <<>>
  /\ inFlight' = TRUE
  /\ arch' = IF InExec.trap THEN arch ELSE Plus(InExec.pc, Len(InExec.parts))
  /\ NoRedirect
  /\ ExecFrame
  /\ UNCHANGED td

\* Mutant: the delayed re-direction survives.
FlushKeepsDelayed(target, isFence, isSfence) ==
  /\ pipe0 # <<>>
  /\ pc' = target
  /\ fence' = isFence
  /\ sfence' = isSfence
  /\ UNCHANGED delayed

\* Mutant: the fence flags are lost.
FlushNoFence(target, isFence, isSfence) ==
  /\ pipe0 # <<>>
  /\ pc' = target
  /\ fence' = FALSE
  /\ sfence' = FALSE
  /\ delayed' = <<>>

\* ma_flush.  It does not look at pipe0, but never finds it empty: rl_gen_next_pc
\* runs in every cycle but when pipe0 is full, when a request waits in front of the
\* instruction side, or when the predictor is being cleared.  The second has its
\* entry in pipe0 or is a fence, and with a fence on its way, as in the third,
\* nothing is live that could re-direct.
Flush(target, isFence, isSfence) ==
  /\ pipe0 # <<>>
  /\ pc' = target
  /\ fence' = isFence
  /\ sfence' = isSfence
  /\ delayed' = <<>>

Ci(op) ==
  CASE op = "BRANCH" -> "Branch"
    [] op = "RET"    -> "Ret"
    [] OTHER         -> "JAL"

\* The direction of a branch is compared with the prediction, the target of a
\* jump with the address behind it.
Mispredicted(op, taken, target) ==
  IF op = "BRANCH" THEN taken # InExec.pred ELSE Head(pipe1).pc # target

\* A control instruction waits for the address behind it.
ExecControl ==
  /\ LiveInExec
  /\ ~ InExec.trap
  /\ Insn(InExec).op # "PLAIN"
  /\ pipe1 # <<>>
  /\ td = <<>>
  /\ \E taken \in IF Insn(InExec).op = "BRANCH" THEN BOOLEAN ELSE {TRUE},
        target \in Insn(InExec).tgt :
       LET next == IF taken THEN target ELSE Plus(InExec.pc, Len(InExec.parts))
       IN  /\ arch' = next
           /\ td' = <<[pc |-> InExec.pc, target |-> target, ci |-> Ci(Insn(InExec).op),
                       instr16 |-> Len(InExec.parts) = 1]>>
           /\ IF Mispredicted(Insn(InExec).op, taken, target)
              THEN /\ Flush(next, FALSE, FALSE)
                   /\ eEpoch' = 1 - eEpoch
                   /\ stall' = FALSE
              ELSE NoRedirect
  /\ pipe2' = <<>>
  /\ inFlight' = TRUE
  /\ ExecFrame

Exec == ExecDrop \/ ExecPlain \/ ExecControl

-----------------------------------------------------------------------------
(* Write back *)

\* Mutant: a flush of write back does not wake decode.
WbFlushKeepsStall(target, isFence, isSfence, v) ==
  /\ inFlight
  /\ Flush(target, isFence, isSfence)
  /\ wEpoch' = 1 - wEpoch
  /\ inFlight' = FALSE
  /\ ver' = v
  /\ stale' = IF v = ver THEN stale ELSE stale \cup {ver}
  /\ arch' = target
  /\ UNCHANGED <<btbVars, eEpoch, stall, pipe0, ireq, iresp, stage1Vars, pipe1, pipe2, td>>

\* Whatever is younger than the committing instruction is squashed.
WbFlush(target, isFence, isSfence, v) ==
  /\ inFlight
  /\ Flush(target, isFence, isSfence)
  /\ wEpoch' = 1 - wEpoch
  /\ stall' = FALSE
  /\ inFlight' = FALSE
  /\ ver' = v
  /\ stale' = IF v = ver THEN stale ELSE stale \cup {ver}
  /\ arch' = target
  /\ UNCHANGED <<btbVars, eEpoch, pipe0, ireq, iresp, stage1Vars, pipe1, pipe2, td>>

\* The trap decode waits for has reached write back.
CommitFetchFault == stall /\ pipe2 = <<>> /\ WbFlush(TrapVec, FALSE, FALSE, ver)

\* Traps and re-runs behind instructions that change the CSRs.
CommitOther == \E t \in {TrapVec} \cup WbTarget[ver] : WbFlush(t, FALSE, FALSE, ver)

CommitFenceI ==
  \E v \in AfterFence[ver] : \E t \in WbTarget[v] : WbFlush(t, TRUE, FALSE, v)

CommitSfence ==
  \E v \in AfterSfence[ver] : \E t \in WbTarget[v] : WbFlush(t, FALSE, TRUE, v)

Next ==
  \/ GenNextPc
  \/ GenFence
  \/ ClearBtb
  \/ TrainBtb
  \/ IcacheRespond
  \/ IcacheFence
  \/ ProcessInstruction
  \/ Decode
  \/ Exec
  \/ CommitFetchFault
  \/ CommitOther
  \/ CommitFenceI
  \/ CommitSfence

Spec == Init /\ [][Next]_vars

\* The rules of the stages fire whenever they can and the instruction side
\* answers; a trap that has been decoded commits.
Fairness ==
  /\ WF_vars(GenNextPc) /\ WF_vars(GenFence) /\ WF_vars(ClearBtb) /\ WF_vars(TrainBtb)
  /\ WF_vars(IcacheRespond) /\ WF_vars(IcacheFence)
  /\ WF_vars(ProcessInstruction)
  /\ WF_vars(Decode) /\ WF_vars(Exec)
  /\ WF_vars(CommitFetchFault)

FairSpec == Spec /\ Fairness

=============================================================================
