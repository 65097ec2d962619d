--------------------------- MODULE PipelineProps ---------------------------
(***************************************************************************)
(* What has to hold of the pipeline.  The instructions in flight are kept  *)
(* in four buffers; most of what can go wrong is a relation between two of *)
(* them, so the properties read the buffers as one sequence, oldest first. *)
(***************************************************************************)
EXTENDS Pipeline

PassedType == {"REG", "STORE", "TRAP", "CSR", "XRET"}
IssuedType == MemType \cup {"WAIT", "REG", "TRAP", "CSR", "XRET"}
Cause == RerunCause \cup {"none", "Interrupt", "Exception"}

FetchedEntry == [pc : Addr, ep : {0, 1} \X {0, 1}, pred : BOOLEAN]
DecodedEntry == [pc : Addr, ep : {0, 1} \X {0, 1}, type : Op \cup {"TRAP"},
                 cause : Cause, pred : BOOLEAN]
IssuedEntry(types) ==
  [pc : Addr, rd : Reg, ep : {0, 1}, type : types, val : Data, cause : Cause]
RequestEntry == [pc : Addr, ep : {0, 1}, type : MemType, val : Data]
ResponseEntry == [pc : Addr, ep : {0, 1}, trap : BOOLEAN, val : Data]
StoreEntry == [pc : Addr, ep : {0, 1}, val : Data]
Operands == [addr : Reg, data : Data]

FetchTypeOK ==
  fetchPc \in Addr /\ pipe1 \in Seq(FetchedEntry) /\ Len(pipe1) <= Pipe1Size

EpochTypeOK == eEpoch \in {0, 1} /\ wEpoch \in {0, 1}

DecodeTypeOK ==
  /\ rgStall \in BOOLEAN /\ rgWfi \in BOOLEAN /\ rgRerun \in BOOLEAN
  /\ rgKind \in RerunCause
  /\ pipe2 \in Seq(DecodedEntry) /\ Len(pipe2) <= 1

OperandTypeOK == rgOp1 \in Operands /\ rgOp2 \in Operands

ExecTypeOK ==
  /\ rgMulti \in BOOLEAN
  /\ reserved \subseteq Data
  /\ pipe3 \in Seq(IssuedEntry(IssuedType)) /\ Len(pipe3) <= Pipe3Size

Pipe4TypeOK == pipe4 \in Seq(IssuedEntry(PassedType)) /\ Len(pipe4) <= 1

DmemTypeOK ==
  /\ dreq \in Seq(RequestEntry) /\ Len(dreq) <= DmemSize
  /\ dresp \in Seq(ResponseEntry) /\ Len(dresp) <= 1

StoreTypeOK ==
  /\ rgStoreInit \in BOOLEAN
  /\ sb \in Seq(StoreEntry) /\ Len(sb) <= SbSize
  /\ mem \in Data

CsrTypeOK ==
  /\ rgCsrWait \in BOOLEAN
  /\ csrResp \in Seq(Data) /\ Len(csrResp) <= 1
  /\ csr \in Data /\ pcsr \in Data
  /\ epc \in Addr

ArchTypeOK ==
  /\ rf \in [Reg -> Data]
  /\ irq \in BOOLEAN
  /\ archPc \in Addr
  /\ sync \in {"none"} \cup RerunCause

\* Every variable holds what its register or buffer can hold, and no buffer
\* holds more than it has room for.
TypeOK ==
  /\ FetchTypeOK
  /\ EpochTypeOK
  /\ DecodeTypeOK
  /\ OperandTypeOK
  /\ ExecTypeOK
  /\ Pipe4TypeOK
  /\ DmemTypeOK
  /\ StoreTypeOK
  /\ CsrTypeOK
  /\ ArchTypeOK

-----------------------------------------------------------------------------
(* Epochs: one bit tells an instruction to keep from one to drop *)

LiveFetched(e) == e.ep = Epochs
LiveIssued(e) == e.ep = wEpoch

\* The instructions past execution, oldest first.
Issued == pipe4 \o pipe3

\* Those before it.
Waiting == pipe2 \o pipe1

\* One epoch bit per origin is enough: whenever an instruction is to be kept,
\* so is every younger one.  Otherwise the next flip of the bit would bring a
\* squashed instruction back to life.
EpochOrder ==
  /\ \A i \in 1..Len(Issued) : LiveIssued(Issued[i]) =>
       /\ \A j \in i..Len(Issued) : LiveIssued(Issued[j])
       /\ \A j \in 1..Len(Waiting) : Waiting[j].ep[2] = wEpoch
  /\ \A i \in 1..Len(Waiting) :
       /\ Waiting[i].ep[2] = wEpoch =>
            \A j \in i..Len(Waiting) : Waiting[j].ep[2] = wEpoch
       /\ LiveFetched(Waiting[i]) =>
            \A j \in i..Len(Waiting) : LiveFetched(Waiting[j])

\* A re-direction squashes everything younger than the instruction that makes
\* it, whatever decode and the other stages do in the same cycle.
FlushSquashes ==
  [][/\ wEpoch' # wEpoch =>
          /\ \A i \in 1..Len(Issued') : Issued'[i].ep # wEpoch'
          /\ \A i \in 1..Len(Waiting') : Waiting'[i].ep # Epochs'
     /\ eEpoch' # eEpoch => \A i \in 1..Len(Waiting') : Waiting'[i].ep # Epochs']_vars

-----------------------------------------------------------------------------
(* Operands and control *)

\* The instructions past execution that will write r.
Writers(r) ==
  {i \in 1..Len(Issued) :
     LiveIssued(Issued[i]) /\ Issued[i].rd = r /\ Issued[i].type # "TRAP"}

\* What register r holds once everything older has committed.
Latest(r, v) ==
  IF Writers(r) = {} THEN v = rf[r]
  ELSE LET i == CHOOSE k \in Writers(r) : \A l \in Writers(r) : l <= k
       IN  /\ \/ Issued[i].type = "REG"
              \/ Issued[i].type = "STORE" /\ i <= Len(pipe4)
           /\ v = Issued[i].val

\* An instruction never executes with a value that an older one in flight is
\* going to replace.  The network offers only the head of pipe3 and nothing of
\* a SYSTEM instruction in pipe4: the depth of pipe3, the stall of rg_stall and
\* the re-run behind SYSTEM instructions have to make up for it.
NoStaleOperand ==
  (ExecReady /\ LiveFetched(InExec) /\ InExec.type # "TRAP") =>
     /\ rgOp1.addr # 0 /\ Rs1.available => Latest(rgOp1.addr, Rs1.data)
     /\ rgOp2.addr # 0 /\ Rs2.available => Latest(rgOp2.addr, Rs2.data)

\* wr_next_pc is the pc the fetch side really predicted behind the control
\* instruction in stage3, so comparing the direction of a branch or the target
\* of a jump with it decides whether fetch went the right way.
NextPcIsSuccessor ==
  (pipe2 # <<>> /\ LiveFetched(InExec) /\ InExec.type \in ControlOp) =>
     LET p == InExec.pc
         taken == IF InExec.type = "BRANCH" THEN {Prog[p].tgt} ELSE Predicted[p]
         after == IF pipe1 = <<>> THEN fetchPc ELSE NextPc
     IN  IF InExec.pred THEN after \in taken ELSE after = Fall[p]

\* The instructions decoded, oldest first: those issued and the one in pipe2.
Decoded == Issued \o pipe2

IsKept(i) ==
  IF i <= Len(Issued) THEN LiveIssued(Decoded[i]) ELSE LiveFetched(Decoded[i])

\* An instruction behind which nothing may run before a re-fetch.
Serialises(i) ==
  IsKept(i) /\ Decoded[i].type # "TRAP" /\ Prog[Decoded[i].pc].op \in SyncOp

\* The trap that fetches again what follows the instruction at p.
IsRefetchFor(e, p) == e.type = "TRAP" /\ e.cause = RerunKind(Prog[p].op)

\* Nothing is executed behind an instruction that may change the CSRs, the
\* translation or the code: at most one instruction follows it, as the trap
\* that fetches it again, and that trap carries the flush it asks for.
SyncBarrier ==
  \A i, j \in 1..Len(Decoded) :
    (i < j /\ Serialises(i) /\ IsKept(j)) =>
       j = i + 1 /\ IsRefetchFor(Decoded[j], Decoded[i].pc)

\* The youngest instruction that has been decoded, when it is to be kept and a
\* trap; any other would be behind it only to be squashed (EpochOrder).
TrapIsYoungest ==
  \/ pipe2 # <<>> /\ LiveFetched(InExec) /\ InExec.type = "TRAP"
  \/ /\ pipe2 = <<>> /\ Issued # <<>>
     /\ LET e == Issued[Len(Issued)] IN LiveIssued(e) /\ e.type = "TRAP"

\* Whoever waits is woken by something in flight: the decode stage by a trap
\* that will flush, stage5 by the store or the CSR access it has started, the
\* execute stage by the unit that owns the last entry of pipe3.
WaitsAreBacked ==
  /\ rgStall => TrapIsYoungest
  /\ rgStoreInit => Commits({"STORE"}) /\ sb # <<>> /\ ~ StoreIsCached
  /\ rgCsrWait => Commits({"CSR"})
  /\ csrResp # <<>> => rgCsrWait
  /\ rgMulti => pipe3 # <<>>
  /\ \A i \in 1..Len(pipe3) : pipe3[i].type = "WAIT" <=> rgMulti /\ i = Len(pipe3)

\* What the documentation says of a CSR instruction: the decode stage stalls in
\* the cycle after it, until a re-direction.  So nothing follows it.
NothingBehindCsr ==
  \A i, j \in 1..Len(Decoded) :
    (IsKept(i) /\ IsKept(j) /\ Decoded[i].type = "CSR") => j <= i

-----------------------------------------------------------------------------
(* The data side *)

SameTag(e, f) == e.pc = f.pc /\ e.ep = f.ep
SameTags(s, t) == Len(s) = Len(t) /\ \A i \in 1..Len(s) : SameTag(s[i], t[i])

\* The places of s that wait for an answer of the data side.
Awaiting(s) == {i \in 1..Len(s) : s[i].type \in MemType}

\* In their order, the answers are one for each entry of s that waits.
AnswersFor(answers, s) ==
  \E asker \in [1..Len(answers) -> Awaiting(s)] :
    /\ \A i \in Awaiting(s) : \E j \in 1..Len(answers) : asker[j] = i
    /\ \A j, k \in 1..Len(answers) : j < k => asker[j] < asker[k]
    /\ \A j \in 1..Len(answers) : SameTag(answers[j], s[asker[j]])

\* The answers of the data side carry no tag but the epoch; the instructions
\* that wait for one are still exactly those with one on its way, in order.
ResponsesPair == AnswersFor(dresp \o dreq, pipe3)

StoreInWb == pipe4 # <<>> /\ InWb.type = "STORE"
StoreAnswered ==
  /\ dresp # <<>> /\ ~ Head(dresp).trap
  /\ Prog[Head(dresp).pc].op \in {"STORE", "AMO", "SC"}

\* The stores that are answered and not committed, oldest first.
StoresDue ==
  (IF StoreInWb THEN pipe4 ELSE <<>>) \o (IF StoreAnswered THEN dresp ELSE <<>>)

\* The data side performs whatever store is oldest when stage5 says so, and
\* stage5 says so without naming it: it is always the one in pipe4.
StoreBufferMirrors == SameTags(sb, StoresDue)

-----------------------------------------------------------------------------
(* Refinement and progress *)

\* During a CSR access the chain may hold the new value one cycle early.
Arch == INSTANCE Isa WITH
  pc <- archPc,
  csr <- IF csrResp = <<>> THEN csr ELSE Head(csrResp)

\* With all its speculation and bypassing the pipeline shows, at write back,
\* the program run one instruction at a time.
ImplementsIsa == Arch!Spec

Retires ==
  \/ CommitTrap
  \/ CommitStore
  \/ UncachedDone
  \/ UncachedError
  \/ CommitCsr
  \/ CommitXret
  \/ CommitReg

\* Instructions keep retiring, unless the hart sleeps in a WFI forever: no
\* stall is forgotten and no re-run is repeated without end.
Progress == <>[]rgWfi \/ []<><<Retires>>_vars

=============================================================================
