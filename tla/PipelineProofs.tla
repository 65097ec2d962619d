--------------------------- MODULE PipelineProofs ---------------------------
(***************************************************************************)
(* What TLAPS proves of the pipeline, for every program, register file,    *)
(* predictor and size of the store buffer.  First the order of the         *)
(* buffers and of what is in flight in them; then that nobody waits for    *)
(* nothing: each stall has in flight what ends it, since it begins with    *)
(* the instruction that ends it, and no step in between lets that          *)
(* instruction pass or be squashed.  Last that answers and buffered        *)
(* stores, which are matched by their order alone, are those of the        *)
(* instructions they are taken for: an instruction enters pipe3 with its   *)
(* request and leaves it with its answer (PairInv), squashed or not, so a  *)
(* store enters the buffer with the answer and leaves it with the          *)
(* instruction (StoreBufferMirrors).                                       *)
(***************************************************************************)
EXTENDS PipelineProps, SequenceTheorems, TLAPS

-----------------------------------------------------------------------------
(* Buffers *)

\* A buffer that is empty.
LEMMA Empty ==
  ASSUME NEW S, NEW s, s = <<>>
  PROVE  s \in Seq(S) /\ Len(s) = 0
BY EmptySeq

\* A buffer with at least one entry has a first entry and room behind it.
LEMMA Popped ==
  ASSUME NEW S, NEW s \in Seq(S), s # <<>>
  PROVE  /\ Head(s) \in S
         /\ Tail(s) \in Seq(S)
         /\ Len(Tail(s)) = Len(s) - 1
         /\ Len(s) \in Nat /\ Len(s) >= 1
BY HeadTailProperties, EmptySeq, LenProperties

\* One entry is a buffer.
LEMMA Single ==
  ASSUME NEW S, NEW e \in S
  PROVE  <<e>> \in Seq(S) /\ Len(<<e>>) = 1 /\ <<e>>[1] = e
OBVIOUS

\* An entry put at the end.
LEMMA Pushed ==
  ASSUME NEW S, NEW s \in Seq(S), NEW e \in S
  PROVE  /\ Append(s, e) \in Seq(S)
         /\ Len(Append(s, e)) = Len(s) + 1
         /\ Append(s, e) # <<>>
BY AppendProperties

-----------------------------------------------------------------------------
(* The type invariant *)

\* What stage5 waits for is in front of it: without this the write of a CSR or
\* of a store that ends the wait could come from an empty buffer.
BusyInv ==
  /\ rgStoreInit => Commits({"STORE"}) /\ sb # <<>>
  /\ rgCsrWait => Commits({"CSR"})

TypeInv == TypeOK /\ BusyInv

\* The initial state satisfies the type invariant.
LEMMA TypeInit == Init => TypeInv
<1> SUFFICES ASSUME Init PROVE TypeInv
  OBVIOUS
<1>1. /\ pipe1 \in Seq(FetchedEntry) /\ Len(pipe1) = 0
      /\ pipe2 \in Seq(DecodedEntry) /\ Len(pipe2) = 0
      /\ pipe3 \in Seq(IssuedEntry(IssuedType)) /\ Len(pipe3) = 0
      /\ pipe4 \in Seq(IssuedEntry(PassedType)) /\ Len(pipe4) = 0
      /\ dreq \in Seq(RequestEntry) /\ Len(dreq) = 0
      /\ dresp \in Seq(ResponseEntry) /\ Len(dresp) = 0
      /\ sb \in Seq(StoreEntry) /\ Len(sb) = 0
      /\ csrResp \in Seq(Data) /\ Len(csrResp) = 0
  BY Empty, Zenon DEF Init
<1>2. /\ fetchPc \in Addr /\ rgKind \in RerunCause
      /\ rgStall \in BOOLEAN /\ rgWfi \in BOOLEAN /\ rgRerun \in BOOLEAN
      /\ rgMulti \in BOOLEAN /\ rgStoreInit \in BOOLEAN /\ rgCsrWait \in BOOLEAN
      /\ reserved \subseteq Data
      /\ mem \in Data /\ csr \in Data /\ pcsr \in Data /\ epc \in Addr
  BY ProgramAssumption DEF Init, RerunCause
<1>3. FetchTypeOK /\ DecodeTypeOK /\ ExecTypeOK /\ Pipe4TypeOK /\ DmemTypeOK
  BY <1>1, <1>2 DEF FetchTypeOK, DecodeTypeOK, ExecTypeOK, Pipe4TypeOK, DmemTypeOK,
                    Pipe1Size, Pipe3Size, DmemSize
<1>4. StoreTypeOK /\ CsrTypeOK
  BY <1>1, <1>2, PipelineAssumption DEF StoreTypeOK, CsrTypeOK
<1>5. EpochTypeOK /\ OperandTypeOK /\ ArchTypeOK
  BY ProgramAssumption DEF Init, EpochTypeOK, OperandTypeOK, Operands, ArchTypeOK
<1>6. BusyInv
  BY DEF Init, BusyInv
<1>7. QED
  BY <1>3, <1>4, <1>5, <1>6 DEF TypeInv, TypeOK

\* What an action leaves alone keeps its type.
LEMMA TypeFrame ==
  ASSUME TypeOK
  PROVE  /\ UNCHANGED fetchVars => FetchTypeOK'
         /\ UNCHANGED <<eEpoch, wEpoch>> => EpochTypeOK'
         /\ UNCHANGED decodeVars => DecodeTypeOK'
         /\ UNCHANGED opVars => OperandTypeOK'
         /\ UNCHANGED execVars => ExecTypeOK'
         /\ UNCHANGED pipe4 => Pipe4TypeOK'
         /\ UNCHANGED dmemVars => DmemTypeOK'
         /\ UNCHANGED storeVars => StoreTypeOK'
         /\ UNCHANGED csrVars => CsrTypeOK'
         /\ UNCHANGED <<rf, irq, archVars>> => ArchTypeOK'
BY DEF TypeOK, FetchTypeOK, EpochTypeOK, DecodeTypeOK, OperandTypeOK, ExecTypeOK, Pipe4TypeOK,
       DmemTypeOK, StoreTypeOK, CsrTypeOK, ArchTypeOK, fetchVars, decodeVars, opVars, execVars,
       dmemVars, storeVars, csrVars, archVars

\* The instruction set is typed.
LEMMA ProgramTyped ==
  ASSUME NEW p \in Addr
  PROVE  /\ Prog[p].op \in Op /\ Prog[p].rd \in Reg
         /\ Prog[p].rs1 \in Reg /\ Prog[p].rs2 \in Reg /\ Prog[p].tgt \in Addr
         /\ Fall[p] \in Addr
         /\ RerunKind(Prog[p].op) \in RerunCause
BY ProgramAssumption DEF Instr, RerunKind, RerunCause

\* Fetch stores a well-formed instruction and moves to an address.
LEMMA DeliverType == TypeInv /\ Deliver => FetchTypeOK'
<1> SUFFICES ASSUME TypeInv, Deliver PROVE FetchTypeOK'
  OBVIOUS
<1> USE DEF TypeInv, TypeOK, FetchTypeOK, EpochTypeOK
<1>1. PICK pred \in BOOLEAN :
        /\ fetchPc' \in IF pred THEN Predicted[fetchPc] ELSE {Fall[fetchPc]}
        /\ pipe1' = Append(pipe1, [pc |-> fetchPc, ep |-> Epochs, pred |-> pred])
  BY DEF Deliver
<1>2. fetchPc' \in Addr
  BY <1>1, ProgramTyped, PipelineAssumption
<1>3. [pc |-> fetchPc, ep |-> Epochs, pred |-> pred] \in FetchedEntry
  BY DEF FetchedEntry, Epochs
<1>4. Len(pipe1) + 1 <= Pipe1Size
  BY LenProperties DEF Deliver, Pipe1Size
<1>5. QED
  BY <1>1, <1>2, <1>3, <1>4, Pushed

\* The first instruction in a buffer that is not empty is well formed.
LEMMA Heads ==
  ASSUME TypeOK
  PROVE  /\ pipe1 # <<>> => Head(pipe1) \in FetchedEntry
         /\ pipe2 # <<>> => InExec \in DecodedEntry
         /\ pipe3 # <<>> => InMem \in IssuedEntry(IssuedType)
         /\ pipe4 # <<>> => InWb \in IssuedEntry(PassedType)
         /\ dreq # <<>> => Head(dreq) \in RequestEntry
         /\ dresp # <<>> => Head(dresp) \in ResponseEntry
         /\ sb # <<>> => Head(sb) \in StoreEntry
         /\ csrResp # <<>> => Head(csrResp) \in Data
BY Popped DEF TypeOK, FetchTypeOK, DecodeTypeOK, ExecTypeOK, Pipe4TypeOK, DmemTypeOK,
              StoreTypeOK, CsrTypeOK, InExec, InMem, InWb

\* An operand read from the register file is well formed.
LEMMA OperandTyped ==
  ASSUME TypeOK, NEW p \in Addr, NEW r \in Reg
  PROVE  Operand(p, r) \in Operands
<1>1. 0 \in Reg /\ 0 \in Data
  BY ProgramAssumption
<1>2. rf \in [Reg -> Data]
  BY DEF TypeOK, ArchTypeOK
<1>3. QED
  BY <1>1, <1>2 DEF Operand, Operands

\* What decode puts into pipe2 is well formed.
LEMMA DispatchType ==
  ASSUME TypeOK, pipe1 # <<>>, NEW flush \in BOOLEAN, Dispatch(flush)
  PROVE  DecodeTypeOK' /\ OperandTypeOK'
<1> DEFINE h == Head(pipe1)
           t == DecodedType(h.pc)
           e == [pc |-> h.pc, ep |-> h.ep, type |-> t,
                 cause |-> IF t = "TRAP" THEN DecodedCause(h.pc) ELSE "none",
                 pred |-> h.pred]
<1>1. h \in FetchedEntry
  BY Heads
<1>2. h.pc \in Addr /\ h.ep \in {0, 1} \X {0, 1} /\ h.pred \in BOOLEAN
  BY <1>1 DEF FetchedEntry
<1>3. t \in Op \cup {"TRAP"}
  BY <1>2, ProgramTyped DEF DecodedType
<1>4. DecodedCause(h.pc) \in Cause
  BY DEF TypeOK, DecodeTypeOK, DecodedCause, Cause
<1>5. e \in DecodedEntry
  BY <1>2, <1>3, <1>4 DEF DecodedEntry, Cause
<1>6. pipe2' = <<e>>
  BY DEF Dispatch
<1>7. pipe2' \in Seq(DecodedEntry) /\ Len(pipe2') = 1
  BY <1>5, <1>6, Single
<1>8. rgOp1' \in Operands /\ rgOp2' \in Operands
  BY <1>2, ProgramTyped, OperandTyped DEF Dispatch
<1>9. rgKind' \in RerunCause
  BY DEF Dispatch, RerunKind, RerunCause
<1>10. rgStall' \in BOOLEAN /\ rgRerun' \in BOOLEAN /\ rgWfi' \in BOOLEAN
  <2>1. rgWfi \in BOOLEAN
    BY DEF TypeOK, DecodeTypeOK
  <2>2. QED
    BY <2>1, Zenon DEF Dispatch
<1>11. QED
  BY <1>7, <1>8, <1>9, <1>10 DEF DecodeTypeOK, OperandTypeOK

\* Decoding keeps the fetch buffer, the decode registers and the operands typed.
LEMMA DecodeIntoType ==
  ASSUME TypeOK, NEW flush \in BOOLEAN, DecodeInto(flush)
  PROVE  /\ DecodeTypeOK' /\ OperandTypeOK'
         /\ pipe1' \in Seq(FetchedEntry) /\ Len(pipe1') <= Pipe1Size
<1>1. pipe1' \in Seq(FetchedEntry) /\ Len(pipe1') <= Pipe1Size
  BY Popped DEF DecodeInto, TypeOK, FetchTypeOK, Pipe1Size
<1>2. CASE DropStale \/ SleepOnWfi(flush)
  <2>1. pipe2' \in Seq(DecodedEntry) /\ Len(pipe2') = 0
    BY <1>2, Empty DEF DropStale, SleepOnWfi
  <2>2. /\ rgStall' \in BOOLEAN /\ rgWfi' \in BOOLEAN /\ rgRerun' \in BOOLEAN
        /\ rgKind' \in RerunCause
    BY <1>2, Zenon DEF DropStale, SleepOnWfi, TypeOK, DecodeTypeOK
  <2>3. OperandTypeOK'
    BY <1>2 DEF DropStale, SleepOnWfi, TypeOK, OperandTypeOK, opVars
  <2>4. QED
    BY <1>1, <2>1, <2>2, <2>3 DEF DecodeTypeOK
<1>3. CASE Dispatch(flush)
  BY <1>1, <1>3, DispatchType DEF DecodeInto
<1>4. QED
  BY <1>2, <1>3 DEF DecodeInto

\* A re-direction keeps them typed.
LEMMA RedirectType ==
  ASSUME TypeOK, NEW target \in Addr, NEW after \in Seq(DecodedEntry), Len(after) <= 1,
         Redirect(target, after)
  PROVE  FetchTypeOK' /\ DecodeTypeOK' /\ OperandTypeOK'
<1>1. fetchPc' \in Addr
  BY DEF Redirect
<1>2. CASE ClearStall /\ pipe2' = after
  <2>1. rgStall' \in BOOLEAN /\ rgWfi' \in BOOLEAN /\ rgRerun' \in BOOLEAN
    BY <1>2, Zenon DEF ClearStall
  <2>2. QED
    BY <1>1, <1>2, <2>1
       DEF ClearStall, TypeOK, FetchTypeOK, DecodeTypeOK, OperandTypeOK, opVars
<1>3. CASE DecodeInto(TRUE)
  BY <1>1, <1>3, DecodeIntoType DEF FetchTypeOK
<1>4. QED
  BY <1>2, <1>3 DEF Redirect

\* The operands the bypass network selects are register values.
LEMMA BypassTyped ==
  ASSUME TypeOK
  PROVE  Rs1.data \in Data /\ Rs2.data \in Data
<1>1. 0 \in Data
  BY ProgramAssumption
<1>2. ForwardFromExe1.data \in Data
  BY <1>1, Heads DEF ForwardFromExe1, NoForward, Offer, InMem, IssuedEntry
<1>3. ForwardFromMem1.data \in Data
  BY <1>1, Heads DEF ForwardFromMem1, NoForward, Offer, InWb, IssuedEntry
<1>4. rgOp1.data \in Data /\ rgOp2.data \in Data
  BY DEF TypeOK, OperandTypeOK, Operands
<1>5. QED
  BY <1>2, <1>3, <1>4 DEF Rs1, Rs2, ForwardData

\* An issued instruction is well formed and there is room for it.
LEMMA IssueType ==
  ASSUME TypeOK, ExecReady, NEW type \in IssuedType, NEW val \in Data, NEW cause \in Cause,
         Issue(type, val, cause)
  PROVE  pipe3' \in Seq(IssuedEntry(IssuedType)) /\ Len(pipe3') <= Pipe3Size
<1>1. InExec.pc \in Addr /\ InExec.ep[2] \in {0, 1}
  BY Heads DEF ExecReady, DecodedEntry
<1>2. Entry(type, val, cause) \in IssuedEntry(IssuedType)
  BY <1>1, ProgramTyped DEF Entry, IssuedEntry
<1>3. pipe3 \in Seq(IssuedEntry(IssuedType)) /\ Len(pipe3) + 1 <= Pipe3Size
  BY LenProperties DEF TypeOK, ExecTypeOK, ExecReady, Pipe3Size
<1>4. QED
  BY <1>2, <1>3, Pushed DEF Issue

\* Leaving the execute stage without a re-direction keeps the front typed.
LEMMA NoRedirectType ==
  ASSUME TypeOK, NoRedirect
  PROVE  FetchTypeOK' /\ DecodeTypeOK' /\ OperandTypeOK'
<1>1. pipe2' \in Seq(DecodedEntry) /\ Len(pipe2') = 0
  BY Empty DEF NoRedirect
<1>2. QED
  BY <1>1 DEF NoRedirect, TypeOK, FetchTypeOK, DecodeTypeOK, OperandTypeOK, fetchVars, opVars

\* A request to the data side is well formed.
LEMMA RequestType ==
  ASSUME TypeOK, ExecReady, NEW type \in MemType, Request(type)
  PROVE  /\ FetchTypeOK' /\ DecodeTypeOK' /\ OperandTypeOK'
         /\ pipe3' \in Seq(IssuedEntry(IssuedType)) /\ Len(pipe3') <= Pipe3Size
         /\ dreq' \in Seq(RequestEntry) /\ Len(dreq') <= DmemSize
         /\ rgMulti' \in BOOLEAN
<1> DEFINE r == [pc |-> InExec.pc, ep |-> InExec.ep[2], type |-> type, val |-> Rs2.data]
<1>1. InExec.pc \in Addr /\ InExec.ep[2] \in {0, 1}
  BY Heads DEF ExecReady, DecodedEntry
<1>2. r \in RequestEntry
  BY <1>1, BypassTyped DEF RequestEntry
<1>3. dreq \in Seq(RequestEntry) /\ Len(dreq) + 1 <= DmemSize
  BY LenProperties DEF TypeOK, DmemTypeOK, ExecReady, DmemSize
<1>4. dreq' \in Seq(RequestEntry) /\ Len(dreq') <= DmemSize
  BY <1>2, <1>3, Pushed DEF Request
<1>5. type \in IssuedType /\ 0 \in Data /\ "none" \in Cause
  BY ProgramAssumption DEF IssuedType, Cause
<1>6. pipe3' \in Seq(IssuedEntry(IssuedType)) /\ Len(pipe3') <= Pipe3Size
  BY <1>5, IssueType DEF Request
<1>7. QED
  BY <1>4, <1>6, NoRedirectType DEF Request, TypeOK, ExecTypeOK

\* The target of a control instruction and its successor are addresses.
LEMMA TargetTyped ==
  ASSUME NEW p \in Addr, NEW a \in Data, NEW b \in Data
  PROVE  Target(p, a) \in Addr /\ Successor(p, a, b) \in Addr
BY ProgramTyped, ValueAssumption DEF Target, Successor

\* What execution changes stays typed.
LEMMA ExecType ==
  ASSUME TypeInv, Exec
  PROVE  /\ FetchTypeOK' /\ DecodeTypeOK' /\ OperandTypeOK' /\ ExecTypeOK'
         /\ eEpoch' \in {0, 1}
         /\ dreq' \in Seq(RequestEntry) /\ Len(dreq') <= DmemSize
<1> DEFINE P3 == pipe3' \in Seq(IssuedEntry(IssuedType)) /\ Len(pipe3') <= Pipe3Size
           Front == FetchTypeOK' /\ DecodeTypeOK' /\ OperandTypeOK'
           Q == dreq' \in Seq(RequestEntry) /\ Len(dreq') <= DmemSize
           Frame == TypeOK /\ eEpoch \in {0, 1} /\ reserved \subseteq Data /\ rgMulti \in BOOLEAN
                      /\ dreq \in Seq(RequestEntry) /\ Len(dreq) <= DmemSize
<1>0. Frame
  BY DEF TypeInv, TypeOK, EpochTypeOK, ExecTypeOK, DmemTypeOK
<1>1. Rs1.data \in Data /\ Rs2.data \in Data /\ 0 \in Data /\ 1 \in Data
  BY <1>0, BypassTyped, ProgramAssumption
<1>2. ASSUME ExecReady PROVE InExec.pc \in Addr /\ InExec.cause \in Cause /\ InExec.type \in Op \cup {"TRAP"}
  BY <1>0, <1>2, Heads DEF ExecReady, DecodedEntry
<1>3. {"TRAP", "REG", "WAIT", "CSR", "XRET"} \subseteq IssuedType /\ {"none", "Exception"} \subseteq Cause
  BY DEF IssuedType, Cause
<1>4. CASE ExecDrop
  <2>1. Front
    BY <1>0, <1>4, NoRedirectType DEF ExecDrop
  <2>2. QED
    BY <1>0, <1>4, <2>1 DEF ExecDrop, execVars, TypeOK, ExecTypeOK, NoRedirect
<1>5. CASE ExecTrap
  <2>1. Front /\ P3
    BY <1>0, <1>1, <1>2, <1>3, <1>5, NoRedirectType, IssueType DEF ExecTrap, Executes
  <2>2. QED
    BY <1>0, <1>5, <2>1 DEF ExecTrap, ExecTypeOK, NoRedirect
<1>6. CASE ExecAlu
  <2>1. Result(InExec.pc, Rs1.data, Rs2.data) \in Data
    BY <1>1, <1>2, <1>6, ValueAssumption DEF ExecAlu, Executes
  <2>2. Front /\ P3
    BY <1>0, <1>3, <1>6, <2>1, NoRedirectType, IssueType DEF ExecAlu, Executes
  <2>3. QED
    BY <1>0, <1>6, <2>2 DEF ExecAlu, ExecTypeOK, NoRedirect
<1>7. CASE ExecMulti
  <2>1. Result(InExec.pc, Rs1.data, Rs2.data) \in Data
    BY <1>1, <1>2, <1>7, ValueAssumption DEF ExecMulti, Executes
  <2>2. Front /\ P3
    BY <1>0, <1>3, <1>7, <2>1, NoRedirectType, IssueType DEF ExecMulti, Executes
  <2>3. QED
    BY <1>0, <1>7, <2>2 DEF ExecMulti, ExecTypeOK, NoRedirect
<1>8. CASE ExecSystem
  <2>1. InExec.type \in IssuedType
    BY <1>3, <1>8 DEF ExecSystem, Executes, SystemOp
  <2>2. Front /\ P3
    BY <1>0, <1>1, <1>3, <1>8, <2>1, NoRedirectType, IssueType DEF ExecSystem, Executes
  <2>3. QED
    BY <1>0, <1>8, <2>2 DEF ExecSystem, ExecTypeOK, NoRedirect
<1>9. CASE ExecMisaligned
  <2>1. Front /\ P3
    BY <1>0, <1>1, <1>3, <1>9, NoRedirectType, IssueType DEF ExecMisaligned, Executes
  <2>2. QED
    BY <1>0, <1>9, <2>1 DEF ExecMisaligned, ExecTypeOK, NoRedirect
<1>10. CASE ExecAccess
  <2>1. InExec.type \in MemType
    BY <1>10 DEF ExecAccess, Executes, MemType
  <2>2. Front /\ P3 /\ Q /\ rgMulti' \in BOOLEAN
    BY <1>0, <1>10, <2>1, RequestType DEF ExecAccess, Executes
  <2>3. QED
    BY <1>0, <1>10, <2>2 DEF ExecAccess, Request, NoRedirect, ExecTypeOK
<1>11. CASE ExecFence
  <2>1. Front /\ P3 /\ Q /\ rgMulti' \in BOOLEAN
    BY <1>0, <1>11, RequestType DEF ExecFence, Executes, MemType
  <2>2. QED
    BY <1>0, <1>11, <2>1 DEF ExecFence, Request, NoRedirect, ExecTypeOK
<1>12. CASE ExecLoadReserved
  <2>1. Front /\ P3 /\ Q /\ rgMulti' \in BOOLEAN
    BY <1>0, <1>12, RequestType DEF ExecLoadReserved, Executes, MemType
  <2>2. QED
    BY <1>0, <1>1, <1>12, <2>1 DEF ExecLoadReserved, Request, NoRedirect, ExecTypeOK
<1>13. CASE ExecStoreConditional
  <2>1. Front /\ P3 /\ Q /\ rgMulti' \in BOOLEAN /\ UNCHANGED eEpoch
    <3>1. CASE Request("STORE")
      BY <1>0, <1>13, <3>1, RequestType
         DEF ExecStoreConditional, Executes, MemType, Request, NoRedirect
    <3>2. CASE /\ Issue("REG", 1, "none")
               /\ NoRedirect
               /\ UNCHANGED <<rgMulti, dreq>>
      <4>1. Front /\ P3
        BY <1>0, <1>1, <1>3, <1>13, <3>2, NoRedirectType, IssueType
           DEF ExecStoreConditional, Executes
      <4>2. QED
        BY <1>0, <3>2, <4>1 DEF NoRedirect
    <3>3. QED
      BY <1>13, <3>1, <3>2 DEF ExecStoreConditional
  <2>2. QED
    BY <1>0, <1>13, <2>1 DEF ExecStoreConditional, ExecTypeOK
<1>14. CASE ExecControl
  <2>1. Result(InExec.pc, Rs1.data, Rs2.data) \in Data
    BY <1>1, <1>2, <1>14, ValueAssumption DEF ExecControl, Executes
  <2>2. P3
    BY <1>0, <1>1, <1>3, <1>14, <2>1, IssueType DEF ExecControl, Executes
  <2>3. Front /\ eEpoch' \in {0, 1}
    <3>1. CASE NoRedirect
      BY <1>0, <3>1, NoRedirectType DEF NoRedirect
    <3>2. CASE /\ eEpoch' = 1 - eEpoch
               /\ Redirect(Successor(InExec.pc, Rs1.data, Rs2.data), <<>>)
      <4>1. <<>> \in Seq(DecodedEntry) /\ Len(<<>>) <= 1
        BY EmptySeq
      <4>2. Successor(InExec.pc, Rs1.data, Rs2.data) \in Addr
        BY <1>1, <1>2, <1>14, TargetTyped DEF ExecControl, Executes
      <4>3. Front
        BY <1>0, <3>2, <4>1, <4>2, RedirectType
      <4>4. QED
        BY <1>0, <3>2, <4>3
    <3>3. QED
      BY <1>14, <3>1, <3>2 DEF ExecControl
  <2>4. QED
    BY <1>0, <1>14, <2>2, <2>3 DEF ExecControl, ExecTypeOK
<1>15. QED
  BY <1>4, <1>5, <1>6, <1>7, <1>8, <1>9, <1>10, <1>11, <1>12, <1>13, <1>14 DEF Exec

\* The unit that finishes turns the entry it owns into a result.
LEMMA DelayedType == ASSUME TypeInv, DelayedOutput PROVE ExecTypeOK'
<1> DEFINE n == Len(pipe3)
<1>1. pipe3 \in Seq(IssuedEntry(IssuedType)) /\ n <= Pipe3Size /\ reserved \subseteq Data
  BY DEF TypeInv, TypeOK, ExecTypeOK
<1>2. CASE pipe3 = <<>>
  <2>1. pipe3' = pipe3
    BY <1>1, <1>2 DEF DelayedOutput
  <2>2. QED
    BY <1>1, <2>1 DEF DelayedOutput, ExecTypeOK
<1>3. CASE pipe3 # <<>>
  <2>1. n \in 1..Len(pipe3)
    BY <1>1, <1>3, EmptySeq, LenProperties
  <2>2. pipe3[n] \in IssuedEntry(IssuedType)
    BY <1>1, <2>1, ElementOfSeq
  <2>3. [pipe3[n] EXCEPT !.type = "REG"] \in IssuedEntry(IssuedType)
    BY <2>2 DEF IssuedEntry, IssuedType
  <2>4. pipe3' = [pipe3 EXCEPT ![n] = [pipe3[n] EXCEPT !.type = "REG"]]
    BY DEF DelayedOutput
  <2>5. pipe3' \in Seq(IssuedEntry(IssuedType)) /\ Len(pipe3') = n
    BY <1>1, <2>1, <2>3, <2>4, ExceptSeq
  <2>6. QED
    BY <1>1, <2>5 DEF DelayedOutput, ExecTypeOK
<1>4. QED
  BY <1>2, <1>3

\* An answer is well formed, and so is a store put into the store buffer.
LEMMA RespondType == ASSUME TypeInv, DmemRespond PROVE DmemTypeOK' /\ StoreTypeOK'
<1> DEFINE q == Head(dreq)
<1>1. dreq # <<>> /\ q.pc \in Addr /\ q.ep \in {0, 1} /\ q.val \in Data
  BY Heads DEF TypeInv, DmemRespond, DmemFault, DmemRead, DmemStore, RequestEntry
<1>2. ASSUME NEW t \in BOOLEAN, NEW v \in Data, Answer(t, v) PROVE DmemTypeOK'
  <2>1. [pc |-> q.pc, ep |-> q.ep, trap |-> t, val |-> v] \in ResponseEntry
    BY <1>1 DEF ResponseEntry
  <2>2. dresp' \in Seq(ResponseEntry) /\ Len(dresp') = 1
    BY <1>2, <2>1, Single DEF Answer
  <2>3. dreq' \in Seq(RequestEntry) /\ Len(dreq') <= DmemSize
    BY <1>1, <1>2, Popped DEF Answer, TypeInv, TypeOK, DmemTypeOK, DmemSize
  <2>4. QED
    BY <2>2, <2>3 DEF DmemTypeOK
<1>3. DmemTypeOK'
  BY <1>2, ProgramAssumption DEF DmemRespond, DmemFault, DmemRead, DmemStore
<1>4. StoreTypeOK'
  <2>1. CASE UNCHANGED sb
    BY <2>1 DEF DmemRespond, TypeInv, TypeOK, StoreTypeOK
  <2>2. CASE DmemStore
    <3>1. [pc |-> q.pc, ep |-> q.ep, val |-> q.val] \in StoreEntry
      BY <1>1 DEF StoreEntry
    <3>2. sb \in Seq(StoreEntry) /\ Len(sb) + 1 <= SbSize
      BY <2>2, LenProperties, PipelineAssumption DEF DmemStore, TypeInv, TypeOK, StoreTypeOK
    <3>3. sb' \in Seq(StoreEntry) /\ Len(sb') <= SbSize
      BY <2>2, <3>1, <3>2, Pushed DEF DmemStore
    <3>4. QED
      BY <3>3 DEF DmemRespond, TypeInv, TypeOK, StoreTypeOK
  <2>3. QED
    BY <2>1, <2>2 DEF DmemRespond, DmemFault, DmemRead
<1>5. QED
  BY <1>3, <1>4

\* What stage4 hands on is well formed.
LEMMA CheckType ==
  ASSUME TypeInv, CheckInstruction
  PROVE  ExecTypeOK' /\ Pipe4TypeOK' /\ DmemTypeOK'
<1>1. /\ pipe3 \in Seq(IssuedEntry(IssuedType)) /\ Len(pipe3) <= Pipe3Size /\ pipe3 # <<>>
      /\ pipe4 \in Seq(IssuedEntry(PassedType)) /\ Len(pipe4) <= 1
      /\ dresp \in Seq(ResponseEntry) /\ Len(dresp) <= 1
      /\ InMem \in IssuedEntry(IssuedType)
  BY Heads DEF TypeInv, TypeOK, ExecTypeOK, Pipe4TypeOK, DmemTypeOK, CheckInstruction
<1>2. Tail(pipe3) \in Seq(IssuedEntry(IssuedType)) /\ Len(Tail(pipe3)) <= Pipe3Size
  BY <1>1, Popped DEF Pipe3Size
<1>3. CASE PassInstruction
  <2>1. InMem \in IssuedEntry(PassedType)
    BY <1>1, <1>3 DEF PassInstruction, IssuedEntry, IssuedType, PassedType
  <2>2. pipe4' \in Seq(IssuedEntry(PassedType)) /\ Len(pipe4') = 1
    BY <1>3, <2>1, Single DEF PassInstruction
  <2>3. QED
    BY <1>1, <1>2, <1>3, <2>2
       DEF PassInstruction, CheckInstruction, TypeInv, TypeOK, ExecTypeOK, Pipe4TypeOK, DmemTypeOK
<1>4. CASE TakeAnswer
  <2>1. dresp' \in Seq(ResponseEntry) /\ Len(dresp') = 0
    BY <1>4, Empty DEF TakeAnswer
  <2>2. Head(dresp) \in ResponseEntry
    BY <1>4, Heads DEF TakeAnswer, TypeInv
  <2>3. Answered(Head(dresp)) \in IssuedEntry(PassedType)
    BY <1>1, <2>2, ProgramAssumption DEF Answered, IssuedEntry, PassedType, ResponseEntry, Cause
  <2>4. <<Answered(Head(dresp))>> \in Seq(IssuedEntry(PassedType))
        /\ Len(<<Answered(Head(dresp))>>) <= 1
    BY <2>3, Single
  <2>5. /\ pipe4' \in Seq(IssuedEntry(PassedType)) /\ Len(pipe4') <= 1
        /\ pipe3' \in Seq(IssuedEntry(IssuedType)) /\ Len(pipe3') <= Pipe3Size
    BY <1>1, <1>2, <1>4, <2>4 DEF TakeAnswer
  <2>6. QED
    BY <2>1, <2>5
       DEF CheckInstruction, TypeInv, TypeOK, ExecTypeOK, Pipe4TypeOK, DmemTypeOK
<1>5. QED
  BY <1>3, <1>4 DEF CheckInstruction

\* A committed value reaches the register file and the operands typed.
LEMMA CommitRdType ==
  ASSUME TypeOK, NEW r \in Reg, NEW v \in Data, CommitRd(r, v)
  PROVE  OperandTypeOK' /\ rf' \in [Reg -> Data]
<1>1. rf' \in [Reg -> Data]
  BY DEF CommitRd, TypeOK, ArchTypeOK
<1>2. rgOp1' \in Operands /\ rgOp2' \in Operands
  BY DEF CommitRd, Updated, TypeOK, OperandTypeOK, Operands
<1>3. QED
  BY <1>1, <1>2 DEF OperandTypeOK

\* The history of a retired instruction is typed.
LEMMA RetireType ==
  ASSUME TypeOK, NEW p \in Addr, Retire(p)
  PROVE  archPc' \in Addr /\ sync' \in {"none"} \cup RerunCause
<1>1. rf[Prog[p].rs1] \in Data /\ rf[Prog[p].rs2] \in Data
  BY ProgramTyped DEF TypeOK, ArchTypeOK
<1>2. archPc' \in Addr
  BY <1>1, TargetTyped DEF Retire
<1>3. sync' \in {"none"} \cup RerunCause
  BY ProgramTyped DEF Retire, TypeOK, ArchTypeOK
<1>4. QED
  BY <1>2, <1>3

\* A store leaves the store buffer typed.
LEMMA InitiateType ==
  ASSUME TypeOK, sb # <<>>, InitiateStore
  PROVE  sb' \in Seq(StoreEntry) /\ Len(sb') <= SbSize /\ mem' \in Data
<1>1. Head(sb).val \in Data
  BY Heads DEF StoreEntry
<1>2. sb' \in Seq(StoreEntry) /\ Len(sb') <= SbSize
  BY Popped, PipelineAssumption DEF InitiateStore, TypeOK, StoreTypeOK
<1>3. QED
  BY <1>1, <1>2 DEF InitiateStore, TypeOK, StoreTypeOK

\* Everything a flush from the write-back stage changes stays typed.
LEMMA FlushType ==
  ASSUME TypeOK, NEW target \in Addr, FlushFromWb(target)
  PROVE  FetchTypeOK' /\ DecodeTypeOK' /\ OperandTypeOK' /\ wEpoch' \in {0, 1}
<1>1. pipe2 \in Seq(DecodedEntry) /\ Len(pipe2) <= 1 /\ wEpoch \in {0, 1}
  BY DEF TypeOK, DecodeTypeOK, EpochTypeOK
<1>2. QED
  BY <1>1, RedirectType DEF FlushFromWb

\* A trap writes the CSRs and the history typed.
LEMMA TrapType ==
  ASSUME TypeOK, NEW p \in Addr, TrapTo(p)
  PROVE  /\ FetchTypeOK' /\ DecodeTypeOK' /\ OperandTypeOK' /\ CsrTypeOK'
         /\ wEpoch' \in {0, 1} /\ UNCHANGED <<rf, sync>> /\ archPc' \in Addr
<1>1. TrapVec \in Addr /\ 0 \in Data
  BY ProgramAssumption
<1>2. FetchTypeOK' /\ DecodeTypeOK' /\ OperandTypeOK' /\ wEpoch' \in {0, 1}
  BY <1>1, FlushType DEF TrapTo
<1>3. CsrTypeOK'
  BY <1>1 DEF TrapTo, TypeOK, CsrTypeOK
<1>4. QED
  BY <1>1, <1>2, <1>3 DEF TrapTo

\* Every way an instruction can leave stage5 keeps the types.
LEMMA CommitType ==
  ASSUME TypeInv, InstructionCommit
  PROVE  /\ FetchTypeOK' /\ DecodeTypeOK' /\ OperandTypeOK' /\ Pipe4TypeOK'
         /\ StoreTypeOK' /\ CsrTypeOK' /\ wEpoch' \in {0, 1}
         /\ rf' \in [Reg -> Data] /\ archPc' \in Addr /\ sync' \in {"none"} \cup RerunCause
<1> DEFINE Front == FetchTypeOK' /\ DecodeTypeOK' /\ OperandTypeOK' /\ wEpoch' \in {0, 1}
           Past == /\ rf' \in [Reg -> Data] /\ archPc' \in Addr
                   /\ sync' \in {"none"} \cup RerunCause
           Here == /\ rf \in [Reg -> Data] /\ archPc \in Addr
                   /\ sync \in {"none"} \cup RerunCause
<1>0. /\ TypeOK /\ Here
      /\ FetchTypeOK /\ DecodeTypeOK /\ OperandTypeOK /\ StoreTypeOK /\ CsrTypeOK
      /\ wEpoch \in {0, 1}
  BY DEF TypeInv, TypeOK, ArchTypeOK, EpochTypeOK
<1>1. pipe4 # <<>>
  BY DEF InstructionCommit, Commits, CommitRerun, CommitTrap, CommitStore, InitiateUncached,
         UncachedDone, UncachedError, CsrRequest, CommitCsr, CommitXret, CommitReg,
         DropInstruction
<1>2. InWb.pc \in Addr /\ InWb.rd \in Reg /\ InWb.val \in Data
  BY <1>0, <1>1, Heads DEF IssuedEntry
<1>3. ASSUME pipe4' = <<>> PROVE Pipe4TypeOK'
  <2>1. pipe4' \in Seq(IssuedEntry(PassedType)) /\ Len(pipe4') = 0
    BY <1>3, Empty
  <2>2. QED
    BY <2>1 DEF Pipe4TypeOK
<1>4. ASSUME NoFlush PROVE FetchTypeOK' /\ DecodeTypeOK' /\ wEpoch' \in {0, 1}
  BY <1>0, <1>4, TypeFrame DEF NoFlush, fetchVars, decodeVars
<1>5. ASSUME UNCHANGED storeVars PROVE StoreTypeOK'
  BY <1>0, <1>5, TypeFrame
<1>6. ASSUME UNCHANGED csrVars PROVE CsrTypeOK'
  BY <1>0, <1>6, TypeFrame
<1>7. rgStoreInit => sb # <<>>
  BY DEF TypeInv, BusyInv
<1>8. CASE CommitRerun
  <2>1. Front
    BY <1>0, <1>2, <1>8, FlushType DEF CommitRerun
  <2>2. Past
    BY <1>0, <1>2, <1>8 DEF CommitRerun
  <2>3. QED
    BY <1>3, <1>5, <1>6, <1>8, <2>1, <2>2 DEF CommitRerun
<1>9. CASE CommitTrap
  BY <1>0, <1>2, <1>3, <1>5, <1>9, TrapType DEF CommitTrap
<1>10. CASE CommitStore
  <2>1. OperandTypeOK' /\ Past
    BY <1>0, <1>2, <1>10, CommitRdType, RetireType DEF CommitStore
  <2>2. StoreTypeOK'
    BY <1>0, <1>10, InitiateType DEF CommitStore, StoreTypeOK
  <2>3. QED
    BY <1>3, <1>4, <1>6, <1>10, <2>1, <2>2 DEF CommitStore
<1>11. CASE InitiateUncached
  <2>1. StoreTypeOK' /\ Pipe4TypeOK' /\ Past
    BY <1>0, <1>11 DEF InitiateUncached, StoreTypeOK, TypeOK, Pipe4TypeOK, archVars
  <2>2. OperandTypeOK'
    BY <1>0, <1>11, TypeFrame DEF InitiateUncached
  <2>3. QED
    BY <1>4, <1>6, <1>11, <2>1, <2>2 DEF InitiateUncached
<1>12. CASE UncachedDone
  <2>1. OperandTypeOK' /\ Past
    BY <1>0, <1>2, <1>12, CommitRdType, RetireType DEF UncachedDone
  <2>2. StoreTypeOK'
    BY <1>0, <1>7, <1>12, InitiateType DEF UncachedDone, StoreTypeOK
  <2>3. QED
    BY <1>3, <1>4, <1>6, <1>12, <2>1, <2>2 DEF UncachedDone
<1>13. CASE UncachedError
  <2>1. Front /\ CsrTypeOK' /\ Past
    BY <1>0, <1>2, <1>13, TrapType DEF UncachedError
  <2>2. sb' \in Seq(StoreEntry) /\ Len(sb') <= SbSize
    BY <1>0, <1>7, <1>13, Popped, PipelineAssumption DEF UncachedError, StoreTypeOK
  <2>3. StoreTypeOK'
    BY <1>0, <1>13, <2>2 DEF UncachedError, StoreTypeOK
  <2>4. QED
    BY <1>3, <1>13, <2>1, <2>3 DEF UncachedError
<1>14. CASE CsrRequest
  <2>1. OperandTypeOK' /\ Past /\ StoreTypeOK' /\ Pipe4TypeOK'
    BY <1>0, <1>14, TypeFrame DEF CsrRequest, archVars
  <2>2. CsrTypeOK'
    BY <1>0, <1>14 DEF CsrRequest, CsrTypeOK
  <2>3. QED
    BY <1>4, <1>14, <2>1, <2>2 DEF CsrRequest
<1>15. CASE CommitCsr
  <2>1. Head(csrResp) \in Data
    BY <1>0, <1>15, Heads DEF CommitCsr
  <2>2. OperandTypeOK' /\ Past
    BY <1>0, <1>2, <1>15, <2>1, CommitRdType, RetireType DEF CommitCsr
  <2>3. csrResp' \in Seq(Data) /\ Len(csrResp') = 0
    BY <1>15, Empty DEF CommitCsr
  <2>3a. rgCsrWait' \in BOOLEAN /\ UNCHANGED <<csr, pcsr, epc>>
    BY <1>15, Zenon DEF CommitCsr
  <2>4. CsrTypeOK'
    BY <1>0, <2>3, <2>3a DEF CsrTypeOK
  <2>5. QED
    BY <1>3, <1>4, <1>5, <1>15, <2>2, <2>4 DEF CommitCsr
<1>16. CASE CommitXret
  <2>1. epc \in Addr /\ pcsr \in Data /\ 1 \in Data
    BY <1>0, ProgramAssumption DEF CsrTypeOK
  <2>2. Front
    BY <1>0, <1>16, <2>1, FlushType DEF CommitXret
  <2>3. CsrTypeOK' /\ Past
    BY <1>0, <1>16, <2>1 DEF CommitXret, CsrTypeOK
  <2>4. QED
    BY <1>3, <1>5, <1>16, <2>2, <2>3 DEF CommitXret
<1>17. CASE CommitReg
  <2>1. OperandTypeOK' /\ Past
    BY <1>0, <1>2, <1>17, CommitRdType, RetireType DEF CommitReg
  <2>2. QED
    BY <1>3, <1>4, <1>5, <1>6, <1>17, <2>1 DEF CommitReg
<1>18. CASE DropInstruction
  <2>1. OperandTypeOK' /\ Past
    BY <1>0, <1>18, TypeFrame DEF DropInstruction, archVars
  <2>2. StoreTypeOK'
    BY <1>0, <1>18, InitiateType DEF DropInstruction, StoreTypeOK
  <2>3. QED
    BY <1>3, <1>4, <1>6, <1>18, <2>1, <2>2 DEF DropInstruction
<1>19. QED
  BY <1>8, <1>9, <1>10, <1>11, <1>12, <1>13, <1>14, <1>15, <1>16, <1>17, <1>18
     DEF InstructionCommit

\* No step takes away what stage5 waits for: only stage5 itself ends the wait,
\* changes the epoch or shortens the store buffer.
LEMMA BusyStep == ASSUME TypeInv, [Next]_vars PROVE BusyInv'
<1> DEFINE Waits == rgStoreInit \/ rgCsrWait
<1>1. CASE UNCHANGED <<pipe4, wEpoch, rgStoreInit, rgCsrWait, sb>>
  BY <1>1 DEF TypeInv, BusyInv, Commits, InWb
<1>2. CASE DmemRespond
  <2>1. sb # <<>> => sb' # <<>>
    <3>1. CASE DmemStore
      <4>1. [pc |-> Head(dreq).pc, ep |-> Head(dreq).ep, val |-> Head(dreq).val] \in StoreEntry
        BY <3>1, Heads DEF DmemStore, TypeInv, RequestEntry, StoreEntry
      <4>2. QED
        BY <3>1, <4>1, Pushed DEF DmemStore, TypeInv, TypeOK, StoreTypeOK
    <3>2. QED
      BY <1>2, <3>1 DEF DmemRespond, DmemFault, DmemRead
  <2>2. UNCHANGED <<pipe4, wEpoch, rgStoreInit, rgCsrWait>>
    BY <1>2 DEF DmemRespond, csrVars
  <2>3. QED
    BY <2>1, <2>2 DEF TypeInv, BusyInv, Commits, InWb
<1>3. CASE CheckInstruction
  BY <1>3 DEF CheckInstruction, TypeInv, BusyInv, Commits, storeVars, csrVars
<1>4. CASE InstructionCommit
  <2>1. CASE InitiateUncached
    BY <2>1 DEF InitiateUncached, TypeInv, BusyInv, Commits, InWb, NoFlush, csrVars
  <2>2. CASE CsrRequest
    BY <2>2 DEF CsrRequest, TypeInv, BusyInv, Commits, InWb, NoFlush, storeVars
  <2>3. CASE UncachedDone \/ UncachedError
    BY <2>3 DEF UncachedDone, UncachedError, TrapTo, TypeInv, BusyInv, Commits, csrVars
  <2>4. CASE CommitCsr
    BY <2>4 DEF CommitCsr, TypeInv, BusyInv, Commits, storeVars
  <2>5. CASE CommitStore
    BY <2>5 DEF CommitStore, TypeInv, BusyInv, Commits, csrVars
  <2>6. CASE CommitRerun \/ CommitTrap \/ CommitXret \/ CommitReg \/ DropInstruction
    <3>1. ~ Waits
      BY <2>6 DEF CommitRerun, CommitTrap, CommitXret, CommitReg, DropInstruction, TypeInv,
                  BusyInv, Commits
    <3>2. UNCHANGED <<rgStoreInit, rgCsrWait>>
      BY <2>6 DEF CommitRerun, CommitTrap, CommitXret, CommitReg, DropInstruction, TrapTo,
                  storeVars, csrVars
    <3>3. QED
      BY <3>1, <3>2 DEF BusyInv
  <2>7. QED
    BY <1>4, <2>1, <2>2, <2>3, <2>4, <2>5, <2>6 DEF InstructionCommit
<1>5. CASE Exec
  BY <1>1, <1>5
     DEF Exec, ExecDrop, ExecTrap, ExecAlu, ExecMulti, ExecSystem, ExecMisaligned, ExecAccess,
         ExecFence, ExecLoadReserved, ExecStoreConditional, ExecControl, Request, ExecFrame,
         storeVars, csrVars
<1>6. CASE Deliver \/ Decode \/ WaitForInterrupt \/ DelayedOutput \/ CsrAnswer \/ ToggleIrq
  BY <1>1, <1>6 DEF Deliver, Decode, WaitForInterrupt, DelayedOutput, CsrAnswer, ToggleIrq,
                    storeVars, csrVars
<1>7. CASE UNCHANGED vars
  BY <1>1, <1>7 DEF vars, storeVars, csrVars
<1>8. QED
  BY <1>2, <1>3, <1>4, <1>5, <1>6, <1>7 DEF Next

\* Every step keeps the type invariant.
LEMMA TypeStep == ASSUME TypeInv, [Next]_vars PROVE TypeInv'
<1>0. TypeOK /\ BusyInv'
  BY BusyStep DEF TypeInv
<1>1. CASE Deliver
  BY <1>0, <1>1, DeliverType, TypeFrame DEF Deliver, TypeInv, TypeOK
<1>2. CASE Decode
  <2>1. /\ DecodeTypeOK' /\ OperandTypeOK'
        /\ pipe1' \in Seq(FetchedEntry) /\ Len(pipe1') <= Pipe1Size
    BY <1>0, <1>2, DecodeIntoType DEF Decode
  <2>2. FetchTypeOK'
    BY <1>0, <1>2, <2>1 DEF Decode, TypeOK, FetchTypeOK
  <2>3. QED
    BY <1>0, <1>2, <2>1, <2>2, TypeFrame DEF Decode, TypeInv, TypeOK
<1>3. CASE WaitForInterrupt
  <2>1. rgWfi' \in BOOLEAN
    BY <1>3, Zenon DEF WaitForInterrupt
  <2>2. DecodeTypeOK'
    BY <1>0, <1>3, <2>1 DEF WaitForInterrupt, TypeOK, DecodeTypeOK
  <2>3. QED
    BY <1>0, <1>3, <2>2, TypeFrame DEF WaitForInterrupt, TypeInv, TypeOK
<1>4. CASE Exec
  <2>1. UNCHANGED <<wEpoch, pipe4, dresp, storeVars, csrVars, rf, irq, archVars>>
    BY <1>4
       DEF Exec, ExecDrop, ExecTrap, ExecAlu, ExecMulti, ExecSystem, ExecMisaligned, ExecAccess,
           ExecFence, ExecLoadReserved, ExecStoreConditional, ExecControl, Request, ExecFrame
  <2>2. /\ FetchTypeOK' /\ DecodeTypeOK' /\ OperandTypeOK' /\ ExecTypeOK'
        /\ eEpoch' \in {0, 1}
        /\ dreq' \in Seq(RequestEntry) /\ Len(dreq') <= DmemSize
    BY <1>4, ExecType
  <2>3. EpochTypeOK' /\ DmemTypeOK'
    BY <1>0, <2>1, <2>2 DEF TypeOK, EpochTypeOK, DmemTypeOK
  <2>4. QED
    BY <1>0, <2>1, <2>2, <2>3, TypeFrame DEF TypeInv, TypeOK
<1>5. CASE DelayedOutput
  BY <1>0, <1>5, DelayedType, TypeFrame DEF DelayedOutput, TypeInv, TypeOK
<1>6. CASE DmemRespond
  BY <1>0, <1>6, RespondType, TypeFrame DEF DmemRespond, TypeInv, TypeOK
<1>7. CASE CheckInstruction
  BY <1>0, <1>7, CheckType, TypeFrame DEF CheckInstruction, TypeInv, TypeOK
<1>8. CASE CsrAnswer
  <2>1. InWb.val \in Data
    BY <1>0, <1>8, Heads DEF CsrAnswer, BusyInv, TypeInv, Commits, IssuedEntry
  <2>2. csr \in Data /\ CsrTypeOK
    BY <1>0 DEF TypeOK, CsrTypeOK
  <2>3. csrResp' \in Seq(Data) /\ Len(csrResp') = 1
    BY <1>8, <2>2, Single DEF CsrAnswer
  <2>4. csr' \in Data /\ UNCHANGED <<rgCsrWait, pcsr, epc>>
    BY <1>8, <2>1 DEF CsrAnswer
  <2>5. CsrTypeOK'
    BY <2>2, <2>3, <2>4 DEF CsrTypeOK
  <2>6. QED
    BY <1>0, <1>8, <2>5, TypeFrame DEF CsrAnswer, TypeInv, TypeOK
<1>9. CASE InstructionCommit
  <2>1. CommitFrame
    BY <1>9 DEF InstructionCommit, CommitRerun, CommitTrap, CommitStore, InitiateUncached,
                UncachedDone, UncachedError, CsrRequest, CommitCsr, CommitXret, CommitReg,
                DropInstruction
  <2>2. /\ FetchTypeOK' /\ DecodeTypeOK' /\ OperandTypeOK' /\ Pipe4TypeOK'
        /\ StoreTypeOK' /\ CsrTypeOK' /\ wEpoch' \in {0, 1}
        /\ rf' \in [Reg -> Data] /\ archPc' \in Addr /\ sync' \in {"none"} \cup RerunCause
    BY <1>9, CommitType
  <2>3. EpochTypeOK' /\ ArchTypeOK' /\ ExecTypeOK' /\ DmemTypeOK'
    <3>1. irq' = irq /\ eEpoch' = eEpoch /\ ExecTypeOK' /\ DmemTypeOK'
      BY <1>0, <2>1, TypeFrame DEF CommitFrame
    <3>2. irq' \in BOOLEAN /\ eEpoch' \in {0, 1}
      BY <1>0, <3>1 DEF TypeOK, ArchTypeOK, EpochTypeOK
    <3>3. QED
      BY <2>2, <3>1, <3>2 DEF EpochTypeOK, ArchTypeOK
  <2>4. QED
    BY <1>0, <2>2, <2>3 DEF TypeInv, TypeOK
<1>10. CASE ToggleIrq
  <2>1. irq' \in BOOLEAN
    BY <1>10, Zenon DEF ToggleIrq
  <2>2. ArchTypeOK'
    BY <1>0, <1>10, <2>1 DEF ToggleIrq, TypeOK, ArchTypeOK, archVars
  <2>3. QED
    BY <1>0, <1>10, <2>2, TypeFrame DEF ToggleIrq, TypeInv, TypeOK
<1>11. CASE UNCHANGED vars
  BY <1>0, <1>11, TypeFrame DEF vars, TypeInv, TypeOK
<1>12. QED
  BY <1>1, <1>2, <1>3, <1>4, <1>5, <1>6, <1>7, <1>8, <1>9, <1>10, <1>11 DEF Next

\* TypeInv is an invariant of the pipeline.
THEOREM TypeInvariance == Spec => []TypeInv
<1>1. TypeInv /\ [Next]_vars => TypeInv'
  BY TypeStep
<1>2. QED
  BY TypeInit, <1>1, PTL DEF Spec

\* Every register and buffer of the pipeline stays within its type and its
\* size, for every program, predictor and store buffer.
THEOREM TypeCorrect == Spec => []TypeOK
<1>1. TypeInv => TypeOK
  BY DEF TypeInv
<1>2. QED
  BY TypeInvariance, <1>1, PTL

-----------------------------------------------------------------------------
(***************************************************************************)
(* One epoch bit per origin of a re-direction is enough.  The argument: an *)
(* instruction re-directs only while it is itself to be kept; then all the *)
(* younger ones carry its bit (EpochInv), so flipping the bit squashes all *)
(* of them at once and leaves no older one with the new value.             *)
(***************************************************************************)

-----------------------------------------------------------------------------
(* Entries of a buffer that lie in a set *)

All(s, L) == \A i \in 1..Len(s) : s[i] \in L
Some(s, L) == \E i \in 1..Len(s) : s[i] \in L

\* Once an entry is in L, so are all the entries behind it.
Closed(s, L) == \A i \in 1..Len(s) : s[i] \in L => \A j \in i..Len(s) : s[j] \in L

\* A buffer that is empty, all in L or not at all in L is closed.
LEMMA ClosedCases ==
  ASSUME NEW S, NEW s \in Seq(S), NEW L, s = <<>> \/ All(s, L) \/ ~ Some(s, L)
  PROVE  Closed(s, L)
<1>1. Len(s) \in Nat /\ (s = <<>> => Len(s) = 0)
  BY LenProperties, EmptySeq
<1>2. QED
  BY <1>1 DEF All, Some, Closed

\* An empty buffer has no entry, one entry decides for itself.
LEMMA SmallBuffers ==
  ASSUME NEW L
  PROVE  /\ \A s : s = <<>> => All(s, L) /\ ~ Some(s, L)
         /\ \A e : (Some(<<e>>, L) <=> e \in L) /\ (All(<<e>>, L) <=> e \in L)
<1>1. \A s : s = <<>> => All(s, L) /\ ~ Some(s, L)
  BY EmptySeq DEF All, Some
<1>2. ASSUME NEW e PROVE (Some(<<e>>, L) <=> e \in L) /\ (All(<<e>>, L) <=> e \in L)
  <2>1. Len(<<e>>) = 1 /\ <<e>>[1] = e
    OBVIOUS
  <2>2. QED
    BY <2>1 DEF All, Some
<1>3. QED
  BY <1>1, <1>2

\* Taking the first entry away.
LEMMA TailClosed ==
  ASSUME NEW S, NEW s \in Seq(S), s # <<>>, NEW L, Closed(s, L)
  PROVE  /\ Closed(Tail(s), L)
         /\ All(s, L) => All(Tail(s), L) /\ Head(s) \in L
         /\ Head(s) \in L => All(s, L)
         /\ Some(Tail(s), L) => Some(s, L)
<1> DEFINE n == Len(s)
<1>1. /\ n \in Nat /\ n >= 1 /\ Head(s) = s[1]
      /\ Len(Tail(s)) = n - 1
      /\ \A i \in 1..(n - 1) : Tail(s)[i] = s[i + 1]
  BY Popped, HeadTailProperties
<1>2. Closed(Tail(s), L)
  <2> SUFFICES ASSUME NEW i \in 1..(n - 1), Tail(s)[i] \in L, NEW j \in i..(n - 1)
               PROVE  Tail(s)[j] \in L
    BY <1>1 DEF Closed
  <2>1. s[i + 1] \in L /\ i + 1 \in 1..n /\ j + 1 \in (i + 1)..n /\ j \in 1..(n - 1)
    BY <1>1
  <2>2. s[j + 1] \in L
    BY <2>1 DEF Closed
  <2>3. QED
    BY <1>1, <2>1, <2>2
<1>3. All(s, L) => All(Tail(s), L) /\ Head(s) \in L
  <2>1. \A i \in 1..(n - 1) : i + 1 \in 1..n
    BY <1>1
  <2>2. QED
    BY <1>1, <2>1 DEF All
<1>4. Head(s) \in L => All(s, L)
  BY <1>1 DEF All, Closed
<1>5. Some(Tail(s), L) => Some(s, L)
  <2>1. \A i \in 1..(n - 1) : i + 1 \in 1..n
    BY <1>1
  <2>2. QED
    BY <1>1, <2>1 DEF Some
<1>6. QED
  BY <1>2, <1>3, <1>4, <1>5

\* Adding an entry that lies in L.
LEMMA AppendClosed ==
  ASSUME NEW S, NEW s \in Seq(S), NEW e \in S, NEW L, Closed(s, L), e \in L
  PROVE  /\ Closed(Append(s, e), L)
         /\ All(s, L) => All(Append(s, e), L)
<1> DEFINE n == Len(s)
           t == Append(s, e)
<1>1. /\ n \in Nat /\ Len(t) = n + 1 /\ t[n + 1] = e
      /\ \A i \in 1..n : t[i] = s[i]
  BY AppendProperties, LenProperties
<1>2. \A i \in 1..(n + 1) : i \in 1..n \/ i = n + 1
  BY <1>1
<1>3. All(s, L) => All(t, L)
  BY <1>1, <1>2 DEF All
<1>4. Closed(t, L)
  <2> SUFFICES ASSUME NEW i \in 1..(n + 1), t[i] \in L, NEW j \in i..(n + 1)
               PROVE  t[j] \in L
    BY <1>1 DEF Closed
  <2>1. CASE j = n + 1
    BY <1>1, <2>1
  <2>2. CASE j # n + 1
    <3>1. i \in 1..n /\ j \in 1..n /\ j \in i..n
      BY <1>1, <2>2
    <3>2. QED
      BY <1>1, <3>1 DEF Closed
  <2>3. QED
    BY <2>1, <2>2
<1>5. QED
  BY <1>3, <1>4

-----------------------------------------------------------------------------
(* What a step does to the buffers and the epochs *)

\* Decode takes the head of pipe1; what it keeps carries the current epochs.
DecodeMove ==
  /\ pipe1 # <<>>
  /\ pipe1' = Tail(pipe1)
  /\ \/ pipe2' = <<>>
     \/ \E e \in DecodedEntry : e.ep = Epochs /\ Head(pipe1).ep = Epochs /\ pipe2' = <<e>>

FetchMove ==
  /\ \E e \in FetchedEntry : e.ep = Epochs /\ pipe1' = Append(pipe1, e)
  /\ UNCHANGED <<eEpoch, wEpoch, pipe2, pipe3, pipe4>>

IssueMove == \E e \in IssuedEntry(IssuedType) : e.ep = wEpoch /\ pipe3' = Append(pipe3, e)

\* An instruction leaves pipe2, for pipe3 if it is to be kept.
ExecMove ==
  /\ pipe2 # <<>> /\ pipe2' = <<>>
  /\ \/ pipe3' = pipe3
     \/ LiveFetched(InExec) /\ IssueMove
  /\ UNCHANGED <<eEpoch, wEpoch, pipe1, pipe4>>

\* A control instruction that is to be kept re-directs.
RedirectMove ==
  /\ pipe2 # <<>> /\ LiveFetched(InExec) /\ IssueMove
  /\ eEpoch' = 1 - eEpoch
  /\ \/ pipe1' = pipe1 /\ pipe2' = <<>>
     \/ DecodeMove
  /\ UNCHANGED <<wEpoch, pipe4>>

\* A unit that finishes changes no epoch.
FinishMove ==
  /\ Len(pipe3') = Len(pipe3)
  /\ \A i \in 1..Len(pipe3) : pipe3'[i].ep = pipe3[i].ep
  /\ UNCHANGED <<eEpoch, wEpoch, pipe1, pipe2, pipe4>>

PassMove ==
  /\ pipe3 # <<>> /\ pipe3' = Tail(pipe3)
  /\ pipe4 = <<>>
  /\ \E e \in IssuedEntry(PassedType) : e.ep = InMem.ep /\ pipe4' = <<e>>
  /\ UNCHANGED <<eEpoch, wEpoch, pipe1, pipe2>>

LeaveMove == pipe4' \in {pipe4, <<>>} /\ UNCHANGED <<eEpoch, wEpoch, pipe1, pipe2, pipe3>>

\* An instruction that is to be kept flushes from write back.
FlushMove ==
  /\ pipe4 # <<>> /\ LiveIssued(InWb) /\ pipe4' = <<>>
  /\ wEpoch' = 1 - wEpoch
  /\ \/ UNCHANGED <<pipe1, pipe2>>
     \/ pipe2 = <<>> /\ DecodeMove
  /\ UNCHANGED <<eEpoch, pipe3>>

Move ==
  \/ FetchMove
  \/ pipe2 = <<>> /\ DecodeMove /\ UNCHANGED <<eEpoch, wEpoch, pipe3, pipe4>>
  \/ ExecMove
  \/ RedirectMove
  \/ FinishMove
  \/ PassMove
  \/ LeaveMove
  \/ FlushMove

\* Decoding is a DecodeMove.
LEMMA DecodeMoves ==
  ASSUME TypeOK, NEW flush \in BOOLEAN, DecodeInto(flush), DecodeTypeOK'
  PROVE  DecodeMove
<1>1. CASE DropStale \/ SleepOnWfi(flush)
  BY <1>1 DEF DecodeInto, DecodeMove, DropStale, SleepOnWfi
<1>2. CASE Dispatch(flush)
  <2>1. PICK e : pipe2' = <<e>> /\ e.ep = Epochs /\ Head(pipe1).ep = Epochs
    BY <1>2 DEF Dispatch
  <2>2. pipe2' # <<>> /\ Head(pipe2') = e
    BY <2>1
  <2>3. e \in DecodedEntry
    BY <2>2, Popped DEF DecodeTypeOK
  <2>4. QED
    BY <2>1, <2>3 DEF DecodeInto, DecodeMove
<1>3. QED
  BY <1>1, <1>2 DEF DecodeInto

\* An issued instruction carries the epoch of the write-back stage it was
\* fetched in.
LEMMA IssueMoves ==
  ASSUME TypeOK, Executes(Op \cup {"TRAP"}), NEW type \in IssuedType, NEW val \in Data,
         NEW cause \in Cause, Issue(type, val, cause)
  PROVE  IssueMove
<1>1. InExec.pc \in Addr /\ InExec.ep = Epochs /\ wEpoch \in {0, 1}
  BY Heads DEF Executes, ExecReady, DecodedEntry, TypeOK, EpochTypeOK
<1>2. Entry(type, val, cause) \in IssuedEntry(IssuedType) /\ Entry(type, val, cause).ep = wEpoch
  BY <1>1, ProgramTyped DEF Entry, IssuedEntry, Epochs
<1>3. QED
  BY <1>2 DEF Issue, IssueMove

\* What execution does to the buffers.
LEMMA ExecMoves ==
  ASSUME TypeInv, Exec, DecodeTypeOK'
  PROVE  ExecMove \/ RedirectMove
<1> DEFINE Live == Executes(Op \cup {"TRAP"})
<1>0. /\ TypeOK /\ Rs1.data \in Data /\ Rs2.data \in Data /\ 0 \in Data /\ 1 \in Data
      /\ {"TRAP", "REG", "WAIT", "CSR", "XRET"} \cup MemType \subseteq IssuedType
      /\ {"none", "Exception"} \subseteq Cause
      /\ MemType = {"LOAD", "STORE", "AMO", "FENCE"}
  BY BypassTyped, ProgramAssumption DEF TypeInv, IssuedType, Cause, MemType
<1>1. ASSUME NEW types \in SUBSET (Op \cup {"TRAP"}), Executes(types)
      PROVE  /\ Live /\ pipe2 # <<>> /\ LiveFetched(InExec)
             /\ InExec.pc \in Addr /\ InExec.cause \in Cause
             /\ Result(InExec.pc, Rs1.data, Rs2.data) \in Data
  <2>1. Live /\ pipe2 # <<>> /\ LiveFetched(InExec)
    BY <1>1 DEF Executes, ExecReady, LiveFetched
  <2>2. InExec.pc \in Addr /\ InExec.cause \in Cause
    BY <1>0, <2>1, Heads DEF DecodedEntry
  <2>3. QED
    BY <1>0, <2>1, <2>2, ValueAssumption
<1>2. ASSUME Live, LiveFetched(InExec), pipe2 # <<>>, NoRedirect, ExecFrame,
             NEW type \in IssuedType, NEW val \in Data, NEW cause \in Cause,
             Issue(type, val, cause)
      PROVE  ExecMove
  BY <1>0, <1>2, IssueMoves DEF ExecMove, NoRedirect, ExecFrame, fetchVars
<1>3. CASE ExecDrop
  <2>1. pipe2 # <<>> /\ pipe2' = <<>> /\ pipe3' = pipe3
    BY <1>3 DEF ExecDrop, ExecReady, NoRedirect, execVars
  <2>2. UNCHANGED <<eEpoch, wEpoch, pipe1, pipe4>>
    BY <1>3 DEF ExecDrop, NoRedirect, ExecFrame, fetchVars
  <2>3. QED
    BY <2>1, <2>2 DEF ExecMove
<1>4. CASE ExecTrap
  BY <1>0, <1>1, <1>2, <1>4 DEF ExecTrap
<1>5. CASE ExecAlu
  BY <1>0, <1>1, <1>2, <1>5 DEF ExecAlu, Op
<1>6. CASE ExecMulti
  BY <1>0, <1>1, <1>2, <1>6 DEF ExecMulti, Op
<1>7. CASE ExecSystem
  <2>1. Executes(SystemOp) /\ InExec.type \in {"CSR", "XRET"}
    BY <1>7 DEF ExecSystem, Executes, SystemOp
  <2>2. QED
    BY <1>0, <1>1, <1>2, <1>7, <2>1 DEF ExecSystem, Op
<1>8. CASE ExecMisaligned
  BY <1>0, <1>1, <1>2, <1>8 DEF ExecMisaligned, Op
<1>9. CASE ExecAccess
  <2>1. Executes({"LOAD", "STORE", "AMO"}) /\ InExec.type \in {"LOAD", "STORE", "AMO"}
    BY <1>9 DEF ExecAccess, Executes
  <2>2. QED
    BY <1>0, <1>1, <1>2, <1>9, <2>1 DEF ExecAccess, Request, Op, AccessOp
<1>10. CASE ExecFence
  BY <1>0, <1>1, <1>2, <1>10 DEF ExecFence, Request, Op
<1>11. CASE ExecLoadReserved
  BY <1>0, <1>1, <1>2, <1>11 DEF ExecLoadReserved, Request, Op, AccessOp
<1>12. CASE ExecStoreConditional
  BY <1>0, <1>1, <1>2, <1>12 DEF ExecStoreConditional, Request, Op, AccessOp
<1>13. CASE ExecControl
  <2>1. Live /\ pipe2 # <<>> /\ LiveFetched(InExec)
        /\ Result(InExec.pc, Rs1.data, Rs2.data) \in Data /\ ExecFrame
    BY <1>1, <1>13 DEF ExecControl, Op
  <2>2. CASE ControlTrap /\ Issue("TRAP", 0, "Exception") /\ NoRedirect
    BY <1>0, <1>2, <2>1, <2>2
  <2>3. CASE /\ Issue("REG", Result(InExec.pc, Rs1.data, Rs2.data), "none")
             /\ ~ Mispredicted /\ NoRedirect
    BY <1>0, <1>2, <2>1, <2>3
  <2>4. CASE /\ Issue("REG", Result(InExec.pc, Rs1.data, Rs2.data), "none")
             /\ eEpoch' = 1 - eEpoch
             /\ Redirect(Successor(InExec.pc, Rs1.data, Rs2.data), <<>>)
    <3>1. IssueMove
      BY <1>0, <2>1, <2>4, IssueMoves
    <3>2. (pipe1' = pipe1 /\ pipe2' = <<>>) \/ DecodeMove
      BY <1>0, <2>4, DecodeMoves DEF Redirect, ClearStall
    <3>3. QED
      BY <2>1, <2>4, <3>1, <3>2 DEF RedirectMove, ExecFrame
  <2>5. QED
    BY <1>13, <2>2, <2>3, <2>4 DEF ExecControl
<1>14. QED
  BY <1>3, <1>4, <1>5, <1>6, <1>7, <1>8, <1>9, <1>10, <1>11, <1>12, <1>13 DEF Exec

\* What the write-back stage does to the buffers.
LEMMA CommitMoves ==
  ASSUME TypeInv, InstructionCommit, DecodeTypeOK'
  PROVE  LeaveMove \/ FlushMove
<1> DEFINE Frame == UNCHANGED <<eEpoch, pipe3>>
           Live == pipe4 # <<>> /\ LiveIssued(InWb)
<1>0. TypeOK
  BY DEF TypeInv
<1>1. Frame
  BY DEF InstructionCommit, CommitRerun, CommitTrap, CommitStore, InitiateUncached, UncachedDone,
         UncachedError, CsrRequest, CommitCsr, CommitXret, CommitReg, DropInstruction,
         CommitFrame, execVars
<1>2. ASSUME Live, pipe4' = <<>>, NEW target, FlushFromWb(target) PROVE FlushMove
  <2>1. CASE ClearStall /\ pipe2' = pipe2
    BY <1>1, <1>2, <2>1 DEF FlushMove, FlushFromWb, ClearStall
  <2>2. CASE pipe2 = <<>> /\ DecodeInto(TRUE)
    BY <1>0, <1>1, <1>2, <2>2, DecodeMoves DEF FlushMove, FlushFromWb
  <2>3. QED
    BY <1>2, <2>1, <2>2 DEF FlushFromWb, Redirect
<1>3. ASSUME NoFlush, pipe4' \in {pipe4, <<>>} PROVE LeaveMove
  BY <1>1, <1>3 DEF NoFlush, LeaveMove, fetchVars, decodeVars
<1>4. CASE CommitRerun \/ CommitTrap \/ UncachedError \/ CommitXret
  BY <1>2, <1>4 DEF CommitRerun, CommitTrap, UncachedError, CommitXret, TrapTo, Commits, LiveIssued
<1>5. CASE CommitStore \/ InitiateUncached \/ UncachedDone \/ CsrRequest \/ CommitCsr
             \/ CommitReg \/ DropInstruction
  BY <1>3, <1>5 DEF CommitStore, InitiateUncached, UncachedDone, CsrRequest, CommitCsr,
                    CommitReg, DropInstruction
<1>6. QED
  BY <1>4, <1>5 DEF InstructionCommit

\* Every step is one of these moves.
LEMMA Moves == ASSUME TypeInv, [Next]_vars PROVE Move
<1>0. TypeOK /\ DecodeTypeOK' /\ Pipe4TypeOK'
  BY TypeStep DEF TypeInv, TypeOK
<1>1. CASE UNCHANGED <<eEpoch, wEpoch, pipe1, pipe2, pipe3, pipe4>>
  BY <1>1 DEF Move, LeaveMove
<1>2. CASE Deliver
  <2>1. PICK pred \in BOOLEAN :
          pipe1' = Append(pipe1, [pc |-> fetchPc, ep |-> Epochs, pred |-> pred])
    BY <1>2 DEF Deliver
  <2>2. [pc |-> fetchPc, ep |-> Epochs, pred |-> pred] \in FetchedEntry
    BY <1>0 DEF TypeOK, FetchTypeOK, EpochTypeOK, FetchedEntry, Epochs
  <2>3. FetchMove
    BY <1>2, <2>1, <2>2 DEF FetchMove, Deliver, decodeVars, execVars
  <2>4. QED
    BY <2>3 DEF Move
<1>3. CASE Decode
  <2>1. DecodeMove
    BY <1>0, <1>3, DecodeMoves DEF Decode
  <2>2. QED
    BY <1>3, <2>1 DEF Move, Decode, execVars
<1>4. CASE Exec
  BY <1>0, <1>4, ExecMoves DEF Move
<1>5. CASE DelayedOutput
  <2>1. pipe3 \in Seq(IssuedEntry(IssuedType))
    BY <1>0 DEF TypeOK, ExecTypeOK
  <2>2. Len(pipe3') = Len(pipe3) /\ \A i \in 1..Len(pipe3) : pipe3'[i].ep = pipe3[i].ep
    <3>1. pipe3' = [pipe3 EXCEPT ![Len(pipe3)] = [pipe3[Len(pipe3)] EXCEPT !.type = "REG"]]
      BY <1>5 DEF DelayedOutput
    <3>2. \A i \in 1..Len(pipe3) : pipe3[i] \in IssuedEntry(IssuedType)
      BY <2>1, ElementOfSeq
    <3>3. Len(pipe3) \in Nat /\ DOMAIN pipe3 = 1..Len(pipe3)
      BY <2>1, LenProperties
    <3>4. CASE pipe3 = <<>>
      <4>1. Len(pipe3) = 0
        BY <3>4, EmptySeq
      <4>2. pipe3' = pipe3
        BY <2>1, <3>1, <3>3, <4>1
      <4>3. QED
        BY <4>2
    <3>5. CASE pipe3 # <<>>
      <4> DEFINE n == Len(pipe3)
      <4>1. n \in 1..Len(pipe3)
        BY <2>1, <3>5, EmptySeq, LenProperties
      <4>2. [pipe3[n] EXCEPT !.type = "REG"] \in IssuedEntry(IssuedType)
        BY <3>2, <4>1 DEF IssuedEntry, IssuedType
      <4>3. Len(pipe3') = n
        BY <2>1, <3>1, <4>1, <4>2, ExceptSeq
      <4>4. ASSUME NEW i \in 1..n PROVE pipe3'[i].ep = pipe3[i].ep
        BY <3>1, <3>2, <3>3, <4>4 DEF IssuedEntry
      <4>5. QED
        BY <4>3, <4>4
    <3>6. QED
      BY <3>4, <3>5
  <2>3. FinishMove
    BY <1>5, <2>2 DEF FinishMove, DelayedOutput, fetchVars, decodeVars
  <2>4. QED
    BY <2>3 DEF Move
<1>6. CASE CheckInstruction
  <2>1. CASE UNCHANGED <<pipe3, pipe4>>
    BY <1>1, <1>6, <2>1 DEF CheckInstruction, fetchVars, decodeVars
  <2>2. CASE pipe3' = Tail(pipe3) /\ \E e : e.ep = InMem.ep /\ pipe4' = <<e>>
    <3>1. PICK e : e.ep = InMem.ep /\ pipe4' = <<e>>
      BY <2>2
    <3>2. pipe4' # <<>> /\ Head(pipe4') = e
      BY <3>1
    <3>3. e \in IssuedEntry(PassedType)
      BY <1>0, <3>2, Popped DEF Pipe4TypeOK
    <3>4. PassMove
      BY <1>6, <2>2, <3>1, <3>3 DEF PassMove, CheckInstruction, fetchVars, decodeVars
    <3>5. QED
      BY <3>4 DEF Move
  <2>3. InMem \in IssuedEntry(IssuedType)
    BY <1>0, <1>6, Heads DEF CheckInstruction
  <2>4. CASE PassInstruction
    BY <2>2, <2>4 DEF PassInstruction
  <2>5. CASE TakeAnswer
    <3>1. Answered(Head(dresp)).ep = InMem.ep
      BY <2>3 DEF Answered, IssuedEntry
    <3>2. QED
      BY <2>1, <2>2, <2>5, <3>1 DEF TakeAnswer
  <2>6. QED
    BY <1>6, <2>4, <2>5 DEF CheckInstruction
<1>7. CASE InstructionCommit
  BY <1>0, <1>7, CommitMoves DEF Move
<1>8. CASE WaitForInterrupt \/ DmemRespond \/ CsrAnswer \/ ToggleIrq \/ UNCHANGED vars
  <2>1. UNCHANGED <<eEpoch, wEpoch, pipe1, pipe2, pipe3, pipe4>>
    BY <1>8 DEF WaitForInterrupt, DmemRespond, CsrAnswer, ToggleIrq, vars, fetchVars, decodeVars,
                execVars
  <2>2. QED
    BY <1>1, <2>1
<1>9. QED
  BY <1>2, <1>3, <1>4, <1>5, <1>6, <1>7, <1>8 DEF Next

-----------------------------------------------------------------------------
(* The inductive invariant *)

KeptIssued == {e \in IssuedEntry(IssuedType) : e.ep = wEpoch}
KeptDecoded == {e \in DecodedEntry : e.ep[2] = wEpoch}
KeptFetched == {e \in FetchedEntry : e.ep[2] = wEpoch}
LiveDecoded == {e \in DecodedEntry : e.ep = Epochs}
LiveInPipe1 == {e \in FetchedEntry : e.ep = Epochs}

\* From the oldest buffer to the youngest: whatever is to be kept has only
\* instructions to be kept behind it.
EpochInv ==
  /\ Some(pipe4, KeptIssued) => All(pipe3, KeptIssued)
  /\ Some(pipe4, KeptIssued) \/ Some(pipe3, KeptIssued) => All(pipe2, KeptDecoded)
  /\ Some(pipe4, KeptIssued) \/ Some(pipe3, KeptIssued) \/ Some(pipe2, KeptDecoded)
       => All(pipe1, KeptFetched)
  /\ Some(pipe2, LiveDecoded) => All(pipe1, LiveInPipe1)
  /\ Closed(pipe3, KeptIssued)
  /\ Closed(pipe1, KeptFetched)
  /\ Closed(pipe1, LiveInPipe1)

Buffers ==
  /\ pipe1 \in Seq(FetchedEntry)
  /\ pipe2 \in Seq(DecodedEntry) /\ Len(pipe2) <= 1
  /\ pipe3 \in Seq(IssuedEntry(IssuedType))
  /\ pipe4 \in Seq(IssuedEntry(IssuedType)) /\ Len(pipe4) <= 1
  /\ eEpoch \in {0, 1} /\ wEpoch \in {0, 1}

\* The type invariant as the proofs below use it.
LEMMA BuffersTyped == TypeOK => Buffers
<1> SUFFICES ASSUME TypeOK PROVE Buffers
  OBVIOUS
<1>1. IssuedEntry(PassedType) \subseteq IssuedEntry(IssuedType)
  BY DEF IssuedEntry, PassedType, IssuedType, MemType
<1>2. \A i \in 1..Len(pipe4) : pipe4[i] \in IssuedEntry(IssuedType)
  BY <1>1, ElementOfSeq DEF TypeOK, Pipe4TypeOK
<1>3. pipe4 \in Seq(IssuedEntry(IssuedType))
  BY <1>2, SeqDef DEF TypeOK, Pipe4TypeOK
<1>4. QED
  BY <1>3 DEF Buffers, TypeOK, FetchTypeOK, DecodeTypeOK, ExecTypeOK, Pipe4TypeOK, EpochTypeOK

\* The buffers start empty.
LEMMA EpochInit == Init => EpochInv
<1> SUFFICES ASSUME Init PROVE EpochInv
  OBVIOUS
<1>1. pipe1 = <<>> /\ pipe2 = <<>> /\ pipe3 = <<>> /\ pipe4 = <<>>
  BY DEF Init
<1>2. /\ \A L : ~ Some(pipe4, L) /\ ~ Some(pipe3, L) /\ ~ Some(pipe2, L)
      /\ \A L : All(pipe1, L)
  BY <1>1, SmallBuffers
<1>3. /\ \A L : Closed(pipe3, L)
      /\ \A L : Closed(pipe1, L)
  BY <1>1, EmptySeq DEF Closed
<1>4. QED
  BY <1>2, <1>3 DEF EpochInv

\* What lies in one set does not lie in a disjoint one.
LEMMA Flipped ==
  ASSUME NEW s, NEW K, NEW L, All(s, K), K \cap L = {}
  PROVE  ~ Some(s, L)
BY DEF All, Some

\* What the entries at the heads say of their buffers.
LEMMA HeadCases ==
  ASSUME Buffers
  PROVE  /\ pipe2 # <<>> /\ LiveFetched(InExec) =>
              Some(pipe2, KeptDecoded) /\ Some(pipe2, LiveDecoded)
         /\ pipe4 # <<>> /\ LiveIssued(InWb) => Some(pipe4, KeptIssued)
         /\ pipe3 # <<>> => (Head(pipe3) \in KeptIssued => Some(pipe3, KeptIssued))
         /\ pipe1 # <<>> /\ Head(pipe1).ep = Epochs =>
              Head(pipe1) \in KeptFetched /\ Head(pipe1) \in LiveInPipe1
         /\ \A e \in DecodedEntry : e.ep = Epochs => e \in KeptDecoded /\ e \in LiveDecoded
         /\ \A e \in FetchedEntry : e.ep = Epochs => e \in KeptFetched /\ e \in LiveInPipe1
<1>1. \A S : \A s \in Seq(S) : s # <<>> => Head(s) = s[1] /\ 1 \in 1..Len(s) /\ Head(s) \in S
  <2> SUFFICES ASSUME NEW S, NEW s \in Seq(S), s # <<>>
               PROVE  Head(s) = s[1] /\ 1 \in 1..Len(s) /\ Head(s) \in S
    OBVIOUS
  <2>1. Len(s) \in Nat /\ Len(s) >= 1 /\ Head(s) \in S
    BY Popped
  <2>2. QED
    BY <2>1
<1>2. \A L : /\ pipe2 # <<>> /\ InExec \in L => Some(pipe2, L)
             /\ pipe3 # <<>> /\ Head(pipe3) \in L => Some(pipe3, L)
             /\ pipe4 # <<>> /\ InWb \in L => Some(pipe4, L)
  BY <1>1 DEF Buffers, Some, InExec, InWb
<1>3. /\ pipe1 # <<>> => Head(pipe1) \in FetchedEntry
      /\ pipe2 # <<>> => InExec \in DecodedEntry
      /\ pipe4 # <<>> => InWb \in IssuedEntry(IssuedType)
  BY <1>1 DEF Buffers, InExec, InWb
<1>4. /\ \A e \in DecodedEntry : e.ep = Epochs => e \in KeptDecoded /\ e \in LiveDecoded
      /\ \A e \in FetchedEntry : e.ep = Epochs => e \in KeptFetched /\ e \in LiveInPipe1
  BY DEF Epochs, KeptDecoded, LiveDecoded, KeptFetched, LiveInPipe1
<1>5. pipe4 # <<>> /\ LiveIssued(InWb) => InWb \in KeptIssued
  BY <1>3 DEF LiveIssued, KeptIssued
<1>6. QED
  BY <1>2, <1>3, <1>4, <1>5 DEF LiveFetched

\* Decoding keeps what holds of pipe1, and what it puts into pipe2 is to be
\* kept only if all of pipe1 is.
LEMMA DecodeClosed ==
  ASSUME Buffers, EpochInv, DecodeMove
  PROVE  /\ All(pipe1, KeptFetched) => All(pipe1', KeptFetched)
         /\ All(pipe1, LiveInPipe1) => All(pipe1', LiveInPipe1)
         /\ Closed(pipe1', KeptFetched) /\ Closed(pipe1', LiveInPipe1)
         /\ All(pipe2', KeptDecoded) /\ All(pipe2', LiveDecoded)
         /\ Some(pipe2', KeptDecoded) => All(pipe1', KeptFetched)
         /\ Some(pipe2', LiveDecoded) => All(pipe1', LiveInPipe1)
<1>1. /\ pipe1 \in Seq(FetchedEntry) /\ pipe1 # <<>> /\ pipe1' = Tail(pipe1)
      /\ Closed(pipe1, KeptFetched) /\ Closed(pipe1, LiveInPipe1)
  BY DEF Buffers, EpochInv, DecodeMove
<1>2. /\ All(pipe1, KeptFetched) => All(pipe1', KeptFetched)
      /\ All(pipe1, LiveInPipe1) => All(pipe1', LiveInPipe1)
      /\ Closed(pipe1', KeptFetched) /\ Closed(pipe1', LiveInPipe1)
      /\ Head(pipe1) \in KeptFetched => All(pipe1, KeptFetched)
      /\ Head(pipe1) \in LiveInPipe1 => All(pipe1, LiveInPipe1)
  BY <1>1, TailClosed
<1>3. CASE pipe2' = <<>>
  BY <1>2, <1>3, SmallBuffers
<1>4. CASE \E e \in DecodedEntry : e.ep = Epochs /\ Head(pipe1).ep = Epochs /\ pipe2' = <<e>>
  <2>1. PICK e \in DecodedEntry : e.ep = Epochs /\ Head(pipe1).ep = Epochs /\ pipe2' = <<e>>
    BY <1>4
  <2>2. e \in KeptDecoded /\ e \in LiveDecoded
        /\ Head(pipe1) \in KeptFetched /\ Head(pipe1) \in LiveInPipe1
    BY <1>1, <2>1, HeadCases
  <2>3. QED
    BY <1>2, <2>1, <2>2, SmallBuffers
<1>5. QED
  BY <1>3, <1>4 DEF DecodeMove

\* What a re-direction from execute leaves behind, as sets of entries.
LEMMA RedirectEpochs ==
  ASSUME Buffers, EpochInv, RedirectMove
  PROVE  /\ All(pipe1', KeptFetched) /\ All(pipe2', KeptDecoded)
         /\ ~ Some(pipe1', LiveInPipe1') /\ ~ Some(pipe2', LiveDecoded')
         /\ Some(pipe2, KeptDecoded)
<1>1. Some(pipe2, KeptDecoded) /\ Some(pipe2, LiveDecoded)
  BY HeadCases DEF RedirectMove
<1>2. All(pipe1, KeptFetched) /\ All(pipe1, LiveInPipe1)
  BY <1>1 DEF EpochInv
<1>3. /\ All(pipe1', KeptFetched) /\ All(pipe1', LiveInPipe1)
      /\ All(pipe2', KeptDecoded) /\ All(pipe2', LiveDecoded)
  <2>1. CASE pipe1' = pipe1 /\ pipe2' = <<>>
    BY <1>2, <2>1, SmallBuffers
  <2>2. CASE DecodeMove
    BY <1>2, <2>2, DecodeClosed
  <2>3. QED
    BY <2>1, <2>2 DEF RedirectMove
<1>4. LiveInPipe1 \cap LiveInPipe1' = {} /\ LiveDecoded \cap LiveDecoded' = {}
  BY DEF Buffers, RedirectMove, LiveInPipe1, LiveDecoded, Epochs
<1>5. QED
  BY <1>1, <1>3, <1>4, Flipped

\* What a flush from write back leaves behind.
LEMMA FlushEpochs ==
  ASSUME Buffers, EpochInv, FlushMove
  PROVE  /\ ~ Some(pipe1', KeptFetched') /\ ~ Some(pipe2', KeptDecoded')
         /\ ~ Some(pipe3', KeptIssued') /\ ~ Some(pipe4', KeptIssued')
         /\ ~ Some(pipe1', LiveInPipe1') /\ ~ Some(pipe2', LiveDecoded')
<1>1. Some(pipe4, KeptIssued)
  BY HeadCases DEF FlushMove
<1>2. All(pipe1, KeptFetched) /\ All(pipe2, KeptDecoded) /\ All(pipe3, KeptIssued)
  BY <1>1 DEF EpochInv
<1>3. All(pipe1', KeptFetched) /\ All(pipe2', KeptDecoded)
  <2>1. CASE UNCHANGED <<pipe1, pipe2>>
    BY <1>2, <2>1
  <2>2. CASE DecodeMove
    BY <1>2, <2>2, DecodeClosed
  <2>3. QED
    BY <2>1, <2>2 DEF FlushMove
<1>4. All(pipe3', KeptIssued) /\ ~ Some(pipe4', KeptIssued')
  BY <1>2, SmallBuffers DEF FlushMove
<1>5. wEpoch' # wEpoch
  BY DEF Buffers, FlushMove
<1>6. /\ KeptFetched \cap KeptFetched' = {} /\ KeptDecoded \cap KeptDecoded' = {}
      /\ KeptIssued \cap KeptIssued' = {}
      /\ KeptFetched \cap LiveInPipe1' = {} /\ KeptDecoded \cap LiveDecoded' = {}
  BY <1>5 DEF KeptFetched, KeptDecoded, KeptIssued, LiveInPipe1, LiveDecoded, Epochs
<1>7. QED
  BY <1>3, <1>4, <1>6, Flipped

\* Every move keeps the order of the epochs.
LEMMA EpochStep == ASSUME Buffers, Buffers', EpochInv, Move PROVE EpochInv'
<1>1. ASSUME UNCHANGED <<eEpoch, wEpoch>>
      PROVE  /\ KeptIssued' = KeptIssued /\ KeptDecoded' = KeptDecoded
             /\ KeptFetched' = KeptFetched
             /\ LiveDecoded' = LiveDecoded /\ LiveInPipe1' = LiveInPipe1
  BY <1>1 DEF KeptIssued, KeptDecoded, KeptFetched, LiveDecoded, LiveInPipe1, Epochs
<1>2. CASE FetchMove
  <2>1. PICK e \in FetchedEntry : e.ep = Epochs /\ pipe1' = Append(pipe1, e)
    BY <1>2 DEF FetchMove
  <2>2. e \in KeptFetched /\ e \in LiveInPipe1
    BY <2>1, HeadCases
  <2>3. /\ Closed(pipe1', KeptFetched) /\ Closed(pipe1', LiveInPipe1)
        /\ All(pipe1, KeptFetched) => All(pipe1', KeptFetched)
        /\ All(pipe1, LiveInPipe1) => All(pipe1', LiveInPipe1)
    BY <2>1, <2>2, AppendClosed DEF Buffers, EpochInv
  <2>4. QED
    BY <1>1, <1>2, <2>3 DEF FetchMove, EpochInv
<1>3. CASE pipe2 = <<>> /\ DecodeMove /\ UNCHANGED <<eEpoch, wEpoch, pipe3, pipe4>>
  BY <1>1, <1>3, DecodeClosed DEF EpochInv
<1>4. CASE ExecMove
  <2>1. pipe2' = <<>> /\ UNCHANGED <<eEpoch, wEpoch, pipe1, pipe4>>
    BY <1>4 DEF ExecMove
  <2>2. /\ \A L : All(pipe2', L) /\ ~ Some(pipe2', L)
    BY <2>1, SmallBuffers
  <2>3. CASE pipe3' = pipe3
    BY <1>1, <2>1, <2>2, <2>3 DEF EpochInv
  <2>4. CASE LiveFetched(InExec) /\ IssueMove
    <3>1. All(pipe1, KeptFetched)
      BY <1>4, <2>4, HeadCases DEF ExecMove, EpochInv
    <3>2. /\ Closed(pipe3', KeptIssued)
          /\ All(pipe3, KeptIssued) => All(pipe3', KeptIssued)
      BY <2>4, AppendClosed DEF IssueMove, KeptIssued, Buffers, EpochInv
    <3>3. QED
      BY <1>1, <2>1, <2>2, <3>1, <3>2 DEF EpochInv
  <2>5. QED
    BY <1>4, <2>3, <2>4 DEF ExecMove
<1>5. CASE RedirectMove
  <2>1. /\ All(pipe1', KeptFetched) /\ All(pipe2', KeptDecoded)
        /\ ~ Some(pipe1', LiveInPipe1') /\ ~ Some(pipe2', LiveDecoded')
    BY <1>5, RedirectEpochs
  <2>2. KeptIssued' = KeptIssued /\ KeptDecoded' = KeptDecoded /\ KeptFetched' = KeptFetched
    BY <1>5 DEF RedirectMove, KeptIssued, KeptDecoded, KeptFetched
  <2>3. Closed(pipe3', KeptIssued) /\ (All(pipe3, KeptIssued) => All(pipe3', KeptIssued))
    BY <1>5, AppendClosed DEF RedirectMove, IssueMove, KeptIssued, Buffers, EpochInv
  <2>4. Closed(pipe1', KeptFetched') /\ Closed(pipe1', LiveInPipe1')
    BY <2>1, <2>2, ClosedCases DEF Buffers
  <2>5. QED
    BY <1>5, <2>1, <2>2, <2>3, <2>4 DEF RedirectMove, EpochInv
<1>6. CASE FinishMove
  <2>1. \A i \in 1..Len(pipe3) : pipe3'[i] \in KeptIssued <=> pipe3[i] \in KeptIssued
    <3>1. \A i \in 1..Len(pipe3) :
            pipe3'[i] \in IssuedEntry(IssuedType) /\ pipe3[i] \in IssuedEntry(IssuedType)
      BY <1>6, ElementOfSeq DEF FinishMove, Buffers
    <3>2. QED
      BY <1>6, <3>1 DEF FinishMove, KeptIssued
  <2>2. Len(pipe3) \in Nat /\ Len(pipe3') = Len(pipe3)
    BY <1>6, LenProperties DEF FinishMove, Buffers
  <2>3. /\ Some(pipe3', KeptIssued) => Some(pipe3, KeptIssued)
        /\ All(pipe3, KeptIssued) => All(pipe3', KeptIssued)
    BY <2>1, <2>2 DEF Some, All
  <2>4. Closed(pipe3', KeptIssued)
    <3>1. Closed(pipe3, KeptIssued)
      BY DEF EpochInv
    <3>2. QED
      BY <2>1, <2>2, <3>1 DEF Closed
  <2>5. QED
    BY <1>1, <1>6, <2>3, <2>4 DEF FinishMove, EpochInv
<1>7. CASE PassMove
  <2>1. PICK e \in IssuedEntry(PassedType) : e.ep = InMem.ep /\ pipe4' = <<e>>
    BY <1>7 DEF PassMove
  <2>2. pipe3 # <<>> /\ pipe3' = Tail(pipe3) /\ pipe3 \in Seq(IssuedEntry(IssuedType))
        /\ Head(pipe3) \in IssuedEntry(IssuedType) /\ Closed(pipe3, KeptIssued)
    BY <1>7, Popped DEF PassMove, Buffers, EpochInv
  <2>3. /\ Closed(pipe3', KeptIssued)
        /\ Head(pipe3) \in KeptIssued => All(pipe3, KeptIssued) /\ All(pipe3', KeptIssued)
        /\ Some(pipe3', KeptIssued) => Some(pipe3, KeptIssued)
    BY <2>2, TailClosed
  <2>4. Some(pipe4', KeptIssued) => Head(pipe3) \in KeptIssued
    BY <2>1, <2>2, SmallBuffers DEF KeptIssued, InMem
  <2>5. Head(pipe3) \in KeptIssued => Some(pipe3, KeptIssued)
    BY <2>2, HeadCases
  <2>6. QED
    BY <1>1, <1>7, <2>3, <2>4, <2>5 DEF PassMove, EpochInv
<1>8. CASE LeaveMove
  <2>1. Some(pipe4', KeptIssued) => Some(pipe4, KeptIssued)
    BY <1>8, SmallBuffers DEF LeaveMove
  <2>2. QED
    BY <1>1, <1>8, <2>1 DEF LeaveMove, EpochInv
<1>9. CASE FlushMove
  <2>1. /\ ~ Some(pipe1', KeptFetched') /\ ~ Some(pipe2', KeptDecoded')
        /\ ~ Some(pipe3', KeptIssued') /\ ~ Some(pipe4', KeptIssued')
        /\ ~ Some(pipe1', LiveInPipe1') /\ ~ Some(pipe2', LiveDecoded')
    BY <1>9, FlushEpochs
  <2>2. /\ Closed(pipe3', KeptIssued') /\ Closed(pipe1', KeptFetched')
        /\ Closed(pipe1', LiveInPipe1')
    BY <2>1, ClosedCases DEF Buffers
  <2>3. QED
    BY <2>1, <2>2 DEF EpochInv
<1>10. QED
  BY <1>2, <1>3, <1>4, <1>5, <1>6, <1>7, <1>8, <1>9 DEF Move

\* EpochInv is an invariant of the pipeline.
THEOREM EpochInvariance == Spec => [](Buffers /\ EpochInv)
<1>1. Init => Buffers /\ EpochInv
  BY TypeInit, BuffersTyped, EpochInit DEF TypeInv
<1>2. TypeInv /\ TypeInv' /\ Buffers /\ EpochInv /\ [Next]_vars => (Buffers /\ EpochInv)'
  <2> SUFFICES ASSUME TypeInv, TypeInv', Buffers, EpochInv, [Next]_vars
               PROVE  Buffers' /\ EpochInv'
    OBVIOUS
  <2>1. Buffers'
    <3>1. TypeOK'
      BY DEF TypeInv
    <3>2. TypeOK' => Buffers'
      BY BuffersTyped, PTL
    <3>3. QED
      BY <3>1, <3>2
  <2>2. Move
    BY Moves
  <2>3. QED
    BY <2>1, <2>2, EpochStep
<1>3. QED
  BY <1>1, <1>2, TypeInvariance, PTL DEF Spec

-----------------------------------------------------------------------------
(* The two properties *)

\* The buffers read as one sequence.
LEMMA Joined ==
  ASSUME Buffers
  PROVE  /\ Len(Issued) = Len(pipe4) + Len(pipe3)
         /\ Len(Waiting) = Len(pipe2) + Len(pipe1)
         /\ \A i \in 1..Len(Issued) :
              Issued[i] = IF i <= Len(pipe4) THEN pipe4[i] ELSE pipe3[i - Len(pipe4)]
         /\ \A i \in 1..Len(Waiting) :
              Waiting[i] = IF i <= Len(pipe2) THEN pipe2[i] ELSE pipe1[i - Len(pipe2)]
         /\ {Len(pipe1), Len(pipe2), Len(pipe3), Len(pipe4)} \subseteq Nat
<1> DEFINE W == DecodedEntry \cup FetchedEntry
<1>1. pipe2 \in Seq(W) /\ pipe1 \in Seq(W)
  BY SeqMonotonic DEF Buffers
<1>2. {Len(pipe1), Len(pipe2), Len(pipe3), Len(pipe4)} \subseteq Nat
  BY LenProperties DEF Buffers
<1>3. /\ Len(Issued) = Len(pipe4) + Len(pipe3)
      /\ \A i \in 1..(Len(pipe4) + Len(pipe3)) :
           Issued[i] = IF i <= Len(pipe4) THEN pipe4[i] ELSE pipe3[i - Len(pipe4)]
  BY ConcatProperties DEF Buffers, Issued
<1>4. /\ Len(Waiting) = Len(pipe2) + Len(pipe1)
      /\ \A i \in 1..(Len(pipe2) + Len(pipe1)) :
           Waiting[i] = IF i <= Len(pipe2) THEN pipe2[i] ELSE pipe1[i - Len(pipe2)]
  BY <1>1, ConcatProperties DEF Waiting
<1>5. QED
  BY <1>2, <1>3, <1>4

\* The entries of the second buffer.
LEMMA InPipe1 ==
  ASSUME Buffers
  PROVE  \A k \in 1..Len(Waiting) : k > Len(pipe2) => Waiting[k] = pipe1[k - Len(pipe2)]
<1> SUFFICES ASSUME NEW k \in 1..Len(Waiting), k > Len(pipe2)
             PROVE  Waiting[k] = pipe1[k - Len(pipe2)]
  OBVIOUS
<1>1. Waiting[k] = IF k <= Len(pipe2) THEN pipe2[k] ELSE pipe1[k - Len(pipe2)]
  BY Joined
<1>2. Len(pipe2) \in Nat /\ Len(pipe1) \in Nat /\ Len(Waiting) = Len(pipe2) + Len(pipe1)
  BY Joined
<1>3. ~ (k <= Len(pipe2))
  BY <1>2
<1>4. QED
  BY <1>1, <1>3

\* Membership in the sets above is what EpochOrder says of an entry.
LEMMA Entries ==
  ASSUME Buffers
  PROVE  /\ \A i \in 1..Len(pipe4) : LiveIssued(pipe4[i]) <=> pipe4[i] \in KeptIssued
         /\ \A i \in 1..Len(pipe3) : LiveIssued(pipe3[i]) <=> pipe3[i] \in KeptIssued
         /\ \A i \in 1..Len(pipe2) : /\ pipe2[i].ep[2] = wEpoch <=> pipe2[i] \in KeptDecoded
                                     /\ LiveFetched(pipe2[i]) <=> pipe2[i] \in LiveDecoded
         /\ \A i \in 1..Len(pipe1) : /\ pipe1[i].ep[2] = wEpoch <=> pipe1[i] \in KeptFetched
                                     /\ LiveFetched(pipe1[i]) <=> pipe1[i] \in LiveInPipe1
<1>1. /\ \A i \in 1..Len(pipe4) : pipe4[i] \in IssuedEntry(IssuedType)
      /\ \A i \in 1..Len(pipe3) : pipe3[i] \in IssuedEntry(IssuedType)
      /\ \A i \in 1..Len(pipe2) : pipe2[i] \in DecodedEntry
      /\ \A i \in 1..Len(pipe1) : pipe1[i] \in FetchedEntry
  BY ElementOfSeq DEF Buffers
<1>2. QED
  BY <1>1 DEF LiveIssued, LiveFetched, KeptIssued, KeptDecoded, LiveDecoded, KeptFetched,
              LiveInPipe1

\* The invariant gives the order of the epochs over the whole pipeline.
LEMMA OrderFollows == Buffers /\ EpochInv => EpochOrder
<1> SUFFICES ASSUME Buffers, EpochInv PROVE EpochOrder
  OBVIOUS
<1> DEFINE n4 == Len(pipe4)
           n2 == Len(pipe2)
<1>00. n4 \in {0, 1} /\ n2 \in {0, 1}
  <2>1. n4 \in Nat /\ n4 <= 1 /\ n2 \in Nat /\ n2 <= 1
    BY Joined DEF Buffers
  <2> HIDE DEF n4, n2
  <2>2. QED
    BY <2>1
<1>0. /\ {Len(pipe1), n2, Len(pipe3), n4} \subseteq Nat
      /\ n4 \in {0, 1} /\ n2 \in {0, 1}
      /\ Len(Issued) = n4 + Len(pipe3) /\ Len(Waiting) = n2 + Len(pipe1)
  BY <1>00, Joined
<1>1. ASSUME All(pipe2, KeptDecoded), All(pipe1, KeptFetched), NEW j \in 1..Len(Waiting)
      PROVE  Waiting[j].ep[2] = wEpoch
  <2>1. CASE j <= n2
    BY <1>0, <1>1, <2>1, Joined, Entries DEF All
  <2>2. CASE j > n2
    <3>1. j - n2 \in 1..Len(pipe1) /\ Waiting[j] = pipe1[j - n2]
      BY <1>0, <2>2, Joined
    <3>2. QED
      BY <1>1, <3>1, Entries DEF All
  <2>3. QED
    BY <1>0, <2>1, <2>2
<1>2. ASSUME NEW i \in 1..Len(Issued), LiveIssued(Issued[i])
      PROVE  /\ \A j \in i..Len(Issued) : LiveIssued(Issued[j])
             /\ \A j \in 1..Len(Waiting) : Waiting[j].ep[2] = wEpoch
  <2>1. CASE i <= n4
    <3>0. i = 1 /\ n4 = 1 /\ Issued[i] = pipe4[i]
      <4>1. i \in Nat /\ i >= 1 /\ Issued[i] = pipe4[i]
        BY <1>0, <2>1, Joined
      <4>2. QED
        BY <1>0, <2>1, <4>1
    <3>1. i = 1 /\ n4 = 1 /\ Issued[i] = pipe4[1]
      BY <3>0
    <3>2. Some(pipe4, KeptIssued)
      BY <1>2, <3>1, Entries DEF Some
    <3>3. All(pipe3, KeptIssued) /\ All(pipe2, KeptDecoded) /\ All(pipe1, KeptFetched)
      BY <3>2 DEF EpochInv
    <3>4. ASSUME NEW j \in i..Len(Issued) PROVE LiveIssued(Issued[j])
      <4>1. CASE j = 1
        BY <1>2, <3>1, <4>1
      <4>2. CASE j # 1
        <5>1. j - n4 \in 1..Len(pipe3) /\ Issued[j] = pipe3[j - n4]
          BY <1>0, <3>1, <4>2, Joined
        <5>2. QED
          BY <3>3, <5>1, Entries DEF All
      <4>3. QED
        BY <4>1, <4>2
    <3>5. QED
      BY <1>1, <3>3, <3>4
  <2>2. CASE i > n4
    <3>1. i - n4 \in 1..Len(pipe3) /\ Issued[i] = pipe3[i - n4]
      BY <1>0, <2>2, Joined
    <3>2. pipe3[i - n4] \in KeptIssued
      BY <1>2, <3>1, Entries
    <3>3. Some(pipe3, KeptIssued) /\ \A k \in (i - n4)..Len(pipe3) : pipe3[k] \in KeptIssued
      BY <3>1, <3>2 DEF Some, EpochInv, Closed
    <3>4. All(pipe2, KeptDecoded) /\ All(pipe1, KeptFetched)
      BY <3>3 DEF EpochInv
    <3>5. ASSUME NEW j \in i..Len(Issued) PROVE LiveIssued(Issued[j])
      <4>1. /\ j - n4 \in (i - n4)..Len(pipe3) /\ j - n4 \in 1..Len(pipe3)
            /\ Issued[j] = pipe3[j - n4]
        BY <1>0, <2>2, Joined
      <4>2. QED
        BY <3>3, <4>1, Entries
    <3>6. QED
      BY <1>1, <3>4, <3>5
  <2>3. QED
    BY <1>0, <2>1, <2>2
<1>3. ASSUME NEW i \in 1..Len(Waiting), Waiting[i].ep[2] = wEpoch, NEW j \in i..Len(Waiting)
      PROVE  Waiting[j].ep[2] = wEpoch
  <2>1. CASE i <= n2
    <3>0. i = 1 /\ n2 = 1 /\ i \in 1..n2 /\ Waiting[i] = pipe2[i]
      <4>1. i \in Nat /\ i >= 1 /\ Waiting[i] = pipe2[i]
        BY <1>0, <2>1, Joined
      <4>2. QED
        BY <1>0, <2>1, <4>1
    <3>1. i = 1 /\ n2 = 1 /\ Waiting[i] = pipe2[1] /\ pipe2[1] \in KeptDecoded
      BY <3>0, <1>3, Entries
    <3>2. All(pipe1, KeptFetched)
      BY <3>1 DEF EpochInv, Some
    <3>3. CASE j # 1
      <4>1. j - n2 \in 1..Len(pipe1) /\ Waiting[j] = pipe1[j - n2]
        BY <1>0, <3>1, <3>3, Joined
      <4>2. QED
        BY <3>2, <4>1, Entries DEF All
    <3>4. QED
      BY <1>3, <3>1, <3>3
  <2>2. CASE i > n2
    <3>0. /\ j \in 1..Len(Waiting) /\ j > n2
          /\ i - n2 \in 1..Len(pipe1) /\ j - n2 \in 1..Len(pipe1)
          /\ j - n2 \in (i - n2)..Len(pipe1)
      BY <1>0, <2>2
    <3>1. /\ i - n2 \in 1..Len(pipe1) /\ Waiting[i] = pipe1[i - n2]
          /\ j - n2 \in 1..Len(pipe1) /\ Waiting[j] = pipe1[j - n2]
          /\ j - n2 \in (i - n2)..Len(pipe1)
      BY <2>2, <3>0, InPipe1
    <3>2. pipe1[j - n2] \in KeptFetched
      BY <1>3, <3>1, Entries DEF EpochInv, Closed
    <3>3. QED
      BY <3>1, <3>2, Entries
  <2>3. QED
    BY <1>0, <2>1, <2>2
<1>4. ASSUME NEW i \in 1..Len(Waiting), LiveFetched(Waiting[i]), NEW j \in i..Len(Waiting)
      PROVE  LiveFetched(Waiting[j])
  <2>1. CASE i <= n2
    <3>0. i = 1 /\ n2 = 1 /\ i \in 1..n2 /\ Waiting[i] = pipe2[i]
      <4>1. i \in Nat /\ i >= 1 /\ Waiting[i] = pipe2[i]
        BY <1>0, <2>1, Joined
      <4>2. QED
        BY <1>0, <2>1, <4>1
    <3>1. i = 1 /\ n2 = 1 /\ Waiting[i] = pipe2[1] /\ pipe2[1] \in LiveDecoded
      BY <3>0, <1>4, Entries
    <3>2. All(pipe1, LiveInPipe1)
      BY <3>1 DEF EpochInv, Some
    <3>3. CASE j # 1
      <4>1. j - n2 \in 1..Len(pipe1) /\ Waiting[j] = pipe1[j - n2]
        BY <1>0, <3>1, <3>3, Joined
      <4>2. QED
        BY <3>2, <4>1, Entries DEF All
    <3>4. QED
      BY <1>4, <3>1, <3>3
  <2>2. CASE i > n2
    <3>0. /\ j \in 1..Len(Waiting) /\ j > n2
          /\ i - n2 \in 1..Len(pipe1) /\ j - n2 \in 1..Len(pipe1)
          /\ j - n2 \in (i - n2)..Len(pipe1)
      BY <1>0, <2>2
    <3>1. /\ i - n2 \in 1..Len(pipe1) /\ Waiting[i] = pipe1[i - n2]
          /\ j - n2 \in 1..Len(pipe1) /\ Waiting[j] = pipe1[j - n2]
          /\ j - n2 \in (i - n2)..Len(pipe1)
      BY <2>2, <3>0, InPipe1
    <3>2. pipe1[j - n2] \in LiveInPipe1
      BY <1>4, <3>1, Entries DEF EpochInv, Closed
    <3>3. QED
      BY <3>1, <3>2, Entries
  <2>3. QED
    BY <1>0, <2>1, <2>2
<1>5. QED
  BY <1>2, <1>3, <1>4 DEF EpochOrder

\* EpochOrder is an invariant of the pipeline: no flip of an epoch bit revives
\* a squashed instruction, for every program and predictor.
THEOREM EpochOrderCorrect == Spec => []EpochOrder
<1>1. Buffers /\ EpochInv => EpochOrder
  BY OrderFollows
<1>2. QED
  BY EpochInvariance, <1>1, PTL

NoneInFront == ~ Some(pipe2, LiveDecoded) /\ ~ Some(pipe1, LiveInPipe1)
NoneBehind == ~ Some(pipe4, KeptIssued) /\ ~ Some(pipe3, KeptIssued)
NoneWaiting == \A i \in 1..Len(Waiting) : Waiting[i].ep # Epochs
NoneIssued == \A i \in 1..Len(Issued) : Issued[i].ep # wEpoch

\* When no buffer in front of execute has an entry to be kept, their
\* concatenation has none.
LEMMA WaitingSquashed == Buffers /\ NoneInFront => NoneWaiting
<1> SUFFICES ASSUME Buffers, ~ Some(pipe2, LiveDecoded), ~ Some(pipe1, LiveInPipe1),
                    NEW i \in 1..Len(Waiting)
             PROVE  ~ LiveFetched(Waiting[i])
  BY DEF LiveFetched, NoneInFront, NoneWaiting
<1>1. Len(Waiting) = Len(pipe2) + Len(pipe1) /\ Len(pipe1) \in Nat /\ Len(pipe2) \in Nat
  BY Joined
<1>2. CASE i <= Len(pipe2)
  BY <1>1, <1>2, Joined, Entries DEF Some
<1>3. CASE i > Len(pipe2)
  <2>1. i - Len(pipe2) \in 1..Len(pipe1) /\ Waiting[i] = pipe1[i - Len(pipe2)]
    BY <1>1, <1>3, Joined
  <2>2. QED
    BY <2>1, Entries DEF Some
<1>4. QED
  BY <1>1, <1>2, <1>3

\* The same for the buffers behind it.
LEMMA IssuedSquashed == Buffers /\ NoneBehind => NoneIssued
<1> SUFFICES ASSUME Buffers, ~ Some(pipe4, KeptIssued), ~ Some(pipe3, KeptIssued),
                    NEW i \in 1..Len(Issued)
             PROVE  ~ LiveIssued(Issued[i])
  BY DEF LiveIssued, NoneBehind, NoneIssued
<1>1. Len(Issued) = Len(pipe4) + Len(pipe3) /\ Len(pipe3) \in Nat /\ Len(pipe4) \in Nat
  BY Joined
<1>2. CASE i <= Len(pipe4)
  BY <1>1, <1>2, Joined, Entries DEF Some
<1>3. CASE i > Len(pipe4)
  <2>1. i - Len(pipe4) \in 1..Len(pipe3) /\ Issued[i] = pipe3[i - Len(pipe4)]
    BY <1>1, <1>3, Joined
  <2>2. QED
    BY <2>1, Entries DEF Some
<1>4. QED
  BY <1>1, <1>2, <1>3

\* A flip of wEpoch leaves nothing to be kept in any buffer, and a flip of
\* eEpoch nothing in front of the execute stage.
LEMMA FlipSquashes ==
  ASSUME Buffers, Buffers', EpochInv, Move
  PROVE  /\ wEpoch' # wEpoch => NoneIssued' /\ NoneWaiting'
         /\ eEpoch' # eEpoch => NoneWaiting'
<1>1. Buffers' /\ NoneInFront' => NoneWaiting'
  BY WaitingSquashed, PTL
<1>2. Buffers' /\ NoneBehind' => NoneIssued'
  BY IssuedSquashed, PTL
<1>3. CASE FlushMove
  <2>1. NoneInFront' /\ NoneBehind'
    BY <1>3, FlushEpochs DEF NoneInFront, NoneBehind
  <2>2. QED
    BY <1>1, <1>2, <2>1
<1>4. CASE RedirectMove
  <2>1. NoneInFront'
    BY <1>4, RedirectEpochs DEF NoneInFront
  <2>2. QED
    BY <1>1, <1>4, <2>1 DEF RedirectMove
<1>5. CASE ~ FlushMove /\ ~ RedirectMove
  BY <1>5 DEF Move, FetchMove, ExecMove, FinishMove, PassMove, LeaveMove
<1>6. QED
  BY <1>3, <1>4, <1>5

\* A re-direction squashes everything younger than the instruction that makes
\* it, in whatever cycle of the other stages it comes.
THEOREM FlushSquashesCorrect == Spec => FlushSquashes
<1> DEFINE Squashed ==
      /\ wEpoch' # wEpoch =>
           /\ \A i \in 1..Len(Issued') : Issued'[i].ep # wEpoch'
           /\ \A i \in 1..Len(Waiting') : Waiting'[i].ep # Epochs'
      /\ eEpoch' # eEpoch => \A i \in 1..Len(Waiting') : Waiting'[i].ep # Epochs'
<1>1. TypeInv /\ (Buffers /\ EpochInv) /\ (Buffers /\ EpochInv)' /\ [Next]_vars => [Squashed]_vars
  <2> SUFFICES ASSUME TypeInv, Buffers, EpochInv, Buffers', [Next]_vars PROVE Squashed
    OBVIOUS
  <2>1. Move
    BY Moves
  <2>2. QED
    BY <2>1, FlipSquashes DEF NoneIssued, NoneWaiting
<1>2. QED
  BY <1>1, TypeInvariance, EpochInvariance, PTL DEF Spec, FlushSquashes

-----------------------------------------------------------------------------
(* What the execute stage does *)

IssuedHere == IssuedEntry(IssuedType)

\* An instruction to be kept enters pipe3 as e, its request to the data side
\* goes out with it, and decode is released when it was mispredicted.
IssuesAs(e) ==
  /\ LiveFetched(InExec) /\ e.pc = InExec.pc /\ e.ep = wEpoch
  /\ InExec.type = "TRAP" => e.type = "TRAP"
  /\ e.type \in MemType =>
       (e.type \in {"STORE", "AMO"} <=> InExec.type \in {"STORE", "AMO", "SC"})
  /\ pipe3' = Append(pipe3, e)
  /\ rgMulti' = (e.type = "WAIT")
  /\ IF e.type \in MemType
     THEN \E r \in RequestEntry :
            r.pc = e.pc /\ r.ep = e.ep /\ r.type = e.type /\ dreq' = Append(dreq, r)
     ELSE dreq' = dreq
  /\ ~ rgStall' \/ (rgStall' = rgStall /\ pipe2' = <<>> /\ UNCHANGED eEpoch)

Drops ==
  /\ ~ LiveFetched(InExec)
  /\ pipe2' = <<>>
  /\ UNCHANGED <<pipe3, rgMulti, dreq, rgStall, eEpoch>>

\* A re-direction ends the stall of decode, whatever decode does meanwhile.
LEMMA RedirectReleases ==
  ASSUME NEW target, NEW after, Redirect(target, after)
  PROVE  ~ rgStall'
<1>1. CASE ClearStall
  BY <1>1 DEF ClearStall
<1>2. CASE DecodeInto(TRUE)
  BY <1>2 DEF DecodeInto, DropStale, SleepOnWfi, Dispatch
<1>3. QED
  BY <1>1, <1>2 DEF Redirect

\* What enters pipe3 is made from the instruction in front of it.
LEMMA EntryMade ==
  ASSUME TypeOK, ExecReady, LiveFetched(InExec), NEW type \in IssuedType, NEW val \in Data,
         NEW cause \in Cause
  PROVE  /\ Entry(type, val, cause) \in IssuedHere
         /\ Entry(type, val, cause).pc = InExec.pc
         /\ Entry(type, val, cause).ep = wEpoch
         /\ Entry(type, val, cause).type = type
<1>1. InExec.pc \in Addr /\ InExec.ep = Epochs /\ wEpoch \in {0, 1}
  BY Heads DEF ExecReady, DecodedEntry, LiveFetched, TypeOK, EpochTypeOK
<1>2. QED
  BY <1>1, ProgramTyped DEF Entry, IssuedHere, IssuedEntry, Epochs

\* An instruction issued without a request to the data side.
LEMMA IssuedAlone ==
  ASSUME TypeOK, ExecReady, LiveFetched(InExec), NEW type \in IssuedType \ MemType,
         NEW val \in Data, NEW cause \in Cause, Issue(type, val, cause),
         InExec.type = "TRAP" => type = "TRAP",
         rgMulti' = (type = "WAIT"), dreq' = dreq,
         ~ rgStall' \/ (rgStall' = rgStall /\ pipe2' = <<>> /\ UNCHANGED eEpoch)
  PROVE  \E e \in IssuedHere : IssuesAs(e)
<1> DEFINE e == Entry(type, val, cause)
<1>1. e \in IssuedHere /\ e.pc = InExec.pc /\ e.ep = wEpoch /\ e.type = type
  BY EntryMade
<1>2. pipe3' = Append(pipe3, e)
  BY DEF Issue
<1> HIDE DEF e
<1>3. IssuesAs(e)
  BY <1>1, <1>2 DEF IssuesAs
<1>4. QED
  BY <1>1, <1>3

\* An instruction issued with its request.
LEMMA IssuedWithRequest ==
  ASSUME TypeOK, ExecReady, LiveFetched(InExec), NEW type \in MemType, Request(type), ~ rgMulti,
         InExec.type # "TRAP",
         type \in {"STORE", "AMO"} <=> InExec.type \in {"STORE", "AMO", "SC"}
  PROVE  \E e \in IssuedHere : IssuesAs(e)
<1> DEFINE e == Entry(type, 0, "none")
           r == [pc |-> InExec.pc, ep |-> InExec.ep[2], type |-> type, val |-> Rs2.data]
<1>1. e \in IssuedHere /\ e.pc = InExec.pc /\ e.ep = wEpoch /\ e.type = type
  BY EntryMade, ProgramAssumption DEF IssuedType, Cause
<1>2. pipe3' = Append(pipe3, e) /\ dreq' = Append(dreq, r) /\ rgMulti' = rgMulti
  BY DEF Request, Issue
<1>3. r \in RequestEntry /\ r.pc = InExec.pc /\ r.ep = wEpoch /\ r.type = type
  <2>1. InExec.pc \in Addr /\ InExec.ep = Epochs /\ wEpoch \in {0, 1}
    BY Heads DEF ExecReady, DecodedEntry, LiveFetched, TypeOK, EpochTypeOK
  <2>2. QED
    BY <2>1, BypassTyped DEF RequestEntry, Epochs
<1>4. rgStall' = rgStall /\ pipe2' = <<>> /\ UNCHANGED eEpoch
  BY DEF Request, NoRedirect
<1>5. rgMulti' = (type = "WAIT")
  BY <1>2 DEF MemType, TypeOK, ExecTypeOK
<1> HIDE DEF e, r
<1>6. IssuesAs(e)
  BY <1>1, <1>2, <1>3, <1>4, <1>5 DEF IssuesAs
<1>7. QED
  BY <1>1, <1>6

\* Whatever the instruction, the execute stage drops it or issues it.
LEMMA ExecIssues ==
  ASSUME TypeInv, Exec
  PROVE  /\ ExecReady
         /\ UNCHANGED <<wEpoch, pipe4, dresp, storeVars, csrVars>>
         /\ Drops \/ \E e \in IssuedHere : IssuesAs(e)
<1> DEFINE Goal == Drops \/ \E e \in IssuedHere : IssuesAs(e)
           Stays == rgStall' = rgStall /\ pipe2' = <<>> /\ UNCHANGED eEpoch
           Live == ExecReady /\ LiveFetched(InExec)
<1>0. TypeOK /\ rgMulti \in BOOLEAN
  BY DEF TypeInv, TypeOK, ExecTypeOK
<1>1. ExecReady /\ ExecFrame
  BY DEF Exec, ExecDrop, ExecTrap, ExecAlu, ExecMulti, ExecSystem, ExecMisaligned, ExecAccess,
         ExecFence, ExecLoadReserved, ExecStoreConditional, ExecControl, Request, Executes
<1>2. rgMulti = FALSE
  BY <1>0, <1>1 DEF ExecReady
<1>3. /\ Rs1.data \in Data /\ 0 \in Data /\ 1 \in Data
      /\ {"none", "Exception"} \subseteq Cause
      /\ {"TRAP", "REG", "WAIT", "CSR", "XRET"} \subseteq IssuedType \ MemType
  BY <1>0, BypassTyped, ProgramAssumption DEF IssuedType, MemType, Cause
<1>4. /\ InExec.cause \in Cause
      /\ Result(InExec.pc, Rs1.data, Rs2.data) \in Data
  BY <1>0, <1>1, Heads, BypassTyped, ValueAssumption DEF ExecReady, DecodedEntry
<1>5. NoRedirect => Stays
  BY DEF NoRedirect
<1>6. ASSUME NEW types, Executes(types) PROVE Live /\ InExec.type \in types
  BY <1>6 DEF Executes, LiveFetched
<1>7. ASSUME Live, NEW type \in IssuedType \ MemType, NEW val \in Data, NEW cause \in Cause,
             Issue(type, val, cause), InExec.type = "TRAP" => type = "TRAP",
             rgMulti' = (type = "WAIT"), dreq' = dreq, ~ rgStall' \/ Stays
      PROVE  Goal
  BY <1>0, <1>7, IssuedAlone
<1>0a. SUFFICES Goal
  BY <1>1 DEF ExecFrame
<1>8. ASSUME Live, NEW type \in MemType, Request(type), InExec.type # "TRAP",
             type \in {"STORE", "AMO"} <=> InExec.type \in {"STORE", "AMO", "SC"}
      PROVE  Goal
  BY <1>0, <1>2, <1>8, IssuedWithRequest
<1> HIDE DEF Goal, Stays, Live
<1>9. CASE ExecDrop
  BY <1>9 DEF Goal, ExecDrop, NoRedirect, execVars, Drops, LiveFetched
<1>10. CASE ExecTrap
  BY <1>2, <1>3, <1>4, <1>5, <1>6, <1>7, <1>10 DEF ExecTrap
<1>11. CASE ExecAlu
  <2>1. Live /\ InExec.type # "TRAP" /\ Stays
    BY <1>5, <1>6, <1>11 DEF ExecAlu
  <2>2. /\ Issue("REG", Result(InExec.pc, Rs1.data, Rs2.data), "none")
        /\ UNCHANGED <<rgMulti, dreq>>
    BY <1>11 DEF ExecAlu
  <2>3. QED
    BY <1>2, <1>3, <1>4, <1>7, <2>1, <2>2
<1>12. CASE ExecMulti
  <2>1. /\ Live /\ InExec.type # "TRAP" /\ Stays
        /\ Issue("WAIT", Result(InExec.pc, Rs1.data, Rs2.data), "none") /\ dreq' = dreq
    BY <1>5, <1>6, <1>12 DEF ExecMulti
  <2>2. rgMulti' = ("WAIT" = "WAIT")
    <3>1. rgMulti' = TRUE
      BY <1>12 DEF ExecMulti
    <3>2. QED
      BY <3>1
  <2>3. QED
    BY <1>3, <1>4, <1>7, <2>1, <2>2
<1>13. CASE ExecSystem
  <2>1. Live /\ InExec.type \in {"CSR", "XRET"}
    <3>1. Live /\ InExec.type \in SystemOp
      BY <1>6, <1>13 DEF ExecSystem
    <3>2. QED
      BY <3>1 DEF SystemOp
  <2>2. QED
    BY <1>2, <1>3, <1>4, <1>5, <1>7, <1>13, <2>1 DEF ExecSystem
<1>14. CASE ExecMisaligned
  BY <1>2, <1>3, <1>4, <1>5, <1>6, <1>7, <1>14 DEF ExecMisaligned, AccessOp
<1>15. CASE ExecAccess
  BY <1>6, <1>8, <1>15 DEF ExecAccess, MemType
<1>16. CASE ExecFence
  BY <1>6, <1>8, <1>16 DEF ExecFence, FenceOp, MemType
<1>17. CASE ExecLoadReserved
  BY <1>6, <1>8, <1>17 DEF ExecLoadReserved, MemType
<1>18. CASE ExecStoreConditional
  <2>1. Live /\ InExec.type = "SC"
    BY <1>6, <1>18 DEF ExecStoreConditional
  <2>2. CASE Request("STORE")
    BY <1>8, <2>1, <2>2 DEF MemType
  <2>3. CASE Issue("REG", 1, "none") /\ NoRedirect /\ UNCHANGED <<rgMulti, dreq>>
    BY <1>2, <1>3, <1>5, <1>7, <2>1, <2>3
  <2>4. QED
    BY <1>18, <2>2, <2>3 DEF ExecStoreConditional
<1>19. CASE ExecControl
  <2>1. Live /\ InExec.type \in ControlOp /\ UNCHANGED <<rgMulti, dreq>>
    BY <1>6, <1>19 DEF ExecControl
  <2>2. CASE Issue("TRAP", 0, "Exception") /\ NoRedirect
    BY <1>2, <1>3, <1>5, <1>7, <2>1, <2>2
  <2>3. CASE /\ Issue("REG", Result(InExec.pc, Rs1.data, Rs2.data), "none")
             /\ NoRedirect \/ Redirect(Successor(InExec.pc, Rs1.data, Rs2.data), <<>>)
    <3>1. ~ rgStall' \/ Stays
      BY <1>5, <2>3, RedirectReleases
    <3>2. InExec.type # "TRAP"
      BY <2>1 DEF ControlOp
    <3>3. QED
      BY <1>2, <1>3, <1>4, <1>7, <2>1, <2>3, <3>1, <3>2
  <2>4. QED
    BY <1>19, <2>2, <2>3 DEF ExecControl
<1>20. QED
  BY <1>9, <1>10, <1>11, <1>12, <1>13, <1>14, <1>15, <1>16, <1>17, <1>18, <1>19 DEF Exec

\* What the write-back stage does: it goes on waiting, it finishes the
\* instruction in pipe4, or it finishes it with a flush that ends the stall of
\* decode.  A store leaves the store buffer exactly when it leaves pipe4.
LEMMA CommitEffects ==
  ASSUME TypeInv, InstructionCommit
  PROVE  /\ pipe4 # <<>> /\ CommitFrame
         /\ \/ pipe4' = pipe4 /\ NoFlush
            \/ pipe4' = <<>> /\ NoFlush /\ ~ (LiveIssued(InWb) /\ InWb.type = "TRAP")
            \/ pipe4' = <<>> /\ LiveIssued(InWb) /\ ~ rgStall'
         /\ \/ pipe4' = pipe4 /\ sb' = sb
            \/ pipe4' = <<>> /\ sb' = sb /\ InWb.type # "STORE"
            \/ pipe4' = <<>> /\ sb # <<>> /\ sb' = Tail(sb) /\ InWb.type = "STORE"
<1> DEFINE Waits == pipe4' = pipe4 /\ NoFlush
           Leaves == pipe4' = <<>> /\ NoFlush /\ ~ (LiveIssued(InWb) /\ InWb.type = "TRAP")
           Flushes == pipe4' = <<>> /\ LiveIssued(InWb) /\ ~ rgStall'
           Same == pipe4' = pipe4 /\ sb' = sb
           Other == pipe4' = <<>> /\ sb' = sb /\ InWb.type # "STORE"
           Stored == pipe4' = <<>> /\ sb # <<>> /\ sb' = Tail(sb) /\ InWb.type = "STORE"
<1>1. pipe4 # <<>> /\ CommitFrame
  BY DEF InstructionCommit, Commits, CommitRerun, CommitTrap, CommitStore, InitiateUncached,
         UncachedDone, UncachedError, CsrRequest, CommitCsr, CommitXret, CommitReg,
         DropInstruction
<1>2. ASSUME NEW types, Commits(types) PROVE LiveIssued(InWb) /\ InWb.type \in types
  BY <1>2 DEF Commits, LiveIssued
<1>3. \A target : FlushFromWb(target) => ~ rgStall'
  BY RedirectReleases DEF FlushFromWb
<1>4. rgStoreInit => sb # <<>>
  BY DEF TypeInv, BusyInv
<1> SUFFICES (Waits \/ Leaves \/ Flushes) /\ (Same \/ Other \/ Stored)
  BY <1>1
<1>5. CASE CommitRerun
  BY <1>2, <1>3, <1>5 DEF CommitRerun, storeVars
<1>6. CASE CommitTrap
  BY <1>2, <1>3, <1>6 DEF CommitTrap, TrapTo, storeVars
<1>7. CASE CommitXret
  BY <1>2, <1>3, <1>7 DEF CommitXret, storeVars
<1>8. CASE UncachedError
  BY <1>2, <1>3, <1>4, <1>8 DEF UncachedError, TrapTo
<1>9. CASE InitiateUncached
  BY <1>9 DEF InitiateUncached
<1>10. CASE CsrRequest
  BY <1>10 DEF CsrRequest, storeVars
<1>11. CASE CommitStore
  BY <1>2, <1>11 DEF CommitStore, InitiateStore
<1>12. CASE UncachedDone
  BY <1>2, <1>4, <1>12 DEF UncachedDone, InitiateStore
<1>13. CASE CommitCsr
  BY <1>2, <1>13 DEF CommitCsr, storeVars
<1>14. CASE CommitReg
  BY <1>2, <1>14 DEF CommitReg, storeVars
<1>15. CASE DropInstruction
  BY <1>15 DEF DropInstruction, InitiateStore, LiveIssued
<1>16. QED
  BY <1>5, <1>6, <1>7, <1>8, <1>9, <1>10, <1>11, <1>12, <1>13, <1>14, <1>15
     DEF InstructionCommit

-----------------------------------------------------------------------------
(* The stalls *)

\* The unit that works owns the last entry of pipe3, and no other entry waits.
MultiInv ==
  /\ rgMulti => pipe3 # <<>>
  /\ \A i \in 1..Len(pipe3) : pipe3[i].type = "WAIT" <=> rgMulti /\ i = Len(pipe3)

LastIssued == pipe3[Len(pipe3)]

\* TrapIsYoungest, with the buffer the trap is in.
StallInv ==
  rgStall =>
    \/ pipe2 # <<>> /\ LiveFetched(InExec) /\ InExec.type = "TRAP"
    \/ pipe2 = <<>> /\ pipe3 # <<>> /\ LiveIssued(LastIssued) /\ LastIssued.type = "TRAP"
    \/ pipe2 = <<>> /\ pipe3 = <<>> /\ pipe4 # <<>> /\ LiveIssued(InWb) /\ InWb.type = "TRAP"

\* What stage5 has started is not cached, or is a CSR access.
AnswerInv ==
  /\ rgStoreInit => ~ StoreIsCached
  /\ csrResp # <<>> => rgCsrWait

WaitInv == MultiInv /\ StallInv /\ AnswerInv

\* Entries of a buffer that has lost its first one, or got one more.
LEMMA Shifted ==
  ASSUME NEW S, NEW s \in Seq(S)
  PROVE  /\ Len(s) \in Nat
         /\ s # <<>> => /\ Len(s) >= 1 /\ Head(s) = s[1]
                        /\ Tail(s) \in Seq(S) /\ Len(Tail(s)) = Len(s) - 1
                        /\ \A i \in 1..(Len(s) - 1) : Tail(s)[i] = s[i + 1]
         /\ s = <<>> <=> Len(s) = 0
         /\ \A e \in S : /\ Append(s, e) # <<>>
                         /\ Len(Append(s, e)) = Len(s) + 1
                         /\ Append(s, e)[Len(s) + 1] = e
                         /\ \A i \in 1..Len(s) : Append(s, e)[i] = s[i]
BY EmptySeq, LenProperties, HeadTailProperties, AppendProperties

\* The unit that finishes changes the type of the last entry to "REG".
LEMMA Finishes ==
  ASSUME TypeOK, MultiInv, DelayedOutput
  PROVE  /\ pipe3 # <<>> /\ pipe3' # <<>> /\ Len(pipe3') = Len(pipe3)
         /\ LastIssued.type = "WAIT" /\ pipe3'[Len(pipe3)].type = "REG"
         /\ \A i \in 1..Len(pipe3) : i # Len(pipe3) => pipe3'[i] = pipe3[i]
         /\ \A i \in 1..Len(pipe3) : SameTag(pipe3'[i], pipe3[i])
<1> DEFINE n == Len(pipe3)
<1>1. pipe3 \in Seq(IssuedHere) /\ rgMulti
  BY DEF TypeOK, ExecTypeOK, IssuedHere, DelayedOutput
<1>2. pipe3 # <<>> /\ n \in Nat /\ n >= 1 /\ n \in 1..n
  BY <1>1, Shifted DEF MultiInv
<1>3. \A i \in 1..n : pipe3[i] \in IssuedHere
  BY <1>1, ElementOfSeq
<1>4. pipe3' = [pipe3 EXCEPT ![n] = [pipe3[n] EXCEPT !.type = "REG"]] /\ DOMAIN pipe3 = 1..n
  BY <1>1, LenProperties DEF DelayedOutput
<1>5. [pipe3[n] EXCEPT !.type = "REG"] \in IssuedHere
  BY <1>2, <1>3 DEF IssuedHere, IssuedEntry, IssuedType
<1>6. Len(pipe3') = n /\ pipe3' \in Seq(IssuedHere)
  BY <1>1, <1>2, <1>4, <1>5, ExceptSeq
<1>7. pipe3' # <<>>
  BY <1>2, <1>6, Shifted
<1>8. pipe3[n].type = "WAIT"
  BY <1>1, <1>2 DEF MultiInv
<1>9. pipe3'[n].type = "REG"
  BY <1>2, <1>3, <1>4 DEF IssuedHere, IssuedEntry
<1>10. ASSUME NEW i \in 1..n
       PROVE  SameTag(pipe3'[i], pipe3[i]) /\ (i # n => pipe3'[i] = pipe3[i])
  BY <1>2, <1>3, <1>4 DEF SameTag, IssuedHere, IssuedEntry
<1>11. QED
  BY <1>2, <1>6, <1>7, <1>8, <1>9, <1>10 DEF LastIssued

\* What stage4 does: pipe3 loses its first entry, which is no longer with a
\* unit, or an answer is thrown away.
LEMMA CheckEffects ==
  ASSUME TypeOK, CheckInstruction
  PROVE  /\ pipe3 # <<>> /\ pipe4 = <<>> /\ InMem = pipe3[1]
         /\ \/ /\ pipe3' = Tail(pipe3) /\ pipe4' # <<>> /\ InMem.type # "WAIT"
               /\ InWb'.ep = InMem.ep
               /\ \/ PassInstruction /\ InWb' = InMem
                  \/ TakeAnswer /\ InWb' = Answered(Head(dresp))
            \/ TakeAnswer /\ UNCHANGED <<pipe3, pipe4>>
         /\ UNCHANGED <<fetchVars, eEpoch, wEpoch, decodeVars, rgMulti, dreq, storeVars, csrVars>>
<1>1. /\ pipe3 # <<>> /\ pipe4 = <<>>
      /\ UNCHANGED <<fetchVars, eEpoch, wEpoch, decodeVars, rgMulti, dreq, storeVars, csrVars>>
  BY DEF CheckInstruction
<1>2. InMem = pipe3[1] /\ InMem \in IssuedEntry(IssuedType)
  BY <1>1, Shifted, Heads DEF InMem, TypeOK, ExecTypeOK
<1>3. ASSUME NEW e, pipe4' = <<e>> PROVE pipe4' # <<>> /\ InWb' = e
  BY <1>3 DEF InWb
<1>4. CASE PassInstruction
  BY <1>1, <1>2, <1>3, <1>4 DEF PassInstruction
<1>5. CASE TakeAnswer
  <2>1. CASE pipe4' = <<Answered(Head(dresp))>> /\ pipe3' = Tail(pipe3)
    <3>1. Answered(Head(dresp)).ep = InMem.ep
      BY <1>2 DEF Answered, IssuedEntry
    <3>2. InMem.type # "WAIT"
      BY <1>5 DEF TakeAnswer, MemType
    <3>3. QED
      BY <1>1, <1>2, <1>3, <1>5, <2>1, <3>1, <3>2
  <2>2. CASE UNCHANGED <<pipe3, pipe4>>
    BY <1>1, <1>2, <1>5, <2>2
  <2>3. QED
    BY <1>5, <2>1, <2>2 DEF TakeAnswer
<1>6. QED
  BY <1>4, <1>5 DEF CheckInstruction

\* Every step keeps pipe3 and the units together.
LEMMA MultiStep == ASSUME TypeInv, MultiInv, [Next]_vars PROVE MultiInv'
<1> DEFINE n == Len(pipe3)
<1>0. TypeOK /\ pipe3 \in Seq(IssuedHere) /\ n \in Nat /\ rgMulti \in BOOLEAN
  BY LenProperties DEF TypeInv, TypeOK, ExecTypeOK, IssuedHere
<1>1. CASE UNCHANGED <<pipe3, rgMulti>>
  BY <1>1 DEF MultiInv
<1>2. CASE Exec
  <2>1. CASE Drops
    BY <1>1, <2>1 DEF Drops
  <2>2. CASE \E e \in IssuedHere : IssuesAs(e)
    <3>1. PICK e \in IssuedHere : IssuesAs(e)
      BY <2>2
    <3>2. /\ pipe3' # <<>> /\ Len(pipe3') = n + 1 /\ pipe3'[n + 1] = e
          /\ \A i \in 1..n : pipe3'[i] = pipe3[i]
          /\ rgMulti' = (e.type = "WAIT") /\ ~ rgMulti
      BY <1>0, <1>2, <3>1, Shifted, ExecIssues DEF IssuesAs, ExecReady
    <3>3. \A i \in 1..(n + 1) : i = n + 1 \/ i \in 1..n
      BY <1>0
    <3>4. ASSUME NEW i \in 1..(n + 1)
          PROVE  pipe3'[i].type = "WAIT" <=> rgMulti' /\ i = n + 1
      <4>1. CASE i = n + 1
        BY <3>2, <4>1
      <4>2. CASE i \in 1..n
        BY <1>0, <3>2, <4>2 DEF MultiInv
      <4>3. QED
        BY <3>3, <4>1, <4>2
    <3>5. QED
      BY <3>2, <3>4 DEF MultiInv
  <2>3. QED
    BY <1>2, <2>1, <2>2, ExecIssues
<1>3. CASE DelayedOutput
  <2>1. /\ Len(pipe3') = n /\ ~ rgMulti' /\ pipe3'[n].type = "REG"
        /\ \A i \in 1..n : i # n => pipe3'[i] = pipe3[i]
    <3>1. ~ rgMulti'
      BY <1>3 DEF DelayedOutput
    <3>2. QED
      BY <1>0, <1>3, <3>1, Finishes
  <2>2. QED
    BY <2>1 DEF MultiInv
<1>4. CASE CheckInstruction
  <2>1. CASE UNCHANGED pipe3
    BY <1>0, <1>1, <1>4, <2>1, CheckEffects
  <2>2. CASE pipe3' = Tail(pipe3) /\ InMem.type # "WAIT"
    <3>1. pipe3 # <<>> /\ InMem = pipe3[1] /\ rgMulti' = rgMulti
      BY <1>0, <1>4, CheckEffects
    <3>2. n >= 1 /\ Len(pipe3') = n - 1 /\ \A i \in 1..(n - 1) : pipe3'[i] = pipe3[i + 1]
      BY <1>0, <2>2, <3>1, Shifted
    <3>3. rgMulti => n # 1
      <4>1. pipe3[1].type # "WAIT" /\ 1 \in 1..n
        BY <1>0, <2>2, <3>1, <3>2
      <4>2. QED
        BY <4>1 DEF MultiInv
    <3>4. rgMulti' => pipe3' # <<>>
      BY <1>0, <3>1, <3>2, <3>3, Shifted
    <3>5. ASSUME NEW i \in 1..(n - 1)
          PROVE  pipe3'[i].type = "WAIT" <=> rgMulti' /\ i = n - 1
      BY <1>0, <3>1, <3>2 DEF MultiInv
    <3>6. QED
      BY <3>2, <3>4, <3>5 DEF MultiInv
  <2>3. QED
    BY <1>0, <1>4, <2>1, <2>2, CheckEffects
<1>5. CASE InstructionCommit
  BY <1>1, <1>5, CommitEffects DEF CommitFrame, execVars
<1>6. CASE Deliver \/ Decode \/ WaitForInterrupt \/ DmemRespond \/ CsrAnswer \/ ToggleIrq
             \/ UNCHANGED vars
  BY <1>1, <1>6 DEF Deliver, Decode, WaitForInterrupt, DmemRespond, CsrAnswer, ToggleIrq, vars,
                    execVars
<1>7. QED
  BY <1>2, <1>3, <1>4, <1>5, <1>6 DEF Next
\* Every step keeps the trap decode waits for in flight, the youngest of all.
LEMMA StallStep == ASSUME TypeInv, MultiInv, StallInv, [Next]_vars PROVE StallInv'
<1> DEFINE n == Len(pipe3)
           InPipe2 == pipe2 # <<>> /\ LiveFetched(InExec) /\ InExec.type = "TRAP"
           InPipe3 == pipe2 = <<>> /\ n >= 1 /\ LiveIssued(pipe3[n]) /\ pipe3[n].type = "TRAP"
           InPipe4 == /\ pipe2 = <<>> /\ n = 0 /\ pipe4 # <<>>
                      /\ LiveIssued(InWb) /\ InWb.type = "TRAP"
<1>0. TypeOK /\ pipe3 \in Seq(IssuedHere) /\ n \in Nat
  BY LenProperties DEF TypeInv, TypeOK, ExecTypeOK, IssuedHere
<1>a. pipe3' \in Seq(IssuedHere) /\ n' \in Nat
  BY TypeStep, LenProperties DEF TypeInv, TypeOK, ExecTypeOK, IssuedHere
<1>b. (pipe3 = <<>> <=> n = 0) /\ (pipe3' = <<>> <=> n' = 0)
  BY <1>0, <1>a, Shifted
<1>c. rgStall => InPipe2 \/ InPipe3 \/ InPipe4
  BY <1>0, <1>b DEF StallInv, LastIssued
<1> SUFFICES ASSUME rgStall' PROVE InPipe2' \/ InPipe3' \/ InPipe4'
  BY <1>a, <1>b DEF StallInv, LastIssued
<1> DEFINE Goal == InPipe2' \/ InPipe3' \/ InPipe4'
<1> HIDE DEF Goal
<1> SUFFICES Goal
  BY DEF Goal
<1>1. CASE UNCHANGED <<rgStall, pipe2, pipe3, pipe4, eEpoch, wEpoch>>
  BY <1>1, <1>c DEF Goal, LiveFetched, LiveIssued, InExec, InWb, Epochs
<1>2. CASE Decode
  <2>1. rgStall = FALSE
    BY <1>2 DEF Decode, DecodeInto, TypeInv, TypeOK, DecodeTypeOK
  <2>2. Dispatch(FALSE)
    BY <1>2, <2>1 DEF Decode, DecodeInto, DropStale, SleepOnWfi
  <2>a. DecodedType(Head(pipe1).pc) = "TRAP"
    BY <2>2, Zenon DEF Dispatch
  <2>3. PICK e : pipe2' = <<e>> /\ e.ep = Epochs /\ e.type = "TRAP"
    BY <2>2, <2>a DEF Dispatch
  <2>4. pipe2' # <<>> /\ InExec' = e /\ Epochs' = Epochs
    BY <1>2, <2>3 DEF InExec, Decode, Epochs
  <2>5. QED
    BY <2>3, <2>4 DEF Goal, LiveFetched
<1>3. CASE Exec
  <2>0. pipe2 # <<>> /\ wEpoch' = wEpoch
    BY <1>3, ExecIssues DEF ExecReady
  <2>1. CASE Drops
    BY <1>c, <2>0, <2>1 DEF Drops
  <2>2. CASE \E e \in IssuedHere : IssuesAs(e)
    <3>1. PICK e \in IssuedHere : IssuesAs(e)
      BY <2>2
    <3>2. rgStall /\ pipe2' = <<>>
      BY <3>1 DEF IssuesAs
    <3>3. e.type = "TRAP" /\ e.ep = wEpoch
      BY <1>c, <2>0, <3>1, <3>2 DEF IssuesAs
    <3>4. n' = n + 1 /\ pipe3'[n'] = e
      BY <1>0, <3>1, Shifted DEF IssuesAs
    <3>5. InPipe3'
      BY <1>0, <2>0, <3>2, <3>3, <3>4 DEF LiveIssued
    <3>6. QED
      BY <3>5 DEF Goal
  <2>3. QED
    BY <1>3, <2>1, <2>2, ExecIssues
<1>4. CASE DelayedOutput
  <2>1. UNCHANGED <<rgStall, pipe2, pipe4, eEpoch, wEpoch>>
    BY <1>4 DEF DelayedOutput, decodeVars
  <2>2. n >= 1 /\ pipe3[n].type = "WAIT"
    BY <1>0, <1>4, <1>b, Finishes DEF LastIssued
  <2>3. InPipe2
    BY <1>c, <2>1, <2>2
  <2>4. InPipe2'
    BY <2>1, <2>3 DEF LiveFetched, InExec, Epochs
  <2>5. QED
    BY <2>4 DEF Goal
<1>5. CASE CheckInstruction
  <2>1. /\ UNCHANGED <<rgStall, pipe2, eEpoch, wEpoch>>
        /\ pipe3 # <<>> /\ pipe4 = <<>> /\ InMem = pipe3[1]
    BY <1>0, <1>5, CheckEffects DEF decodeVars
  <2>2. CASE InPipe2
    <3>1. InPipe2'
      BY <2>1, <2>2 DEF LiveFetched, InExec, Epochs
    <3>2. QED
      BY <3>1 DEF Goal
  <2>3. CASE InPipe3 /\ UNCHANGED <<pipe3, pipe4>>
    <3>1. InPipe3'
      BY <2>1, <2>3 DEF LiveIssued
    <3>2. QED
      BY <3>1 DEF Goal
  <2>4. CASE InPipe3 /\ pipe3' = Tail(pipe3) /\ n > 1
    <3>1. n' = n - 1 /\ pipe3'[n'] = pipe3[n]
      <4>1. n' = n - 1 /\ \A i \in 1..(n - 1) : pipe3'[i] = pipe3[i + 1]
        BY <1>0, <2>1, <2>4, Shifted
      <4>2. n - 1 \in 1..(n - 1) /\ (n - 1) + 1 = n
        BY <1>0, <2>4
      <4>3. QED
        BY <4>1, <4>2
    <3>2. InPipe3'
      BY <1>0, <2>1, <2>4, <3>1 DEF LiveIssued
    <3>3. QED
      BY <3>2 DEF Goal
  <2>5. CASE InPipe3 /\ pipe3' = Tail(pipe3) /\ n = 1
    <3>1. n' = 0
      BY <1>0, <2>1, <2>5, Shifted
    <3>2. InMem.type = "TRAP" /\ InMem.ep = wEpoch
      BY <2>1, <2>5 DEF LiveIssued
    <3>3. pipe4' # <<>> /\ InWb' = InMem
      BY <1>0, <1>5, <2>1, <2>5, <3>1, <3>2, CheckEffects DEF TakeAnswer, MemType
    <3>4. InPipe4'
      BY <2>1, <2>5, <3>1, <3>2, <3>3 DEF LiveIssued
    <3>5. QED
      BY <3>4 DEF Goal
  <2>6. UNCHANGED <<pipe3, pipe4>> \/ pipe3' = Tail(pipe3)
    BY <1>0, <1>5, CheckEffects
  <2>7. n >= 1 => n = 1 \/ n > 1
    BY <1>0
  <2>8. InPipe2 \/ InPipe3
    BY <1>c, <2>1
  <2>9. QED
    BY <2>2, <2>3, <2>4, <2>5, <2>6, <2>7, <2>8
<1>6. CASE InstructionCommit
  <2>1. pipe4 # <<>> /\ UNCHANGED <<eEpoch, pipe3>> /\ NoFlush
    BY <1>6, CommitEffects DEF CommitFrame, execVars
  <2>2. UNCHANGED <<rgStall, pipe2, wEpoch>>
    BY <2>1 DEF NoFlush, decodeVars
  <2>3. CASE pipe4' = pipe4
    BY <1>1, <2>1, <2>2, <2>3
  <2>4. CASE ~ (LiveIssued(InWb) /\ InWb.type = "TRAP")
    <3>1. CASE InPipe2
      <4>1. InPipe2'
        BY <2>1, <2>2, <3>1 DEF LiveFetched, InExec, Epochs
      <4>2. QED
        BY <4>1 DEF Goal
    <3>2. CASE InPipe3
      <4>1. InPipe3'
        BY <2>1, <2>2, <3>2 DEF LiveIssued
      <4>2. QED
        BY <4>1 DEF Goal
    <3>3. QED
      BY <1>c, <2>2, <2>4, <3>1, <3>2
  <2>5. QED
    BY <1>6, <2>3, <2>4, CommitEffects
<1>7. CASE Deliver \/ WaitForInterrupt \/ DmemRespond \/ CsrAnswer \/ ToggleIrq \/ UNCHANGED vars
  BY <1>1, <1>7 DEF Deliver, WaitForInterrupt, DmemRespond, CsrAnswer, ToggleIrq, vars, decodeVars,
                    execVars
<1>8. QED
  BY <1>2, <1>3, <1>4, <1>5, <1>6, <1>7 DEF Next
\* The store stage5 has started stays the oldest, and the answer of a CSR
\* access does not outlive it.
LEMMA AnswerStep == ASSUME TypeInv, AnswerInv, [Next]_vars PROVE AnswerInv'
<1>0. TypeOK /\ (rgStoreInit => Commits({"STORE"}) /\ sb # <<>>)
  BY DEF TypeInv, BusyInv
<1>1. ASSUME UNCHANGED storeVars PROVE rgStoreInit' => ~ StoreIsCached'
  BY <1>1 DEF storeVars, StoreIsCached, AnswerInv
<1>2. ASSUME UNCHANGED <<rgCsrWait, csrResp>> PROVE csrResp' # <<>> => rgCsrWait'
  BY <1>2 DEF AnswerInv
<1>3. CASE UNCHANGED <<storeVars, csrVars>>
  BY <1>1, <1>2, <1>3 DEF AnswerInv, csrVars
<1>4. CASE DmemRespond
  <2>1. UNCHANGED <<rgStoreInit, rgCsrWait, csrResp>>
    BY <1>4 DEF DmemRespond, csrVars
  <2>2. CASE sb' = sb
    BY <2>1, <2>2 DEF AnswerInv, StoreIsCached
  <2>3. CASE DmemStore
    <3>1. sb \in Seq(StoreEntry)
      BY <1>0 DEF TypeOK, StoreTypeOK
    <3>2. PICK e \in StoreEntry : sb' = Append(sb, e)
      BY <1>0, <2>3, Heads DEF DmemStore, RequestEntry, StoreEntry
    <3>3. sb # <<>> => Head(sb') = Head(sb)
      BY <3>1, <3>2
    <3>4. QED
      BY <1>0, <2>1, <3>3 DEF AnswerInv, StoreIsCached
  <2>4. QED
    BY <1>4, <2>2, <2>3 DEF DmemRespond, DmemFault, DmemRead
<1>5. CASE CsrAnswer
  <2>1. rgCsrWait /\ rgCsrWait' = rgCsrWait /\ UNCHANGED storeVars
    BY <1>5 DEF CsrAnswer
  <2>2. QED
    BY <1>1, <2>1 DEF AnswerInv
<1>6. CASE CommitRerun \/ CommitTrap \/ CommitXret \/ CommitReg
  BY <1>1, <1>2, <1>6 DEF AnswerInv, CommitRerun, CommitTrap, TrapTo, CommitXret, CommitReg, csrVars
<1>7. CASE CommitStore
  <2>1. ~ rgStoreInit' /\ UNCHANGED <<rgCsrWait, csrResp>>
    BY <1>7 DEF CommitStore, csrVars
  <2>2. QED
    BY <1>2, <2>1 DEF AnswerInv
<1>8. CASE InitiateUncached
  <2>1. ~ StoreIsCached' /\ UNCHANGED <<rgCsrWait, csrResp>>
    <3>1. ~ StoreIsCached /\ sb' = sb /\ UNCHANGED <<rgCsrWait, csrResp>>
      BY <1>8 DEF InitiateUncached, csrVars
    <3>2. QED
      BY <3>1 DEF StoreIsCached
  <2>2. QED
    BY <1>2, <2>1 DEF AnswerInv
<1>9. CASE UncachedDone \/ UncachedError
  <2>1. ~ rgStoreInit' /\ UNCHANGED <<rgCsrWait, csrResp>>
    BY <1>9 DEF UncachedDone, UncachedError, TrapTo, csrVars
  <2>2. QED
    BY <1>2, <2>1 DEF AnswerInv
<1>10. CASE CsrRequest
  <2>1. rgCsrWait' /\ UNCHANGED storeVars
    BY <1>10 DEF CsrRequest
  <2>2. QED
    BY <1>1, <2>1 DEF AnswerInv
<1>11. CASE CommitCsr
  <2>1. csrResp' = <<>> /\ UNCHANGED storeVars
    BY <1>11 DEF CommitCsr
  <2>2. QED
    BY <1>1, <2>1 DEF AnswerInv
<1>12. CASE DropInstruction
  <2>1. ~ rgStoreInit /\ UNCHANGED <<rgStoreInit, rgCsrWait, csrResp>>
    BY <1>0, <1>12 DEF DropInstruction, Commits, csrVars
  <2>2. QED
    BY <1>2, <2>1 DEF AnswerInv
<1>13. CASE Exec
  BY <1>3, <1>13, ExecIssues
<1>14. CASE Deliver \/ Decode \/ WaitForInterrupt \/ DelayedOutput \/ CheckInstruction
              \/ ToggleIrq \/ UNCHANGED vars
  BY <1>3, <1>14 DEF Deliver, Decode, WaitForInterrupt, DelayedOutput, CheckInstruction, ToggleIrq,
                     vars
<1>15. QED
  BY <1>4, <1>5, <1>6, <1>7, <1>8, <1>9, <1>10, <1>11, <1>12, <1>13, <1>14
     DEF Next, InstructionCommit

\* Nothing waits at reset.
LEMMA WaitInit == Init => WaitInv
<1> SUFFICES ASSUME Init PROVE WaitInv
  OBVIOUS
<1>1. Len(pipe3) = 0 /\ ~ rgMulti /\ ~ rgStall /\ ~ rgStoreInit /\ csrResp = <<>>
  BY EmptySeq DEF Init
<1>2. QED
  BY <1>1 DEF WaitInv, MultiInv, StallInv, AnswerInv

\* The invariant of the waits.
THEOREM WaitInvariance == Spec => []WaitInv
<1>1. TypeInv /\ WaitInv /\ [Next]_vars => WaitInv'
  BY MultiStep, StallStep, AnswerStep DEF WaitInv
<1>2. QED
  BY WaitInit, TypeInvariance, <1>1, PTL DEF Spec

\* The trap is the last of what is in flight.
LEMMA TrapFound ==
  ASSUME Buffers, StallInv, rgStall
  PROVE  TrapIsYoungest
<1>1. /\ Len(pipe3) \in Nat /\ Len(pipe4) \in Nat /\ Len(pipe4) <= 1
      /\ Len(Issued) = Len(pipe4) + Len(pipe3)
      /\ \A i \in 1..Len(Issued) :
           Issued[i] = IF i <= Len(pipe4) THEN pipe4[i] ELSE pipe3[i - Len(pipe4)]
      /\ pipe3 = <<>> <=> Len(pipe3) = 0
      /\ pipe4 # <<>> => Len(pipe4) >= 1 /\ InWb = pipe4[1]
      /\ Issued = <<>> <=> Len(Issued) = 0
  <2>1. Issued \in Seq(IssuedHere)
    BY ConcatProperties DEF Buffers, Issued, IssuedHere
  <2>2. QED
    BY <2>1, Joined, Shifted DEF Buffers, InWb, IssuedHere
<1> DEFINE m == Len(pipe4)
           n == Len(pipe3)
<1>2. CASE pipe2 # <<>> /\ LiveFetched(InExec) /\ InExec.type = "TRAP"
  BY <1>2 DEF TrapIsYoungest
<1>3. CASE /\ pipe2 = <<>> /\ pipe3 # <<>>
           /\ LiveIssued(LastIssued) /\ LastIssued.type = "TRAP"
  <2>1. Issued # <<>> /\ Len(Issued) \in 1..Len(Issued) /\ ~ (m + n <= m) /\ (m + n) - m = n
    BY <1>1, <1>3
  <2>2. Issued[Len(Issued)] = LastIssued
    BY <1>1, <2>1 DEF LastIssued
  <2>3. QED
    BY <1>3, <2>1, <2>2 DEF TrapIsYoungest
<1>4. CASE /\ pipe2 = <<>> /\ pipe3 = <<>> /\ pipe4 # <<>>
           /\ LiveIssued(InWb) /\ InWb.type = "TRAP"
  <2>1. m = 1 /\ n = 0 /\ Len(Issued) = 1
    BY <1>1, <1>4
  <2>2. Issued # <<>> /\ Issued[Len(Issued)] = InWb
    BY <1>1, <1>4, <2>1
  <2>3. QED
    BY <1>4, <2>2 DEF TrapIsYoungest
<1>5. QED
  BY <1>2, <1>3, <1>4 DEF StallInv

\* Whoever waits is woken by something in flight: no stall of the pipeline is
\* ever left without the instruction, store or unit that ends it.
THEOREM WaitsBacked == Spec => []WaitsAreBacked
<1>1. TypeInv /\ Buffers /\ WaitInv => WaitsAreBacked
  BY TrapFound DEF WaitInv, MultiInv, AnswerInv, TypeInv, BusyInv, WaitsAreBacked
<1>2. QED
  BY <1>1, TypeInvariance, EpochInvariance, WaitInvariance, PTL

-----------------------------------------------------------------------------
(* Answers of the data side *)

\* Entries that are neither answered nor wait for an answer change nothing.
LEMMA AnswersAlike ==
  ASSUME NEW a, NEW b, NEW s, NEW t, AnswersFor(a, s),
         Len(b) = Len(a), \A j \in 1..Len(a) : SameTag(b[j], a[j]),
         Len(t) = Len(s),
         \A i \in 1..Len(s) : SameTag(t[i], s[i]) /\ (t[i].type \in MemType <=> s[i].type \in MemType)
  PROVE  AnswersFor(b, t)
<1>1. Awaiting(t) = Awaiting(s) /\ Awaiting(s) \subseteq 1..Len(s)
  BY DEF Awaiting
<1>2. PICK asker \in [1..Len(a) -> Awaiting(s)] :
        /\ \A i \in Awaiting(s) : \E j \in 1..Len(a) : asker[j] = i
        /\ \A j, k \in 1..Len(a) : j < k => asker[j] < asker[k]
        /\ \A j \in 1..Len(a) : SameTag(a[j], s[asker[j]])
  BY DEF AnswersFor
<1>3. asker \in [1..Len(b) -> Awaiting(t)]
  BY <1>1
<1>4. \A j \in 1..Len(b) : SameTag(b[j], t[asker[j]])
  BY <1>1, <1>2 DEF SameTag
<1>5. /\ \A i \in Awaiting(t) : \E j \in 1..Len(b) : asker[j] = i
      /\ \A j, k \in 1..Len(b) : j < k => asker[j] < asker[k]
  BY <1>1, <1>2
<1>6. QED
  BY <1>3, <1>4, <1>5, Zenon DEF AnswersFor

\* An entry that waits for nothing is added.
LEMMA AnswersKept ==
  ASSUME NEW S, NEW s \in Seq(S), NEW a, AnswersFor(a, s), NEW e \in S, e.type \notin MemType
  PROVE  AnswersFor(a, Append(s, e))
<1> DEFINE n == Len(s)
           t == Append(s, e)
<1>1. n \in Nat /\ Len(t) = n + 1 /\ t[n + 1] = e /\ \A i \in 1..n : t[i] = s[i]
  BY Shifted
<1>2. Awaiting(s) \subseteq 1..n
  BY DEF Awaiting
<1>3. Awaiting(t) = Awaiting(s)
  <2>1. \A i \in 1..(n + 1) : i \in 1..n \/ i = n + 1
    BY <1>1
  <2>2. \A i \in 1..n : i \in 1..(n + 1)
    BY <1>1
  <2> HIDE DEF t
  <2>3. QED
    BY <1>1, <2>1, <2>2 DEF Awaiting
<1>4. PICK asker \in [1..Len(a) -> Awaiting(s)] :
        /\ \A i \in Awaiting(s) : \E j \in 1..Len(a) : asker[j] = i
        /\ \A j, k \in 1..Len(a) : j < k => asker[j] < asker[k]
        /\ \A j \in 1..Len(a) : SameTag(a[j], s[asker[j]])
  BY DEF AnswersFor
<1> HIDE DEF t
<1>5. \A j \in 1..Len(a) : SameTag(a[j], t[asker[j]])
  BY <1>1, <1>2, <1>4
<1>6. QED
  BY <1>3, <1>4, <1>5 DEF AnswersFor, t

\* An entry is added together with its request.
LEMMA AnswersAdded ==
  ASSUME NEW S, NEW s \in Seq(S), NEW R, NEW a \in Seq(R), AnswersFor(a, s),
         NEW e \in S, NEW r \in R, e.type \in MemType, SameTag(r, e)
  PROVE  AnswersFor(Append(a, r), Append(s, e))
<1> DEFINE n == Len(s)
           m == Len(a)
           t == Append(s, e)
           b == Append(a, r)
<1>1. n \in Nat /\ Len(t) = n + 1 /\ t[n + 1] = e /\ \A i \in 1..n : t[i] = s[i]
  BY Shifted
<1>2. m \in Nat /\ Len(b) = m + 1 /\ b[m + 1] = r /\ \A j \in 1..m : b[j] = a[j]
  BY Shifted
<1>3. Awaiting(s) \subseteq 1..n
  BY DEF Awaiting
<1>4. PICK asker \in [1..m -> Awaiting(s)] :
        /\ \A i \in Awaiting(s) : \E j \in 1..m : asker[j] = i
        /\ \A j, k \in 1..m : j < k => asker[j] < asker[k]
        /\ \A j \in 1..m : SameTag(a[j], s[asker[j]])
  BY DEF AnswersFor
<1>5. Awaiting(t) = Awaiting(s) \cup {n + 1}
  <2>1. \A i \in 1..(n + 1) : i \in 1..n \/ i = n + 1
    BY <1>1
  <2>2. (\A i \in 1..n : i \in 1..(n + 1)) /\ n + 1 \in 1..(n + 1)
    BY <1>1
  <2> HIDE DEF t
  <2>3. QED
    BY <1>1, <2>1, <2>2 DEF Awaiting
<1> DEFINE f == [j \in 1..(m + 1) |-> IF j = m + 1 THEN n + 1 ELSE asker[j]]
<1>6. /\ \A j \in 1..(m + 1) : j \in 1..m \/ j = m + 1
      /\ \A j \in 1..m : j \in 1..(m + 1) /\ j # m + 1 /\ f[j] = asker[j] /\ asker[j] \in 1..n
      /\ f[m + 1] = n + 1 /\ m + 1 \in 1..(m + 1)
  BY <1>2, <1>3, <1>4
<1>7. f \in [1..(m + 1) -> Awaiting(t)]
  BY <1>4, <1>5, <1>6
<1> HIDE DEF f, t, b
<1>8. \A i \in Awaiting(t) : \E j \in 1..(m + 1) : f[j] = i
  BY <1>4, <1>5, <1>6
<1>9. ASSUME NEW j \in 1..(m + 1), NEW k \in 1..(m + 1), j < k PROVE f[j] < f[k]
  <2>1. j \in 1..m
    BY <1>2, <1>9
  <2>2. CASE k = m + 1
    BY <1>1, <1>6, <2>1, <2>2
  <2>3. CASE k \in 1..m
    BY <1>4, <1>6, <1>9, <2>1, <2>3
  <2>4. QED
    BY <1>6, <2>2, <2>3
<1>10. ASSUME NEW j \in 1..(m + 1) PROVE SameTag(b[j], t[f[j]])
  <2>1. CASE j = m + 1
    BY <1>1, <1>2, <1>6, <2>1
  <2>2. CASE j \in 1..m
    BY <1>1, <1>2, <1>4, <1>6, <2>2
  <2>3. QED
    BY <1>6, <2>1, <2>2
<1>11. Len(b) = m + 1
  BY <1>2 DEF b
<1>12. AnswersFor(b, t)
  BY <1>7, <1>8, <1>9, <1>10, <1>11, Zenon DEF AnswersFor
<1>13. QED
  BY <1>12 DEF t, b

\* The first entry waits for nothing and leaves.
LEMMA AnswersPassed ==
  ASSUME NEW S, NEW s \in Seq(S), s # <<>>, NEW a, Len(a) \in Nat, AnswersFor(a, s),
         s[1].type \notin MemType
  PROVE  AnswersFor(a, Tail(s))
<1> DEFINE n == Len(s)
           m == Len(a)
           t == Tail(s)
<1>1. n \in Nat /\ n >= 1 /\ Len(t) = n - 1 /\ \A i \in 1..(n - 1) : t[i] = s[i + 1]
  BY Shifted
<1> HIDE DEF t
<1>2. PICK asker \in [1..m -> Awaiting(s)] :
        /\ \A i \in Awaiting(s) : \E j \in 1..m : asker[j] = i
        /\ \A j, k \in 1..m : j < k => asker[j] < asker[k]
        /\ \A j \in 1..m : SameTag(a[j], s[asker[j]])
  BY DEF AnswersFor
<1>3. \A i \in 1..(n - 1) : i \in Awaiting(t) <=> i + 1 \in Awaiting(s)
  <2>1. \A i \in 1..(n - 1) : i + 1 \in 1..n
    BY <1>1
  <2>2. QED
    BY <1>1, <2>1 DEF Awaiting
<1>4. \A i \in Awaiting(s) : i \in 1..n /\ i # 1 /\ i - 1 \in 1..(n - 1) /\ (i - 1) + 1 = i
  BY <1>1 DEF Awaiting
<1>5. \A i \in Awaiting(t) : i \in 1..(n - 1) /\ i + 1 \in Awaiting(s) /\ (i + 1) - 1 = i
  BY <1>1, <1>3 DEF Awaiting
<1> DEFINE f == [j \in 1..m |-> asker[j] - 1]
<1>6. \A j \in 1..m : f[j] = asker[j] - 1 /\ f[j] \in 1..(n - 1) /\ f[j] + 1 = asker[j]
                      /\ f[j] \in Awaiting(t) /\ asker[j] \in 1..n
  BY <1>2, <1>3, <1>4
<1>7. f \in [1..m -> Awaiting(t)]
  BY <1>6
<1> HIDE DEF f
<1>8. ASSUME NEW i \in Awaiting(t) PROVE \E j \in 1..m : f[j] = i
  BY <1>2, <1>5, <1>6
<1>9. ASSUME NEW j \in 1..m, NEW k \in 1..m, j < k PROVE f[j] < f[k]
  <2>1. asker[j] < asker[k] /\ asker[j] \in Nat /\ asker[k] \in Nat
    BY <1>2, <1>6, <1>9
  <2>2. QED
    BY <1>6, <2>1
<1>10. \A j \in 1..m : SameTag(a[j], t[f[j]])
  BY <1>1, <1>2, <1>6
<1>11. QED
  BY <1>7, <1>8, <1>9, <1>10 DEF AnswersFor, t

\* The first entry waits: the first answer is its own, and they leave together.
LEMMA AnswersTaken ==
  ASSUME NEW S, NEW s \in Seq(S), s # <<>>, NEW R, NEW a \in Seq(R), AnswersFor(a, s),
         s[1].type \in MemType
  PROVE  a # <<>> /\ SameTag(a[1], s[1]) /\ AnswersFor(Tail(a), Tail(s))
<1> DEFINE n == Len(s)
           m == Len(a)
           t == Tail(s)
           b == Tail(a)
<1>1. n \in Nat /\ n >= 1 /\ Len(t) = n - 1 /\ \A i \in 1..(n - 1) : t[i] = s[i + 1]
  BY Shifted
<1>2. PICK asker \in [1..m -> Awaiting(s)] :
        /\ \A i \in Awaiting(s) : \E j \in 1..m : asker[j] = i
        /\ \A j, k \in 1..m : j < k => asker[j] < asker[k]
        /\ \A j \in 1..m : SameTag(a[j], s[asker[j]])
  BY DEF AnswersFor
<1>3. 1 \in Awaiting(s) /\ Awaiting(s) \subseteq 1..n
  BY <1>1 DEF Awaiting
<1>4. m \in Nat /\ m >= 1 /\ asker[1] = 1
  <2>1. PICK j \in 1..m : asker[j] = 1
    BY <1>2, <1>3
  <2>2. m \in Nat /\ m >= 1 /\ 1 \in 1..m
    BY <2>1, Shifted
  <2>3. asker[1] \in 1..n
    BY <1>2, <1>3, <2>2
  <2>4. j = 1
    <3>1. ~ (1 < j)
      BY <1>1, <1>2, <2>1, <2>2, <2>3
    <3>2. QED
      BY <2>2, <3>1
  <2>5. QED
    BY <2>1, <2>2, <2>4
<1>5. a # <<>>
  BY <1>4, Shifted
<1>6. SameTag(a[1], s[1])
  BY <1>2, <1>4
<1>7. Len(b) = m - 1 /\ \A j \in 1..(m - 1) : b[j] = a[j + 1]
  BY <1>5, Shifted
<1> HIDE DEF t, b
<1>8. \A i \in 1..(n - 1) : i \in Awaiting(t) <=> i + 1 \in Awaiting(s)
  <2>1. \A i \in 1..(n - 1) : i + 1 \in 1..n
    BY <1>1
  <2>2. QED
    BY <1>1, <2>1 DEF Awaiting
<1>9. \A j \in 1..(m - 1) : j + 1 \in 1..m /\ asker[j + 1] \in Awaiting(s)
                            /\ asker[j + 1] \in 1..n /\ asker[j + 1] # 1
  <2> SUFFICES ASSUME NEW j \in 1..(m - 1)
               PROVE  /\ j + 1 \in 1..m /\ asker[j + 1] \in Awaiting(s)
                      /\ asker[j + 1] \in 1..n /\ asker[j + 1] # 1
    OBVIOUS
  <2>1. j + 1 \in 1..m /\ 1 \in 1..m /\ 1 < j + 1
    BY <1>4
  <2>2. asker[1] < asker[j + 1] /\ asker[j + 1] \in Awaiting(s)
    BY <1>2, <2>1
  <2>3. QED
    BY <1>1, <1>3, <1>4, <2>1, <2>2
<1> DEFINE f == [j \in 1..(m - 1) |-> asker[j + 1] - 1]
<1>10. \A j \in 1..(m - 1) :
         /\ f[j] = asker[j + 1] - 1 /\ f[j] \in 1..(n - 1) /\ f[j] + 1 = asker[j + 1]
         /\ f[j] \in Awaiting(t)
  BY <1>1, <1>8, <1>9
<1>11. f \in [1..(m - 1) -> Awaiting(t)]
  BY <1>10
<1> HIDE DEF f
<1>12. ASSUME NEW i \in Awaiting(t) PROVE \E j \in 1..(m - 1) : f[j] = i
  <2>1. i \in 1..(n - 1) /\ i + 1 \in Awaiting(s)
    BY <1>1, <1>8 DEF Awaiting
  <2>2. PICK j \in 1..m : asker[j] = i + 1
    BY <1>2, <2>1
  <2>3. j # 1 /\ j - 1 \in 1..(m - 1) /\ (j - 1) + 1 = j
    BY <1>1, <1>4, <2>1, <2>2
  <2>4. f[j - 1] = i
    BY <1>1, <1>10, <2>1, <2>2, <2>3
  <2>5. QED
    BY <2>3, <2>4
<1>13. ASSUME NEW j \in 1..(m - 1), NEW k \in 1..(m - 1), j < k PROVE f[j] < f[k]
  <2>1. j + 1 \in 1..m /\ k + 1 \in 1..m /\ j + 1 < k + 1
    BY <1>9, <1>13
  <2>2. asker[j + 1] < asker[k + 1]
    BY <1>2, <2>1
  <2>3. asker[j + 1] \in 1..n /\ asker[k + 1] \in 1..n
    BY <1>9
  <2>4. QED
    BY <1>1, <1>10, <2>2, <2>3
<1>14. ASSUME NEW j \in 1..(m - 1) PROVE SameTag(b[j], t[f[j]])
  <2>1. t[f[j]] = s[asker[j + 1]]
    BY <1>1, <1>10
  <2>2. SameTag(a[j + 1], s[asker[j + 1]])
    BY <1>2, <1>9
  <2>3. QED
    BY <1>7, <2>1, <2>2
<1>15. AnswersFor(b, t)
  BY <1>7, <1>11, <1>12, <1>13, <1>14 DEF AnswersFor
<1>16. QED
  BY <1>5, <1>6, <1>15 DEF t, b
InFlight == dresp \o dreq
InFlightEntry == ResponseEntry \cup RequestEntry

Places ==
  /\ Len(dresp) \in Nat /\ Len(dreq) \in Nat
  /\ (dresp = <<>> => Len(dresp) = 0) /\ (dresp # <<>> => Len(dresp) = 1)
  /\ InFlight \in Seq(InFlightEntry)
  /\ Len(InFlight) = Len(dresp) + Len(dreq)
  /\ \A i \in 1..Len(dresp) : InFlight[i] = dresp[i]
  /\ \A i \in 1..Len(dreq) : InFlight[Len(dresp) + i] = dreq[i]

\* The answers and behind them the requests, place by place.
LEMMA InFlightPlaces == TypeOK => Places
<1> SUFFICES ASSUME TypeOK PROVE Places
  OBVIOUS
<1>1. dresp \in Seq(InFlightEntry) /\ dreq \in Seq(InFlightEntry) /\ Len(dresp) <= 1
  BY SeqMonotonic DEF TypeOK, DmemTypeOK, InFlightEntry
<1>2. /\ Len(dresp) \in Nat /\ Len(dreq) \in Nat
      /\ (dresp = <<>> => Len(dresp) = 0) /\ (dresp # <<>> => Len(dresp) = 1)
  <2>1. /\ Len(dresp) \in Nat /\ Len(dreq) \in Nat /\ (dresp = <<>> <=> Len(dresp) = 0)
    BY <1>1, Shifted
  <2>2. \A n \in Nat : n <= 1 /\ n # 0 => n = 1
    OBVIOUS
  <2>3. QED
    BY <1>1, <2>1, <2>2, Zenon
<1>3. /\ InFlight \in Seq(InFlightEntry)
      /\ Len(InFlight) = Len(dresp) + Len(dreq)
      /\ \A i \in 1..(Len(dresp) + Len(dreq)) :
           InFlight[i] = IF i <= Len(dresp) THEN dresp[i] ELSE dreq[i - Len(dresp)]
  BY <1>1, ConcatProperties DEF InFlight
<1>4. ASSUME NEW i \in 1..Len(dresp) PROVE InFlight[i] = dresp[i]
  BY <1>2, <1>3
<1>5. ASSUME NEW i \in 1..Len(dreq) PROVE InFlight[Len(dresp) + i] = dreq[i]
  <2>1. /\ Len(dresp) + i \in 1..(Len(dresp) + Len(dreq))
        /\ ~ (Len(dresp) + i <= Len(dresp)) /\ (Len(dresp) + i) - Len(dresp) = i
    BY <1>2
  <2>2. QED
    BY <1>3, <2>1
<1>6. QED
  BY <1>2, <1>3, <1>4, <1>5 DEF Places

\* The data side answers what it was asked.
LEMMA RespondAlike ==
  ASSUME TypeOK, TypeOK', DmemRespond
  PROVE  /\ Len(InFlight') = Len(InFlight)
         /\ \A i \in 1..Len(InFlight) : SameTag(InFlight'[i], InFlight[i])
<1>p. Places'
  BY InFlightPlaces, PTL
<1>1. /\ dreq # <<>> /\ dresp = <<>> /\ dreq' = Tail(dreq)
      /\ \E r : SameTag(r, Head(dreq)) /\ dresp' = <<r>>
  BY DEF DmemRespond, DmemFault, DmemRead, DmemStore, Answer, SameTag
<1>2. PICK r : SameTag(r, Head(dreq)) /\ dresp' = <<r>>
  BY <1>1
<1>3. dresp' # <<>> /\ dresp'[1] = r
  BY <1>2
<1>4. /\ Len(dreq) \in Nat /\ Len(dreq) >= 1 /\ Len(dreq') = Len(dreq) - 1 /\ Head(dreq) = dreq[1]
      /\ \A i \in 1..(Len(dreq) - 1) : dreq'[i] = dreq[i + 1]
  BY <1>1, Shifted DEF TypeOK, DmemTypeOK
<1>5. /\ Len(InFlight) = Len(dreq) /\ \A i \in 1..Len(dreq) : InFlight[i] = dreq[i]
  BY <1>1, <1>4, InFlightPlaces DEF Places
<1>6. /\ Len(dresp') = 1 /\ Len(InFlight') = 1 + (Len(dreq) - 1)
      /\ \A i \in 1..Len(dresp') : InFlight'[i] = dresp'[i]
      /\ \A i \in 1..Len(dreq') : InFlight'[Len(dresp') + i] = dreq'[i]
  <2>1. /\ dresp' # <<>> => Len(dresp') = 1
        /\ Len(InFlight') = Len(dresp') + Len(dreq')
        /\ \A i \in 1..Len(dresp') : InFlight'[i] = dresp'[i]
        /\ \A i \in 1..Len(dreq') : InFlight'[Len(dresp') + i] = dreq'[i]
    BY <1>p DEF Places
  <2>2. QED
    BY <1>3, <1>4, <2>1
<1>7. InFlight'[1] = r /\ \A i \in 1..(Len(dreq) - 1) : InFlight'[1 + i] = dreq[i + 1]
  BY <1>3, <1>4, <1>6
<1>8. ASSUME NEW i \in 1..Len(dreq) PROVE SameTag(InFlight'[i], dreq[i])
  <2>1. CASE i = 1
    BY <1>2, <1>4, <1>7, <2>1
  <2>2. CASE i # 1
    <3>1. i - 1 \in 1..(Len(dreq) - 1) /\ 1 + (i - 1) = i /\ (i - 1) + 1 = i
      BY <1>4, <2>2
    <3>2. InFlight'[i] = dreq[i]
      BY <1>7, <3>1
    <3>3. QED
      BY <3>2 DEF SameTag
  <2>3. QED
    BY <2>1, <2>2
<1>9. QED
  BY <1>4, <1>5, <1>6, <1>8

PairInv == AnswersFor(InFlight, pipe3)

\* The execute stage sends the request of an instruction with it.
LEMMA IssuePairs ==
  ASSUME TypeOK, TypeOK', PairInv, dresp' = dresp, NEW e \in IssuedHere, IssuesAs(e)
  PROVE  PairInv'
<1>0. pipe3 \in Seq(IssuedHere) /\ pipe3' = Append(pipe3, e) /\ InFlight \in Seq(InFlightEntry)
  BY InFlightPlaces DEF Places, TypeOK, ExecTypeOK, IssuedHere, IssuesAs
<1>1. CASE e.type \notin MemType
  <2>1. InFlight' = InFlight
    BY <1>1 DEF IssuesAs, InFlight
  <2>2. QED
    BY <1>0, <1>1, <2>1, AnswersKept DEF PairInv
<1>2. CASE e.type \in MemType
  <2>1. PICK r \in RequestEntry : SameTag(r, e) /\ dreq' = Append(dreq, r)
    BY <1>2 DEF IssuesAs, SameTag
  <2>2. InFlight' = Append(InFlight, r)
    <3>1. dresp \in Seq(InFlightEntry) /\ dreq \in Seq(InFlightEntry) /\ r \in InFlightEntry
      BY SeqMonotonic DEF TypeOK, DmemTypeOK, InFlightEntry
    <3>2. dresp \o Append(dreq, r) = Append(dresp \o dreq, r)
      BY <3>1
    <3>3. QED
      BY <2>1, <3>2 DEF InFlight
  <2>3. QED
    BY <1>0, <1>2, <2>1, <2>2, AnswersAdded DEF PairInv, InFlightEntry
<1>3. QED
  BY <1>1, <1>2

\* Stage4 takes the answer that is due, which is the one of its instruction.
LEMMA TakenPairs ==
  ASSUME TypeOK, TypeOK', PairInv, pipe3 # <<>>, TakeAnswer, UNCHANGED dreq
  PROVE  PairInv' /\ SameTag(Head(dresp), InMem) /\ pipe3' = Tail(pipe3)
         /\ pipe4' = <<Answered(Head(dresp))>>
<1>0. pipe3 \in Seq(IssuedHere) /\ InFlight \in Seq(InFlightEntry) /\ InMem = pipe3[1]
  BY InFlightPlaces, Shifted DEF Places, TypeOK, ExecTypeOK, IssuedHere, InMem
<1>p. Places'
  BY InFlightPlaces, PTL
<1>1. InMem.type \in MemType /\ dresp # <<>> /\ dresp' = <<>>
  BY DEF TakeAnswer
<1>2. InFlight # <<>> /\ SameTag(InFlight[1], InMem) /\ AnswersFor(Tail(InFlight), Tail(pipe3))
  BY <1>0, <1>1, AnswersTaken DEF PairInv
<1>3. /\ Len(dresp) = 1 /\ Len(dreq) \in Nat /\ Len(InFlight) = 1 + Len(dreq)
      /\ InFlight[1] = dresp[1] /\ Head(dresp) = dresp[1]
      /\ \A i \in 1..Len(dreq) : InFlight[1 + i] = dreq[i]
  <2>1. dresp \in Seq(ResponseEntry)
    BY DEF TypeOK, DmemTypeOK
  <2>2. Head(dresp) = dresp[1]
    BY <1>1, <2>1, Shifted
  <2>3. Places /\ Len(dresp) = 1 /\ 1 \in 1..1
    BY <1>1, InFlightPlaces DEF Places
  <2>4. QED
    BY <2>2, <2>3 DEF Places
<1>4. SameTag(Head(dresp), InMem)
  BY <1>2, <1>3
<1>5. pipe3' = Tail(pipe3) /\ pipe4' = <<Answered(Head(dresp))>>
  BY <1>4 DEF TakeAnswer, SameTag
<1>6. Len(InFlight') = Len(dreq) /\ \A i \in 1..Len(dreq) : InFlight'[i] = dreq[i]
  <2>1. /\ dresp' = <<>> => Len(dresp') = 0
        /\ Len(InFlight') = Len(dresp') + Len(dreq')
        /\ \A i \in 1..Len(dreq') : InFlight'[Len(dresp') + i] = dreq'[i]
    BY <1>p DEF Places
  <2>2. QED
    BY <1>1, <1>3, <2>1
<1>7. Len(Tail(InFlight)) = Len(dreq) /\ \A i \in 1..Len(dreq) : Tail(InFlight)[i] = dreq[i]
  <2>1. /\ Len(Tail(InFlight)) = Len(InFlight) - 1
        /\ \A i \in 1..(Len(InFlight) - 1) : Tail(InFlight)[i] = InFlight[i + 1]
    BY <1>0, <1>2, Shifted
  <2>2. QED
    BY <1>3, <2>1
<1>8. AnswersFor(InFlight', Tail(pipe3))
  <2>1. \A i \in 1..Len(Tail(InFlight)) : SameTag(InFlight'[i], Tail(InFlight)[i])
    BY <1>6, <1>7 DEF SameTag
  <2>2. \A i \in 1..Len(Tail(pipe3)) : SameTag(Tail(pipe3)[i], Tail(pipe3)[i])
    BY DEF SameTag
  <2>3. QED
    BY <1>2, <1>6, <1>7, <2>1, <2>2, AnswersAlike
<1>9. QED
  BY <1>4, <1>5, <1>8 DEF PairInv

\* Every step keeps the answers in the order of those who wait for them.
LEMMA PairStep == ASSUME TypeInv, MultiInv, PairInv, [Next]_vars PROVE PairInv'
<1>0. TypeOK /\ TypeOK' /\ pipe3 \in Seq(IssuedHere) /\ InFlight \in Seq(InFlightEntry)
  BY TypeStep, InFlightPlaces DEF Places, TypeInv, TypeOK, ExecTypeOK, IssuedHere
<1>1. CASE UNCHANGED <<pipe3, dreq, dresp>>
  BY <1>1 DEF PairInv, InFlight
<1>2. CASE Exec
  BY <1>0, <1>1, <1>2, ExecIssues, IssuePairs DEF Drops
<1>3. CASE DelayedOutput
  <2>1. InFlight' = InFlight
    BY <1>3 DEF DelayedOutput, dmemVars, InFlight
  <2>2. /\ Len(pipe3') = Len(pipe3)
        /\ pipe3[Len(pipe3)].type \notin MemType /\ pipe3'[Len(pipe3)].type \notin MemType
        /\ \A i \in 1..Len(pipe3) : i # Len(pipe3) => pipe3'[i] = pipe3[i]
        /\ \A i \in 1..Len(pipe3) : SameTag(pipe3'[i], pipe3[i])
    BY <1>0, <1>3, Finishes DEF LastIssued, MemType
  <2>3. \A i \in 1..Len(pipe3) : /\ SameTag(pipe3'[i], pipe3[i])
                                 /\ pipe3'[i].type \in MemType <=> pipe3[i].type \in MemType
    BY <2>2
  <2>4. \A j \in 1..Len(InFlight) : SameTag(InFlight[j], InFlight[j])
    BY DEF SameTag
  <2>5. QED
    BY <2>1, <2>2, <2>3, <2>4, AnswersAlike DEF PairInv
<1>4. CASE DmemRespond
  <2>1. pipe3' = pipe3
    BY <1>4 DEF DmemRespond, execVars
  <2>2. \A i \in 1..Len(pipe3) : SameTag(pipe3[i], pipe3[i])
    BY DEF SameTag
  <2>3. QED
    BY <1>0, <1>4, <2>1, <2>2, RespondAlike, AnswersAlike DEF PairInv
<1>5. CASE CheckInstruction
  <2>1. pipe3 # <<>> /\ UNCHANGED dreq
    BY <1>5 DEF CheckInstruction
  <2>2. CASE TakeAnswer
    BY <1>0, <2>1, <2>2, TakenPairs
  <2>3. CASE PassInstruction
    <3>1. InFlight' = InFlight /\ pipe3' = Tail(pipe3) /\ InMem.type \notin MemType
      BY <2>1, <2>3 DEF PassInstruction, InFlight
    <3>2. InMem = pipe3[1] /\ Len(InFlight) \in Nat
      BY <1>0, <2>1, Shifted DEF InMem
    <3>3. QED
      BY <1>0, <2>1, <3>1, <3>2, AnswersPassed DEF PairInv
  <2>4. QED
    BY <1>5, <2>2, <2>3 DEF CheckInstruction
<1>6. CASE InstructionCommit
  BY <1>1, <1>6, CommitEffects DEF CommitFrame, execVars, dmemVars
<1>7. CASE Deliver \/ Decode \/ WaitForInterrupt \/ CsrAnswer \/ ToggleIrq \/ UNCHANGED vars
  BY <1>1, <1>7 DEF Deliver, Decode, WaitForInterrupt, CsrAnswer, ToggleIrq, vars, execVars,
                    dmemVars
<1>8. QED
  BY <1>2, <1>3, <1>4, <1>5, <1>6, <1>7 DEF Next

\* At reset nobody waits and nothing is asked.
LEMMA PairInit == Init => PairInv
<1> SUFFICES ASSUME Init PROVE PairInv
  OBVIOUS
<1>1. InFlight = <<>> /\ Len(InFlight) = 0 /\ Len(pipe3) = 0
  BY EmptySeq DEF Init, InFlight
<1>2. Awaiting(pipe3) = {}
  BY <1>1 DEF Awaiting
<1>3. [j \in {} |-> 0] \in [1..Len(InFlight) -> Awaiting(pipe3)]
  BY <1>1, <1>2
<1>4. QED
  BY <1>1, <1>2, <1>3 DEF PairInv, AnswersFor

\* An answer of the data side, which names nobody, is always taken by the
\* instruction whose request it answers: stage4 need not look at the epoch.
THEOREM ResponsesPairCorrect == Spec => []ResponsesPair
<1>1. TypeInv /\ WaitInv /\ PairInv /\ [Next]_vars => PairInv'
  BY PairStep DEF WaitInv
<1>2. PairInv <=> ResponsesPair
  BY DEF PairInv, InFlight, ResponsesPair
<1>3. QED
  BY PairInit, TypeInvariance, WaitInvariance, <1>1, <1>2, PTL DEF Spec
-----------------------------------------------------------------------------
(* The store buffer *)

\* What is sent to the data side as a store is one in the program.
StoreKind(e) == e.type \in {"STORE", "AMO"} <=> Prog[e.pc].op \in {"STORE", "AMO", "SC"}

DecodedKind == pipe2 # <<>> /\ InExec.type # "TRAP" => InExec.type = Prog[InExec.pc].op
RequestKind == \A i \in 1..Len(dreq) : StoreKind(dreq[i])
IssuedKind == \A i \in 1..Len(pipe3) : pipe3[i].type \in MemType => StoreKind(pipe3[i])

KindInv == DecodedKind /\ RequestKind /\ IssuedKind

\* Decode gives an instruction the type the program has at its address.
LEMMA DecodedStep == ASSUME TypeInv, DecodedKind, [Next]_vars PROVE DecodedKind'
<1>1. CASE pipe2' = pipe2
  BY <1>1 DEF DecodedKind, InExec
<1>2. CASE pipe2' = <<>>
  BY <1>2 DEF DecodedKind
<1>3. ASSUME NEW flush \in BOOLEAN, DecodeInto(flush) PROVE DecodedKind'
  <2>1. CASE DropStale \/ SleepOnWfi(flush)
    BY <1>2, <2>1 DEF DropStale, SleepOnWfi
  <2>2. CASE Dispatch(flush)
    <3>1. PICK e : pipe2' = <<e>> /\ e.type = DecodedType(e.pc)
      BY <2>2 DEF Dispatch
    <3>2. pipe2' # <<>> /\ InExec' = e
      BY <3>1 DEF InExec
    <3>3. e.type # "TRAP" => e.type = Prog[e.pc].op
      BY <3>1 DEF DecodedType
    <3>4. QED
      BY <3>2, <3>3 DEF DecodedKind
  <2>3. QED
    BY <1>3, <2>1, <2>2 DEF DecodeInto
<1>4. ASSUME NEW target, Redirect(target, pipe2) \/ Redirect(target, <<>>) PROVE DecodedKind'
  BY <1>1, <1>2, <1>3, <1>4 DEF Redirect
<1>5. CASE Exec
  <2>1. NoRedirect \/ \E target : Redirect(target, <<>>)
    BY <1>5 DEF Exec, ExecDrop, ExecTrap, ExecAlu, ExecMulti, ExecSystem, ExecMisaligned,
                ExecAccess, ExecFence, ExecLoadReserved, ExecStoreConditional, ExecControl, Request
  <2>2. QED
    BY <1>2, <1>4, <2>1 DEF NoRedirect
<1>6. CASE InstructionCommit
  <2>1. NoFlush \/ \E target : FlushFromWb(target)
    BY <1>6 DEF InstructionCommit, CommitRerun, CommitTrap, CommitStore, InitiateUncached,
                UncachedDone, UncachedError, CsrRequest, CommitCsr, CommitXret, CommitReg,
                DropInstruction, TrapTo
  <2>2. QED
    BY <1>1, <1>4, <2>1 DEF NoFlush, FlushFromWb, decodeVars
<1>7. CASE Decode
  BY <1>3, <1>7 DEF Decode
<1>8. CASE Deliver \/ WaitForInterrupt \/ DelayedOutput \/ DmemRespond \/ CheckInstruction
             \/ CsrAnswer \/ ToggleIrq \/ UNCHANGED vars
  BY <1>1, <1>8 DEF Deliver, WaitForInterrupt, DelayedOutput, DmemRespond, CheckInstruction,
                    CsrAnswer, ToggleIrq, vars, decodeVars
<1>9. QED
  BY <1>5, <1>6, <1>7, <1>8 DEF Next

\* Execute sends a store for a store of the program, and nothing else does.
LEMMA KindStep == ASSUME TypeInv, MultiInv, KindInv, [Next]_vars PROVE KindInv'
<1>0. /\ TypeOK /\ pipe3 \in Seq(IssuedHere) /\ dreq \in Seq(RequestEntry)
      /\ DecodedKind'
  BY DecodedStep DEF TypeInv, TypeOK, ExecTypeOK, DmemTypeOK, IssuedHere, KindInv
<1>1. ASSUME UNCHANGED dreq PROVE RequestKind'
  BY <1>1 DEF KindInv, RequestKind
<1>2. ASSUME UNCHANGED pipe3 PROVE IssuedKind'
  BY <1>2 DEF KindInv, IssuedKind
<1> SUFFICES RequestKind' /\ IssuedKind'
  BY <1>0 DEF KindInv
<1>3. CASE Exec
  <2>1. CASE Drops
    BY <1>1, <1>2, <2>1 DEF Drops
  <2>2. CASE \E e \in IssuedHere : IssuesAs(e)
    <3>1. PICK e \in IssuedHere : IssuesAs(e)
      BY <2>2
    <3>2. e.type \in MemType => StoreKind(e)
      <4>1. pipe2 # <<>>
        BY <1>3, ExecIssues DEF ExecReady
      <4>2. ASSUME e.type \in MemType PROVE StoreKind(e)
        <5>1. InExec.type = Prog[e.pc].op
          BY <3>1, <4>1, <4>2 DEF IssuesAs, MemType, KindInv, DecodedKind
        <5>2. QED
          BY <3>1, <4>2, <5>1 DEF IssuesAs, StoreKind
      <4>3. QED
        BY <4>2
    <3>3. IssuedKind'
      <4>1. /\ Len(pipe3) \in Nat /\ Len(pipe3') = Len(pipe3) + 1 /\ pipe3'[Len(pipe3) + 1] = e
            /\ \A i \in 1..Len(pipe3) : pipe3'[i] = pipe3[i]
        BY <1>0, <3>1, Shifted DEF IssuesAs
      <4>2. \A i \in 1..(Len(pipe3) + 1) : i \in 1..Len(pipe3) \/ i = Len(pipe3) + 1
        BY <4>1
      <4>3. QED
        BY <3>2, <4>1, <4>2 DEF KindInv, IssuedKind
    <3>4. CASE e.type \notin MemType
      BY <1>1, <3>1, <3>3, <3>4 DEF IssuesAs
    <3>5. CASE e.type \in MemType
      <4>1. PICK r \in RequestEntry : r.pc = e.pc /\ r.type = e.type /\ dreq' = Append(dreq, r)
        BY <3>1, <3>5 DEF IssuesAs
      <4>2. StoreKind(r)
        BY <3>2, <3>5, <4>1 DEF StoreKind
      <4>3. /\ Len(dreq) \in Nat /\ Len(dreq') = Len(dreq) + 1 /\ dreq'[Len(dreq) + 1] = r
            /\ \A i \in 1..Len(dreq) : dreq'[i] = dreq[i]
        BY <1>0, <4>1, Shifted
      <4>4. \A i \in 1..(Len(dreq) + 1) : i \in 1..Len(dreq) \/ i = Len(dreq) + 1
        BY <4>3
      <4>5. RequestKind'
        BY <4>2, <4>3, <4>4 DEF KindInv, RequestKind
      <4>6. QED
        BY <3>3, <4>5
    <3>6. QED
      BY <3>4, <3>5
  <2>3. QED
    BY <1>3, <2>1, <2>2, ExecIssues
<1>4. CASE DelayedOutput
  <2>1. /\ Len(pipe3') = Len(pipe3) /\ pipe3'[Len(pipe3)].type = "REG"
        /\ \A i \in 1..Len(pipe3) : i # Len(pipe3) => pipe3'[i] = pipe3[i]
    BY <1>0, <1>4, Finishes
  <2>2. IssuedKind'
    BY <2>1 DEF KindInv, IssuedKind, MemType
  <2>3. QED
    BY <1>1, <1>4, <2>2 DEF DelayedOutput, dmemVars
<1>5. CASE DmemRespond
  <2>1. dreq # <<>> /\ dreq' = Tail(dreq) /\ pipe3' = pipe3
    BY <1>5 DEF DmemRespond, DmemFault, DmemRead, DmemStore, Answer, execVars
  <2>2. /\ Len(dreq) \in Nat /\ Len(dreq') = Len(dreq) - 1
        /\ \A i \in 1..(Len(dreq) - 1) : dreq'[i] = dreq[i + 1]
    BY <1>0, <2>1, Shifted
  <2>3. \A i \in 1..(Len(dreq) - 1) : i + 1 \in 1..Len(dreq)
    BY <2>2
  <2>4. RequestKind'
    BY <2>2, <2>3 DEF KindInv, RequestKind
  <2>5. QED
    BY <1>2, <2>1, <2>4
<1>6. CASE CheckInstruction
  <2>1. pipe3 # <<>> /\ UNCHANGED dreq /\ (pipe3' = pipe3 \/ pipe3' = Tail(pipe3))
    BY <1>0, <1>6, CheckEffects
  <2>2. CASE pipe3' = Tail(pipe3)
    <3>1. /\ Len(pipe3) \in Nat /\ Len(pipe3') = Len(pipe3) - 1
          /\ \A i \in 1..(Len(pipe3) - 1) : pipe3'[i] = pipe3[i + 1]
      BY <1>0, <2>1, <2>2, Shifted
    <3>2. \A i \in 1..(Len(pipe3) - 1) : i + 1 \in 1..Len(pipe3)
      BY <3>1
    <3>3. IssuedKind'
      BY <3>1, <3>2 DEF KindInv, IssuedKind
    <3>4. QED
      BY <1>1, <2>1, <3>3
  <2>3. QED
    BY <1>1, <1>2, <2>1, <2>2
<1>7. CASE InstructionCommit
  BY <1>1, <1>2, <1>7, CommitEffects DEF CommitFrame, execVars, dmemVars
<1>8. CASE Deliver \/ Decode \/ WaitForInterrupt \/ CsrAnswer \/ ToggleIrq \/ UNCHANGED vars
  BY <1>1, <1>2, <1>8 DEF Deliver, Decode, WaitForInterrupt, CsrAnswer, ToggleIrq, vars, execVars,
                          dmemVars
<1>9. QED
  BY <1>3, <1>4, <1>5, <1>6, <1>7, <1>8 DEF Next
\* Two lists of tags that agree still do when the same one is added, and when
\* the first of them leaves both.
LEMMA TagsAdded ==
  ASSUME NEW S, NEW s \in Seq(S), NEW T, NEW t \in Seq(T), SameTags(s, t),
         NEW e \in S, NEW f \in T, SameTag(e, f)
  PROVE  SameTags(Append(s, e), t \o <<f>>)
<1> DEFINE n == Len(s)
           u == Append(s, e)
           v == Append(t, f)
<1>0. t \o <<f>> = v
  BY AppendIsConcat
<1>1. /\ n \in Nat /\ Len(t) = n /\ Len(u) = n + 1 /\ Len(v) = n + 1
      /\ u[n + 1] = e /\ v[n + 1] = f
      /\ \A i \in 1..n : u[i] = s[i] /\ v[i] = t[i] /\ SameTag(s[i], t[i])
  BY Shifted DEF SameTags
<1> HIDE DEF u, v
<1>2. \A i \in 1..(n + 1) : i \in 1..n \/ i = n + 1
  BY <1>1
<1>3. \A i \in 1..(n + 1) : SameTag(u[i], v[i])
  BY <1>1, <1>2
<1>4. SameTags(u, v)
  BY <1>1, <1>3 DEF SameTags
<1>5. QED
  BY <1>0, <1>4 DEF u, v

LEMMA TagsTaken ==
  ASSUME NEW S, NEW s \in Seq(S), s # <<>>, NEW T, NEW p \in Seq(T), NEW t \in Seq(T),
         Len(p) = 1, SameTags(s, p \o t)
  PROVE  SameTags(Tail(s), t)
<1> DEFINE n == Len(s)
           u == Tail(s)
           v == p \o t
<1>1. n \in Nat /\ Len(u) = n - 1 /\ \A i \in 1..(n - 1) : u[i] = s[i + 1]
  BY Shifted
<1>2. Len(t) \in Nat /\ Len(v) = 1 + Len(t) /\ \A i \in 1..Len(t) : v[i + 1] = t[i]
  <2>1. /\ Len(t) \in Nat /\ Len(v) = 1 + Len(t)
        /\ \A i \in 1..(1 + Len(t)) : v[i] = IF i <= 1 THEN p[i] ELSE t[i - 1]
    <3>1. /\ Len(v) = Len(p) + Len(t)
          /\ \A i \in 1..(Len(p) + Len(t)) : v[i] = IF i <= Len(p) THEN p[i] ELSE t[i - Len(p)]
      BY ConcatProperties
    <3>2. Len(t) \in Nat
      BY LenProperties
    <3> HIDE DEF v
    <3>3. QED
      BY <3>1, <3>2
  <2>2. ASSUME NEW i \in 1..Len(t) PROVE v[i + 1] = t[i]
    <3>1. i + 1 \in 1..(1 + Len(t)) /\ ~ (i + 1 <= 1) /\ (i + 1) - 1 = i
      BY <2>1
    <3>2. QED
      BY <2>1, <3>1
  <2>3. QED
    BY <2>1, <2>2
<1> HIDE DEF u, v
<1>3. n = Len(v) /\ \A i \in 1..n : SameTag(s[i], v[i])
  BY DEF SameTags, v
<1>4. ASSUME NEW i \in 1..(n - 1) PROVE SameTag(u[i], t[i])
  <2>1. i + 1 \in 1..n /\ i \in 1..Len(t)
    BY <1>1, <1>2, <1>3
  <2>2. QED
    BY <1>1, <1>2, <1>3, <2>1
<1>5. SameTags(u, t)
  BY <1>1, <1>2, <1>3, <1>4 DEF SameTags
<1>6. QED
  BY <1>5 DEF u

DueInWb == IF StoreInWb THEN pipe4 ELSE <<>>
DueAnswered == IF StoreAnswered THEN dresp ELSE <<>>
DueEntry == IssuedEntry(PassedType) \cup ResponseEntry

DueLists ==
  /\ DueInWb \in Seq(DueEntry) /\ DueAnswered \in Seq(DueEntry)
  /\ StoresDue = DueInWb \o DueAnswered
  /\ DueInWb \o <<>> = DueInWb /\ <<>> \o DueAnswered = DueAnswered

\* The stores due are two lists, one behind the other.
LEMMA DuePlaces == TypeOK => DueLists
<1> SUFFICES ASSUME TypeOK PROVE DueLists
  OBVIOUS
<1>1. pipe4 \in Seq(DueEntry) /\ dresp \in Seq(DueEntry) /\ <<>> \in Seq(DueEntry)
  BY SeqMonotonic, EmptySeq DEF TypeOK, Pipe4TypeOK, DmemTypeOK, DueEntry
<1>2. DueInWb \in Seq(DueEntry) /\ DueAnswered \in Seq(DueEntry)
  BY <1>1 DEF DueInWb, DueAnswered
<1>3. StoresDue = DueInWb \o DueAnswered
  BY DEF StoresDue, DueInWb, DueAnswered
<1>4. QED
  BY <1>2, <1>3, ConcatEmptySeq DEF DueLists

\* The data side takes a store of the program into its buffer with the answer.
LEMMA RespondMirrors ==
  ASSUME TypeOK, TypeOK', RequestKind, StoreBufferMirrors, DmemRespond
  PROVE  StoreBufferMirrors'
<1>0. /\ DueInWb' = DueInWb /\ StoresDue' = DueInWb' \o DueAnswered'
      /\ DueInWb \in Seq(DueEntry) /\ DueInWb \o <<>> = DueInWb
      /\ sb \in Seq(StoreEntry)
  <2>1. StoresDue' = DueInWb' \o DueAnswered'
    <3>1. DueLists'
      BY DuePlaces, PTL
    <3>2. QED
      BY <3>1 DEF DueLists
  <2>2. DueInWb' = DueInWb
    BY DEF DmemRespond, DueInWb, StoreInWb, InWb
  <2>3. QED
    BY <2>1, <2>2, DuePlaces DEF DueLists, TypeOK, StoreTypeOK
<1>1. dreq # <<>> /\ dresp = <<>> /\ Head(dreq) \in RequestEntry /\ StoreKind(Head(dreq))
  <2>1. dreq # <<>> /\ dresp = <<>>
    BY DEF DmemRespond, DmemFault, DmemRead, DmemStore
  <2>2. Head(dreq) = dreq[1] /\ 1 \in 1..Len(dreq)
    BY <2>1, Shifted DEF TypeOK, DmemTypeOK
  <2>3. QED
    BY <2>1, <2>2, Heads DEF RequestKind
<1>2. SameTags(sb, DueInWb)
  <2>1. DueAnswered = <<>>
    BY <1>1 DEF DueAnswered, StoreAnswered
  <2>2. QED
    BY <1>0, <2>1, DuePlaces DEF DueLists, StoreBufferMirrors
<1>3. CASE DmemStore
  <2>1. PICK v \in Data : Answer(FALSE, v)
    BY <1>3 DEF DmemStore
  <2> DEFINE r == [pc |-> Head(dreq).pc, ep |-> Head(dreq).ep, trap |-> FALSE, val |-> v]
             e == [pc |-> Head(dreq).pc, ep |-> Head(dreq).ep, val |-> Head(dreq).val]
  <2>2. dresp' = <<r>> /\ sb' = Append(sb, e)
    BY <1>3, <2>1 DEF DmemStore, Answer
  <2>3. r \in DueEntry /\ e \in StoreEntry /\ SameTag(e, r)
    BY <1>1 DEF DueEntry, ResponseEntry, StoreEntry, RequestEntry, SameTag
  <2>4. r.pc = Head(dreq).pc /\ r.trap = FALSE
    OBVIOUS
  <2> HIDE DEF r, e
  <2>5. dresp' # <<>> /\ Head(dresp') = r
    BY <2>2
  <2>6. Prog[r.pc].op \in {"STORE", "AMO", "SC"}
    BY <1>1, <1>3, <2>4 DEF DmemStore, StoreKind
  <2>7. DueAnswered' = <<r>>
    BY <2>2, <2>4, <2>5, <2>6 DEF DueAnswered, StoreAnswered
  <2>8. SameTags(Append(sb, e), DueInWb \o <<r>>)
    BY <1>0, <1>2, <2>3, TagsAdded
  <2>9. QED
    BY <1>0, <2>2, <2>7, <2>8 DEF StoreBufferMirrors
<1>4. CASE DmemRead \/ DmemFault
  <2>1. PICK trap \in BOOLEAN, v \in Data \cup {0} :
          Answer(trap, v) /\ (trap \/ Head(dreq).type \in {"LOAD", "FENCE"})
    BY <1>4 DEF DmemRead, DmemFault
  <2> DEFINE r == [pc |-> Head(dreq).pc, ep |-> Head(dreq).ep, trap |-> trap, val |-> v]
  <2>2. dresp' = <<r>> /\ sb' = sb
    BY <1>4, <2>1 DEF DmemRead, DmemFault, Answer
  <2>3. r.pc = Head(dreq).pc /\ r.trap = trap
    OBVIOUS
  <2> HIDE DEF r
  <2>4. dresp' # <<>> /\ Head(dresp') = r
    BY <2>2
  <2>5. ~ StoreAnswered'
    <3>1. CASE trap
      BY <2>3, <2>4, <3>1 DEF StoreAnswered
    <3>2. CASE Head(dreq).type \in {"LOAD", "FENCE"}
      <4>1. Prog[r.pc].op \notin {"STORE", "AMO", "SC"}
        BY <1>1, <2>3, <3>2 DEF StoreKind
      <4>2. QED
        BY <2>4, <4>1 DEF StoreAnswered
    <3>3. QED
      BY <2>1, <3>1, <3>2
  <2>6. DueAnswered' = <<>>
    BY <2>5 DEF DueAnswered
  <2>7. QED
    BY <1>0, <1>2, <2>2, <2>6 DEF StoreBufferMirrors
<1>5. QED
  BY <1>3, <1>4 DEF DmemRespond

\* Stage4 moves a store from the answers to pipe4 and nothing else there.
LEMMA CheckMirrors ==
  ASSUME TypeOK, TypeOK', IssuedKind, PairInv, StoreBufferMirrors, CheckInstruction
  PROVE  StoreBufferMirrors'
<1>0. /\ sb' = sb /\ pipe3 # <<>> /\ pipe4 = <<>> /\ UNCHANGED dreq
      /\ StoresDue' = DueInWb' \o DueAnswered'
  <2>1. StoresDue' = DueInWb' \o DueAnswered'
    <3>1. DueLists'
      BY DuePlaces, PTL
    <3>2. QED
      BY <3>1 DEF DueLists
  <2>2. QED
    BY <2>1 DEF CheckInstruction, storeVars
<1>1. SameTags(sb, DueAnswered)
  <2>1. DueInWb = <<>>
    BY <1>0 DEF DueInWb, StoreInWb
  <2>2. QED
    BY <2>1, DuePlaces DEF DueLists, StoreBufferMirrors
<1>2. InMem \in IssuedHere /\ (InMem.type \in MemType => StoreKind(InMem))
  <2>1. InMem = pipe3[1] /\ 1 \in 1..Len(pipe3)
    BY <1>0, Shifted DEF TypeOK, ExecTypeOK, InMem
  <2>2. QED
    BY <1>0, <2>1, Heads DEF IssuedKind, IssuedHere
<1>3. CASE PassInstruction
  <2>1. pipe4' # <<>> /\ InWb' = InMem /\ InMem.type # "STORE" /\ dresp' = dresp
    BY <1>3 DEF PassInstruction, InWb, MemType
  <2>2. DueInWb' = <<>> /\ DueAnswered' = DueAnswered
    BY <2>1 DEF DueInWb, DueAnswered, StoreInWb, StoreAnswered
  <2>3. StoresDue' = DueAnswered
    BY <1>0, <2>2, DuePlaces DEF DueLists
  <2>4. QED
    BY <1>0, <1>1, <2>3 DEF StoreBufferMirrors
<1>4. CASE TakeAnswer
  <2> DEFINE r == Head(dresp)
             e == Answered(r)
  <2>1. /\ SameTag(r, InMem) /\ pipe4' = <<e>>
        /\ InMem.type \in MemType /\ dresp # <<>> /\ dresp' = <<>>
    BY <1>0, <1>4, TakenPairs DEF TakeAnswer
  <2>2. r \in ResponseEntry
    BY <2>1, Heads
  <2>3. SameTag(e, r)
    BY <1>2, <2>1 DEF Answered, SameTag, IssuedHere, IssuedEntry
  <2>4. e.type = "STORE" <=> StoreAnswered
    <3>1. r.trap \in BOOLEAN
      BY <2>2 DEF ResponseEntry
    <3>2. Prog[r.pc].op \in {"STORE", "AMO", "SC"} <=> InMem.type \in {"STORE", "AMO"}
      BY <1>2, <2>1 DEF SameTag, StoreKind
    <3>3. e.type = "STORE" <=> ~ r.trap /\ InMem.type \in {"STORE", "AMO"}
      BY <1>2, <3>1 DEF Answered, IssuedHere, IssuedEntry
    <3>4. QED
      BY <2>1, <3>2, <3>3 DEF StoreAnswered
  <2>5. Len(dresp) = 1 /\ dresp[1] = r
    <3>1. dresp \in Seq(ResponseEntry)
      BY DEF TypeOK, DmemTypeOK
    <3>2. QED
      BY <2>1, <3>1, InFlightPlaces, Shifted DEF Places
  <2> HIDE DEF r, e
  <2>6. pipe4' # <<>> /\ InWb' = e /\ Len(pipe4') = 1 /\ pipe4'[1] = e
    BY <2>1 DEF InWb
  <2>7. DueAnswered' = <<>>
    BY <2>1 DEF DueAnswered, StoreAnswered
  <2>8. StoresDue' = DueInWb'
    <3>1. DueInWb' \o <<>> = DueInWb'
      <4>1. DueLists'
        BY DuePlaces, PTL
      <4>2. QED
        BY <4>1 DEF DueLists
    <3>2. QED
      BY <1>0, <2>7, <3>1
  <2>9. CASE StoreAnswered
    <3>1. DueInWb' = pipe4' /\ DueAnswered = dresp
      BY <2>4, <2>6, <2>9 DEF DueInWb, DueAnswered, StoreInWb
    <3>2. SameTags(sb, pipe4')
      <4>1. Len(sb) = 1 /\ SameTag(sb[1], r)
        BY <1>1, <2>5, <3>1 DEF SameTags
      <4>2. SameTag(sb[1], e)
        BY <2>3, <4>1 DEF SameTag
      <4>3. QED
        BY <2>6, <4>1, <4>2 DEF SameTags
    <3>3. QED
      BY <1>0, <2>8, <3>1, <3>2 DEF StoreBufferMirrors
  <2>10. CASE ~ StoreAnswered
    <3>1. DueInWb' = <<>> /\ DueAnswered = <<>>
      BY <2>4, <2>6, <2>10 DEF DueInWb, DueAnswered, StoreInWb
    <3>2. QED
      BY <1>0, <1>1, <2>8, <3>1 DEF StoreBufferMirrors
  <2>11. QED
    BY <2>9, <2>10
<1>5. QED
  BY <1>3, <1>4 DEF CheckInstruction

\* Write back takes the oldest store out of the buffer with the instruction.
LEMMA CommitMirrors ==
  ASSUME TypeInv, TypeOK', StoreBufferMirrors, InstructionCommit
  PROVE  StoreBufferMirrors'
<1>0. /\ TypeOK /\ pipe4 # <<>> /\ dresp' = dresp
      /\ StoresDue' = DueInWb' \o DueAnswered'
  <2>1. StoresDue' = DueInWb' \o DueAnswered'
    <3>1. DueLists'
      BY DuePlaces, PTL
    <3>2. QED
      BY <3>1 DEF DueLists
  <2>2. QED
    BY <2>1, CommitEffects DEF TypeInv, CommitFrame, dmemVars
<1>1. DueAnswered' = DueAnswered
  BY <1>0 DEF DueAnswered, StoreAnswered
<1>2. CASE pipe4' = pipe4 /\ sb' = sb
  <2>1. DueInWb' = DueInWb
    BY <1>2 DEF DueInWb, StoreInWb, InWb
  <2>2. QED
    BY <1>0, <1>1, <1>2, <2>1, DuePlaces DEF DueLists, StoreBufferMirrors
<1>3. CASE pipe4' = <<>> /\ sb' = sb /\ InWb.type # "STORE"
  <2>1. DueInWb' = <<>> /\ DueInWb = <<>>
    BY <1>3 DEF DueInWb, StoreInWb
  <2>2. QED
    BY <1>0, <1>1, <1>3, <2>1, DuePlaces DEF DueLists, StoreBufferMirrors
<1>4. CASE pipe4' = <<>> /\ sb # <<>> /\ sb' = Tail(sb) /\ InWb.type = "STORE"
  <2>1. DueInWb' = <<>> /\ DueInWb = pipe4
    BY <1>0, <1>4 DEF DueInWb, StoreInWb
  <2>2. Len(pipe4) = 1
    <3>1. Len(pipe4) \in Nat /\ Len(pipe4) # 0 /\ Len(pipe4) <= 1
      BY <1>0, Shifted DEF TypeOK, Pipe4TypeOK
    <3>2. \A n \in Nat : n <= 1 /\ n # 0 => n = 1
      OBVIOUS
    <3>3. QED
      BY <3>1, <3>2, Zenon
  <2>3. sb \in Seq(StoreEntry)
    BY <1>0 DEF TypeOK, StoreTypeOK
  <2>4. SameTags(Tail(sb), DueAnswered)
    BY <1>0, <1>4, <2>1, <2>2, <2>3, DuePlaces, TagsTaken DEF DueLists, StoreBufferMirrors
  <2>5. StoresDue' = DueAnswered
    BY <1>0, <1>1, <2>1, DuePlaces DEF DueLists
  <2>6. QED
    BY <1>4, <2>4, <2>5 DEF StoreBufferMirrors
<1>5. QED
  BY <1>2, <1>3, <1>4, CommitEffects

\* Every step keeps the store buffer and the stores in flight together.
LEMMA MirrorStep ==
  ASSUME TypeInv, KindInv, PairInv, StoreBufferMirrors, [Next]_vars
  PROVE  StoreBufferMirrors'
<1>0. TypeOK /\ TypeOK'
  BY TypeStep DEF TypeInv
<1>1. CASE UNCHANGED <<sb, pipe4, dresp>>
  BY <1>1 DEF StoreBufferMirrors, StoresDue, StoreInWb, StoreAnswered, InWb
<1>2. CASE DmemRespond
  BY <1>0, <1>2, RespondMirrors DEF KindInv
<1>3. CASE CheckInstruction
  BY <1>0, <1>3, CheckMirrors DEF KindInv
<1>4. CASE InstructionCommit
  BY <1>0, <1>4, CommitMirrors
<1>5. CASE Exec
  BY <1>1, <1>5, ExecIssues DEF storeVars
<1>6. CASE Deliver \/ Decode \/ WaitForInterrupt \/ DelayedOutput \/ CsrAnswer \/ ToggleIrq
             \/ UNCHANGED vars
  BY <1>1, <1>6 DEF Deliver, Decode, WaitForInterrupt, DelayedOutput, CsrAnswer, ToggleIrq, vars,
                    storeVars, dmemVars
<1>7. QED
  BY <1>2, <1>3, <1>4, <1>5, <1>6 DEF Next

\* At reset nothing is in flight.
LEMMA MirrorInit == Init => KindInv /\ StoreBufferMirrors
<1> SUFFICES ASSUME Init PROVE KindInv /\ StoreBufferMirrors
  OBVIOUS
<1>1. Len(dreq) = 0 /\ Len(pipe3) = 0 /\ pipe2 = <<>>
  BY EmptySeq DEF Init
<1>2. KindInv
  BY <1>1 DEF KindInv, DecodedKind, RequestKind, IssuedKind
<1>3. sb = <<>> /\ StoresDue = <<>> \o <<>>
  BY DEF Init, StoresDue, StoreInWb, StoreAnswered
<1>4. Len(sb) = 0 /\ Len(StoresDue) = 0
  <2>1. StoresDue = <<>>
    BY <1>3, EmptySeq, ConcatEmptySeq
  <2>2. QED
    BY <1>3, <2>1, EmptySeq
<1>5. QED
  BY <1>2, <1>4 DEF StoreBufferMirrors, SameTags

\* The store the data side performs on an order of write back, which names
\* none, is always the one in pipe4.
THEOREM StoreBufferCorrect == Spec => []StoreBufferMirrors
<1>1. /\ TypeInv /\ WaitInv /\ KindInv /\ [Next]_vars => KindInv'
      /\ TypeInv /\ WaitInv /\ PairInv /\ [Next]_vars => PairInv'
      /\ TypeInv /\ KindInv /\ PairInv /\ StoreBufferMirrors /\ [Next]_vars => StoreBufferMirrors'
  BY KindStep, PairStep, MirrorStep DEF WaitInv
<1>2. QED
  BY PairInit, MirrorInit, TypeInvariance, WaitInvariance, <1>1, PTL DEF Spec
=============================================================================
