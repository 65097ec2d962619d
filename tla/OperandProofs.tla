---------------------------- MODULE OperandProofs ----------------------------
(***************************************************************************)
(* What the execute stage may rely on: the pc behind a control instruction *)
(* is the one that was predicted, nothing runs behind an instruction that  *)
(* serialises, and therefore the two places the bypass network looks at    *)
(* are enough to find the value of an operand.                             *)
(***************************************************************************)
EXTENDS PipelineProofs

-----------------------------------------------------------------------------
(* The buffers read as one sequence, entry by entry *)

WaitingParts ==
  /\ Len(Waiting) = Len(pipe2) + Len(pipe1) /\ Len(pipe1) \in Nat
  /\ \A k \in 1..Len(pipe1) : Waiting[Len(pipe2) + k] = pipe1[k]
  /\ pipe2 = <<>> => Len(pipe2) = 0
  /\ pipe2 # <<>> => Len(pipe2) = 1 /\ Waiting[1] = InExec

IssuedParts ==
  /\ Len(Issued) = Len(pipe4) + Len(pipe3) /\ Len(pipe3) \in Nat
  /\ \A k \in 1..Len(pipe3) : Issued[Len(pipe4) + k] = pipe3[k]
  /\ pipe4 = <<>> => Len(pipe4) = 0
  /\ pipe4 # <<>> => Len(pipe4) = 1 /\ Issued[1] = InWb
  /\ \A i \in 1..Len(Issued) : Issued[i] \in IssuedHere

DecodedParts ==
  /\ Len(Decoded) = Len(Issued) + Len(pipe2)
  /\ \A k \in 1..Len(Issued) : Decoded[k] = Issued[k]
  /\ pipe2 # <<>> => Decoded[Len(Issued) + 1] = InExec

Parts == WaitingParts /\ IssuedParts /\ DecodedParts

\* A buffer with room for one entry holds none or one.
LEMMA OneEntry ==
  ASSUME NEW S, NEW s \in Seq(S), Len(s) <= 1
  PROVE  /\ s = <<>> => Len(s) = 0
         /\ s # <<>> => Len(s) = 1 /\ Head(s) = s[1] /\ s[1] \in S
<1>1. Len(s) \in Nat /\ (s = <<>> <=> Len(s) = 0) /\ (s # <<>> => Head(s) = s[1])
  BY Shifted
<1>2. Len(s) = 1 => s[1] \in S
  BY ElementOfSeq
<1>3. s # <<>> => Len(s) = 1
  <2> DEFINE n == Len(s)
  <2>1. n \in Nat /\ n <= 1 /\ (s # <<>> => n # 0)
    BY <1>1
  <2> HIDE DEF n
  <2>2. s # <<>> => n = 1
    BY <2>1
  <2>3. QED
    BY <2>2 DEF n
<1>4. QED
  BY <1>1, <1>2, <1>3

\* What stands where in the concatenations.
LEMMA PartsHold == Buffers => Parts
<1> SUFFICES ASSUME Buffers PROVE Parts
  OBVIOUS
<1> DEFINE a == Len(pipe2)
           m == Len(pipe4)
           N == Len(Issued)
<1>0. /\ a \in Nat /\ m \in Nat /\ Len(pipe1) \in Nat /\ Len(pipe3) \in Nat
      /\ Len(Waiting) = a + Len(pipe1) /\ N = m + Len(pipe3)
  BY Joined
<1>1. /\ (pipe2 = <<>> => a = 0) /\ (pipe2 # <<>> => a = 1 /\ InExec = pipe2[1])
      /\ (pipe4 = <<>> => m = 0) /\ (pipe4 # <<>> => m = 1 /\ InWb = pipe4[1])
  BY OneEntry DEF Buffers, InExec, InWb
<1>2. \A k \in 1..Len(pipe1) : Waiting[a + k] = pipe1[k]
  <2> SUFFICES ASSUME NEW k \in 1..Len(pipe1) PROVE Waiting[a + k] = pipe1[k]
    OBVIOUS
  <2>1. a + k \in 1..Len(Waiting) /\ a + k > a /\ (a + k) - a = k
    BY <1>0
  <2>2. QED
    BY <2>1, InPipe1
<1>3. pipe2 # <<>> => Waiting[1] = InExec
  BY <1>0, <1>1, Joined
<1>4. \A k \in 1..Len(pipe3) : Issued[m + k] = pipe3[k]
  <2> SUFFICES ASSUME NEW k \in 1..Len(pipe3) PROVE Issued[m + k] = pipe3[k]
    OBVIOUS
  <2>1. m + k \in 1..N /\ ~ (m + k <= m) /\ (m + k) - m = k
    BY <1>0
  <2>2. QED
    BY <2>1, Joined
<1>5. pipe4 # <<>> => Issued[1] = InWb
  BY <1>0, <1>1, Joined
<1>6. Issued \in Seq(IssuedHere)
  BY ConcatProperties DEF Buffers, Issued, IssuedHere
<1>7. \A i \in 1..N : Issued[i] \in IssuedHere
  BY <1>6, ElementOfSeq
<1>8. DecodedParts
  <2> DEFINE D == IssuedHere \cup DecodedEntry
  <2>1. Issued \in Seq(D) /\ pipe2 \in Seq(D)
    BY <1>6, SeqMonotonic DEF Buffers
  <2>2. /\ Len(Decoded) = N + a
        /\ \A k \in 1..(N + a) : Decoded[k] = IF k <= N THEN Issued[k] ELSE pipe2[k - N]
    BY <2>1, ConcatProperties DEF Decoded
  <2>3. \A k \in 1..N : Decoded[k] = Issued[k]
    BY <1>0, <2>2
  <2>4. ASSUME pipe2 # <<>> PROVE Decoded[N + 1] = InExec
    <3>1. N + 1 \in 1..(N + a) /\ ~ (N + 1 <= N) /\ (N + 1) - N = 1
      BY <1>0, <1>1, <2>4
    <3>2. QED
      BY <1>1, <2>2, <2>4, <3>1
  <2>5. QED
    BY <2>2, <2>3, <2>4 DEF DecodedParts
<1>9. QED
  BY <1>0, <1>1, <1>2, <1>3, <1>4, <1>5, <1>7, <1>8 DEF Parts, WaitingParts, IssuedParts

-----------------------------------------------------------------------------
(* The instructions in front of execute *)

SameFetched(e, f) == e.pc = f.pc /\ e.ep = f.ep /\ e.pred = f.pred

\* The first s instructions in front of execute have gone, the others stay.
WaitingShift(s) ==
  /\ Len(Waiting') = Len(Waiting) - s
  /\ \A k \in 1..Len(Waiting') : SameFetched(Waiting'[k], Waiting[k + s])
  /\ UNCHANGED <<fetchPc, eEpoch, wEpoch>>

\* Decode drops a WFI and sleeps, or sees an instruction of an old epoch.
WaitingTaken ==
  /\ Len(Waiting) >= 1 /\ WaitingShift(1)
  /\ UNCHANGED <<pipe2, rgRerun, rgKind, rgStall>>
  /\ \/ ~ LiveFetched(Waiting[1])
     \/ Prog[Waiting[1].pc].op = "WFI" /\ ~ rgRerun

WaitingGrows ==
  /\ Len(Waiting') = Len(Waiting) + 1
  /\ \A k \in 1..Len(Waiting) : Waiting'[k] = Waiting[k]
  /\ \E pred \in BOOLEAN :
       /\ Waiting'[Len(Waiting')] = [pc |-> fetchPc, ep |-> Epochs, pred |-> pred]
       /\ fetchPc' \in IF pred THEN Predicted[fetchPc] ELSE {Fall[fetchPc]}
  /\ UNCHANGED <<eEpoch, wEpoch>>

\* Fetch adds one instruction behind the others.
LEMMA DeliverWaits == ASSUME Buffers, Parts, Parts', Deliver PROVE WaitingGrows
<1> DEFINE a == Len(pipe2)
           b == Len(pipe1)
<1>1. PICK pred \in BOOLEAN :
        /\ fetchPc' \in IF pred THEN Predicted[fetchPc] ELSE {Fall[fetchPc]}
        /\ pipe1' = Append(pipe1, [pc |-> fetchPc, ep |-> Epochs, pred |-> pred])
  BY DEF Deliver
<1> DEFINE e == [pc |-> fetchPc, ep |-> Epochs, pred |-> pred]
<1>2. pipe2' = pipe2 /\ UNCHANGED <<eEpoch, wEpoch>>
  BY DEF Deliver, decodeVars
<1> HIDE DEF e
<1>3. /\ Len(pipe1') = b + 1 /\ b \in Nat /\ pipe1'[b + 1] = e
      /\ \A k \in 1..b : pipe1'[k] = pipe1[k]
  BY <1>1 DEF Buffers, e
<1>4. a \in {0, 1} /\ Len(Waiting) = a + b /\ Len(Waiting') = a + (b + 1)
  BY <1>2, <1>3 DEF Parts, WaitingParts
<1>5. ASSUME NEW k \in 1..(a + b) PROVE Waiting'[k] = Waiting[k]
  <2>1. CASE k <= a
    <3>1. k = 1 /\ a = 1
      BY <1>4, <2>1
    <3>2. pipe2 # <<>> /\ InExec' = InExec
      BY <1>2, <3>1 DEF Parts, WaitingParts, InExec
    <3>3. QED
      BY <1>2, <3>1, <3>2 DEF Parts, WaitingParts
  <2>2. CASE k > a
    <3>1. k - a \in 1..b /\ a + (k - a) = k /\ k - a \in 1..(b + 1)
      BY <1>3, <1>4, <2>2
    <3>2. Waiting[k] = pipe1[k - a] /\ Waiting'[k] = pipe1'[k - a]
      BY <1>2, <1>3, <3>1 DEF Parts, WaitingParts
    <3>3. QED
      BY <1>3, <3>1, <3>2
  <2>3. QED
    BY <1>4, <2>1, <2>2
<1>6. Waiting'[a + (b + 1)] = e
  BY <1>2, <1>3, <1>4 DEF Parts, WaitingParts
<1>7. QED
  BY <1>1, <1>2, <1>4, <1>5, <1>6 DEF WaitingGrows, e

\* Decode without a re-direction takes the first and passes it on, or drops it.
LEMMA DecodeWaits ==
  ASSUME TypeOK, Buffers, Parts, Parts', Decode
  PROVE  \/ WaitingShift(0) /\ Dispatch(FALSE) /\ pipe2' # <<>> /\ LiveFetched(Waiting[1])
            /\ Len(Waiting) >= 1 /\ Waiting[1] = Head(pipe1)
         \/ WaitingTaken
<1> DEFINE b == Len(pipe1)
<1>1. /\ pipe2 = <<>> /\ pipe1 # <<>> /\ pipe1' = Tail(pipe1) /\ ~ rgStall
      /\ UNCHANGED <<fetchPc, eEpoch, wEpoch>>
      /\ DropStale \/ SleepOnWfi(FALSE) \/ Dispatch(FALSE)
  BY DEF Decode, DecodeInto
<1>2. /\ b \in Nat /\ b >= 1 /\ Head(pipe1) = pipe1[1] /\ Len(pipe1') = b - 1
      /\ \A k \in 1..(b - 1) : pipe1'[k] = pipe1[k + 1]
  BY <1>1, Shifted DEF Buffers
<1>3. Len(Waiting) = b /\ \A k \in 1..b : Waiting[k] = pipe1[k]
  BY <1>1, <1>2 DEF Parts, WaitingParts
<1>4. ASSUME pipe2' = <<>> PROVE WaitingShift(1)
  <2>1. Len(Waiting') = b - 1 /\ \A k \in 1..(b - 1) : Waiting'[k] = pipe1'[k]
    BY <1>2, <1>4 DEF Parts, WaitingParts
  <2>2. \A k \in 1..(b - 1) : k + 1 \in 1..b
    BY <1>2
  <2>3. QED
    BY <1>1, <1>2, <1>3, <2>1, <2>2 DEF WaitingShift, SameFetched
<1>5. CASE DropStale
  <2>1. pipe2' = <<>> /\ ~ LiveFetched(Waiting[1]) /\ UNCHANGED <<rgRerun, rgKind, rgStall>>
    BY <1>2, <1>3, <1>5 DEF DropStale, LiveFetched
  <2>2. QED
    BY <1>1, <1>2, <1>3, <1>4, <2>1 DEF WaitingTaken
<1>6. CASE SleepOnWfi(FALSE)
  <2>1. pipe2' = <<>> /\ DecodedType(Waiting[1].pc) = "WFI" /\ UNCHANGED <<rgRerun, rgKind, rgStall>>
    BY <1>2, <1>3, <1>6 DEF SleepOnWfi
  <2>2. Prog[Waiting[1].pc].op = "WFI" /\ ~ rgRerun
    BY <2>1 DEF DecodedType
  <2>3. QED
    BY <1>1, <1>2, <1>3, <1>4, <2>1, <2>2 DEF WaitingTaken
<1>7. CASE Dispatch(FALSE)
  <2>1. PICK e : /\ pipe2' = <<e>> /\ e.pc = Head(pipe1).pc /\ e.ep = Head(pipe1).ep
                 /\ e.pred = Head(pipe1).pred
    BY <1>7 DEF Dispatch
  <2>2. pipe2' # <<>> /\ InExec' = e
    BY <2>1 DEF InExec
  <2>3. /\ Len(Waiting') = b /\ Waiting'[1] = e
        /\ \A k \in 1..(b - 1) : Waiting'[1 + k] = pipe1'[k]
    <3>1. Len(pipe2') = 1 /\ Waiting'[1] = e
      BY <2>2 DEF Parts, WaitingParts
    <3>2. Len(Waiting') = 1 + (b - 1) /\ \A k \in 1..(b - 1) : Waiting'[1 + k] = pipe1'[k]
      BY <1>2, <3>1 DEF Parts, WaitingParts
    <3>3. QED
      BY <1>2, <3>1, <3>2
  <2>4. ASSUME NEW k \in 1..b PROVE SameFetched(Waiting'[k], Waiting[k + 0])
    <3>1. CASE k = 1
      BY <1>2, <1>3, <2>1, <2>3, <3>1 DEF SameFetched
    <3>2. CASE k # 1
      <4>1. k - 1 \in 1..(b - 1) /\ 1 + (k - 1) = k /\ (k - 1) + 1 = k /\ k + 0 = k
        BY <1>2, <3>2
      <4>2. Waiting'[k] = pipe1[k]
        BY <1>2, <2>3, <4>1
      <4>3. QED
        BY <1>3, <4>1, <4>2 DEF SameFetched
    <3>3. QED
      BY <3>1, <3>2
  <2>5. WaitingShift(0)
    BY <1>1, <1>2, <1>3, <2>3, <2>4 DEF WaitingShift
  <2>6. LiveFetched(Waiting[1]) /\ Waiting[1] = Head(pipe1)
    BY <1>2, <1>3, <1>7 DEF Dispatch, LiveFetched
  <2>7. QED
    BY <1>2, <1>3, <1>7, <2>2, <2>5, <2>6
<1>8. QED
  BY <1>1, <1>5, <1>6, <1>7

\* Execute takes the first, or re-directs and leaves nothing to be kept.
LEMMA ExecWaits ==
  ASSUME TypeInv, Buffers, Buffers', EpochInv, Parts, Parts', Exec, DecodeTypeOK'
  PROVE  /\ Len(Waiting) >= 1 /\ Waiting[1] = InExec
         /\ \/ WaitingShift(1) /\ pipe2' = <<>> /\ UNCHANGED <<rgStall, rgRerun, rgKind, pipe1>>
            \/ NoneWaiting' /\ eEpoch' # eEpoch /\ ExecControl /\ wEpoch' = wEpoch
<1> DEFINE b == Len(pipe1)
<1>1. pipe2 # <<>> /\ wEpoch' = wEpoch
  BY ExecIssues DEF ExecReady
<1>2. /\ b \in Nat /\ Len(Waiting) = 1 + b /\ Waiting[1] = InExec
      /\ \A k \in 1..b : Waiting[1 + k] = pipe1[k]
  BY <1>1 DEF Parts, WaitingParts
<1>3. NoRedirect \/ (ExecControl /\ eEpoch' = 1 - eEpoch)
  BY DEF Exec, ExecDrop, ExecTrap, ExecAlu, ExecMulti, ExecSystem, ExecMisaligned, ExecAccess,
         ExecFence, ExecLoadReserved, ExecStoreConditional, ExecControl, Request
<1>4. CASE NoRedirect
  <2>1. pipe2' = <<>> /\ UNCHANGED <<fetchPc, pipe1, eEpoch, rgStall, rgRerun, rgKind>>
    BY <1>4 DEF NoRedirect, fetchVars
  <2>2. Len(Waiting') = b /\ \A k \in 1..b : Waiting'[k] = pipe1[k]
    <3>1. Len(pipe2') = 0
      BY <2>1 DEF Parts, WaitingParts
    <3>2. Len(Waiting') = 0 + b /\ \A k \in 1..b : Waiting'[0 + k] = pipe1[k]
      BY <2>1, <3>1 DEF Parts, WaitingParts
    <3>3. QED
      BY <1>2, <3>2
  <2>3. \A k \in 1..b : Waiting'[k] = Waiting[k + 1]
    BY <1>2, <2>2
  <2>4. WaitingShift(1)
    BY <1>1, <1>2, <2>1, <2>2, <2>3 DEF WaitingShift, SameFetched
  <2>5. QED
    BY <1>2, <2>1, <2>4
<1>5. CASE ExecControl /\ eEpoch' = 1 - eEpoch
  <2>1. eEpoch' # eEpoch
    BY <1>5 DEF Buffers
  <2>2. Move
    BY ExecMoves DEF Move
  <2>3. NoneWaiting'
    BY <2>1, <2>2, FlipSquashes
  <2>4. QED
    BY <1>1, <1>2, <1>5, <2>1, <2>3
<1>6. QED
  BY <1>3, <1>4, <1>5

\* Write back leaves them alone, or flushes.
LEMMA CommitWaits ==
  ASSUME TypeInv, Buffers, Buffers', EpochInv, InstructionCommit, DecodeTypeOK'
  PROVE  \/ NoFlush /\ WaitingShift(0) /\ wEpoch' = wEpoch
         \/ NoneWaiting' /\ NoneIssued' /\ wEpoch' = 1 - wEpoch
            /\ \E target : FlushFromWb(target)
<1>1. eEpoch' = eEpoch
  BY CommitEffects DEF CommitFrame
<1>2. NoFlush \/ \E target : FlushFromWb(target)
  BY DEF InstructionCommit, CommitRerun, CommitTrap, CommitStore, InitiateUncached,
         UncachedDone, UncachedError, CsrRequest, CommitCsr, CommitXret, CommitReg,
         DropInstruction, TrapTo
<1>3. CASE NoFlush
  <2>1. UNCHANGED <<fetchPc, pipe1, pipe2, wEpoch>>
    BY <1>3 DEF NoFlush, fetchVars, decodeVars
  <2>2. Waiting' = Waiting /\ Len(Waiting) \in Nat
    BY <2>1, Joined DEF Waiting
  <2>3. \A k \in 1..Len(Waiting) : k + 0 = k
    BY <2>2
  <2>4. WaitingShift(0)
    BY <1>1, <2>1, <2>2, <2>3 DEF WaitingShift, SameFetched
  <2>5. QED
    BY <1>3, <2>1, <2>4
<1>4. CASE \E target : FlushFromWb(target)
  <2>1. wEpoch' = 1 - wEpoch /\ wEpoch' # wEpoch
    BY <1>4 DEF FlushFromWb, Buffers
  <2>2. Move
    BY CommitMoves DEF Move
  <2>3. NoneWaiting' /\ NoneIssued'
    BY <2>1, <2>2, FlipSquashes
  <2>4. QED
    BY <1>4, <2>1, <2>3
<1>5. QED
  BY <1>2, <1>3, <1>4

\* No other step touches them.
LEMMA OthersWait ==
  ASSUME Buffers,
         WaitForInterrupt \/ DelayedOutput \/ DmemRespond \/ CheckInstruction \/ CsrAnswer
           \/ ToggleIrq \/ UNCHANGED vars
  PROVE  WaitingShift(0) /\ UNCHANGED <<pipe1, pipe2, rgStall, rgRerun, rgKind>>
<1>1. UNCHANGED <<fetchPc, pipe1, pipe2, eEpoch, wEpoch, rgStall, rgRerun, rgKind>>
  BY DEF WaitForInterrupt, DelayedOutput, DmemRespond, CheckInstruction, CsrAnswer, ToggleIrq,
         vars, fetchVars, decodeVars
<1>2. Waiting' = Waiting /\ Len(Waiting) \in Nat
  BY <1>1, Joined DEF Waiting
<1>3. \A k \in 1..Len(Waiting) : k + 0 = k
  BY <1>2
<1>4. QED
  BY <1>1, <1>2, <1>3 DEF WaitingShift, SameFetched

-----------------------------------------------------------------------------
(* The predicted stream *)

\* Where the predictor went behind e.
After(e, q) == IF e.pred THEN q \in Predicted[e.pc] ELSE q = Fall[e.pc]

\* The pc that stands behind the k-th instruction in front of execute.
PcBehind(k) == IF k < Len(Waiting) THEN Waiting[k + 1].pc ELSE fetchPc

\* The instructions to be kept are the predicted stream, without a gap.
ChainInv == \A k \in 1..Len(Waiting) : LiveFetched(Waiting[k]) => After(Waiting[k], PcBehind(k))

\* Taking the first instructions away breaks no chain.
LEMMA ChainShift ==
  ASSUME Buffers, Buffers', ChainInv, NEW s \in {0, 1}, WaitingShift(s)
  PROVE  ChainInv'
<1> DEFINE n == Len(Waiting)
<1>1. n \in Nat /\ Len(Waiting') = n - s /\ UNCHANGED <<fetchPc, eEpoch, wEpoch>>
  BY Joined DEF WaitingShift
<1>2. \A k \in 1..(n - s) : SameFetched(Waiting'[k], Waiting[k + s])
  BY <1>1 DEF WaitingShift
<1> SUFFICES ASSUME NEW k \in 1..(n - s), LiveFetched(Waiting[k])'
             PROVE  After(Waiting[k], PcBehind(k))'
  BY <1>1 DEF ChainInv
<1>3. k + s \in 1..n
  BY <1>1
<1>4. LiveFetched(Waiting[k + s])
  BY <1>1, <1>2 DEF LiveFetched, SameFetched, Epochs
<1>5. After(Waiting[k + s], PcBehind(k + s))
  BY <1>3, <1>4 DEF ChainInv
<1>6. PcBehind(k)' = PcBehind(k + s)
  <2>1. CASE k < n - s
    <3>1. k + 1 \in 1..(n - s) /\ (k + 1) + s = (k + s) + 1 /\ k + s < n
      BY <1>1, <2>1
    <3>2. Waiting'[k + 1].pc = Waiting[(k + 1) + s].pc
      BY <1>2, <3>1 DEF SameFetched
    <3>3. QED
      BY <1>1, <2>1, <3>1, <3>2 DEF PcBehind
  <2>2. CASE k = n - s
    <3>1. ~ (k + s < n) /\ ~ (k < n - s)
      BY <1>1, <2>2
    <3>2. QED
      BY <1>1, <3>1 DEF PcBehind
  <2>3. QED
    BY <1>1, <2>1, <2>2
<1>7. QED
  BY <1>2, <1>5, <1>6 DEF After, SameFetched

\* Adding the instruction fetch stands at continues it.
LEMMA ChainGrows == ASSUME Buffers, ChainInv, WaitingGrows PROVE ChainInv'
<1> DEFINE n == Len(Waiting)
<1>1. n \in Nat /\ UNCHANGED <<eEpoch, wEpoch>> /\ Len(Waiting') = n + 1
  BY Joined DEF WaitingGrows
<1>2. PICK pred \in BOOLEAN :
        /\ Waiting'[n + 1] = [pc |-> fetchPc, ep |-> Epochs, pred |-> pred]
        /\ fetchPc' \in IF pred THEN Predicted[fetchPc] ELSE {Fall[fetchPc]}
  BY <1>1 DEF WaitingGrows
<1> SUFFICES ASSUME NEW k \in 1..(n + 1), LiveFetched(Waiting[k])'
             PROVE  After(Waiting[k], PcBehind(k))'
  BY <1>1 DEF ChainInv
<1>3. CASE k = n + 1
  <2>1. PcBehind(k)' = fetchPc'
    BY <1>1, <1>3 DEF PcBehind
  <2>2. Waiting'[k].pc = fetchPc /\ Waiting'[k].pred = pred
    BY <1>2, <1>3
  <2>3. QED
    BY <1>2, <2>1, <2>2 DEF After
<1>4. CASE k # n + 1
  <2>1. k \in 1..n /\ k < n + 1 /\ k + 1 \in 1..(n + 1)
    BY <1>1, <1>4
  <2>2. Waiting'[k] = Waiting[k] /\ LiveFetched(Waiting[k])
    BY <1>1, <2>1 DEF WaitingGrows, LiveFetched, Epochs
  <2>3. PcBehind(k)' = Waiting'[k + 1].pc
    BY <1>1, <2>1 DEF PcBehind
  <2>4. PcBehind(k) = Waiting'[k + 1].pc
    <3>1. CASE k < n
      <4>1. k + 1 \in 1..n
        BY <1>1, <2>1, <3>1
      <4>2. Waiting'[k + 1] = Waiting[k + 1]
        BY <4>1 DEF WaitingGrows
      <4>3. QED
        BY <3>1, <4>2 DEF PcBehind
    <3>2. CASE k = n
      <4>1. Waiting'[n + 1].pc = fetchPc
        BY <1>2
      <4>2. QED
        BY <1>1, <3>2, <4>1 DEF PcBehind
    <3>3. QED
      BY <1>1, <2>1, <3>1, <3>2
  <2>5. After(Waiting[k], PcBehind(k))
    BY <2>1, <2>2 DEF ChainInv
  <2>6. QED
    BY <2>2, <2>3, <2>4, <2>5 DEF After
<1>5. QED
  BY <1>3, <1>4

\* The types of both states, as the steps below use them.
Sound == TypeInv /\ Buffers /\ EpochInv /\ Parts /\ ChainInv

\* Every step keeps the stream.
LEMMA ChainStep ==
  ASSUME Sound, Buffers', Parts', DecodeTypeOK', [Next]_vars
  PROVE  ChainInv'
<1>0. TypeOK
  BY DEF Sound, TypeInv
<1>1. ASSUME NoneWaiting' PROVE ChainInv'
  BY <1>1 DEF NoneWaiting, ChainInv, LiveFetched
<1>2. ASSUME WaitingShift(0) \/ WaitingShift(1) PROVE ChainInv'
  BY <1>2, ChainShift DEF Sound
<1>3. CASE Deliver
  BY <1>3, DeliverWaits, ChainGrows DEF Sound
<1>4. CASE Decode
  BY <1>0, <1>2, <1>4, DecodeWaits DEF Sound, WaitingTaken
<1>5. CASE Exec
  BY <1>1, <1>2, <1>5, ExecWaits DEF Sound
<1>6. CASE InstructionCommit
  BY <1>1, <1>2, <1>6, CommitWaits DEF Sound
<1>7. CASE WaitForInterrupt \/ DelayedOutput \/ DmemRespond \/ CheckInstruction \/ CsrAnswer
             \/ ToggleIrq \/ UNCHANGED vars
  BY <1>2, <1>7, OthersWait DEF Sound
<1>8. QED
  BY <1>3, <1>4, <1>5, <1>6, <1>7 DEF Next

\* The chain of predictions, for every program and predictor.
THEOREM ChainInvariance == Spec => []ChainInv
<1>1. Init /\ Buffers => ChainInv
  <2> SUFFICES ASSUME Init, Buffers PROVE ChainInv
    OBVIOUS
  <2>1. Len(Waiting) = 0
    BY Joined, EmptySeq DEF Init
  <2>2. QED
    BY <2>1 DEF ChainInv
<1>2. /\ TypeInv /\ Buffers /\ EpochInv /\ ChainInv
      /\ TypeInv' /\ Buffers' /\ [Next]_vars
      => ChainInv'
  <2> SUFFICES ASSUME TypeInv, Buffers, EpochInv, ChainInv, TypeInv', Buffers', [Next]_vars
               PROVE  ChainInv'
    OBVIOUS
  <2>1. Parts /\ Parts'
    BY PartsHold, PTL
  <2>2. Sound /\ DecodeTypeOK'
    BY <2>1 DEF Sound, TypeInv, TypeOK
  <2>3. QED
    BY <2>1, <2>2, ChainStep
<1>3. QED
  BY <1>1, <1>2, TypeInvariance, EpochInvariance, PTL DEF Spec

\* The kinds of the instructions, as an invariant of its own.
THEOREM DecodedKindInvariance == Spec => []DecodedKind
<1>1. Init => DecodedKind
  BY DEF Init, DecodedKind
<1>2. TypeInv /\ DecodedKind /\ [Next]_vars => DecodedKind'
  BY DecodedStep
<1>3. QED
  BY <1>1, <1>2, TypeInvariance, PTL DEF Spec

\* wr_next_pc is the pc the fetch side really predicted behind the control
\* instruction in stage3.
THEOREM NextPcCorrect == Spec => []NextPcIsSuccessor
<1>1. TypeOK /\ Buffers /\ ChainInv /\ DecodedKind => NextPcIsSuccessor
  <2> SUFFICES ASSUME TypeOK, Buffers, ChainInv, DecodedKind,
                      pipe2 # <<>>, LiveFetched(InExec), InExec.type \in ControlOp
               PROVE  LET p == InExec.pc
                          taken == IF InExec.type = "BRANCH" THEN {Prog[p].tgt} ELSE Predicted[p]
                          after == IF pipe1 = <<>> THEN fetchPc ELSE NextPc
                      IN  IF InExec.pred THEN after \in taken ELSE after = Fall[p]
    BY DEF NextPcIsSuccessor
  <2>1. Parts
    BY PartsHold
  <2>2. Waiting[1] = InExec /\ Len(Waiting) = 1 + Len(pipe1) /\ Len(pipe1) \in Nat
    BY <2>1 DEF Parts, WaitingParts
  <2>3. After(InExec, PcBehind(1))
    BY <2>2 DEF ChainInv
  <2>4. PcBehind(1) = IF pipe1 = <<>> THEN fetchPc ELSE NextPc
    <3>1. CASE pipe1 = <<>>
      BY <2>2, <3>1, EmptySeq DEF PcBehind
    <3>2. CASE pipe1 # <<>>
      <4>1. Len(pipe1) >= 1 /\ Head(pipe1) = pipe1[1]
        BY <3>2, Shifted DEF Buffers
      <4>2. Waiting[1 + 1] = pipe1[1]
        <5>1. 1 \in 1..Len(pipe1) /\ Len(pipe2) = 1
          BY <2>1, <2>2, <4>1 DEF Parts, WaitingParts
        <5>2. QED
          BY <2>1, <5>1 DEF Parts, WaitingParts
      <4>3. QED
        BY <2>2, <3>2, <4>1, <4>2 DEF PcBehind, NextPc
    <3>3. QED
      BY <3>1, <3>2
  <2>5. InExec.pc \in Addr /\ InExec.type = Prog[InExec.pc].op
    <3>1. InExec.type # "TRAP"
      BY DEF ControlOp
    <3>2. QED
      BY <3>1, Heads DEF DecodedKind, DecodedEntry
  <2>6. InExec.type = "BRANCH" => Predicted[InExec.pc] \subseteq {Prog[InExec.pc].tgt}
    BY <2>5, PipelineAssumption
  <2>7. QED
    BY <2>3, <2>4, <2>6 DEF After
<1>2. QED
  BY <1>1, TypeCorrect, EpochInvariance, ChainInvariance, DecodedKindInvariance, PTL

-----------------------------------------------------------------------------
(* The instructions past execution *)

\* What an instruction past execution may turn into while it is on its way: a
\* unit finishes, or the data side answers.
Became(e, f) ==
  /\ e.pc = f.pc /\ e.rd = f.rd /\ e.ep = f.ep
  /\ \/ e.type = f.type /\ e.val = f.val /\ e.cause = f.cause
     \/ f.type = "WAIT" /\ e.type = "REG" /\ e.val = f.val
     \/ f.type \in MemType \ {"FENCE"} /\ e.type = "TRAP" /\ e.cause = "Exception"
     \/ f.type = "STORE" /\ e.type = "STORE" /\ e.val = 0
     \/ f.type = "AMO" /\ e.type = "STORE"
     \/ f.type \in {"LOAD", "FENCE"} /\ e.type = "REG"

\* The value the k-th will write can be taken.
Settled(k) ==
  \/ Issued[k].type = "REG"
  \/ Issued[k].type = "STORE" /\ k <= Len(pipe4)

\* The first s have left, the others are still there.
Keeps(s) ==
  /\ wEpoch' = wEpoch
  /\ Len(Issued') >= Len(Issued) - s
  /\ \A k \in 1..(Len(Issued) - s) :
       /\ Became(Issued'[k], Issued[k + s])
       /\ Settled(k + s) => Settled(k)' /\ Issued'[k].val = Issued[k + s].val

\* Only a request that is no fence can be answered with a fault.
FaultInv ==
  \A i \in 1..Len(dresp) : dresp[i].trap => Prog[dresp[i].pc].op \in AccessOp

RequestAccess ==
  \A i \in 1..Len(dreq) : dreq[i].type # "FENCE" => Prog[dreq[i].pc].op \in AccessOp

IssuedFence ==
  \A i \in 1..Len(pipe3) : pipe3[i].type = "FENCE" => Prog[pipe3[i].pc].op \in FenceOp

\* Where an instruction past execution stands, in pipe4 or in pipe3.
LEMMA Place ==
  ASSUME NEW m \in {0, 1}, NEW b \in Nat, NEW k \in 1..(m + b)
  PROVE  \/ k = 1 /\ m = 1
         \/ k - m \in 1..b /\ m + (k - m) = k /\ k - m \in 1..(b + 1) /\ k > m
  OBVIOUS

LEMMA StayKeeps ==
  ASSUME Parts, UNCHANGED <<pipe3, pipe4, wEpoch>>
  PROVE  Keeps(0) /\ Issued' = Issued
<1> DEFINE n == Len(Issued)
<1>1. Issued' = Issued /\ n \in Nat
  BY DEF Issued, Parts, IssuedParts
<1>2. \A k \in 1..n : k + 0 = k
  BY <1>1
<1>3. \A k \in 1..n : Settled(k)' <=> Settled(k)
  BY <1>1 DEF Settled
<1>4. QED
  BY <1>1, <1>2, <1>3 DEF Keeps, Became

LEMMA GrowKeeps ==
  ASSUME Buffers, Parts, Parts', NEW e \in IssuedHere, pipe3' = Append(pipe3, e),
         UNCHANGED <<pipe4, wEpoch>>
  PROVE  /\ Keeps(0)
         /\ Len(Issued') = Len(Issued) + 1 /\ Issued'[Len(Issued) + 1] = e
         /\ \A k \in 1..Len(Issued) : Issued'[k] = Issued[k]
<1> DEFINE n == Len(Issued)
           m == Len(pipe4)
           b == Len(pipe3)
<1>1. /\ b \in Nat /\ Len(pipe3') = b + 1 /\ pipe3'[b + 1] = e
      /\ \A k \in 1..b : pipe3'[k] = pipe3[k]
  BY Shifted DEF Buffers, IssuedHere
<1>2. m \in {0, 1} /\ n = m + b /\ Len(Issued') = m + (b + 1) /\ m' = m
  BY <1>1 DEF Parts, IssuedParts
<1>3. Issued'[m + (b + 1)] = e
  <2>1. b + 1 \in 1..(b + 1)
    BY <1>1
  <2>2. QED
    BY <1>1, <1>2, <2>1 DEF Parts, IssuedParts
<1>4. ASSUME NEW k \in 1..(m + b) PROVE Issued'[k] = Issued[k]
  <2>1. CASE k = 1 /\ m = 1
    <3>1. pipe4 # <<>> /\ InWb' = InWb /\ pipe4' # <<>>
      BY <2>1 DEF Parts, IssuedParts, InWb
    <3>2. QED
      BY <2>1, <3>1 DEF Parts, IssuedParts
  <2>2. CASE k - m \in 1..b /\ m + (k - m) = k /\ k - m \in 1..(b + 1)
    <3>1. Issued[k] = pipe3[k - m] /\ Issued'[k] = pipe3'[k - m]
      BY <1>1, <1>2, <2>2 DEF Parts, IssuedParts
    <3>2. QED
      BY <1>1, <2>2, <3>1
  <2>3. QED
    BY <1>1, <1>2, <2>1, <2>2, Place
<1>5. \A k \in 1..n : k + 0 = k /\ (Settled(k)' <=> Settled(k))
  BY <1>1, <1>2, <1>4 DEF Settled
<1>6. n + 1 = m + (b + 1) /\ n + 1 >= n - 0 /\ n - 0 = n
  BY <1>1, <1>2
<1>7. Keeps(0)
  BY <1>2, <1>4, <1>5, <1>6 DEF Keeps, Became
<1>8. QED
  BY <1>2, <1>3, <1>4, <1>6, <1>7

\* A unit finishes the youngest.
LEMMA FinishKeeps ==
  ASSUME TypeOK, Buffers, Parts, Parts', MultiInv, DelayedOutput
  PROVE  Keeps(0) /\ Len(Issued') = Len(Issued)
<1> DEFINE n == Len(Issued)
           m == Len(pipe4)
           b == Len(pipe3)
<1>1. UNCHANGED <<pipe4, wEpoch>> /\ rgMulti
  BY DEF DelayedOutput
<1>2. /\ Len(pipe3') = b /\ b \in Nat /\ pipe3 # <<>>
      /\ \A k \in 1..b : k # b => pipe3'[k] = pipe3[k]
      /\ pipe3' = [pipe3 EXCEPT ![b].type = "REG"] /\ pipe3[b].type = "WAIT"
  BY Finishes, Shifted DEF Buffers, LastIssued, DelayedOutput
<1>3. b \in 1..b
  BY <1>2, Shifted DEF Buffers
<1>4. ASSUME NEW k \in 1..b PROVE
        \/ pipe3'[k] = pipe3[k]
        \/ pipe3[k].type = "WAIT" /\ pipe3'[k] = [pipe3[k] EXCEPT !.type = "REG"]
  <2>1. CASE k = b
    <3>1. pipe3'[b] = [pipe3[b] EXCEPT !.type = "REG"]
      BY <1>2, <1>3 DEF Buffers
    <3>2. QED
      BY <1>2, <2>1, <3>1
  <2>2. QED
    BY <1>2, <2>1
<1>5. m \in {0, 1} /\ m' = m /\ n = m + b /\ Len(Issued') = n
  BY <1>1, <1>2 DEF Parts, IssuedParts
<1>6. ASSUME NEW k \in 1..(m + b)
      PROVE  \/ Issued'[k] = Issued[k]
             \/ Issued[k].type = "WAIT" /\ Issued'[k] = [Issued[k] EXCEPT !.type = "REG"]
  <2>1. CASE k = 1 /\ m = 1
    <3>1. pipe4 # <<>> /\ InWb' = InWb /\ pipe4' # <<>>
      BY <1>1, <2>1 DEF Parts, IssuedParts, InWb
    <3>2. QED
      BY <2>1, <3>1 DEF Parts, IssuedParts
  <2>2. CASE k - m \in 1..b /\ m + (k - m) = k
    <3>1. Issued[k] = pipe3[k - m] /\ Issued'[k] = pipe3'[k - m]
      BY <1>2, <1>5, <2>2 DEF Parts, IssuedParts
    <3>2. QED
      BY <1>4, <2>2, <3>1
  <2>3. QED
    BY <1>2, <1>5, <2>1, <2>2, Place
<1>7. ASSUME NEW k \in 1..n
      PROVE  /\ Became(Issued'[k], Issued[k])
             /\ Settled(k) => Settled(k)' /\ Issued'[k].val = Issued[k].val
  <2>1. Issued[k] \in IssuedHere /\ k \in 1..(m + b)
    BY <1>5 DEF Parts, IssuedParts
  <2>2. CASE Issued'[k] = Issued[k]
    BY <1>5, <2>2 DEF Became, Settled
  <2>3. CASE Issued[k].type = "WAIT" /\ Issued'[k] = [Issued[k] EXCEPT !.type = "REG"]
    <3>1. /\ Issued'[k].type = "REG" /\ Issued'[k].pc = Issued[k].pc
          /\ Issued'[k].rd = Issued[k].rd /\ Issued'[k].ep = Issued[k].ep
          /\ Issued'[k].val = Issued[k].val
      BY <2>1, <2>3 DEF IssuedHere, IssuedEntry
    <3>2. QED
      BY <2>3, <3>1 DEF Became, Settled
  <2>4. QED
    BY <1>6, <2>1, <2>2, <2>3
<1>8. n \in Nat /\ \A k \in 1..n : k + 0 = k
  BY <1>2, <1>5
<1>9. QED
  BY <1>1, <1>5, <1>7, <1>8 DEF Keeps

-----------------------------------------------------------------------------
(* What execute makes of an instruction *)

Misaimed(p, a, b) == Jumps(p, a, b) /\ Target(p, a) \in BadTarget

\* What e may be from the moment it is executed with the operands a and b until
\* it is committed.
Outcome(e, a, b) ==
  LET p == e.pc
      op == Prog[p].op
  IN  \/ e.type = "TRAP" /\ e.cause = "Exception" /\ (op \in AccessOp \/ Misaimed(p, a, b))
      \/ /\ e.type = "REG" /\ e.val = Result(p, a, b)
         /\ op \in {"ALU", "SFENCE"} \cup ControlOp /\ ~ Misaimed(p, a, b)
      \/ e.type \in {"WAIT", "REG"} /\ e.val = Result(p, a, b) /\ op = "MUL"
      \/ e.type = op /\ e.val = a /\ op \in SystemOp
      \/ e.type \in {"FENCE", "REG"} /\ op \in FenceOp
      \/ e.type \in {"LOAD", "REG"} /\ op \in {"LOAD", "LR"} /\ a \notin BadAddr
      \/ e.type = "STORE" /\ e.val = 0 /\ op \in {"STORE", "SC"} /\ a \notin BadAddr
      \/ e.type \in {"AMO", "STORE"} /\ op = "AMO" /\ a \notin BadAddr
      \/ e.type = "REG" /\ e.val = 1 /\ op = "SC" /\ a \notin BadAddr

Executed(e) ==
  /\ LiveFetched(InExec) /\ pipe3' = Append(pipe3, e)
  /\ e.pc = InExec.pc /\ e.rd = Prog[InExec.pc].rd /\ e.ep = wEpoch
  /\ \/ InExec.type = "TRAP" /\ e.type = "TRAP" /\ e.cause = InExec.cause
     \/ InExec.type # "TRAP" /\ OperandsAvailable /\ Outcome(e, Rs1.data, Rs2.data)

\* Whatever the rule, it makes of the instruction what its operands ask for.
LEMMA ExecComputes ==
  ASSUME TypeInv, DecodedKind, Exec
  PROVE  Drops \/ \E e \in IssuedHere : Executed(e)
<1> DEFINE Goal == \E e \in IssuedHere : Executed(e)
           a == Rs1.data
           b == Rs2.data
           Makes(e) == InExec.type # "TRAP" /\ OperandsAvailable /\ Outcome(e, a, b)
<1>0. TypeOK /\ ExecReady /\ pipe2 # <<>>
  BY ExecIssues DEF TypeInv, ExecReady
<1>1. /\ a \in Data /\ 0 \in Data /\ 1 \in Data /\ {"none", "Exception"} \subseteq Cause
      /\ {"TRAP", "REG", "WAIT", "CSR", "XRET"} \cup MemType \subseteq IssuedType
      /\ InExec.cause \in Cause /\ Result(InExec.pc, a, b) \in Data
  BY <1>0, BypassTyped, Heads, ProgramAssumption, ValueAssumption
     DEF IssuedType, MemType, Cause, DecodedEntry
<1>2. ASSUME NEW types, Executes(types)
      PROVE  /\ LiveFetched(InExec) /\ InExec.type \in types
             /\ InExec.type # "TRAP" => InExec.type = Prog[InExec.pc].op /\ OperandsAvailable
  BY <1>0, <1>2 DEF Executes, LiveFetched, DecodedKind
<1>3. ASSUME LiveFetched(InExec), NEW type \in IssuedType, NEW val \in Data, NEW cause \in Cause,
             Issue(type, val, cause),
             \/ InExec.type = "TRAP" /\ type = "TRAP" /\ cause = InExec.cause
             \/ Makes(Entry(type, val, cause))
      PROVE  Goal
  <2>1. /\ Entry(type, val, cause) \in IssuedHere
        /\ Entry(type, val, cause).pc = InExec.pc /\ Entry(type, val, cause).ep = wEpoch
        /\ Entry(type, val, cause).type = type
    BY <1>0, <1>3, EntryMade
  <2>2. /\ Entry(type, val, cause).rd = Prog[InExec.pc].rd
        /\ Entry(type, val, cause).cause = cause
    BY DEF Entry
  <2>3. Executed(Entry(type, val, cause))
    BY <1>3, <2>1, <2>2 DEF Executed, Issue
  <2>4. QED
    BY <2>1, <2>3
<1>4. \A type, val, cause :
        LET e == Entry(type, val, cause)
        IN  e.pc = InExec.pc /\ e.type = type /\ e.val = val /\ e.cause = cause
  BY DEF Entry
<1> HIDE DEF Goal
<1>5. CASE ExecDrop
  BY <1>5 DEF ExecDrop, NoRedirect, execVars, Drops, LiveFetched
<1>6. CASE ExecTrap
  <2>1. Issue("TRAP", 0, InExec.cause) /\ Executes({"TRAP"})
    BY <1>6 DEF ExecTrap
  <2>2. QED
    BY <1>1, <1>2, <1>3, <2>1 DEF Goal
<1>7. CASE ExecAlu
  <2>1. Issue("REG", Result(InExec.pc, a, b), "none") /\ Executes({"ALU", "SFENCE"})
    BY <1>7 DEF ExecAlu
  <2>2. LiveFetched(InExec) /\ OperandsAvailable /\ Prog[InExec.pc].op \in {"ALU", "SFENCE"}
        /\ InExec.type # "TRAP"
    BY <1>2, <2>1
  <2>3. Makes(Entry("REG", Result(InExec.pc, a, b), "none"))
    BY <1>4, <2>2 DEF Outcome, Misaimed, Jumps
  <2>4. QED
    BY <1>1, <1>3, <2>1, <2>2, <2>3 DEF Goal
<1>8. CASE ExecMulti
  <2>1. Issue("WAIT", Result(InExec.pc, a, b), "none") /\ Executes({"MUL"})
    BY <1>8 DEF ExecMulti
  <2>2. LiveFetched(InExec) /\ OperandsAvailable /\ Prog[InExec.pc].op = "MUL"
        /\ InExec.type # "TRAP"
    BY <1>2, <2>1
  <2>3. Makes(Entry("WAIT", Result(InExec.pc, a, b), "none"))
    BY <1>4, <2>2 DEF Outcome
  <2>4. QED
    BY <1>1, <1>3, <2>1, <2>2, <2>3 DEF Goal
<1>9. CASE ExecSystem
  <2>1. Issue(InExec.type, a, "none") /\ Executes(SystemOp)
    BY <1>9 DEF ExecSystem
  <2>2. /\ LiveFetched(InExec) /\ OperandsAvailable /\ InExec.type \in SystemOp
        /\ InExec.type # "TRAP" /\ InExec.type = Prog[InExec.pc].op /\ InExec.type \in IssuedType
    BY <1>1, <1>2, <2>1 DEF SystemOp
  <2>3. Makes(Entry(InExec.type, a, "none"))
    BY <1>4, <2>2 DEF Outcome
  <2>4. QED
    BY <1>1, <1>3, <2>1, <2>2, <2>3 DEF Goal
<1>10. CASE ExecMisaligned
  <2>1. Issue("TRAP", 0, "Exception") /\ Executes(AccessOp)
    BY <1>10 DEF ExecMisaligned
  <2>2. LiveFetched(InExec) /\ OperandsAvailable /\ Prog[InExec.pc].op \in AccessOp
        /\ InExec.type # "TRAP"
    BY <1>2, <2>1 DEF AccessOp
  <2>3. Makes(Entry("TRAP", 0, "Exception"))
    BY <1>4, <2>2 DEF Outcome
  <2>4. QED
    BY <1>1, <1>3, <2>1, <2>2, <2>3 DEF Goal
<1>11. CASE ExecAccess
  <2>1. Issue(InExec.type, 0, "none") /\ Executes({"LOAD", "STORE", "AMO"}) /\ a \notin BadAddr
    BY <1>11 DEF ExecAccess, Request
  <2>2. /\ LiveFetched(InExec) /\ OperandsAvailable /\ InExec.type \in {"LOAD", "STORE", "AMO"}
        /\ InExec.type # "TRAP" /\ InExec.type = Prog[InExec.pc].op /\ InExec.type \in IssuedType
    BY <1>1, <1>2, <2>1 DEF MemType
  <2>3. Makes(Entry(InExec.type, 0, "none"))
    BY <1>4, <2>1, <2>2 DEF Outcome
  <2>4. QED
    BY <1>1, <1>3, <2>1, <2>2, <2>3 DEF Goal
<1>12. CASE ExecFence
  <2>1. Issue("FENCE", 0, "none") /\ Executes(FenceOp)
    BY <1>12 DEF ExecFence, Request
  <2>2. LiveFetched(InExec) /\ OperandsAvailable /\ Prog[InExec.pc].op \in FenceOp
        /\ InExec.type # "TRAP" /\ "FENCE" \in IssuedType
    BY <1>1, <1>2, <2>1 DEF FenceOp, MemType
  <2>3. Makes(Entry("FENCE", 0, "none"))
    BY <1>4, <2>2 DEF Outcome
  <2>4. QED
    BY <1>1, <1>3, <2>1, <2>2, <2>3 DEF Goal
<1>13. CASE ExecLoadReserved
  <2>1. Issue("LOAD", 0, "none") /\ Executes({"LR"}) /\ a \notin BadAddr
    BY <1>13 DEF ExecLoadReserved, Request
  <2>2. LiveFetched(InExec) /\ OperandsAvailable /\ Prog[InExec.pc].op = "LR"
        /\ InExec.type # "TRAP" /\ "LOAD" \in IssuedType
    BY <1>1, <1>2, <2>1 DEF MemType
  <2>3. Makes(Entry("LOAD", 0, "none"))
    BY <1>4, <2>1, <2>2 DEF Outcome
  <2>4. QED
    BY <1>1, <1>3, <2>1, <2>2, <2>3 DEF Goal
<1>14. CASE ExecStoreConditional
  <2>1. /\ Issue("STORE", 0, "none") \/ Issue("REG", 1, "none")
        /\ Executes({"SC"}) /\ a \notin BadAddr
    BY <1>14 DEF ExecStoreConditional, Request
  <2>2. LiveFetched(InExec) /\ OperandsAvailable /\ Prog[InExec.pc].op = "SC"
        /\ InExec.type # "TRAP" /\ {"STORE", "REG"} \subseteq IssuedType
    BY <1>1, <1>2, <2>1 DEF MemType
  <2>3. Makes(Entry("STORE", 0, "none")) /\ Makes(Entry("REG", 1, "none"))
    BY <1>4, <2>1, <2>2 DEF Outcome
  <2>4. QED
    BY <1>1, <1>3, <2>1, <2>2, <2>3 DEF Goal
<1>15. CASE ExecControl
  <2>1. /\ \/ ControlTrap /\ Issue("TRAP", 0, "Exception")
           \/ ~ ControlTrap /\ Issue("REG", Result(InExec.pc, a, b), "none")
        /\ Executes(ControlOp)
    BY <1>15 DEF ExecControl
  <2>2. LiveFetched(InExec) /\ OperandsAvailable /\ Prog[InExec.pc].op \in ControlOp
        /\ InExec.type # "TRAP"
    BY <1>2, <2>1 DEF ControlOp
  <2>3. ControlTrap <=> Misaimed(InExec.pc, a, b)
    BY DEF ControlTrap, Misaimed
  <2>4. CASE ControlTrap /\ Issue("TRAP", 0, "Exception")
    <3>1. Makes(Entry("TRAP", 0, "Exception"))
      BY <1>4, <2>2, <2>3, <2>4 DEF Outcome
    <3>2. QED
      BY <1>1, <1>3, <2>2, <2>4, <3>1 DEF Goal
  <2>5. CASE ~ ControlTrap /\ Issue("REG", Result(InExec.pc, a, b), "none")
    <3>1. Makes(Entry("REG", Result(InExec.pc, a, b), "none"))
      BY <1>4, <2>2, <2>3, <2>5 DEF Outcome
    <3>2. QED
      BY <1>1, <1>3, <2>2, <2>5, <3>1 DEF Goal
  <2>6. QED
    BY <2>1, <2>4, <2>5
<1>16. QED
  BY <1>5, <1>6, <1>7, <1>8, <1>9, <1>10, <1>11, <1>12, <1>13, <1>14, <1>15 DEF Exec, Goal

-----------------------------------------------------------------------------
(* What the data side may refuse *)

AccessInv == FaultInv /\ RequestAccess /\ IssuedFence

\* The entry execute adds, with what is known of it and of its request.
LEMMA ExecAdds ==
  ASSUME TypeInv, DecodedKind, Exec, ~ Drops
  PROVE  \E e \in IssuedHere : IssuesAs(e) /\ Executed(e)
<1>1. PICK e \in IssuedHere : Executed(e)
  BY ExecComputes
<1>2. PICK f \in IssuedHere : IssuesAs(f)
  BY ExecIssues
<1>3. pipe3 \in Seq(IssuedHere)
  BY DEF TypeInv, TypeOK, ExecTypeOK, IssuedHere
<1>4. \A g \in IssuedHere : Append(pipe3, g)[Len(pipe3) + 1] = g
  BY <1>3, Shifted
<1>5. pipe3' = Append(pipe3, e) /\ pipe3' = Append(pipe3, f)
  BY <1>1, <1>2 DEF Executed, IssuesAs
<1>6. e = f
  BY <1>4, <1>5
<1>7. QED
  BY <1>1, <1>2, <1>6

LEMMA AccessStep ==
  ASSUME TypeInv, MultiInv, DecodedKind, AccessInv, [Next]_vars
  PROVE  AccessInv'
<1>0. /\ TypeOK /\ pipe3 \in Seq(IssuedHere) /\ dreq \in Seq(RequestEntry)
      /\ dresp \in Seq(ResponseEntry)
  BY DEF TypeInv, TypeOK, ExecTypeOK, DmemTypeOK, IssuedHere
<1>1. ASSUME UNCHANGED dreq PROVE RequestAccess'
  BY <1>1 DEF AccessInv, RequestAccess
<1>2. ASSUME UNCHANGED pipe3 PROVE IssuedFence'
  BY <1>2 DEF AccessInv, IssuedFence
<1>3. ASSUME UNCHANGED dresp PROVE FaultInv'
  BY <1>3 DEF AccessInv, FaultInv
<1>4. CASE Exec
  <2>1. UNCHANGED dresp
    BY <1>4, ExecIssues
  <2>2. CASE Drops
    BY <1>1, <1>2, <1>3, <2>1, <2>2 DEF Drops, AccessInv
  <2>3. CASE ~ Drops
    <3>1. PICK e \in IssuedHere : IssuesAs(e) /\ Executed(e)
      BY <1>4, <2>3, ExecAdds
    <3>2. /\ e.type = "FENCE" => Prog[e.pc].op \in FenceOp
          /\ e.type \in MemType \ {"FENCE"} => Prog[e.pc].op \in AccessOp
      BY <3>1 DEF Executed, Outcome, SystemOp, MemType, AccessOp
    <3>3. IssuedFence'
      <4>1. /\ Len(pipe3) \in Nat /\ Len(pipe3') = Len(pipe3) + 1 /\ pipe3'[Len(pipe3) + 1] = e
            /\ \A i \in 1..Len(pipe3) : pipe3'[i] = pipe3[i]
        BY <1>0, <3>1, Shifted DEF IssuesAs
      <4>2. \A i \in 1..(Len(pipe3) + 1) : i \in 1..Len(pipe3) \/ i = Len(pipe3) + 1
        BY <4>1
      <4>3. QED
        BY <3>2, <4>1, <4>2 DEF AccessInv, IssuedFence
    <3>4. RequestAccess'
      <4>1. CASE e.type \notin MemType
        BY <1>1, <3>1, <4>1 DEF IssuesAs
      <4>2. CASE e.type \in MemType
        <5>1. PICK r \in RequestEntry : r.pc = e.pc /\ r.type = e.type /\ dreq' = Append(dreq, r)
          BY <3>1, <4>2 DEF IssuesAs
        <5>2. /\ Len(dreq) \in Nat /\ Len(dreq') = Len(dreq) + 1 /\ dreq'[Len(dreq) + 1] = r
              /\ \A i \in 1..Len(dreq) : dreq'[i] = dreq[i]
          BY <1>0, <5>1, Shifted
        <5>3. \A i \in 1..(Len(dreq) + 1) : i \in 1..Len(dreq) \/ i = Len(dreq) + 1
          BY <5>2
        <5>4. QED
          BY <3>2, <4>2, <5>1, <5>2, <5>3 DEF AccessInv, RequestAccess
      <4>3. QED
        BY <4>1, <4>2
    <3>5. QED
      BY <1>3, <2>1, <3>3, <3>4 DEF AccessInv
  <2>4. QED
    BY <2>2, <2>3
<1>5. CASE DelayedOutput
  <2>1. /\ Len(pipe3') = Len(pipe3) /\ pipe3'[Len(pipe3)].type = "REG"
        /\ \A i \in 1..Len(pipe3) : i # Len(pipe3) => pipe3'[i] = pipe3[i]
    BY <1>0, <1>5, Finishes
  <2>2. IssuedFence'
    BY <2>1 DEF AccessInv, IssuedFence
  <2>3. QED
    BY <1>1, <1>3, <1>5, <2>2 DEF DelayedOutput, dmemVars, AccessInv
<1>6. CASE DmemRespond
  <2>1. /\ pipe3' = pipe3 /\ dreq # <<>>
        /\ \E trap, val : Answer(trap, val) /\ (trap => Head(dreq).type # "FENCE")
    BY <1>6 DEF DmemRespond, DmemFault, DmemRead, DmemStore, execVars
  <2>2. PICK trap, val : Answer(trap, val) /\ (trap => Head(dreq).type # "FENCE")
    BY <2>1
  <2>3. /\ Len(dreq) \in Nat /\ Len(dreq) >= 1 /\ Head(dreq) = dreq[1]
        /\ Len(Tail(dreq)) = Len(dreq) - 1
        /\ \A i \in 1..(Len(dreq) - 1) : Tail(dreq)[i] = dreq[i + 1]
    BY <1>0, <2>1, Shifted
  <2>4. RequestAccess'
    <3>1. \A i \in 1..(Len(dreq) - 1) : i + 1 \in 1..Len(dreq)
      BY <2>3
    <3>2. QED
      BY <2>2, <2>3, <3>1 DEF Answer, AccessInv, RequestAccess
  <2>5. FaultInv'
    <3>1. trap => Prog[Head(dreq).pc].op \in AccessOp
      BY <2>2, <2>3 DEF AccessInv, RequestAccess
    <3>2. Len(dresp') = 1 /\ dresp'[1].trap = trap /\ dresp'[1].pc = Head(dreq).pc
      BY <2>2 DEF Answer
    <3>3. QED
      BY <3>1, <3>2 DEF FaultInv
  <2>6. QED
    BY <1>2, <2>1, <2>4, <2>5 DEF AccessInv
<1>7. CASE CheckInstruction
  <2>1. /\ pipe3 # <<>> /\ dreq' = dreq
        /\ pipe3' = Tail(pipe3) \/ pipe3' = pipe3
        /\ dresp' = dresp \/ dresp' = <<>>
    BY <1>0, <1>7, CheckEffects DEF CheckInstruction, PassInstruction, TakeAnswer
  <2>2. /\ Len(pipe3) \in Nat /\ Len(Tail(pipe3)) = Len(pipe3) - 1
        /\ \A i \in 1..(Len(pipe3) - 1) : Tail(pipe3)[i] = pipe3[i + 1] /\ i + 1 \in 1..Len(pipe3)
    BY <1>0, <2>1, Shifted
  <2>3. IssuedFence'
    BY <1>2, <2>1, <2>2 DEF AccessInv, IssuedFence
  <2>4. FaultInv'
    <3>1. dresp' = <<>> => Len(dresp') = 0
      BY EmptySeq
    <3>2. QED
      BY <1>3, <2>1, <3>1 DEF FaultInv
  <2>5. QED
    BY <1>1, <2>1, <2>3, <2>4 DEF AccessInv
<1>8. CASE Deliver \/ Decode \/ WaitForInterrupt \/ CsrAnswer \/ ToggleIrq \/ InstructionCommit
             \/ UNCHANGED vars
  <2>1. UNCHANGED <<pipe3, dreq, dresp>>
    BY <1>8, CommitEffects
       DEF Deliver, Decode, WaitForInterrupt, CsrAnswer, ToggleIrq, CommitFrame, vars,
           execVars, dmemVars
  <2>2. QED
    BY <1>1, <1>2, <1>3, <2>1 DEF AccessInv
<1>9. QED
  BY <1>4, <1>5, <1>6, <1>7, <1>8 DEF Next

\* Faults answer accesses only.
THEOREM AccessInvariance == Spec => []AccessInv
<1>1. Init => AccessInv
  BY EmptySeq DEF Init, AccessInv, FaultInv, RequestAccess, IssuedFence
<1>2. TypeInv /\ WaitInv /\ DecodedKind /\ AccessInv /\ [Next]_vars => AccessInv'
  BY AccessStep DEF WaitInv
<1>3. QED
  BY <1>1, <1>2, TypeInvariance, WaitInvariance, DecodedKindInvariance, PTL DEF Spec

-----------------------------------------------------------------------------
(* stage4 and stage5, on the instructions past execution *)

\* stage4 hands the oldest on, with its answer.
LEMMA PassKeeps ==
  ASSUME TypeOK, TypeOK', Parts, Parts', PairInv, AccessInv, CheckInstruction
  PROVE  /\ Keeps(0) /\ Len(Issued') = Len(Issued)
         /\ pipe4 = <<>> /\ pipe4' # <<>> /\ pipe3' = Tail(pipe3) /\ pipe3 # <<>>
         /\ \/ PassInstruction /\ InWb' = InMem
            \/ TakeAnswer /\ SameTag(Head(dresp), InMem) /\ InWb' = Answered(Head(dresp))
<1> DEFINE b == Len(pipe3)
<1>1. /\ pipe3 # <<>> /\ pipe4 = <<>> /\ InMem = pipe3[1] /\ wEpoch' = wEpoch
      /\ \/ PassInstruction /\ InWb' = InMem /\ pipe3' = Tail(pipe3) /\ pipe4' # <<>>
         \/ TakeAnswer
  BY CheckEffects
<1>2. ASSUME TakeAnswer
      PROVE  /\ SameTag(Head(dresp), InMem) /\ pipe3' = Tail(pipe3)
             /\ pipe4' # <<>> /\ InWb' = Answered(Head(dresp))
  <2>1. UNCHANGED dreq
    BY DEF CheckInstruction
  <2>2. /\ SameTag(Head(dresp), InMem) /\ pipe3' = Tail(pipe3)
        /\ pipe4' = <<Answered(Head(dresp))>>
    BY <1>1, <1>2, <2>1, TakenPairs
  <2>3. ASSUME NEW e, pipe4' = <<e>> PROVE pipe4' # <<>> /\ InWb' = e
    BY <2>3 DEF InWb
  <2>4. QED
    BY <2>2, <2>3
<1>3. /\ \/ PassInstruction /\ InWb' = InMem
         \/ TakeAnswer /\ SameTag(Head(dresp), InMem) /\ InWb' = Answered(Head(dresp))
      /\ pipe3' = Tail(pipe3) /\ pipe4' # <<>>
  BY <1>1, <1>2
<1>4. /\ b \in Nat /\ b >= 1 /\ Len(pipe3') = b - 1
      /\ \A k \in 1..(b - 1) : pipe3'[k] = pipe3[k + 1]
  BY <1>1, <1>3, Shifted DEF TypeOK, ExecTypeOK
<1>5. /\ Len(Issued) = b /\ \A k \in 1..b : Issued[k] = pipe3[k]
  BY <1>1, <1>4 DEF Parts, IssuedParts
<1>6. /\ Len(Issued') = b /\ Issued'[1] = InWb' /\ Len(pipe4) = 0 /\ Len(pipe4') = 1
      /\ \A k \in 1..(b - 1) : Issued'[1 + k] = pipe3'[k]
  <2>1. Len(pipe4) = 0 /\ Len(pipe4') = 1 /\ Issued'[1] = InWb'
    BY <1>1, <1>3 DEF Parts, IssuedParts
  <2>2. /\ Len(Issued') = 1 + (b - 1)
        /\ \A k \in 1..(b - 1) : Issued'[1 + k] = pipe3'[k]
    BY <1>4, <2>1 DEF Parts, IssuedParts
  <2>3. QED
    BY <1>4, <2>1, <2>2
<1>7. InMem \in IssuedHere
  BY <1>1, <1>4, <1>5 DEF Parts, IssuedParts
<1>8. Became(InWb', InMem)
  <2>1. CASE InWb' = InMem
    BY <2>1 DEF Became
  <2>2. CASE TakeAnswer /\ SameTag(Head(dresp), InMem) /\ InWb' = Answered(Head(dresp))
    <3>1. InMem.type \in MemType /\ dresp # <<>>
      BY <2>2 DEF TakeAnswer
    <3>2. Head(dresp).trap => InMem.type # "FENCE"
      <4>1. Len(dresp) >= 1 /\ Len(dresp) \in Nat /\ Head(dresp) = dresp[1]
        BY <3>1, Shifted DEF TypeOK, DmemTypeOK
      <4>2. Head(dresp).trap => Prog[InMem.pc].op \in AccessOp
        BY <2>2, <4>1 DEF AccessInv, FaultInv, SameTag
      <4>3. InMem.type = "FENCE" => Prog[InMem.pc].op \in FenceOp
        BY <1>1, <1>4 DEF AccessInv, IssuedFence
      <4>4. QED
        BY <4>2, <4>3 DEF AccessOp, FenceOp
    <3>3. Head(dresp).trap \in BOOLEAN
      BY <3>1, Heads DEF ResponseEntry
    <3>4. CASE Head(dresp).trap
      BY <1>7, <2>2, <3>1, <3>2, <3>4 DEF Answered, Became, IssuedHere, IssuedEntry
    <3>5. CASE ~ Head(dresp).trap /\ InMem.type = "STORE"
      BY <1>7, <2>2, <3>5 DEF Answered, Became, IssuedHere, IssuedEntry
    <3>6. CASE ~ Head(dresp).trap /\ InMem.type = "AMO"
      BY <1>7, <2>2, <3>6 DEF Answered, Became, IssuedHere, IssuedEntry
    <3>7. CASE ~ Head(dresp).trap /\ InMem.type \in {"LOAD", "FENCE"}
      <4>1. Answered(Head(dresp)) = [InMem EXCEPT !.type = "REG", !.val = Head(dresp).val]
        BY <3>7 DEF Answered
      <4>2. QED
        BY <1>7, <2>2, <3>7, <4>1 DEF Became, IssuedHere, IssuedEntry
    <3>8. QED
      BY <3>1, <3>3, <3>4, <3>5, <3>6, <3>7 DEF MemType
  <2>3. QED
    BY <1>3, <2>1, <2>2
<1>9. Settled(1) => Settled(1)' /\ Issued'[1].val = Issued[1].val
  <2>1. ASSUME Settled(1) PROVE InMem.type = "REG"
    BY <1>1, <1>4, <1>5, <1>6, <2>1 DEF Settled
  <2>2. InMem.type = "REG" => InWb' = InMem
    BY <1>3 DEF TakeAnswer, MemType
  <2>3. QED
    BY <1>1, <1>4, <1>5, <1>6, <2>1, <2>2 DEF Settled
<1>10. ASSUME NEW k \in 1..b
       PROVE  /\ Became(Issued'[k], Issued[k + 0])
              /\ Settled(k + 0) => Settled(k)' /\ Issued'[k].val = Issued[k + 0].val
  <2>1. k + 0 = k
    BY <1>4
  <2>2. CASE k = 1
    BY <1>1, <1>4, <1>5, <1>6, <1>8, <1>9, <2>2
  <2>3. CASE k # 1
    <3>1. k - 1 \in 1..(b - 1) /\ 1 + (k - 1) = k /\ (k - 1) + 1 = k /\ ~ (k <= 0)
      BY <1>4, <2>3
    <3>2. Issued'[k] = Issued[k]
      BY <1>4, <1>5, <1>6, <3>1
    <3>3. Settled(k) => Issued[k].type = "REG"
      BY <1>6, <3>1 DEF Settled
    <3>4. QED
      BY <2>1, <3>2, <3>3 DEF Became, Settled
  <2>4. QED
    BY <2>2, <2>3
<1>11. b - 0 = b /\ b >= b - 0
  BY <1>4
<1>12. Keeps(0)
  BY <1>1, <1>5, <1>6, <1>10, <1>11 DEF Keeps
<1>13. QED
  BY <1>1, <1>3, <1>5, <1>6, <1>12

\* Write back without a flush keeps the oldest or takes it away.
LEMMA LeaveKeeps ==
  ASSUME TypeInv, Parts, Parts', InstructionCommit, wEpoch' = wEpoch
  PROVE  /\ pipe4 # <<>> /\ UNCHANGED <<eEpoch, pipe3, dreq, dresp>>
         /\ \/ pipe4' = pipe4 /\ Keeps(0) /\ Issued' = Issued
            \/ pipe4' = <<>> /\ Keeps(1) /\ Len(Issued') = Len(Issued) - 1
<1> DEFINE b == Len(pipe3)
<1>1. /\ pipe4 # <<>> /\ UNCHANGED <<eEpoch, pipe3, dreq, dresp>>
      /\ pipe4' = pipe4 \/ pipe4' = <<>>
  BY CommitEffects DEF CommitFrame, execVars, dmemVars
<1>2. CASE pipe4' = pipe4
  BY <1>1, <1>2, StayKeeps
<1>3. CASE pipe4' = <<>>
  <2>1. b \in Nat /\ Len(pipe4) = 1 /\ Len(pipe4') = 0 /\ pipe3' = pipe3
    BY <1>1, <1>3 DEF Parts, IssuedParts
  <2>2. /\ Len(Issued) = 1 + b /\ Len(Issued') = b
        /\ \A k \in 1..b : Issued[1 + k] = pipe3[k] /\ Issued'[k] = pipe3[k]
    <3>1. \A k \in 1..b : 0 + k = k
      BY <2>1
    <3>2. QED
      BY <2>1, <3>1 DEF Parts, IssuedParts
  <2>3. \A k \in 1..b : k + 1 = 1 + k /\ ~ (k + 1 <= 1)
    BY <2>1
  <2>4. \A k \in 1..b : Issued'[k] = Issued[k + 1] /\ (Settled(k + 1) => Settled(k)')
    BY <2>1, <2>2, <2>3 DEF Settled
  <2>5. (1 + b) - 1 = b /\ b >= b
    BY <2>1
  <2>6. Keeps(1)
    BY <2>2, <2>4, <2>5 DEF Keeps, Became
  <2>7. QED
    BY <1>1, <1>3, <2>2, <2>5, <2>6
<1>4. QED
  BY <1>1, <1>2, <1>3

-----------------------------------------------------------------------------
(* The instructions decoded *)

\* A trap stays one, and a new one is an exception.
TrapKept(e, f) ==
  /\ e.pc = f.pc
  /\ f.type = "TRAP" => e.type = "TRAP" /\ e.cause = f.cause
  /\ e.type = "TRAP" => f.type = "TRAP" \/ e.cause = "Exception"

\* The first s have left; of the others, the same are to be kept.
Carried(s) ==
  /\ \A i \in 1..Len(Decoded') : IsKept(i)' =>
       /\ i + s \in 1..Len(Decoded) /\ IsKept(i + s)
       /\ TrapKept(Decoded'[i], Decoded[i + s])
  /\ \A i \in 1..Len(Decoded) : i > s /\ IsKept(i) =>
       i - s \in 1..Len(Decoded') /\ IsKept(i - s)'

KeptPlaces ==
  /\ Len(Issued) \in Nat /\ Len(Decoded) \in Nat
  /\ \A i \in 1..Len(Issued) : Decoded[i] = Issued[i] /\ (IsKept(i) <=> LiveIssued(Issued[i]))
  /\ pipe2 # <<>> => /\ Len(Issued) + 1 \in 1..Len(Decoded)
                     /\ Decoded[Len(Issued) + 1] = InExec
                     /\ IsKept(Len(Issued) + 1) <=> LiveFetched(InExec)
  /\ 1..Len(Issued) \subseteq 1..Len(Decoded)
  /\ \A i \in 1..Len(Decoded) : i \in 1..Len(Issued) \/ (i = Len(Issued) + 1 /\ pipe2 # <<>>)

LEMMA KeptWhere == Parts => KeptPlaces
<1> SUFFICES ASSUME Parts PROVE KeptPlaces
  OBVIOUS
<1> DEFINE n == Len(Issued)
           a == Len(pipe2)
<1>1. (pipe2 = <<>> /\ a = 0) \/ (pipe2 # <<>> /\ a = 1)
  BY DEF Parts, WaitingParts
<1>2. n \in Nat /\ Len(Decoded) = n + a
  BY DEF Parts, IssuedParts, DecodedParts
<1>3. \A i \in 1..n : Decoded[i] = Issued[i] /\ (IsKept(i) <=> LiveIssued(Issued[i]))
  <2>1. \A i \in 1..n : Decoded[i] = Issued[i] /\ i <= n
    BY <1>2 DEF Parts, DecodedParts
  <2>2. QED
    BY <2>1 DEF IsKept
<1>4. ASSUME pipe2 # <<>>
      PROVE  /\ n + 1 \in 1..Len(Decoded) /\ Decoded[n + 1] = InExec
             /\ IsKept(n + 1) <=> LiveFetched(InExec)
  <2>1. n + 1 \in 1..Len(Decoded) /\ ~ (n + 1 <= n) /\ Decoded[n + 1] = InExec
    BY <1>1, <1>2, <1>4 DEF Parts, DecodedParts
  <2>2. QED
    BY <2>1 DEF IsKept
<1>5. /\ 1..n \subseteq 1..Len(Decoded)
      /\ \A i \in 1..Len(Decoded) : i \in 1..n \/ (i = n + 1 /\ pipe2 # <<>>)
      /\ Len(Decoded) \in Nat
  <2>1. CASE pipe2 = <<>> /\ a = 0
    <3>1. Len(Decoded) = n
      BY <1>2, <2>1
    <3>2. QED
      BY <1>2, <3>1
  <2>2. CASE pipe2 # <<>> /\ a = 1
    <3>1. Len(Decoded) = n + 1
      BY <1>2, <2>2
    <3>2. \A i \in 1..(n + 1) : i \in 1..n \/ i = n + 1
      BY <1>2
    <3>3. 1..n \subseteq 1..(n + 1) /\ n + 1 \in Nat
      BY <1>2
    <3>4. QED
      BY <2>2, <3>1, <3>2, <3>3
  <2>3. QED
    BY <1>1, <2>1, <2>2
<1>6. QED
  BY <1>2, <1>3, <1>4, <1>5 DEF KeptPlaces

\* What becomes of an instruction makes no trap of the decode stage.
LEMMA BecameTrap ==
  ASSUME NEW e, NEW f, Became(e, f)
  PROVE  TrapKept(e, f)
BY DEF Became, TrapKept, MemType

\* pipe2 stays as it is.
LEMMA CarryBehind ==
  ASSUME KeptPlaces, KeptPlaces', NEW s \in {0, 1}, Keeps(s), Len(Issued') = Len(Issued) - s,
         UNCHANGED <<pipe2, eEpoch>>
  PROVE  Carried(s)
<1> DEFINE n == Len(Issued)
<1>0. n \in Nat /\ n - s \in Nat /\ wEpoch' = wEpoch
  BY DEF KeptPlaces, Keeps
<1>1. InExec' = InExec /\ (LiveFetched(InExec)' <=> LiveFetched(InExec))
  BY <1>0 DEF InExec, LiveFetched, Epochs
<1>2. \A k \in 1..(n - s) : /\ TrapKept(Issued'[k], Issued[k + s])
                            /\ LiveIssued(Issued[k])' <=> LiveIssued(Issued[k + s])
  <2>1. \A k \in 1..(n - s) : Became(Issued'[k], Issued[k + s])
    BY DEF Keeps
  <2>2. QED
    BY <1>0, <2>1, BecameTrap DEF LiveIssued, Became
<1>3. ASSUME NEW i \in 1..Len(Decoded'), IsKept(i)'
      PROVE  /\ i + s \in 1..Len(Decoded) /\ IsKept(i + s)
             /\ TrapKept(Decoded'[i], Decoded[i + s])
  <2>1. CASE i \in 1..(n - s)
    <3>1. i + s \in 1..n
      BY <1>0, <2>1
    <3>2. QED
      BY <1>2, <1>3, <2>1, <3>1 DEF KeptPlaces
  <2>2. CASE i = (n - s) + 1 /\ pipe2 # <<>>
    <3>1. i + s = n + 1
      BY <1>0, <2>2
    <3>2. QED
      BY <1>1, <1>3, <2>2, <3>1 DEF KeptPlaces, TrapKept
  <2>3. QED
    BY <2>1, <2>2 DEF KeptPlaces
<1>4. ASSUME NEW i \in 1..Len(Decoded), i > s, IsKept(i)
      PROVE  i - s \in 1..Len(Decoded') /\ IsKept(i - s)'
  <2>1. CASE i \in 1..n
    <3>1. i - s \in 1..(n - s) /\ (i - s) + s = i
      BY <1>0, <1>4, <2>1
    <3>2. QED
      BY <1>2, <1>4, <2>1, <3>1 DEF KeptPlaces
  <2>2. CASE i = n + 1 /\ pipe2 # <<>>
    <3>1. i - s = (n - s) + 1
      BY <1>0, <2>2
    <3>2. QED
      BY <1>1, <1>4, <2>2, <3>1 DEF KeptPlaces
  <2>3. QED
    BY <2>1, <2>2 DEF KeptPlaces
<1>5. QED
  BY <1>3, <1>4 DEF Carried

\* Execute takes the instruction in pipe2 and may leave one it has squashed.
LEMMA CarryExec ==
  ASSUME KeptPlaces, KeptPlaces', Keeps(0), pipe2 # <<>>,
         pipe2' # <<>> => ~ LiveFetched(InExec)',
         \/ Len(Issued') = Len(Issued) /\ ~ LiveFetched(InExec)
         \/ /\ Len(Issued') = Len(Issued) + 1 /\ LiveFetched(InExec)
            /\ Issued'[Len(Issued) + 1].ep = wEpoch
            /\ TrapKept(Issued'[Len(Issued) + 1], InExec)
  PROVE  Carried(0)
<1> DEFINE n == Len(Issued)
<1>0. n \in Nat /\ wEpoch' = wEpoch /\ Len(Issued') \in {n, n + 1}
  BY DEF KeptPlaces, Keeps
<1>1. \A k \in 1..n : /\ TrapKept(Issued'[k], Issued[k])
                      /\ LiveIssued(Issued[k])' <=> LiveIssued(Issued[k])
  <2>1. n - 0 = n /\ \A k \in 1..n : k + 0 = k
    BY <1>0
  <2>2. \A k \in 1..n : Became(Issued'[k], Issued[k])
    BY <2>1 DEF Keeps
  <2>3. QED
    BY <1>0, <2>2, BecameTrap DEF LiveIssued, Became
<1>2. ASSUME NEW i \in 1..Len(Decoded'), IsKept(i)'
      PROVE  i \in 1..Len(Decoded) /\ IsKept(i) /\ TrapKept(Decoded'[i], Decoded[i])
  <2>1. i \in 1..Len(Issued')
    BY <1>2 DEF KeptPlaces
  <2>2. CASE i \in 1..n
    BY <1>1, <1>2, <2>1, <2>2 DEF KeptPlaces
  <2>3. CASE i \notin 1..n
    <3>1. i = n + 1 /\ Len(Issued') = n + 1
      BY <1>0, <2>1, <2>3
    <3>2. LiveFetched(InExec) /\ TrapKept(Issued'[n + 1], InExec)
      BY <1>0, <3>1
    <3>3. QED
      BY <2>1, <3>1, <3>2 DEF KeptPlaces
  <2>4. QED
    BY <2>2, <2>3
<1>3. ASSUME NEW i \in 1..Len(Decoded), IsKept(i)
      PROVE  i \in 1..Len(Decoded') /\ IsKept(i)'
  <2>1. CASE i \in 1..n
    <3>1. i \in 1..Len(Issued')
      BY <1>0, <2>1
    <3>2. QED
      BY <1>1, <1>3, <2>1, <3>1 DEF KeptPlaces
  <2>2. CASE i = n + 1
    <3>1. LiveFetched(InExec)
      BY <1>3, <2>2 DEF KeptPlaces
    <3>2. Len(Issued') = i /\ Issued'[i].ep = wEpoch' /\ i \in 1..i
      BY <1>0, <2>2, <3>1
    <3>3. i \in 1..Len(Issued') /\ LiveIssued(Issued[i])'
      BY <3>2 DEF LiveIssued
    <3>4. QED
      BY <3>3 DEF KeptPlaces
  <2>3. QED
    BY <2>1, <2>2 DEF KeptPlaces
<1>4. \A i \in 1..Len(Decoded) : i + 0 = i /\ i - 0 = i
  BY DEF KeptPlaces
<1>5. \A i \in 1..Len(Decoded') : i + 0 = i
  BY DEF KeptPlaces
<1>6. QED
  BY <1>2, <1>3, <1>4, <1>5 DEF Carried

-----------------------------------------------------------------------------
(* Every step, on the instructions decoded *)

\* The invariants established so far, on which the others rest.
Grounds ==
  /\ TypeInv /\ Buffers /\ EpochInv /\ WaitInv /\ PairInv /\ DecodedKind /\ AccessInv
  /\ ChainInv

LEMMA Given ==
  Grounds => TypeOK /\ DecodeTypeOK /\ Parts /\ KeptPlaces /\ MultiInv
BY PartsHold, KeptWhere DEF Grounds, TypeInv, TypeOK, WaitInv

THEOREM GroundsInvariance == Spec => []Grounds
<1>1. TypeInv /\ (Buffers /\ EpochInv) /\ WaitInv /\ ResponsesPair /\ DecodedKind /\ AccessInv
      /\ ChainInv => Grounds
  BY DEF Grounds, ResponsesPair, PairInv, InFlight
<1>2. QED
  BY <1>1, TypeInvariance, EpochInvariance, WaitInvariance, ResponsesPairCorrect,
     DecodedKindInvariance, AccessInvariance, ChainInvariance, PTL

\* Decode takes an instruction up.
Extends ==
  /\ pipe2 = <<>> /\ pipe1 # <<>> /\ Dispatch(FALSE) /\ ~ rgStall
  /\ UNCHANGED <<pipe3, pipe4, eEpoch, wEpoch>>

\* Execute re-directs.
Redirects ==
  /\ pipe2 # <<>> /\ LiveFetched(InExec) /\ InExec.type \in ControlOp
  /\ Carried(0)

\* Nothing is to be kept.
NoneKept == \A i \in 1..Len(Decoded) : ~ IsKept(i)

LEMMA SquashedAll ==
  ASSUME KeptPlaces, Parts, NoneIssued, NoneWaiting
  PROVE  NoneKept
<1>1. \A i \in 1..Len(Issued) : ~ LiveIssued(Issued[i])
  BY DEF NoneIssued, LiveIssued
<1>2. pipe2 # <<>> => ~ LiveFetched(InExec)
  <2>1. pipe2 # <<>> => Waiting[1] = InExec /\ 1 \in 1..Len(Waiting)
    BY DEF Parts, WaitingParts
  <2>2. QED
    BY <2>1 DEF NoneWaiting, LiveFetched
<1>3. QED
  BY <1>1, <1>2 DEF NoneKept, KeptPlaces

\* Execute without a re-direction carries the instructions on.
LEMMA ExecCarries ==
  ASSUME Grounds, Grounds', Exec
  PROVE  /\ Keeps(0)
         /\ \/ Carried(0) /\ pipe2' = <<>> /\ UNCHANGED <<rgStall, rgRerun, rgKind>>
            \/ Redirects
<1>0. /\ TypeOK /\ Parts /\ KeptPlaces /\ TypeInv /\ Buffers /\ DecodedKind /\ EpochInv
      /\ Parts' /\ KeptPlaces' /\ Buffers' /\ DecodeTypeOK'
  BY Given, PTL DEF Grounds
<1>1. pipe2 # <<>> /\ UNCHANGED <<wEpoch, pipe4>>
  BY <1>0, ExecIssues DEF ExecReady
<1>2. \/ WaitingShift(1) /\ pipe2' = <<>> /\ UNCHANGED <<rgStall, rgRerun, rgKind, pipe1>>
      \/ NoneWaiting' /\ ExecControl
  BY <1>0, ExecWaits
<1>3. NoneWaiting' => (pipe2' # <<>> => ~ LiveFetched(InExec)')
  BY <1>0 DEF NoneWaiting, LiveFetched, Parts, WaitingParts
<1>4. Keeps(0) /\ Carried(0)
  <2>1. CASE Drops
    <3>1. Keeps(0) /\ Issued' = Issued
      BY <1>0, <1>1, <2>1, StayKeeps DEF Drops
    <3>2. QED
      BY <1>0, <1>1, <2>1, <3>1, CarryExec DEF Drops
  <2>2. CASE ~ Drops
    <3>1. PICK e \in IssuedHere : Executed(e)
      BY <1>0, <2>2, ExecComputes
    <3>2. pipe3' = Append(pipe3, e) /\ LiveFetched(InExec) /\ e.ep = wEpoch
      BY <3>1 DEF Executed
    <3>3. /\ Keeps(0) /\ Len(Issued') = Len(Issued) + 1 /\ Issued'[Len(Issued) + 1] = e
      BY <1>0, <1>1, <3>2, GrowKeeps
    <3>4. TrapKept(e, InExec)
      BY <3>1 DEF Executed, TrapKept, Outcome, SystemOp
    <3>5. QED
      BY <1>0, <1>1, <1>2, <1>3, <3>2, <3>3, <3>4, CarryExec
  <2>3. QED
    BY <2>1, <2>2
<1>5. QED
  BY <1>1, <1>2, <1>4 DEF Redirects, ExecControl, Executes, LiveFetched

\* Write back takes away the oldest or squashes everything.
LEMMA CommitCarries ==
  ASSUME Grounds, Grounds', InstructionCommit
  PROVE  \/ /\ NoneKept' /\ wEpoch' # wEpoch /\ (\E target : FlushFromWb(target))
            /\ NoneWaiting' /\ NoneIssued'
         \/ /\ NoFlush /\ UNCHANGED <<rgStall, rgRerun, rgKind, pipe2, wEpoch>>
            /\ WaitingShift(0)
            /\ \/ pipe4' = pipe4 /\ Keeps(0) /\ Carried(0) /\ Issued' = Issued
               \/ pipe4' = <<>> /\ Keeps(1) /\ Carried(1) /\ Len(Issued') = Len(Issued) - 1
<1>0. /\ TypeInv /\ Buffers /\ EpochInv /\ Parts /\ KeptPlaces
      /\ Parts' /\ KeptPlaces' /\ Buffers' /\ DecodeTypeOK'
  BY Given, PTL DEF Grounds
<1>1. CASE NoFlush /\ WaitingShift(0) /\ wEpoch' = wEpoch
  <2>1. UNCHANGED <<rgStall, rgRerun, rgKind, pipe2>>
    BY <1>1 DEF NoFlush, decodeVars
  <2>2. /\ UNCHANGED eEpoch
        /\ \/ pipe4' = pipe4 /\ Keeps(0) /\ Issued' = Issued
           \/ pipe4' = <<>> /\ Keeps(1) /\ Len(Issued') = Len(Issued) - 1
    BY <1>0, <1>1, LeaveKeeps
  <2>3. Len(Issued) - 0 = Len(Issued)
    BY <1>0 DEF KeptPlaces
  <2>4. Keeps(0) /\ Issued' = Issued => Carried(0)
    BY <1>0, <2>1, <2>2, <2>3, CarryBehind
  <2>5. Keeps(1) /\ Len(Issued') = Len(Issued) - 1 => Carried(1)
    BY <1>0, <2>1, <2>2, CarryBehind
  <2>6. QED
    BY <1>1, <2>1, <2>2, <2>4, <2>5
<1>2. CASE NoneWaiting' /\ NoneIssued' /\ wEpoch' = 1 - wEpoch /\ \E target : FlushFromWb(target)
  <2>1. NoneKept'
    BY <1>0, <1>2, SquashedAll, PTL
  <2>2. wEpoch' # wEpoch
    BY <1>0, <1>2 DEF Buffers
  <2>3. QED
    BY <1>2, <2>1, <2>2
<1>3. QED
  BY <1>0, <1>1, <1>2, CommitWaits

\* The other steps carry them on, or take one up.
LEMMA OthersCarry ==
  ASSUME Grounds, Grounds', [Next]_vars, ~ Exec, ~ InstructionCommit
  PROVE  /\ Keeps(0) /\ Len(Issued') = Len(Issued)
         /\ \/ Carried(0) /\ UNCHANGED <<pipe2, eEpoch, wEpoch, rgStall, rgRerun, rgKind>>
            \/ Decode /\ Extends
<1>0. /\ TypeOK /\ Parts /\ KeptPlaces /\ Buffers /\ MultiInv /\ PairInv /\ AccessInv
      /\ Parts' /\ KeptPlaces' /\ TypeOK'
  BY Given, PTL DEF Grounds
<1>1. Len(Issued) - 0 = Len(Issued)
  BY <1>0 DEF KeptPlaces
<1>2. ASSUME Keeps(0), Len(Issued') = Len(Issued), UNCHANGED <<pipe2, eEpoch>>
      PROVE  Carried(0)
  BY <1>0, <1>1, <1>2, CarryBehind
<1>3. UNCHANGED <<pipe3, pipe4, wEpoch>> => Keeps(0) /\ Len(Issued') = Len(Issued)
  BY <1>0, StayKeeps
<1>4. CASE Decode
  <2>1. /\ UNCHANGED <<pipe3, pipe4, eEpoch, wEpoch>> /\ pipe2 = <<>> /\ pipe1 # <<>> /\ ~ rgStall
        /\ DropStale \/ SleepOnWfi(FALSE) \/ Dispatch(FALSE)
    BY <1>4 DEF Decode, DecodeInto, execVars
  <2>2. DropStale \/ SleepOnWfi(FALSE) => UNCHANGED <<pipe2, rgStall, rgRerun, rgKind>>
    BY <2>1 DEF DropStale, SleepOnWfi
  <2>3. QED
    BY <1>2, <1>3, <1>4, <2>1, <2>2 DEF Extends
<1>5. CASE DelayedOutput
  <2>1. UNCHANGED <<pipe2, eEpoch, wEpoch, rgStall, rgRerun, rgKind>>
    BY <1>5 DEF DelayedOutput, decodeVars
  <2>2. QED
    BY <1>0, <1>2, <1>5, <2>1, FinishKeeps
<1>6. CASE CheckInstruction
  <2>1. UNCHANGED <<pipe2, eEpoch, wEpoch, rgStall, rgRerun, rgKind>>
    BY <1>6 DEF CheckInstruction, decodeVars
  <2>2. QED
    BY <1>0, <1>2, <1>6, <2>1, PassKeeps
<1>7. CASE Deliver \/ WaitForInterrupt \/ DmemRespond \/ CsrAnswer \/ ToggleIrq \/ UNCHANGED vars
  <2>1. UNCHANGED <<pipe3, pipe4, pipe2, eEpoch, wEpoch, rgStall, rgRerun, rgKind>>
    BY <1>7 DEF Deliver, WaitForInterrupt, DmemRespond, CsrAnswer, ToggleIrq, vars, decodeVars,
                execVars
  <2>2. QED
    BY <1>2, <1>3, <2>1
<1>8. QED
  BY <1>4, <1>5, <1>6, <1>7 DEF Next

-----------------------------------------------------------------------------
(* Nothing runs behind an instruction that serialises *)

\* Decode remembers the instruction and has taken nothing up behind it.
Remembered(i) ==
  /\ rgRerun /\ rgKind = RerunKind(Prog[Decoded[i].pc].op)
  /\ \A j \in 1..Len(Decoded) : j > i => ~ IsKept(j)

\* Or it has taken up the trap that fetches again, and stalls.
Refetched(i) ==
  /\ rgStall
  /\ \A j \in 1..Len(Decoded) : j > i /\ IsKept(j) =>
       j = i + 1 /\ IsRefetchFor(Decoded[j], Decoded[i].pc)

SyncInv == \A i \in 1..Len(Decoded) : Serialises(i) => Remembered(i) \/ Refetched(i)

LEMMA SyncCarried ==
  ASSUME KeptPlaces, KeptPlaces', SyncInv, NEW s \in {0, 1}, Carried(s),
         UNCHANGED <<rgStall, rgRerun, rgKind>>
  PROVE  SyncInv'
<1> SUFFICES ASSUME NEW i \in 1..Len(Decoded'), Serialises(i)'
             PROVE  Remembered(i)' \/ Refetched(i)'
  BY DEF SyncInv
<1>1. Len(Decoded) \in Nat /\ Len(Decoded') \in Nat
  BY DEF KeptPlaces
<1>2. ASSUME NEW j \in 1..Len(Decoded'), IsKept(j)'
      PROVE  j + s \in 1..Len(Decoded) /\ IsKept(j + s) /\ TrapKept(Decoded'[j], Decoded[j + s])
  BY <1>2 DEF Carried
<1>3. i + s \in 1..Len(Decoded) /\ Serialises(i + s) /\ Decoded'[i].pc = Decoded[i + s].pc
  BY <1>2 DEF Serialises, TrapKept
<1>4. CASE Remembered(i + s)
  <2>1. ASSUME NEW j \in 1..Len(Decoded'), j > i, IsKept(j)' PROVE FALSE
    <3>1. j + s > i + s /\ j + s \in 1..Len(Decoded) /\ IsKept(j + s)
      BY <1>1, <1>2, <2>1
    <3>2. QED
      BY <1>4, <3>1 DEF Remembered
  <2>2. QED
    BY <1>3, <1>4, <2>1 DEF Remembered
<1>5. CASE Refetched(i + s)
  <2>1. ASSUME NEW j \in 1..Len(Decoded'), j > i, IsKept(j)'
        PROVE  j = i + 1 /\ IsRefetchFor(Decoded'[j], Decoded'[i].pc)
    <3>1. j + s > i + s /\ j + s \in 1..Len(Decoded) /\ IsKept(j + s)
      BY <1>1, <1>2, <2>1
    <3>2. j + s = (i + s) + 1 /\ IsRefetchFor(Decoded[j + s], Decoded[i + s].pc)
      BY <1>5, <3>1 DEF Refetched
    <3>3. j = i + 1
      BY <1>1, <3>2
    <3>4. IsRefetchFor(Decoded'[j], Decoded[i + s].pc)
      BY <1>2, <2>1, <3>2 DEF IsRefetchFor, TrapKept
    <3>5. QED
      BY <1>3, <3>3, <3>4
  <2>2. QED
    BY <1>5, <2>1 DEF Refetched
<1>6. QED
  BY <1>3, <1>4, <1>5 DEF SyncInv

\* Where the entry decode takes up is, and what it is.
LEMMA ExtendsWith ==
  ASSUME Grounds, Grounds', Extends
  PROVE  LET n == Len(Issued)
             p == Head(pipe1).pc
         IN  /\ n \in Nat /\ Len(Decoded) = n /\ Len(Decoded') = n + 1 /\ Len(Issued') = n
             /\ \A i \in 1..n : Decoded'[i] = Decoded[i] /\ (IsKept(i)' <=> IsKept(i))
             /\ Decoded'[n + 1].pc = p /\ Decoded'[n + 1].type = DecodedType(p)
             /\ DecodedType(p) = "TRAP" => Decoded'[n + 1].cause = DecodedCause(p)
             /\ p \in Addr /\ IsKept(n + 1)'
             /\ Issued' = Issued /\ pipe2' # <<>> /\ InExec' = Decoded'[n + 1]
<1> DEFINE n == Len(Issued)
           h == Head(pipe1)
           p == h.pc
<1>0. TypeOK /\ Parts /\ KeptPlaces /\ Parts' /\ KeptPlaces'
  BY Given, PTL
<1>1. /\ pipe2 = <<>> /\ pipe1 # <<>> /\ Issued' = Issued /\ n \in Nat /\ Epochs' = Epochs
      /\ UNCHANGED wEpoch
  BY <1>0 DEF Extends, Issued, KeptPlaces, Epochs
<1>2. PICK d : /\ pipe2' = <<d>> /\ d.pc = p /\ d.ep = h.ep /\ d.type = DecodedType(p)
               /\ DecodedType(p) = "TRAP" => d.cause = DecodedCause(p)
  BY DEF Extends, Dispatch
<1>3. pipe2' # <<>> /\ InExec' = d /\ d.ep = Epochs' /\ p \in Addr
  <2>1. h.ep = Epochs /\ h \in FetchedEntry
    BY <1>0, <1>1, Heads DEF Extends, Dispatch
  <2>2. QED
    BY <1>1, <1>2, <2>1 DEF InExec, FetchedEntry
<1>4. Len(Decoded) = n /\ Len(Decoded') = n + 1
  <2>1. Len(pipe2) = 0 /\ Len(pipe2') = 1
    BY <1>0, <1>1, <1>3 DEF Parts, WaitingParts
  <2>2. Len(Decoded) = n + 0 /\ Len(Decoded') = n + 1
    BY <1>0, <1>1, <2>1 DEF Parts, DecodedParts
  <2>3. QED
    BY <1>1, <2>2
<1>5. \A i \in 1..n : Decoded'[i] = Decoded[i] /\ (IsKept(i)' <=> IsKept(i))
  BY <1>0, <1>1 DEF KeptPlaces, LiveIssued
<1>6. Decoded'[n + 1] = d
  BY <1>0, <1>1, <1>3 DEF KeptPlaces
<1>7. ASSUME NEW i, i = n + 1 PROVE IsKept(i)'
  <2>1. IsKept(i)' <=> LiveFetched(InExec)'
    BY <1>0, <1>1, <1>3, <1>7 DEF KeptPlaces
  <2>2. QED
    BY <1>3, <2>1 DEF LiveFetched
<1>8. IsKept(n + 1)'
  <2>1. n' = n
    BY <1>1
  <2>2. QED
    BY <1>7, <2>1
<1>9. QED
  BY <1>1, <1>2, <1>3, <1>4, <1>5, <1>6, <1>8

LEMMA SyncExtends ==
  ASSUME Grounds, Grounds', SyncInv, Extends
  PROVE  SyncInv'
<1> DEFINE n == Len(Issued)
           p == Head(pipe1).pc
<1>0. KeptPlaces /\ Buffers /\ EpochInv
  BY Given DEF Grounds
<1>1. /\ n \in Nat /\ Len(Decoded) = n /\ Len(Decoded') = n + 1
      /\ \A i \in 1..n : Decoded'[i] = Decoded[i] /\ (IsKept(i)' <=> IsKept(i))
      /\ Decoded'[n + 1].pc = p /\ Decoded'[n + 1].type = DecodedType(p)
      /\ DecodedType(p) = "TRAP" => Decoded'[n + 1].cause = DecodedCause(p)
  BY ExtendsWith
<1>2. /\ rgStall = FALSE
      /\ rgRerun' = RerunNext(p)
      /\ rgKind' = IF DecodedType(p) = "TRAP" THEN "Rerun" ELSE RerunKind(DecodedType(p))
      /\ rgStall' = (DecodedType(p) = "TRAP")
  <2>1. rgStall \in BOOLEAN
    BY Given DEF DecodeTypeOK
  <2>2. QED
    BY <2>1 DEF Extends, Dispatch, RerunNext
<1> SUFFICES ASSUME NEW i \in 1..(n + 1), Serialises(i)'
             PROVE  Remembered(i)' \/ Refetched(i)'
  BY <1>1 DEF SyncInv
<1>3. CASE i \in 1..n
  <2>1. Serialises(i) /\ LiveIssued(Issued[i])
    BY <1>0, <1>1, <1>3 DEF Serialises, KeptPlaces
  <2>2. Remembered(i)
    BY <1>1, <1>2, <1>3, <2>1 DEF SyncInv, Refetched
  <2>3. i = n
    <3>1. LiveIssued(Issued[n])
      <4>1. n \in i..n
        BY <1>1, <1>3
      <4>2. QED
        BY <1>0, <1>3, <2>1, <4>1, OrderFollows DEF EpochOrder
    <3>2. n \in 1..n /\ IsKept(n)
      BY <1>0, <1>1, <1>3, <3>1 DEF KeptPlaces
    <3>3. ~ (n > i)
      BY <1>1, <2>2, <3>2 DEF Remembered
    <3>4. QED
      BY <1>1, <1>3, <3>3
  <2>4. DecodedType(p) = "TRAP" /\ DecodedCause(p) = RerunKind(Prog[Decoded[i].pc].op)
    BY <2>2 DEF Remembered, DecodedType, DecodedCause
  <2>5. rgStall'
    BY <1>2, <2>4
  <2>6. \A j \in 1..(n + 1) : j > i => j = i + 1 /\ j = n + 1
    BY <1>1, <2>3
  <2>7. IsRefetchFor(Decoded'[n + 1], Decoded'[i].pc)
    BY <1>1, <1>3, <2>4 DEF IsRefetchFor
  <2>8. QED
    BY <1>1, <2>5, <2>6, <2>7 DEF Refetched
<1>4. CASE i = n + 1
  <2>1. DecodedType(p) # "TRAP" /\ Prog[p].op \in SyncOp
    BY <1>1, <1>4 DEF Serialises
  <2>2. ~ rgRerun /\ DecodedType(p) = Prog[p].op
    BY <2>1 DEF DecodedType
  <2>3. rgRerun' /\ rgKind' = RerunKind(Prog[p].op)
    BY <1>2, <2>1, <2>2 DEF RerunNext
  <2>4. \A j \in 1..(n + 1) : ~ (j > i)
    BY <1>1, <1>4
  <2>5. QED
    BY <1>1, <1>4, <2>3, <2>4 DEF Remembered
<1>5. QED
  BY <1>1, <1>3, <1>4

\* A control instruction is not behind one that serialises.
LEMMA SyncRedirects ==
  ASSUME Grounds, KeptPlaces', SyncInv, Redirects
  PROVE  \A i \in 1..Len(Decoded') : ~ Serialises(i)'
<1> SUFFICES ASSUME NEW i \in 1..Len(Decoded'), Serialises(i)' PROVE FALSE
  OBVIOUS
<1> DEFINE n == Len(Issued)
<1>0. /\ KeptPlaces /\ DecodedKind /\ pipe2 # <<>> /\ InExec.type \in ControlOp
      /\ LiveFetched(InExec)
  BY Given DEF Grounds, Redirects
<1>1. i + 0 = i
  BY DEF KeptPlaces
<1>2. i \in 1..Len(Decoded) /\ IsKept(i) /\ TrapKept(Decoded'[i], Decoded[i])
  BY <1>1 DEF Redirects, Carried, Serialises
<1>3. Serialises(i)
  BY <1>2 DEF Serialises, TrapKept
<1>4. n + 1 \in 1..Len(Decoded) /\ Decoded[n + 1] = InExec /\ IsKept(n + 1) /\ n \in Nat
  BY <1>0 DEF KeptPlaces
<1>5. InExec.type # "TRAP" /\ Prog[InExec.pc].op \notin SyncOp
  BY <1>0 DEF DecodedKind, ControlOp, SyncOp, SystemOp, FenceOp
<1>6. i # n + 1
  BY <1>3, <1>4, <1>5 DEF Serialises
<1>7. n + 1 > i
  BY <1>0, <1>2, <1>4, <1>6 DEF KeptPlaces
<1>8. Decoded[n + 1].type = "TRAP"
  BY <1>2, <1>3, <1>4, <1>7 DEF SyncInv, Remembered, Refetched, IsRefetchFor
<1>9. QED
  BY <1>4, <1>5, <1>8

LEMMA SyncStep == ASSUME Grounds, Grounds', SyncInv, [Next]_vars PROVE SyncInv'
<1>0. KeptPlaces /\ KeptPlaces'
  BY Given, PTL
<1>1. ASSUME \A i \in 1..Len(Decoded') : ~ Serialises(i)' PROVE SyncInv'
  BY <1>1 DEF SyncInv
<1>2. ASSUME NEW s \in {0, 1}, Carried(s), UNCHANGED <<rgStall, rgRerun, rgKind>>
      PROVE  SyncInv'
  BY <1>0, <1>2, SyncCarried
<1>3. CASE Exec
  BY <1>0, <1>1, <1>2, <1>3, ExecCarries, SyncRedirects
<1>4. CASE InstructionCommit
  <2>1. NoneKept' => \A i \in 1..Len(Decoded') : ~ Serialises(i)'
    BY DEF NoneKept, Serialises
  <2>2. QED
    BY <1>1, <1>2, <1>4, <2>1, CommitCarries
<1>5. CASE ~ Exec /\ ~ InstructionCommit
  BY <1>2, <1>5, OthersCarry, SyncExtends
<1>6. QED
  BY <1>3, <1>4, <1>5

\* What waits behind an instruction that serialises.
THEOREM SyncInvariance == Spec => []SyncInv
<1>1. Init /\ Grounds => SyncInv
  <2> SUFFICES ASSUME Init, Grounds PROVE SyncInv
    OBVIOUS
  <2>1. Len(Issued) = 0 /\ pipe2 = <<>>
    BY Joined, EmptySeq DEF Grounds, Init
  <2>2. QED
    BY <2>1, Given DEF SyncInv, KeptPlaces
<1>2. Grounds /\ Grounds' /\ SyncInv /\ [Next]_vars => SyncInv'
  BY SyncStep
<1>3. QED
  BY <1>1, <1>2, GroundsInvariance, PTL DEF Spec

\* Nothing is executed behind an instruction that may change the CSRs, the
\* translation or the code, but the trap that fetches again what follows it.
THEOREM SyncBarrierCorrect == Spec => []SyncBarrier
<1>1. SyncInv /\ KeptPlaces => SyncBarrier
  BY DEF SyncInv, SyncBarrier, Remembered, Refetched, KeptPlaces
<1>2. QED
  BY <1>1, SyncInvariance, GroundsInvariance, Given, PTL

-----------------------------------------------------------------------------
(* The operand registers *)

\* The operands waiting in front of execute are what the register file holds.
OperandInv ==
  /\ rf[0] = 0
  /\ rgOp1.data = rf[rgOp1.addr] /\ rgOp2.data = rf[rgOp2.addr]
  /\ pipe2 # <<>> /\ InExec.type # "TRAP" =>
       rgOp1.addr = Prog[InExec.pc].rs1 /\ rgOp2.addr = Prog[InExec.pc].rs2

\* What write back does to the register file and to the history.
LEMMA CommitWrites ==
  ASSUME TypeInv, InstructionCommit
  PROVE  \/ (\E target : FlushFromWb(target)) /\ rf' = rf
         \/ /\ NoFlush /\ UNCHANGED <<opVars, rf, archVars>>
            /\ pipe4' = pipe4 \/ ~ LiveIssued(InWb)
         \/ /\ NoFlush /\ LiveIssued(InWb) /\ InWb.type \in {"STORE", "REG", "CSR"}
            /\ pipe4' = <<>> /\ Retire(InWb.pc)
            /\ \E v \in Data : /\ CommitRd(InWb.rd, v)
                               /\ InWb.type # "CSR" => v = InWb.val
<1>0. TypeOK /\ pipe4 # <<>> /\ InWb \in IssuedEntry(PassedType)
  BY CommitEffects, Heads DEF TypeInv
<1>1. InWb.val \in Data
  BY <1>0 DEF IssuedEntry
<1>2. CASE CommitRerun \/ CommitTrap \/ UncachedError \/ CommitXret
  BY <1>2 DEF CommitRerun, CommitTrap, UncachedError, CommitXret, TrapTo
<1>3. CASE InitiateUncached \/ CsrRequest
  BY <1>3 DEF InitiateUncached, CsrRequest
<1>4. CASE DropInstruction
  BY <1>4 DEF DropInstruction, LiveIssued
<1>5. CASE CommitStore \/ UncachedDone \/ CommitReg
  <2>1. /\ InWb.type \in {"STORE", "REG"} /\ LiveIssued(InWb) /\ pipe4' = <<>>
        /\ CommitRd(InWb.rd, InWb.val) /\ Retire(InWb.pc) /\ NoFlush
    BY <1>5 DEF CommitStore, UncachedDone, CommitReg, Commits, LiveIssued
  <2>2. QED
    BY <1>1, <2>1
<1>6. CASE CommitCsr
  <2>1. /\ InWb.type = "CSR" /\ LiveIssued(InWb) /\ pipe4' = <<>>
        /\ CommitRd(InWb.rd, Head(csrResp)) /\ Retire(InWb.pc) /\ NoFlush /\ csrResp # <<>>
    BY <1>6 DEF CommitCsr, Commits, LiveIssued
  <2>2. Head(csrResp) \in Data
    BY <1>0, <2>1, Heads
  <2>3. QED
    BY <2>1, <2>2
<1>7. QED
  BY <1>2, <1>3, <1>4, <1>5, <1>6 DEF InstructionCommit

LEMMA OperandsDecoded ==
  ASSUME TypeOK, OperandInv, NEW flush, DecodeInto(flush), rf' = rf
  PROVE  OperandInv'
<1> DEFINE p == Head(pipe1).pc
<1>1. CASE pipe2' = <<>> /\ UNCHANGED opVars
  BY <1>1 DEF OperandInv, opVars
<1>2. CASE Dispatch(flush)
  <2>1. PICK d : pipe2' = <<d>> /\ d.pc = p /\ d.type = DecodedType(p)
    BY <1>2 DEF Dispatch
  <2>2. InExec' = d
    BY <2>1 DEF InExec
  <2>3. rgOp1' = Operand(p, Prog[p].rs1) /\ rgOp2' = Operand(p, Prog[p].rs2)
    BY <1>2 DEF Dispatch
  <2>4. \A r : /\ Operand(p, r).data = rf[Operand(p, r).addr]
               /\ DecodedType(p) # "TRAP" => Operand(p, r).addr = r
    BY DEF Operand, OperandInv
  <2>5. QED
    BY <2>1, <2>2, <2>3, <2>4 DEF OperandInv
<1>3. QED
  BY <1>1, <1>2 DEF DecodeInto, DropStale, SleepOnWfi

LEMMA OperandsRedirected ==
  ASSUME TypeOK, OperandInv, NEW target, NEW after, after = <<>> \/ after = pipe2,
         Redirect(target, after), rf' = rf
  PROVE  OperandInv'
<1>1. CASE ClearStall /\ pipe2' = after
  BY <1>1 DEF ClearStall, opVars, OperandInv, InExec
<1>2. CASE DecodeInto(TRUE)
  BY <1>2, OperandsDecoded
<1>3. QED
  BY <1>1, <1>2 DEF Redirect

\* A commit reaches the operands read before it.
LEMMA OperandsUpdated ==
  ASSUME TypeOK, OperandInv, NEW r \in Reg, NEW v \in Data, CommitRd(r, v), pipe2' = pipe2
  PROVE  OperandInv'
<1>1. rf \in [Reg -> Data] /\ rgOp1 \in Operands /\ rgOp2 \in Operands /\ 0 \in Reg
  BY ProgramAssumption DEF TypeOK, ArchTypeOK, OperandTypeOK
<1>2. ASSUME NEW op \in Operands, op.data = rf[op.addr]
      PROVE  Updated(op, r, v).addr = op.addr /\ Updated(op, r, v).data = rf'[op.addr]
  BY <1>1, <1>2 DEF Updated, Operands, CommitRd
<1>3. rf'[0] = 0
  BY <1>1 DEF CommitRd, OperandInv
<1>4. rgOp1' = Updated(rgOp1, r, v) /\ rgOp2' = Updated(rgOp2, r, v) /\ InExec' = InExec
  BY DEF CommitRd, InExec
<1>5. QED
  BY <1>1, <1>2, <1>3, <1>4 DEF OperandInv

LEMMA OperandStep ==
  ASSUME TypeInv, OperandInv, [Next]_vars
  PROVE  OperandInv'
<1>0. TypeOK
  BY DEF TypeInv
<1>1. ASSUME UNCHANGED <<opVars, rf>>, pipe2' = pipe2 \/ pipe2' = <<>> PROVE OperandInv'
  BY <1>1 DEF OperandInv, opVars, InExec
<1>2. CASE Decode
  BY <1>0, <1>2, OperandsDecoded DEF Decode
<1>3. CASE Exec
  <2>1. rf' = rf /\ ((UNCHANGED opVars /\ pipe2' = <<>>) \/ \E target : Redirect(target, <<>>))
    BY <1>3 DEF Exec, ExecDrop, ExecTrap, ExecAlu, ExecMulti, ExecSystem, ExecMisaligned,
                ExecAccess, ExecFence, ExecLoadReserved, ExecStoreConditional, ExecControl,
                Request, NoRedirect, ExecFrame
  <2>2. QED
    BY <1>0, <1>1, <2>1, OperandsRedirected
<1>4. CASE InstructionCommit
  <2>1. CASE (\E target : FlushFromWb(target)) /\ rf' = rf
    BY <1>0, <2>1, OperandsRedirected DEF FlushFromWb
  <2>2. CASE NoFlush /\ UNCHANGED <<opVars, rf, archVars>>
    BY <1>1, <2>2 DEF NoFlush, decodeVars
  <2>3. CASE NoFlush /\ \E v \in Data : CommitRd(InWb.rd, v)
    <3>1. InWb.rd \in Reg
      BY <1>0, <1>4, CommitEffects, Heads DEF IssuedEntry
    <3>2. QED
      BY <1>0, <2>3, <3>1, OperandsUpdated DEF NoFlush, decodeVars
  <2>4. QED
    BY <1>4, <2>1, <2>2, <2>3, CommitWrites
<1>5. CASE Deliver \/ WaitForInterrupt \/ DelayedOutput \/ DmemRespond \/ CheckInstruction
             \/ CsrAnswer \/ ToggleIrq \/ UNCHANGED vars
  <2>1. UNCHANGED <<opVars, rf, pipe2>>
    BY <1>5 DEF Deliver, WaitForInterrupt, DelayedOutput, DmemRespond, CheckInstruction, CsrAnswer,
                ToggleIrq, vars, decodeVars
  <2>2. QED
    BY <1>1, <2>1
<1>6. QED
  BY <1>2, <1>3, <1>4, <1>5 DEF Next

\* The operand registers follow the register file.
THEOREM OperandInvariance == Spec => []OperandInv
<1>1. Init => OperandInv
  BY ProgramAssumption DEF Init, OperandInv
<1>2. TypeInv /\ OperandInv /\ [Next]_vars => OperandInv'
  BY OperandStep
<1>3. QED
  BY <1>1, <1>2, TypeInvariance, PTL DEF Spec

-----------------------------------------------------------------------------
(* What a register holds for the i-th instruction past execution *)

Writes(k, r) ==
  LiveIssued(Issued[k]) /\ Issued[k].rd = r /\ r # 0 /\ Issued[k].type # "TRAP"

\* v is what r holds once those before the i-th have committed, and it is known.
Holds(r, i, v) ==
  \/ v = rf[r] /\ \A k \in 1..Len(Issued) : k < i => ~ Writes(k, r)
  \/ \E k \in 1..Len(Issued) :
       /\ k < i /\ Writes(k, r) /\ Settled(k) /\ v = Issued[k].val
       /\ \A l \in 1..Len(Issued) : k < l /\ l < i => ~ Writes(l, r)

\* What the s oldest instructions do to the register file when they leave.
WritesBack(s) ==
  \/ s = 0 /\ rf' = rf
  \/ s = 1 /\ ~ LiveIssued(Issued[1]) /\ rf' = rf
  \/ /\ s = 1 /\ LiveIssued(Issued[1]) /\ Issued[1].type # "TRAP"
     /\ \E v \in Data : /\ rf' = IF Issued[1].rd = 0 THEN rf ELSE [rf EXCEPT ![Issued[1].rd] = v]
                        /\ Settled(1) => v = Issued[1].val

\* Every step, on the instructions past execution: all are squashed; the oldest
\* leaves or none; or one is added.
IssuedStep ==
  \/ NoneIssued' /\ NoneKept' /\ wEpoch' # wEpoch /\ InstructionCommit
  \/ \E s \in {0, 1} : Keeps(s) /\ WritesBack(s) /\ Len(Issued') = Len(Issued) - s
  \/ /\ Exec /\ Keeps(0) /\ rf' = rf /\ Len(Issued') = Len(Issued) + 1
     /\ \E e \in IssuedHere : Executed(e) /\ Issued'[Len(Issued) + 1] = e

LEMMA IssuedSteps == ASSUME Grounds, Grounds', [Next]_vars PROVE IssuedStep
<1>0. /\ TypeOK /\ TypeInv /\ Parts /\ Parts' /\ KeptPlaces /\ Buffers /\ DecodedKind
  BY Given, PTL DEF Grounds
<1>1. Len(Issued) \in Nat /\ Len(Issued) - 0 = Len(Issued)
  BY <1>0 DEF KeptPlaces
<1>2. ASSUME Keeps(0), rf' = rf, Len(Issued') = Len(Issued) PROVE IssuedStep
  BY <1>1, <1>2 DEF IssuedStep, WritesBack
<1>3. CASE Exec
  <2>1. UNCHANGED <<wEpoch, pipe4>> /\ rf' = rf
    <3>1. UNCHANGED <<wEpoch, pipe4>>
      BY <1>0, <1>3, ExecIssues
    <3>2. rf' = rf
      BY <1>3
         DEF Exec, ExecDrop, ExecTrap, ExecAlu, ExecMulti, ExecSystem, ExecMisaligned,
             ExecAccess, ExecFence, ExecLoadReserved, ExecStoreConditional, ExecControl,
             Request, ExecFrame
    <3>3. QED
      BY <3>1, <3>2
  <2>2. CASE Drops
    BY <1>0, <1>2, <2>1, <2>2, StayKeeps DEF Drops
  <2>3. CASE ~ Drops
    <3>1. PICK e \in IssuedHere : Executed(e)
      BY <1>0, <1>3, <2>3, ExecComputes
    <3>2. /\ Keeps(0) /\ Len(Issued') = Len(Issued) + 1 /\ Issued'[Len(Issued) + 1] = e
      BY <1>0, <2>1, <3>1, GrowKeeps DEF Executed
    <3>3. QED
      BY <1>3, <2>1, <3>1, <3>2 DEF IssuedStep
  <2>4. QED
    BY <2>2, <2>3
<1>4. CASE InstructionCommit
  <2>1. pipe4 # <<>> => Issued[1] = InWb /\ Len(pipe4) = 1
    BY <1>0 DEF Parts, IssuedParts
  <2>2. CASE NoneKept' /\ NoneIssued' /\ wEpoch' # wEpoch
    BY <1>4, <2>2 DEF IssuedStep
  <2>3. CASE pipe4' = pipe4 /\ Keeps(0) /\ Issued' = Issued /\ NoFlush
    <3>1. pipe4 # <<>>
      BY <1>0, <1>4, CommitEffects
    <3>2. rf' = rf
      <4>1. ~ \E target : FlushFromWb(target)
        BY <1>0, <2>3 DEF NoFlush, FlushFromWb, Buffers
      <4>2. QED
        BY <1>0, <1>4, <2>3, <3>1, <4>1, CommitWrites
    <3>3. QED
      BY <1>2, <2>3, <3>2
  <2>4. CASE pipe4' = <<>> /\ Keeps(1) /\ Len(Issued') = Len(Issued) - 1 /\ NoFlush
    <3>1. pipe4 # <<>>
      BY <1>0, <1>4, CommitEffects
    <3>2. ~ \E target : FlushFromWb(target)
      BY <1>0, <2>4 DEF NoFlush, FlushFromWb, Buffers
    <3>3. WritesBack(1)
      <4>1. CASE UNCHANGED rf /\ ~ LiveIssued(InWb)
        BY <2>1, <3>1, <4>1 DEF WritesBack
      <4>2. CASE /\ LiveIssued(InWb) /\ InWb.type \in {"STORE", "REG", "CSR"}
                 /\ \E v \in Data : CommitRd(InWb.rd, v) /\ (InWb.type # "CSR" => v = InWb.val)
        <5>1. Settled(1) => InWb.type # "CSR"
          BY <2>1, <3>1 DEF Settled
        <5>2. QED
          BY <2>1, <3>1, <4>2, <5>1 DEF WritesBack, CommitRd
      <4>3. QED
        BY <1>0, <1>4, <2>4, <3>1, <3>2, <4>1, <4>2, CommitWrites
    <3>4. QED
      BY <2>4, <3>3 DEF IssuedStep
  <2>5. QED
    BY <1>4, <2>2, <2>3, <2>4, CommitCarries
<1>5. CASE ~ Exec /\ ~ InstructionCommit
  <2>1. Keeps(0) /\ Len(Issued') = Len(Issued)
    BY <1>5, OthersCarry
  <2>2. rf' = rf
    BY <1>5 DEF Next, Deliver, Decode, WaitForInterrupt, DelayedOutput, DmemRespond,
                CheckInstruction, CsrAnswer, ToggleIrq, vars
  <2>3. QED
    BY <1>2, <2>1, <2>2
<1>6. QED
  BY <1>3, <1>4, <1>5

\* What an instruction has read stays what it is to read.
LEMMA HoldsKept ==
  ASSUME TypeOK, Parts, Parts', NEW s \in {0, 1}, Keeps(s), WritesBack(s),
         NEW r \in Reg, NEW v, NEW i \in Nat, s < i, i <= Len(Issued) + 1, Holds(r, i, v)
  PROVE  Holds(r, i - s, v)'
<1> DEFINE n == Len(Issued)
<1>0. /\ n \in Nat /\ Len(Issued') \in Nat /\ Len(Issued') >= n - s /\ rf \in [Reg -> Data]
      /\ \A k \in 1..n : Issued[k] \in IssuedHere
  BY DEF Parts, IssuedParts, Keeps, TypeOK, ArchTypeOK
<1>1. \A k \in 1..(n - s) : /\ Became(Issued'[k], Issued[k + s])
                            /\ Settled(k + s) => Settled(k)' /\ Issued'[k].val = Issued[k + s].val
  BY DEF Keeps
<1>2. \A k \in 1..(n - s) : Writes(k, r)' => Writes(k + s, r)
  BY <1>1 DEF Became, Writes, LiveIssued, Keeps, MemType
<1>3. \A k \in 1..(n - s) : Writes(k + s, r) /\ Settled(k + s) => Writes(k, r)'
  BY <1>1 DEF Became, Writes, LiveIssued, Keeps, MemType, Settled
<1>4. ASSUME NEW k \in 1..Len(Issued'), k < i - s
      PROVE  k \in 1..(n - s) /\ k + s \in 1..n /\ k + s < i
  BY <1>0, <1>4
<1>5. CASE v = rf[r] /\ \A k \in 1..n : k < i => ~ Writes(k, r)
  <2>1. \A k \in 1..Len(Issued') : k < i - s => ~ Writes(k, r)'
    BY <1>2, <1>4, <1>5
  <2>2. rf'[r] = rf[r]
    <3>1. CASE s = 1 /\ LiveIssued(Issued[1]) /\ r = Issued[1].rd /\ r # 0
      <4>1. 1 \in 1..n /\ 1 < i
        BY <1>0, <3>1
      <4>2. Issued[1].type = "TRAP"
        BY <1>5, <3>1, <4>1 DEF Writes
      <4>3. QED
        BY <3>1, <4>2 DEF WritesBack
    <3>2. QED
      BY <1>0, <3>1 DEF WritesBack
  <2>3. QED
    BY <1>5, <2>1, <2>2 DEF Holds
<1>6. CASE \E k \in 1..n :
             /\ k < i /\ Writes(k, r) /\ Settled(k) /\ v = Issued[k].val
             /\ \A l \in 1..n : k < l /\ l < i => ~ Writes(l, r)
  <2>1. PICK k \in 1..n :
             /\ k < i /\ Writes(k, r) /\ Settled(k) /\ v = Issued[k].val
             /\ \A l \in 1..n : k < l /\ l < i => ~ Writes(l, r)
    BY <1>6
  <2>2. CASE k > s
    <3>1. k - s \in 1..(n - s) /\ (k - s) + s = k /\ k - s < i - s /\ k - s \in 1..Len(Issued')
      BY <1>0, <2>1, <2>2
    <3>2. ASSUME NEW l \in 1..Len(Issued'), k - s < l, l < i - s PROVE ~ Writes(l, r)'
      <4>1. l \in 1..(n - s) /\ l + s \in 1..n /\ l + s < i /\ k < l + s
        BY <1>0, <1>4, <3>2
      <4>2. QED
        BY <1>2, <2>1, <4>1
    <3>3. Writes(k - s, r)' /\ Settled(k - s)' /\ v = Issued'[k - s].val
      BY <1>1, <1>3, <2>1, <3>1
    <3>4. QED
      BY <3>1, <3>2, <3>3 DEF Holds
  <2>3. CASE ~ (k > s)
    <3>1. s = 1 /\ k = 1
      BY <2>3
    <3>2. ASSUME NEW l \in 1..Len(Issued'), l < i - s PROVE ~ Writes(l, r)'
      <4>1. l \in 1..(n - s) /\ l + s \in 1..n /\ l + s < i /\ k < l + s
        BY <1>0, <1>4, <3>1, <3>2
      <4>2. QED
        BY <1>2, <2>1, <4>1
    <3>3. v = rf'[r]
      BY <1>0, <2>1, <3>1 DEF WritesBack, Writes
    <3>4. QED
      BY <3>2, <3>3 DEF Holds
  <2>4. QED
    BY <2>2, <2>3
<1>7. QED
  BY <1>5, <1>6 DEF Holds

-----------------------------------------------------------------------------
(* The bypass network finds the operands *)

\* An instruction past execution has the destination of its program, and a
\* system instruction is one there.
EntryInv ==
  \A i \in 1..Len(Issued) : LiveIssued(Issued[i]) =>
    /\ Issued[i].rd = Prog[Issued[i].pc].rd
    /\ Issued[i].type \in SystemOp => Prog[Issued[i].pc].op = Issued[i].type

LEMMA EntryStep == ASSUME Grounds, Grounds', EntryInv, [Next]_vars PROVE EntryInv'
<1>0. KeptPlaces /\ Len(Issued) \in Nat
  BY Given DEF KeptPlaces
<1>1. CASE NoneIssued'
  BY <1>1 DEF NoneIssued, EntryInv, LiveIssued
<1>2. ASSUME NEW s \in {0, 1}, Keeps(s), NEW k \in 1..(Len(Issued) - s), LiveIssued(Issued[k])'
      PROVE  /\ Issued'[k].rd = Prog[Issued'[k].pc].rd
             /\ Issued'[k].type \in SystemOp => Prog[Issued'[k].pc].op = Issued'[k].type
  <2>1. k + s \in 1..Len(Issued) /\ Became(Issued'[k], Issued[k + s]) /\ wEpoch' = wEpoch
    BY <1>0, <1>2 DEF Keeps
  <2>2. LiveIssued(Issued[k + s])
    BY <1>2, <2>1 DEF LiveIssued, Became
  <2>3. QED
    BY <2>1, <2>2 DEF EntryInv, Became, SystemOp
<1>3. CASE \E s \in {0, 1} : Keeps(s) /\ Len(Issued') = Len(Issued) - s
  BY <1>2, <1>3 DEF EntryInv
<1>4. CASE /\ Keeps(0) /\ Len(Issued') = Len(Issued) + 1
           /\ \E e \in IssuedHere : Executed(e) /\ Issued'[Len(Issued) + 1] = e
  <2>1. PICK e \in IssuedHere : Executed(e) /\ Issued'[Len(Issued) + 1] = e
    BY <1>4
  <2>2. e.rd = Prog[e.pc].rd /\ (e.type \in SystemOp => Prog[e.pc].op = e.type)
    BY <2>1 DEF Executed, Outcome, SystemOp
  <2>3. \A i \in 1..(Len(Issued) + 1) : i \in 1..(Len(Issued) - 0) \/ i = Len(Issued) + 1
    BY <1>0
  <2>4. QED
    BY <1>2, <1>4, <2>1, <2>2, <2>3 DEF EntryInv
<1>5. QED
  BY <1>1, <1>3, <1>4, IssuedSteps DEF IssuedStep

THEOREM EntryInvariance == Spec => []EntryInv
<1>1. Init /\ Grounds => EntryInv
  BY Joined, EmptySeq DEF Init, Grounds, EntryInv
<1>2. Grounds /\ Grounds' /\ EntryInv /\ [Next]_vars => EntryInv'
  BY EntryStep
<1>3. QED
  BY <1>1, <1>2, GroundsInvariance, PTL DEF Spec

\* What the network gives for an operand, when it says the operand is there.
Network(op) == ForwardData(op, ForwardFromExe1, ForwardFromMem1)

\* An instruction in pipe4 that is not offered is no writer.
LEMMA OldestOffered ==
  ASSUME Grounds, SyncInv, EntryInv, pipe2 # <<>>, LiveFetched(InExec), InExec.type # "TRAP",
         pipe4 # <<>>, NEW r, Writes(1, r)
  PROVE  InWb.type \in {"REG", "STORE"}
<1> DEFINE n == Len(Issued)
<1>0. TypeOK /\ Parts /\ KeptPlaces
  BY Given
<1>1. Issued[1] = InWb /\ n \in Nat /\ n >= 1 /\ 1 \in 1..n
  BY <1>0 DEF Parts, IssuedParts
<1>2. InWb.type \in PassedType /\ InWb.type # "TRAP" /\ LiveIssued(InWb)
  BY <1>0, <1>1, Heads DEF Writes, IssuedEntry
<1>3. ASSUME InWb.type \in SystemOp PROVE FALSE
  <2>1. Prog[InWb.pc].op \in SyncOp
    BY <1>1, <1>2, <1>3 DEF EntryInv, SyncOp
  <2>2. 1 \in 1..Len(Decoded) /\ Decoded[1] = InWb /\ IsKept(1)
    BY <1>0, <1>1, <1>2 DEF KeptPlaces
  <2>3. Serialises(1)
    BY <1>2, <2>1, <2>2 DEF Serialises
  <2>4. n + 1 \in 1..Len(Decoded) /\ IsKept(n + 1) /\ Decoded[n + 1] = InExec /\ n + 1 > 1
    BY <1>0, <1>1 DEF KeptPlaces
  <2>5. InExec.type = "TRAP"
    BY <2>2, <2>3, <2>4 DEF SyncInv, Remembered, Refetched, IsRefetchFor
  <2>6. QED
    BY <2>5
<1>4. QED
  BY <1>2, <1>3 DEF PassedType, SystemOp

LEMMA OperandFound ==
  ASSUME Grounds, SyncInv, EntryInv, ExecReady, LiveFetched(InExec), InExec.type # "TRAP",
         NEW op \in Operands, op.data = rf[op.addr], Network(op).available
  PROVE  Holds(op.addr, Len(Issued) + 1, Network(op).data)
<1> DEFINE n == Len(Issued)
           m == Len(pipe4)
           b == Len(pipe3)
           r == op.addr
           y == ForwardFromExe1
           z == ForwardFromMem1
<1>0. TypeOK /\ Parts /\ KeptPlaces /\ MultiInv
  BY Given
<1>1. /\ m \in {0, 1} /\ b \in {0, 1} /\ n \in Nat /\ n < n + 1
      /\ b = 1 => n = m + 1 /\ n \in 1..n /\ \A l \in 1..n : ~ (n < l)
      /\ m = 1 => 1 \in 1..n /\ 1 < n + 1
      /\ \A k \in 1..n : (k = 1 /\ m = 1) \/ (k = n /\ b = 1)
      /\ \A k \in 1..n : 1 < k => k = n /\ b = 1
  <2>1. b \in Nat /\ b < 2 /\ n = m + b /\ m \in {0, 1}
    BY <1>0 DEF ExecReady, Pipe3Size, Parts, IssuedParts
  <2> HIDE DEF n, m, b
  <2>2. QED
    BY <2>1
<1>2. /\ b = 1 => pipe3 # <<>>
      /\ pipe3 # <<>> => b = 1 /\ n = m + 1 /\ Issued[n] = Head(pipe3)
                         /\ Head(pipe3).type # "WAIT"
  <2>1. /\ pipe3 = <<>> <=> b = 0
        /\ pipe3 # <<>> => Head(pipe3) = pipe3[1] /\ b = 1
    BY <1>0, <1>1, Shifted DEF TypeOK, ExecTypeOK
  <2>2. b = 1 => Issued[m + 1] = pipe3[1] /\ pipe3[1].type # "WAIT"
    BY <1>0 DEF Parts, IssuedParts, MultiInv, ExecReady
  <2>3. QED
    BY <1>1, <2>1, <2>2
<1>3. (pipe4 # <<>> => m = 1) /\ (m = 1 => pipe4 # <<>>)
  <2>1. (pipe4 # <<>> => m = 1) /\ (pipe4 = <<>> => m = 0)
    BY <1>0 DEF Parts, IssuedParts
  <2>2. 0 # 1
    OBVIOUS
  <2>3. QED
    BY <2>1, <2>2, Zenon
<1>4. pipe4 # <<>> => Issued[1] = InWb
  BY <1>0, <1>1, <1>3 DEF Parts, IssuedParts
<1>5. CASE y.valid /\ y.addr = r
  <2>1. /\ pipe3 # <<>> /\ LiveIssued(Head(pipe3)) /\ Head(pipe3).rd = r /\ r # 0
        /\ Network(op).available = (Head(pipe3).type = "REG") /\ Network(op).data = Head(pipe3).val
    BY <1>5 DEF Network, ForwardData, ForwardFromExe1, NoForward, Offer, LiveIssued
  <2>2. Writes(n, r) /\ Settled(n) /\ Network(op).data = Issued[n].val
    BY <1>2, <2>1 DEF Writes, Settled
  <2>3. n \in 1..n /\ n < n + 1 /\ \A l \in 1..n : ~ (n < l)
    BY <1>1, <1>2, <2>1
  <2>4. QED
    BY <2>2, <2>3 DEF Holds
<1>6. CASE ~ (y.valid /\ y.addr = r)
  <2>1. pipe3 # <<>> => ~ Writes(n, r)
    BY <1>2, <1>6 DEF ForwardFromExe1, Offer, Writes, LiveIssued
  <2>2. CASE z.valid /\ z.addr = r
    <3>1. /\ pipe4 # <<>> /\ LiveIssued(InWb) /\ InWb.rd = r /\ r # 0
          /\ InWb.type \in {"REG", "STORE"} /\ Network(op).data = InWb.val
      BY <1>6, <2>2
         DEF Network, ForwardData, ForwardFromMem1, NoForward, Offer, LiveIssued, InWb
    <3>2. Writes(1, r) /\ Settled(1) /\ Network(op).data = Issued[1].val /\ 1 \in 1..n /\ 1 < n + 1
      <4>1. Writes(1, r) /\ Settled(1) /\ Network(op).data = Issued[1].val
        BY <1>3, <1>4, <3>1 DEF Writes, Settled
      <4>2. QED
        BY <1>1, <1>4, <3>1, <4>1
    <3>3. ASSUME NEW l \in 1..n, 1 < l PROVE ~ Writes(l, r)
      <4>1. l = n /\ b = 1
        BY <1>1, <3>3
      <4>2. QED
        BY <1>2, <2>1, <4>1
    <3>4. QED
      BY <3>2, <3>3 DEF Holds
  <2>3. CASE ~ (z.valid /\ z.addr = r)
    <3>1. Network(op).data = rf[r]
      BY <1>6, <2>3 DEF Network, ForwardData
    <3>2. pipe4 # <<>> => ~ Writes(1, r)
      <4>1. ASSUME pipe4 # <<>>, Writes(1, r) PROVE FALSE
        <5>1. InWb.type \in {"REG", "STORE"}
          BY <4>1, OldestOffered DEF ExecReady
        <5>2. z.valid /\ z.addr = r
          BY <1>4, <4>1, <5>1 DEF ForwardFromMem1, Offer, Writes, LiveIssued, InWb
        <5>3. QED
          BY <2>3, <5>2
      <4>2. QED
        BY <4>1
    <3>3. ASSUME NEW k \in 1..n PROVE ~ Writes(k, r)
      <4>1. (k = 1 /\ m = 1) \/ (k = n /\ b = 1)
        BY <1>1, Zenon
      <4>2. QED
        BY <1>2, <1>3, <2>1, <3>2, <4>1
    <3>4. QED
      BY <3>1, <3>3 DEF Holds
  <2>4. QED
    BY <2>2, <2>3
<1>7. QED
  BY <1>5, <1>6

\* Behind all of them, what a register holds is what they leave in it.
LEMMA HoldsLatest ==
  ASSUME Parts, NEW r, r # 0, NEW v, Holds(r, Len(Issued) + 1, v)
  PROVE  Latest(r, v)
<1> DEFINE n == Len(Issued)
<1>1. n \in Nat /\ \A k \in 1..n : k < n + 1
  BY DEF Parts, IssuedParts
<1>2. Writers(r) = {k \in 1..n : Writes(k, r)}
  BY DEF Writers, Writes
<1>3. CASE v = rf[r] /\ \A k \in 1..n : k < n + 1 => ~ Writes(k, r)
  BY <1>1, <1>2, <1>3 DEF Latest
<1>4. CASE \E k \in 1..n :
             /\ k < n + 1 /\ Writes(k, r) /\ Settled(k) /\ v = Issued[k].val
             /\ \A l \in 1..n : k < l /\ l < n + 1 => ~ Writes(l, r)
  <2>1. PICK k \in 1..n :
             /\ Writes(k, r) /\ Settled(k) /\ v = Issued[k].val
             /\ \A l \in 1..n : k < l /\ l < n + 1 => ~ Writes(l, r)
    BY <1>4
  <2>2. k \in Writers(r) /\ \A l \in Writers(r) : l \in 1..n /\ l <= k
    BY <1>1, <1>2, <2>1
  <2>3. \A j \in Writers(r) : (\A l \in Writers(r) : l <= j) => j = k
    BY <1>1, <2>2
  <2>4. (CHOOSE j \in Writers(r) : \A l \in Writers(r) : l <= j) = k
    BY <2>2, <2>3
  <2>5. QED
    BY <2>1, <2>2, <2>4 DEF Latest, Settled
<1>5. QED
  BY <1>3, <1>4 DEF Holds

\* An instruction never executes with a value that an older one in flight is
\* going to replace.
THEOREM NoStaleCorrect == Spec => []NoStaleOperand
<1>1. Grounds /\ SyncInv /\ EntryInv /\ OperandInv => NoStaleOperand
  <2> SUFFICES ASSUME Grounds, SyncInv, EntryInv, OperandInv,
                      ExecReady, LiveFetched(InExec), InExec.type # "TRAP"
               PROVE  /\ rgOp1.addr # 0 /\ Rs1.available => Latest(rgOp1.addr, Rs1.data)
                      /\ rgOp2.addr # 0 /\ Rs2.available => Latest(rgOp2.addr, Rs2.data)
    BY DEF NoStaleOperand
  <2>1. Parts /\ rgOp1 \in Operands /\ rgOp2 \in Operands
    BY Given DEF TypeOK, OperandTypeOK
  <2>2. ASSUME NEW op \in Operands, op.data = rf[op.addr], op.addr # 0, Network(op).available
        PROVE  Latest(op.addr, Network(op).data)
    BY <2>1, <2>2, OperandFound, HoldsLatest
  <2>3. Rs1 = Network(rgOp1) /\ Rs2 = Network(rgOp2)
    BY DEF Rs1, Rs2, Network
  <2>4. QED
    BY <2>1, <2>2, <2>3 DEF OperandInv
<1>2. QED
  BY <1>1, GroundsInvariance, SyncInvariance, EntryInvariance, OperandInvariance, PTL

=============================================================================
