----------------------------- MODULE FetchProofs -----------------------------
(***************************************************************************)
(* The fetch side, for any code, any predictor size and any depth of the   *)
(* instruction side: entries and answers stay paired over every flush and  *)
(* fence, what is executed was read from the current code, and no fetch    *)
(* fault is lost.                                                          *)
(***************************************************************************)
EXTENDS FetchProps, FiniteSetTheorems, FunctionTheorems, SequenceTheorems, TLAPS

-----------------------------------------------------------------------------
(* The invariants *)

\* The entries of a buffer that carry ep: all of them, none, or the last ones.
AllOf(s, ep) == \A i \in 1..Len(s) : s[i].ep = ep
NoneOf(s, ep) == \A i \in 1..Len(s) : s[i].ep # ep
LastOf(s, ep) == \A i, j \in 1..Len(s) : i < j /\ s[i].ep = ep => s[j].ep = ep

\* No flush of write back since the entries of s were fetched.
SinceWb(s) == \A i \in 1..Len(s) : s[i].ep[2] = wEpoch

AllSinceWb == SinceWb(pipe2) /\ SinceWb(pipe1) /\ SinceWb(kept) /\ SinceWb(iresp) /\ SinceWb(ireq)

\* Nothing that was read, or nothing at all, is to be kept.
NothingRead ==
  NoneOf(pipe2, Epochs) /\ NoneOf(pipe1, Epochs) /\ NoneOf(kept, Epochs) /\ NoneOf(iresp, Epochs)
NothingLive == NothingRead /\ NoneOf(ireq, Epochs)

\* Behind an entry to be kept all are to be kept.  Only an executed instruction
\* can flip an epoch bit a second time, and behind it none has the old value.
EpochInv ==
  /\ LastOf(pipe1, Epochs) /\ LastOf(iresp, Epochs) /\ LastOf(ireq, Epochs)
  /\ NoneOf(pipe2, Epochs) \/ AllOf(pipe1, Epochs)
  /\ \/ NoneOf(pipe2, Epochs) /\ NoneOf(pipe1, Epochs)
     \/ AllOf(kept, Epochs) /\ AllOf(iresp, Epochs)
  /\ NoneOf(kept, Epochs) \/ AllOf(iresp, Epochs)
  /\ NothingRead \/ AllOf(ireq, Epochs)
  /\ inFlight => AllSinceWb

\* A fence is ahead of every request to be kept.
FenceAhead ==
  \E k \in 1..Len(ireq) :
    ~ Fetches(ireq[k]) /\ \A j \in 1..k : Fetches(ireq[j]) => ireq[j].ep # Epochs

\* While old code may be read, nothing to be kept was.
FenceInv ==
  /\ fence \/ sfence => NothingLive /\ ~ inFlight
  /\ stale # {} => NothingRead /\ ~ inFlight /\ (fence \/ sfence \/ FenceAhead)

\* What is to be kept was read from the current code.
Current(s) == \A i \in 1..Len(s) : s[i].ep = Epochs => s[i].ver = ver
OfCode(e) == \A n \in 1..Len(e.parts) : e.parts[n].ver = ver
MadeCurrent(s) == \A i \in 1..Len(s) : s[i].ep = Epochs => OfCode(s[i])

CodeInv == MadeCurrent(pipe2) /\ MadeCurrent(pipe1) /\ Current(kept) /\ Current(iresp)

\* An answer that will be dropped is there or on its way.
StaleAnswer ==
  \/ \E i \in 1..Len(iresp) : iresp[i].ep # Epochs
  \/ \E k \in 1..Len(ireq) : Fetches(ireq[k]) /\ ireq[k].ep # Epochs

\* A half that was kept before a flush is dropped with an answer from before it.
KeptInv ==
  /\ receivingUpper <=> kept # <<>>
  /\ kept # <<>> /\ NoneOf(kept, Epochs) => StaleAnswer

\* The entry tells the faults of its parts.
Tells(e) ==
  /\ e.trap = (\E n \in 1..Len(e.parts) : Faulty(e.parts[n]))
  /\ e.trap => e.upperErr = ~ Faulty(e.parts[1])

\* Decode will wait for a fault in front of the i-th entry.
TrapBefore(i) ==
  stall \/ \E j \in 1..Len(pipe1) : j < i /\ pipe1[j].ep = Epochs /\ pipe1[j].trap

TellsAnswer(a) == a.trap = (a.word \in FaultWord) /\ (a.trap => ~ a.lo /\ ~ a.hi)

TellsHalf(h) ==
  h.word \in FaultWord => ~ h.long /\ (h.ep = Epochs => TrapBefore(Len(pipe1) + 1))

\* But behind a fault that decode will wait for, every fault is told.
FaultInv ==
  /\ \A i \in 1..Len(iresp) : TellsAnswer(iresp[i])
  /\ \A i \in 1..Len(kept) : TellsHalf(kept[i])
  /\ \A i \in 1..Len(pipe1) : pipe1[i].ep = Epochs => Tells(pipe1[i]) \/ TrapBefore(i)
  /\ \A i \in 1..Len(pipe2) : pipe2[i].ep = Epochs => Tells(pipe2[i])

-----------------------------------------------------------------------------
(* Addresses and buffers                                                      *)

LEMMA Addresses ==
  /\ \A a \in Half : WordOf(a) \in Word /\ IsHi(a) \in BOOLEAN
  /\ \A w \in Word :
       2 * w \in Half /\ 2 * w + 1 \in Half /\ WordOf(2 * w) = w /\ WordOf(2 * w + 1) = w
  /\ \A a \in Half, n \in {1, 2} : Plus(a, n) \in Half
  /\ {ResetPc, TrapVec} \subseteq Half /\ RasTop \subseteq Half
  /\ \A v \in Version : WbTarget[v] \subseteq Half
<1>1. Words \in Nat /\ Words >= 1
  BY BtbAssumption DEF BtbAssumption
<1>2. \A a \in Half : WordOf(a) \in Word /\ IsHi(a) \in BOOLEAN
  BY <1>1 DEF Half, Word, WordOf, IsHi
<1>3. ASSUME NEW w \in Word
      PROVE  2 * w \in Half /\ 2 * w + 1 \in Half /\ WordOf(2 * w) = w /\ WordOf(2 * w + 1) = w
  BY <1>1 DEF Half, Word, WordOf
<1>4. ASSUME NEW a \in Half, NEW n \in {1, 2} PROVE Plus(a, n) \in Half
  <2>1. a + n \in Nat /\ 2 * Words \in Nat /\ 2 * Words > 0
    BY <1>1 DEF Half
  <2>2. \A x, m \in Nat : m > 0 => x % m \in 0 .. (m - 1)
    OBVIOUS
  <2>3. QED
    BY <2>1, <2>2 DEF Plus, Half
<1>5. {ResetPc, TrapVec} \subseteq Half /\ RasTop \subseteq Half
  BY FetchAssumption, BtbAssumption DEF FetchAssumption, BtbAssumption, Half
<1>6. \A v \in Version : WbTarget[v] \subseteq Half
  BY FetchAssumption DEF FetchAssumption
<1>7. QED
  BY <1>2, <1>3, <1>4, <1>5, <1>6

LEMMA Codes ==
  ASSUME NEW v \in Version, NEW a \in Half
  PROVE  /\ Code[v][a].long \in BOOLEAN /\ Code[v][a].tgt \subseteq Half
         /\ Code[v][a].op \in Op
         /\ AfterFence[v] \subseteq Version /\ AfterSfence[v] \subseteq Version
BY FetchAssumption DEF FetchAssumption

\* A buffer with at least one entry has a first entry and room behind it.
LEMMA Popped ==
  ASSUME NEW S, NEW s \in Seq(S), s # <<>>
  PROVE  /\ Head(s) \in S /\ s[1] = Head(s)
         /\ Tail(s) \in Seq(S)
         /\ Len(Tail(s)) = Len(s) - 1
         /\ Len(s) \in Nat /\ Len(s) >= 1
         /\ \A i \in 1..Len(Tail(s)) : i + 1 \in 1..Len(s) /\ Tail(s)[i] = s[i + 1]
         /\ \A i \in 2..Len(s) : i - 1 \in 1..Len(Tail(s)) /\ Tail(s)[i - 1] = s[i]
BY HeadTailProperties, EmptySeq, LenProperties

LEMMA Pushed ==
  ASSUME NEW S, NEW s \in Seq(S), NEW e \in S
  PROVE  /\ Append(s, e) \in Seq(S)
         /\ Len(Append(s, e)) = Len(s) + 1 /\ Len(s) \in Nat
         /\ Append(s, e)[Len(s) + 1] = e
         /\ \A i \in 1..Len(s) : Append(s, e)[i] = s[i]
BY AppendProperties, LenProperties

LEMMA Single ==
  ASSUME NEW S, NEW e \in S
  PROVE  <<e>> \in Seq(S) /\ Len(<<e>>) = 1 /\ <<e>>[1] = e /\ <<e>> # <<>>
OBVIOUS

LEMMA Empty ==
  ASSUME NEW S
  PROVE  <<>> \in Seq(S) /\ Len(<<>>) = 0
BY EmptySeq

-----------------------------------------------------------------------------
(* Types                                                                      *)

LEMMA PredictionTypes ==
  ASSUME FetchTypeOK, NEW r \in Predictions(pc)
  PROVE  r.pred \in BOOLEAN /\ r.target \in Half /\ r.hi \in BOOLEAN
<1>1. /\ pc \in Half /\ btb \in [0 .. (BtbDepth - 1) -> Entry] /\ RasTop \subseteq Half
  BY Addresses DEF FetchTypeOK
<1>2. CASE Matches(WordOf(pc)) = {}
  <2>1. r = Response(FALSE, pc, NoEntry)
    BY <1>2 DEF Predictions
  <2>2. QED
    BY <1>1, <2>1 DEF Response, NoEntry
<1>3. CASE Matches(WordOf(pc)) # {}
  <2>1. PICK e : e = btb[CHOOSE i \in Matches(WordOf(pc)) : TRUE]
    OBVIOUS
  <2>2. e \in Entry
    BY <1>1, <1>3, <2>1 DEF Matches
  <2>3. r \in CASE IsHi(pc) /\ ~ e.hi -> {Response(FALSE, pc, e)}
                [] ~ (IsHi(pc) /\ ~ e.hi) /\ e.ci = "Ret" ->
                     {Response(TRUE, t, e) : t \in RasTop}
                [] ~ (IsHi(pc) /\ ~ e.hi) /\ e.ci = "JAL" ->
                     {Response(TRUE, e.target, e)}
                [] OTHER -> {Response(b, e.target, e) : b \in BOOLEAN}
    BY <1>3, <2>1 DEF Predictions
  <2>4. PICK b \in BOOLEAN, t \in Half : r = Response(b, t, e)
    BY <1>1, <2>2, <2>3 DEF Entry
  <2>5. QED
    BY <2>2, <2>4 DEF Response, Entry
<1>4. QED
  BY <1>2, <1>3

\* An entry behind stage1 has one part or two.
LEMMA PartsTypes ==
  ASSUME NEW e \in FetchedEntry
  PROVE  /\ e.parts[1] \in Parts /\ Len(e.parts) \in {1, 2}
         /\ \A n \in 1..Len(e.parts) : e.parts[n] \in Parts
         /\ Insn(e) = Code[e.parts[1].ver][e.parts[1].at]
         /\ Insn(e).tgt \subseteq Half
         /\ Plus(e.pc, Len(e.parts)) \in Half
<1>1. e.parts \in [1..1 -> Parts] \cup [1..2 -> Parts] /\ e.pc \in Half
  BY DEF FetchedEntry
<1>2. CASE e.parts \in [1..1 -> Parts]
  <2>1. Len(e.parts) = 1
    BY <1>2
  <2>2. e.parts[1] \in Parts
    BY <1>2
  <2>3. e.parts[1].ver \in Version /\ e.parts[1].at \in Half
    BY <2>2 DEF Parts
  <2>4. QED
    BY <1>1, <2>1, <2>2, <2>3, Codes, Addresses DEF Insn
<1>3. CASE e.parts \in [1..2 -> Parts]
  <2>1. Len(e.parts) = 2
    BY <1>3
  <2>2. e.parts[1] \in Parts /\ e.parts[2] \in Parts
    BY <1>3
  <2>3. e.parts[1].ver \in Version /\ e.parts[1].at \in Half
    BY <2>2 DEF Parts
  <2>4. QED
    BY <1>1, <2>1, <2>2, <2>3, Codes, Addresses DEF Insn
<1>4. QED
  BY <1>1, <1>2, <1>3

\* What stage1 keeps of a word, and what it passes on.
UpperHalf ==
  [word |-> FromStage0.word, long |-> Resp.hi, ver |-> Resp.ver,
   ep |-> Epochs, hi |-> FromStage0.hi, pred |-> FromStage0.pred]

\* A step of stage1, as far as its buffers go.
LEMMA ProcessShape ==
  ASSUME FetchTypeOK, ProcessInstruction
  PROVE  /\ pipe0 # <<>> /\ iresp # <<>> /\ Len(pipe1) < Pipe1Size
         /\ Resp \in Answer /\ FromStage0 \in WordEntry
         /\ kept' = <<>> \/ kept' = <<UpperHalf>>
         /\ UpperHalf \in HalfEntry
         /\ receivingUpper' \in BOOLEAN
         /\ pipe1' = pipe1 \/ \E e \in FetchedEntry : e.ep = Epochs /\ pipe1' = Append(pipe1, e)
         /\ Deq \/ UNCHANGED <<iresp, pipe0>>
         /\ UNCHANGED <<btbVars, stage0Vars, epochVars, ireq, stale, backVars, progVars>>
<1>1. /\ pipe0 # <<>> /\ iresp # <<>> /\ Len(pipe1) < Pipe1Size
      /\ UNCHANGED <<btbVars, stage0Vars, epochVars, ireq, stale, backVars, progVars>>
  BY DEF ProcessInstruction
<1>2. Resp \in Answer /\ FromStage0 \in WordEntry
  BY <1>1, Popped DEF FetchTypeOK, Resp, FromStage0
<1>3. UpperHalf \in HalfEntry
  <2>1. Epochs \in Epoch
    BY DEF FetchTypeOK
  <2>2. QED
    BY <1>2, <2>1 DEF UpperHalf, HalfEntry, Answer, WordEntry
<1>4. receivingUpper \in BOOLEAN /\ Epochs \in Epoch
  BY DEF FetchTypeOK
<1>5. ASSUME kept # <<>> PROVE Prev \in HalfEntry
  BY <1>5, Popped DEF FetchTypeOK, Prev
<1>6. ASSUME NEW at \in Half, NEW parts \in [1..1 -> Parts] \cup [1..2 -> Parts],
             NEW trap \in BOOLEAN, NEW pred \in BOOLEAN, Enq(at, parts, trap, pred)
      PROVE  \E e \in FetchedEntry : e.ep = Epochs /\ pipe1' = Append(pipe1, e)
  <2>1. PICK u \in BOOLEAN : u = (receivingUpper /\ Resp.trap)
    BY <1>2, <1>4 DEF Answer
  <2>2. [pc |-> at, parts |-> parts, ep |-> Epochs, trap |-> trap, upperErr |-> u, pred |-> pred]
          \in FetchedEntry
    BY <1>4 DEF FetchedEntry
  <2>3. QED
    BY <1>6, <2>1, <2>2 DEF Enq
<1>7. ASSUME NEW w \in Word, NEW half \in {0, 1}, NEW v \in Version
      PROVE  Part(w, half, v) \in Parts
  <2>1. 2 * w + half \in Half
    BY Addresses DEF Word, Half
  <2>2. QED
    BY <2>1 DEF Part, Parts
<1>8. ASSUME NEW p \in Parts PROVE <<p>> \in [1..1 -> Parts] \cup [1..2 -> Parts]
  OBVIOUS
<1>9. ASSUME NEW p \in Parts, NEW q \in Parts PROVE <<p, q>> \in [1..1 -> Parts] \cup [1..2 -> Parts]
  OBVIOUS
<1>10. CASE DropResponse
  BY <1>1, <1>2, <1>3, <1>4, <1>10 DEF DropResponse, Settle
<1>11. ASSUME KeepUpperHalf \/ Settle
       PROVE  /\ kept' = <<>> \/ kept' = <<UpperHalf>>
              /\ receivingUpper' \in BOOLEAN
  BY <1>11 DEF KeepUpperHalf, Settle, UpperHalf
<1>12. CASE HasPrev /\ (JoinHalves \/ TakePrev)
  <2>1. Prev \in HalfEntry
    BY <1>5, <1>12 DEF HasPrev
  <2>2. /\ PrevPc \in Half /\ PrevPred \in BOOLEAN /\ PrevPart \in Parts
        /\ Part(Resp.word, 0, Resp.ver) \in Parts /\ Resp.trap \in BOOLEAN
    BY <1>2, <1>7, <2>1, Addresses DEF PrevPc, PrevPred, PrevPart, HalfEntry, Answer
  <2>3. \E e \in FetchedEntry : e.ep = Epochs /\ pipe1' = Append(pipe1, e)
    BY <1>6, <1>8, <1>9, <1>12, <2>2 DEF JoinHalves, TakePrev
  <2>4. KeepUpperHalf \/ Settle
    BY <1>12 DEF JoinHalves, TakePrev
  <2>5. Deq \/ UNCHANGED <<iresp, pipe0>>
    BY <1>12 DEF JoinHalves, TakePrev
  <2>6. QED
    BY <1>1, <1>2, <1>3, <1>11, <2>3, <2>4, <2>5
<1>13. CASE KeepUpper
  BY <1>1, <1>2, <1>3, <1>11, <1>13 DEF KeepUpper
<1>14. CASE TakeUpper \/ TakeWord \/ TakeLower
  <2>1. /\ 2 * FromStage0.word \in Half /\ 2 * FromStage0.word + 1 \in Half
        /\ Part(Resp.word, 0, Resp.ver) \in Parts /\ Part(Resp.word, 1, Resp.ver) \in Parts
        /\ Resp.trap \in BOOLEAN /\ (FromStage0.hi /\ FromStage0.pred) \in BOOLEAN
        /\ FromStage0.pred \in BOOLEAN /\ LowerPred \in BOOLEAN
    BY <1>2, <1>7, Addresses DEF LowerPred, Answer, WordEntry
  <2>2. \E e \in FetchedEntry : e.ep = Epochs /\ pipe1' = Append(pipe1, e)
    BY <1>6, <1>8, <1>9, <1>14, <2>1 DEF TakeUpper, TakeWord, TakeLower
  <2>3. /\ kept' = <<>> \/ kept' = <<UpperHalf>>
        /\ receivingUpper' \in BOOLEAN
    BY <1>4, <1>11, <1>14 DEF TakeUpper, TakeWord, TakeLower
  <2>4. Deq
    BY <1>14 DEF TakeUpper, TakeWord, TakeLower
  <2>5. QED
    BY <1>1, <1>2, <1>3, <2>2, <2>3, <2>4
<1>15. QED
  BY <1>10, <1>12, <1>13, <1>14 DEF ProcessInstruction

LEMMA CommitIsFlush ==
  ASSUME FetchTypeOK, CommitFetchFault \/ CommitOther \/ CommitFenceI \/ CommitSfence
  PROVE  \E target \in Half, f, s \in BOOLEAN, v \in Version :
           WbFlush(target, f, s, v) /\ (v = ver \/ f \/ s)
<1>1. ver \in Version
  BY DEF FetchTypeOK
<1>2. CASE CommitFetchFault \/ CommitOther
  BY <1>1, <1>2, Addresses DEF CommitFetchFault, CommitOther
<1>3. CASE CommitFenceI
  <2>1. PICK v \in AfterFence[ver] : \E t \in WbTarget[v] : WbFlush(t, TRUE, FALSE, v)
    BY <1>3 DEF CommitFenceI
  <2>2. v \in Version /\ WbTarget[v] \subseteq Half
    BY <1>1, <2>1, Addresses, FetchAssumption DEF FetchAssumption
  <2>3. QED
    BY <2>1, <2>2
<1>4. CASE CommitSfence
  <2>1. PICK v \in AfterSfence[ver] : \E t \in WbTarget[v] : WbFlush(t, FALSE, TRUE, v)
    BY <1>4 DEF CommitSfence
  <2>2. v \in Version /\ WbTarget[v] \subseteq Half
    BY <1>1, <2>1, Addresses, FetchAssumption DEF FetchAssumption
  <2>3. QED
    BY <2>1, <2>2
<1>5. QED
  BY <1>2, <1>3, <1>4

\* A control instruction re-directs or leaves everything in front of it alone.
ExecRedirects(target) ==
  /\ Flush(target, FALSE, FALSE) /\ eEpoch' = 1 - eEpoch /\ stall' = FALSE

LEMMA ExecControlShape ==
  ASSUME FetchTypeOK, ExecControl
  PROVE  /\ LiveInExec /\ ~ InExec.trap /\ InExec \in FetchedEntry
         /\ pipe2' = <<>> /\ inFlight' = TRUE /\ ExecFrame
         /\ arch' \in Half
         /\ \E d \in TrainingData : td' = <<d>>
         /\ (\E target \in Half : ExecRedirects(target)) \/ NoRedirect
<1>1. LiveInExec /\ ~ InExec.trap /\ pipe2' = <<>> /\ inFlight' = TRUE /\ ExecFrame
  BY DEF ExecControl
<1>2. InExec \in FetchedEntry
  BY <1>1, Popped DEF LiveInExec, InExec, FetchTypeOK
<1>3. /\ Insn(InExec).tgt \subseteq Half /\ Plus(InExec.pc, Len(InExec.parts)) \in Half
      /\ InExec.pc \in Half /\ Len(InExec.parts) \in {1, 2}
  BY <1>2, PartsTypes DEF FetchedEntry
<1>4. PICK target \in Insn(InExec).tgt, taken \in BOOLEAN :
        LET next == IF taken THEN target ELSE Plus(InExec.pc, Len(InExec.parts))
        IN  /\ arch' = next
            /\ td' = <<[pc |-> InExec.pc, target |-> target, ci |-> Ci(Insn(InExec).op),
                        instr16 |-> Len(InExec.parts) = 1]>>
            /\ IF Mispredicted(Insn(InExec).op, taken, target)
               THEN /\ Flush(next, FALSE, FALSE)
                    /\ eEpoch' = 1 - eEpoch
                    /\ stall' = FALSE
               ELSE NoRedirect
  BY DEF ExecControl
<1>5. PICK next : next = IF taken THEN target ELSE Plus(InExec.pc, Len(InExec.parts))
  OBVIOUS
<1>6. next \in Half
  BY <1>3, <1>5
<1>7. Ci(Insn(InExec).op) \in ControlInsn
  BY DEF Ci, ControlInsn
<1>8. [pc |-> InExec.pc, target |-> target, ci |-> Ci(Insn(InExec).op),
       instr16 |-> Len(InExec.parts) = 1] \in TrainingData
  BY <1>3, <1>7 DEF TrainingData
<1>9. arch' = next /\ (ExecRedirects(next) \/ NoRedirect)
  BY <1>4, <1>5 DEF ExecRedirects
<1>10. QED
  BY <1>1, <1>2, <1>4, <1>6, <1>8, <1>9

LEMMA BtbTypes ==
  ASSUME FetchTypeOK, Clear \/ \E d \in TrainingData : Train(d)
  PROVE  /\ btb' \in [0 .. (BtbDepth - 1) -> Entry]
         /\ allocate' \in 0 .. (BtbDepth - 1)
         /\ bpuInit' \in BOOLEAN
<1>1. /\ btb \in [0 .. (BtbDepth - 1) -> Entry] /\ allocate \in 0 .. (BtbDepth - 1)
      /\ bpuInit \in BOOLEAN
  BY DEF FetchTypeOK
<1>2. BtbDepth \in Nat /\ BtbDepth >= 1 /\ Words \in Nat /\ Words >= 1
  BY BtbAssumption DEF BtbAssumption
<1>3. CASE Clear
  <2>1. NoEntry \in Entry
    BY <1>2 DEF NoEntry, Entry, ControlInsn, Word, Half
  <2>2. btb' = [i \in 0 .. (BtbDepth - 1) |-> NoEntry] /\ allocate' = 0 /\ bpuInit' = FALSE
    BY <1>1, <1>3 DEF Clear
  <2>3. btb' \in [0 .. (BtbDepth - 1) -> Entry]
    BY <2>1, <2>2
  <2>4. allocate' \in 0 .. (BtbDepth - 1)
    BY <1>2, <2>2
  <2>5. QED
    BY <2>2, <2>3, <2>4
<1>4. ASSUME NEW d \in TrainingData, Train(d)
      PROVE  /\ btb' \in [0 .. (BtbDepth - 1) -> Entry] /\ allocate' \in 0 .. (BtbDepth - 1)
             /\ bpuInit' = bpuInit
  <2>1. Trained(d) \in Entry
    BY Addresses DEF Trained, Entry, TrainingData
  <2>2. (allocate + 1) % BtbDepth \in 0 .. (BtbDepth - 1)
    BY <1>1, <1>2
  <2>3. Matches(WordOf(d.pc)) \subseteq 0 .. (BtbDepth - 1)
    BY <1>1 DEF Matches
  <2>4. PICK e \in Entry : e = Trained(d)
    BY <2>1
  <2>5. \/ \E i \in 0 .. (BtbDepth - 1) : btb' = [btb EXCEPT ![i] = e] /\ UNCHANGED allocate
        \/ btb' = [btb EXCEPT ![allocate] = e] /\ allocate' = (allocate + 1) % BtbDepth
    BY <1>4, <2>3, <2>4 DEF Train
  <2>6. bpuInit' = bpuInit
    BY <1>4 DEF Train
  <2>7. QED
    BY <1>1, <2>2, <2>5, <2>6
<1>5. QED
  BY <1>1, <1>3, <1>4

\* An answer is for the oldest request, from a version that may be read.
LEMMA RespondShape ==
  ASSUME FetchTypeOK, IcacheRespond
  PROVE  /\ ireq # <<>> /\ Fetches(Head(ireq)) /\ ireq' = Tail(ireq)
         /\ UNCHANGED <<btbVars, stage0Vars, epochVars, pipe0, stale, stage1Vars, pipe1,
                        backVars, progVars>>
         /\ \E a \in Answer :
              /\ iresp' = Append(iresp, a)
              /\ a.word = Head(ireq).word /\ a.ep = Head(ireq).ep
              /\ a.ver \in {ver} \cup stale
              /\ a.trap = (a.word \in FaultWord)
              /\ a.trap => a.lo \in FaultData /\ a.hi \in FaultData
              /\ ~ a.trap => /\ a.lo = Code[a.ver][2 * a.word].long
                             /\ a.hi = Code[a.ver][2 * a.word + 1].long
<1>1. /\ ireq # <<>> /\ Fetches(Head(ireq)) /\ ireq' = Tail(ireq)
      /\ UNCHANGED <<btbVars, stage0Vars, epochVars, pipe0, stale, stage1Vars, pipe1,
                     backVars, progVars>>
  BY DEF IcacheRespond, Fetches
<1>2. Head(ireq).word \in Word /\ Head(ireq).ep \in Epoch
  <2>1. Head(ireq) \in Request
    BY <1>1, Popped DEF FetchTypeOK
  <2>2. QED
    BY <2>1 DEF Request
<1>3. PICK trap : trap = (Head(ireq).word \in FaultWord)
  OBVIOUS
<1>4. trap \in BOOLEAN
  <2>1. (Head(ireq).word \in FaultWord) \in BOOLEAN
    OBVIOUS
  <2>2. QED
    BY <1>3, <2>1
<1>5. PICK w : w = Head(ireq).word
  OBVIOUS
<1>6. PICK v \in {ver} \cup stale :
        \E lo \in IF trap THEN FaultData ELSE {Code[v][2 * w].long},
           hi \in IF trap THEN FaultData ELSE {Code[v][2 * w + 1].long} :
          iresp' = Append(iresp, [word |-> w, ep |-> Head(ireq).ep, trap |-> trap,
                                  ver |-> v, lo |-> lo, hi |-> hi])
  BY <1>3, <1>5 DEF IcacheRespond
<1>7. /\ v \in Version /\ Code[v][2 * w].long \in BOOLEAN /\ Code[v][2 * w + 1].long \in BOOLEAN
      /\ FaultData \subseteq BOOLEAN
  <2>1. v \in Version
    BY DEF FetchTypeOK
  <2>2. QED
    BY <1>2, <1>5, <2>1, Codes, Addresses, FetchAssumption DEF FetchAssumption
<1>8. PICK lo \in BOOLEAN, hi \in BOOLEAN :
        /\ iresp' = Append(iresp, [word |-> w, ep |-> Head(ireq).ep, trap |-> trap,
                                   ver |-> v, lo |-> lo, hi |-> hi])
        /\ trap => lo \in FaultData /\ hi \in FaultData
        /\ ~ trap => lo = Code[v][2 * w].long /\ hi = Code[v][2 * w + 1].long
  BY <1>4, <1>6, <1>7
<1>9. PICK a : a = [word |-> w, ep |-> Head(ireq).ep, trap |-> trap, ver |-> v, lo |-> lo, hi |-> hi]
  OBVIOUS
<1>10. a \in Answer
  BY <1>2, <1>4, <1>5, <1>7, <1>9 DEF Answer
<1>11. /\ a.word = w /\ a.ep = Head(ireq).ep /\ a.trap = trap /\ a.ver = v
       /\ a.lo = lo /\ a.hi = hi
  BY <1>9
<1>12. /\ a.word = Head(ireq).word /\ a.ver \in {ver} \cup stale
       /\ a.trap = (a.word \in FaultWord)
  BY <1>3, <1>5, <1>11
<1>13. /\ a.trap => a.lo \in FaultData /\ a.hi \in FaultData
       /\ ~ a.trap => /\ a.lo = Code[a.ver][2 * a.word].long
                      /\ a.hi = Code[a.ver][2 * a.word + 1].long
  BY <1>8, <1>11
<1>14. iresp' = Append(iresp, a)
  BY <1>8, <1>9
<1>15. QED
  BY <1>1, <1>10, <1>11, <1>12, <1>13, <1>14

LEMMA FetchTypeStep == ASSUME FetchTypeOK, [Next]_vars PROVE FetchTypeOK'
<1>1. CASE UNCHANGED vars
  BY <1>1 DEF FetchTypeOK, vars, btbVars, stage0Vars, epochVars, icacheVars, stage1Vars,
              backVars, progVars, Epochs
<1>2. CASE GenNextPc
  <2>1. PICK r \in Predictions(pc) :
          /\ pc' = NextPc(r)
          /\ delayed' = IF delayed = <<>> /\ EdgeCase(r) /\ r.pred THEN <<r.target>> ELSE <<>>
          /\ pipe0' = Append(pipe0, [word |-> WordOf(pc), discard |-> IsHi(pc),
                                     hi |-> r.hi, pred |-> r.pred])
    BY <1>2 DEF GenNextPc
  <2>2. r.pred \in BOOLEAN /\ r.target \in Half /\ r.hi \in BOOLEAN
    BY PredictionTypes
  <2>3. /\ pc \in Half /\ WordOf(pc) \in Word /\ IsHi(pc) \in BOOLEAN
        /\ Plus(2 * WordOf(pc), 2) \in Half /\ Epochs \in Epoch
    BY Addresses DEF FetchTypeOK
  <2>4. delayed # <<>> => Head(delayed) \in Half
    BY Popped DEF FetchTypeOK
  <2>5. pc' \in Half
    BY <2>1, <2>2, <2>3, <2>4 DEF NextPc
  <2>6. delayed' \in Seq(Half) /\ Len(delayed') <= 1
    BY <2>1, <2>2, Single, Empty
  <2>7. pipe0' \in Seq(WordEntry) /\ Len(pipe0') <= Pipe0Size
    <3>1. [word |-> WordOf(pc), discard |-> IsHi(pc), hi |-> r.hi, pred |-> r.pred] \in WordEntry
      BY <2>2, <2>3 DEF WordEntry
    <3>2. Len(pipe0) < Pipe0Size /\ pipe0 \in Seq(WordEntry)
      BY <1>2 DEF GenNextPc, Send, FetchTypeOK
    <3>3. QED
      BY <2>1, <3>1, <3>2, Pushed DEF Pipe0Size
  <2>8. ireq' \in Seq(Request) /\ Len(ireq') <= IcacheDepth
    <3>1. [word |-> WordOf(pc), ep |-> Epochs, kind |-> "fetch"] \in Request
      BY <2>3 DEF Request
    <3>2. /\ Len(ireq) < IcacheDepth /\ ireq \in Seq(Request)
          /\ ireq' = Append(ireq, [word |-> WordOf(pc), ep |-> Epochs, kind |-> "fetch"])
      BY <1>2 DEF GenNextPc, Send, FetchTypeOK
    <3>3. IcacheDepth \in Nat
      BY FetchAssumption DEF FetchAssumption
    <3>4. QED
      BY <3>1, <3>2, <3>3, Pushed
  <2>9. UNCHANGED <<btbVars, fence, sfence, epochVars, iresp, stale, stage1Vars, pipe1,
                    backVars, progVars>>
    BY <1>2 DEF GenNextPc
  <2>10. QED
    BY <2>5, <2>6, <2>7, <2>8, <2>9
       DEF FetchTypeOK, btbVars, epochVars, stage1Vars, backVars, progVars, Epochs
<1>3. CASE GenFence
  <2>1. ireq' \in Seq(Request) /\ Len(ireq') <= IcacheDepth
    <3>1. PICK kind \in {"fence", "sfence"} : kind = IF fence THEN "fence" ELSE "sfence"
      OBVIOUS
    <3>2. [word |-> WordOf(pc), ep |-> Epochs, kind |-> kind] \in Request
      BY Addresses DEF Request, FetchTypeOK
    <3>3. /\ Len(ireq) < IcacheDepth /\ ireq \in Seq(Request)
          /\ ireq' = Append(ireq, [word |-> WordOf(pc), ep |-> Epochs, kind |-> kind])
      BY <1>3, <3>1 DEF GenFence, Send, FetchTypeOK
    <3>4. IcacheDepth \in Nat
      BY FetchAssumption DEF FetchAssumption
    <3>5. QED
      BY <3>2, <3>3, <3>4, Pushed
  <2>2. /\ fence' = FALSE /\ sfence' = FALSE /\ bpuInit' \in BOOLEAN
        /\ UNCHANGED <<btb, allocate, pc, delayed, epochVars, pipe0, iresp, stale, stage1Vars,
                       pipe1, backVars, progVars>>
    BY <1>3 DEF GenFence, FetchTypeOK
  <2>3. QED
    BY <2>1, <2>2 DEF FetchTypeOK, epochVars, stage1Vars, backVars, progVars, Epochs
<1>4. CASE ClearBtb \/ TrainBtb
  <2>1. Clear \/ \E d \in TrainingData : Train(d)
    BY <1>4, Popped DEF ClearBtb, TrainBtb, FetchTypeOK
  <2>2. /\ td' = <<>> \/ td' = td
        /\ UNCHANGED <<stage0Vars, epochVars, pipe0, icacheVars, stage1Vars, pipe1, pipe2,
                       stall, inFlight, progVars>>
    BY <1>4 DEF ClearBtb, TrainBtb, backVars
  <2>3. QED
    <3>1. td' \in Seq(TrainingData) /\ Len(td') <= 1
      <4>1. CASE td' = <<>>
        BY <4>1, Empty
      <4>2. CASE td' = td
        BY <4>2 DEF FetchTypeOK
      <4>3. QED
        BY <2>2, <4>1, <4>2
    <3>2. /\ btb' \in [0 .. (BtbDepth - 1) -> Entry]
          /\ allocate' \in 0 .. (BtbDepth - 1)
          /\ bpuInit' \in BOOLEAN
      BY <2>1, BtbTypes
    <3>3. QED
      BY <2>2, <3>1, <3>2
       DEF FetchTypeOK, stage0Vars, epochVars, icacheVars, stage1Vars, progVars, Epochs
<1>5. CASE IcacheRespond
  <2>1. /\ ireq # <<>> /\ Len(iresp) < RespSize /\ ireq' = Tail(ireq)
        /\ UNCHANGED <<btbVars, stage0Vars, epochVars, pipe0, stale, stage1Vars, pipe1,
                       backVars, progVars>>
    BY <1>5 DEF IcacheRespond, ResponseFits
  <2>2. /\ ireq \in Seq(Request) /\ Head(ireq) \in Request /\ Tail(ireq) \in Seq(Request)
        /\ Len(Tail(ireq)) = Len(ireq) - 1 /\ Len(ireq) <= IcacheDepth /\ Len(ireq) \in Nat
    BY <2>1, Popped DEF FetchTypeOK
  <2>3. \E a \in Answer : iresp' = Append(iresp, a)
    BY <1>5, RespondShape
  <2>9. iresp \in Seq(Answer) /\ RespSize \in Nat
    BY DEF FetchTypeOK, RespSize
  <2>10. iresp' \in Seq(Answer) /\ Len(iresp') <= RespSize
    BY <2>1, <2>3, <2>9, Pushed
  <2>11. ireq' \in Seq(Request) /\ Len(ireq') <= IcacheDepth
    <3>1. IcacheDepth \in Nat
      BY FetchAssumption DEF FetchAssumption
    <3>2. QED
      BY <2>1, <2>2, <3>1
  <2>12. QED
    BY <2>1, <2>10, <2>11
       DEF FetchTypeOK, btbVars, stage0Vars, epochVars, stage1Vars, backVars, progVars, Epochs
<1>6. CASE IcacheFence
  <2>1. /\ ireq # <<>> /\ ireq' = Tail(ireq) /\ stale' = {}
        /\ UNCHANGED <<btbVars, stage0Vars, epochVars, pipe0, iresp, stage1Vars, pipe1,
                       backVars, progVars>>
    BY <1>6 DEF IcacheFence
  <2>2. ireq' \in Seq(Request) /\ Len(ireq') <= IcacheDepth
    <3>1. IcacheDepth \in Nat
      BY FetchAssumption DEF FetchAssumption
    <3>2. QED
      BY <2>1, <3>1, Popped DEF FetchTypeOK
  <2>3. QED
    BY <2>1, <2>2
       DEF FetchTypeOK, btbVars, stage0Vars, epochVars, stage1Vars, backVars, progVars, Epochs
<1>7. CASE ProcessInstruction
  <2>1. /\ pipe0 # <<>> /\ iresp # <<>> /\ Len(pipe1) < Pipe1Size
        /\ kept' = <<>> \/ kept' = <<UpperHalf>>
        /\ UpperHalf \in HalfEntry /\ receivingUpper' \in BOOLEAN
        /\ Deq \/ UNCHANGED <<iresp, pipe0>>
        /\ UNCHANGED <<btbVars, stage0Vars, epochVars, ireq, stale, backVars, progVars>>
    BY <1>7, ProcessShape
  <2>2. kept' \in Seq(HalfEntry) /\ Len(kept') <= 1
    <3>1. PICK h \in HalfEntry : h = UpperHalf
      BY <2>1
    <3>2. CASE kept' = <<>>
      BY <3>2, Empty
    <3>3. CASE kept' = <<h>>
      BY <3>3
    <3>4. QED
      BY <2>1, <3>1, <3>2, <3>3
  <2>3. pipe1' \in Seq(FetchedEntry) /\ Len(pipe1') <= Pipe1Size
    <3>1. pipe1 \in Seq(FetchedEntry) /\ Pipe1Size \in Nat
      BY DEF FetchTypeOK, Pipe1Size
    <3>2. pipe1' = pipe1 \/ \E e \in FetchedEntry : pipe1' = Append(pipe1, e)
      BY <1>7, ProcessShape
    <3>3. QED
      BY <2>1, <3>1, <3>2, Pushed
  <2>4. /\ iresp' \in Seq(Answer) /\ Len(iresp') <= RespSize
        /\ pipe0' \in Seq(WordEntry) /\ Len(pipe0') <= Pipe0Size
    <3>1. CASE Deq
      BY <2>1, <3>1, Popped DEF Deq, FetchTypeOK, RespSize, Pipe0Size
    <3>2. CASE UNCHANGED <<iresp, pipe0>>
      BY <3>2 DEF FetchTypeOK
    <3>3. QED
      BY <2>1, <3>1, <3>2
  <2>5. QED
    BY <2>1, <2>2, <2>3, <2>4
       DEF FetchTypeOK, btbVars, stage0Vars, epochVars, backVars, progVars, Epochs
<1>8. CASE Decode
  <2>1. /\ pipe1 # <<>> /\ pipe1' = Tail(pipe1)
        /\ \/ pipe2' = <<Head(pipe1)>> /\ stall' = Head(pipe1).trap
           \/ UNCHANGED <<pipe2, stall>>
        /\ UNCHANGED <<btbVars, stage0Vars, epochVars, pipe0, icacheVars, stage1Vars, inFlight,
                       td, progVars>>
    BY <1>8 DEF Decode
  <2>2. Head(pipe1) \in FetchedEntry /\ pipe1' \in Seq(FetchedEntry) /\ Len(pipe1') <= Pipe1Size
    BY <2>1, Popped DEF FetchTypeOK, Pipe1Size
  <2>3. pipe2' \in Seq(FetchedEntry) /\ Len(pipe2') <= 1 /\ stall' \in BOOLEAN
    <3>1. PICK h \in FetchedEntry : h = Head(pipe1)
      BY <2>2
    <3>2. CASE pipe2' = <<Head(pipe1)>> /\ stall' = Head(pipe1).trap
      <4>1. pipe2' = <<h>> /\ stall' = h.trap
        BY <3>1, <3>2
      <4>2. h.trap \in BOOLEAN
        BY DEF FetchedEntry
      <4>3. QED
        BY <4>1, <4>2
    <3>3. CASE UNCHANGED <<pipe2, stall>>
      BY <3>3 DEF FetchTypeOK
    <3>4. QED
      BY <2>1, <3>2, <3>3
  <2>4. QED
    BY <2>1, <2>2, <2>3
       DEF FetchTypeOK, btbVars, stage0Vars, epochVars, icacheVars, stage1Vars, progVars, Epochs
<1>9. CASE ExecDrop \/ ExecPlain
  <2>1. /\ pipe2' = <<>> /\ pipe2 # <<>>
        /\ inFlight' \in BOOLEAN /\ UNCHANGED td /\ NoRedirect /\ ExecFrame
    BY <1>9 DEF ExecDrop, ExecPlain, FetchTypeOK, LiveInExec
  <2>2. InExec \in FetchedEntry
    BY <2>1, Popped DEF FetchTypeOK, InExec
  <2>3. arch' \in Half
    BY <1>9, <2>2, PartsTypes DEF ExecDrop, ExecPlain, FetchTypeOK
  <2>4. pipe2' \in Seq(FetchedEntry) /\ Len(pipe2') <= 1
    BY <2>1, Empty
  <2>5. QED
    BY <2>1, <2>3, <2>4
       DEF FetchTypeOK, NoRedirect, ExecFrame, btbVars, stage0Vars, icacheVars, stage1Vars, Epochs
<1>10. CASE ExecControl
  <2>1. /\ pipe2' = <<>> /\ inFlight' = TRUE /\ ExecFrame /\ arch' \in Half
        /\ \E d \in TrainingData : td' = <<d>>
        /\ (\E target \in Half : ExecRedirects(target)) \/ NoRedirect
    BY <1>10, ExecControlShape
  <2>2. td' \in Seq(TrainingData) /\ Len(td') <= 1 /\ pipe2' \in Seq(FetchedEntry) /\ Len(pipe2') <= 1
    BY <2>1, Single, Empty
  <2>3. CASE NoRedirect
    BY <2>1, <2>2, <2>3
       DEF FetchTypeOK, NoRedirect, ExecFrame, btbVars, stage0Vars, icacheVars, stage1Vars, Epochs
  <2>4. ASSUME NEW target \in Half, ExecRedirects(target) PROVE FetchTypeOK'
    <3>1. pc' \in Half /\ fence' = FALSE /\ sfence' = FALSE /\ delayed' = <<>>
          /\ stall' = FALSE /\ eEpoch' = 1 - eEpoch
      BY <2>4 DEF ExecRedirects, Flush
    <3>2. delayed' \in Seq(Half) /\ Len(delayed') <= 1
      BY <3>1, Empty
    <3>3. Epochs' \in Epoch
      BY <2>1, <3>1 DEF FetchTypeOK, Epoch, Epochs, ExecFrame
    <3>4. QED
      BY <2>1, <2>2, <3>1, <3>2, <3>3
         DEF FetchTypeOK, ExecFrame, btbVars, icacheVars, stage1Vars
  <2>5. QED
    BY <2>1, <2>3, <2>4
<1>11. CASE CommitFetchFault \/ CommitOther \/ CommitFenceI \/ CommitSfence
  <2>1. PICK target \in Half, f \in BOOLEAN, s \in BOOLEAN, v \in Version : WbFlush(target, f, s, v)
    BY <1>11, CommitIsFlush
  <2>2. /\ pc' = target /\ fence' = f /\ sfence' = s /\ delayed' = <<>> /\ wEpoch' = 1 - wEpoch
        /\ stall' = FALSE /\ inFlight' = FALSE /\ ver' = v /\ arch' = target
        /\ stale' = stale \/ stale' = stale \cup {ver}
        /\ UNCHANGED <<btbVars, eEpoch, pipe0, ireq, iresp, stage1Vars, pipe1, pipe2, td>>
    BY <2>1 DEF WbFlush, Flush
  <2>3. delayed' \in Seq(Half) /\ Len(delayed') <= 1
    BY <2>2, Empty
  <2>4. Epochs' \in Epoch
    BY <2>2 DEF FetchTypeOK, Epoch, Epochs
  <2>5. stale' \subseteq Version
    BY <2>2 DEF FetchTypeOK
  <2>6. QED
    BY <2>2, <2>3, <2>4, <2>5 DEF FetchTypeOK, btbVars, stage1Vars
<1>12. QED
  BY <1>1, <1>2, <1>3, <1>4, <1>5, <1>6, <1>7, <1>8, <1>9, <1>10, <1>11 DEF Next, Exec

LEMMA FetchTypeInit == Init => FetchTypeOK
<1> SUFFICES ASSUME Init PROVE FetchTypeOK
  OBVIOUS
<1>1. BtbDepth \in Nat /\ BtbDepth >= 1 /\ Words \in Nat /\ Words >= 1
  BY BtbAssumption DEF BtbAssumption
<1>2. IcacheDepth \in Nat /\ FirstVersion \in Version /\ ResetPc \in Half
  BY FetchAssumption, Addresses DEF FetchAssumption
<1>3. NoEntry \in Entry
  BY <1>1 DEF NoEntry, Entry, ControlInsn, Word, Half
<1>4. /\ btb \in [0 .. (BtbDepth - 1) -> Entry]
      /\ allocate \in 0 .. (BtbDepth - 1) /\ bpuInit \in BOOLEAN
  <2>1. btb = [i \in 0 .. (BtbDepth - 1) |-> NoEntry] /\ allocate = 0 /\ bpuInit = FALSE
    BY DEF Init, BtbInit
  <2>2. btb \in [0 .. (BtbDepth - 1) -> Entry]
    BY <1>3, <2>1
  <2>3. allocate \in 0 .. (BtbDepth - 1)
    BY <1>1, <2>1
  <2>4. QED
    BY <2>1, <2>2, <2>3
<1>5. Epochs \in Epoch
  BY DEF Init, Epochs, Epoch
<1>6. /\ delayed \in Seq(Half) /\ Len(delayed) <= 1
      /\ td \in Seq(TrainingData) /\ Len(td) <= 1
      /\ pipe0 \in Seq(WordEntry) /\ Len(pipe0) <= 3
      /\ ireq \in Seq(Request) /\ Len(ireq) <= IcacheDepth
      /\ iresp \in Seq(Answer) /\ Len(iresp) <= 2
      /\ kept \in Seq(HalfEntry) /\ Len(kept) <= 1
      /\ pipe1 \in Seq(FetchedEntry) /\ Len(pipe1) <= 2
      /\ pipe2 \in Seq(FetchedEntry) /\ Len(pipe2) <= 1
  BY <1>2, FetchAssumption, Empty DEF Init, FetchAssumption
<1>7. /\ {bpuInit, fence, sfence, receivingUpper, stall, inFlight} \subseteq BOOLEAN
      /\ {pc, arch} \subseteq Half
      /\ stale \subseteq Version /\ ver \in Version
  BY <1>2, <1>4 DEF Init
<1>8. QED
  BY <1>4, <1>5, <1>6, <1>7 DEF FetchTypeOK, Pipe0Size, Pipe1Size, RespSize

\* Every register of the fetch side holds a value of its type and no buffer
\* overflows, for any code and any sizes.
THEOREM FetchTypeCorrect == Spec => []FetchTypeOK
<1>1. FetchTypeOK /\ [Next]_vars => FetchTypeOK'
  BY FetchTypeStep
<1>2. QED
  BY <1>1, FetchTypeInit, PTL DEF Spec

-----------------------------------------------------------------------------
(* Pairing                                                                    *)

LEMMA DueStep ==
  ASSUME NEW s, NEW k \in Nat
  PROVE  /\ Due(s, k) \in Nat /\ Due(s, 0) = 0
         /\ Due(s, k + 1) = Due(s, k) + (IF Fetches(s[k + 1]) THEN 1 ELSE 0)
<1> DEFINE D(n) == {j \in 1..n : Fetches(s[j])}
<1>1. ASSUME NEW n \in Nat PROVE IsFiniteSet(D(n))
  <2>1. IsFiniteSet(1..n)
    BY FS_Interval
  <2>2. D(n) \subseteq 1..n
    OBVIOUS
  <2>3. QED
    BY <2>1, <2>2, FS_Subset
<1>2. Cardinality(D(k)) \in Nat
  BY <1>1, FS_CardinalityType
<1>3. D(0) = {} /\ Cardinality({}) = 0
  BY FS_EmptySet
<1>4. CASE Fetches(s[k + 1])
  <2>1. D(k + 1) = D(k) \cup {k + 1} /\ k + 1 \notin D(k)
    BY <1>4
  <2>2. Cardinality(D(k) \cup {k + 1}) = Cardinality(D(k)) + 1
    BY <1>1, <2>1, FS_AddElement
  <2>3. QED
    BY <1>2, <1>3, <1>4, <2>1, <2>2 DEF Due
<1>5. CASE ~ Fetches(s[k + 1])
  <2>1. D(k + 1) = D(k)
    BY <1>5
  <2>2. QED
    BY <1>2, <1>3, <1>5, <2>1 DEF Due
<1>6. QED
  BY <1>4, <1>5

\* A request behind changes no count in front of it.
LEMMA DueAlike ==
  ASSUME NEW s, NEW t, NEW k \in Nat, \A j \in 1..k : s[j] = t[j]
  PROVE  Due(s, k) = Due(t, k)
<1>1. {j \in 1..k : Fetches(s[j])} = {j \in 1..k : Fetches(t[j])}
  OBVIOUS
<1>2. QED
  BY <1>1 DEF Due

\* Without the first request each count is one less, if that is a fetch.
LEMMA DueTail ==
  ASSUME NEW s, NEW t, NEW k \in Nat, \A j \in 1..k : t[j] = s[j + 1]
  PROVE  Due(s, k + 1) = Due(t, k) + (IF Fetches(s[1]) THEN 1 ELSE 0)
<1> DEFINE A == {j \in 1..k : Fetches(t[j])}
           B == {j \in 2..(k + 1) : Fetches(s[j])}
           f == [j \in A |-> j + 1]
<1>1. IsFiniteSet(A)
  <2>1. IsFiniteSet(1..k) /\ A \subseteq 1..k
    BY FS_Interval
  <2>2. QED
    BY <2>1, FS_Subset
<1>2. ExistsBijection(A, B)
  <2>1. f \in [A -> B]
    OBVIOUS
  <2>2. \A a, b \in A : f[a] = f[b] => a = b
    OBVIOUS
  <2>3. ASSUME NEW b \in B PROVE \E a \in A : f[a] = b
    <3>1. b - 1 \in A /\ f[b - 1] = b
      OBVIOUS
    <3>2. QED
      BY <3>1
  <2>4. f \in Bijection(A, B)
    <3> HIDE DEF f, A, B
    <3>1. QED
      BY <2>1, <2>2, <2>3, Fun_IsBij
  <2>5. QED
    BY <2>4 DEF ExistsBijection
<1>3. IsFiniteSet(B) /\ Cardinality(B) = Cardinality(A)
  <2> HIDE DEF A, B
  <2>1. QED
    BY <1>1, <1>2, FS_Bijection
<1>4. Cardinality(A) \in Nat
  BY <1>1, FS_CardinalityType
<1>5. CASE Fetches(s[1])
  <2>1. {j \in 1..(k + 1) : Fetches(s[j])} = B \cup {1} /\ 1 \notin B
    BY <1>5
  <2>2. Cardinality(B \cup {1}) = Cardinality(B) + 1
    BY <1>3, <2>1, FS_AddElement
  <2>3. QED
    BY <1>3, <1>4, <1>5, <2>1, <2>2 DEF Due
<1>6. CASE ~ Fetches(s[1])
  <2>1. {j \in 1..(k + 1) : Fetches(s[j])} = B
    BY <1>6
  <2>2. QED
    BY <1>3, <1>4, <1>6, <2>1 DEF Due
<1>7. QED
  BY <1>5, <1>6

\* A fetch is among those counted up to it, and all are by the end.
LEMMA DueBounds ==
  ASSUME NEW s, NEW m \in Nat, NEW k \in 1..m, Fetches(s[k])
  PROVE  Due(s, k) >= 1 /\ Due(s, k) <= Due(s, m)
<1>1. k - 1 \in Nat /\ (k - 1) + 1 = k
  OBVIOUS
<1>2. Due(s, k) = Due(s, k - 1) + 1 /\ Due(s, k - 1) \in Nat
  BY <1>1, DueStep
<1>3. IsFiniteSet({j \in 1..m : Fetches(s[j])})
  <2>1. IsFiniteSet(1..m) /\ {j \in 1..m : Fetches(s[j])} \subseteq 1..m
    BY FS_Interval
  <2>2. QED
    BY <2>1, FS_Subset
<1>4. {j \in 1..k : Fetches(s[j])} \subseteq {j \in 1..m : Fetches(s[j])}
  OBVIOUS
<1>5. Due(s, k) <= Due(s, m)
  BY <1>3, <1>4, FS_Subset DEF Due
<1>6. QED
  BY <1>2, <1>5

\* What the steps do to the entries, the requests and the answers.
LEMMA PairedStep == FetchTypeOK /\ PairedByOrder /\ [Next]_vars => PairedByOrder'
<1> SUFFICES ASSUME FetchTypeOK, PairedByOrder, [Next]_vars PROVE PairedByOrder'
  OBVIOUS
<1> DEFINE n == Len(ireq)
           m == Len(iresp)
<1>0. /\ n \in Nat /\ m \in Nat /\ Len(pipe0) \in Nat
      /\ pipe0 \in Seq(WordEntry) /\ ireq \in Seq(Request) /\ iresp \in Seq(Answer)
  BY LenProperties DEF FetchTypeOK
<1>1. /\ Len(pipe0) = m + Due(ireq, n)
      /\ \A i \in 1..m : pipe0[i].word = iresp[i].word
      /\ \A k \in 1..n : Fetches(ireq[k]) => pipe0[m + Due(ireq, k)].word = ireq[k].word
  BY DEF PairedByOrder
<1>2. Due(ireq, n) \in Nat /\ \A k \in 1..n : Due(ireq, k) \in Nat
  BY <1>0, DueStep
<1>3. \A k \in 1..n : Fetches(ireq[k]) => Due(ireq, k) >= 1 /\ Due(ireq, k) <= Due(ireq, n)
  BY <1>0, DueBounds
<1>4. CASE UNCHANGED <<pipe0, ireq, iresp>>
  BY <1>4 DEF PairedByOrder
<1>5. ASSUME NEW r \in Request, ireq' = Append(ireq, r)
      PROVE  /\ Len(ireq') = n + 1 /\ ireq'[n + 1] = r
             /\ \A k \in 1..n : ireq'[k] = ireq[k] /\ Due(ireq', k) = Due(ireq, k)
             /\ Due(ireq', n + 1) = Due(ireq, n) + (IF Fetches(r) THEN 1 ELSE 0)
  <2>1. /\ Len(ireq') = n + 1 /\ ireq'[n + 1] = r
        /\ \A k \in 1..n : ireq'[k] = ireq[k]
    BY <1>0, <1>5, Pushed
  <2>2. ASSUME NEW k \in 0..n PROVE Due(ireq', k) = Due(ireq, k)
    <3>1. k \in Nat /\ \A j \in 1..k : ireq'[j] = ireq[j]
      BY <1>0, <2>1
    <3>2. QED
      BY <3>1, DueAlike
  <2>3. Due(ireq', n + 1) = Due(ireq', n) + (IF Fetches(ireq'[n + 1]) THEN 1 ELSE 0)
    BY <1>0, DueStep
  <2>4. n \in 0..n
    BY <1>0
  <2>5. QED
    BY <2>1, <2>2, <2>3, <2>4
<1>6. CASE GenNextPc
  <2>1. PICK e \in WordEntry : e.word = WordOf(pc) /\ pipe0' = Append(pipe0, e)
    <3>1. PICK r \in Predictions(pc) :
            pipe0' = Append(pipe0, [word |-> WordOf(pc), discard |-> IsHi(pc),
                                    hi |-> r.hi, pred |-> r.pred])
      BY <1>6 DEF GenNextPc
    <3>2. r.pred \in BOOLEAN /\ r.hi \in BOOLEAN
      BY PredictionTypes
    <3>3. WordOf(pc) \in Word /\ IsHi(pc) \in BOOLEAN
      BY Addresses DEF FetchTypeOK
    <3>4. [word |-> WordOf(pc), discard |-> IsHi(pc), hi |-> r.hi, pred |-> r.pred] \in WordEntry
      BY <3>2, <3>3 DEF WordEntry
    <3>5. QED
      BY <3>1, <3>4
  <2>2. PICK r \in Request : /\ r.word = WordOf(pc) /\ Fetches(r) /\ ireq' = Append(ireq, r)
    <3>1. ireq' = Append(ireq, [word |-> WordOf(pc), ep |-> Epochs, kind |-> "fetch"])
      BY <1>6 DEF GenNextPc, Send
    <3>2. WordOf(pc) \in Word /\ Epochs \in Epoch
      BY Addresses DEF FetchTypeOK
    <3>3. [word |-> WordOf(pc), ep |-> Epochs, kind |-> "fetch"] \in Request
      BY <3>2 DEF Request
    <3>4. QED
      BY <3>1, <3>3 DEF Fetches
  <2>3. iresp' = iresp
    BY <1>6 DEF GenNextPc
  <2>4. /\ Len(pipe0') = Len(pipe0) + 1 /\ pipe0'[Len(pipe0) + 1] = e
        /\ \A i \in 1..Len(pipe0) : pipe0'[i] = pipe0[i]
    BY <1>0, <2>1, Pushed
  <2>5. /\ Len(ireq') = n + 1 /\ ireq'[n + 1] = r
        /\ \A k \in 1..n : ireq'[k] = ireq[k] /\ Due(ireq', k) = Due(ireq, k)
        /\ Due(ireq', n + 1) = Due(ireq, n) + 1
    BY <1>5, <2>2
  <2>6. \A k \in 1..n : Fetches(ireq[k]) => m + Due(ireq, k) \in 1..Len(pipe0)
    BY <1>0, <1>1, <1>2, <1>3
  <2>7. Len(pipe0') = m + Due(ireq', Len(ireq'))
    BY <1>0, <1>1, <1>2, <2>4, <2>5
  <2>8. \A i \in 1..m : pipe0'[i].word = iresp[i].word
    BY <1>0, <1>1, <1>2, <2>4
  <2>9. ASSUME NEW k \in 1..(n + 1), Fetches(ireq'[k])
        PROVE  pipe0'[m + Due(ireq', k)].word = ireq'[k].word
    <3>1. CASE k \in 1..n
      BY <1>1, <2>4, <2>5, <2>6, <2>9, <3>1
    <3>2. CASE k = n + 1
      <4>1. m + Due(ireq', k) = Len(pipe0) + 1
        BY <1>0, <1>1, <1>2, <2>5, <3>2
      <4>2. QED
        BY <2>1, <2>2, <2>4, <2>5, <3>2, <4>1
    <3>3. QED
      BY <1>0, <3>1, <3>2
  <2>10. QED
    BY <2>3, <2>5, <2>7, <2>8, <2>9 DEF PairedByOrder
<1>7. CASE GenFence
  <2>1. PICK r \in Request : ~ Fetches(r) /\ ireq' = Append(ireq, r)
    <3>1. PICK kind \in {"fence", "sfence"} : kind = IF fence THEN "fence" ELSE "sfence"
      OBVIOUS
    <3>2. ireq' = Append(ireq, [word |-> WordOf(pc), ep |-> Epochs, kind |-> kind])
      BY <1>7, <3>1 DEF GenFence, Send
    <3>3. [word |-> WordOf(pc), ep |-> Epochs, kind |-> kind] \in Request
      BY Addresses DEF Request, FetchTypeOK
    <3>4. QED
      BY <3>2, <3>3 DEF Fetches
  <2>2. iresp' = iresp /\ pipe0' = pipe0
    BY <1>7 DEF GenFence
  <2>3. /\ Len(ireq') = n + 1 /\ ireq'[n + 1] = r
        /\ \A k \in 1..n : ireq'[k] = ireq[k] /\ Due(ireq', k) = Due(ireq, k)
        /\ Due(ireq', n + 1) = Due(ireq, n)
    <3>1. n \in 0..n
      BY <1>0
    <3>2. QED
      BY <1>2, <1>5, <2>1, <3>1
  <2>4. ASSUME NEW k \in 1..(n + 1), Fetches(ireq'[k])
        PROVE  pipe0[m + Due(ireq', k)].word = ireq'[k].word
    <3>1. k \in 1..n
      BY <1>0, <2>1, <2>3, <2>4
    <3>2. QED
      BY <1>1, <2>3, <2>4, <3>1
  <2>5. QED
    BY <1>1, <2>2, <2>3, <2>4 DEF PairedByOrder
<1>8. CASE IcacheRespond \/ IcacheFence
  <2>1. ireq # <<>> /\ ireq' = Tail(ireq) /\ pipe0' = pipe0
    BY <1>8 DEF IcacheRespond, IcacheFence
  <2>2. /\ Len(ireq') = n - 1 /\ n >= 1 /\ ireq[1] = Head(ireq)
        /\ \A k \in 1..(n - 1) : k + 1 \in 1..n /\ ireq'[k] = ireq[k + 1]
    BY <1>0, <2>1, Popped
  <2>3. ASSUME NEW k \in 0..(n - 1)
        PROVE  Due(ireq, k + 1) = Due(ireq', k) + (IF Fetches(Head(ireq)) THEN 1 ELSE 0)
    <3>1. k \in Nat /\ \A j \in 1..k : ireq'[j] = ireq[j + 1]
      BY <1>0, <2>2
    <3>2. QED
      BY <2>2, <3>1, DueTail
  <2>4. /\ n - 1 \in 0..(n - 1) /\ (n - 1) + 1 = n
        /\ \A k \in 0..(n - 1) : Due(ireq', k) \in Nat
    BY <1>0, <2>2, DueStep
  <2>5. CASE IcacheFence
    <3>1. ~ Fetches(Head(ireq)) /\ iresp' = iresp
      BY <2>5 DEF IcacheFence, Fetches
    <3>2. \A k \in 0..(n - 1) : Due(ireq, k + 1) = Due(ireq', k)
      BY <2>3, <2>4, <3>1
    <3>3. Len(pipe0) = m + Due(ireq', n - 1)
      BY <1>1, <2>4, <3>2
    <3>4. ASSUME NEW k \in 1..(n - 1), Fetches(ireq'[k])
          PROVE  pipe0[m + Due(ireq', k)].word = ireq'[k].word
      BY <1>0, <1>1, <2>2, <3>2, <3>4
    <3>5. QED
      BY <1>1, <2>1, <2>2, <3>1, <3>3, <3>4 DEF PairedByOrder
  <2>6. CASE IcacheRespond
    <3>1. Fetches(Head(ireq))
      BY <2>6 DEF IcacheRespond, Fetches
    <3>2. PICK a \in Answer : a.word = Head(ireq).word /\ iresp' = Append(iresp, a)
      <4>1. PICK a \in Answer : iresp' = Append(iresp, a) /\ a.word = Head(ireq).word
        BY <2>6, RespondShape
      <4>2. QED
        BY <4>1
    <3>3. \A k \in 0..(n - 1) : Due(ireq, k + 1) = Due(ireq', k) + 1
      BY <2>3, <3>1
    <3>4. /\ Len(iresp') = m + 1 /\ iresp'[m + 1] = a
          /\ \A i \in 1..m : iresp'[i] = iresp[i]
      BY <1>0, <3>2, Pushed
    <3>5. Len(pipe0) = (m + 1) + Due(ireq', n - 1)
      <4>1. Due(ireq, n) = Due(ireq', n - 1) + 1 /\ Due(ireq', n - 1) \in Nat
        BY <2>4, <3>3
      <4>2. QED
        BY <1>0, <1>1, <4>1
    <3>6. pipe0[m + 1].word = a.word
      <4>1. 0 \in 0..(n - 1) /\ 1 \in 1..n /\ 0 + 1 = 1
        BY <1>0, <2>2
      <4>2. Due(ireq, 0 + 1) = Due(ireq', 0) + 1 /\ Due(ireq', 0) = 0
        BY <3>3, <4>1, DueStep
      <4>3. Due(ireq, 1) = 1
        BY <4>1, <4>2
      <4>4. QED
        BY <1>1, <2>2, <3>1, <3>2, <4>1, <4>3
    <3>7. \A i \in 1..(m + 1) : pipe0[i].word = iresp'[i].word
      BY <1>0, <1>1, <3>4, <3>6
    <3>8. ASSUME NEW k \in 1..(n - 1), Fetches(ireq'[k])
          PROVE  pipe0[(m + 1) + Due(ireq', k)].word = ireq'[k].word
      <4>1. k \in 0..(n - 1) /\ k + 1 \in 1..n /\ ireq'[k] = ireq[k + 1]
        BY <1>0, <2>2
      <4>2. (m + 1) + Due(ireq', k) = m + Due(ireq, k + 1)
        BY <1>0, <2>4, <3>3, <4>1
      <4>3. QED
        BY <1>1, <3>8, <4>1, <4>2
    <3>9. QED
      BY <2>1, <2>2, <3>4, <3>5, <3>7, <3>8 DEF PairedByOrder
  <2>7. QED
    BY <1>8, <2>5, <2>6
<1>9. CASE ProcessInstruction
  <2>1. /\ pipe0 # <<>> /\ iresp # <<>> /\ ireq' = ireq
        /\ Deq \/ UNCHANGED <<iresp, pipe0>>
    BY <1>9, ProcessShape
  <2>2. CASE Deq
    <3>1. /\ Len(pipe0') = Len(pipe0) - 1
          /\ \A i \in 1..(Len(pipe0) - 1) : pipe0'[i] = pipe0[i + 1]
      BY <1>0, <2>1, <2>2, Popped DEF Deq
    <3>2. /\ Len(iresp') = m - 1 /\ m >= 1
          /\ \A i \in 1..(m - 1) : i + 1 \in 1..m /\ iresp'[i] = iresp[i + 1]
      BY <1>0, <2>1, <2>2, Popped DEF Deq
    <3>3. Len(pipe0') = Len(iresp') + Due(ireq, n)
      BY <1>0, <1>1, <1>2, <3>1, <3>2
    <3>4. ASSUME NEW i \in 1..(m - 1) PROVE pipe0'[i].word = iresp'[i].word
      <4>1. i + 1 \in 1..m /\ iresp'[i] = iresp[i + 1]
        BY <3>2
      <4>2. i \in 1..(Len(pipe0) - 1)
        BY <1>0, <1>1, <1>2, <3>2
      <4>3. pipe0'[i] = pipe0[i + 1]
        BY <3>1, <4>2
      <4>4. pipe0[i + 1].word = iresp[i + 1].word
        BY <1>1, <4>1
      <4>5. QED
        BY <4>1, <4>3, <4>4
    <3>5. ASSUME NEW k \in 1..n, Fetches(ireq[k])
          PROVE  pipe0'[(m - 1) + Due(ireq, k)].word = ireq[k].word
      <4>1. /\ Due(ireq, k) \in Nat /\ Due(ireq, n) \in Nat
            /\ Due(ireq, k) >= 1 /\ Due(ireq, k) <= Due(ireq, n)
            /\ Len(pipe0) = m + Due(ireq, n) /\ m >= 1
        BY <1>1, <1>2, <1>3, <3>2, <3>5
      <4>2. \A a, d, all \in Nat :
              a >= 1 /\ d >= 1 /\ d <= all =>
                (a - 1) + d \in 1..((a + all) - 1) /\ ((a - 1) + d) + 1 = a + d
        OBVIOUS
      <4>3. /\ (m - 1) + Due(ireq, k) \in 1..(Len(pipe0) - 1)
            /\ ((m - 1) + Due(ireq, k)) + 1 = m + Due(ireq, k)
        BY <1>0, <4>1, <4>2
      <4>4. QED
        BY <1>1, <3>1, <3>5, <4>3
    <3>6. QED
      BY <2>1, <3>2, <3>3, <3>4, <3>5 DEF PairedByOrder
  <2>3. QED
    BY <1>4, <2>1, <2>2
<1>10. CASE ClearBtb \/ TrainBtb \/ Decode \/ ExecDrop \/ ExecPlain
  BY <1>4, <1>10 DEF ClearBtb, TrainBtb, Decode, ExecDrop, ExecPlain, ExecFrame, icacheVars
<1>11. CASE ExecControl
  BY <1>4, <1>11, ExecControlShape DEF ExecFrame, icacheVars
<1>12. CASE CommitFetchFault \/ CommitOther \/ CommitFenceI \/ CommitSfence
  BY <1>4, <1>12, CommitIsFlush DEF WbFlush
<1>13. CASE UNCHANGED vars
  BY <1>4, <1>13 DEF vars, icacheVars
<1>14. QED
  BY <1>6, <1>7, <1>8, <1>9, <1>10, <1>11, <1>12, <1>13 DEF Next, Exec

\* The entries of pipe0, which carry no epoch, are paired with their own answers
\* over any number of flushes and fences.
THEOREM Pairing == Spec => []PairedByOrder
<1>1. Init => PairedByOrder
  <2>1. Due(<<>>, 0) = 0 /\ Len(<<>>) = 0
    BY DueStep
  <2>2. QED
    BY <2>1 DEF Init, PairedByOrder
<1>2. FetchTypeOK /\ PairedByOrder /\ [Next]_vars => PairedByOrder'
  BY PairedStep
<1>3. QED
  BY <1>1, <1>2, FetchTypeCorrect, PTL DEF Spec

-----------------------------------------------------------------------------
(* What is to be kept                                                         *)

LEMMA EmptyStream ==
  ASSUME NEW ep
  PROVE  AllOf(<<>>, ep) /\ NoneOf(<<>>, ep) /\ LastOf(<<>>, ep)
BY DEF AllOf, NoneOf, LastOf

LEMMA TailStream ==
  ASSUME NEW S, NEW s \in Seq(S), s # <<>>, NEW ep
  PROVE  /\ AllOf(s, ep) => Head(s).ep = ep /\ AllOf(Tail(s), ep)
         /\ NoneOf(s, ep) => Head(s).ep # ep /\ NoneOf(Tail(s), ep)
         /\ LastOf(s, ep) => LastOf(Tail(s), ep)
         /\ LastOf(s, ep) /\ Head(s).ep = ep => AllOf(s, ep)
<1>1. /\ s[1] = Head(s) /\ Len(s) \in Nat /\ Len(s) >= 1 /\ Len(Tail(s)) = Len(s) - 1
      /\ \A i \in 1..Len(Tail(s)) : i + 1 \in 1..Len(s) /\ Tail(s)[i] = s[i + 1]
  BY Popped
<1>2. 1 \in 1..Len(s)
  BY <1>1
<1>3. AllOf(s, ep) => Head(s).ep = ep /\ AllOf(Tail(s), ep)
  BY <1>1, <1>2 DEF AllOf
<1>4. NoneOf(s, ep) => Head(s).ep # ep /\ NoneOf(Tail(s), ep)
  BY <1>1, <1>2 DEF NoneOf
<1>5. LastOf(s, ep) => LastOf(Tail(s), ep)
  <2> SUFFICES ASSUME LastOf(s, ep), NEW i \in 1..Len(Tail(s)), NEW j \in 1..Len(Tail(s)),
                      i < j, Tail(s)[i].ep = ep
               PROVE  Tail(s)[j].ep = ep
    BY DEF LastOf
  <2>1. i + 1 \in 1..Len(s) /\ j + 1 \in 1..Len(s) /\ i + 1 < j + 1
    BY <1>1
  <2>2. s[i + 1].ep = ep
    BY <1>1
  <2>3. s[j + 1].ep = ep
    BY <2>1, <2>2 DEF LastOf
  <2>4. QED
    BY <1>1, <2>3
<1>6. LastOf(s, ep) /\ Head(s).ep = ep => AllOf(s, ep)
  <2> SUFFICES ASSUME LastOf(s, ep), Head(s).ep = ep, NEW i \in 1..Len(s)
               PROVE  s[i].ep = ep
    BY DEF AllOf
  <2>1. CASE i = 1
    BY <1>1, <2>1
  <2>2. CASE i # 1
    <3>1. 1 < i
      BY <1>1, <2>2
    <3>2. QED
      BY <1>1, <1>2, <3>1 DEF LastOf
  <2>3. QED
    BY <2>1, <2>2
<1>7. QED
  BY <1>3, <1>4, <1>5, <1>6

LEMMA AppendStream ==
  ASSUME NEW S, NEW s \in Seq(S), NEW e \in S, NEW ep
  PROVE  /\ AllOf(s, ep) /\ e.ep = ep => AllOf(Append(s, e), ep)
         /\ NoneOf(s, ep) /\ e.ep # ep => NoneOf(Append(s, e), ep)
         /\ LastOf(s, ep) /\ e.ep = ep => LastOf(Append(s, e), ep)
         /\ NoneOf(s, ep) => LastOf(Append(s, e), ep)
<1> DEFINE t == Append(s, e)
<1>1. /\ Len(t) = Len(s) + 1 /\ Len(s) \in Nat /\ t[Len(s) + 1] = e
      /\ \A i \in 1..Len(s) : t[i] = s[i]
  BY Pushed
<1>2. \A i \in 1..Len(t) : i \in 1..Len(s) \/ i = Len(s) + 1
  BY <1>1
<1> HIDE DEF t
<1>3. AllOf(s, ep) /\ e.ep = ep => AllOf(t, ep)
  BY <1>1, <1>2 DEF AllOf
<1>4. NoneOf(s, ep) /\ e.ep # ep => NoneOf(t, ep)
  BY <1>1, <1>2 DEF NoneOf
<1>5. ASSUME (LastOf(s, ep) /\ e.ep = ep) \/ NoneOf(s, ep) PROVE LastOf(t, ep)
  <2> SUFFICES ASSUME NEW i \in 1..Len(t), NEW j \in 1..Len(t), i < j, t[i].ep = ep
               PROVE  t[j].ep = ep
    BY DEF LastOf
  <2>1. i \in 1..Len(s)
    BY <1>1
  <2>2. t[i] = s[i] /\ s[i].ep = ep
    BY <1>1, <2>1
  <2>3. LastOf(s, ep) /\ e.ep = ep
    BY <1>5, <2>1, <2>2 DEF NoneOf
  <2>4. CASE j \in 1..Len(s)
    BY <1>1, <2>1, <2>2, <2>3, <2>4 DEF LastOf
  <2>5. CASE j = Len(s) + 1
    BY <1>1, <2>3, <2>5
  <2>6. QED
    BY <1>2, <2>4, <2>5
<1>6. QED
  BY <1>3, <1>4, <1>5 DEF t

LEMMA SingleStream ==
  ASSUME NEW e, NEW ep
  PROVE  AllOf(<<e>>, ep) <=> e.ep = ep
BY DEF AllOf

\* A flush of execute leaves nothing of what was to be kept, and a flush of write
\* back nothing that was fetched since the last one.
LEMMA Flushed ==
  ASSUME NEW s, eEpoch \in {0, 1}, wEpoch \in {0, 1}
  PROVE  /\ AllOf(s, Epochs) => SinceWb(s) /\ NoneOf(s, <<1 - eEpoch, wEpoch>>)
         /\ SinceWb(s) => NoneOf(s, <<eEpoch, 1 - wEpoch>>)
         /\ NoneOf(s, <<1 - eEpoch, wEpoch>>) => LastOf(s, <<1 - eEpoch, wEpoch>>)
         /\ NoneOf(s, <<eEpoch, 1 - wEpoch>>) => LastOf(s, <<eEpoch, 1 - wEpoch>>)
<1>1. /\ Epochs[2] = wEpoch /\ <<1 - eEpoch, wEpoch>> # Epochs
      /\ <<eEpoch, 1 - wEpoch>>[2] # wEpoch
  BY DEF Epochs
<1>2. \A ep : NoneOf(s, ep) => LastOf(s, ep)
  BY DEF NoneOf, LastOf
<1>3. QED
  BY <1>1, <1>2 DEF AllOf, NoneOf, SinceWb

LEMMA EpochValues ==
  ASSUME FetchTypeOK
  PROVE  /\ eEpoch \in {0, 1} /\ wEpoch \in {0, 1}
         /\ pipe1 \in Seq(FetchedEntry) /\ pipe2 \in Seq(FetchedEntry)
         /\ kept \in Seq(HalfEntry) /\ iresp \in Seq(Answer) /\ ireq \in Seq(Request)
BY DEF FetchTypeOK, Epochs, Epoch

\* An instruction about to execute is older than all that is to be kept.
LEMMA LiveBehind ==
  ASSUME FetchTypeOK, EpochInv, LiveInExec
  PROVE  /\ AllOf(pipe2, Epochs) /\ AllOf(pipe1, Epochs) /\ AllOf(kept, Epochs)
         /\ AllOf(iresp, Epochs) /\ AllOf(ireq, Epochs)
         /\ AllSinceWb
<1>1. Len(pipe2) <= 1 /\ pipe2 \in Seq(FetchedEntry) /\ pipe2 # <<>> /\ Head(pipe2).ep = Epochs
  BY DEF FetchTypeOK, LiveInExec, InExec
<1>2. Len(pipe2) = 1 /\ pipe2[1] = Head(pipe2)
  <2>1. Len(pipe2) \in Nat /\ Len(pipe2) >= 1 /\ pipe2[1] = Head(pipe2)
    BY <1>1, Popped
  <2>2. \A x \in Nat : x <= 1 /\ x >= 1 => x = 1
    OBVIOUS
  <2>3. QED
    BY <1>1, <2>1, <2>2
<1>3. AllOf(pipe2, Epochs) /\ ~ NoneOf(pipe2, Epochs)
  BY <1>1, <1>2 DEF AllOf, NoneOf
<1>4. /\ AllOf(pipe1, Epochs) /\ AllOf(kept, Epochs)
      /\ AllOf(iresp, Epochs) /\ AllOf(ireq, Epochs)
  BY <1>3 DEF EpochInv, NothingRead
<1>5. QED
  BY <1>3, <1>4, Flushed, EpochValues DEF AllSinceWb

\* A request leaves stage0 with the current epochs.
LEMMA SendShape ==
  ASSUME FetchTypeOK, GenNextPc \/ GenFence
  PROVE  /\ \E r \in Request : r.ep = Epochs /\ ireq' = Append(ireq, r) /\ (Fetches(r) <=> GenNextPc)
         /\ fence' = FALSE /\ sfence' = FALSE /\ (GenNextPc => ~ fence /\ ~ sfence)
         /\ UNCHANGED <<epochVars, iresp, stale, stage1Vars, pipe1, backVars, progVars>>
<1>1. WordOf(pc) \in Word /\ Epochs \in Epoch
  BY Addresses DEF FetchTypeOK
<1>2. CASE GenNextPc
  <2>1. ireq' = Append(ireq, [word |-> WordOf(pc), ep |-> Epochs, kind |-> "fetch"])
    BY <1>2 DEF GenNextPc, Send
  <2>2. PICK r \in Request : r = [word |-> WordOf(pc), ep |-> Epochs, kind |-> "fetch"]
    BY <1>1 DEF Request
  <2>3. /\ UNCHANGED <<epochVars, iresp, stale, stage1Vars, pipe1, backVars, progVars>>
        /\ ~ fence /\ ~ sfence /\ fence' = fence /\ sfence' = sfence
    BY <1>2 DEF GenNextPc
  <2>4. r.ep = Epochs /\ Fetches(r)
    BY <2>2 DEF Fetches
  <2>5. fence' = FALSE /\ sfence' = FALSE
    BY <2>3 DEF FetchTypeOK
  <2>6. QED
    BY <1>2, <2>1, <2>2, <2>3, <2>4, <2>5
<1>3. CASE GenFence
  <2>1. PICK kind \in {"fence", "sfence"} : kind = IF fence THEN "fence" ELSE "sfence"
    OBVIOUS
  <2>2. ireq' = Append(ireq, [word |-> WordOf(pc), ep |-> Epochs, kind |-> kind])
    BY <1>3, <2>1 DEF GenFence, Send
  <2>3. PICK r \in Request : r = [word |-> WordOf(pc), ep |-> Epochs, kind |-> kind]
    BY <1>1 DEF Request
  <2>4. /\ UNCHANGED <<epochVars, iresp, stale, stage1Vars, pipe1, backVars, progVars>>
        /\ fence' = FALSE /\ sfence' = FALSE
    BY <1>3 DEF GenFence
  <2>5. r.ep = Epochs /\ ~ Fetches(r)
    BY <2>3 DEF Fetches
  <2>6. fence' = FALSE /\ sfence' = FALSE /\ ~ GenNextPc
    BY <1>3 DEF GenFence, GenNextPc
  <2>7. QED
    BY <2>2, <2>3, <2>4, <2>5, <2>6
<1>4. QED
  BY <1>2, <1>3

\* A step of stage1 on an answer to be dropped, and on one to be kept.
LEMMA ProcessEpochs ==
  ASSUME FetchTypeOK, EpochInv, ProcessInstruction
  PROVE  /\ UNCHANGED <<epochVars, ireq, stale, stage0Vars, backVars, progVars>>
         /\ Resp.ep # Epochs =>
              /\ kept' = <<>> /\ receivingUpper' = FALSE /\ pipe1' = pipe1 /\ iresp' = Tail(iresp)
              /\ NoneOf(pipe2, Epochs) /\ NoneOf(pipe1, Epochs) /\ NoneOf(kept, Epochs)
         /\ Resp.ep = Epochs =>
              /\ AllOf(iresp, Epochs) /\ AllOf(ireq, Epochs)
              /\ kept' = <<>> \/ kept' = <<UpperHalf>>
              /\ pipe1' = pipe1 \/ \E e \in FetchedEntry : e.ep = Epochs /\ pipe1' = Append(pipe1, e)
              /\ iresp' = iresp \/ iresp' = Tail(iresp)
<1>1. /\ pipe0 # <<>> /\ iresp # <<>> /\ Len(pipe1) < Pipe1Size
      /\ kept' = <<>> \/ kept' = <<UpperHalf>>
      /\ pipe1' = pipe1 \/ \E e \in FetchedEntry : e.ep = Epochs /\ pipe1' = Append(pipe1, e)
      /\ Deq \/ UNCHANGED <<iresp, pipe0>>
      /\ UNCHANGED <<btbVars, stage0Vars, epochVars, ireq, stale, backVars, progVars>>
  BY ProcessShape
<1>2. iresp \in Seq(Answer)
  BY EpochValues
<1>3. /\ AllOf(iresp, Epochs) => Head(iresp).ep = Epochs
      /\ NoneOf(iresp, Epochs) => Head(iresp).ep # Epochs
      /\ LastOf(iresp, Epochs) /\ Head(iresp).ep = Epochs => AllOf(iresp, Epochs)
  BY <1>1, <1>2, TailStream
<1>4. ASSUME Resp.ep # Epochs
      PROVE  /\ kept' = <<>> /\ receivingUpper' = FALSE /\ pipe1' = pipe1 /\ iresp' = Tail(iresp)
             /\ NoneOf(pipe2, Epochs) /\ NoneOf(pipe1, Epochs) /\ NoneOf(kept, Epochs)
  <2>1. DropResponse
    BY <1>4 DEF ProcessInstruction
  <2>2. ~ AllOf(iresp, Epochs)
    BY <1>3, <1>4 DEF Resp
  <2>3. QED
    BY <2>1, <2>2 DEF DropResponse, Deq, Settle, EpochInv
<1>5. ASSUME Resp.ep = Epochs
      PROVE  AllOf(iresp, Epochs) /\ AllOf(ireq, Epochs)
  BY <1>3, <1>5 DEF Resp, EpochInv, NothingRead
<1>6. iresp' = iresp \/ iresp' = Tail(iresp)
  BY <1>1 DEF Deq
<1>7. QED
  BY <1>1, <1>4, <1>5, <1>6

\* What decode takes.
LEMMA DecodeEpochs ==
  ASSUME FetchTypeOK, EpochInv, Decode
  PROVE  /\ pipe1 # <<>> /\ pipe2 = <<>> /\ ~ stall /\ pipe1' = Tail(pipe1)
         /\ Head(pipe1) \in FetchedEntry
         /\ Head(pipe1).ep = Epochs =>
              /\ pipe2' = <<Head(pipe1)>> /\ stall' = Head(pipe1).trap
              /\ AllOf(pipe1, Epochs) /\ AllOf(kept, Epochs)
              /\ AllOf(iresp, Epochs) /\ AllOf(ireq, Epochs)
         /\ Head(pipe1).ep # Epochs => UNCHANGED <<pipe2, stall>>
         /\ UNCHANGED <<stage0Vars, epochVars, icacheVars, stage1Vars, inFlight, progVars>>
<1>1. /\ pipe1 # <<>> /\ pipe2 = <<>> /\ ~ stall /\ pipe1' = Tail(pipe1)
      /\ Head(pipe1).ep = Epochs => pipe2' = <<Head(pipe1)>> /\ stall' = Head(pipe1).trap
      /\ Head(pipe1).ep # Epochs => UNCHANGED <<pipe2, stall>>
      /\ UNCHANGED <<stage0Vars, epochVars, icacheVars, stage1Vars, inFlight, progVars>>
  BY DEF Decode
<1>2. pipe1 \in Seq(FetchedEntry)
  BY EpochValues
<1>3. /\ Head(pipe1) \in FetchedEntry
      /\ NoneOf(pipe1, Epochs) => Head(pipe1).ep # Epochs
      /\ LastOf(pipe1, Epochs) /\ Head(pipe1).ep = Epochs => AllOf(pipe1, Epochs)
  BY <1>1, <1>2, Popped, TailStream
<1>4. ASSUME Head(pipe1).ep = Epochs
      PROVE  /\ AllOf(pipe1, Epochs) /\ AllOf(kept, Epochs)
             /\ AllOf(iresp, Epochs) /\ AllOf(ireq, Epochs)
  BY <1>3, <1>4 DEF EpochInv, NothingRead
<1>5. QED
  BY <1>1, <1>3, <1>4

\* What the end of an instruction does to fetch, unless it re-directs.
LEMMA ExecEpochs ==
  ASSUME FetchTypeOK, EpochInv, Exec
  PROVE  /\ pipe2' = <<>> /\ UNCHANGED <<wEpoch, pipe1, kept, receivingUpper, icacheVars, ver>>
         /\ LiveInExec \/ UNCHANGED <<inFlight, eEpoch, stall, stage0Vars>>
         /\ \/ UNCHANGED <<eEpoch, stall, stage0Vars>>
            \/ /\ eEpoch' = 1 - eEpoch /\ LiveInExec /\ pipe0 # <<>>
               /\ fence' = FALSE /\ sfence' = FALSE /\ stall' = FALSE
<1>1. CASE ExecDrop \/ ExecPlain
  <2>1. /\ pipe2' = <<>> /\ NoRedirect /\ ExecFrame
        /\ LiveInExec \/ UNCHANGED inFlight
    BY <1>1 DEF ExecDrop, ExecPlain
  <2>2. QED
    BY <2>1 DEF NoRedirect, ExecFrame, stage1Vars
<1>2. CASE ExecControl
  <2>1. /\ LiveInExec /\ pipe2' = <<>> /\ ExecFrame
        /\ (\E target \in Half : ExecRedirects(target)) \/ NoRedirect
    BY <1>2, ExecControlShape
  <2>2. QED
    BY <2>1 DEF ExecRedirects, Flush, NoRedirect, ExecFrame, stage1Vars
<1>3. QED
  BY <1>1, <1>2 DEF Exec

\* Nothing survives a flush of write back.
LEMMA CommitEpochs ==
  ASSUME FetchTypeOK, EpochInv,
         CommitFetchFault \/ CommitOther \/ CommitFenceI \/ CommitSfence
  PROVE  /\ NothingLive' /\ EpochInv'
         /\ inFlight /\ inFlight' = FALSE /\ stall' = FALSE /\ pipe0 # <<>>
         /\ stale' # {} => stale # {} \/ fence' \/ sfence'
         /\ UNCHANGED <<pipe0, ireq, iresp, kept, receivingUpper, pipe1, pipe2>>
<1>1. PICK target \in Half, f \in BOOLEAN, s \in BOOLEAN, v \in Version :
        WbFlush(target, f, s, v) /\ (v = ver \/ f \/ s)
  BY CommitIsFlush
<1>2. /\ inFlight /\ inFlight' = FALSE /\ stall' = FALSE /\ pipe0 # <<>>
      /\ fence' = f /\ sfence' = s /\ stale' = IF v = ver THEN stale ELSE stale \cup {ver}
      /\ UNCHANGED <<eEpoch, pipe0, ireq, iresp, kept, receivingUpper, pipe1, pipe2>>
      /\ wEpoch' = 1 - wEpoch
  BY <1>1 DEF WbFlush, Flush, stage1Vars
<1>3. Epochs' = <<eEpoch, 1 - wEpoch>>
  BY <1>2 DEF Epochs
<1>4. AllSinceWb
  BY <1>2 DEF EpochInv
<1>5. /\ NoneOf(pipe2, Epochs') /\ NoneOf(pipe1, Epochs') /\ NoneOf(kept, Epochs')
      /\ NoneOf(iresp, Epochs') /\ NoneOf(ireq, Epochs')
      /\ LastOf(pipe1, Epochs') /\ LastOf(iresp, Epochs') /\ LastOf(ireq, Epochs')
  <2>1. eEpoch \in {0, 1} /\ wEpoch \in {0, 1}
    BY EpochValues
  <2>2. ASSUME NEW b, SinceWb(b) PROVE NoneOf(b, Epochs') /\ LastOf(b, Epochs')
    BY <1>3, <2>1, <2>2, Flushed
  <2>3. QED
    BY <1>4, <2>2 DEF AllSinceWb
<1>6. NothingLive' /\ EpochInv'
  <2>1. NothingRead' /\ NothingLive'
    BY <1>2, <1>5 DEF NothingLive, NothingRead
  <2>2. QED
    BY <1>2, <1>5, <2>1 DEF NothingRead, EpochInv
<1>7. QED
  BY <1>1, <1>2, <1>6

\* The steps of the predictor do not touch what is fetched.
LEMMA Quiet ==
  ASSUME ClearBtb \/ TrainBtb \/ UNCHANGED vars
  PROVE  UNCHANGED <<stage0Vars, epochVars, pipe0, ireq, iresp, stale, kept, receivingUpper,
                     pipe1, pipe2, stall, inFlight, ver>>
BY DEF ClearBtb, TrainBtb, vars, icacheVars, stage1Vars, backVars, progVars

\* The fence leaves the instruction side.
LEMMA FenceShape ==
  ASSUME FetchTypeOK, IcacheFence
  PROVE  /\ ireq # <<>> /\ ~ Fetches(Head(ireq)) /\ ireq' = Tail(ireq) /\ stale' = {}
         /\ UNCHANGED <<stage0Vars, epochVars, pipe0, iresp, kept, receivingUpper,
                        pipe1, pipe2, stall, inFlight, ver>>
BY DEF IcacheFence, Fetches, stage1Vars, backVars, progVars

LEMMA SinceTail ==
  ASSUME NEW S, NEW s \in Seq(S), s # <<>>, SinceWb(s)
  PROVE  /\ Head(s).ep[2] = wEpoch
         /\ \A i \in 1..Len(Tail(s)) : Tail(s)[i].ep[2] = wEpoch
<1>1. /\ s[1] = Head(s) /\ Len(s) \in Nat /\ Len(s) >= 1
      /\ \A i \in 1..Len(Tail(s)) : i + 1 \in 1..Len(s) /\ Tail(s)[i] = s[i + 1]
  BY Popped
<1>2. 1 \in 1..Len(s)
  BY <1>1
<1>3. QED
  BY <1>1, <1>2 DEF SinceWb

LEMMA SinceAppend ==
  ASSUME NEW S, NEW s \in Seq(S), NEW e \in S, SinceWb(s), e.ep[2] = wEpoch
  PROVE  \A i \in 1..Len(Append(s, e)) : Append(s, e)[i].ep[2] = wEpoch
<1>1. /\ Len(Append(s, e)) = Len(s) + 1 /\ Len(s) \in Nat /\ Append(s, e)[Len(s) + 1] = e
      /\ \A i \in 1..Len(s) : Append(s, e)[i] = s[i]
  BY Pushed
<1>2. \A i \in 1..Len(Append(s, e)) : i \in 1..Len(s) \/ i = Len(s) + 1
  BY <1>1
<1>3. QED
  BY <1>1, <1>2 DEF SinceWb

\* What stays or goes in front, and what comes behind, was fetched since the
\* flush as well.
LEMMA SinceStep ==
  ASSUME NEW S, NEW s \in Seq(S), NEW t, SinceWb(s),
         \/ t = s \/ t = <<>> \/ (s # <<>> /\ t = Tail(s))
         \/ \E e \in S : e.ep[2] = wEpoch /\ t = Append(s, e)
         \/ \E e : e.ep[2] = wEpoch /\ t = <<e>>
  PROVE  SinceWb(t)
<1>1. CASE t = s \/ t = <<>>
  BY <1>1 DEF SinceWb
<1>2. CASE s # <<>> /\ t = Tail(s)
  BY <1>2, SinceTail DEF SinceWb
<1>3. CASE \E e \in S : e.ep[2] = wEpoch /\ t = Append(s, e)
  BY <1>3, SinceAppend DEF SinceWb
<1>4. CASE \E e : e.ep[2] = wEpoch /\ t = <<e>>
  BY <1>4 DEF SinceWb
<1>5. QED
  BY <1>1, <1>2, <1>3, <1>4

\* A re-direction of execute leaves nothing to be kept.
LEMMA RedirectEpochs ==
  ASSUME FetchTypeOK, EpochInv, Exec, LiveInExec, eEpoch' = 1 - eEpoch
  PROVE  NothingLive'
<1>1. pipe2' = <<>> /\ UNCHANGED <<wEpoch, pipe1, kept, iresp, ireq>>
  BY ExecEpochs DEF icacheVars
<1>2. Epochs' = <<1 - eEpoch, wEpoch>>
  BY <1>1 DEF Epochs
<1>3. eEpoch \in {0, 1} /\ wEpoch \in {0, 1}
  BY EpochValues
<1>4. ASSUME NEW b, AllOf(b, Epochs) PROVE NoneOf(b, Epochs')
  <2>1. NoneOf(b, <<1 - eEpoch, wEpoch>>)
    BY <1>3, <1>4, Flushed
  <2>2. QED
    BY <1>2, <2>1
<1>5. /\ NoneOf(pipe1, Epochs') /\ NoneOf(kept, Epochs')
      /\ NoneOf(iresp, Epochs') /\ NoneOf(ireq, Epochs')
  BY <1>4, LiveBehind
<1>6. NoneOf(pipe2', Epochs')
  BY <1>1, EmptyStream
<1>7. QED
  BY <1>1, <1>5, <1>6 DEF NothingLive, NothingRead

LEMMA EpochStep == FetchTypeOK /\ EpochInv /\ [Next]_vars => EpochInv'
<1> SUFFICES ASSUME FetchTypeOK, EpochInv, [Next]_vars PROVE EpochInv'
  OBVIOUS
<1>0. /\ eEpoch \in {0, 1} /\ wEpoch \in {0, 1}
      /\ pipe1 \in Seq(FetchedEntry) /\ pipe2 \in Seq(FetchedEntry)
      /\ kept \in Seq(HalfEntry) /\ iresp \in Seq(Answer) /\ ireq \in Seq(Request)
  BY EpochValues
<1>1. Epochs[2] = wEpoch
  BY DEF Epochs
<1>2. \A b : AllOf(b, Epochs) => SinceWb(b)
  BY <1>0, Flushed
<1>20. eEpoch \in {0, 1} /\ wEpoch \in {0, 1}
  BY <1>0
<1>3. CASE ClearBtb \/ TrainBtb \/ UNCHANGED vars
  BY <1>3, Quiet
     DEF EpochInv, NothingRead, AllSinceWb, AllOf, NoneOf, LastOf, SinceWb, Epochs, epochVars
<1>4. CASE GenNextPc \/ GenFence
  <2>1. PICK r \in Request : r.ep = Epochs /\ ireq' = Append(ireq, r)
    BY <1>4, SendShape
  <2>2. UNCHANGED <<Epochs, wEpoch, iresp, kept, pipe1, pipe2, inFlight>>
    BY <1>4, SendShape DEF epochVars, Epochs, stage1Vars, backVars
  <2>3. LastOf(ireq', Epochs) /\ (AllOf(ireq, Epochs) => AllOf(ireq', Epochs))
    BY <1>0, <2>1, AppendStream DEF EpochInv
  <2>4. SinceWb(ireq) => SinceWb(ireq')
    BY <1>0, <1>1, <2>1, SinceStep
  <2>5. AllSinceWb => AllSinceWb'
    BY <2>2, <2>4 DEF AllSinceWb, SinceWb
  <2>6. QED
    BY <2>2, <2>3, <2>5 DEF EpochInv, NothingRead
<1>5. CASE IcacheRespond
  <2>1. /\ ireq # <<>> /\ ireq' = Tail(ireq)
        /\ UNCHANGED <<Epochs, wEpoch, kept, pipe1, pipe2, inFlight>>
    BY <1>5, RespondShape DEF epochVars, Epochs, stage1Vars, backVars
  <2>2. PICK a \in Answer : iresp' = Append(iresp, a) /\ a.ep = Head(ireq).ep
    BY <1>5, RespondShape
  <2>3. /\ AllOf(ireq, Epochs) => a.ep = Epochs /\ AllOf(ireq', Epochs)
        /\ LastOf(ireq', Epochs)
        /\ a.ep = Epochs => AllOf(ireq, Epochs)
    BY <1>0, <2>1, <2>2, TailStream DEF EpochInv
  <2>4. /\ AllOf(iresp, Epochs) /\ a.ep = Epochs => AllOf(iresp', Epochs)
        /\ NoneOf(iresp, Epochs) /\ a.ep # Epochs => NoneOf(iresp', Epochs)
        /\ a.ep = Epochs => LastOf(iresp', Epochs)
        /\ NoneOf(iresp, Epochs) => LastOf(iresp', Epochs)
    BY <1>0, <2>2, AppendStream DEF EpochInv
  <2>5. AllSinceWb => AllSinceWb'
    <3>1. SinceWb(ireq) => a.ep[2] = wEpoch /\ SinceWb(ireq')
      BY <1>0, <2>1, <2>2, SinceTail, SinceStep
    <3>2. SinceWb(iresp) /\ a.ep[2] = wEpoch => SinceWb(iresp')
      BY <1>0, <2>2, SinceStep
    <3>3. QED
      BY <2>1, <3>1, <3>2 DEF AllSinceWb, SinceWb
  <2>6. QED
    BY <2>1, <2>3, <2>4, <2>5 DEF EpochInv, NothingRead
<1>6. CASE IcacheFence
  <2>1. /\ ireq # <<>> /\ ireq' = Tail(ireq)
        /\ UNCHANGED <<Epochs, wEpoch, iresp, kept, pipe1, pipe2, inFlight>>
    BY <1>6, FenceShape DEF epochVars, Epochs
  <2>2. LastOf(ireq', Epochs) /\ (AllOf(ireq, Epochs) => AllOf(ireq', Epochs))
    BY <1>0, <2>1, TailStream DEF EpochInv
  <2>3. SinceWb(ireq) => SinceWb(ireq')
    BY <1>0, <2>1, SinceStep
  <2>4. AllSinceWb => AllSinceWb'
    BY <2>1, <2>3 DEF AllSinceWb, SinceWb
  <2>5. QED
    BY <2>1, <2>2, <2>4 DEF EpochInv, NothingRead
<1>7. CASE ProcessInstruction
  <2>1. UNCHANGED <<Epochs, wEpoch, ireq, pipe2, inFlight>>
    BY <1>7, ProcessEpochs DEF epochVars, Epochs, backVars
  <2>2. iresp # <<>>
    BY <1>7 DEF ProcessInstruction
  <2>3. CASE Resp.ep # Epochs
    <3>1. /\ kept' = <<>> /\ pipe1' = pipe1 /\ iresp' = Tail(iresp)
          /\ NoneOf(pipe2, Epochs) /\ NoneOf(pipe1, Epochs) /\ NoneOf(kept, Epochs)
      BY <1>7, <2>3, ProcessEpochs
    <3>2. /\ LastOf(iresp', Epochs) /\ (AllOf(iresp, Epochs) => AllOf(iresp', Epochs))
          /\ NoneOf(iresp, Epochs) => NoneOf(iresp', Epochs)
      BY <1>0, <2>2, <3>1, TailStream DEF EpochInv
    <3>3. AllOf(kept', Epochs) /\ NoneOf(kept', Epochs)
      BY <3>1, EmptyStream
    <3>4. AllSinceWb => AllSinceWb'
      <4>1. /\ SinceWb(iresp) => SinceWb(iresp')
            /\ SinceWb(kept) => SinceWb(kept')
        BY <1>0, <2>2, <3>1, SinceStep
      <4>2. QED
        BY <2>1, <3>1, <4>1 DEF AllSinceWb, SinceWb
    <3>5. QED
      BY <2>1, <3>1, <3>2, <3>3, <3>4 DEF EpochInv, NothingRead
  <2>4. CASE Resp.ep = Epochs
    <3>1. /\ AllOf(iresp, Epochs) /\ AllOf(ireq, Epochs)
          /\ kept' = <<>> \/ kept' = <<UpperHalf>>
          /\ pipe1' = pipe1 \/ \E e \in FetchedEntry : e.ep = Epochs /\ pipe1' = Append(pipe1, e)
          /\ iresp' = iresp \/ iresp' = Tail(iresp)
      BY <1>7, <2>4, ProcessEpochs
    <3>2. AllOf(iresp', Epochs)
      BY <1>0, <2>2, <3>1, TailStream
    <3>3. AllOf(kept', Epochs)
      <4>1. UpperHalf.ep = Epochs
        BY DEF UpperHalf
      <4>2. QED
        BY <3>1, <4>1, EmptyStream, SingleStream
    <3>4. LastOf(pipe1', Epochs) /\ (AllOf(pipe1, Epochs) => AllOf(pipe1', Epochs))
      BY <1>0, <3>1, AppendStream DEF EpochInv
    <3>5. AllOf(ireq', Epochs)
      BY <2>1, <3>1
    <3>6. LastOf(iresp', Epochs) /\ LastOf(ireq', Epochs)
      BY <3>2, <3>5 DEF AllOf, LastOf
    <3>7. AllSinceWb => AllSinceWb'
      <4>1. SinceWb(iresp') /\ SinceWb(kept')
        BY <1>2, <3>2, <3>3
      <4>2. SinceWb(pipe1) => SinceWb(pipe1')
        BY <1>0, <1>1, <3>1, SinceStep
      <4>3. QED
        BY <2>1, <4>1, <4>2 DEF AllSinceWb, SinceWb
    <3>8. QED
      BY <2>1, <3>2, <3>3, <3>4, <3>5, <3>6, <3>7 DEF EpochInv
  <2>5. QED
    BY <2>3, <2>4
<1>8. CASE Decode
  <2>1. /\ pipe1 # <<>> /\ pipe1' = Tail(pipe1) /\ Head(pipe1) \in FetchedEntry
        /\ UNCHANGED <<Epochs, wEpoch, iresp, ireq, kept, inFlight>>
    BY <1>8, DecodeEpochs DEF epochVars, Epochs, stage1Vars, icacheVars
  <2>2. /\ LastOf(pipe1', Epochs)
        /\ AllOf(pipe1, Epochs) => AllOf(pipe1', Epochs)
        /\ NoneOf(pipe1, Epochs) => NoneOf(pipe1', Epochs)
    BY <1>0, <2>1, TailStream DEF EpochInv
  <2>3. SinceWb(pipe1) => SinceWb(pipe1') /\ Head(pipe1).ep[2] = wEpoch
    BY <1>0, <2>1, SinceStep, SinceTail
  <2>4. CASE Head(pipe1).ep = Epochs
    <3>1. /\ pipe2' = <<Head(pipe1)>>
          /\ AllOf(pipe1, Epochs) /\ AllOf(kept, Epochs)
          /\ AllOf(iresp, Epochs) /\ AllOf(ireq, Epochs)
      BY <1>8, <2>4, DecodeEpochs
    <3>2. AllSinceWb => AllSinceWb'
      <4>1. SinceWb(pipe2')
        BY <1>2, <2>4, <3>1, SingleStream
      <4>2. QED
        BY <2>1, <2>3, <4>1 DEF AllSinceWb, SinceWb
    <3>3. QED
      BY <2>1, <2>2, <3>1, <3>2 DEF EpochInv, NothingRead
  <2>5. CASE Head(pipe1).ep # Epochs
    <3>1. pipe2' = pipe2 /\ pipe2 = <<>>
      BY <1>8, <2>5, DecodeEpochs
    <3>2. NoneOf(pipe2, Epochs)
      BY <3>1, EmptyStream
    <3>3. AllSinceWb => AllSinceWb'
      BY <2>1, <2>3, <3>1 DEF AllSinceWb, SinceWb
    <3>4. QED
      BY <2>1, <2>2, <3>1, <3>2, <3>3 DEF EpochInv, NothingRead
  <2>6. QED
    BY <2>4, <2>5
<1>9. CASE Exec
  <2>1. pipe2' = <<>> /\ UNCHANGED <<wEpoch, pipe1, kept, iresp, ireq>>
    BY <1>9, ExecEpochs DEF icacheVars
  <2>2. \A ep : NoneOf(pipe2', ep)
    BY <2>1, EmptyStream
  <2>3. LiveInExec => AllSinceWb
    BY LiveBehind
  <2>4. LiveInExec \/ inFlight' = inFlight
    BY <1>9, ExecEpochs
  <2>5. inFlight' => AllSinceWb'
    <3>1. AllSinceWb => AllSinceWb'
      BY <2>1 DEF AllSinceWb, SinceWb
    <3>2. inFlight => AllSinceWb
      BY DEF EpochInv
    <3>3. ASSUME inFlight' = inFlight, inFlight' PROVE inFlight
      BY <3>3, Zenon
    <3>4. LiveInExec \/ (inFlight' => inFlight)
      BY <2>4, <3>3, Zenon
    <3>5. QED
      BY <2>3, <3>1, <3>2, <3>4
  <2>6. CASE eEpoch' = eEpoch
    <3>1. Epochs' = Epochs
      BY <2>1, <2>6 DEF Epochs
    <3>2. QED
      BY <2>1, <2>2, <2>5, <3>1 DEF EpochInv, NothingRead
  <2>7. CASE eEpoch' = 1 - eEpoch /\ LiveInExec
    <3>1. NothingLive'
      BY <1>9, <2>7, RedirectEpochs
    <3>2. LastOf(pipe1, Epochs') /\ LastOf(iresp, Epochs') /\ LastOf(ireq, Epochs')
      BY <2>1, <3>1 DEF NothingLive, NothingRead, NoneOf, LastOf
    <3>3. QED
      BY <2>1, <2>5, <3>1, <3>2 DEF EpochInv, NothingLive, NothingRead
  <2>8. QED
    BY <1>9, <2>6, <2>7, ExecEpochs
<1>10. CASE CommitFetchFault \/ CommitOther \/ CommitFenceI \/ CommitSfence
  BY <1>10, CommitEpochs
<1>11. QED
  BY <1>3, <1>4, <1>5, <1>6, <1>7, <1>8, <1>9, <1>10 DEF Next

LEMMA FenceStep == FetchTypeOK /\ EpochInv /\ FenceInv /\ [Next]_vars => FenceInv'
<1> SUFFICES ASSUME FetchTypeOK, EpochInv, FenceInv, [Next]_vars PROVE FenceInv'
  OBVIOUS
<1>0. /\ pipe1 \in Seq(FetchedEntry) /\ pipe2 \in Seq(FetchedEntry)
      /\ kept \in Seq(HalfEntry) /\ iresp \in Seq(Answer) /\ ireq \in Seq(Request)
  BY EpochValues
<1>1. /\ fence \/ sfence => NothingRead /\ NoneOf(ireq, Epochs) /\ ~ inFlight
      /\ stale # {} => NothingRead /\ ~ inFlight /\ (fence \/ sfence \/ FenceAhead)
  BY DEF FenceInv, NothingLive
<1>2. CASE ClearBtb \/ TrainBtb \/ UNCHANGED vars
  <2>1. UNCHANGED <<fence, sfence, stale, inFlight, Epochs, ireq, iresp, kept, pipe1, pipe2>>
    BY <1>2, Quiet DEF stage0Vars, epochVars, Epochs
  <2>2. QED
    BY <2>1 DEF FenceInv, NothingLive, NothingRead, FenceAhead
<1>3. CASE GenNextPc \/ GenFence
  <2>1. PICK r \in Request : /\ r.ep = Epochs /\ ireq' = Append(ireq, r)
                             /\ Fetches(r) <=> GenNextPc
    BY <1>3, SendShape
  <2>2. /\ fence' = FALSE /\ sfence' = FALSE
        /\ UNCHANGED <<Epochs, stale, iresp, kept, pipe1, pipe2, inFlight>>
    BY <1>3, SendShape DEF epochVars, Epochs, stage1Vars, backVars
  <2>3. /\ Len(ireq') = Len(ireq) + 1 /\ Len(ireq) \in Nat /\ ireq'[Len(ireq) + 1] = r
        /\ \A i \in 1..Len(ireq) : ireq'[i] = ireq[i]
    BY <1>0, <2>1, Pushed
  <2>4. FenceAhead => FenceAhead'
    <3> SUFFICES ASSUME FenceAhead PROVE FenceAhead'
      OBVIOUS
    <3>1. PICK k \in 1..Len(ireq) :
            ~ Fetches(ireq[k]) /\ \A j \in 1..k : Fetches(ireq[j]) => ireq[j].ep # Epochs
      BY DEF FenceAhead
    <3>2. k \in 1..Len(ireq') /\ \A j \in 1..k : ireq'[j] = ireq[j]
      BY <2>3
    <3>3. k \in 1..k
      BY <2>3
    <3>4. QED
      BY <2>2, <3>1, <3>2, <3>3 DEF FenceAhead
  <2>5. ASSUME fence \/ sfence PROVE FenceAhead'
    <3>1. ~ Fetches(r)
      BY <1>3, <2>1, <2>5 DEF GenNextPc
    <3>2. \A j \in 1..Len(ireq) : ireq'[j].ep # Epochs
      BY <1>1, <2>3, <2>5 DEF NoneOf
    <3>3. \A j \in 1..(Len(ireq) + 1) : Fetches(ireq'[j]) => ireq'[j].ep # Epochs
      BY <2>3, <3>1, <3>2
    <3>4. Len(ireq) + 1 \in 1..Len(ireq') /\ ~ Fetches(ireq'[Len(ireq) + 1])
      BY <2>3, <3>1
    <3>5. QED
      BY <2>2, <3>3, <3>4 DEF FenceAhead
  <2>6. QED
    BY <1>1, <2>2, <2>4, <2>5 DEF FenceInv, NothingRead
<1>4. CASE IcacheRespond
  <2>1. /\ ireq # <<>> /\ ireq' = Tail(ireq) /\ Fetches(Head(ireq))
        /\ UNCHANGED <<Epochs, stale, fence, sfence, kept, pipe1, pipe2, inFlight>>
    BY <1>4, RespondShape DEF stage0Vars, epochVars, Epochs, stage1Vars, backVars
  <2>2. PICK a \in Answer : iresp' = Append(iresp, a) /\ a.ep = Head(ireq).ep
    BY <1>4, RespondShape
  <2>3. NoneOf(ireq, Epochs) => a.ep # Epochs /\ NoneOf(ireq', Epochs)
    BY <1>0, <2>1, <2>2, TailStream
  <2>4. NoneOf(iresp, Epochs) /\ a.ep # Epochs => NoneOf(iresp', Epochs)
    BY <1>0, <2>2, AppendStream
  <2>5. FenceAhead => a.ep # Epochs /\ FenceAhead'
    <3> SUFFICES ASSUME FenceAhead PROVE a.ep # Epochs /\ FenceAhead'
      OBVIOUS
    <3>1. PICK k \in 1..Len(ireq) :
            ~ Fetches(ireq[k]) /\ \A j \in 1..k : Fetches(ireq[j]) => ireq[j].ep # Epochs
      BY DEF FenceAhead
    <3>2. /\ ireq[1] = Head(ireq) /\ Len(ireq) \in Nat
          /\ \A i \in 1..Len(ireq') : i + 1 \in 1..Len(ireq) /\ ireq'[i] = ireq[i + 1]
          /\ \A i \in 2..Len(ireq) : i - 1 \in 1..Len(ireq') /\ ireq'[i - 1] = ireq[i]
      BY <1>0, <2>1, Popped
    <3>3. k # 1
      BY <2>1, <3>1, <3>2
    <3>4. 1 \in 1..k /\ k \in 2..Len(ireq)
      BY <3>2, <3>3
    <3>5. a.ep # Epochs
      BY <2>1, <2>2, <3>1, <3>2, <3>4
    <3>6. k - 1 \in 1..Len(ireq') /\ ~ Fetches(ireq'[k - 1])
      BY <3>1, <3>2, <3>4
    <3>7. ASSUME NEW j \in 1..(k - 1), Fetches(ireq'[j]) PROVE ireq'[j].ep # Epochs
      <4>1. j + 1 \in 1..k /\ j \in 1..Len(ireq')
        BY <3>2, <3>4, <3>6
      <4>2. ireq'[j] = ireq[j + 1]
        BY <3>2, <4>1
      <4>3. QED
        BY <3>1, <3>7, <4>1, <4>2
    <3>8. QED
      BY <2>1, <3>5, <3>6, <3>7 DEF FenceAhead
  <2>6. QED
    BY <1>1, <2>1, <2>3, <2>4, <2>5 DEF FenceInv, NothingLive, NothingRead
<1>5. CASE IcacheFence
  <2>1. /\ ireq # <<>> /\ ireq' = Tail(ireq) /\ stale' = {}
        /\ UNCHANGED <<Epochs, fence, sfence, iresp, kept, pipe1, pipe2, inFlight>>
    BY <1>5, FenceShape DEF stage0Vars, epochVars, Epochs
  <2>2. NoneOf(ireq, Epochs) => NoneOf(ireq', Epochs)
    BY <1>0, <2>1, TailStream
  <2>3. QED
    BY <1>1, <2>1, <2>2 DEF FenceInv, NothingLive, NothingRead
<1>6. CASE ProcessInstruction
  <2>1. /\ UNCHANGED <<Epochs, fence, sfence, stale, ireq, pipe2, inFlight>>
        /\ iresp # <<>>
    BY <1>6, ProcessEpochs DEF ProcessInstruction, stage0Vars, epochVars, Epochs, backVars
  <2>2. ASSUME NothingRead PROVE NothingRead'
    <3>1. NoneOf(iresp, Epochs) /\ NoneOf(pipe1, Epochs) /\ NoneOf(pipe2, Epochs)
      BY <2>2 DEF NothingRead
    <3>2. Resp.ep # Epochs /\ NoneOf(Tail(iresp), Epochs)
      BY <1>0, <2>1, <3>1, TailStream DEF Resp
    <3>3. kept' = <<>> /\ pipe1' = pipe1 /\ iresp' = Tail(iresp)
      BY <1>6, <3>2, ProcessEpochs
    <3>4. NoneOf(kept', Epochs)
      BY <3>3, EmptyStream
    <3>5. QED
      BY <2>1, <3>1, <3>2, <3>3, <3>4 DEF NothingRead
  <2>3. FenceAhead => FenceAhead'
    BY <2>1 DEF FenceAhead
  <2>4. QED
    BY <1>1, <2>1, <2>2, <2>3 DEF FenceInv, NothingLive
<1>7. CASE Decode
  <2>1. /\ pipe1 # <<>> /\ pipe1' = Tail(pipe1)
        /\ UNCHANGED <<Epochs, fence, sfence, stale, iresp, ireq, kept, inFlight>>
    BY <1>7, DecodeEpochs DEF stage0Vars, epochVars, Epochs, stage1Vars, icacheVars
  <2>2. ASSUME NothingRead PROVE NothingRead'
    <3>1. NoneOf(pipe1, Epochs) /\ NoneOf(pipe2, Epochs)
      BY <2>2 DEF NothingRead
    <3>2. Head(pipe1).ep # Epochs /\ NoneOf(Tail(pipe1), Epochs)
      BY <1>0, <2>1, <3>1, TailStream
    <3>3. pipe2' = pipe2
      BY <1>7, <3>2, DecodeEpochs
    <3>4. QED
      BY <2>1, <2>2, <3>2, <3>3 DEF NothingRead
  <2>3. FenceAhead => FenceAhead'
    BY <2>1 DEF FenceAhead
  <2>4. QED
    BY <1>1, <2>1, <2>2, <2>3 DEF FenceInv, NothingLive
<1>8. CASE Exec
  <2>1. pipe2' = <<>> /\ UNCHANGED <<wEpoch, pipe1, kept, iresp, ireq, stale>>
    BY <1>8, ExecEpochs DEF icacheVars
  <2>2. CASE LiveInExec
    <3>1. ~ NothingRead
      BY <2>2, Popped, <1>0, TailStream DEF NothingRead, LiveInExec, InExec
    <3>2. ~ (fence \/ sfence) /\ stale = {}
      BY <1>1, <3>1
    <3>3. ~ (fence' \/ sfence')
      <4>1. (fence' = fence /\ sfence' = sfence) \/ (fence' = FALSE /\ sfence' = FALSE)
        BY <1>8, ExecEpochs DEF stage0Vars
      <4>2. CASE fence' = fence /\ sfence' = sfence
        <5>1. fence = FALSE /\ sfence = FALSE
          BY <3>2 DEF FetchTypeOK
        <5>2. QED
          BY <4>2, <5>1
      <4>3. QED
        BY <4>1, <4>2
    <3>4. QED
      BY <2>1, <3>2, <3>3 DEF FenceInv
  <2>3. CASE ~ LiveInExec
    <3>1. UNCHANGED <<inFlight, Epochs, fence, sfence>>
      BY <1>8, <2>1, <2>3, ExecEpochs DEF stage0Vars, Epochs
    <3>2. NothingRead => NothingRead'
      BY <2>1, <3>1, EmptyStream DEF NothingRead
    <3>3. FenceAhead => FenceAhead'
      BY <2>1, <3>1 DEF FenceAhead
    <3>4. QED
      BY <1>1, <2>1, <3>1, <3>2, <3>3 DEF FenceInv, NothingLive
  <2>4. QED
    BY <2>2, <2>3
<1>9. CASE CommitFetchFault \/ CommitOther \/ CommitFenceI \/ CommitSfence
  <2>1. /\ NothingLive' /\ inFlight' = FALSE /\ inFlight
        /\ stale' # {} => stale # {} \/ fence' \/ sfence'
    BY <1>9, CommitEpochs
  <2>2. stale = {}
    BY <1>1, <2>1
  <2>3. QED
    BY <2>1, <2>2 DEF FenceInv, NothingLive
<1>10. QED
  BY <1>2, <1>3, <1>4, <1>5, <1>6, <1>7, <1>8, <1>9 DEF Next

\* Nothing to be kept was read while old code may be.
LEMMA AnswerCurrent ==
  ASSUME FetchTypeOK, FenceInv, ireq # <<>>, Fetches(Head(ireq)), Head(ireq).ep = Epochs
  PROVE  stale = {}
<1>1. /\ ireq[1] = Head(ireq) /\ Len(ireq) \in Nat /\ Len(ireq) >= 1
  BY Popped, EpochValues
<1>2. ~ NoneOf(ireq, Epochs)
  BY <1>1 DEF NoneOf
<1>3. ~ FenceAhead
  <2> SUFFICES ASSUME FenceAhead PROVE FALSE
    OBVIOUS
  <2>1. PICK k \in 1..Len(ireq) :
          ~ Fetches(ireq[k]) /\ \A j \in 1..k : Fetches(ireq[j]) => ireq[j].ep # Epochs
    BY DEF FenceAhead
  <2>2. 1 \in 1..k
    BY <1>1
  <2>3. QED
    BY <1>1, <2>1, <2>2
<1>4. QED
  BY <1>2, <1>3 DEF FenceInv, NothingLive

LEMMA SameEntry ==
  ASSUME NEW S, NEW s \in Seq(S), NEW e \in S, NEW f, Append(s, e) = Append(s, f)
  PROVE  f = e
<1>1. s \in Seq(S \cup {f}) /\ Len(s) \in Nat
  OBVIOUS
<1>2. Append(s, f)[Len(s) + 1] = f
  BY <1>1, Pushed
<1>3. Append(s, e)[Len(s) + 1] = e
  BY Pushed
<1>4. QED
  BY <1>2, <1>3

LEMMA EnqShape ==
  ASSUME pipe1 \in Seq(FetchedEntry), NEW e \in FetchedEntry, pipe1' = Append(pipe1, e),
         NEW at, NEW parts, NEW trap, NEW pred, Enq(at, parts, trap, pred)
  PROVE  e.parts = parts /\ e.trap = trap /\ e.upperErr = (receivingUpper /\ Resp.trap)
<1> DEFINE f == [pc |-> at, parts |-> parts, ep |-> Epochs, trap |-> trap,
                 upperErr |-> receivingUpper /\ Resp.trap, pred |-> pred]
<1>1. Append(pipe1, e) = Append(pipe1, f)
  BY DEF Enq
<1>2. f = e
  <2> HIDE DEF f
  <2>1. QED
    BY <1>1, SameEntry
<1>3. f.parts = parts /\ f.trap = trap /\ f.upperErr = (receivingUpper /\ Resp.trap)
  OBVIOUS
<1>4. QED
  BY <1>2, <1>3

\* Stage1 makes an entry of halves of the answer and of the half it has kept.
LEMMA ProcessCode ==
  ASSUME FetchTypeOK, ProcessInstruction, Resp.ep = Epochs, Resp.ver = ver,
         HasPrev => Prev.ver = ver
  PROVE  pipe1' = pipe1 \/ \E e \in FetchedEntry : OfCode(e) /\ pipe1' = Append(pipe1, e)
<1>1. CASE pipe1' = pipe1
  BY <1>1
<1>2. CASE pipe1' # pipe1
  <2>1. PICK e \in FetchedEntry : pipe1' = Append(pipe1, e)
    BY <1>2, ProcessShape
  <2>2. pipe1 \in Seq(FetchedEntry)
    BY EpochValues
  <2>4. ASSUME NEW at, NEW parts, NEW trap, NEW pred, Enq(at, parts, trap, pred)
        PROVE  e.parts = parts
    BY <2>1, <2>2, <2>4, EnqShape
  <2>5. /\ Part(Resp.word, 0, Resp.ver).ver = ver /\ Part(Resp.word, 1, Resp.ver).ver = ver
        /\ HasPrev => PrevPart.ver = ver
    BY DEF Part, PrevPart
  <2>6. ASSUME NEW p, p.ver = ver, e.parts = <<p>> PROVE OfCode(e)
    BY <2>6 DEF OfCode
  <2>7. ASSUME NEW p, p.ver = ver, NEW q, q.ver = ver, e.parts = <<p, q>> PROVE OfCode(e)
    BY <2>7 DEF OfCode
  <2>8. CASE HasPrev
    <3>1. JoinHalves \/ TakePrev
      BY <2>8 DEF ProcessInstruction
    <3>2. e.parts = <<PrevPart, Part(Resp.word, 0, Resp.ver)>> \/ e.parts = <<PrevPart>>
      BY <2>4, <3>1 DEF JoinHalves, TakePrev
    <3>3. OfCode(e)
      BY <2>5, <2>6, <2>7, <2>8, <3>2
    <3>4. QED
      BY <2>1, <3>3
  <2>9. CASE ~ HasPrev
    <3>1. TakeUpper \/ TakeWord \/ TakeLower
      BY <1>2, <2>9 DEF ProcessInstruction, KeepUpper
    <3>2. \/ e.parts = <<Part(Resp.word, 1, Resp.ver)>>
          \/ e.parts = <<Part(Resp.word, 0, Resp.ver), Part(Resp.word, 1, Resp.ver)>>
          \/ e.parts = <<Part(Resp.word, 0, Resp.ver)>>
      BY <2>4, <3>1 DEF TakeUpper, TakeWord, TakeLower
    <3>3. OfCode(e)
      BY <2>5, <2>6, <2>7, <3>2
    <3>4. QED
      BY <2>1, <3>3
  <2>10. QED
    BY <2>8, <2>9
<1>3. QED
  BY <1>1, <1>2

LEMMA CodeStep == FetchTypeOK /\ EpochInv /\ FenceInv /\ CodeInv /\ [Next]_vars => CodeInv'
<1> SUFFICES ASSUME FetchTypeOK, EpochInv, FenceInv, CodeInv, [Next]_vars PROVE CodeInv'
  OBVIOUS
<1>0. /\ pipe1 \in Seq(FetchedEntry) /\ pipe2 \in Seq(FetchedEntry)
      /\ kept \in Seq(HalfEntry) /\ iresp \in Seq(Answer) /\ ireq \in Seq(Request)
  BY EpochValues
<1>1. ASSUME UNCHANGED <<Epochs, ver, pipe2, pipe1, kept, iresp>> PROVE CodeInv'
  BY <1>1 DEF CodeInv, MadeCurrent, Current, OfCode
<1>2. CASE ClearBtb \/ TrainBtb \/ UNCHANGED vars
  BY <1>1, <1>2, Quiet DEF epochVars, Epochs
<1>3. CASE GenNextPc \/ GenFence
  BY <1>1, <1>3, SendShape DEF epochVars, Epochs, stage1Vars, backVars, progVars
<1>4. CASE IcacheRespond
  <2>1. UNCHANGED <<Epochs, ver, kept, pipe1, pipe2>>
    BY <1>4, RespondShape DEF epochVars, Epochs, stage1Vars, backVars, progVars
  <2>2. PICK a \in Answer :
          iresp' = Append(iresp, a) /\ a.ep = Head(ireq).ep /\ a.ver \in {ver} \cup stale
    BY <1>4, RespondShape
  <2>3. a.ep = Epochs => a.ver = ver
    BY <1>4, <2>2, RespondShape, AnswerCurrent
  <2>4. /\ Len(iresp') = Len(iresp) + 1 /\ Len(iresp) \in Nat /\ iresp'[Len(iresp) + 1] = a
        /\ \A i \in 1..Len(iresp) : iresp'[i] = iresp[i]
    BY <1>0, <2>2, Pushed
  <2>5. \A i \in 1..Len(iresp') : i \in 1..Len(iresp) \/ i = Len(iresp) + 1
    BY <2>4
  <2>6. Current(iresp)'
    BY <2>1, <2>3, <2>4, <2>5 DEF CodeInv, Current
  <2>7. QED
    BY <2>1, <2>6 DEF CodeInv, MadeCurrent, Current, OfCode
<1>5. CASE IcacheFence
  BY <1>1, <1>5, FenceShape DEF epochVars, Epochs
<1>6. CASE ProcessInstruction
  <2>1. /\ UNCHANGED <<Epochs, ver, pipe2>> /\ iresp # <<>>
    BY <1>6, ProcessEpochs DEF ProcessInstruction, epochVars, Epochs, backVars, progVars
  <2>2. /\ \A i \in 1..Len(Tail(iresp)) : i + 1 \in 1..Len(iresp) /\ Tail(iresp)[i] = iresp[i + 1]
        /\ iresp[1] = Resp /\ 1 \in 1..Len(iresp)
    BY <1>0, <2>1, Popped DEF Resp
  <2>3. CASE Resp.ep # Epochs
    <3>1. kept' = <<>> /\ pipe1' = pipe1 /\ iresp' = Tail(iresp)
      BY <1>6, <2>3, ProcessEpochs
    <3>2. QED
      BY <2>1, <2>2, <3>1 DEF CodeInv, MadeCurrent, Current, OfCode
  <2>4. CASE Resp.ep = Epochs
    <3>1. /\ kept' = <<>> \/ kept' = <<UpperHalf>>
          /\ iresp' = iresp \/ iresp' = Tail(iresp)
      BY <1>6, <2>4, ProcessEpochs
    <3>2. Resp.ver = ver
      BY <2>2, <2>4 DEF CodeInv, Current
    <3>3. HasPrev => Prev.ver = ver
      <4>1. HasPrev => kept[1] = Prev /\ Len(kept) \in Nat /\ Len(kept) >= 1 /\ Prev.ep = Epochs
        BY <1>0, Popped DEF HasPrev, Prev
      <4>2. QED
        BY <4>1 DEF CodeInv, Current
    <3>4. Current(iresp)'
      BY <2>1, <2>2, <3>1 DEF CodeInv, Current
    <3>5. Current(kept)'
      <4>1. UpperHalf.ver = ver
        BY <3>2 DEF UpperHalf
      <4>2. QED
        BY <2>1, <3>1, <4>1 DEF Current
    <3>6. MadeCurrent(pipe1)'
      <4>1. CASE pipe1' = pipe1
        BY <2>1, <4>1 DEF CodeInv, MadeCurrent, OfCode
      <4>2. ASSUME NEW e \in FetchedEntry, OfCode(e), pipe1' = Append(pipe1, e)
            PROVE  MadeCurrent(pipe1)'
        <5>1. /\ Len(pipe1') = Len(pipe1) + 1 /\ Len(pipe1) \in Nat /\ pipe1'[Len(pipe1) + 1] = e
              /\ \A i \in 1..Len(pipe1) : pipe1'[i] = pipe1[i]
          BY <1>0, <4>2, Pushed
        <5>2. \A i \in 1..Len(pipe1') : i \in 1..Len(pipe1) \/ i = Len(pipe1) + 1
          BY <5>1
        <5>3. QED
          BY <2>1, <4>2, <5>1, <5>2 DEF CodeInv, MadeCurrent, OfCode
      <4>3. QED
        BY <1>6, <2>4, <3>2, <3>3, <4>1, <4>2, ProcessCode
    <3>7. QED
      BY <2>1, <3>4, <3>5, <3>6 DEF CodeInv, MadeCurrent, OfCode
  <2>5. QED
    BY <2>3, <2>4
<1>7. CASE Decode
  <2>1. /\ pipe1 # <<>> /\ pipe1' = Tail(pipe1)
        /\ UNCHANGED <<Epochs, ver, iresp, kept>>
        /\ pipe2' = <<Head(pipe1)>> \/ pipe2' = pipe2
    BY <1>7, DecodeEpochs DEF epochVars, Epochs, stage1Vars, icacheVars, progVars
  <2>2. /\ \A i \in 1..Len(Tail(pipe1)) : i + 1 \in 1..Len(pipe1) /\ Tail(pipe1)[i] = pipe1[i + 1]
        /\ pipe1[1] = Head(pipe1) /\ 1 \in 1..Len(pipe1)
    BY <1>0, <2>1, Popped
  <2>3. MadeCurrent(pipe1)'
    BY <2>1, <2>2 DEF CodeInv, MadeCurrent, OfCode
  <2>4. MadeCurrent(pipe2)'
    BY <2>1, <2>2 DEF CodeInv, MadeCurrent, OfCode
  <2>5. QED
    BY <2>1, <2>3, <2>4 DEF CodeInv, Current
<1>8. CASE Exec
  <2>1. pipe2' = <<>> /\ UNCHANGED <<wEpoch, pipe1, kept, iresp, ireq, ver>>
    BY <1>8, ExecEpochs DEF icacheVars
  <2>2. CASE eEpoch' = eEpoch
    <3>1. Epochs' = Epochs
      BY <2>1, <2>2 DEF Epochs
    <3>2. QED
      BY <2>1, <3>1 DEF CodeInv, MadeCurrent, Current, OfCode
  <2>3. CASE eEpoch' = 1 - eEpoch /\ LiveInExec
    <3>1. NothingLive'
      BY <1>8, <2>3, RedirectEpochs
    <3>2. QED
      BY <2>1, <3>1 DEF NothingLive, NothingRead, CodeInv, MadeCurrent, Current, NoneOf
  <2>4. QED
    BY <1>8, <2>2, <2>3, ExecEpochs
<1>9. CASE CommitFetchFault \/ CommitOther \/ CommitFenceI \/ CommitSfence
  BY <1>9, CommitEpochs DEF NothingLive, NothingRead, NoneOf, CodeInv, MadeCurrent, Current
<1>10. QED
  BY <1>2, <1>3, <1>4, <1>5, <1>6, <1>7, <1>8, <1>9 DEF Next

LEMMA StreamInit == Init => EpochInv /\ FenceInv /\ CodeInv
BY DEF Init, EpochInv, FenceInv, CodeInv, NothingLive, NothingRead, AllSinceWb, SinceWb,
       AllOf, NoneOf, LastOf, Current, MadeCurrent

LEMMA StreamInvariance == Spec => [](FetchTypeOK /\ EpochInv /\ FenceInv /\ CodeInv)
<1>1. FetchTypeOK /\ EpochInv /\ FenceInv /\ CodeInv /\ [Next]_vars
        => (EpochInv /\ FenceInv /\ CodeInv)'
  BY EpochStep, FenceStep, CodeStep
<1>2. QED
  BY <1>1, StreamInit, FetchTypeCorrect, PTL DEF Spec

\* Once FENCE.I or SFENCE.VMA has committed, nothing is executed that was read
\* before, whatever the code and however long the instruction side holds it.
THEOREM CodeIsCurrent == Spec => []CurrentCode
<1>1. FetchTypeOK /\ CodeInv => CurrentCode
  <2> SUFFICES ASSUME FetchTypeOK, CodeInv, LiveInExec
               PROVE  OfCode(InExec)
    BY DEF CurrentCode, OfCode
  <2>1. pipe2[1] = InExec /\ 1 \in 1..Len(pipe2) /\ InExec.ep = Epochs
    BY Popped, EpochValues DEF LiveInExec, InExec
  <2>2. QED
    BY <2>1 DEF CodeInv, MadeCurrent
<1>2. QED
  BY <1>1, StreamInvariance, PTL

-----------------------------------------------------------------------------
(* The kept half                                                              *)

\* A flush finds an entry in pipe0, whose answer is not to be kept any more.
LEMMA FlushStale ==
  ASSUME FetchTypeOK, PairedByOrder, pipe0 # <<>>, UNCHANGED <<iresp, ireq>>, NothingLive'
  PROVE  StaleAnswer'
<1>1. /\ pipe0 \in Seq(WordEntry) /\ iresp \in Seq(Answer) /\ ireq \in Seq(Request)
      /\ Len(iresp) \in Nat /\ Len(ireq) \in Nat
  BY LenProperties DEF FetchTypeOK
<1>2. Len(pipe0) >= 1 /\ Len(pipe0) \in Nat
  BY <1>1, Popped
<1>3. NoneOf(iresp, Epochs') /\ NoneOf(ireq, Epochs')
  BY DEF NothingLive, NothingRead
<1>4. CASE Len(iresp) >= 1
  <2>1. 1 \in 1..Len(iresp)
    BY <1>1, <1>4
  <2>2. QED
    BY <1>3, <2>1 DEF StaleAnswer, NoneOf
<1>5. CASE Len(iresp) = 0
  <2>1. Due(ireq, Len(ireq)) = Len(pipe0)
    BY <1>1, <1>2, <1>5, DueStep DEF PairedByOrder
  <2>2. PICK k \in 1..Len(ireq) : Fetches(ireq[k])
    <3> SUFFICES ASSUME \A k \in 1..Len(ireq) : ~ Fetches(ireq[k]) PROVE FALSE
      OBVIOUS
    <3>1. {j \in 1..Len(ireq) : Fetches(ireq[j])} = {}
      OBVIOUS
    <3>2. Due(ireq, Len(ireq)) = 0
      BY <3>1, FS_EmptySet DEF Due
    <3>3. QED
      BY <1>2, <2>1, <3>2
  <2>3. QED
    BY <1>3, <2>2 DEF StaleAnswer, NoneOf
<1>6. QED
  BY <1>1, <1>4, <1>5

\* When an answer is to be kept there is no half from before a flush.
LEMMA NothingKept ==
  ASSUME FetchTypeOK, EpochInv, KeptInv, ProcessInstruction, Resp.ep = Epochs, ~ HasPrev
  PROVE  kept = <<>>
<1> SUFFICES ASSUME kept # <<>> PROVE FALSE
  OBVIOUS
<1>1. kept \in Seq(HalfEntry) /\ Len(kept) <= 1
  BY DEF FetchTypeOK
<1>2. Len(kept) \in Nat /\ Len(kept) >= 1 /\ kept[1] = Prev
  BY <1>1, Popped DEF Prev
<1>3. Prev.ep # Epochs
  BY DEF HasPrev
<1>4. \A i \in 1..Len(kept) : i = 1
  BY <1>1, <1>2
<1>5. NoneOf(kept, Epochs)
  BY <1>2, <1>3, <1>4 DEF NoneOf
<1>6. AllOf(iresp, Epochs) /\ AllOf(ireq, Epochs)
  BY ProcessEpochs
<1>7. ~ StaleAnswer
  BY <1>6 DEF StaleAnswer, AllOf
<1>8. QED
  BY <1>5, <1>7 DEF KeptInv

LEMMA KeptStep ==
  FetchTypeOK /\ PairedByOrder /\ EpochInv /\ KeptInv /\ [Next]_vars => KeptInv'
<1> SUFFICES ASSUME FetchTypeOK, PairedByOrder, EpochInv, KeptInv, [Next]_vars PROVE KeptInv'
  OBVIOUS
<1>0. /\ kept \in Seq(HalfEntry) /\ iresp \in Seq(Answer) /\ ireq \in Seq(Request)
  BY EpochValues
<1>1. ASSUME UNCHANGED <<Epochs, kept, receivingUpper>>, StaleAnswer => StaleAnswer'
      PROVE  KeptInv'
  BY <1>1 DEF KeptInv, NoneOf
<1>2. ASSUME UNCHANGED <<Epochs, kept, receivingUpper, iresp, ireq>> PROVE KeptInv'
  BY <1>1, <1>2 DEF StaleAnswer
<1>3. CASE ClearBtb \/ TrainBtb \/ UNCHANGED vars
  BY <1>2, <1>3, Quiet DEF epochVars, Epochs
<1>4. CASE GenNextPc \/ GenFence
  <2>1. PICK r \in Request : ireq' = Append(ireq, r)
    BY <1>4, SendShape
  <2>2. UNCHANGED <<Epochs, kept, receivingUpper, iresp>>
    BY <1>4, SendShape DEF epochVars, Epochs, stage1Vars
  <2>3. \A k \in 1..Len(ireq) : k \in 1..Len(ireq') /\ ireq'[k] = ireq[k]
    BY <1>0, <2>1, Pushed
  <2>4. QED
    BY <1>1, <2>2, <2>3 DEF StaleAnswer
<1>5. CASE IcacheRespond
  <2>1. /\ ireq # <<>> /\ ireq' = Tail(ireq)
        /\ UNCHANGED <<Epochs, kept, receivingUpper>>
    BY <1>5, RespondShape DEF epochVars, Epochs, stage1Vars
  <2>2. PICK a \in Answer : iresp' = Append(iresp, a) /\ a.ep = Head(ireq).ep
    BY <1>5, RespondShape
  <2>3. /\ \A i \in 1..Len(iresp) : i \in 1..Len(iresp') /\ iresp'[i] = iresp[i]
        /\ Len(iresp) + 1 \in 1..Len(iresp') /\ iresp'[Len(iresp) + 1] = a
    BY <1>0, <2>2, Pushed
  <2>4. /\ ireq[1] = Head(ireq)
        /\ \A k \in 2..Len(ireq) : k - 1 \in 1..Len(ireq') /\ ireq'[k - 1] = ireq[k]
    BY <1>0, <2>1, Popped
  <2>5. \A k \in 1..Len(ireq) : k = 1 \/ k \in 2..Len(ireq)
    BY <1>0
  <2>6. StaleAnswer => StaleAnswer'
    <3>1. ASSUME NEW i \in 1..Len(iresp), iresp[i].ep # Epochs PROVE StaleAnswer'
      BY <2>1, <2>3, <3>1 DEF StaleAnswer
    <3>2. ASSUME NEW k \in 1..Len(ireq), Fetches(ireq[k]), ireq[k].ep # Epochs
          PROVE  StaleAnswer'
      <4>1. CASE k = 1
        BY <2>1, <2>2, <2>3, <2>4, <3>2, <4>1 DEF StaleAnswer
      <4>2. CASE k \in 2..Len(ireq)
        BY <2>1, <2>4, <3>2, <4>2 DEF StaleAnswer
      <4>3. QED
        BY <2>5, <4>1, <4>2
    <3>3. QED
      BY <3>1, <3>2 DEF StaleAnswer
  <2>7. QED
    BY <1>1, <2>1, <2>6
<1>6. CASE IcacheFence
  <2>1. /\ ireq # <<>> /\ ireq' = Tail(ireq) /\ ~ Fetches(Head(ireq))
        /\ UNCHANGED <<Epochs, kept, receivingUpper, iresp>>
    BY <1>6, FenceShape DEF epochVars, Epochs
  <2>2. /\ ireq[1] = Head(ireq)
        /\ \A k \in 2..Len(ireq) : k - 1 \in 1..Len(ireq') /\ ireq'[k - 1] = ireq[k]
    BY <1>0, <2>1, Popped
  <2>3. \A k \in 1..Len(ireq) : k = 1 \/ k \in 2..Len(ireq)
    BY <1>0
  <2>4. StaleAnswer => StaleAnswer'
    BY <2>1, <2>2, <2>3 DEF StaleAnswer
  <2>5. QED
    BY <1>1, <2>1, <2>4
<1>7. CASE ProcessInstruction
  <2>1. UNCHANGED Epochs
    BY <1>7, ProcessEpochs DEF epochVars, Epochs
  <2>2. ASSUME kept' = <<>>, receivingUpper' = FALSE PROVE KeptInv'
    BY <2>2 DEF KeptInv
  <2>3. ASSUME KeepUpperHalf PROVE KeptInv'
    <3>1. kept' = <<UpperHalf>> /\ receivingUpper' = TRUE /\ UpperHalf.ep = Epochs
      BY <2>3 DEF KeepUpperHalf, UpperHalf
    <3>2. ~ NoneOf(kept', Epochs)
      BY <3>1 DEF NoneOf
    <3>3. kept' # <<>>
      BY <3>1
    <3>4. QED
      BY <2>1, <3>1, <3>2, <3>3 DEF KeptInv
  <2>4. ASSUME Settle PROVE KeptInv'
    BY <2>2, <2>4 DEF Settle
  <2>5. CASE Resp.ep # Epochs
    BY <1>7, <2>2, <2>5, ProcessEpochs
  <2>6. CASE Resp.ep = Epochs /\ ~ HasPrev /\ (TakeUpper \/ TakeWord)
    <3>1. kept = <<>>
      BY <1>7, <2>6, NothingKept
    <3>2. kept' = <<>> /\ receivingUpper' = receivingUpper
      BY <2>6 DEF TakeUpper, TakeWord
    <3>3. ~ receivingUpper
      BY <3>1 DEF KeptInv
    <3>4. receivingUpper' = FALSE
      BY <3>2, <3>3 DEF FetchTypeOK
    <3>5. QED
      BY <2>2, <3>2, <3>4
  <2>7. CASE Resp.ep = Epochs /\ (JoinHalves \/ TakePrev \/ KeepUpper \/ TakeLower)
    BY <2>3, <2>4, <2>7 DEF JoinHalves, TakePrev, KeepUpper, TakeLower
  <2>8. QED
    BY <1>7, <2>5, <2>6, <2>7 DEF ProcessInstruction
<1>8. CASE Decode
  BY <1>2, <1>8, DecodeEpochs DEF epochVars, Epochs, icacheVars, stage1Vars
<1>9. CASE Exec
  <2>1. UNCHANGED <<wEpoch, kept, receivingUpper, iresp, ireq>>
    BY <1>9, ExecEpochs DEF icacheVars
  <2>2. CASE eEpoch' = eEpoch
    BY <1>2, <2>1, <2>2 DEF Epochs
  <2>3. CASE eEpoch' = 1 - eEpoch /\ LiveInExec /\ pipe0 # <<>>
    <3>1. NothingLive'
      BY <1>9, <2>3, RedirectEpochs
    <3>2. StaleAnswer'
      BY <2>1, <2>3, <3>1, FlushStale
    <3>3. QED
      BY <2>1, <3>2 DEF KeptInv
  <2>4. QED
    BY <1>9, <2>2, <2>3, ExecEpochs
<1>10. CASE CommitFetchFault \/ CommitOther \/ CommitFenceI \/ CommitSfence
  <2>1. NothingLive' /\ pipe0 # <<>> /\ UNCHANGED <<iresp, ireq, kept, receivingUpper>>
    BY <1>10, CommitEpochs
  <2>2. StaleAnswer'
    BY <2>1, FlushStale
  <2>3. QED
    BY <2>1, <2>2 DEF KeptInv
<1>11. QED
  BY <1>3, <1>4, <1>5, <1>6, <1>7, <1>8, <1>9, <1>10 DEF Next

-----------------------------------------------------------------------------
(* Faults                                                                     *)

LEMMA HeadsPaired ==
  ASSUME FetchTypeOK, PairedByOrder, ProcessInstruction
  PROVE  Resp.word = FromStage0.word
<1>1. pipe0 # <<>> /\ iresp # <<>> /\ pipe0 \in Seq(WordEntry) /\ iresp \in Seq(Answer)
  BY DEF ProcessInstruction, FetchTypeOK
<1>2. iresp[1] = Resp /\ pipe0[1] = FromStage0 /\ 1 \in 1..Len(iresp)
  BY <1>1, Popped DEF Resp, FromStage0
<1>3. QED
  BY <1>2 DEF PairedByOrder

\* What is passed on is an entry.
LEMMA NoEntryLost ==
  ASSUME FetchTypeOK, ProcessInstruction,
         \E at, parts, trap, pred : Enq(at, parts, trap, pred)
  PROVE  \E e \in FetchedEntry : pipe1' = Append(pipe1, e)
<1>1. PICK f : pipe1' = Append(pipe1, f)
  BY DEF Enq
<1>2. pipe1 \in Seq(FetchedEntry \cup {f}) /\ f \in FetchedEntry \cup {f}
  BY EpochValues
<1>3. Len(Append(pipe1, f)) = Len(pipe1) + 1 /\ Len(pipe1) \in Nat
  BY <1>2, Pushed
<1>4. pipe1' # pipe1
  BY <1>1, <1>3
<1>5. QED
  BY <1>4, ProcessShape

\* What stage1 passes on and keeps of an answer to be kept.
LEMMA ProcessFaults ==
  ASSUME FetchTypeOK, PairedByOrder, EpochInv, KeptInv, FaultInv, ProcessInstruction,
         Resp.ep = Epochs
  PROVE  /\ \A e \in FetchedEntry : pipe1' = Append(pipe1, e) =>
              Tells(e) \/ TrapBefore(Len(pipe1) + 1)
         /\ kept' # <<>> /\ Resp.trap =>
              ~ UpperHalf.long /\ \E e \in FetchedEntry : e.trap /\ pipe1' = Append(pipe1, e)
<1>0. /\ pipe0 # <<>> /\ iresp # <<>> /\ Resp \in Answer /\ FromStage0 \in WordEntry
      /\ pipe1 \in Seq(FetchedEntry) /\ iresp \in Seq(Answer) /\ kept \in Seq(HalfEntry)
  BY ProcessShape, EpochValues
<1>1. iresp[1] = Resp /\ Len(iresp) \in Nat /\ Len(iresp) >= 1 /\ 1 \in 1..Len(iresp)
  BY <1>0, Popped DEF Resp
<1>2. FromStage0.word = Resp.word
  BY HeadsPaired
<1>3. /\ Resp.trap = (Resp.word \in FaultWord)
      /\ Resp.trap => ~ Resp.lo /\ ~ Resp.hi
  BY <1>1 DEF FaultInv, TellsAnswer
<1>4. UpperHalf.long = Resp.hi
  BY DEF UpperHalf
<1>5. ASSUME NEW w \in Word, NEW half \in {0, 1}, NEW v
      PROVE  Faulty(Part(w, half, v)) <=> w \in FaultWord
  <2>1. WordOf(2 * w + half) = w
    BY Addresses DEF Word
  <2>2. QED
    BY <2>1 DEF Faulty, Part
<1>6. Resp.word \in Word /\ Resp.trap \in BOOLEAN
  BY <1>0 DEF Answer
<1>7. /\ Faulty(Part(Resp.word, 0, Resp.ver)) <=> Resp.trap
      /\ Faulty(Part(Resp.word, 1, Resp.ver)) <=> Resp.trap
  BY <1>3, <1>5, <1>6
<1>8. ASSUME NEW e \in FetchedEntry, pipe1' = Append(pipe1, e)
      PROVE  /\ e.trap \in BOOLEAN
             /\ \A at, parts, trap, pred : Enq(at, parts, trap, pred) =>
                  e.parts = parts /\ e.trap = trap /\ e.upperErr = (receivingUpper /\ Resp.trap)
  BY <1>0, <1>8, EnqShape DEF FetchedEntry
<1>9. ASSUME NEW e \in FetchedEntry, NEW p, e.parts = <<p>>, e.trap <=> Faulty(p),
             e.trap => ~ e.upperErr
      PROVE  Tells(e)
  <2>1. Len(e.parts) = 1 /\ e.parts[1] = p
    BY <1>9
  <2>2. e.trap \in BOOLEAN /\ e.upperErr \in BOOLEAN
    BY DEF FetchedEntry
  <2>3. (\E n \in 1..Len(e.parts) : Faulty(e.parts[n])) <=> Faulty(p)
    BY <2>1
  <2>4. QED
    BY <1>9, <2>1, <2>2, <2>3 DEF Tells
<1>10. ASSUME NEW e \in FetchedEntry, NEW p, NEW q, e.parts = <<p, q>>,
              e.trap <=> Faulty(p) \/ Faulty(q), e.trap => (e.upperErr <=> ~ Faulty(p))
       PROVE  Tells(e)
  <2>1. Len(e.parts) = 2 /\ e.parts[1] = p /\ e.parts[2] = q
    BY <1>10
  <2>2. e.trap \in BOOLEAN /\ e.upperErr \in BOOLEAN
    BY DEF FetchedEntry
  <2>3. (\E n \in 1..Len(e.parts) : Faulty(e.parts[n])) <=> Faulty(p) \/ Faulty(q)
    BY <2>1
  <2>4. QED
    BY <1>10, <2>1, <2>2, <2>3 DEF Tells
<1>11. CASE HasPrev
  <2>1. /\ kept # <<>> /\ Prev.ep = Epochs /\ Prev \in HalfEntry /\ receivingUpper
        /\ TellsHalf(Prev)
    <3>1. kept # <<>> /\ Prev.ep = Epochs
      BY <1>11 DEF HasPrev
    <3>2. Prev \in HalfEntry /\ kept[1] = Prev /\ 1 \in 1..Len(kept)
      BY <1>0, <3>1, Popped DEF Prev
    <3>3. QED
      BY <3>1, <3>2 DEF KeptInv, FaultInv
  <2>2. Faulty(PrevPart) <=> Prev.word \in FaultWord
    BY <1>5, <2>1 DEF PrevPart, HalfEntry
  <2>3. CASE JoinHalves
    <3>1. Prev.long /\ Enq(PrevPc, <<PrevPart, Part(Resp.word, 0, Resp.ver)>>, Resp.trap, PrevPred)
      BY <2>3 DEF JoinHalves
    <3>2. ~ Faulty(PrevPart)
      BY <2>1, <2>2, <3>1 DEF TellsHalf
    <3>3. ASSUME NEW e \in FetchedEntry, pipe1' = Append(pipe1, e)
          PROVE  Tells(e) /\ (Resp.trap => e.trap)
      <4>1. /\ e.parts = <<PrevPart, Part(Resp.word, 0, Resp.ver)>> /\ e.trap = Resp.trap
            /\ e.upperErr = (receivingUpper /\ Resp.trap)
        BY <1>8, <3>1, <3>3
      <4>2. e.trap => (e.upperErr <=> ~ Faulty(PrevPart))
        BY <2>1, <3>2, <4>1
      <4>3. e.trap <=> Faulty(PrevPart) \/ Faulty(Part(Resp.word, 0, Resp.ver))
        BY <1>7, <3>2, <4>1
      <4>4. QED
        BY <1>10, <4>1, <4>2, <4>3
    <3>4. \E e \in FetchedEntry : pipe1' = Append(pipe1, e)
      BY <3>1, NoEntryLost
    <3>5. QED
      BY <1>3, <1>4, <3>3, <3>4
  <2>4. CASE TakePrev
    <3>1. Enq(PrevPc, <<PrevPart>>, FALSE, PrevPred) /\ kept' = <<>>
      BY <2>4 DEF TakePrev, Settle
    <3>2. ASSUME NEW e \in FetchedEntry, pipe1' = Append(pipe1, e), ~ TrapBefore(Len(pipe1) + 1)
          PROVE  Tells(e)
      <4>1. e.parts = <<PrevPart>> /\ ~ e.trap
        BY <1>8, <3>1, <3>2
      <4>2. ~ Faulty(PrevPart)
        BY <2>1, <2>2, <3>2 DEF TellsHalf
      <4>3. QED
        BY <1>9, <4>1, <4>2
    <3>3. QED
      BY <3>1, <3>2
  <2>5. QED
    BY <1>11, <2>3, <2>4 DEF ProcessInstruction
<1>12. CASE ~ HasPrev
  <2>1. ~ receivingUpper
    BY <1>12, NothingKept DEF KeptInv
  <2>2. CASE KeepUpper
    <3>1. Resp.hi /\ pipe1' = pipe1
      BY <2>2 DEF KeepUpper
    <3>2. \A e \in FetchedEntry : pipe1' # Append(pipe1, e)
      BY <1>0, <3>1, Pushed
    <3>3. QED
      BY <1>3, <3>1, <3>2
  <2>3. CASE TakeUpper
    <3>1. /\ \E at, pred : Enq(at, <<Part(Resp.word, 1, Resp.ver)>>, Resp.trap, pred)
          /\ kept' = <<>>
      BY <2>3 DEF TakeUpper
    <3>2. ASSUME NEW e \in FetchedEntry, pipe1' = Append(pipe1, e) PROVE Tells(e)
      <4>1. /\ e.parts = <<Part(Resp.word, 1, Resp.ver)>> /\ e.trap = Resp.trap
            /\ e.upperErr = (receivingUpper /\ Resp.trap)
        BY <1>8, <3>1, <3>2
      <4>2. e.trap => ~ e.upperErr
        BY <2>1, <4>1
      <4>3. e.trap <=> Faulty(Part(Resp.word, 1, Resp.ver))
        BY <1>7, <4>1
      <4>4. QED
        BY <1>9, <4>1, <4>2, <4>3
    <3>3. QED
      BY <3>1, <3>2
  <2>4. CASE TakeWord
    <3>1. /\ \E at, pred :
               Enq(at, <<Part(Resp.word, 0, Resp.ver), Part(Resp.word, 1, Resp.ver)>>, Resp.trap, pred)
          /\ kept' = <<>> /\ Resp.lo
      BY <2>4 DEF TakeWord
    <3>2. ASSUME NEW e \in FetchedEntry, pipe1' = Append(pipe1, e) PROVE Tells(e)
      <4>1. /\ e.parts = <<Part(Resp.word, 0, Resp.ver), Part(Resp.word, 1, Resp.ver)>>
            /\ e.trap = Resp.trap
        BY <1>8, <3>1, <3>2
      <4>2. ~ e.trap
        BY <1>3, <3>1, <4>1
      <4>3. e.trap <=> Faulty(Part(Resp.word, 0, Resp.ver)) \/ Faulty(Part(Resp.word, 1, Resp.ver))
        BY <1>7, <4>1
      <4>4. QED
        BY <1>10, <4>1, <4>2, <4>3
    <3>3. QED
      BY <3>1, <3>2
  <2>5. CASE TakeLower
    <3>1. \E at, pred : Enq(at, <<Part(Resp.word, 0, Resp.ver)>>, Resp.trap, pred)
      BY <2>5 DEF TakeLower
    <3>2. ASSUME NEW e \in FetchedEntry, pipe1' = Append(pipe1, e)
          PROVE  Tells(e) /\ (Resp.trap => e.trap)
      <4>1. /\ e.parts = <<Part(Resp.word, 0, Resp.ver)>> /\ e.trap = Resp.trap
            /\ e.upperErr = (receivingUpper /\ Resp.trap)
        BY <1>8, <3>1, <3>2
      <4>2. e.trap => ~ e.upperErr
        BY <2>1, <4>1
      <4>3. e.trap <=> Faulty(Part(Resp.word, 0, Resp.ver))
        BY <1>7, <4>1
      <4>4. QED
        BY <1>9, <4>1, <4>2, <4>3
    <3>3. \E e \in FetchedEntry : pipe1' = Append(pipe1, e)
      BY <3>1, NoEntryLost
    <3>4. QED
      BY <1>3, <1>4, <3>2, <3>3
  <2>6. QED
    BY <1>12, <2>2, <2>3, <2>4, <2>5 DEF ProcessInstruction
<1>13. QED
  BY <1>11, <1>12

\* Behind a flush there is nothing to be told but what the answers say.
LEMMA NothingToTell ==
  ASSUME FaultInv, NothingLive', UNCHANGED <<pipe1, kept, iresp>>,
         pipe2' = <<>> \/ pipe2' = pipe2
  PROVE  FaultInv'
<1>1. /\ \A i \in 1..Len(pipe1') : pipe1'[i].ep # Epochs'
      /\ \A i \in 1..Len(pipe2') : pipe2'[i].ep # Epochs'
      /\ \A i \in 1..Len(kept) : kept[i].ep # Epochs'
  BY DEF NothingLive, NothingRead, NoneOf
<1>2. \A i \in 1..Len(iresp') : TellsAnswer(iresp'[i])
  BY DEF FaultInv
<1>3. (\A i \in 1..Len(kept) : TellsHalf(kept[i]))'
  BY <1>1 DEF FaultInv, TellsHalf
<1>4. QED
  BY <1>1, <1>2, <1>3 DEF FaultInv

LEMMA FaultStep ==
  ASSUME FaultData = {FALSE}
  PROVE  FetchTypeOK /\ PairedByOrder /\ EpochInv /\ KeptInv /\ FaultInv /\ [Next]_vars
           => FaultInv'
<1> SUFFICES ASSUME FetchTypeOK, PairedByOrder, EpochInv, KeptInv, FaultInv, [Next]_vars
             PROVE  FaultInv'
  OBVIOUS
<1>0. /\ pipe1 \in Seq(FetchedEntry) /\ pipe2 \in Seq(FetchedEntry)
      /\ kept \in Seq(HalfEntry) /\ iresp \in Seq(Answer) /\ ireq \in Seq(Request)
      /\ stall \in BOOLEAN
  BY EpochValues DEF FetchTypeOK
<1>1. ASSUME UNCHANGED <<Epochs, stall, pipe2, pipe1, kept, iresp>> PROVE FaultInv'
  BY <1>1 DEF FaultInv, TellsAnswer, TellsHalf, TrapBefore, Tells
<1>2. CASE ClearBtb \/ TrainBtb \/ UNCHANGED vars
  BY <1>1, <1>2, Quiet DEF epochVars, Epochs
<1>3. CASE GenNextPc \/ GenFence
  BY <1>1, <1>3, SendShape DEF epochVars, Epochs, stage1Vars, backVars
<1>4. CASE IcacheRespond
  <2>1. UNCHANGED <<Epochs, stall, kept, pipe1, pipe2>>
    BY <1>4, RespondShape DEF epochVars, Epochs, stage1Vars, backVars
  <2>2. PICK a \in Answer :
          /\ iresp' = Append(iresp, a) /\ a.trap = (a.word \in FaultWord)
          /\ a.trap => a.lo \in FaultData /\ a.hi \in FaultData
    BY <1>4, RespondShape
  <2>3. TellsAnswer(a)
    BY <2>2 DEF TellsAnswer
  <2>4. /\ Len(iresp') = Len(iresp) + 1 /\ Len(iresp) \in Nat /\ iresp'[Len(iresp) + 1] = a
        /\ \A i \in 1..Len(iresp) : iresp'[i] = iresp[i]
    BY <1>0, <2>2, Pushed
  <2>5. \A i \in 1..Len(iresp') : i \in 1..Len(iresp) \/ i = Len(iresp) + 1
    BY <2>4
  <2>6. \A i \in 1..Len(iresp') : TellsAnswer(iresp'[i])
    BY <2>3, <2>4, <2>5 DEF FaultInv
  <2>7. QED
    BY <2>1, <2>6 DEF FaultInv, TellsAnswer, TellsHalf, TrapBefore, Tells
<1>5. CASE IcacheFence
  BY <1>1, <1>5, FenceShape DEF epochVars, Epochs
<1>6. CASE ProcessInstruction
  <2>1. /\ UNCHANGED <<Epochs, stall, pipe2>> /\ iresp # <<>> /\ Resp \in Answer
    BY <1>6, ProcessEpochs, ProcessShape DEF epochVars, Epochs, backVars
  <2>2. \A i \in 1..Len(iresp') : TellsAnswer(iresp'[i])
    <3>1. iresp' = iresp \/ iresp' = Tail(iresp)
      BY <1>6, ProcessShape DEF Deq
    <3>2. \A i \in 1..Len(Tail(iresp)) : i + 1 \in 1..Len(iresp) /\ Tail(iresp)[i] = iresp[i + 1]
      BY <1>0, <2>1, Popped
    <3>3. QED
      BY <3>1, <3>2 DEF FaultInv
  <2>3. CASE Resp.ep # Epochs
    <3>1. kept' = <<>> /\ pipe1' = pipe1
      BY <1>6, <2>3, ProcessEpochs
    <3>2. QED
      BY <2>1, <2>2, <3>1 DEF FaultInv, TrapBefore
  <2>4. CASE Resp.ep = Epochs
    <3>1. /\ kept' = <<>> \/ kept' = <<UpperHalf>>
          /\ pipe1' = pipe1 \/ \E e \in FetchedEntry : e.ep = Epochs /\ pipe1' = Append(pipe1, e)
      BY <1>6, <2>4, ProcessEpochs
    <3>2. /\ \A e \in FetchedEntry : pipe1' = Append(pipe1, e) =>
               Tells(e) \/ TrapBefore(Len(pipe1) + 1)
          /\ kept' # <<>> /\ Resp.trap =>
               ~ UpperHalf.long /\ \E e \in FetchedEntry : e.trap /\ pipe1' = Append(pipe1, e)
      BY <1>6, <2>4, ProcessFaults
    <3>3. ASSUME NEW e \in FetchedEntry, e.ep = Epochs, pipe1' = Append(pipe1, e)
          PROVE  /\ \A i \in 1..Len(pipe1') :
                      pipe1'[i].ep = Epochs => Tells(pipe1'[i]) \/ TrapBefore(i)'
                 /\ e.trap => TrapBefore(Len(pipe1) + 2)'
                 /\ Len(pipe1') + 1 = Len(pipe1) + 2
      <4>1. /\ Len(pipe1') = Len(pipe1) + 1 /\ Len(pipe1) \in Nat /\ pipe1'[Len(pipe1) + 1] = e
            /\ \A i \in 1..Len(pipe1) : i \in 1..Len(pipe1') /\ pipe1'[i] = pipe1[i]
        BY <1>0, <3>3, Pushed
      <4>2. \A i : TrapBefore(i) => TrapBefore(i)'
        BY <2>1, <4>1 DEF TrapBefore
      <4>3. ASSUME NEW i \in 1..Len(pipe1'), pipe1'[i].ep = Epochs
            PROVE  Tells(pipe1'[i]) \/ TrapBefore(i)'
        <5>1. CASE i \in 1..Len(pipe1)
          BY <4>1, <4>2, <4>3, <5>1 DEF FaultInv
        <5>2. CASE i = Len(pipe1) + 1
          BY <3>2, <3>3, <4>1, <4>2, <5>2
        <5>3. QED
          BY <4>1, <5>1, <5>2
      <4>4. e.trap => TrapBefore(Len(pipe1) + 2)'
        <5>1. Len(pipe1) + 1 \in 1..Len(pipe1') /\ Len(pipe1) + 1 < Len(pipe1) + 2
          BY <4>1
        <5>2. QED
          BY <2>1, <3>3, <4>1, <5>1 DEF TrapBefore
      <4>5. QED
        BY <4>1, <4>3, <4>4
    <3>4. \A i \in 1..Len(pipe1') : pipe1'[i].ep = Epochs => Tells(pipe1'[i]) \/ TrapBefore(i)'
      <4>1. CASE pipe1' = pipe1
        BY <2>1, <4>1 DEF FaultInv, TrapBefore
      <4>2. QED
        BY <3>1, <3>3, <4>1
    <3>5. (\A i \in 1..Len(kept) : TellsHalf(kept[i]))'
      <4>1. CASE kept' = <<>>
        BY <4>1
      <4>2. CASE kept' = <<UpperHalf>>
        <5>1. kept' # <<>>
          BY <4>2
        <5>2. UpperHalf.word \in FaultWord => Resp.trap
          <6>1. Resp.word = FromStage0.word
            BY <1>6, HeadsPaired
          <6>2. iresp[1] = Resp /\ 1 \in 1..Len(iresp)
            BY <1>0, <2>1, Popped DEF Resp
          <6>3. QED
            BY <6>1, <6>2 DEF FaultInv, TellsAnswer, UpperHalf
        <5>3. ASSUME Resp.trap PROVE ~ UpperHalf.long /\ TrapBefore(Len(pipe1) + 1)'
          <6>1. PICK e \in FetchedEntry : e.trap /\ pipe1' = Append(pipe1, e)
            BY <3>2, <5>1, <5>3
          <6>2. Len(pipe1') = Len(pipe1) + 1 /\ Len(pipe1) \in Nat
            BY <1>0, <6>1, Pushed
          <6>3. pipe1' # pipe1
            BY <6>2
          <6>4. PICK f \in FetchedEntry : f.ep = Epochs /\ pipe1' = Append(pipe1, f)
            BY <3>1, <6>3
          <6>5. f = e
            BY <1>0, <6>1, <6>4, SameEntry
          <6>6. TrapBefore(Len(pipe1) + 2)' /\ Len(pipe1') + 1 = Len(pipe1) + 2
            BY <3>3, <6>1, <6>4, <6>5
          <6>7. ~ UpperHalf.long
            BY <3>2, <5>1, <5>3
          <6>8. TrapBefore(Len(pipe1) + 1)'
            BY <6>6 DEF TrapBefore
          <6>9. QED
            BY <6>7, <6>8
        <5>4. QED
          BY <4>2, <5>2, <5>3 DEF TellsHalf
      <4>3. QED
        BY <3>1, <4>1, <4>2
    <3>6. QED
      BY <2>1, <2>2, <3>4, <3>5 DEF FaultInv, TellsAnswer, Tells
  <2>5. QED
    BY <2>3, <2>4
<1>7. CASE Decode
  <2>1. /\ pipe1 # <<>> /\ pipe1' = Tail(pipe1) /\ ~ stall
        /\ UNCHANGED <<Epochs, iresp, kept>>
        /\ Head(pipe1).ep = Epochs => pipe2' = <<Head(pipe1)>> /\ stall' = Head(pipe1).trap
        /\ Head(pipe1).ep # Epochs => UNCHANGED <<pipe2, stall>>
    BY <1>7, DecodeEpochs DEF epochVars, Epochs, stage1Vars, icacheVars
  <2>2. /\ Len(Tail(pipe1)) = Len(pipe1) - 1 /\ Len(pipe1) \in Nat
        /\ \A i \in 1..Len(Tail(pipe1)) : i + 1 \in 1..Len(pipe1) /\ Tail(pipe1)[i] = pipe1[i + 1]
        /\ \A i \in 2..Len(pipe1) : i - 1 \in 1..Len(Tail(pipe1)) /\ Tail(pipe1)[i - 1] = pipe1[i]
        /\ pipe1[1] = Head(pipe1) /\ 1 \in 1..Len(pipe1)
    BY <1>0, <2>1, Popped
  <2>3. ASSUME NEW i \in Nat, TrapBefore(i + 1) PROVE TrapBefore(i)'
    <3>1. PICK j \in 1..Len(pipe1) : j < i + 1 /\ pipe1[j].ep = Epochs /\ pipe1[j].trap
      BY <2>1, <2>3 DEF TrapBefore
    <3>2. CASE j = 1
      BY <2>1, <2>2, <3>1, <3>2 DEF TrapBefore
    <3>3. CASE j # 1
      <4>1. j \in 2..Len(pipe1) /\ j - 1 < i
        BY <2>2, <3>1, <3>3
      <4>2. QED
        BY <2>1, <2>2, <3>1, <4>1 DEF TrapBefore
    <3>4. QED
      BY <3>2, <3>3
  <2>4. \A i \in 1..Len(pipe1') : pipe1'[i].ep = Epochs => Tells(pipe1'[i]) \/ TrapBefore(i)'
    BY <2>1, <2>2, <2>3 DEF FaultInv
  <2>5. ASSUME NEW i \in 1..Len(kept) PROVE TellsHalf(kept[i])'
    <3>1. TellsHalf(kept[i])
      BY DEF FaultInv
    <3>2. PICK n \in Nat : n = Len(pipe1) /\ n = Len(pipe1') + 1
      <4>1. Len(pipe1') = Len(pipe1) - 1 /\ Len(pipe1) \in Nat
        BY <2>1, <2>2
      <4>2. \A l \in Nat : (l - 1) + 1 = l
        OBVIOUS
      <4>3. QED
        BY <4>1, <4>2
    <3>3. TrapBefore(Len(pipe1) + 1) => TrapBefore(n)'
      BY <2>3, <3>2
    <3>4. QED
      BY <2>1, <3>1, <3>2, <3>3 DEF TellsHalf, TrapBefore
  <2>6. \A i \in 1..Len(pipe2') : pipe2'[i].ep = Epochs => Tells(pipe2'[i])
    <3>1. CASE Head(pipe1).ep = Epochs
      <4>1. ~ TrapBefore(1)
        BY <2>1, <2>2 DEF TrapBefore
      <4>2. Tells(Head(pipe1))
        BY <2>2, <3>1, <4>1 DEF FaultInv
      <4>3. QED
        BY <2>1, <3>1, <4>2
    <3>2. CASE Head(pipe1).ep # Epochs
      BY <2>1, <3>2 DEF FaultInv
    <3>3. QED
      BY <3>1, <3>2
  <2>7. QED
    BY <2>1, <2>4, <2>5, <2>6 DEF FaultInv, TellsAnswer, Tells
<1>8. CASE Exec
  <2>1. pipe2' = <<>> /\ UNCHANGED <<wEpoch, pipe1, kept, iresp, ireq>>
    BY <1>8, ExecEpochs DEF icacheVars
  <2>2. CASE UNCHANGED <<eEpoch, stall>>
    <3>1. Epochs' = Epochs
      BY <2>1, <2>2 DEF Epochs
    <3>2. QED
      BY <2>1, <2>2, <3>1 DEF FaultInv, TellsHalf, TrapBefore
  <2>3. CASE eEpoch' = 1 - eEpoch /\ LiveInExec
    <3>1. NothingLive'
      BY <1>8, <2>3, RedirectEpochs
    <3>2. QED
      BY <2>1, <3>1, NothingToTell
  <2>4. QED
    BY <1>8, <2>2, <2>3, ExecEpochs
<1>9. CASE CommitFetchFault \/ CommitOther \/ CommitFenceI \/ CommitSfence
  <2>1. NothingLive' /\ UNCHANGED <<pipe2, pipe1, kept, iresp>>
    BY <1>9, CommitEpochs
  <2>2. QED
    BY <2>1, NothingToTell
<1>10. QED
  BY <1>2, <1>3, <1>4, <1>5, <1>6, <1>7, <1>8, <1>9 DEF Next

\* A fetch fault of any part of an instruction travels with it to write back, and
\* mtval will name the upper half exactly when only that half has failed, if the
\* data of a faulting answer looks like 16-bit code.
THEOREM FaultsTravel == FaultData = {FALSE} => (Spec => []FaultsReported)
<1> SUFFICES ASSUME FaultData = {FALSE} PROVE Spec => []FaultsReported
  OBVIOUS
<1>1. Init => KeptInv /\ FaultInv
  BY DEF Init, KeptInv, FaultInv, NoneOf
<1>2. FetchTypeOK /\ PairedByOrder /\ EpochInv /\ KeptInv /\ FaultInv /\ [Next]_vars
        => (KeptInv /\ FaultInv)'
  BY KeptStep, FaultStep
<1>3. FetchTypeOK /\ FaultInv => FaultsReported
  <2> SUFFICES ASSUME FetchTypeOK, FaultInv, LiveInExec PROVE FaultsReported
    BY DEF FaultsReported
  <2>1. /\ pipe2[1] = InExec /\ 1 \in 1..Len(pipe2) /\ InExec.ep = Epochs
        /\ InExec \in FetchedEntry
    BY Popped, EpochValues DEF LiveInExec, InExec
  <2>2. Tells(InExec)
    BY <2>1 DEF FaultInv
  <2>3. (\E p \in {InExec.parts[i] : i \in 1..Len(InExec.parts)} : Faulty(p))
          = (\E n \in 1..Len(InExec.parts) : Faulty(InExec.parts[n]))
    OBVIOUS
  <2>4. QED
    BY <2>2, <2>3 DEF FaultsReported, Tells
<1>4. QED
  BY <1>1, <1>2, <1>3, StreamInvariance, Pairing, PTL DEF Spec

-----------------------------------------------------------------------------
(* The branch target buffer                                                   *)

Index == 0 .. (BtbDepth - 1)

\* The buffer keeps its size and the pointer stays in it; without either, the
\* entry that is replaced would not be one of the buffer.
BtbShape ==
  /\ btb = [i \in Index |-> btb[i]]
  /\ allocate \in Index

BtbInv == BtbShape /\ SingleMatch

LEMMA IndexArithmetic ==
  /\ 0 \in Index
  /\ \A n \in Index : (n + 1) % BtbDepth \in Index
  BY BtbAssumption DEF BtbAssumption, Index

\* Writing the entry of a word where it was, or anywhere when no entry of the
\* word is valid, keeps the entries of different words.
LEMMA WriteKeepsSingle ==
  ASSUME BtbInv,
         NEW i \in Index, NEW e,
         e.valid = TRUE,
         btb' = [btb EXCEPT ![i] = e],
         Matches(e.tag) \subseteq {i}
  PROVE  btb' = [k \in Index |-> btb'[k]] /\ SingleMatch'
<1>1. DOMAIN btb = Index /\ DOMAIN btb' = Index
  BY DEF BtbInv, BtbShape
<1>2. btb' = [k \in Index |-> btb'[k]]
  BY DEF BtbInv, BtbShape
<1>3. \A k \in Index : btb'[k] = IF k = i THEN e ELSE btb[k]
  BY <1>1
<1>4. \A k \in Index : btb[k].valid /\ btb[k].tag = e.tag => k = i
  BY <1>1 DEF Matches
<1>5. SingleMatch'
  BY <1>1, <1>3, <1>4 DEF BtbInv, SingleMatch
<1> QED BY <1>2, <1>5

\* ma_train_bpu keeps the invariant, whatever the training data are.
LEMMA TrainKeepsInv ==
  ASSUME BtbInv, NEW d, Train(d)
  PROVE  BtbInv'
<1> DEFINE e == Trained(d)
<1>1. e.valid = TRUE /\ e.tag = WordOf(d.pc)
  BY DEF Trained
<1>2. DOMAIN btb = Index /\ allocate \in Index
  BY DEF BtbInv, BtbShape
<1>3. CASE \E i \in Matches(WordOf(d.pc)) :
             /\ btb' = [btb EXCEPT ![i] = e]
             /\ UNCHANGED allocate
  <2>1. PICK i \in Matches(WordOf(d.pc)) :
          btb' = [btb EXCEPT ![i] = e] /\ allocate' = allocate
    BY <1>3
  <2>2. i \in Index /\ Matches(e.tag) \subseteq {i}
    BY <1>1, <1>2, <2>1 DEF Matches, BtbInv, SingleMatch
  <2>3. btb' = [k \in Index |-> btb'[k]] /\ SingleMatch'
    <3> HIDE DEF e
    <3> QED BY <1>1, <2>1, <2>2, WriteKeepsSingle
  <2> QED BY <1>2, <2>1, <2>3 DEF BtbInv, BtbShape
<1>4. CASE /\ Matches(WordOf(d.pc)) = {}
           /\ btb' = [btb EXCEPT ![allocate] = e]
           /\ allocate' = (allocate + 1) % BtbDepth
  <2>1. btb' = [k \in Index |-> btb'[k]] /\ SingleMatch'
    <3>1. Matches(e.tag) \subseteq {allocate}
      BY <1>1, <1>4
    <3> HIDE DEF e
    <3> QED BY <1>1, <1>2, <1>4, <3>1, WriteKeepsSingle
  <2>2. allocate' \in Index
    BY <1>2, <1>4, IndexArithmetic
  <2> QED BY <2>1, <2>2 DEF BtbInv, BtbShape
<1> QED BY <1>3, <1>4 DEF Train

\* rl_initialize empties the buffer.
LEMMA ClearKeepsInv ==
  ASSUME BtbInv, Clear
  PROVE  BtbInv'
<1>1. btb' = [i \in Index |-> NoEntry] /\ allocate' = 0
  BY DEF Clear, BtbInv, BtbShape
<1>2. SingleMatch'
  BY <1>1 DEF SingleMatch, NoEntry
<1> QED BY <1>1, <1>2, IndexArithmetic DEF BtbInv, BtbShape

LEMMA InitBtbInv == Init => BtbInv
  BY IndexArithmetic DEF Init, BtbInit, BtbInv, BtbShape, SingleMatch, NoEntry, Index

LEMMA NextBtbInv == BtbInv /\ [Next]_vars => BtbInv'
<1> SUFFICES ASSUME BtbInv, [Next]_vars PROVE BtbInv'
  OBVIOUS
<1>1. CASE TrainBtb
  BY <1>1, TrainKeepsInv DEF TrainBtb
<1>2. CASE ClearBtb
  BY <1>2, ClearKeepsInv DEF ClearBtb
<1>3. CASE btb' = btb /\ allocate' = allocate
  BY <1>3 DEF BtbInv, BtbShape, SingleMatch
<1>4. CASE GenNextPc \/ GenFence \/ IcacheRespond \/ IcacheFence \/ Decode
  BY <1>3, <1>4 DEF GenNextPc, GenFence, IcacheRespond, IcacheFence, Decode, btbVars
<1>5. CASE ProcessInstruction
  BY <1>3, <1>5 DEF ProcessInstruction, btbVars
<1>6. CASE Exec
  BY <1>3, <1>6 DEF Exec, ExecDrop, ExecPlain, ExecControl, ExecFrame, btbVars
<1>7. CASE CommitFetchFault \/ CommitOther \/ CommitFenceI \/ CommitSfence
  BY <1>3, <1>7 DEF CommitFetchFault, CommitOther, CommitFenceI, CommitSfence, WbFlush,
                    btbVars
<1>8. CASE UNCHANGED vars
  BY <1>3, <1>8 DEF vars, btbVars
<1> QED BY <1>1, <1>2, <1>4, <1>5, <1>6, <1>7, <1>8 DEF Next

\* The assertion "Multiple Matches in BTB" of mav_prediction_response never
\* fails: training looks its word up at its own time, and replacement and the
\* clearing of a fence come in between.
THEOREM BtbAnswersOnce == Spec => []SingleMatch
<1>1. Init => BtbInv
  BY InitBtbInv
<1>2. BtbInv /\ [Next]_vars => BtbInv'
  BY NextBtbInv
<1>3. BtbInv => SingleMatch
  BY DEF BtbInv
<1> QED BY <1>1, <1>2, <1>3, PTL DEF Spec

=============================================================================
