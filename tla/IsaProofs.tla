----------------------------- MODULE IsaProofs -----------------------------
(***************************************************************************)
(* The pipeline implements the instruction set: whatever it speculates and *)
(* bypasses, write back shows the program run one instruction at a time.   *)
(* The argument: an instruction past execution carries what it computes    *)
(* from the registers the older ones leave (CompInv), comes from where the *)
(* one before it goes (PathInv), and brings to the data side the value it  *)
(* is to store (StoreValInv).  The oldest one has nothing in front of it,  *)
(* so these three say that its commit is the next step of the program.     *)
(***************************************************************************)
EXTENDS OperandProofs

-----------------------------------------------------------------------------
(* Decode brings to execute what can be executed *)

\* Why decode may have made a trap of an instruction.
TrapGround(e) ==
  /\ e.type = "TRAP"
  /\ \/ e.cause \in RerunCause \cup {"Interrupt"}
     \/ e.cause = "Exception" /\ (e.pc \in FetchFault \/ Prog[e.pc].op = "ILL")

\* An instruction in front of execute was fetched without a fault, unless it is
\* a trap with a ground.
ArrivesInv ==
  pipe2 # <<>> =>
    \/ TrapGround(InExec)
    \/ InExec.type # "TRAP" /\ InExec.pc \notin FetchFault

LEMMA DispatchArrives ==
  ASSUME TypeOK, NEW flush, DecodeInto(flush)
  PROVE  ArrivesInv'
<1> DEFINE p == Head(pipe1).pc
           e == [pc |-> p, ep |-> Head(pipe1).ep, type |-> DecodedType(p),
                 cause |-> IF DecodedType(p) = "TRAP" THEN DecodedCause(p) ELSE "none",
                 pred |-> Head(pipe1).pred]
<1>1. CASE pipe2' = <<>>
  BY <1>1 DEF ArrivesInv
<1>2. CASE pipe2' = <<e>>
  <2>1. InExec' = e
    BY <1>2 DEF InExec
  <2>2. p \in Addr /\ rgKind \in RerunCause
    <3>1. pipe1 # <<>>
      BY DEF DecodeInto
    <3>2. QED
      BY <3>1, Heads DEF FetchedEntry, TypeOK, DecodeTypeOK
  <2>3. CASE DecodedType(p) = "TRAP"
    <3>1. e.type = "TRAP" /\ e.pc = p /\ e.cause = DecodedCause(p)
      BY <2>3
    <3>2. \/ DecodedCause(p) \in RerunCause \cup {"Interrupt"}
          \/ DecodedCause(p) = "Exception" /\ (p \in FetchFault \/ Prog[p].op = "ILL")
      BY <2>2, <2>3, ProgramTyped DEF DecodedType, DecodedCause, Op, ControlOp, FenceOp, AccessOp, SystemOp
    <3> HIDE DEF e
    <3>3. QED
      BY <2>1, <3>1, <3>2 DEF ArrivesInv, TrapGround
  <2>4. CASE DecodedType(p) # "TRAP"
    <3>1. p \notin FetchFault /\ e.type # "TRAP" /\ e.pc = p
      BY <2>4 DEF DecodedType
    <3> HIDE DEF e
    <3>2. QED
      BY <2>1, <3>1 DEF ArrivesInv
  <2>5. QED
    BY <2>3, <2>4
<1>3. QED
  BY <1>1, <1>2 DEF DecodeInto, DropStale, SleepOnWfi, Dispatch

LEMMA RedirectArrives ==
  ASSUME TypeOK, ArrivesInv, NEW target, NEW after, after = <<>> \/ after = pipe2,
         Redirect(target, after)
  PROVE  ArrivesInv'
<1>1. CASE pipe2' = after
  BY <1>1 DEF ArrivesInv, InExec
<1>2. CASE DecodeInto(TRUE)
  BY <1>2, DispatchArrives
<1>3. QED
  BY <1>1, <1>2 DEF Redirect

LEMMA ArrivesStep == ASSUME Grounds, Grounds', ArrivesInv, [Next]_vars PROVE ArrivesInv'
<1>0. TypeOK /\ TypeInv
  BY Given DEF Grounds
<1>1. ASSUME pipe2' = pipe2 \/ pipe2' = <<>> PROVE ArrivesInv'
  BY <1>1 DEF ArrivesInv, InExec
<1>2. CASE Exec
  <2>1. pipe2' = <<>> \/ \E target : Redirect(target, <<>>)
    BY <1>2
       DEF Exec, ExecDrop, ExecTrap, ExecAlu, ExecMulti, ExecSystem, ExecMisaligned,
           ExecAccess, ExecFence, ExecLoadReserved, ExecStoreConditional, ExecControl,
           Request, NoRedirect
  <2>2. QED
    BY <1>0, <1>1, <2>1, RedirectArrives
<1>3. CASE InstructionCommit
  <2>1. NoFlush \/ \E target : Redirect(target, pipe2)
    BY <1>0, <1>3, CommitWrites DEF FlushFromWb
  <2>2. QED
    BY <1>0, <1>1, <2>1, RedirectArrives DEF NoFlush, decodeVars
<1>4. CASE Decode
  BY <1>0, <1>4, DispatchArrives DEF Decode
<1>5. CASE Deliver \/ WaitForInterrupt \/ DelayedOutput \/ DmemRespond \/ CheckInstruction
             \/ CsrAnswer \/ ToggleIrq \/ UNCHANGED vars
  <2>1. pipe2' = pipe2
    BY <1>5 DEF Deliver, WaitForInterrupt, DelayedOutput, DmemRespond, CheckInstruction,
                CsrAnswer, ToggleIrq, vars, decodeVars
  <2>2. QED
    BY <1>1, <2>1
<1>6. QED
  BY <1>2, <1>3, <1>4, <1>5 DEF Next

THEOREM ArrivesInvariance == Spec => []ArrivesInv
<1>1. Init => ArrivesInv
  BY DEF Init, ArrivesInv
<1>2. Grounds /\ Grounds' /\ ArrivesInv /\ [Next]_vars => ArrivesInv'
  BY ArrivesStep
<1>3. QED
  BY <1>1, <1>2, GroundsInvariance, PTL DEF Spec

\* What is known where execute reads its operands.
Reads == Grounds /\ SyncInv /\ EntryInv /\ OperandInv /\ ArrivesInv

THEOREM ReadsInvariance == Spec => []Reads
  BY GroundsInvariance, SyncInvariance, EntryInvariance, OperandInvariance,
     ArrivesInvariance, PTL DEF Reads

\* The i-th instruction past execution reads a and b.
HasRead(i, a, b) ==
  /\ Holds(Prog[Issued[i].pc].rs1, i, a)
  /\ Holds(Prog[Issued[i].pc].rs2, i, b)

\* Execute reads what the older instructions leave.
LEMMA ExecReads ==
  ASSUME Reads, Exec, NEW e, Executed(e), InExec.type # "TRAP"
  PROVE  /\ Rs1.data \in Data /\ Rs2.data \in Data
         /\ Holds(Prog[InExec.pc].rs1, Len(Issued) + 1, Rs1.data)
         /\ Holds(Prog[InExec.pc].rs2, Len(Issued) + 1, Rs2.data)
         /\ Outcome(e, Rs1.data, Rs2.data) /\ InExec.pc \notin FetchFault
<1>0. TypeOK /\ ExecReady /\ LiveFetched(InExec) /\ pipe2 # <<>>
  <2>1. TypeOK /\ TypeInv
    BY Given DEF Reads, Grounds
  <2>2. QED
    BY <2>1, ExecIssues DEF Executed, ExecReady
<1>1. Rs1 = Network(rgOp1) /\ Rs2 = Network(rgOp2)
  BY DEF Rs1, Rs2, Network
<1>2. OperandsAvailable /\ Outcome(e, Rs1.data, Rs2.data)
  BY DEF Executed
<1>3. rgOp1 \in Operands /\ rgOp2 \in Operands
  BY <1>0 DEF TypeOK, OperandTypeOK
<1>4. /\ rgOp1.data = rf[rgOp1.addr] /\ rgOp2.data = rf[rgOp2.addr]
      /\ rgOp1.addr = Prog[InExec.pc].rs1 /\ rgOp2.addr = Prog[InExec.pc].rs2
  BY <1>0 DEF Reads, OperandInv
<1>5. ASSUME NEW op \in Operands, op.data = rf[op.addr], Network(op).available
      PROVE  Holds(op.addr, Len(Issued) + 1, Network(op).data)
  BY <1>0, <1>5, OperandFound DEF Reads
<1>6. InExec.pc \notin FetchFault
  BY <1>0 DEF Reads, ArrivesInv, TrapGround
<1>7. QED
  BY <1>0, <1>1, <1>2, <1>3, <1>4, <1>5, <1>6, BypassTyped DEF OperandsAvailable

-----------------------------------------------------------------------------
(* What an instruction past execution carries *)

\* It is a trap with a ground, or what the registers it has read make of it.
CompInv ==
  \A i \in 1..Len(Issued) : LiveIssued(Issued[i]) =>
    \/ TrapGround(Issued[i])
    \/ /\ Issued[i].pc \notin FetchFault
       /\ \E a, b \in Data : HasRead(i, a, b) /\ Outcome(Issued[i], a, b)

LEMMA OutcomeKept ==
  ASSUME NEW e, NEW f, Became(e, f), NEW a, NEW b, Outcome(f, a, b)
  PROVE  Outcome(e, a, b)
  BY DEF Became, Outcome, MemType, AccessOp, ControlOp, FenceOp, SystemOp

\* What the instruction at p has read, at the i + s-th place, it has still read
\* when it is the i-th.
LEMMA ReadKept ==
  ASSUME TypeOK, Parts, Parts', NEW s \in {0, 1}, Keeps(s), WritesBack(s),
         NEW i \in Nat, 0 < i, i + s <= Len(Issued) + 1, NEW p \in Addr, NEW a, NEW b,
         Holds(Prog[p].rs1, i + s, a), Holds(Prog[p].rs2, i + s, b)
  PROVE  Holds(Prog[p].rs1, i, a)' /\ Holds(Prog[p].rs2, i, b)'
<1>1. i + s \in Nat /\ s < i + s /\ (i + s) - s = i
  OBVIOUS
<1>2. Prog[p].rs1 \in Reg /\ Prog[p].rs2 \in Reg
  BY ProgramTyped
<1>3. ASSUME NEW r \in Reg, NEW v, Holds(r, i + s, v) PROVE Holds(r, i, v)'
  <2>1. \A j : j = i + s => Holds(r, j - s, v)'
    BY <1>1, <1>3, HoldsKept
  <2>2. QED
    BY <1>1, <2>1
<1>4. QED
  BY <1>2, <1>3

\* What execute adds has read the operands it was executed with.
LEMMA AddedReads ==
  ASSUME Reads, Grounds', Exec, Keeps(0), rf' = rf, InExec.type # "TRAP",
         NEW e \in IssuedHere, Executed(e), NEW j, j = Len(Issued) + 1, Issued'[j] = e
  PROVE  /\ e.pc \notin FetchFault
         /\ \E a, b \in Data :
              a = Rs1.data /\ b = Rs2.data /\ HasRead(j, a, b)' /\ Outcome(e, a, b)
<1>1. TypeOK /\ Parts /\ Parts'
  BY Given, PTL DEF Reads
<1>2. PICK p \in Addr, a \in Data, b \in Data :
        /\ p = InExec.pc /\ p = e.pc /\ p \notin FetchFault
        /\ a = Rs1.data /\ b = Rs2.data /\ Outcome(e, a, b)
        /\ Holds(Prog[p].rs1, Len(Issued) + 1, a) /\ Holds(Prog[p].rs2, Len(Issued) + 1, b)
  <2>1. InExec.pc = e.pc /\ e.pc \in Addr
    BY DEF Executed, IssuedHere, IssuedEntry
  <2>2. QED
    BY <2>1, ExecReads
<1>3. j \in Nat /\ 0 < j /\ j + 0 <= Len(Issued) + 1 /\ j + 0 = j
  BY <1>1 DEF Parts, IssuedParts
<1>4. WritesBack(0)
  BY DEF WritesBack
<1>5. Holds(Prog[p].rs1, j, a)' /\ Holds(Prog[p].rs2, j, b)'
  BY <1>1, <1>2, <1>3, <1>4, ReadKept
<1>6. QED
  BY <1>2, <1>5 DEF HasRead

LEMMA CompStep == ASSUME Reads, Grounds', CompInv, [Next]_vars PROVE CompInv'
<1> DEFINE n == Len(Issued)
<1>0. TypeOK /\ Parts /\ Parts' /\ n \in Nat
  <2>1. TypeOK /\ Parts /\ Parts'
    BY Given, PTL DEF Reads
  <2>2. n \in Nat
    BY <2>1 DEF Parts, IssuedParts
  <2>3. QED
    BY <2>1, <2>2
<1>1. CASE NoneIssued'
  BY <1>1 DEF NoneIssued, CompInv, LiveIssued
<1>2. ASSUME NEW s \in {0, 1}, Keeps(s), WritesBack(s), NEW i \in 1..(n - s),
             LiveIssued(Issued[i])'
      PROVE  \/ TrapGround(Issued'[i])
             \/ /\ Issued'[i].pc \notin FetchFault
                /\ \E a, b \in Data : HasRead(i, a, b)' /\ Outcome(Issued'[i], a, b)
  <2>1. i + s \in 1..n /\ Became(Issued'[i], Issued[i + s]) /\ wEpoch' = wEpoch
    BY <1>0, <1>2 DEF Keeps
  <2>2. LiveIssued(Issued[i + s])
    BY <1>2, <2>1 DEF LiveIssued, Became
  <2>3. CASE TrapGround(Issued[i + s])
    BY <2>1, <2>3 DEF TrapGround, Became, MemType
  <2>4. CASE /\ Issued[i + s].pc \notin FetchFault
             /\ \E a, b \in Data : HasRead(i + s, a, b) /\ Outcome(Issued[i + s], a, b)
    <3>1. PICK a \in Data, b \in Data : HasRead(i + s, a, b) /\ Outcome(Issued[i + s], a, b)
      BY <2>4
    <3>2. HasRead(i, a, b)'
      <4>1. i \in Nat /\ 0 < i /\ i + s <= n + 1
        BY <1>0, <1>2, <2>1
      <4>2. Issued[i + s].pc \in Addr /\ Issued'[i].pc = Issued[i + s].pc
        BY <1>0, <2>1 DEF Became, Parts, IssuedParts, IssuedHere, IssuedEntry
      <4>3. QED
        BY <1>0, <1>2, <3>1, <4>1, <4>2, ReadKept DEF HasRead
    <3>3. Outcome(Issued'[i], a, b) /\ Issued'[i].pc = Issued[i + s].pc
      BY <2>1, <3>1, OutcomeKept DEF Became
    <3>4. QED
      BY <2>4, <3>2, <3>3
  <2>5. QED
    BY <2>1, <2>2, <2>3, <2>4 DEF CompInv
<1>3. CASE \E s \in {0, 1} : Keeps(s) /\ WritesBack(s) /\ Len(Issued') = n - s
  BY <1>2, <1>3 DEF CompInv
<1>4. CASE /\ Exec /\ Keeps(0) /\ rf' = rf /\ Len(Issued') = n + 1
           /\ \E e \in IssuedHere : Executed(e) /\ Issued'[n + 1] = e
  <2>1. PICK e \in IssuedHere : Executed(e) /\ Issued'[n + 1] = e
    BY <1>4
  <2>2. WritesBack(0) /\ e.pc = InExec.pc /\ pipe2 # <<>>
    <3>1. pipe2 # <<>>
      BY <1>4, ExecIssues DEF Reads, Grounds, ExecReady
    <3>2. QED
      BY <1>4, <2>1, <3>1 DEF WritesBack, Executed
  <2>3. CASE InExec.type = "TRAP"
    <3>1. TrapGround(InExec) /\ e.type = "TRAP" /\ e.cause = InExec.cause
      BY <2>1, <2>2, <2>3 DEF Reads, ArrivesInv, Executed
    <3>2. TrapGround(e)
      BY <2>2, <3>1 DEF TrapGround
    <3>3. \A i \in 1..(n + 1) : i \in 1..(n - 0) \/ i = n + 1
      BY <1>0
    <3>4. QED
      BY <1>2, <1>4, <2>1, <2>2, <3>2, <3>3 DEF CompInv
  <2>4. CASE InExec.type # "TRAP"
    <3>1. ASSUME NEW j, j = n + 1
          PROVE  /\ Issued'[j].pc \notin FetchFault
                 /\ \E a, b \in Data : HasRead(j, a, b)' /\ Outcome(Issued'[j], a, b)
      BY <1>4, <2>1, <2>4, <3>1, AddedReads
    <3>2. \A i \in 1..(n + 1) : i \in 1..(n - 0) \/ i = n + 1
      BY <1>0
    <3>3. QED
      BY <1>2, <1>4, <2>2, <3>1, <3>2 DEF CompInv
  <2>5. QED
    BY <2>3, <2>4
<1>5. QED
  BY <1>1, <1>3, <1>4, IssuedSteps DEF IssuedStep, Reads

THEOREM CompInvariance == Spec => []CompInv
<1>1. Init /\ Grounds => CompInv
  BY Joined, EmptySeq DEF Init, Grounds, CompInv
<1>2. Reads /\ Grounds' /\ CompInv /\ [Next]_vars => CompInv'
  BY CompStep
<1>3. QED
  BY <1>1, <1>2, GroundsInvariance, ReadsInvariance, PTL DEF Spec

-----------------------------------------------------------------------------
(* Where an instruction comes from *)

\* The program goes from t to q: there, or past the WFI there.
Leads(t, q) == q = t \/ (Prog[t].op = "WFI" /\ q = Fall[t])

\* The registers the i-th instruction past execution has read send it to q.
Goes(i, q) ==
  \E a, b \in Data : HasRead(i, a, b) /\ Leads(Successor(Issued[i].pc, a, b), q)

\* q follows the i-th instruction past execution.  What follows a trap is never
\* committed; behind the last that is squashed the program stands at archPc.
Follows(i, q) ==
  IF i \in 1..Len(Issued) /\ LiveIssued(Issued[i])
  THEN Issued[i].type # "TRAP" => Goes(i, q)
  ELSE Leads(archPc, q)

\* The pc of the first instruction in front of execute, or the one to fetch.
NextUp(q) ==
  \/ \E k \in 1..Len(Waiting) :
       /\ LiveFetched(Waiting[k]) /\ q = Waiting[k].pc
       /\ \A j \in 1..Len(Waiting) : j < k => ~ LiveFetched(Waiting[j])
  \/ NoneWaiting /\ q = fetchPc

\* Every instruction in flight comes from where the one before it goes.
PathInv ==
  /\ \A i \in 1..Len(Issued) :
       LiveIssued(Issued[i]) => Follows(i - 1, Issued[i].pc)
  /\ \A q \in Addr : NextUp(q) => Follows(Len(Issued), q)

\* What the program does when the s oldest instructions leave.
Advances(s) ==
  \/ s = 0 /\ archPc' = archPc
  \/ s = 1 /\ ~ LiveIssued(Issued[1]) /\ archPc' = archPc
  \/ /\ s = 1 /\ LiveIssued(Issued[1]) /\ Issued[1].type # "TRAP"
     /\ LET p == Issued[1].pc
        IN  archPc' = Successor(p, rf[Prog[p].rs1], rf[Prog[p].rs2])

LEMMA OldestReads ==
  ASSUME NEW a, NEW b, Len(Issued) \in Nat, HasRead(1, a, b)
  PROVE  a = rf[Prog[Issued[1].pc].rs1] /\ b = rf[Prog[Issued[1].pc].rs2]
<1>1. \A k \in 1..Len(Issued) : ~ (k < 1)
  OBVIOUS
<1>2. QED
  BY <1>1 DEF HasRead, Holds

\* What follows an instruction still does when older ones have left.
LEMMA PathShift ==
  ASSUME Grounds, Grounds', NEW s \in {0, 1}, Keeps(s), WritesBack(s), Advances(s),
         NEW i \in Nat, i + s <= Len(Issued), NEW q, Follows(i + s, q)
  PROVE  Follows(i, q)'
<1> DEFINE n == Len(Issued)
<1>0. TypeOK /\ Parts /\ Parts' /\ n \in Nat /\ Len(Issued') \in Nat
  <2>1. TypeOK /\ Parts /\ Parts'
    BY Given, PTL
  <2>2. n \in Nat /\ Len(Issued') \in Nat
    BY <2>1 DEF Parts, IssuedParts
  <2>3. QED
    BY <2>1, <2>2
<1>1. CASE i > 0
  <2>1. /\ i \in 1..(n - s) /\ i + s \in 1..n /\ i \in 1..Len(Issued')
        /\ 0 < i /\ i + s <= n + 1
    BY <1>0, <1>1 DEF Keeps
  <2>2. Became(Issued'[i], Issued[i + s]) /\ wEpoch' = wEpoch /\ Issued[i + s].pc \in Addr
    BY <1>0, <2>1 DEF Keeps, Parts, IssuedParts, IssuedHere, IssuedEntry
  <2>3. LiveIssued(Issued[i])' <=> LiveIssued(Issued[i + s])
    BY <2>2 DEF LiveIssued, Became
  <2>4. CASE LiveIssued(Issued[i + s])
    <3>1. ASSUME Issued'[i].type # "TRAP" PROVE Goes(i, q)'
      <4>1. Issued[i + s].type # "TRAP"
        BY <2>2, <3>1 DEF Became, MemType
      <4>2. PICK a \in Data, b \in Data :
              HasRead(i + s, a, b) /\ Leads(Successor(Issued[i + s].pc, a, b), q)
        BY <2>1, <2>4, <4>1 DEF Follows, Goes
      <4>3. HasRead(i, a, b)'
        BY <1>0, <2>1, <2>2, <4>2, ReadKept DEF HasRead, Became
      <4>4. QED
        BY <2>2, <4>2, <4>3 DEF Goes, Became
    <3>2. QED
      BY <2>1, <2>3, <2>4, <3>1 DEF Follows
  <2>5. CASE ~ LiveIssued(Issued[i + s])
    <3>1. Leads(archPc, q)
      BY <2>5 DEF Follows
    <3>2. archPc' = archPc
      <4>1. CASE s = 1 /\ LiveIssued(Issued[1])
        <5>1. EpochOrder
          BY OrderFollows DEF Grounds
        <5>2. 1 \in 1..n /\ i + s \in 1..n
          BY <1>0, <2>1
        <5>3. QED
          BY <2>5, <4>1, <5>1, <5>2 DEF EpochOrder
      <4>2. QED
        BY <4>1 DEF Advances
    <3>3. QED
      BY <2>3, <2>5, <3>1, <3>2 DEF Follows
  <2>6. QED
    BY <2>4, <2>5
<1>2. CASE i = 0
  <2>1. ~ (i \in 1..Len(Issued'))
    BY <1>2
  <2>2. Leads(archPc', q)
    <3>1. CASE s = 0
      <4>1. ~ (i + s \in 1..n) /\ archPc' = archPc
        BY <1>2, <3>1 DEF Advances
      <4>2. QED
        BY <4>1 DEF Follows
    <3>2. CASE s = 1 /\ ~ LiveIssued(Issued[1])
      <4>1. i + s = 1 /\ archPc' = archPc
        BY <1>2, <3>2 DEF Advances
      <4>2. QED
        BY <3>2, <4>1 DEF Follows
    <3>3. CASE s = 1 /\ LiveIssued(Issued[1])
      <4>1. i + s = 1 /\ 1 \in 1..n /\ Issued[1].type # "TRAP"
        BY <1>0, <1>2, <3>3 DEF Advances
      <4>2. PICK a \in Data, b \in Data :
              HasRead(1, a, b) /\ Leads(Successor(Issued[1].pc, a, b), q)
        BY <3>3, <4>1 DEF Follows, Goes
      <4>3. QED
        BY <1>0, <3>3, <4>2, OldestReads DEF Advances
    <3>4. QED
      BY <3>1, <3>2, <3>3
  <2>3. QED
    BY <2>1, <2>2 DEF Follows
<1>3. QED
  BY <1>1, <1>2

\* Nothing in front of execute that counts has changed: the first s go, and
\* they were not to be kept.
LEMMA NextUpStays ==
  ASSUME Parts, NEW s \in {0, 1}, WaitingShift(s),
         s = 1 => ~ LiveFetched(Waiting[1]), NEW q, NextUp(q)'
  PROVE  NextUp(q)
<1> DEFINE n == Len(Waiting)
<1>0. n \in Nat /\ Len(Waiting') = n - s /\ UNCHANGED <<fetchPc, eEpoch, wEpoch>>
  BY DEF Parts, WaitingParts, WaitingShift
<1>1. \A k \in 1..(n - s) :
        /\ k + s \in 1..n /\ Waiting'[k].pc = Waiting[k + s].pc
        /\ LiveFetched(Waiting[k])' <=> LiveFetched(Waiting[k + s])
  BY <1>0 DEF WaitingShift, SameFetched, LiveFetched, Epochs
<1>2. \A j \in 1..n : j > s => j - s \in 1..(n - s) /\ (j - s) + s = j
  BY <1>0
<1>3. \A j \in 1..n : ~ (j > s) => s = 1 /\ j = 1
  BY <1>0
<1>4. CASE \E k \in 1..(n - s) :
             /\ LiveFetched(Waiting[k])' /\ q = Waiting'[k].pc
             /\ \A j \in 1..(n - s) : j < k => ~ LiveFetched(Waiting[j])'
  <2>1. PICK k \in 1..(n - s) :
             /\ LiveFetched(Waiting[k])' /\ q = Waiting'[k].pc
             /\ \A j \in 1..(n - s) : j < k => ~ LiveFetched(Waiting[j])'
    BY <1>4
  <2>2. ASSUME NEW j \in 1..n, j < k + s PROVE ~ LiveFetched(Waiting[j])
    <3>1. CASE j > s
      <4>1. j - s < k
        BY <1>0, <2>2
      <4>2. QED
        BY <1>1, <1>2, <2>1, <3>1, <4>1
    <3>2. QED
      BY <1>3, <3>1
  <2>3. QED
    BY <1>1, <2>1, <2>2 DEF NextUp
<1>5. CASE NoneWaiting' /\ q = fetchPc'
  <2>1. \A k \in 1..(n - s) : ~ LiveFetched(Waiting[k])'
    BY <1>0, <1>5 DEF NoneWaiting, LiveFetched
  <2>2. \A j \in 1..n : ~ LiveFetched(Waiting[j])
    BY <1>1, <1>2, <1>3, <2>1
  <2>3. QED
    BY <1>0, <1>5, <2>2 DEF NextUp, NoneWaiting, LiveFetched
<1>6. QED
  BY <1>0, <1>4, <1>5 DEF NextUp

LEMMA NextUpGrows == ASSUME Parts, WaitingGrows, NEW q, NextUp(q)' PROVE NextUp(q)
<1> DEFINE n == Len(Waiting)
<1>0. n \in Nat /\ Len(Waiting') = n + 1 /\ UNCHANGED <<eEpoch, wEpoch>>
  BY DEF Parts, WaitingParts, WaitingGrows
<1>1. \A k \in 1..n : /\ k \in 1..(n + 1) /\ Waiting'[k] = Waiting[k] /\ k < n + 1
                      /\ LiveFetched(Waiting[k])' <=> LiveFetched(Waiting[k])
  BY <1>0 DEF WaitingGrows, LiveFetched, Epochs
<1>2. Waiting'[n + 1].pc = fetchPc /\ Waiting'[n + 1].ep = Epochs' /\ n + 1 \in 1..(n + 1)
  BY <1>0 DEF WaitingGrows, Epochs
<1>3. ~ NoneWaiting'
  BY <1>0, <1>2 DEF NoneWaiting
<1>4. PICK k \in 1..(n + 1) :
        /\ LiveFetched(Waiting[k])' /\ q = Waiting'[k].pc
        /\ \A j \in 1..(n + 1) : j < k => ~ LiveFetched(Waiting[j])'
  BY <1>0, <1>3 DEF NextUp
<1>5. CASE k \in 1..n
  BY <1>1, <1>4, <1>5 DEF NextUp
<1>6. CASE k = n + 1
  <2>1. \A j \in 1..n : ~ LiveFetched(Waiting[j])
    BY <1>1, <1>4, <1>6
  <2>2. QED
    BY <1>2, <1>4, <1>6, <2>1 DEF NextUp, NoneWaiting, LiveFetched
<1>7. QED
  BY <1>0, <1>5, <1>6

\* When the first is to be kept it is next; when it goes, what was predicted
\* behind it is.
LEMMA NextUpIsFirst ==
  ASSUME Parts, Len(Waiting) >= 1, LiveFetched(Waiting[1])
  PROVE  NextUp(Waiting[1].pc)
<1>1. 1 \in 1..Len(Waiting) /\ \A j \in 1..Len(Waiting) : ~ (j < 1)
  BY DEF Parts, WaitingParts
<1>2. QED
  BY <1>1 DEF NextUp

LEMMA NextUpBehind ==
  ASSUME Grounds, Len(Waiting) >= 1, LiveFetched(Waiting[1]), WaitingShift(1),
         NEW q, NextUp(q)'
  PROVE  q = PcBehind(1) /\ After(Waiting[1], q)
<1> DEFINE n == Len(Waiting)
<1>0. Parts /\ n \in Nat /\ 1 \in 1..n
  <2>1. Parts
    BY Given
  <2>2. QED
    BY <2>1 DEF Parts, WaitingParts
<1>1. Len(Waiting') = n - 1 /\ UNCHANGED <<fetchPc, eEpoch, wEpoch>>
  BY DEF WaitingShift
<1>2. \A k \in 1..(n - 1) :
        /\ k + 1 \in 1..n /\ Waiting'[k].pc = Waiting[k + 1].pc
        /\ LiveFetched(Waiting[k])' <=> LiveFetched(Waiting[k + 1])
  BY <1>0, <1>1 DEF WaitingShift, SameFetched, LiveFetched, Epochs
<1>3. \A j \in 1..n : LiveFetched(Waiting[j])
  <2>1. EpochOrder
    BY OrderFollows DEF Grounds
  <2>2. QED
    BY <1>0, <2>1 DEF EpochOrder
<1>4. After(Waiting[1], PcBehind(1))
  BY <1>0 DEF Grounds, ChainInv
<1>5. CASE n = 1
  <2>1. \A k : ~ (k \in 1..Len(Waiting')) /\ ~ (1 < n)
    BY <1>1, <1>5
  <2>2. QED
    BY <1>1, <1>4, <2>1 DEF NextUp, PcBehind
<1>6. CASE n > 1
  <2>1. 1 \in 1..(n - 1) /\ 1 < n /\ 1 + 1 \in 1..n
    BY <1>0, <1>6
  <2>2. LiveFetched(Waiting[1])' /\ Waiting'[1].pc = Waiting[1 + 1].pc
    BY <1>2, <1>3, <2>1
  <2>3. ~ NoneWaiting'
    BY <1>1, <2>1, <2>2 DEF NoneWaiting, LiveFetched
  <2>4. PICK k \in 1..(n - 1) :
          /\ q = Waiting'[k].pc
          /\ \A j \in 1..(n - 1) : j < k => ~ LiveFetched(Waiting[j])'
    BY <1>1, <2>3 DEF NextUp
  <2>5. k = 1
    BY <2>1, <2>2, <2>4
  <2>6. PcBehind(1) = Waiting[1 + 1].pc
    BY <2>1 DEF PcBehind
  <2>7. q = Waiting[1 + 1].pc
    BY <2>2, <2>4, <2>5
  <2>8. QED
    BY <1>4, <2>6, <2>7
<1>7. n = 1 \/ n > 1
  <2>1. n \in Nat /\ n >= 1
    BY <1>0
  <2> HIDE DEF n
  <2>2. QED
    BY <2>1
<1>8. QED
  BY <1>5, <1>6, <1>7, Zenon

LEMMA BehindExec ==
  ASSUME Buffers, Parts, pipe2 # <<>>, pipe1 # <<>>
  PROVE  PcBehind(1) = NextPc
<1>1. Len(pipe1) >= 1 /\ Len(pipe1) \in Nat /\ Head(pipe1) = pipe1[1]
  BY Shifted DEF Buffers
<1>2. Len(pipe2) = 1 /\ 1 \in 1..Len(pipe1)
  BY <1>1 DEF Parts, WaitingParts
<1>3. Waiting[1 + 1] = pipe1[1] /\ Len(Waiting) = 1 + Len(pipe1)
  BY <1>2 DEF Parts, WaitingParts
<1>4. 1 < Len(Waiting)
  BY <1>1, <1>3
<1>5. QED
  BY <1>1, <1>3, <1>4 DEF PcBehind, NextPc

\* Whatever is next when execute is done with an instruction is its successor:
\* the prediction was right, or fetch has been sent there.
LEMMA ExecTarget ==
  ASSUME Grounds, Grounds', Exec, NEW e, Executed(e), e \in IssuedHere, e.type # "TRAP",
         NEW q, NextUp(q)'
  PROVE  q = Successor(InExec.pc, Rs1.data, Rs2.data)
<1> DEFINE p == InExec.pc
           a == Rs1.data
           b == Rs2.data
<1>0. /\ TypeOK /\ TypeInv /\ Buffers /\ Buffers' /\ EpochInv /\ Parts /\ Parts' /\ DecodeTypeOK'
      /\ pipe2 # <<>> /\ DecodedKind
  <2>1. TypeOK /\ TypeInv /\ Buffers /\ Buffers' /\ EpochInv /\ Parts /\ Parts' /\ DecodeTypeOK'
        /\ DecodedKind
    BY Given, PTL DEF Grounds
  <2>2. QED
    BY <2>1, ExecIssues DEF ExecReady
<1>1. /\ LiveFetched(InExec) /\ InExec.type # "TRAP" /\ p \in Addr /\ a \in Data /\ b \in Data
      /\ InExec.type = Prog[p].op
  BY <1>0, Heads, BypassTyped DEF Executed, DecodedKind, DecodedEntry
<1>2. \/ ~ Mispredicted /\ NoRedirect /\ ExecControl
      \/ fetchPc' = Successor(p, a, b) /\ eEpoch' # eEpoch
      \/ InExec.type \notin ControlOp
  <2> SUFFICES ASSUME InExec.type \in ControlOp
               PROVE  \/ ~ Mispredicted /\ NoRedirect /\ ExecControl
                      \/ fetchPc' = Successor(p, a, b) /\ eEpoch' # eEpoch
    OBVIOUS
  <2>1. ExecControl
    BY <1>1
       DEF Exec, ExecDrop, ExecTrap, ExecAlu, ExecMulti, ExecSystem, ExecMisaligned, ExecAccess,
           ExecFence, ExecLoadReserved, ExecStoreConditional, Executes, LiveFetched,
           ControlOp, SystemOp, AccessOp, FenceOp
  <2>2. ~ Issue("TRAP", 0, "Exception")
    <3>1. ASSUME Issue("TRAP", 0, "Exception") PROVE FALSE
      <4>1. Entry("TRAP", 0, "Exception") \in IssuedHere /\ Entry("TRAP", 0, "Exception").type = "TRAP"
        <5>1. "TRAP" \in IssuedType /\ 0 \in Data /\ "Exception" \in Cause
          BY ProgramAssumption DEF IssuedType, Cause
        <5>2. ExecReady
          BY <2>1 DEF ExecControl, Executes
        <5>3. QED
          BY <1>0, <1>1, <5>1, <5>2, EntryMade
      <4>2. \A g \in IssuedHere : Append(pipe3, g)[Len(pipe3) + 1] = g
        BY <1>0, Shifted DEF Buffers, IssuedHere
      <4>3. e = Entry("TRAP", 0, "Exception")
        BY <3>1, <4>1, <4>2 DEF Issue, Executed
      <4>4. QED
        BY <4>1, <4>3
    <3>2. QED
      BY <3>1
  <2>3. \/ ~ Mispredicted /\ NoRedirect
        \/ eEpoch' = 1 - eEpoch /\ Redirect(Successor(p, a, b), <<>>)
    BY <2>1, <2>2 DEF ExecControl
  <2>4. eEpoch \in {0, 1} => 1 - eEpoch # eEpoch
    OBVIOUS
  <2>5. eEpoch \in {0, 1}
    BY <1>0 DEF Buffers
  <2>6. \A t : Redirect(t, <<>>) => fetchPc' = t
    BY DEF Redirect
  <2>7. QED
    BY <2>1, <2>3, <2>4, <2>5, <2>6
<1>3. /\ Len(Waiting) >= 1 /\ Waiting[1] = InExec
      /\ \/ WaitingShift(1)
         \/ NoneWaiting' /\ eEpoch' # eEpoch /\ ExecControl
  BY <1>0, ExecWaits
<1>4. CASE NoneWaiting' /\ eEpoch' # eEpoch /\ ExecControl
  <2>1. q = fetchPc'
    BY <1>4 DEF NoneWaiting, NextUp, LiveFetched
  <2>2. fetchPc' = Successor(p, a, b)
    BY <1>2, <1>4 DEF NoRedirect, ExecControl, Executes
  <2>3. QED
    BY <2>1, <2>2
<1>5. CASE WaitingShift(1)
  <2>1. q = PcBehind(1) /\ After(InExec, q) /\ eEpoch' = eEpoch
    <3>1. WaitingShift(1) => eEpoch' = eEpoch
      BY DEF WaitingShift
    <3>2. QED
      BY <1>1, <1>3, <1>5, <3>1, NextUpBehind
  <2>2. CASE InExec.type \notin ControlOp
    <3>1. Predicted[p] = {} /\ ~ Jumps(p, a, b)
      BY <1>1, <2>2, PipelineAssumption DEF Jumps, ControlOp
    <3>2. QED
      BY <2>1, <3>1 DEF After, Successor
  <2>3. CASE ~ Mispredicted /\ ExecControl
    <3>1. NextPc = PcBehind(1)
      BY <1>0, <2>3, BehindExec DEF ExecControl
    <3>2. CASE InExec.type = "BRANCH"
      <4>1. Taken(a, b) = InExec.pred
        BY <2>3, <3>2 DEF Mispredicted
      <4>2. Predicted[p] \subseteq {Prog[p].tgt}
        BY <1>1, <3>2, PipelineAssumption
      <4>3. (Jumps(p, a, b) <=> Taken(a, b)) /\ Target(p, a) = Prog[p].tgt
        BY <1>1, <3>2 DEF Jumps, Target
      <4>4. InExec.pred \in BOOLEAN /\ Taken(a, b) \in BOOLEAN
        BY <1>0, <1>1, Heads, ValueAssumption DEF DecodedEntry
      <4>5. CASE InExec.pred
        BY <2>1, <4>1, <4>2, <4>3, <4>4, <4>5 DEF After, Successor
      <4>6. CASE ~ InExec.pred
        BY <2>1, <4>1, <4>2, <4>3, <4>4, <4>6 DEF After, Successor
      <4>7. QED
        BY <4>5, <4>6
    <3>3. CASE InExec.type # "BRANCH"
      <4>1. NextPc = Target(p, a)
        BY <2>3, <3>3 DEF Mispredicted
      <4>2. Jumps(p, a, b)
        BY <1>1, <2>3, <3>3 DEF ExecControl, Executes, ControlOp, Jumps
      <4>3. QED
        BY <2>1, <3>1, <4>1, <4>2 DEF Successor
    <3>4. QED
      BY <3>2, <3>3
  <2>4. QED
    BY <1>2, <2>1, <2>2, <2>3
<1>6. QED
  BY <1>3, <1>4, <1>5

\* A WFI may be passed as soon as it is reached, and there are no two in a row.
LEMMA WfiPassed ==
  ASSUME TypeOK, Parts, NEW i, NEW t \in Addr, Prog[t].op = "WFI", Follows(i, t)
  PROVE  Follows(i, Fall[t])
<1>1. ASSUME NEW p \in Addr, Leads(p, t) PROVE Leads(p, Fall[t])
  BY <1>1, ProgramAssumption DEF Leads
<1>2. CASE i \in 1..Len(Issued) /\ LiveIssued(Issued[i])
  <2>1. ASSUME Goes(i, t) PROVE Goes(i, Fall[t])
    <3>1. Issued[i].pc \in Addr
      BY <1>2 DEF Parts, IssuedParts, IssuedHere, IssuedEntry
    <3>2. \A a, b \in Data : Successor(Issued[i].pc, a, b) \in Addr
      BY <3>1, TargetTyped
    <3>3. QED
      BY <1>1, <2>1, <3>2 DEF Goes
  <2>2. QED
    BY <1>2, <2>1 DEF Follows
<1>3. CASE ~ (i \in 1..Len(Issued) /\ LiveIssued(Issued[i]))
  BY <1>1, <1>3 DEF Follows, TypeOK, ArchTypeOK
<1>4. QED
  BY <1>2, <1>3

\* The history advances with the oldest instruction.
LEMMA AdvancesStep ==
  ASSUME Grounds, Grounds', [Next]_vars, NEW s \in {0, 1}, Keeps(s),
         Len(Issued') = Len(Issued) - s
  PROVE  Advances(s)
<1>0. TypeInv /\ Parts /\ Len(Issued) \in Nat /\ wEpoch' = wEpoch
  <2>1. TypeInv /\ Parts /\ wEpoch' = wEpoch
    BY Given DEF Grounds, Keeps
  <2>2. Len(Issued) \in Nat
    BY <2>1 DEF Parts, IssuedParts
  <2>3. QED
    BY <2>1, <2>2
<1>1. ASSUME Len(Issued') >= Len(Issued), archPc' = archPc PROVE Advances(s)
  <2>1. s = 0
    BY <1>0, <1>1
  <2>2. QED
    BY <1>1, <2>1 DEF Advances
<1>2. CASE Exec
  <2>1. archPc' = archPc
    BY <1>2
       DEF Exec, ExecDrop, ExecTrap, ExecAlu, ExecMulti, ExecSystem, ExecMisaligned, ExecAccess,
           ExecFence, ExecLoadReserved, ExecStoreConditional, ExecControl, Request, ExecFrame,
           archVars
  <2>2. Keeps(0)
    BY <1>2, ExecCarries
  <2>3. Len(Issued') >= Len(Issued)
    BY <1>0, <2>2 DEF Keeps
  <2>4. QED
    BY <1>1, <2>1, <2>3
<1>3. CASE InstructionCommit
  <2>1. ~ \E target : FlushFromWb(target)
    BY <1>0 DEF FlushFromWb, TypeInv, TypeOK, EpochTypeOK
  <2>2. /\ pipe4 # <<>> /\ Issued[1] = InWb
        /\ \/ pipe4' = pipe4 /\ Issued' = Issued
           \/ pipe4' = <<>> /\ Len(Issued') = Len(Issued) - 1
    <3>1. Parts'
      BY Given, PTL
    <3>2. pipe4 # <<>>
      BY <1>0, <1>3, <3>1, LeaveKeeps
    <3>3. \/ pipe4' = pipe4 /\ Issued' = Issued
          \/ pipe4' = <<>> /\ Len(Issued') = Len(Issued) - 1
      BY <1>3, <2>1, CommitCarries
    <3>4. QED
      BY <1>0, <3>2, <3>3 DEF Parts, IssuedParts
  <2>3. CASE archPc' = archPc /\ (pipe4' = pipe4 \/ ~ LiveIssued(InWb))
    BY <1>0, <2>2, <2>3 DEF Advances
  <2>4. CASE LiveIssued(InWb) /\ InWb.type # "TRAP" /\ pipe4' = <<>> /\ Retire(InWb.pc)
    <3>1. s = 1
      BY <1>0, <2>2, <2>4
    <3>2. QED
      BY <2>2, <2>4, <3>1 DEF Advances, Retire
  <2>5. QED
    BY <1>0, <1>3, <2>1, <2>3, <2>4, CommitWrites DEF archVars
<1>4. CASE ~ Exec /\ ~ InstructionCommit
  <2>1. archPc' = archPc
    BY <1>4 DEF Next, vars, archVars, Deliver, Decode, WaitForInterrupt, DelayedOutput, DmemRespond,
                CheckInstruction, CsrAnswer, ToggleIrq
  <2>2. Len(Issued') = Len(Issued)
    BY <1>4, OthersCarry
  <2>3. QED
    BY <1>0, <1>1, <2>1, <2>2
<1>5. QED
  BY <1>2, <1>3, <1>4

\* What is next when execute has issued nothing was next before.
LEMMA NextUpQuiet ==
  ASSUME Grounds, Grounds', PathInv, [Next]_vars, wEpoch' = wEpoch,
         Len(Issued') <= Len(Issued), NEW q \in Addr, NextUp(q)'
  PROVE  Follows(Len(Issued), q)
<1>0. /\ TypeOK /\ TypeInv /\ Buffers /\ Buffers' /\ EpochInv /\ Parts /\ Parts' /\ DecodeTypeOK'
      /\ DecodedKind /\ Len(Issued) \in Nat
  <2>1. /\ TypeOK /\ TypeInv /\ Buffers /\ Buffers' /\ EpochInv /\ Parts /\ Parts' /\ DecodeTypeOK'
        /\ DecodedKind
    BY Given, PTL DEF Grounds
  <2>2. Len(Issued) \in Nat
    BY <2>1 DEF Parts, IssuedParts
  <2>3. QED
    BY <2>1, <2>2
<1>1. ASSUME NextUp(q) PROVE Follows(Len(Issued), q)
  BY <1>1 DEF PathInv
<1>2. ASSUME NEW s \in {0, 1}, WaitingShift(s), s = 1 => ~ LiveFetched(Waiting[1])
      PROVE  Follows(Len(Issued), q)
  <2>1. NextUp(q)
    BY <1>0, <1>2, NextUpStays
  <2>2. QED
    BY <1>1, <2>1
<1>3. CASE Deliver
  <2>1. NextUp(q)
    BY <1>0, <1>3, DeliverWaits, NextUpGrows
  <2>2. QED
    BY <1>1, <2>1
<1>4. CASE Decode
  <2>1. CASE WaitingShift(0)
    BY <1>2, <2>1
  <2>2. CASE WaitingTaken /\ ~ LiveFetched(Waiting[1])
    BY <1>2, <2>2 DEF WaitingTaken
  <2>3. CASE WaitingTaken /\ LiveFetched(Waiting[1])
    <3>1. PICK t : t = Waiting[1].pc
      OBVIOUS
    <3>2. t \in Addr /\ Prog[t].op = "WFI" /\ Len(Waiting) >= 1 /\ WaitingShift(1)
      <4>1. pipe2 = <<>> /\ pipe1 # <<>> /\ Head(pipe1) \in FetchedEntry
        BY <1>0, <1>4, Heads DEF Decode, DecodeInto
      <4>2. Head(pipe1) = pipe1[1] /\ Len(pipe1) >= 1
        BY <1>0, <4>1, Shifted DEF Buffers
      <4>3. Waiting[1] = Head(pipe1)
        <5>1. Len(pipe2) = 0 /\ Len(pipe1) \in Nat
          BY <1>0, <4>1 DEF Parts, WaitingParts
        <5>2. 1 \in 1..Len(pipe1) /\ Len(pipe2) + 1 = 1
          BY <4>2, <5>1
        <5>3. QED
          BY <1>0, <4>2, <5>2 DEF Parts, WaitingParts
      <4>4. QED
        BY <2>3, <3>1, <4>1, <4>3 DEF WaitingTaken, FetchedEntry
    <3>3. Follows(Len(Issued), t)
      <4>1. NextUp(t)
        BY <1>0, <2>3, <3>1, <3>2, NextUpIsFirst
      <4>2. QED
        BY <3>2, <4>1 DEF PathInv
    <3>4. q = Fall[t]
      <4>1. q = PcBehind(1) /\ After(Waiting[1], q)
        BY <2>3, <3>2, NextUpBehind
      <4>2. Predicted[t] = {}
        BY <3>2, PipelineAssumption DEF ControlOp
      <4>3. QED
        BY <3>1, <4>1, <4>2 DEF After
    <3>5. QED
      BY <1>0, <3>2, <3>3, <3>4, WfiPassed
  <2>4. QED
    BY <1>0, <1>4, <2>1, <2>2, <2>3, DecodeWaits
<1>5. CASE Exec
  <2>1. ~ \E e \in IssuedHere : Executed(e)
    <3>1. ASSUME NEW e \in IssuedHere, Executed(e) PROVE FALSE
      <4>1. UNCHANGED <<pipe4, wEpoch>> /\ pipe3' = Append(pipe3, e)
        BY <1>0, <1>5, <3>1, ExecIssues DEF Executed
      <4>2. Len(Issued') = Len(Issued) + 1
        BY <1>0, <4>1, GrowKeeps
      <4>3. QED
        BY <1>0, <4>2
    <3>2. QED
      BY <3>1
  <2>2. Drops
    BY <1>0, <1>5, <2>1, ExecComputes
  <2>3. WaitingShift(1) /\ Waiting[1] = InExec
    BY <1>0, <1>5, <2>2, ExecWaits DEF Drops
  <2>4. QED
    BY <1>2, <2>2, <2>3 DEF Drops
<1>6. CASE InstructionCommit
  <2>1. wEpoch # 1 - wEpoch
    BY <1>0 DEF Buffers
  <2>2. WaitingShift(0)
    BY <1>0, <1>6, <2>1, CommitWaits
  <2>3. QED
    BY <1>2, <2>2
<1>7. CASE WaitForInterrupt \/ DelayedOutput \/ DmemRespond \/ CheckInstruction \/ CsrAnswer
             \/ ToggleIrq \/ UNCHANGED vars
  <2>1. WaitingShift(0)
    BY <1>0, <1>7, OthersWait
  <2>2. QED
    BY <1>2, <2>1
<1>8. QED
  BY <1>3, <1>4, <1>5, <1>6, <1>7 DEF Next

\* A flush sends fetch to where the history stands.
LEMMA FlushTarget ==
  ASSUME TypeOK, InstructionCommit, wEpoch' # wEpoch
  PROVE  fetchPc' = archPc'
<1>1. \A target : FlushFromWb(target) => fetchPc' = target
  BY DEF FlushFromWb, Redirect
<1>2. ~ NoFlush
  BY DEF NoFlush
<1>3. CASE CommitRerun
  BY <1>1, <1>3 DEF CommitRerun
<1>4. CASE CommitTrap \/ UncachedError
  BY <1>1, <1>4 DEF CommitTrap, UncachedError, TrapTo
<1>5. CASE CommitXret
  BY <1>1, <1>5 DEF CommitXret
<1>6. CASE CommitStore \/ InitiateUncached \/ UncachedDone \/ CsrRequest \/ CommitCsr \/ CommitReg
             \/ DropInstruction
  BY <1>2, <1>6 DEF CommitStore, InitiateUncached, UncachedDone, CsrRequest, CommitCsr, CommitReg,
                    DropInstruction
<1>7. QED
  BY <1>3, <1>4, <1>5, <1>6 DEF InstructionCommit

\* Those that stay still come from where the one before them goes.
LEMMA PathKept ==
  ASSUME Grounds, Grounds', PathInv, NEW s \in {0, 1}, Keeps(s), WritesBack(s), Advances(s)
  PROVE  /\ \A i \in 1..(Len(Issued) - s) :
              LiveIssued(Issued[i])' => Follows(i - 1, Issued[i].pc)'
         /\ \A j \in Nat : \A q : j + s = Len(Issued) /\ Follows(Len(Issued), q) => Follows(j, q)'
<1> DEFINE n == Len(Issued)
<1>0. Parts /\ n \in Nat
  <2>1. Parts
    BY Given
  <2>2. n \in Nat
    BY <2>1 DEF Parts, IssuedParts
  <2>3. QED
    BY <2>1, <2>2
<1>1. ASSUME NEW i \in 1..(n - s), LiveIssued(Issued[i])' PROVE Follows(i - 1, Issued[i].pc)'
  <2>1. i + s \in 1..n /\ Became(Issued'[i], Issued[i + s]) /\ wEpoch' = wEpoch
    BY <1>0, <1>1 DEF Keeps
  <2>2. LiveIssued(Issued[i + s])
    BY <1>1, <2>1 DEF LiveIssued, Became
  <2>3. PICK q : q = Issued[i + s].pc
    OBVIOUS
  <2>4. Follows((i + s) - 1, q)
    BY <2>1, <2>2, <2>3 DEF PathInv
  <2>5. i - 1 \in Nat /\ (i - 1) + s = (i + s) - 1 /\ (i - 1) + s <= n
    BY <1>0
  <2>6. \A k : k = i - 1 => Follows(k, q)'
    <3>1. ASSUME NEW k \in Nat, k + s <= n, Follows(k + s, q) PROVE Follows(k, q)'
      BY <3>1, PathShift
    <3>2. QED
      BY <2>4, <2>5, <3>1
  <2>7. Issued'[i].pc = q
    BY <2>1, <2>3 DEF Became
  <2>8. QED
    BY <2>6, <2>7
<1>2. ASSUME NEW j \in Nat, NEW q, j + s = n, Follows(n, q) PROVE Follows(j, q)'
  <2>1. j + s <= n /\ Follows(j + s, q)
    BY <1>0, <1>2
  <2>2. QED
    BY <2>1, PathShift
<1>3. QED
  BY <1>1, <1>2

LEMMA PathStep == ASSUME Reads, Grounds', PathInv, [Next]_vars PROVE PathInv'
<1> DEFINE n == Len(Issued)
<1>0. /\ Grounds /\ TypeOK /\ TypeInv /\ Buffers /\ Buffers' /\ EpochInv /\ Parts /\ Parts'
      /\ DecodeTypeOK' /\ n \in Nat /\ Len(Issued') \in Nat
  <2>1. /\ Grounds /\ TypeOK /\ TypeInv /\ Buffers /\ Buffers' /\ EpochInv /\ Parts /\ Parts'
        /\ DecodeTypeOK'
    BY Given, PTL DEF Reads, Grounds
  <2>2. n \in Nat /\ Len(Issued') \in Nat
    BY <2>1 DEF Parts, IssuedParts
  <2>3. QED
    BY <2>1, <2>2
<1>1. CASE NoneIssued' /\ wEpoch' # wEpoch /\ InstructionCommit
  <2>1. NoneWaiting' /\ fetchPc' = archPc'
    BY <1>0, <1>1, CommitWaits, FlushTarget
  <2>2. \A i \in 1..Len(Issued') : ~ LiveIssued(Issued[i])'
    BY <1>1 DEF NoneIssued, LiveIssued
  <2>3. ASSUME NEW q \in Addr, NextUp(q)' PROVE Follows(Len(Issued), q)'
    <3>1. q = archPc'
      BY <2>1, <2>3 DEF NoneWaiting, NextUp, LiveFetched
    <3>2. QED
      BY <2>2, <3>1 DEF Follows, Leads
  <2>4. QED
    BY <2>2, <2>3 DEF PathInv
<1>2. ASSUME NEW s \in {0, 1}, Keeps(s), WritesBack(s), Len(Issued') = n - s
      PROVE  PathInv'
  <2>1. Advances(s) /\ wEpoch' = wEpoch /\ Len(Issued') <= n
    <3>1. Advances(s)
      BY <1>0, <1>2, AdvancesStep
    <3>2. wEpoch' = wEpoch
      BY <1>2 DEF Keeps
    <3>3. Len(Issued') <= n
      BY <1>0, <1>2
    <3>4. QED
      BY <3>1, <3>2, <3>3
  <2>2. \A i \in 1..Len(Issued') : LiveIssued(Issued[i])' => Follows(i - 1, Issued[i].pc)'
    BY <1>0, <1>2, <2>1, PathKept
  <2>3. PICK j \in Nat : j = Len(Issued') /\ j + s = n
    <3>1. Len(Issued') + s = n
      BY <1>0, <1>2
    <3>2. QED
      BY <1>0, <3>1
  <2>4. ASSUME NEW q \in Addr, NextUp(q)' PROVE Follows(j, q)'
    <3>1. Follows(n, q)
      BY <1>0, <2>1, <2>4, NextUpQuiet
    <3>2. QED
      BY <1>0, <1>2, <2>1, <2>3, <3>1, PathKept
  <2>5. QED
    BY <2>2, <2>3, <2>4 DEF PathInv
<1>3. CASE /\ Exec /\ Keeps(0) /\ rf' = rf /\ Len(Issued') = n + 1
           /\ \E e \in IssuedHere : Executed(e) /\ Issued'[n + 1] = e
  <2>1. PICK e \in IssuedHere : Executed(e) /\ Issued'[n + 1] = e
    BY <1>3
  <2>2. WritesBack(0) /\ Advances(0)
    <3>1. archPc' = archPc
      BY <1>3
         DEF Exec, ExecDrop, ExecTrap, ExecAlu, ExecMulti, ExecSystem, ExecMisaligned, ExecAccess,
             ExecFence, ExecLoadReserved, ExecStoreConditional, ExecControl, Request, ExecFrame,
             archVars
    <3>2. QED
      BY <1>3, <3>1 DEF WritesBack, Advances
  <2>3. PICK m \in Nat, j \in Nat, p \in Addr :
          /\ m = n /\ j = m + 1 /\ p = InExec.pc /\ p = e.pc /\ Issued'[j] = e
    BY <1>0, <2>1 DEF Executed, IssuedHere, IssuedEntry
  <2>4. Follows(m, p)'
    <3>1. NextUp(p)
      <4>1. Len(Waiting) >= 1 /\ Waiting[1] = InExec
        BY <1>0, <1>3, ExecWaits
      <4>2. QED
        BY <1>0, <2>1, <2>3, <4>1, NextUpIsFirst DEF Executed
    <3>2. Follows(n, p) /\ m + 0 = n
      BY <1>0, <2>3, <3>1 DEF PathInv
    <3>3. QED
      BY <1>0, <1>3, <2>2, <2>3, <3>2, PathKept
  <2>5. LiveIssued(Issued[j])' /\ j \in 1..Len(Issued')
    BY <1>0, <1>3, <2>1, <2>3 DEF Executed, LiveIssued, Keeps
  <2>6. ASSUME NEW q, NextUp(q)' PROVE Follows(j, q)'
    <3>1. ASSUME e.type # "TRAP" PROVE Goes(j, q)'
      <4>1. InExec.type # "TRAP"
        BY <2>1, <3>1 DEF Executed
      <4>2. PICK a \in Data, b \in Data : a = Rs1.data /\ b = Rs2.data /\ HasRead(j, a, b)'
        BY <1>3, <2>1, <2>3, <4>1, AddedReads
      <4>3. q = Successor(p, a, b)
        BY <1>0, <1>3, <2>1, <2>3, <2>6, <3>1, <4>2, ExecTarget
      <4>4. QED
        BY <2>3, <4>2, <4>3 DEF Goes, Leads
    <3>2. QED
      BY <2>3, <2>5, <3>1 DEF Follows
  <2>7. ASSUME NEW i \in 1..Len(Issued'), LiveIssued(Issued[i])'
        PROVE  Follows(i - 1, Issued[i].pc)'
    <3>1. CASE i = j
      BY <2>3, <2>4, <3>1
    <3>2. CASE i # j
      <4>1. i \in 1..(n - 0)
        BY <1>0, <1>3, <2>3, <3>2
      <4>2. QED
        BY <1>0, <1>3, <2>2, <2>7, <4>1, PathKept
    <3>3. QED
      BY <3>1, <3>2
  <2>8. Len(Issued') = j
    BY <1>3, <2>3
  <2>9. QED
    BY <2>6, <2>7, <2>8 DEF PathInv
<1>4. QED
  BY <1>0, <1>1, <1>2, <1>3, IssuedSteps DEF IssuedStep

THEOREM PathInvariance == Spec => []PathInv
<1>1. Init /\ Grounds => PathInv
  <2>1. SUFFICES ASSUME Init, Grounds PROVE PathInv
    OBVIOUS
  <2>2. Len(Issued) = 0 /\ Len(Waiting) = 0
    BY <2>1, Joined, EmptySeq DEF Init, Grounds
  <2>3. \A q \in Addr : NextUp(q) => q = archPc
    BY <2>1, <2>2 DEF Init, NextUp
  <2>4. QED
    BY <2>2, <2>3 DEF PathInv, Follows, Leads
<1>2. Reads /\ Grounds' /\ PathInv /\ [Next]_vars => PathInv'
  BY PathStep
<1>3. QED
  BY <1>1, <1>2, GroundsInvariance, ReadsInvariance, PTL DEF Spec

-----------------------------------------------------------------------------
(* Nothing retires between an instruction that serialises and its re-fetch *)

\* The oldest instruction decoded that is to be kept.
FirstKept(i) ==
  /\ i \in 1..Len(Decoded) /\ IsKept(i)
  /\ \A j \in 1..Len(Decoded) : j < i => ~ IsKept(j)

\* Decode remembers to fetch again, or the trap that does so is the first.
SyncPending ==
  sync # "none" =>
    \/ NoneKept /\ rgRerun /\ rgKind = sync
    \/ \E i : FirstKept(i) /\ Decoded[i].type = "TRAP" /\ Decoded[i].cause = sync

\* What write back finds while a re-fetch is due is the trap that makes it.
LEMMA OldestRefetches ==
  ASSUME Grounds, SyncPending, sync # "none", pipe4 # <<>>, LiveIssued(InWb)
  PROVE  InWb.type = "TRAP" /\ InWb.cause = sync
<1>1. /\ 1 \in 1..Len(Issued) /\ 1 \in 1..Len(Decoded) /\ Decoded[1] = InWb /\ IsKept(1)
      /\ Len(Decoded) \in Nat
  <2>1. Parts /\ KeptPlaces
    BY Given
  <2>2. 1 \in 1..Len(Issued) /\ Issued[1] = InWb
    BY <2>1 DEF Parts, IssuedParts
  <2>3. QED
    BY <2>1, <2>2 DEF KeptPlaces
<1>2. PICK i : FirstKept(i) /\ Decoded[i].type = "TRAP" /\ Decoded[i].cause = sync
  BY <1>1 DEF SyncPending, NoneKept
<1>3. i = 1
  BY <1>1, <1>2 DEF FirstKept
<1>4. QED
  BY <1>1, <1>2, <1>3

\* The instructions carried on: what was due is still due.
LEMMA PendingCarried ==
  ASSUME KeptPlaces, KeptPlaces', SyncPending, sync # "none", sync' = sync,
         NEW s \in {0, 1}, Carried(s), s = 1 => ~ IsKept(1),
         NoneKept => UNCHANGED <<rgRerun, rgKind>>
  PROVE  SyncPending'
<1>0. Len(Decoded) \in Nat /\ Len(Decoded') \in Nat
  BY DEF KeptPlaces
<1>1. CASE NoneKept /\ rgRerun /\ rgKind = sync
  <2>1. NoneKept'
    BY <1>1 DEF Carried, NoneKept
  <2>2. QED
    BY <1>1, <2>1 DEF SyncPending
<1>2. ASSUME NEW i, FirstKept(i), Decoded[i].type = "TRAP", Decoded[i].cause = sync
      PROVE  SyncPending'
  <2>1. i \in 1..Len(Decoded) /\ IsKept(i) /\ i > s
    BY <1>0, <1>2 DEF FirstKept
  <2>2. PICK k : k = i - s /\ k \in 1..Len(Decoded') /\ IsKept(k)' /\ k + s = i
    BY <2>1 DEF Carried
  <2>3. TrapKept(Decoded'[k], Decoded[i])
    BY <2>2 DEF Carried
  <2>4. ASSUME NEW j \in 1..Len(Decoded'), j < k, IsKept(j)' PROVE FALSE
    <3>1. j + s \in 1..Len(Decoded) /\ IsKept(j + s) /\ j + s < i
      BY <1>0, <2>1, <2>2, <2>4 DEF Carried
    <3>2. QED
      BY <1>2, <3>1 DEF FirstKept
  <2>5. FirstKept(k)' /\ Decoded'[k].type = "TRAP" /\ Decoded'[k].cause = sync'
    BY <1>2, <2>2, <2>3, <2>4 DEF FirstKept, TrapKept
  <2>6. QED
    BY <2>5 DEF SyncPending
<1>3. QED
  BY <1>1, <1>2 DEF SyncPending

\* Decode takes one up: if a re-fetch is due, it is the trap that makes it.
LEMMA PendingExtends ==
  ASSUME Grounds, Grounds', SyncPending, sync # "none", sync' = sync, Extends
  PROVE  SyncPending'
<1> DEFINE n == Len(Issued)
           p == Head(pipe1).pc
<1>0. /\ n \in Nat /\ Len(Decoded) = n /\ Len(Decoded') = n + 1
      /\ \A i \in 1..n : Decoded'[i] = Decoded[i] /\ (IsKept(i)' <=> IsKept(i))
      /\ Decoded'[n + 1].pc = p /\ Decoded'[n + 1].type = DecodedType(p)
      /\ DecodedType(p) = "TRAP" => Decoded'[n + 1].cause = DecodedCause(p)
  BY ExtendsWith
<1>1. PICK m \in Nat : m = n + 1
  BY <1>0
<1>2. IsKept(m)'
  <2>1. \A k : k = n + 1 => IsKept(k)'
    BY ExtendsWith
  <2>2. QED
    BY <1>1, <2>1
<1>3. CASE NoneKept /\ rgRerun /\ rgKind = sync
  <2>1. DecodedType(p) = "TRAP" /\ DecodedCause(p) = sync
    BY <1>3 DEF DecodedType, DecodedCause
  <2>2. \A j \in 1..(n + 1) : j < m => ~ IsKept(j)'
    BY <1>0, <1>1, <1>3 DEF NoneKept
  <2>3. FirstKept(m)'
    BY <1>0, <1>1, <1>2, <2>2 DEF FirstKept
  <2>4. QED
    BY <1>0, <1>1, <2>1, <2>3 DEF SyncPending
<1>4. ASSUME NEW i, FirstKept(i), Decoded[i].type = "TRAP", Decoded[i].cause = sync
      PROVE  SyncPending'
  <2>1. i \in 1..n /\ i \in 1..(n + 1) /\ \A j \in 1..n : j < i => ~ IsKept(j)'
    BY <1>0, <1>4 DEF FirstKept
  <2>2. \A j \in 1..(n + 1) : j < i => j \in 1..n
    BY <1>0, <2>1
  <2>3. FirstKept(i)'
    BY <1>0, <1>4, <2>1, <2>2 DEF FirstKept
  <2>4. QED
    BY <1>0, <1>4, <2>1, <2>3 DEF SyncPending
<1>5. QED
  BY <1>3, <1>4 DEF SyncPending

\* An instruction that serialises retires, and its re-fetch is due.
LEMMA PendingBegins ==
  ASSUME Grounds, Grounds', SyncInv, SyncPending, InstructionCommit, NoFlush,
         LiveIssued(InWb), InWb.type # "TRAP", Retire(InWb.pc), pipe4' = <<>>
  PROVE  SyncPending'
<1>0. /\ pipe4 # <<>> /\ KeptPlaces /\ KeptPlaces' /\ Carried(1) /\ Parts /\ Buffers /\ StallInv
      /\ UNCHANGED <<rgRerun, rgKind>>
  <2>1. KeptPlaces /\ KeptPlaces' /\ Parts /\ Buffers /\ TypeInv /\ StallInv
    BY Given, PTL DEF Grounds, WaitInv
  <2>2. pipe4 # <<>>
    BY <2>1, CommitEffects
  <2>3. wEpoch' = wEpoch
    BY DEF NoFlush
  <2>4. Carried(1) /\ UNCHANGED <<rgRerun, rgKind>>
    BY <2>2, <2>3, CommitCarries
  <2>5. QED
    BY <2>1, <2>2, <2>4
<1>1. /\ 1 \in 1..Len(Issued) /\ 1 \in 1..Len(Decoded) /\ Decoded[1] = InWb /\ IsKept(1)
      /\ Len(Decoded) \in Nat
  <2>1. 1 \in 1..Len(Issued) /\ Issued[1] = InWb
    BY <1>0 DEF Parts, IssuedParts
  <2>2. QED
    BY <1>0, <2>1 DEF KeptPlaces
<1>2. sync = "none"
  BY <1>0, OldestRefetches
<1>3. CASE Prog[InWb.pc].op \notin SyncOp
  BY <1>2, <1>3 DEF Retire, SyncPending
<1>4. CASE Prog[InWb.pc].op \in SyncOp
  <2>1. sync' = RerunKind(Prog[InWb.pc].op) /\ Serialises(1)
    BY <1>1, <1>4 DEF Retire, Serialises
  <2>2. CASE Remembered(1)
    <3>1. \A i \in 1..Len(Decoded') : ~ IsKept(i)'
      <4>1. ASSUME NEW i \in 1..Len(Decoded'), IsKept(i)' PROVE FALSE
        <5>1. i + 1 \in 1..Len(Decoded) /\ IsKept(i + 1) /\ i + 1 > 1
          BY <1>0, <4>1 DEF Carried, KeptPlaces
        <5>2. QED
          BY <2>2, <5>1 DEF Remembered
      <4>2. QED
        BY <4>1
    <3>2. rgRerun' /\ rgKind' = sync'
      BY <1>0, <1>1, <2>1, <2>2 DEF Remembered
    <3>3. QED
      BY <3>1, <3>2 DEF SyncPending, NoneKept
  <2>3. CASE Refetched(1)
    <3>1. PICK i \in 1..Len(Decoded) : IsKept(i) /\ Decoded[i].type = "TRAP"
      <4>1. TrapIsYoungest
        BY <1>0, <2>3, TrapFound DEF Refetched
      <4>2. CASE pipe2 # <<>> /\ LiveFetched(InExec) /\ InExec.type = "TRAP"
        BY <1>0, <4>2 DEF KeptPlaces
      <4>3. CASE LiveIssued(Issued[Len(Issued)]) /\ Issued[Len(Issued)].type = "TRAP"
        <5>1. Len(Issued) \in 1..Len(Issued) /\ Len(Issued) \in 1..Len(Decoded)
          BY <1>0, <1>1 DEF KeptPlaces
        <5>2. QED
          BY <1>0, <4>3, <5>1 DEF KeptPlaces
      <4>4. QED
        BY <4>1, <4>2, <4>3 DEF TrapIsYoungest
    <3>2. i > 1
      BY <1>1, <3>1
    <3>3. i = 2 /\ IsRefetchFor(Decoded[i], InWb.pc)
      BY <1>1, <2>3, <3>1, <3>2 DEF Refetched
    <3>4. PICK k : k = 1 /\ k + 1 = i /\ k = i - 1
      BY <3>3
    <3>5. k \in 1..Len(Decoded') /\ IsKept(k)'
      BY <1>0, <3>1, <3>2, <3>4 DEF Carried
    <3>6. TrapKept(Decoded'[k], Decoded[i])
      BY <1>0, <3>4, <3>5 DEF Carried
    <3>7. FirstKept(k)'
      <4>1. \A j \in 1..Len(Decoded') : ~ (j < k)
        BY <3>4
      <4>2. QED
        BY <3>5, <4>1 DEF FirstKept
    <3>8. Decoded'[k].type = "TRAP" /\ Decoded'[k].cause = sync'
      BY <2>1, <3>1, <3>3, <3>6 DEF TrapKept, IsRefetchFor
    <3>9. QED
      BY <3>7, <3>8 DEF SyncPending
  <2>4. QED
    BY <1>1, <2>1, <2>2, <2>3 DEF SyncInv
<1>5. QED
  BY <1>3, <1>4

\* What a flush does to the re-fetch that is due.
LEMMA FlushRefetches ==
  ASSUME TypeOK, InstructionCommit, \E target : FlushFromWb(target)
  PROVE  /\ LiveIssued(InWb) /\ pipe4 # <<>>
         /\ InWb.type = "TRAP" /\ InWb.cause \in RerunCause =>
              sync' = IF sync = InWb.cause THEN "none" ELSE sync
         /\ sync = "none" => sync' = sync
<1>1. ~ NoFlush
  BY DEF NoFlush, FlushFromWb, TypeOK, EpochTypeOK
<1>2. CASE CommitRerun
  BY <1>2 DEF CommitRerun, Commits, LiveIssued
<1>3. CASE CommitTrap
  BY <1>3 DEF CommitTrap, Commits, LiveIssued, TrapTo
<1>4. CASE UncachedError \/ CommitXret
  BY <1>4 DEF UncachedError, CommitXret, Commits, LiveIssued, TrapTo
<1>5. CASE CommitStore \/ InitiateUncached \/ UncachedDone \/ CsrRequest \/ CommitCsr \/ CommitReg
             \/ DropInstruction
  BY <1>1, <1>5 DEF CommitStore, InitiateUncached, UncachedDone, CsrRequest, CommitCsr, CommitReg,
                    DropInstruction
<1>6. QED
  BY <1>2, <1>3, <1>4, <1>5 DEF InstructionCommit

LEMMA PendingStep == ASSUME Grounds, Grounds', SyncInv, SyncPending, [Next]_vars PROVE SyncPending'
<1>0. TypeOK /\ TypeInv /\ KeptPlaces /\ KeptPlaces' /\ Parts
  BY Given, PTL DEF Grounds
<1>1. CASE Exec
  <2>1. sync' = sync
    BY <1>1
       DEF Exec, ExecDrop, ExecTrap, ExecAlu, ExecMulti, ExecSystem, ExecMisaligned, ExecAccess,
           ExecFence, ExecLoadReserved, ExecStoreConditional, ExecControl, Request, ExecFrame,
           archVars
  <2>2. Carried(0) /\ (NoneKept => UNCHANGED <<rgRerun, rgKind>>)
    <3>1. Redirects => Carried(0) /\ ~ NoneKept
      BY <1>0 DEF Redirects, NoneKept, KeptPlaces
    <3>2. QED
      BY <1>1, <3>1, ExecCarries
  <2>3. sync # "none" => SyncPending'
    BY <1>0, <2>1, <2>2, PendingCarried
  <2>4. QED
    BY <2>1, <2>3 DEF SyncPending
<1>2. CASE InstructionCommit
  <2>1. CASE \E target : FlushFromWb(target)
    <3>1. /\ LiveIssued(InWb) /\ pipe4 # <<>>
          /\ InWb.type = "TRAP" /\ InWb.cause \in RerunCause =>
               sync' = IF sync = InWb.cause THEN "none" ELSE sync
      BY <1>0, <1>2, <2>1, FlushRefetches
    <3>2. CASE sync # "none"
      <4>1. InWb.type = "TRAP" /\ InWb.cause = sync
        BY <3>1, <3>2, OldestRefetches
      <4>2. sync \in RerunCause
        BY <1>0, <3>2 DEF TypeOK, ArchTypeOK
      <4>3. QED
        BY <3>1, <4>1, <4>2 DEF SyncPending
    <3>3. CASE sync = "none"
      <4>1. sync' = sync
        BY <1>0, <1>2, <2>1, <3>3, FlushRefetches
      <4>2. QED
        BY <3>3, <4>1 DEF SyncPending
    <3>4. QED
      BY <3>2, <3>3
  <2>2. CASE /\ NoFlush /\ UNCHANGED <<opVars, rf, archVars>>
             /\ pipe4' = pipe4 \/ ~ LiveIssued(InWb)
    <3>1. sync' = sync /\ wEpoch' = wEpoch
      BY <2>2 DEF archVars, NoFlush
    <3>2. UNCHANGED <<rgRerun, rgKind>> /\ pipe4 # <<>>
      BY <1>0, <1>2, <3>1, CommitCarries, CommitEffects
    <3>3. CASE Carried(0)
      <4>1. sync # "none" => SyncPending'
        BY <1>0, <3>1, <3>2, <3>3, PendingCarried
      <4>2. QED
        BY <3>1, <4>1 DEF SyncPending
    <3>4. CASE pipe4' = <<>> /\ Carried(1)
      <4>1. ~ IsKept(1)
        <5>1. 1 \in 1..Len(Issued) /\ Issued[1] = InWb
          BY <1>0, <3>2 DEF Parts, IssuedParts
        <5>2. QED
          BY <1>0, <2>2, <3>2, <3>4, <5>1 DEF KeptPlaces
      <4>2. sync # "none" => SyncPending'
        BY <1>0, <3>1, <3>2, <3>4, <4>1, PendingCarried
      <4>3. QED
        BY <3>1, <4>2 DEF SyncPending
    <3>5. QED
      BY <1>2, <3>1, <3>3, <3>4, CommitCarries
  <2>3. CASE /\ NoFlush /\ LiveIssued(InWb) /\ InWb.type \in {"STORE", "REG", "CSR"}
             /\ pipe4' = <<>> /\ Retire(InWb.pc)
    BY <1>2, <2>3, PendingBegins
  <2>4. QED
    BY <1>0, <1>2, <2>1, <2>2, <2>3, CommitWrites
<1>3. CASE ~ Exec /\ ~ InstructionCommit
  <2>1. sync' = sync
    BY <1>3 DEF Next, vars, archVars, Deliver, Decode, WaitForInterrupt, DelayedOutput, DmemRespond,
                CheckInstruction, CsrAnswer, ToggleIrq
  <2>2. sync # "none" => SyncPending'
    <3>1. CASE Carried(0) /\ UNCHANGED <<rgRerun, rgKind>>
      BY <1>0, <2>1, <3>1, PendingCarried
    <3>2. CASE Extends
      BY <2>1, <3>2, PendingExtends
    <3>3. QED
      BY <1>3, <3>1, <3>2, OthersCarry
  <2>3. QED
    BY <2>1, <2>2 DEF SyncPending
<1>4. QED
  BY <1>1, <1>2, <1>3

\* While a re-fetch is due, nothing else can retire.
THEOREM PendingInvariance == Spec => []SyncPending
<1>1. Init => SyncPending
  BY DEF Init, SyncPending
<1>2. Grounds /\ Grounds' /\ SyncInv /\ SyncPending /\ [Next]_vars => SyncPending'
  BY PendingStep
<1>3. QED
  BY <1>1, <1>2, GroundsInvariance, SyncInvariance, PTL DEF Spec

-----------------------------------------------------------------------------
(* The CSR the history sees *)

\* Decode has taken an interrupt only while interrupts are enabled, and nothing
\* has changed that since.
InterruptInv ==
  \A i \in 1..Len(Decoded) :
    IsKept(i) /\ Decoded[i].type = "TRAP" /\ Decoded[i].cause = "Interrupt" =>
      csr = 1 /\ csrResp = <<>>

\* What the chain has answered is the value before the one it was given.
CsrInv == csrResp # <<>> => csr = InWb.val

\* A CSR access in write back has no interrupt behind it.
LEMMA CsrAlone ==
  ASSUME Grounds, SyncInv, EntryInv, Commits({"CSR"})
  PROVE  /\ Remembered(1) \/ Refetched(1)
         /\ \A i \in 1..Len(Decoded) :
              IsKept(i) /\ Decoded[i].type = "TRAP" => Decoded[i].cause # "Interrupt"
<1>1. /\ 1 \in 1..Len(Issued) /\ Issued[1] = InWb
      /\ 1 \in 1..Len(Decoded) /\ Decoded[1] = InWb /\ IsKept(1)
  <2>1. Parts /\ KeptPlaces
    BY Given
  <2>2. 1 \in 1..Len(Issued) /\ Issued[1] = InWb
    BY <2>1 DEF Parts, IssuedParts, Commits
  <2>3. QED
    BY <2>1, <2>2 DEF KeptPlaces, Commits, LiveIssued
<1>2. Prog[InWb.pc].op = "CSR" /\ InWb.type = "CSR"
  BY <1>1 DEF EntryInv, Commits, LiveIssued, SystemOp
<1>3. Serialises(1)
  BY <1>1, <1>2 DEF Serialises, SyncOp, SystemOp
<1>4. Remembered(1) \/ Refetched(1)
  BY <1>1, <1>3 DEF SyncInv
<1>5. ASSUME NEW i \in 1..Len(Decoded), IsKept(i), Decoded[i].type = "TRAP"
      PROVE  Decoded[i].cause # "Interrupt"
  <2>1. i > 1
    BY <1>1, <1>2, <1>5
  <2>2. IsRefetchFor(Decoded[i], Decoded[1].pc)
    BY <1>4, <1>5, <2>1 DEF Remembered, Refetched
  <2>3. QED
    BY <2>2 DEF IsRefetchFor, RerunKind
<1>6. QED
  BY <1>4, <1>5

\* What happens to the CSR: an answer, a flush, or nothing.
LEMMA CsrSteps ==
  ASSUME TypeInv, [Next]_vars
  PROVE  \/ CsrAnswer /\ Commits({"CSR"})
         \/ /\ csrResp' \in {csrResp, <<>>}
            /\ csr' = csr \/ (InstructionCommit /\ \E target : FlushFromWb(target))
<1>1. CASE Exec
  BY <1>1, ExecIssues DEF csrVars
<1>2. CASE InstructionCommit
  BY <1>2 DEF InstructionCommit, CommitRerun, CommitTrap, CommitStore, InitiateUncached,
              UncachedDone, UncachedError, CsrRequest, CommitCsr, CommitXret, CommitReg,
              DropInstruction, TrapTo, csrVars
<1>3. CASE CsrAnswer
  BY <1>3 DEF CsrAnswer, TypeInv, BusyInv
<1>4. CASE Deliver \/ Decode \/ WaitForInterrupt \/ DelayedOutput \/ DmemRespond
             \/ CheckInstruction \/ ToggleIrq \/ UNCHANGED vars
  BY <1>4 DEF Deliver, Decode, WaitForInterrupt, DelayedOutput, DmemRespond, CheckInstruction,
              ToggleIrq, vars, csrVars
<1>5. QED
  BY <1>1, <1>2, <1>3, <1>4 DEF Next

\* The instructions carried on or taken up, whatever the step.
LEMMA DecodedSteps ==
  ASSUME Grounds, Grounds', [Next]_vars
  PROVE  \/ NoneKept' /\ InstructionCommit /\ wEpoch' # wEpoch
         \/ \E s \in {0, 1} : Carried(s)
         \/ Decode /\ Extends
<1>1. CASE Exec
  BY <1>1, ExecCarries DEF Redirects
<1>2. CASE InstructionCommit
  BY <1>2, CommitCarries
<1>3. CASE ~ Exec /\ ~ InstructionCommit
  BY <1>3, OthersCarry
<1>4. QED
  BY <1>1, <1>2, <1>3

LEMMA InterruptStep ==
  ASSUME Grounds, Grounds', SyncInv, EntryInv, InterruptInv, [Next]_vars
  PROVE  InterruptInv'
<1>0. TypeInv /\ TypeOK /\ KeptPlaces /\ KeptPlaces' /\ AnswerInv
  BY Given, PTL DEF Grounds, WaitInv
<1>1. CASE NoneKept'
  BY <1>1 DEF NoneKept, InterruptInv
<1>2. ASSUME NEW s \in {0, 1}, Carried(s) PROVE InterruptInv'
  <2>1. ASSUME NEW i \in 1..Len(Decoded'), IsKept(i)', Decoded'[i].type = "TRAP",
               Decoded'[i].cause = "Interrupt"
        PROVE  csr' = 1 /\ csrResp' = <<>>
    <3>1. i + s \in 1..Len(Decoded) /\ IsKept(i + s) /\ TrapKept(Decoded'[i], Decoded[i + s])
      BY <1>2, <2>1 DEF Carried
    <3>2. Decoded[i + s].type = "TRAP" /\ Decoded[i + s].cause = "Interrupt"
      BY <2>1, <3>1 DEF TrapKept
    <3>3. csr = 1 /\ csrResp = <<>> /\ ~ NoneKept'
      BY <2>1, <3>1, <3>2 DEF InterruptInv, NoneKept
    <3>4. ~ Commits({"CSR"})
      BY <3>1, <3>2, CsrAlone
    <3>5. ~ (InstructionCommit /\ \E target : FlushFromWb(target))
      <4>1. ASSUME InstructionCommit, \E target : FlushFromWb(target) PROVE FALSE
        <5>1. wEpoch' # wEpoch
          BY <1>0, <4>1 DEF FlushFromWb, TypeOK, EpochTypeOK
        <5>2. QED
          BY <3>3, <4>1, <5>1, CommitCarries
      <4>2. QED
        BY <4>1
    <3>6. QED
      BY <1>0, <3>3, <3>4, <3>5, CsrSteps
  <2>2. QED
    BY <2>1 DEF InterruptInv
<1>3. CASE Decode /\ Extends
  <2>1. UNCHANGED csrVars
    BY <1>3 DEF Decode
  <2>2. PICK n \in Nat, p \in {Head(pipe1).pc} :
          /\ Len(Decoded) = n /\ Len(Decoded') = n + 1
          /\ \A i \in 1..n : Decoded'[i] = Decoded[i] /\ (IsKept(i)' <=> IsKept(i))
          /\ Decoded'[n + 1].type = DecodedType(p)
          /\ DecodedType(p) = "TRAP" => Decoded'[n + 1].cause = DecodedCause(p)
    BY <1>3, ExtendsWith
  <2>3. ASSUME NEW i \in 1..(n + 1), IsKept(i)', Decoded'[i].type = "TRAP",
               Decoded'[i].cause = "Interrupt"
        PROVE  csr = 1 /\ csrResp = <<>>
    <3>1. CASE i \in 1..n
      BY <2>2, <2>3, <3>1 DEF InterruptInv
    <3>2. CASE i = n + 1
      <4>1. DecodedCause(p) = "Interrupt" /\ rgKind \in RerunCause
        BY <1>0, <2>2, <2>3, <3>2 DEF TypeOK, DecodeTypeOK
      <4>2. ~ rgRerun /\ TakeInterrupt
        BY <4>1 DEF DecodedCause, RerunCause
      <4>3. ~ rgStall
        BY <1>3 DEF Extends
      <4>4. ~ Commits({"CSR"})
        BY <4>2, <4>3, CsrAlone DEF Remembered, Refetched
      <4>5. QED
        BY <1>0, <4>2, <4>4 DEF TakeInterrupt, AnswerInv, TypeInv, BusyInv
    <3>3. QED
      BY <2>2, <3>1, <3>2
  <2>4. QED
    BY <2>1, <2>2, <2>3 DEF InterruptInv, csrVars
<1>4. QED
  BY <1>1, <1>2, <1>3, DecodedSteps

LEMMA CsrStep == ASSUME TypeInv, AnswerInv, CsrInv, [Next]_vars PROVE CsrInv'
<1>1. CASE CsrAnswer
  BY <1>1 DEF CsrAnswer, CsrInv, InWb
<1>2. ASSUME csrResp # <<>>, csrResp' # <<>>, ~ CsrAnswer PROVE csr' = InWb'.val
  <2>1. Commits({"CSR"}) /\ rgCsrWait
    BY <1>2 DEF AnswerInv, TypeInv, BusyInv
  <2>2. CASE InstructionCommit
    BY <1>2, <2>1, <2>2
       DEF InstructionCommit, CommitRerun, CommitTrap, CommitStore, InitiateUncached,
           UncachedDone, UncachedError, CsrRequest, CommitCsr, CommitXret, CommitReg,
           DropInstruction, Commits, csrVars
  <2>3. CASE ~ InstructionCommit
    <3>1. CASE Exec
      BY <1>2, <3>1, ExecIssues DEF csrVars, CsrInv, InWb
    <3>2. CASE ~ Exec
      BY <1>2, <2>1, <2>3, <3>2
         DEF Next, Deliver, Decode, WaitForInterrupt, DelayedOutput, DmemRespond,
             CheckInstruction, ToggleIrq, vars, csrVars, Commits, CsrInv, InWb
    <3>3. QED
      BY <1>2, <3>1, <3>2 DEF CsrInv, csrVars, InWb
  <2>4. QED
    BY <2>2, <2>3
<1>3. CASE csrResp = <<>> /\ ~ CsrAnswer
  <2>1. csrResp' = <<>>
    BY <1>3, CsrSteps
  <2>2. QED
    BY <2>1 DEF CsrInv
<1>4. QED
  BY <1>1, <1>2, <1>3 DEF CsrInv

THEOREM CsrInvariance == Spec => [](InterruptInv /\ CsrInv)
<1>1. Init /\ Grounds => InterruptInv /\ CsrInv
  <2>1. SUFFICES ASSUME Init, Grounds PROVE InterruptInv /\ CsrInv
    OBVIOUS
  <2>2. Len(Decoded) = 0
    BY <2>1, Joined, EmptySeq, Given DEF Init, Grounds, Parts, DecodedParts
  <2>3. QED
    BY <2>1, <2>2 DEF Init, InterruptInv, CsrInv
<1>2. /\ Grounds /\ Grounds' /\ SyncInv /\ EntryInv /\ InterruptInv /\ CsrInv /\ [Next]_vars
      => InterruptInv' /\ CsrInv'
  BY InterruptStep, CsrStep DEF Grounds, WaitInv
<1>3. QED
  BY <1>1, <1>2, GroundsInvariance, SyncInvariance, EntryInvariance, PTL DEF Spec

-----------------------------------------------------------------------------
(* The value the data side is to store *)

StoreOp == {"STORE", "AMO", "SC"}

\* If the i-th instruction past execution is a store, it is to store v.
Stores(i, v) ==
  LiveIssued(Issued[i]) /\ Prog[Issued[i].pc].op \in StoreOp =>
    Holds(Prog[Issued[i].pc].rs2, i, v)

\* The i-th waits for an answer of the data side.
Waits(i) == i \in 1..Len(Issued) /\ i > Len(pipe4) /\ Issued[i].type \in MemType

FirstWaits(i) == Waits(i) /\ \A k \in 1..Len(Issued) : Waits(k) => i <= k
LastWaits(i) == Waits(i) /\ \A k \in 1..Len(Issued) : Waits(k) => k <= i

\* The value a store sends out is the one it has read, wherever it stands: in
\* write back, with the answer, or with the request.
CommitVal == StoreInWb => Stores(1, Head(sb).val)
AnswerVal ==
  \A i \in 1..Len(Issued) : FirstWaits(i) /\ StoreAnswered => Stores(i, sb[Len(sb)].val)
RequestVal ==
  \A i \in 1..Len(Issued) : LastWaits(i) /\ dreq # <<>> => Stores(i, dreq[1].val)

StoreValInv == CommitVal /\ AnswerVal /\ RequestVal

\* What is known of the data side where these values are used.
Stored == Reads /\ KindInv /\ StoreBufferMirrors

THEOREM StoredInvariance == Spec => []Stored
<1>1. /\ Grounds /\ KindInv /\ [Next]_vars => KindInv'
      /\ Grounds /\ KindInv /\ StoreBufferMirrors /\ [Next]_vars => StoreBufferMirrors'
  BY KindStep, MirrorStep DEF Grounds, WaitInv
<1>2. QED
  BY <1>1, MirrorInit, GroundsInvariance, ReadsInvariance, PTL DEF Spec, Stored

LEMMA StoresKept ==
  ASSUME TypeOK, Parts, Parts', NEW s \in {0, 1}, Keeps(s), WritesBack(s),
         NEW i \in Nat, 0 < i, i + s \in 1..Len(Issued), NEW v, Stores(i + s, v)
  PROVE  Stores(i, v)'
<1>1. Became(Issued'[i], Issued[i + s]) /\ wEpoch' = wEpoch
  <2>1. Len(Issued) \in Nat
    BY DEF Parts, IssuedParts
  <2>2. i \in 1..(Len(Issued) - s)
    BY <2>1
  <2>3. QED
    BY <2>2 DEF Keeps
<1>2. PICK p \in Addr : p = Issued[i + s].pc /\ p = Issued'[i].pc
  BY <1>1 DEF Parts, IssuedParts, IssuedHere, IssuedEntry, Became
<1>3. (LiveIssued(Issued[i])' <=> LiveIssued(Issued[i + s]))
  BY <1>1 DEF LiveIssued, Became
<1>4. ASSUME Holds(Prog[p].rs2, i + s, v) PROVE Holds(Prog[p].rs2, i, v)'
  <2>1. \A j : j = i + s => j \in Nat /\ s < j /\ j <= Len(Issued) + 1 /\ j - s = i
    BY DEF Parts, IssuedParts
  <2>2. Prog[p].rs2 \in Reg
    BY ProgramTyped
  <2>3. ASSUME NEW j \in Nat, s < j, j <= Len(Issued) + 1, Holds(Prog[p].rs2, j, v)
        PROVE  Holds(Prog[p].rs2, j - s, v)'
    BY <2>2, <2>3, HoldsKept
  <2>4. QED
    BY <1>4, <2>1, <2>3
<1>5. QED
  BY <1>2, <1>3, <1>4 DEF Stores

\* The answers and requests in flight are as many as wait for one.
LEMMA InFlightWaits ==
  ASSUME TypeOK, Parts, PairInv
  PROVE  /\ dresp # <<>> => \E i \in 1..Len(Issued) : Waits(i)
         /\ dresp = <<>> => \A i, k \in 1..Len(Issued) : Waits(i) /\ Waits(k) => i = k
<1> DEFINE m == Len(pipe4)
           b == Len(pipe3)
<1>0. /\ m \in {0, 1} /\ b \in Nat /\ Len(Issued) = m + b
      /\ \A i \in 1..b : Issued[m + i] = pipe3[i]
  <2>1. pipe4 = <<>> \/ pipe4 # <<>>
    OBVIOUS
  <2>2. QED
    BY <2>1 DEF Parts, IssuedParts
<1>1. Places /\ Len(dreq) <= 1
  BY InFlightPlaces DEF TypeOK, DmemTypeOK, DmemSize
<1>2. PICK asker \in [1..Len(InFlight) -> Awaiting(pipe3)] :
        \A i \in Awaiting(pipe3) : \E j \in 1..Len(InFlight) : asker[j] = i
  BY DEF PairInv, AnswersFor
<1>3. \A i \in Awaiting(pipe3) : Waits(m + i) /\ m + i \in 1..Len(Issued)
  <2>1. ASSUME NEW i \in 1..b PROVE m + i \in 1..(m + b) /\ m + i > m
    BY <1>0
  <2>2. QED
    BY <1>0, <2>1 DEF Awaiting, Waits
<1>4. \A i \in 1..Len(Issued) : Waits(i) => i - m \in Awaiting(pipe3)
  <2>1. ASSUME NEW i \in 1..(m + b), i > m PROVE i - m \in 1..b /\ m + (i - m) = i
    BY <1>0, <2>1
  <2>2. QED
    BY <1>0, <2>1 DEF Awaiting, Waits
<1>5. ASSUME dresp # <<>> PROVE \E i \in 1..Len(Issued) : Waits(i)
  <2>1. 1 \in 1..Len(InFlight)
    BY <1>1, <1>5 DEF Places
  <2>2. asker[1] \in Awaiting(pipe3)
    BY <1>2, <2>1
  <2>3. QED
    BY <1>3, <2>2
<1>6. ASSUME dresp = <<>>, NEW i \in 1..Len(Issued), NEW k \in 1..Len(Issued), Waits(i), Waits(k)
      PROVE  i = k
  <2>1. \A j, l \in 1..Len(InFlight) : j = l
    <3>1. Len(InFlight) \in Nat /\ Len(InFlight) <= 1
      BY <1>1, <1>6 DEF Places
    <3>2. QED
      BY <3>1
  <2>2. i - m \in Awaiting(pipe3) /\ k - m \in Awaiting(pipe3)
    BY <1>4, <1>6
  <2>3. i - m = k - m
    BY <1>2, <2>1, <2>2
  <2>4. QED
    BY <1>0, <2>3
<1>7. QED
  BY <1>5, <1>6

\* Those that wait are the same, and so is what is answered and asked.
LEMMA WaitingStores ==
  ASSUME Stored, Grounds', NEW s \in {0, 1}, Keeps(s), WritesBack(s),
         Len(Issued') = Len(Issued) - s,
         \A i \in 1..(Len(Issued) - s) : Waits(i)' <=> Waits(i + s),
         s = 1 => ~ Waits(1), StoreValInv, UNCHANGED <<dreq, dresp>>,
         StoreAnswered => sb'[Len(sb')] = sb[Len(sb)]
  PROVE  AnswerVal' /\ RequestVal'
<1> DEFINE n == Len(Issued)
<1>0. TypeOK /\ Parts /\ Parts' /\ n \in Nat
  <2>1. TypeOK /\ Parts /\ Parts'
    BY Given, PTL DEF Stored, Reads
  <2>2. n \in Nat
    BY <2>1 DEF Parts, IssuedParts
  <2>3. QED
    BY <2>1, <2>2
<1>1. ASSUME NEW i \in 1..(n - s)
      PROVE  /\ i \in Nat /\ 0 < i /\ i + s \in 1..n
             /\ FirstWaits(i)' => FirstWaits(i + s)
             /\ LastWaits(i)' => LastWaits(i + s)
  <2>1. i \in Nat /\ 0 < i /\ i + s \in 1..n
    BY <1>0
  <2>2. ASSUME NEW k \in 1..n, Waits(k) PROVE k - s \in 1..(n - s) /\ Waits(k - s)'
    <3>1. k - s \in 1..(n - s) /\ (k - s) + s = k
      BY <1>0, <2>2
    <3>2. QED
      BY <2>2, <3>1
  <2>3. ASSUME FirstWaits(i)' PROVE FirstWaits(i + s)
    <3>1. Waits(i + s)
      BY <2>3 DEF FirstWaits
    <3>2. ASSUME NEW k \in 1..n, Waits(k) PROVE i + s <= k
      <4>1. i <= k - s
        BY <2>2, <2>3, <3>2 DEF FirstWaits
      <4>2. QED
        BY <1>0, <4>1
    <3>3. QED
      BY <3>1, <3>2 DEF FirstWaits
  <2>4. ASSUME LastWaits(i)' PROVE LastWaits(i + s)
    <3>1. Waits(i + s)
      BY <2>4 DEF LastWaits
    <3>2. ASSUME NEW k \in 1..n, Waits(k) PROVE k <= i + s
      <4>1. k - s <= i
        BY <2>2, <2>4, <3>2 DEF LastWaits
      <4>2. QED
        BY <1>0, <4>1
    <3>3. QED
      BY <3>1, <3>2 DEF LastWaits
  <2>5. QED
    BY <2>1, <2>3, <2>4
<1>2. StoreAnswered' <=> StoreAnswered
  BY DEF StoreAnswered
<1>3. ASSUME NEW i \in 1..(n - s), FirstWaits(i)', StoreAnswered'
      PROVE  Stores(i, sb[Len(sb)].val)'
  <2>1. PICK v : v = sb[Len(sb)].val /\ v = sb'[Len(sb')].val
    BY <1>2, <1>3
  <2>2. Stores(i + s, v)
    BY <1>1, <1>2, <1>3, <2>1 DEF StoreValInv, AnswerVal
  <2>3. Stores(i, v)'
    BY <1>0, <1>1, <2>2, StoresKept
  <2>4. QED
    BY <2>1, <2>3
<1>4. ASSUME NEW i \in 1..(n - s), LastWaits(i)', dreq' # <<>>
      PROVE  Stores(i, dreq[1].val)'
  <2>1. PICK v : v = dreq[1].val /\ v = dreq'[1].val
    OBVIOUS
  <2>2. Stores(i + s, v)
    BY <1>1, <1>4, <2>1 DEF StoreValInv, RequestVal
  <2>3. Stores(i, v)'
    BY <1>0, <1>1, <2>2, StoresKept
  <2>4. QED
    BY <2>1, <2>3
<1>5. QED
  BY <1>3, <1>4 DEF AnswerVal, RequestVal

\* A store in write back that stays there is to store the same.
LEMMA CommitValKept ==
  ASSUME Stored, Grounds', Keeps(0), WritesBack(0), StoreValInv, pipe4' = pipe4,
         StoreInWb => Head(sb') = Head(sb)
  PROVE  CommitVal'
<1>0. TypeOK /\ Parts /\ Parts'
  BY Given, PTL DEF Stored, Reads
<1>1. ASSUME StoreInWb' PROVE Stores(1, Head(sb).val)'
  <2>1. StoreInWb /\ 1 + 0 \in 1..Len(Issued)
    BY <1>0, <1>1 DEF StoreInWb, InWb, Parts, IssuedParts
  <2>2. PICK v : v = Head(sb).val /\ v = Head(sb').val
    BY <2>1
  <2>3. Stores(1 + 0, v)
    BY <2>1, <2>2 DEF StoreValInv, CommitVal
  <2>4. Stores(1, v)'
    BY <1>0, <2>1, <2>3, StoresKept
  <2>5. QED
    BY <2>2, <2>4
<1>2. QED
  BY <1>1 DEF CommitVal

\* A unit finishes: its instruction waits for no answer.
LEMMA StoresFinish ==
  ASSUME Stored, Grounds', StoreValInv, DelayedOutput
  PROVE  StoreValInv'
<1> DEFINE n == Len(Issued)
<1>0. /\ TypeOK /\ Buffers /\ MultiInv /\ Parts /\ Parts'
      /\ UNCHANGED <<pipe4, rf, sb, dreq, dresp>>
  <2>1. TypeOK /\ Buffers /\ MultiInv /\ Parts /\ Parts'
    BY Given, PTL DEF Stored, Reads, Grounds
  <2>2. UNCHANGED <<pipe4, rf, sb, dreq, dresp>>
    BY DEF DelayedOutput, dmemVars, storeVars
  <2>3. QED
    BY <2>1, <2>2
<1>1. Keeps(0) /\ Len(Issued') = Len(Issued) /\ n \in Nat
  BY <1>0, FinishKeeps DEF Parts, IssuedParts
<1>2. WritesBack(0) /\ Len(Issued') = n - 0
  BY <1>0, <1>1 DEF WritesBack
<1>3. \A i \in 1..(n - 0) : Waits(i)' <=> Waits(i + 0)
  <2>1. ASSUME NEW i \in 1..n PROVE Waits(i)' <=> Waits(i)
    <3>1. CASE i > Len(pipe4)
      <4>1. PICK k : k \in 1..Len(pipe3) /\ i = Len(pipe4) + k
        <5>1. Len(pipe4) \in {0, 1} /\ Len(pipe3) \in Nat /\ n = Len(pipe4) + Len(pipe3)
          BY <1>0 DEF Parts, IssuedParts
        <5>2. i - Len(pipe4) \in 1..Len(pipe3) /\ i = Len(pipe4) + (i - Len(pipe4))
          BY <3>1, <5>1
        <5>3. QED
          BY <5>2
      <4>2. Len(pipe3') = Len(pipe3) /\ Len(pipe4') = Len(pipe4)
        BY <1>0, Finishes
      <4>3. Issued[i] = pipe3[k] /\ Issued'[i] = pipe3'[k]
        BY <1>0, <4>1, <4>2 DEF Parts, IssuedParts
      <4>4. pipe3'[k].type \in MemType <=> pipe3[k].type \in MemType
        <5>1. "WAIT" \notin MemType /\ "REG" \notin MemType
          BY DEF MemType
        <5>2. QED
          BY <1>0, <4>1, <5>1, Finishes DEF LastIssued
      <4>5. QED
        BY <1>1, <4>2, <4>3, <4>4 DEF Waits
    <3>2. CASE ~ (i > Len(pipe4))
      BY <1>0, <3>2 DEF Waits
    <3>3. QED
      BY <3>1, <3>2
  <2>2. QED
    BY <1>1, <2>1
<1>4. AnswerVal' /\ RequestVal'
  BY <1>0, <1>1, <1>2, <1>3, WaitingStores
<1>5. CommitVal'
  BY <1>0, <1>1, <1>2, CommitValKept
<1>6. QED
  BY <1>4, <1>5 DEF StoreValInv

\* The data side answers the only request, of the only one that waits.
LEMMA StoresRespond ==
  ASSUME Stored, Grounds', StoreValInv, DmemRespond
  PROVE  StoreValInv'
<1>0. /\ TypeOK /\ Parts /\ Parts' /\ PairInv /\ RequestKind
      /\ UNCHANGED <<pipe3, pipe4, wEpoch, rf>>
  <2>1. TypeOK /\ Parts /\ Parts' /\ PairInv /\ RequestKind
    BY Given, PTL DEF Stored, Reads, Grounds, KindInv
  <2>2. UNCHANGED <<pipe3, pipe4, wEpoch, rf>>
    BY DEF DmemRespond, execVars
  <2>3. QED
    BY <2>1, <2>2
<1>1. Keeps(0) /\ Issued' = Issued /\ WritesBack(0) /\ Len(Issued) \in Nat
  BY <1>0, StayKeeps DEF WritesBack, Parts, IssuedParts
<1>2. dreq # <<>> /\ dresp = <<>> /\ Head(dreq) = dreq[1] /\ 1 \in 1..Len(dreq) /\ dreq' = <<>>
  <2>1. dreq # <<>> /\ dresp = <<>> /\ dreq' = Tail(dreq)
    BY DEF DmemRespond, DmemFault, DmemRead, DmemStore, Answer
  <2>2. dreq \in Seq(RequestEntry) /\ Len(dreq) <= 1
    BY <1>0 DEF TypeOK, DmemTypeOK, DmemSize
  <2>3. QED
    BY <2>1, <2>2, Shifted
<1>3. CommitVal'
  <2>1. StoreInWb => Head(sb') = Head(sb)
    <3>1. ASSUME StoreInWb PROVE sb # <<>>
      <4>1. DueLists /\ DueInWb = pipe4 /\ Len(pipe4) = 1
        BY <1>0, <3>1, DuePlaces DEF DueInWb, StoreInWb, Parts, IssuedParts
      <4>2. Len(StoresDue) >= 1
        BY <4>1, ConcatProperties, LenProperties DEF DueLists
      <4>3. Len(sb) >= 1
        BY <4>2 DEF Stored, StoreBufferMirrors, SameTags
      <4>4. QED
        BY <4>3, EmptySeq
    <3>2. ASSUME sb # <<>>, NEW f \in StoreEntry, sb' = Append(sb, f) PROVE Head(sb') = Head(sb)
      <4>1. sb \in Seq(StoreEntry) /\ sb' \in Seq(StoreEntry)
        BY <1>0, <3>2, AppendProperties DEF TypeOK, StoreTypeOK
      <4>2. QED
        BY <3>2, <4>1, Shifted
    <3>3. sb' = sb \/ \E f \in StoreEntry : sb' = Append(sb, f)
      <4>1. CASE DmemStore
        <5>1. Head(dreq) \in RequestEntry
          BY <1>0, <1>2, Heads
        <5>2. [pc |-> Head(dreq).pc, ep |-> Head(dreq).ep, val |-> Head(dreq).val] \in StoreEntry
          BY <5>1 DEF RequestEntry, StoreEntry
        <5>3. QED
          BY <4>1, <5>2 DEF DmemStore
      <4>2. CASE DmemFault \/ DmemRead
        BY <4>2 DEF DmemFault, DmemRead
      <4>3. QED
        BY <4>1, <4>2 DEF DmemRespond
    <3>4. QED
      BY <3>1, <3>2, <3>3
  <2>2. QED
    BY <1>0, <1>1, <2>1, CommitValKept
<1>4. RequestVal'
  BY <1>2 DEF RequestVal
<1>5. ASSUME NEW i \in 1..Len(Issued'), FirstWaits(i)', StoreAnswered'
      PROVE  Stores(i, sb[Len(sb)].val)'
  <2>1. Waits(i) /\ i \in 1..Len(Issued)
    BY <1>0, <1>1, <1>5 DEF FirstWaits, Waits
  <2>2. LastWaits(i)
    <3>1. \A k \in 1..Len(Issued) : Waits(k) => k = i
      BY <1>0, <1>2, <2>1, InFlightWaits
    <3>2. \A k \in 1..Len(Issued) : Waits(k) => k <= i
      BY <1>1, <2>1, <3>1
    <3>3. QED
      BY <2>1, <3>2 DEF LastWaits
  <2>3. DmemStore
    <3>1. Head(dreq) \in RequestEntry /\ StoreKind(Head(dreq))
      BY <1>0, <1>2, Heads DEF RequestKind
    <3>2. CASE DmemFault
      BY <1>5, <3>2 DEF DmemFault, Answer, StoreAnswered
    <3>3. CASE DmemRead
      BY <1>5, <3>1, <3>3 DEF DmemRead, Answer, StoreAnswered, StoreKind
    <3>4. QED
      BY <3>2, <3>3 DEF DmemRespond
  <2>4. PICK v : v = dreq[1].val /\ v = sb'[Len(sb')].val
    <3>1. PICK f \in StoreEntry : sb' = Append(sb, f) /\ f.val = Head(dreq).val
      <4>1. Head(dreq) \in RequestEntry
        BY <1>0, <1>2, Heads
      <4>2. [pc |-> Head(dreq).pc, ep |-> Head(dreq).ep, val |-> Head(dreq).val] \in StoreEntry
        BY <4>1 DEF RequestEntry, StoreEntry
      <4>3. QED
        BY <2>3, <4>2 DEF DmemStore
    <3>2. sb \in Seq(StoreEntry)
      BY <1>0 DEF TypeOK, StoreTypeOK
    <3>3. sb'[Len(sb')] = f
      BY <3>1, <3>2, Shifted
    <3>4. QED
      BY <1>2, <3>1, <3>3
  <2>5. Stores(i, v)
    BY <1>2, <2>1, <2>2, <2>4 DEF StoreValInv, RequestVal
  <2>6. i \in Nat /\ 0 < i /\ i + 0 = i
    BY <1>1, <2>1
  <2>7. Stores(i, v)'
    BY <1>0, <1>1, <2>1, <2>5, <2>6, StoresKept
  <2>8. QED
    BY <2>4, <2>7
<1>6. AnswerVal'
  BY <1>5 DEF AnswerVal
<1>7. QED
  BY <1>3, <1>4, <1>6 DEF StoreValInv

\* Stage4 hands the oldest on; if it took an answer, it was the first to wait.
LEMMA StoresCheck ==
  ASSUME Stored, Grounds', StoreValInv, CheckInstruction
  PROVE  StoreValInv'
<1> DEFINE n == Len(Issued)
<1>0. /\ TypeOK /\ TypeOK' /\ Parts /\ Parts' /\ PairInv /\ AccessInv /\ IssuedKind
      /\ UNCHANGED <<wEpoch, rf, sb, dreq>>
  <2>1. TypeOK /\ TypeOK' /\ Parts /\ Parts' /\ PairInv /\ AccessInv /\ IssuedKind
    BY Given, PTL DEF Stored, Reads, Grounds, KindInv
  <2>2. UNCHANGED <<wEpoch, rf, sb, dreq>>
    BY DEF CheckInstruction, storeVars
  <2>3. QED
    BY <2>1, <2>2
<1>1. /\ Keeps(0) /\ Len(Issued') = n /\ WritesBack(0) /\ n \in Nat
      /\ pipe4 = <<>> /\ pipe4' # <<>> /\ pipe3' = Tail(pipe3) /\ pipe3 # <<>>
      /\ \/ PassInstruction /\ InWb' = InMem
         \/ TakeAnswer /\ SameTag(Head(dresp), InMem) /\ InWb' = Answered(Head(dresp))
  BY <1>0, PassKeeps DEF WritesBack, Parts, IssuedParts
<1>2. /\ Len(pipe4) = 0 /\ Len(pipe4') = 1 /\ n = Len(pipe3) /\ n >= 1
      /\ Issued[1] = InMem /\ Issued'[1] = InWb'
      /\ \A k \in 1..n : k > 1 => Issued'[k] = Issued[k]
  <2>1. /\ Len(pipe3) \in Nat /\ Len(pipe3) >= 1 /\ InMem = pipe3[1]
        /\ Len(Tail(pipe3)) = Len(pipe3) - 1
        /\ \A i \in 1..(Len(pipe3) - 1) : Tail(pipe3)[i] = pipe3[i + 1]
    BY <1>0, <1>1, Shifted DEF TypeOK, ExecTypeOK, InMem
  <2>2. /\ Len(pipe4) = 0 /\ n = Len(pipe4) + Len(pipe3)
        /\ \A k \in 1..Len(pipe3) : Issued[Len(pipe4) + k] = pipe3[k]
    BY <1>0, <1>1 DEF Parts, IssuedParts
  <2>3. /\ Len(pipe4') = 1 /\ Issued'[1] = InWb'
        /\ \A k \in 1..Len(pipe3') : Issued'[1 + k] = pipe3'[k]
    BY <1>0, <1>1 DEF Parts, IssuedParts
  <2>4. n = Len(pipe3)
    BY <2>1, <2>2
  <2>5. ASSUME NEW k \in 1..Len(pipe3) PROVE Issued[k] = pipe3[k]
    <3>1. 0 + k = k
      OBVIOUS
    <3>2. QED
      BY <2>2, <3>1
  <2>6. ASSUME NEW k \in 1..n, k > 1 PROVE Issued'[k] = Issued[k]
    <3>1. k - 1 \in 1..(Len(pipe3) - 1) /\ 1 + (k - 1) = k /\ (k - 1) + 1 = k
      BY <2>1, <2>4, <2>6
    <3>2. Issued'[1 + (k - 1)] = pipe3[(k - 1) + 1]
      BY <1>1, <2>1, <2>3, <3>1
    <3>3. QED
      BY <2>4, <2>5, <3>1, <3>2
  <2>7. QED
    BY <2>1, <2>2, <2>3, <2>4, <2>5, <2>6
<1>3. \A i \in 1..n : Waits(i)' <=> Waits(i) /\ i > 1
  BY <1>1, <1>2 DEF Waits
<1>4. CASE PassInstruction /\ InWb' = InMem
  <2>1. ~ Waits(1) /\ UNCHANGED dresp
    BY <1>2, <1>4 DEF PassInstruction, Waits
  <2>2. \A i \in 1..(n - 0) : Waits(i)' <=> Waits(i + 0)
    <3>1. \A i \in 1..n : i = 1 \/ i > 1
      BY <1>1
    <3>2. \A i \in 1..n : Waits(i)' <=> Waits(i)
      BY <1>3, <2>1, <3>1
    <3>3. \A i \in 1..n : i + 0 = i
      BY <1>1
    <3>4. n - 0 = n
      BY <1>1
    <3>5. QED
      BY <3>2, <3>3, <3>4
  <2>3. AnswerVal' /\ RequestVal'
    <3>1. Len(Issued') = n - 0
      BY <1>1
    <3>2. QED
      BY <1>0, <1>1, <2>1, <2>2, <3>1, WaitingStores
  <2>4. ~ StoreInWb'
    BY <1>4 DEF PassInstruction, StoreInWb, MemType
  <2>5. QED
    BY <2>3, <2>4 DEF StoreValInv, CommitVal
<1>5. CASE TakeAnswer /\ SameTag(Head(dresp), InMem) /\ InWb' = Answered(Head(dresp))
  <2>1. Waits(1) /\ dresp' = <<>> /\ dresp # <<>> /\ InMem.type \in MemType
    BY <1>2, <1>5 DEF TakeAnswer, Waits
  <2>2. AnswerVal'
    BY <2>1 DEF AnswerVal, StoreAnswered
  <2>3. RequestVal'
    <3>1. ASSUME NEW i \in 1..n, LastWaits(i)', dreq' # <<>> PROVE Stores(i, dreq[1].val)'
      <4>1. LastWaits(i)
        <5>1. Waits(i) /\ i > 1
          BY <1>3, <3>1 DEF LastWaits
        <5>2. ASSUME NEW k \in 1..n, Waits(k) PROVE k <= i
          <6>1. k > 1 => k <= i
            BY <1>1, <1>3, <3>1, <5>2 DEF LastWaits
          <6>2. QED
            BY <1>1, <5>1, <6>1
        <5>3. QED
          BY <5>1, <5>2 DEF LastWaits
      <4>2. PICK v : v = dreq[1].val /\ v = dreq'[1].val
        BY <1>0
      <4>3. Stores(i, v)
        BY <1>0, <3>1, <4>1, <4>2 DEF StoreValInv, RequestVal
      <4>4. i \in Nat /\ 0 < i /\ i + 0 = i
        BY <1>1
      <4>5. Stores(i, v)'
        BY <1>0, <1>1, <4>3, <4>4, StoresKept
      <4>6. QED
        BY <4>2, <4>5
    <3>2. QED
      BY <1>1, <3>1 DEF RequestVal
  <2>4. CommitVal'
    <3>1. ASSUME StoreInWb' PROVE Stores(1, Head(sb).val)'
      <4>1. ~ Head(dresp).trap /\ InMem.type \in {"STORE", "AMO"}
        BY <1>0, <1>1, <1>5, <2>1, <3>1, Heads
           DEF Answered, StoreInWb, ResponseEntry, IssuedEntry, MemType
      <4>2. Prog[InMem.pc].op \in StoreOp
        <5>1. 1 \in 1..Len(pipe3) /\ InMem = pipe3[1]
          BY <1>0, <1>1, Shifted DEF TypeOK, ExecTypeOK, InMem
        <5>2. QED
          BY <1>0, <2>1, <4>1, <5>1 DEF IssuedKind, StoreKind, StoreOp
      <4>3. StoreAnswered
        BY <1>5, <2>1, <4>1, <4>2 DEF StoreAnswered, SameTag, StoreOp
      <4>4. FirstWaits(1) /\ 1 \in 1..n
        BY <1>2, <1>1, <2>1 DEF FirstWaits
      <4>5. Head(sb) = sb[Len(sb)]
        <5>1. DueLists /\ DueInWb = <<>> /\ DueAnswered = dresp
          BY <1>0, <1>1, <4>3, DuePlaces DEF DueInWb, StoreInWb, DueAnswered
        <5>2. Len(dresp) = 1
          BY <1>0, <2>1, InFlightPlaces DEF Places
        <5>3. Len(sb) = 1
          BY <5>1, <5>2 DEF DueLists, Stored, StoreBufferMirrors, SameTags
        <5>4. QED
          BY <1>0, <5>3, Shifted DEF TypeOK, StoreTypeOK
      <4>6. PICK v : v = sb[Len(sb)].val /\ v = Head(sb').val
        BY <1>0, <4>5
      <4>7. Stores(1, v)
        BY <4>3, <4>4, <4>6 DEF StoreValInv, AnswerVal
      <4>8. Stores(1, v)'
        <5>1. 1 \in Nat /\ 0 < 1 /\ 1 + 0 = 1
          OBVIOUS
        <5>2. QED
          BY <1>0, <1>1, <4>4, <4>7, <5>1, StoresKept
      <4>9. QED
        BY <4>6, <4>8
    <3>2. QED
      BY <3>1 DEF CommitVal
  <2>5. QED
    BY <2>2, <2>3, <2>4 DEF StoreValInv
<1>6. QED
  BY <1>1, <1>4, <1>5

\* Write back takes its store out with its instruction, or waits.
LEMMA StoresCommit ==
  ASSUME Stored, Grounds', StoreValInv, InstructionCommit, wEpoch' = wEpoch
  PROVE  StoreValInv'
<1> DEFINE n == Len(Issued)
<1>0. /\ Grounds /\ TypeOK /\ TypeInv /\ Parts /\ Parts' /\ n \in Nat
  <2>1. Grounds /\ TypeOK /\ TypeInv /\ Parts /\ Parts'
    BY Given, PTL DEF Stored, Reads, Grounds
  <2>2. n \in Nat
    BY <2>1 DEF Parts, IssuedParts
  <2>3. QED
    BY <2>1, <2>2
<1>1. /\ pipe4 # <<>> /\ UNCHANGED <<pipe3, dreq, dresp>>
      /\ \/ pipe4' = pipe4 /\ Keeps(0) /\ Issued' = Issued
         \/ pipe4' = <<>> /\ Keeps(1) /\ Len(Issued') = n - 1
  BY <1>0, LeaveKeeps
<1>2. PICK s \in {0, 1} : Keeps(s) /\ WritesBack(s) /\ Len(Issued') = n - s
  <2>1. Len(Issued') # n + 1
    BY <1>0, <1>1
  <2>2. [Next]_vars
    BY DEF Next
  <2>3. QED
    BY <1>0, <2>1, <2>2, IssuedSteps DEF IssuedStep
<1>3. CASE pipe4' = pipe4
  <2>1. Issued' = Issued
    BY <1>1, <1>3
  <2>2. s = 0
    BY <1>0, <1>2, <2>1
  <2>3. sb' = sb
    BY <1>0, <1>1, <1>3, CommitEffects
  <2>4. \A i \in 1..(n - 0) : Waits(i)' <=> Waits(i + 0)
    <3>1. \A i \in 1..(n - 0) : i + 0 = i
      BY <1>0
    <3>2. \A i : Waits(i)' <=> Waits(i)
      BY <1>3, <2>1 DEF Waits
    <3>3. QED
      BY <3>1, <3>2
  <2>5. AnswerVal' /\ RequestVal'
    BY <1>1, <1>2, <2>2, <2>3, <2>4, WaitingStores
  <2>6. CommitVal'
    BY <1>2, <1>3, <2>2, <2>3, CommitValKept
  <2>7. QED
    BY <2>5, <2>6 DEF StoreValInv
<1>4. CASE pipe4' = <<>>
  <2>1. s = 1
    BY <1>0, <1>1, <1>2, <1>4
  <2>2. /\ Len(pipe4) = 1 /\ Len(pipe4') = 0 /\ Len(pipe3) \in Nat /\ n = 1 + Len(pipe3)
        /\ \A k \in 1..Len(pipe3) : Issued[1 + k] = pipe3[k] /\ Issued'[0 + k] = pipe3[k]
    BY <1>0, <1>1, <1>4 DEF Parts, IssuedParts
  <2>3. \A i \in 1..(n - 1) : Waits(i)' <=> Waits(i + 1)
    <3>1. ASSUME NEW i \in 1..(n - 1) PROVE Waits(i)' <=> Waits(i + 1)
      <4>1. /\ i \in 1..Len(pipe3) /\ 0 + i = i /\ 1 + i = i + 1 /\ i > 0 /\ i + 1 > 1
            /\ i + 1 \in 1..n
        BY <2>2
      <4>2. Issued'[i] = Issued[i + 1]
        BY <2>2, <4>1
      <4>3. QED
        BY <1>2, <2>1, <2>2, <4>1, <4>2 DEF Waits
    <3>2. QED
      BY <3>1
  <2>4. ~ Waits(1)
    BY <2>2 DEF Waits
  <2>5. ASSUME StoreAnswered PROVE sb'[Len(sb')] = sb[Len(sb)]
    <3>1. CASE sb' = sb
      BY <3>1
    <3>2. CASE sb # <<>> /\ sb' = Tail(sb) /\ InWb.type = "STORE"
      <4>1. DueLists /\ DueInWb = pipe4 /\ DueAnswered = dresp
        BY <1>0, <1>1, <2>5, <3>2, DuePlaces DEF DueInWb, DueAnswered, StoreInWb
      <4>2. Len(dresp) = 1
        BY <1>0, <2>5, InFlightPlaces DEF Places, StoreAnswered
      <4>3. Len(sb) = 2
        <5>1. Len(StoresDue) = Len(pipe4) + Len(dresp)
          BY <4>1, ConcatProperties DEF DueLists
        <5>2. Len(sb) = Len(StoresDue)
          BY DEF Stored, StoreBufferMirrors, SameTags
        <5>3. QED
          BY <2>2, <4>2, <5>1, <5>2
      <4>4. Len(Tail(sb)) = 1 /\ Tail(sb)[1] = sb[2]
        <5>1. /\ Len(Tail(sb)) = Len(sb) - 1
              /\ \A i \in 1..(Len(sb) - 1) : Tail(sb)[i] = sb[i + 1]
          BY <1>0, <3>2, Shifted DEF TypeOK, StoreTypeOK
        <5>2. Len(sb) - 1 = 1 /\ 1 \in 1..1 /\ 1 + 1 = 2
          BY <4>3
        <5>3. QED
          BY <5>1, <5>2
      <4>5. QED
        BY <3>2, <4>3, <4>4
    <3>3. QED
      BY <1>0, <1>1, <1>4, <3>1, <3>2, CommitEffects
  <2>6. AnswerVal' /\ RequestVal'
    BY <1>1, <1>2, <2>1, <2>3, <2>4, <2>5, WaitingStores
  <2>7. CommitVal'
    BY <1>4 DEF CommitVal, StoreInWb
  <2>8. QED
    BY <2>6, <2>7 DEF StoreValInv
<1>5. QED
  BY <1>1, <1>3, <1>4

\* A request carries what the network gives for the value to store.
LEMMA RequestCarries ==
  ASSUME TypeInv, Exec
  PROVE  /\ UNCHANGED <<pipe4, sb, dresp, wEpoch, rf>>
         /\ dreq' # <<>> => Len(dreq') = 1 /\ dreq'[1].val = Rs2.data
<1>0. TypeOK /\ dreq = <<>>
  <2>1. TypeOK /\ ExecReady
    BY ExecIssues DEF TypeInv
  <2>2. Len(dreq) \in Nat /\ Len(dreq) < 1 /\ (dreq = <<>> <=> Len(dreq) = 0)
    BY <2>1, Shifted DEF TypeOK, DmemTypeOK, ExecReady, DmemSize
  <2>3. Len(dreq) = 0
    BY <2>2
  <2>4. QED
    BY <2>1, <2>2, <2>3
<1>1. /\ UNCHANGED <<pipe4, sb, dresp, wEpoch, rf>>
      /\ dreq' = dreq \/ \E type \in MemType : Request(type)
  BY DEF Exec, ExecDrop, ExecTrap, ExecAlu, ExecMulti, ExecSystem, ExecMisaligned, ExecAccess,
         ExecFence, ExecLoadReserved, ExecStoreConditional, ExecControl, Request, ExecFrame,
         storeVars, MemType, Executes, FenceOp
<1>2. ASSUME NEW type \in MemType, Request(type)
      PROVE  Len(dreq') = 1 /\ dreq'[1].val = Rs2.data
  <2>1. dreq' = Append(<<>>, [pc |-> InExec.pc, ep |-> InExec.ep[2], type |-> type,
                               val |-> Rs2.data])
    BY <1>0, <1>2 DEF Request
  <2>2. QED
    BY <2>1
<1>3. QED
  BY <1>0, <1>1, <1>2

\* What execute adds waits behind the others; its request, if it has one, is the
\* only one there is.
LEMMA StoresAdd ==
  ASSUME Stored, Grounds', StoreValInv, Exec, NEW e \in IssuedHere, IssuesAs(e), Executed(e)
  PROVE  StoreValInv'
<1> DEFINE n == Len(Issued)
<1>0. /\ TypeOK /\ TypeInv /\ Buffers /\ Parts /\ Parts' /\ PairInv /\ n \in Nat
      /\ UNCHANGED <<pipe4, sb, dresp, wEpoch, rf>> /\ dreq = <<>>
      /\ dreq' # <<>> => Len(dreq') = 1 /\ dreq'[1].val = Rs2.data
  <2>1. TypeOK /\ TypeInv /\ Buffers /\ Parts /\ Parts' /\ PairInv
    BY Given, PTL DEF Stored, Reads, Grounds
  <2>2. Len(dreq) \in Nat /\ Len(dreq) < 1 /\ (dreq = <<>> <=> Len(dreq) = 0)
    BY <2>1, ExecIssues, Shifted DEF TypeOK, DmemTypeOK, ExecReady, DmemSize
  <2>3. Len(dreq) = 0
    BY <2>2
  <2>4. n \in Nat
    BY <2>1 DEF Parts, IssuedParts
  <2>5. /\ UNCHANGED <<pipe4, sb, dresp, wEpoch, rf>>
        /\ dreq' # <<>> => Len(dreq') = 1 /\ dreq'[1].val = Rs2.data
    BY <2>1, <2>2, <2>3, RequestCarries
  <2>6. QED
    BY <2>1, <2>2, <2>3, <2>4, <2>5
<1>1. /\ Keeps(0) /\ WritesBack(0) /\ Len(Issued') = n + 1 /\ Issued'[n + 1] = e
      /\ \A k \in 1..n : Issued'[k] = Issued[k]
  BY <1>0, GrowKeeps DEF WritesBack, IssuesAs
<1>2. \A k \in 1..n : k \in 1..(n + 1) /\ k \in Nat /\ 0 < k /\ k + 0 = k /\ k + 0 \in 1..n
  BY <1>0
<1>3. \A k \in 1..n : Waits(k)' <=> Waits(k)
  BY <1>0, <1>1, <1>2 DEF Waits
<1>4. ASSUME NEW i \in 1..n, NEW v, Stores(i, v) PROVE Stores(i, v)'
  BY <1>0, <1>1, <1>2, <1>4, StoresKept
<1>5. CommitVal'
  BY <1>0, <1>1, CommitValKept
<1>6. ASSUME NEW i \in 1..(n + 1), FirstWaits(i)', StoreAnswered'
      PROVE  Stores(i, sb[Len(sb)].val)'
  <2>1. StoreAnswered /\ dresp # <<>>
    BY <1>0, <1>6 DEF StoreAnswered
  <2>2. PICK k \in 1..n : Waits(k)
    BY <1>0, <2>1, InFlightWaits
  <2>3. i \in 1..n
    <3>1. Waits(k)' /\ k \in 1..Len(Issued')
      BY <1>1, <1>2, <1>3, <2>2
    <3>2. i <= k
      BY <1>6, <3>1 DEF FirstWaits
    <3>3. QED
      BY <1>0, <2>2, <3>2
  <2>4. FirstWaits(i)
    BY <1>1, <1>2, <1>3, <1>6, <2>3 DEF FirstWaits
  <2>5. PICK v : v = sb[Len(sb)].val /\ v = sb'[Len(sb')].val
    BY <1>0
  <2>6. Stores(i, v)
    BY <2>1, <2>3, <2>4, <2>5 DEF StoreValInv, AnswerVal
  <2>7. Stores(i, v)'
    BY <1>4, <2>3, <2>6
  <2>8. QED
    BY <2>5, <2>7
<1>7. ASSUME NEW i \in 1..(n + 1), LastWaits(i)', dreq' # <<>>
      PROVE  Stores(i, dreq[1].val)'
  <2>1. e.type \in MemType
    BY <1>0, <1>7 DEF IssuesAs
  <2>2. PICK j : j = n + 1 /\ j \in 1..(n + 1) /\ Issued'[j] = e /\ j > Len(pipe4)
    <3>1. n + 1 \in 1..(n + 1) /\ n + 1 > Len(pipe4)
      BY <1>0 DEF Parts, IssuedParts
    <3>2. QED
      BY <1>1, <3>1
  <2>3. i = j
    <3>1. Waits(j)' /\ j \in 1..Len(Issued')
      BY <1>0, <1>1, <2>1, <2>2 DEF Waits
    <3>2. j <= i
      BY <1>7, <3>1 DEF LastWaits
    <3>3. QED
      BY <1>0, <2>2, <3>2
  <2>4. InExec.type # "TRAP"
    BY <2>1 DEF IssuesAs, MemType
  <2>5. \E a, b \in Data : b = Rs2.data /\ HasRead(j, a, b)'
    BY <1>0, <1>1, <2>2, <2>4, AddedReads DEF Stored
  <2>6. Stores(j, dreq[1].val)'
    BY <1>0, <1>7, <2>5 DEF Stores, HasRead
  <2>7. QED
    BY <2>3, <2>6
<1>8. QED
  BY <1>1, <1>5, <1>6, <1>7 DEF StoreValInv, AnswerVal, RequestVal

LEMMA StoresStep == ASSUME Stored, Grounds', StoreValInv, [Next]_vars PROVE StoreValInv'
<1>0. Grounds /\ TypeInv /\ TypeOK /\ Parts /\ Parts' /\ DecodedKind
  BY Given, PTL DEF Stored, Reads, Grounds
<1>1. ASSUME UNCHANGED <<pipe3, pipe4, dreq, dresp, sb, rf, wEpoch>> PROVE StoreValInv'
  <2>1. Keeps(0) /\ Issued' = Issued /\ WritesBack(0) /\ Len(Issued) \in Nat
    BY <1>0, <1>1, StayKeeps DEF WritesBack, Parts, IssuedParts
  <2>2. /\ \A i \in 1..(Len(Issued) - 0) : Waits(i)' <=> Waits(i + 0)
        /\ Len(Issued') = Len(Issued) - 0
    <3>1. \A i \in 1..(Len(Issued) - 0) : i + 0 = i
      BY <2>1
    <3>2. \A i : Waits(i)' <=> Waits(i)
      BY <1>1, <2>1 DEF Waits
    <3>3. QED
      BY <2>1, <3>1, <3>2
  <2>3. AnswerVal' /\ RequestVal'
    <3>1. PICK s \in {0, 1} :
            /\ s = 0 /\ Keeps(s) /\ WritesBack(s) /\ Len(Issued') = Len(Issued) - s
            /\ \A i \in 1..(Len(Issued) - s) : Waits(i)' <=> Waits(i + s)
      BY <2>1, <2>2
    <3>2. (s = 1 => ~ Waits(1)) /\ UNCHANGED <<dreq, dresp>>
      BY <1>1, <3>1
    <3>3. StoreAnswered => sb'[Len(sb')] = sb[Len(sb)]
      BY <1>1
    <3>4. QED
      BY <3>1, <3>2, <3>3, WaitingStores
  <2>4. CommitVal'
    BY <1>1, <2>1, CommitValKept
  <2>5. QED
    BY <2>3, <2>4 DEF StoreValInv
<1>2. CASE Exec
  <2>1. CASE Drops
    BY <1>0, <1>1, <1>2, <2>1, RequestCarries DEF Drops
  <2>2. CASE ~ Drops
    <3>1. PICK e \in IssuedHere : IssuesAs(e) /\ Executed(e)
      BY <1>0, <1>2, <2>2, ExecAdds
    <3>2. QED
      BY <1>2, <3>1, StoresAdd
  <2>3. QED
    BY <2>1, <2>2
<1>3. CASE InstructionCommit
  <2>1. CASE wEpoch' = wEpoch
    BY <1>3, <2>1, StoresCommit
  <2>2. CASE wEpoch' # wEpoch
    <3>1. \A i \in 1..Len(Issued') : ~ LiveIssued(Issued[i])'
      <4>1. NoneIssued'
        BY <1>0, <2>2, IssuedSteps DEF IssuedStep, Keeps
      <4>2. QED
        BY <4>1 DEF NoneIssued, LiveIssued
    <3>2. AnswerVal' /\ RequestVal'
      BY <3>1 DEF AnswerVal, RequestVal, Stores
    <3>3. CommitVal'
      <4>1. pipe4' = <<>>
        BY <1>0, <1>3, <2>2, CommitEffects DEF NoFlush
      <4>2. QED
        BY <4>1 DEF CommitVal, StoreInWb
    <3>4. QED
      BY <3>2, <3>3 DEF StoreValInv
  <2>3. QED
    BY <2>1, <2>2
<1>4. CASE DelayedOutput
  BY <1>4, StoresFinish
<1>5. CASE DmemRespond
  BY <1>5, StoresRespond
<1>6. CASE CheckInstruction
  BY <1>6, StoresCheck
<1>7. CASE Deliver \/ Decode \/ WaitForInterrupt \/ CsrAnswer \/ ToggleIrq \/ UNCHANGED vars
  <2>1. UNCHANGED <<pipe3, pipe4, dreq, dresp, sb, rf, wEpoch>>
    BY <1>7 DEF Deliver, Decode, WaitForInterrupt, CsrAnswer, ToggleIrq, vars, execVars, dmemVars,
                storeVars
  <2>2. QED
    BY <1>1, <2>1
<1>8. QED
  BY <1>2, <1>3, <1>4, <1>5, <1>6, <1>7 DEF Next

\* The data side is given, holds and performs the value the store has read.
THEOREM StoreValInvariance == Spec => []StoreValInv
<1>1. Init /\ Grounds => StoreValInv
  <2>1. SUFFICES ASSUME Init, Grounds PROVE StoreValInv
    OBVIOUS
  <2>2. QED
    BY <2>1 DEF Init, StoreValInv, CommitVal, AnswerVal, RequestVal, StoreInWb, StoreAnswered
<1>2. Stored /\ Grounds' /\ StoreValInv /\ [Next]_vars => StoreValInv'
  BY StoresStep
<1>3. QED
  BY <1>1, <1>2, GroundsInvariance, StoredInvariance, PTL DEF Spec

-----------------------------------------------------------------------------

(* The commit of the oldest instruction is the next step of the program *)

\* All that is known where write back commits.
Ready == /\ Stored /\ CompInv /\ PathInv /\ SyncPending
         /\ InterruptInv /\ CsrInv /\ StoreValInv

THEOREM ReadyInvariance == Spec => []Ready
  BY StoredInvariance, CompInvariance, PathInvariance, PendingInvariance, CsrInvariance,
     StoreValInvariance, PTL DEF Ready

\* The program reads the instruction set as the pipeline does.
LEMMA ArchReads ==
  ASSUME NEW p
  PROVE  LET a == rf[Prog[p].rs1]
             b == rf[Prog[p].rs2]
         IN  /\ Arch!Src1(p) = a /\ Arch!Src2(p) = b
             /\ Arch!Step(p) <=> archPc' = Successor(p, a, b)
             /\ Arch!Misaimed(p) <=> Misaimed(p, a, b)
  BY DEF Arch!Src1, Arch!Src2, Arch!Step, Arch!Successor, Successor, Arch!Jumps, Jumps,
         Arch!Target, Target, Arch!Misaimed, Misaimed, Arch!ControlOp, ControlOp

\* Where the oldest instruction stands, and what it has become.
LEMMA OldestStands ==
  ASSUME Ready, pipe4 # <<>>, LiveIssued(InWb)
  PROVE  LET p == InWb.pc
             a == rf[Prog[p].rs1]
             b == rf[Prog[p].rs2]
         IN  /\ InWb \in IssuedEntry(PassedType) /\ p \in Addr /\ p \in Arch!Here
             /\ InWb.rd = Prog[p].rd
             /\ sync # "none" => InWb.type = "TRAP" /\ InWb.cause = sync
             /\ TrapGround(InWb) \/ (p \notin FetchFault /\ Outcome(InWb, a, b))
<1>0. TypeOK /\ Grounds /\ Parts /\ EntryInv /\ Len(Issued) \in Nat
  <2>1. TypeOK /\ Grounds /\ Parts /\ EntryInv
    BY Given DEF Ready, Stored, Reads
  <2>2. Len(Issued) \in Nat
    BY <2>1 DEF Parts, IssuedParts
  <2>3. QED
    BY <2>1, <2>2
<1>1. 1 \in 1..Len(Issued) /\ Issued[1] = InWb
  BY <1>0 DEF Parts, IssuedParts
<1>2. InWb \in IssuedEntry(PassedType) /\ InWb.pc \in Addr
  BY <1>0, Heads DEF IssuedEntry
<1>3. InWb.pc \in Arch!Here
  <2>1. Follows(1 - 1, InWb.pc)
    BY <1>1 DEF Ready, PathInv
  <2>2. ~ (1 - 1 \in 1..Len(Issued))
    BY <1>0
  <2>3. Leads(archPc, InWb.pc)
    BY <2>1, <2>2 DEF Follows
  <2>4. QED
    BY <2>3 DEF Leads, Arch!Here
<1>4. InWb.rd = Prog[InWb.pc].rd
  BY <1>0, <1>1 DEF EntryInv
<1>5. sync # "none" => InWb.type = "TRAP" /\ InWb.cause = sync
  BY <1>0, OldestRefetches DEF Ready
<1>6. ASSUME ~ TrapGround(InWb)
      PROVE  /\ InWb.pc \notin FetchFault
             /\ Outcome(InWb, rf[Prog[InWb.pc].rs1], rf[Prog[InWb.pc].rs2])
  <2>1. PICK a \in Data, b \in Data :
          InWb.pc \notin FetchFault /\ HasRead(1, a, b) /\ Outcome(InWb, a, b)
    BY <1>1, <1>6 DEF Ready, CompInv
  <2>2. a = rf[Prog[InWb.pc].rs1] /\ b = rf[Prog[InWb.pc].rs2]
    BY <1>0, <1>1, <2>1, OldestReads
  <2>3. QED
    BY <2>1, <2>2
<1>7. QED
  BY <1>2, <1>3, <1>4, <1>5, <1>6

\* The oldest store the data side holds is that of write back.
LEMMA OldestStored ==
  ASSUME TypeOK, StoreBufferMirrors, StoreInWb
  PROVE  sb # <<>> /\ Head(sb).ep = InWb.ep
<1>1. DueLists /\ DueInWb = pipe4 /\ pipe4 \in Seq(DueEntry) /\ Len(pipe4) >= 1 /\ pipe4[1] = InWb
  <2>1. DueLists /\ DueInWb = pipe4
    BY DuePlaces DEF DueInWb
  <2>2. QED
    BY <2>1, Shifted DEF DueLists, StoreInWb, InWb
<1>2. Len(StoresDue) >= 1 /\ StoresDue[1] = InWb
  <2>1. /\ Len(StoresDue) = Len(pipe4) + Len(DueAnswered)
        /\ Len(pipe4) \in Nat /\ Len(DueAnswered) \in Nat
        /\ \A i \in 1..(Len(pipe4) + Len(DueAnswered)) :
             i <= Len(pipe4) => StoresDue[i] = pipe4[i]
    BY <1>1, ConcatProperties, LenProperties DEF DueLists
  <2>2. 1 \in 1..(Len(pipe4) + Len(DueAnswered)) /\ 1 <= Len(pipe4)
    BY <1>1, <2>1
  <2>3. QED
    BY <1>1, <2>1, <2>2
<1>3. Len(sb) >= 1 /\ sb \in Seq(StoreEntry) /\ Len(sb) \in Nat
  BY <1>2, LenProperties DEF StoreBufferMirrors, SameTags, TypeOK, StoreTypeOK
<1>4. sb # <<>> /\ Head(sb) = sb[1]
  BY <1>3, Shifted
<1>5. SameTag(sb[1], StoresDue[1])
  BY <1>3 DEF StoreBufferMirrors, SameTags
<1>6. QED
  BY <1>2, <1>4, <1>5 DEF SameTag

\* The register file as commit_rd and as the program write it.
LEMMA CommitWritten ==
  ASSUME TypeOK, NEW p \in Addr, NEW v, CommitRd(Prog[p].rd, v)
  PROVE  Arch!Write(p, v) /\ (Prog[p].rd = 0 => rf' = rf)
  BY ProgramTyped DEF CommitRd, Arch!Write, TypeOK, ArchTypeOK

\* The history of an instruction that retires is the next step of the program.
LEMMA Retired ==
  ASSUME Ready, pipe4 # <<>>, LiveIssued(InWb), InWb.type # "TRAP", Retire(InWb.pc)
  PROVE  LET p == InWb.pc
         IN  /\ p \in Addr /\ p \in Arch!Here \ FetchFault /\ sync = "none" /\ Arch!Step(p)
             /\ sync' = IF Prog[p].op \in SyncOp THEN RerunKind(Prog[p].op) ELSE "none"
             /\ InWb.rd = Prog[p].rd
             /\ Outcome(InWb, Arch!Src1(p), Arch!Src2(p))
<1>1. ~ TrapGround(InWb)
  BY DEF TrapGround
<1>2. QED
  BY <1>1, OldestStands, ArchReads DEF Retire

\* A regular instruction commits.
LEMMA RegImplements == ASSUME Ready, CommitReg PROVE Arch!Next
<1> DEFINE p == InWb.pc
<1>0. TypeOK /\ InWb.type = "REG" /\ pipe4 # <<>> /\ LiveIssued(InWb) /\ Retire(p)
      /\ CommitRd(InWb.rd, InWb.val) /\ UNCHANGED <<csr, csrResp, pcsr, epc, mem>>
  BY Given DEF CommitReg, Commits, LiveIssued, csrVars, storeVars, Ready, Stored, Reads
<1>1. /\ p \in Addr /\ p \in Arch!Here \ FetchFault /\ sync = "none" /\ Arch!Step(p)
      /\ sync' = IF Prog[p].op \in SyncOp THEN RerunKind(Prog[p].op) ELSE "none"
      /\ InWb.rd = Prog[p].rd /\ Outcome(InWb, Arch!Src1(p), Arch!Src2(p))
  BY <1>0, Retired
<1>2. Arch!Write(p, InWb.val) /\ (Prog[p].rd = 0 => rf' = rf) /\ InWb.val \in Data
  BY <1>0, <1>1, CommitWritten, Heads DEF IssuedEntry
<1>3. \A ops : Prog[p].op \in ops => Arch!Runs(p, ops)
  BY <1>1 DEF Arch!Runs
<1>4. CASE /\ Prog[p].op \in {"ALU", "MUL"} \cup ControlOp /\ InWb.val = Result(p, Arch!Src1(p), Arch!Src2(p))
           /\ ~ Misaimed(p, Arch!Src1(p), Arch!Src2(p))
  <2>1. Arch!Runs(p, {"ALU", "MUL"} \cup Arch!ControlOp)
    BY <1>3, <1>4 DEF Arch!ControlOp, ControlOp
  <2>2. ~ Arch!Misaimed(p)
    BY <1>4, ArchReads
  <2>3. sync' = sync
    BY <1>1, <1>4 DEF SyncOp, SystemOp, FenceOp, ControlOp
  <2>4. Arch!Compute(p)
    BY <1>0, <1>1, <1>2, <1>4, <2>1, <2>2, <2>3 DEF Arch!Compute
  <2>5. QED
    BY <1>1, <2>4 DEF Arch!Next
<1>5. CASE Prog[p].op \in FenceOp \cup {"SFENCE"}
  <2>1. Arch!Runs(p, Arch!FenceOp \cup {"SFENCE"})
    BY <1>3, <1>5 DEF Arch!FenceOp, FenceOp
  <2>2. rf' = rf
    BY <1>1, <1>2, <1>5, ProgramAssumption DEF FenceOp, NoDest
  <2>3. sync' = Arch!RerunKind(Prog[p].op)
    BY <1>1, <1>5 DEF SyncOp, RerunKind, Arch!RerunKind
  <2>4. Arch!Fence(p)
    BY <1>0, <1>1, <2>1, <2>2, <2>3 DEF Arch!Fence
  <2>5. QED
    BY <1>1, <2>4 DEF Arch!Next
<1>6. CASE Prog[p].op \in {"LOAD", "LR"} /\ Arch!Src1(p) \notin BadAddr
  <2>1. Arch!Runs(p, {"LOAD", "LR"})
    BY <1>3, <1>6
  <2>2. sync' = sync
    BY <1>1, <1>6 DEF SyncOp, SystemOp, FenceOp
  <2>3. Arch!Load(p)
    BY <1>0, <1>1, <1>2, <1>6, <2>1, <2>2 DEF Arch!Load
  <2>4. QED
    BY <1>1, <2>3 DEF Arch!Next
<1>7. CASE Prog[p].op = "SC" /\ InWb.val = 1 /\ Arch!Src1(p) \notin BadAddr
  <2>1. Arch!Runs(p, {"SC"})
    BY <1>3, <1>7
  <2>2. sync' = sync
    BY <1>1, <1>7 DEF SyncOp, SystemOp, FenceOp
  <2>3. Arch!StoreConditionalFails(p)
    BY <1>0, <1>1, <1>2, <1>7, <2>1, <2>2 DEF Arch!StoreConditionalFails
  <2>4. QED
    BY <1>1, <2>3 DEF Arch!Next
<1>8. QED
  <2>1. Prog[p].op = "MUL" => ~ Misaimed(p, Arch!Src1(p), Arch!Src2(p))
    BY DEF Misaimed, Jumps
  <2>2. "REG" \notin SystemOp
    BY DEF SystemOp
  <2>3. QED
    BY <1>0, <1>1, <1>4, <1>5, <1>6, <1>7, <2>1, <2>2 DEF Outcome

\* A store commits and is performed, at once or when it has been answered.
LEMMA StoreImplements == ASSUME Ready, CommitStore \/ UncachedDone PROVE Arch!Next
<1> DEFINE p == InWb.pc
<1>0. /\ TypeOK /\ InWb.type = "STORE" /\ pipe4 # <<>> /\ LiveIssued(InWb) /\ Retire(p)
      /\ CommitRd(InWb.rd, InWb.val) /\ UNCHANGED <<csr, csrResp, pcsr, epc>> /\ InitiateStore
  BY Given DEF CommitStore, UncachedDone, Commits, LiveIssued, csrVars, Ready, Stored, Reads
<1>1. /\ p \in Addr /\ p \in Arch!Here \ FetchFault /\ sync = "none" /\ Arch!Step(p)
      /\ sync' = IF Prog[p].op \in SyncOp THEN RerunKind(Prog[p].op) ELSE "none"
      /\ InWb.rd = Prog[p].rd /\ Outcome(InWb, Arch!Src1(p), Arch!Src2(p))
  BY <1>0, Retired
<1>2. Arch!Write(p, InWb.val) /\ InWb.val \in Data
  BY <1>0, <1>1, CommitWritten, Heads DEF IssuedEntry
<1>3. /\ Prog[p].op \in {"STORE", "AMO", "SC"} /\ Arch!Src1(p) \notin BadAddr
      /\ Prog[p].op # "AMO" => InWb.val = 0
  BY <1>0, <1>1 DEF Outcome, SystemOp
<1>4. mem' = Arch!Src2(p)
  <2>1. Head(sb).ep = wEpoch /\ Stores(1, Head(sb).val)
    BY <1>0, OldestStored DEF Ready, Stored, StoreValInv, CommitVal, StoreInWb, LiveIssued
  <2>2. Issued[1] = InWb /\ Len(Issued) \in Nat
    <3>1. Parts
      BY Given DEF Ready, Stored, Reads
    <3>2. QED
      BY <1>0, <3>1 DEF Parts, IssuedParts
  <2>3. Holds(Prog[p].rs2, 1, Head(sb).val)
    BY <1>0, <1>3, <2>1, <2>2 DEF Stores, StoreOp
  <2>4. \A k \in 1..Len(Issued) : ~ (k < 1)
    BY <2>2
  <2>5. Head(sb).val = rf[Prog[p].rs2]
    BY <2>3, <2>4 DEF Holds
  <2>6. QED
    BY <1>0, <2>1, <2>5, ArchReads DEF InitiateStore
<1>5. sync' = sync
  BY <1>1, <1>3 DEF SyncOp, SystemOp, FenceOp
<1>6. Arch!Runs(p, {"STORE", "AMO", "SC"})
  BY <1>1, <1>3 DEF Arch!Runs
<1>7. Arch!Store(p)
  BY <1>0, <1>1, <1>2, <1>3, <1>4, <1>5, <1>6 DEF Arch!Store
<1>8. QED
  BY <1>1, <1>7 DEF Arch!Next

\* A CSR access commits: the chain holds what it wrote and answered what was there.
LEMMA CsrImplements == ASSUME Ready, CommitCsr PROVE Arch!Next
<1> DEFINE p == InWb.pc
<1>0. /\ TypeOK /\ InWb.type = "CSR" /\ pipe4 # <<>> /\ LiveIssued(InWb) /\ Retire(p)
      /\ CommitRd(InWb.rd, Head(csrResp)) /\ UNCHANGED <<csr, pcsr, epc, mem>>
      /\ csrResp # <<>> /\ csrResp' = <<>>
  BY Given DEF CommitCsr, Commits, LiveIssued, storeVars, Ready, Stored, Reads
<1>1. /\ p \in Addr /\ p \in Arch!Here \ FetchFault /\ sync = "none" /\ Arch!Step(p)
      /\ sync' = IF Prog[p].op \in SyncOp THEN RerunKind(Prog[p].op) ELSE "none"
      /\ InWb.rd = Prog[p].rd /\ Outcome(InWb, Arch!Src1(p), Arch!Src2(p))
  BY <1>0, Retired
<1>2. Prog[p].op = "CSR" /\ InWb.val = Arch!Src1(p)
  BY <1>0, <1>1 DEF Outcome, SystemOp
<1>3. csr' = Arch!Src1(p)
  BY <1>0, <1>2 DEF Ready, CsrInv
<1>4. Arch!Write(p, Head(csrResp))
  BY <1>0, <1>1, CommitWritten
<1>5. Arch!Runs(p, {"CSR"}) /\ sync' = "Rerun"
  BY <1>1, <1>2 DEF Arch!Runs, SyncOp, SystemOp, RerunKind
<1>6. Arch!AccessCsr(p)
  BY <1>0, <1>1, <1>3, <1>4, <1>5 DEF Arch!AccessCsr
<1>7. QED
  BY <1>1, <1>6 DEF Arch!Next

\* The chain has answered only a CSR instruction that is in write back.
LEMMA NoAnswer == ASSUME Ready, ~ Commits({"CSR"}) PROVE csrResp = <<>>
  BY DEF Ready, Stored, Reads, Grounds, WaitInv, AnswerInv, TypeInv, BusyInv

\* A return from a trap handler commits.
LEMMA XretImplements == ASSUME Ready, CommitXret PROVE Arch!Next
<1> DEFINE p == InWb.pc
<1>0. /\ InWb.type = "XRET" /\ pipe4 # <<>> /\ LiveIssued(InWb) /\ ~ Commits({"CSR"})
      /\ csr' = pcsr /\ pcsr' = 1 /\ archPc' = epc /\ UNCHANGED <<epc, mem, csrResp, rf, sync>>
  BY DEF CommitXret, Commits, LiveIssued, storeVars
<1>1. /\ p \in Addr /\ p \in Arch!Here /\ p \notin FetchFault /\ sync = "none"
      /\ Outcome(InWb, rf[Prog[p].rs1], rf[Prog[p].rs2])
  <2>1. ~ TrapGround(InWb)
    BY <1>0 DEF TrapGround
  <2>2. QED
    BY <1>0, <2>1, OldestStands
<1>2. Arch!Runs(p, {"XRET"})
  BY <1>0, <1>1 DEF Arch!Runs, Outcome
<1>3. csrResp = <<>> /\ csrResp' = <<>>
  BY <1>0, NoAnswer
<1>4. Arch!Return(p)
  BY <1>0, <1>2, <1>3 DEF Arch!Return
<1>5. QED
  BY <1>1, <1>4 DEF Arch!Next

\* A trap is taken: an exception the instruction has raised, or an interrupt.
LEMMA TrapImplements == ASSUME Ready, CommitTrap \/ UncachedError PROVE Arch!Next
<1> DEFINE p == InWb.pc
<1>0. /\ InWb.type \in {"TRAP", "STORE"} /\ pipe4 # <<>> /\ LiveIssued(InWb) /\ ~ Commits({"CSR"})
      /\ InWb.type = "TRAP" => InWb.cause \notin RerunCause
      /\ epc' = p /\ pcsr' = csr /\ csr' = 0 /\ archPc' = TrapVec
      /\ UNCHANGED <<mem, csrResp, rf, sync>>
  BY DEF CommitTrap, UncachedError, TrapTo, Commits, LiveIssued, storeVars
<1>1. /\ p \in Addr /\ p \in Arch!Here /\ sync = "none"
      /\ \/ TrapGround(InWb)
         \/ p \notin FetchFault /\ Outcome(InWb, rf[Prog[p].rs1], rf[Prog[p].rs2])
  <2>1. sync \in {"none"} \cup RerunCause
    BY Given DEF Ready, Stored, Reads, TypeOK, ArchTypeOK
  <2>2. QED
    BY <1>0, <2>1, OldestStands
<1>2. csrResp = <<>> /\ csrResp' = <<>>
  BY <1>0, NoAnswer
<1>3. Arch!TakeTrap(p)
  BY <1>0, <1>1, <1>2 DEF Arch!TakeTrap
<1>4. CASE InWb.type = "TRAP" /\ InWb.cause = "Interrupt"
  <2>1. Parts /\ KeptPlaces
    BY Given DEF Ready, Stored, Reads
  <2>2. 1 \in 1..Len(Issued) /\ Issued[1] = InWb
    BY <1>0, <2>1 DEF Parts, IssuedParts
  <2>3. 1 \in 1..Len(Decoded) /\ Decoded[1] = InWb /\ IsKept(1)
    BY <1>0, <2>1, <2>2 DEF KeptPlaces
  <2>4. csr = 1
    BY <1>4, <2>3 DEF Ready, InterruptInv
  <2>5. Arch!Interrupt(p)
    BY <1>2, <1>3, <2>4 DEF Arch!Interrupt
  <2>6. QED
    BY <1>1, <2>5 DEF Arch!Next
<1>5. CASE \/ p \in FetchFault
           \/ Prog[p].op \in AccessOp \cup {"ILL"}
           \/ Misaimed(p, rf[Prog[p].rs1], rf[Prog[p].rs2])
  <2>1. Prog[p].op \in AccessOp \cup {"ILL"} => Prog[p].op \in Arch!AccessOp \cup {"ILL"}
    BY DEF AccessOp, Arch!AccessOp
  <2>2. Arch!Exception(p)
    BY <1>3, <1>5, <2>1, ArchReads DEF Arch!Exception
  <2>3. QED
    BY <1>1, <2>2 DEF Arch!Next
<1>6. QED
  <2>1. TrapGround(InWb) =>
          InWb.cause = "Interrupt" \/ p \in FetchFault \/ Prog[p].op = "ILL"
    BY <1>0 DEF TrapGround
  <2>2. Outcome(InWb, rf[Prog[p].rs1], rf[Prog[p].rs2]) =>
          Prog[p].op \in AccessOp \/ Misaimed(p, rf[Prog[p].rs1], rf[Prog[p].rs2])
    BY <1>0 DEF Outcome, AccessOp, SystemOp
  <2>3. QED
    BY <1>0, <1>1, <1>4, <1>5, <2>1, <2>2 DEF TrapGround

\* The trap that only fetches again changes nothing.
LEMMA RerunImplements == ASSUME Ready, CommitRerun PROVE Arch!Next
<1>0. /\ InWb.type = "TRAP" /\ InWb.cause \in RerunCause /\ pipe4 # <<>> /\ LiveIssued(InWb)
      /\ archPc' = InWb.pc /\ UNCHANGED <<csr, csrResp, pcsr, epc, mem, rf>>
      /\ sync' = IF sync = InWb.cause THEN "none" ELSE sync
  BY DEF CommitRerun, Commits, LiveIssued, csrVars, storeVars
<1>1. InWb.pc \in Arch!Here /\ (sync # "none" => InWb.cause = sync)
  BY <1>0, OldestStands
<1>2. Arch!Refetch(InWb.cause)
  BY <1>0, <1>1 DEF Arch!Refetch
<1>3. InWb.cause \in Arch!RerunCause
  BY <1>0 DEF RerunCause, Arch!RerunCause
<1>4. QED
  BY <1>2, <1>3 DEF Arch!Next

\* What write back drops leaves no trace, not even through its store.
LEMMA DropStutters == ASSUME Ready, DropInstruction PROVE UNCHANGED mem
<1>1. CASE InWb.type = "STORE"
  <2>1. TypeOK
    BY Given DEF Ready, Stored, Reads
  <2>2. Head(sb).ep = InWb.ep
    BY <1>1, <2>1, OldestStored DEF DropInstruction, StoreInWb, Ready, Stored
  <2>3. QED
    BY <1>1, <2>2 DEF DropInstruction, InitiateStore
<1>2. QED
  BY <1>1 DEF DropInstruction

\* Every step of the pipeline is a step of the program, or none at all.
LEMMA StepImplements ==
  ASSUME Ready, [Next]_vars
  PROVE  Arch!Next \/ UNCHANGED Arch!vars
<1>0. TypeInv
  BY DEF Ready, Stored, Reads, Grounds
<1>1. ASSUME UNCHANGED <<archPc, rf, pcsr, epc, mem, sync, csr, csrResp>>
      PROVE  UNCHANGED Arch!vars
  BY <1>1 DEF Arch!vars
<1>2. CASE CommitReg
  BY <1>2, RegImplements
<1>3. CASE CommitStore \/ UncachedDone
  BY <1>3, StoreImplements
<1>4. CASE CommitCsr
  BY <1>4, CsrImplements
<1>5. CASE CommitXret
  BY <1>5, XretImplements
<1>6. CASE CommitTrap \/ UncachedError
  BY <1>6, TrapImplements
<1>7. CASE CommitRerun
  BY <1>7, RerunImplements
<1>8. CASE DropInstruction
  BY <1>1, <1>8, DropStutters DEF DropInstruction, archVars, csrVars
<1>9. CASE InitiateUncached \/ CsrRequest
  BY <1>1, <1>9 DEF InitiateUncached, CsrRequest, archVars, csrVars, storeVars
<1>10. CASE CsrAnswer
  BY <1>10 DEF CsrAnswer, Arch!vars, archVars, storeVars
<1>11. CASE Exec
  <2>1. UNCHANGED <<rf, storeVars, csrVars, archVars>>
    BY <1>11 DEF Exec, ExecDrop, ExecTrap, ExecAlu, ExecMulti, ExecSystem, ExecMisaligned,
                 ExecAccess, ExecFence, ExecLoadReserved, ExecStoreConditional, ExecControl,
                 Request, ExecFrame
  <2>2. QED
    BY <1>1, <2>1 DEF storeVars, csrVars, archVars
<1>12. CASE Deliver \/ Decode \/ WaitForInterrupt \/ DelayedOutput \/ DmemRespond
              \/ CheckInstruction \/ ToggleIrq \/ UNCHANGED vars
  <2>1. UNCHANGED <<rf, mem, csrVars, archVars>>
    BY <1>12 DEF Deliver, Decode, WaitForInterrupt, DelayedOutput, DmemRespond,
                 CheckInstruction, ToggleIrq, vars, storeVars
  <2>2. QED
    BY <1>1, <2>1 DEF csrVars, archVars
<1>13. QED
  BY <1>2, <1>3, <1>4, <1>5, <1>6, <1>7, <1>8, <1>9, <1>10, <1>11, <1>12
     DEF Next, InstructionCommit

\* With all its speculation and bypassing the pipeline shows, at write back
\* (stage5.bsv), the program run one instruction at a time, whatever program it
\* runs and whatever the predictor says.
THEOREM Implementation == Spec => ImplementsIsa
<1>1. Init => Arch!Init
  BY DEF Init, Arch!Init
<1>2. Ready /\ [Next]_vars => [Arch!Next]_(Arch!vars)
  BY StepImplements
<1>3. QED
  BY <1>1, <1>2, ReadyInvariance, PTL DEF Spec, ImplementsIsa, Arch!Spec

=============================================================================
