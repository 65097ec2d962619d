------------------------------ MODULE VmProofs ------------------------------
(***************************************************************************)
(* The supervisor of the virtual-memory test environment is one flat       *)
(* memory to the program, and no assertion of its handle_fault and evict   *)
(* fails: for any pages the program touches and any width of the shift     *)
(* register for which the frames it draws differ.                          *)
(***************************************************************************)
EXTENDS Vm, FiniteSetTheorems, TLAPS

Frame == (MaxPages + 1) .. (2 * MaxPages)
Draw == 1 .. MaxPages
PteShape == [frame : {0} \cup Frame, a : BOOLEAN, d : BOOLEAN]

Mapped == {p \in UserPage : l3pt[p] # NoPte}
InFault == at \in {"fault", "flush_new", "copy", "flush"}
Ended == at \in {"evict", "done"}

\* The page has an entry, but is still copied.
Busy(p) == at \in {"flush_new", "copy"} /\ badvaddr = p

\* The entry of the page has changed and was not flushed.
Stale(p) == at \in {"flush_new", "flush"} /\ badvaddr = p

\* An access the entry does not allow.
Faulting(pte, op) == pte = NoPte \/ ~ pte.a \/ (op = "store" /\ ~ pte.d)

VmShape ==
  /\ InFault \/ Ended \/ at = "user"
  /\ access \in {<<>>} \cup (Touched \X Op)
  /\ l3pt \in [UserPage -> PteShape]
  /\ tlb \in [UserPage -> {<<>>} \cup {<<e>> : e \in PteShape}]
  /\ addr \in [Node -> {0} \cup Frame]
  /\ next \in [Node -> Nat]
  /\ mem \in [Physical -> Nat]
  /\ evicted \in Nat

\* While the supervisor runs, the access that faulted waits.
FaultInv ==
  /\ InFault => access # <<>> /\ badvaddr = access[1] /\ cause = access[2]
  /\ Ended => access = <<>>
  /\ at = "fault" => Faulting(l3pt[badvaddr], cause)
  /\ at \in {"flush_new", "copy"} => l3pt[badvaddr].a /\ l3pt[badvaddr].d

\* The nodes in front of head are those of the pages that are mapped.
ListInv ==
  /\ \A n \in Draw : addr[n] \in Frame
  /\ \A m, n \in Draw : addr[m] = addr[n] => m = n
  /\ ~ Ended =>
       /\ head \in Nat /\ head = Cardinality(Mapped) + 1
       /\ \A n \in Draw : n < MaxPages => next[n] = n + 1
       /\ \A p \in Mapped, n \in Draw : l3pt[p].frame = addr[n] => n < head
       /\ \A p \in UserPage :
            addr[MappingNode(p)] = IF p \in Mapped THEN l3pt[p].frame ELSE 0
  /\ Ended =>
       \A p \in UserPage : p > evicted /\ addr[MappingNode(p)] # 0 => p \in Mapped

EntryInv ==
  /\ \A p \in Mapped : l3pt[p].frame \in Frame /\ (l3pt[p].d => l3pt[p].a)
  /\ \A p, q \in Mapped : l3pt[p].frame = l3pt[q].frame => p = q
  /\ \A p \in Mapped : ~ l3pt[p].a => access # <<>> /\ access[1] = p
  /\ \A p \in UserPage : Stale(p) \/ tlb[p] = <<>> \/ tlb[p] = <<l3pt[p]>>

\* A page that is not dirty is in its frame what it is at home.
CopyInv ==
  \A p \in Mapped :
    ~ Busy(p) /\ ~ l3pt[p].d => mem[l3pt[p].frame] = mem[Home(p)]

VmInv == VmShape /\ FaultInv /\ ListInv /\ EntryInv /\ CopyInv

-----------------------------------------------------------------------------
(* What the proofs take from the constants and from the state                 *)

LEMMA VmConstants ==
  /\ MaxPages \in Nat /\ MaxPages >= 1 /\ Touched \subseteq UserPage
  /\ UserPage \subseteq Draw /\ 1 \in Draw /\ MaxPages \in Draw
  /\ Frame \subseteq Nat /\ Frame \subseteq Physical /\ 0 \notin Frame
  /\ \A p \in UserPage :
       /\ MappingNode(p) \in Node /\ MappingNode(p) \notin Draw
       /\ Home(p) \in Physical /\ Home(p) \notin Frame
       /\ \A q \in UserPage : MappingNode(p) = MappingNode(q) => p = q
  /\ Draw \subseteq Node
  /\ NoPte \in PteShape
<1>1. MaxPages \in Nat /\ MaxPages >= 1
  BY PeriodAssumption
<1>2. Touched \subseteq UserPage
  BY VmAssumption DEF UserPage
<1>3. UserPage \subseteq Draw /\ 1 \in Draw /\ MaxPages \in Draw /\ Draw \subseteq Node
  BY <1>1 DEF UserPage, Draw, Node
<1>4. Frame \subseteq Nat /\ Frame \subseteq Physical /\ 0 \notin Frame
  BY <1>1 DEF Frame, Physical
<1>5. ASSUME NEW p \in UserPage
      PROVE  /\ MappingNode(p) \in Node /\ MappingNode(p) \notin Draw
             /\ Home(p) \in Physical /\ Home(p) \notin Frame
             /\ \A q \in UserPage : MappingNode(p) = MappingNode(q) => p = q
  BY <1>1 DEF UserPage, MappingNode, Node, Draw, Home, Physical, Frame
<1>6. NoPte \in PteShape
  BY DEF NoPte, Pte, PteShape
<1>7. QED
  BY <1>1, <1>2, <1>3, <1>4, <1>5, <1>6

\* The pages mapped are finitely many, and less than the nodes.
LEMMA MappedFinite ==
  /\ IsFiniteSet(Mapped) /\ Cardinality(Mapped) \in Nat
  /\ \A p \in UserPage : p \notin Mapped =>
       /\ Cardinality(Mapped \cup {p}) = Cardinality(Mapped) + 1
       /\ Cardinality(Mapped) + 2 <= MaxPages
<1>1. MaxPages \in Nat /\ MaxPages >= 1
  BY VmConstants
<1>2. IsFiniteSet(UserPage) /\ Cardinality(UserPage) = MaxPages - 1
  <2>1. 1 \in Int /\ MaxPages - 1 \in Int
    BY <1>1
  <2>2. /\ IsFiniteSet(1 .. (MaxPages - 1))
        /\ Cardinality(1 .. (MaxPages - 1))
             = IF 1 > MaxPages - 1 THEN 0 ELSE (MaxPages - 1) - 1 + 1
    BY <2>1, FS_Interval
  <2>3. QED
    BY <1>1, <2>2 DEF UserPage
<1>3. Mapped \subseteq UserPage
  BY DEF Mapped
<1>4. IsFiniteSet(Mapped) /\ Cardinality(Mapped) \in Nat
  BY <1>2, <1>3, FS_Subset, FS_CardinalityType
<1>5. ASSUME NEW p \in UserPage, p \notin Mapped
      PROVE  /\ Cardinality(Mapped \cup {p}) = Cardinality(Mapped) + 1
             /\ Cardinality(Mapped) + 2 <= MaxPages
  <2>1. /\ IsFiniteSet(Mapped \cup {p})
        /\ Cardinality(Mapped \cup {p}) = Cardinality(Mapped) + 1
    BY <1>4, <1>5, FS_AddElement
  <2>2. Mapped \cup {p} \subseteq UserPage
    BY <1>3
  <2>3. Cardinality(Mapped \cup {p}) <= Cardinality(UserPage)
    BY <1>2, <2>2, FS_Subset
  <2>4. QED
    BY <1>1, <1>2, <1>4, <2>1, <2>3
<1>6. QED
  BY <1>4, <1>5

\* But for an entry that was not flushed, an access goes by the page table.
LEMMA Current ==
  ASSUME VmInv, NEW p \in UserPage, ~ Stale(p)
  PROVE  Translation(p) = l3pt[p]
BY DEF VmInv, EntryInv, Translation

LEMMA FaultsTell ==
  ASSUME VmInv, NEW p \in UserPage, ~ Stale(p), NEW op
  PROVE  Faults(p, op) <=> Faulting(l3pt[p], op)
BY Current DEF Faults, Faulting

\* A page with an entry has a frame, and one without has none.
LEMMA MappedEntry ==
  ASSUME VmShape, NEW p \in UserPage
  PROVE  /\ l3pt[p] \in PteShape
         /\ l3pt[p].a \in BOOLEAN /\ l3pt[p].d \in BOOLEAN /\ l3pt[p].frame \in {0} \cup Frame
         /\ p \in Mapped <=> l3pt[p] # NoPte
         /\ l3pt[p].a \/ l3pt[p].d \/ l3pt[p].frame # 0 => p \in Mapped
BY DEF VmShape, PteShape, Mapped, NoPte, Pte

-----------------------------------------------------------------------------
(* The steps                                                                  *)

LEMMA TlbKeeps == ASSUME VmInv, TlbFills \/ TlbEvicts PROVE VmInv'
<1>1. UNCHANGED <<at, access, trap, l3pt, list, mem, evicted>>
  BY DEF TlbFills, TlbEvicts
<1>2. PICK p \in UserPage : tlb' = [tlb EXCEPT ![p] = <<l3pt[p]>>] \/ tlb' = [tlb EXCEPT ![p] = <<>>]
  BY VmConstants DEF TlbFills, TlbEvicts
<1>3. /\ \A q \in UserPage : tlb'[q] = tlb[q] \/ tlb'[q] = <<l3pt[q]>> \/ tlb'[q] = <<>>
      /\ tlb' \in [UserPage -> {<<>>} \cup {<<e>> : e \in PteShape}]
  <2>1. l3pt[p] \in PteShape /\ tlb \in [UserPage -> {<<>>} \cup {<<e>> : e \in PteShape}]
    BY DEF VmInv, VmShape
  <2>2. <<l3pt[p]>> \in {<<e>> : e \in PteShape}
    BY <2>1
  <2>3. QED
    BY <1>2, <2>1, <2>2
<1>4. VmShape'
  BY <1>1, <1>3 DEF VmInv, VmShape, InFault, Ended, list
<1>5. FaultInv'
  BY <1>1 DEF VmInv, FaultInv, InFault, Ended, Faulting, trap
<1>6. ListInv'
  BY <1>1 DEF VmInv, ListInv, Ended, Mapped, list
<1>7. EntryInv'
  BY <1>1, <1>3 DEF VmInv, EntryInv, Mapped, Stale, trap
<1>8. CopyInv'
  BY <1>1 DEF VmInv, CopyInv, Mapped, Busy, trap
<1>9. QED
  BY <1>4, <1>5, <1>6, <1>7, <1>8 DEF VmInv

\* What the program and its end leave to the supervisor.
LEMMA ProgramKeeps ==
  ASSUME VmInv, UNCHANGED <<l3pt, tlb, list, mem, evicted>>,
         at \in {"user", "evict", "done"}, at' \in {"user", "fault", "evict", "done"},
         Ended => Ended', at' = "user" => at = "user",
         access' \in {<<>>} \cup (Touched \X Op), FaultInv',
         \A p \in Mapped : ~ l3pt[p].a => access' # <<>> /\ access'[1] = p
  PROVE  VmInv'
<1>1. VmShape'
  BY DEF VmInv, VmShape, InFault, Ended, list
<1>2. Mapped' = Mapped
  BY DEF Mapped
<1>3. ListInv'
  <2>1. UNCHANGED <<addr, next, head>>
    BY DEF list
  <2>2. CASE ~ Ended'
    <3>1. ~ Ended
      BY <2>2
    <3>2. QED
      BY <1>2, <2>1, <2>2, <3>1 DEF VmInv, ListInv
  <2>3. CASE Ended'
    <3>1. \A p \in UserPage : p > evicted /\ addr[MappingNode(p)] # 0 => p \in Mapped
      BY DEF VmInv, ListInv
    <3>2. QED
      BY <1>2, <2>1, <2>3, <3>1 DEF VmInv, ListInv
  <2>4. QED
    BY <2>2, <2>3
<1>4. EntryInv'
  BY <1>2 DEF VmInv, EntryInv, Stale
<1>5. CopyInv'
  BY <1>2 DEF VmInv, CopyInv, Busy
<1>6. QED
  BY <1>1, <1>3, <1>4, <1>5 DEF VmInv

LEMMA AccessKeeps ==
  ASSUME VmInv, UserAccesses \/ AccessFaults \/ UserEcall \/ Terminate
  PROVE  VmInv'
<1>1. CASE UserAccesses
  <2>1. PICK p \in Touched, op \in Op : access' = <<p, op>>
    BY <1>1 DEF UserAccesses
  <2>2. /\ at = "user" /\ at' = "user" /\ access = <<>> /\ access' \in Touched \X Op
        /\ UNCHANGED <<l3pt, tlb, list, mem, evicted>>
    BY <1>1, <2>1 DEF UserAccesses
  <2>3. FaultInv'
    BY <2>2 DEF FaultInv, InFault, Ended
  <2>4. \A q \in Mapped : ~ l3pt[q].a => access' # <<>> /\ access'[1] = q
    BY <2>2 DEF VmInv, EntryInv
  <2>5. QED
    BY <2>2, <2>3, <2>4, ProgramKeeps DEF Ended
<1>2. CASE AccessFaults
  <2>1. /\ at = "user" /\ at' = "fault" /\ access # <<>> /\ access' = access
        /\ badvaddr' = access[1] /\ cause' = access[2] /\ Faults(access[1], access[2])
        /\ UNCHANGED <<l3pt, tlb, list, mem, evicted>>
    BY <1>2 DEF AccessFaults
  <2>2. access \in Touched \X Op /\ access[1] \in UserPage
    BY <2>1, VmConstants DEF VmInv, VmShape
  <2>3. Faulting(l3pt[access[1]], access[2])
    BY <2>1, <2>2, FaultsTell DEF Stale
  <2>4. FaultInv'
    BY <2>1, <2>3 DEF FaultInv, InFault, Ended, Faulting
  <2>5. QED
    BY <2>1, <2>2, <2>4, ProgramKeeps DEF Ended, VmInv, EntryInv
<1>3. CASE UserEcall \/ Terminate
  <2>1. /\ at \in {"user", "evict"} /\ at' \in {"evict", "done"} /\ access' = access
        /\ UNCHANGED <<l3pt, tlb, list, mem, evicted>>
    BY <1>3 DEF UserEcall, Terminate
  <2>2. access = <<>>
    BY <1>3 DEF UserEcall, Terminate, VmInv, FaultInv, Ended
  <2>3. FaultInv'
    BY <2>1, <2>2 DEF FaultInv, InFault, Ended
  <2>4. QED
    BY <2>1, <2>2, <2>3, ProgramKeeps DEF Ended, VmInv, EntryInv
<1>4. QED
  BY <1>1, <1>2, <1>3

\* An access goes by the entry of its page: a store finds it dirty, and writes
\* in no other page.
LEMMA AccessFacts ==
  ASSUME VmInv, AccessDone
  PROVE  /\ access \in Touched \X Op /\ access[1] \in Mapped
         /\ Translation(access[1]) = l3pt[access[1]]
         /\ l3pt[access[1]].a /\ (access[2] = "store" => l3pt[access[1]].d)
<1>1. at = "user" /\ access # <<>> /\ ~ Faults(access[1], access[2])
  BY DEF AccessDone
<1>2. access \in Touched \X Op /\ access[1] \in UserPage
  BY <1>1, VmConstants DEF VmInv, VmShape
<1>3. ~ Stale(access[1])
  BY <1>1 DEF Stale
<1>4. ~ Faulting(l3pt[access[1]], access[2])
  BY <1>1, <1>2, <1>3, FaultsTell
<1>5. QED
  BY <1>2, <1>3, <1>4, Current DEF Faulting, Mapped

LEMMA AccessDoneKeeps == ASSUME VmInv, AccessDone PROVE VmInv'
<1>1. /\ at = "user" /\ at' = "user" /\ access' = <<>>
      /\ UNCHANGED <<trap, l3pt, tlb, list, evicted>>
  BY DEF AccessDone
<1>2. PICK p : p = access[1]
  OBVIOUS
<1>3. p \in Mapped /\ p \in UserPage /\ l3pt[p].a /\ l3pt[p].frame \in Frame
  BY <1>2, AccessFacts DEF VmInv, EntryInv, Mapped
<1>4. \A q \in Mapped : l3pt[q].a
  BY <1>2, <1>3 DEF VmInv, EntryInv
<1>5. FaultInv'
  BY <1>1 DEF FaultInv, InFault, Ended
<1>6. Mapped' = Mapped
  BY <1>1 DEF Mapped
<1>7. CASE mem' = mem
  BY <1>1, <1>4, <1>5, <1>7, ProgramKeeps DEF Ended
<1>8. CASE access[2] = "store" /\ mem' = [mem EXCEPT ![l3pt[p].frame] = Written(p)]
  <2>1. l3pt[p].d
    BY <1>2, <1>8, AccessFacts
  <2>2. Written(p) \in Nat /\ l3pt[p].frame \in Physical
    <3>1. l3pt[p].frame \in Physical
      BY <1>3, VmConstants
    <3>2. p \in 1 .. (MaxPages - 1) /\ MaxPages \in Nat
      BY <1>3, VmConstants DEF UserPage
    <3>3. Written(p) \in Nat
      BY <3>2 DEF Written
    <3>4. QED
      BY <3>1, <3>3
  <2>3. mem' \in [Physical -> Nat]
    BY <1>8, <2>2 DEF VmInv, VmShape
  <2>4. \A f \in Physical : f # l3pt[p].frame => mem'[f] = mem[f]
    BY <1>8, <2>2 DEF VmInv, VmShape
  <2>5. VmShape'
    BY <1>1, <2>3 DEF VmInv, VmShape, InFault, Ended, list
  <2>6. ListInv'
    BY <1>1, <1>6 DEF VmInv, ListInv, Ended, list
  <2>7. EntryInv'
    BY <1>1, <1>4, <1>6 DEF VmInv, EntryInv, Stale, trap
  <2>8. CopyInv'
    <3>1. ASSUME NEW q \in Mapped, ~ l3pt[q].d PROVE mem'[l3pt[q].frame] = mem'[Home(q)]
      <4>1. q # p /\ q \in UserPage
        BY <2>1, <3>1 DEF Mapped
      <4>2. l3pt[q].frame # l3pt[p].frame /\ l3pt[q].frame \in Physical
        BY <1>3, <4>1, VmConstants DEF VmInv, EntryInv
      <4>3. Home(q) # l3pt[p].frame /\ Home(q) \in Physical
        BY <1>3, <4>1, VmConstants
      <4>4. mem[l3pt[q].frame] = mem[Home(q)]
        BY <1>1, <3>1 DEF VmInv, CopyInv, Busy
      <4>5. QED
        BY <2>4, <4>2, <4>3, <4>4
    <3>2. QED
      BY <1>1, <1>6, <3>1 DEF CopyInv, Home
  <2>9. QED
    BY <1>5, <2>5, <2>6, <2>7, <2>8 DEF VmInv
<1>9. mem' = mem \/ (access[2] = "store" /\ mem' = [mem EXCEPT ![l3pt[p].frame] = Written(p)])
  BY <1>2, AccessFacts DEF AccessDone
<1>10. QED
  BY <1>7, <1>8, <1>9

\* A fault on a mapped page finds a bit to set, and only the entry changes.
LEMMA MarkFacts ==
  ASSUME VmInv, MarkPage
  PROVE  /\ badvaddr \in Mapped /\ at' = "flush"
         /\ l3pt' = [l3pt EXCEPT ![badvaddr] = Marked(l3pt[badvaddr])]
         /\ UNCHANGED <<access, trap, tlb, list, mem, seen, evicted>>
<1>1. at = "fault" /\ l3pt[badvaddr] # NoPte
  BY DEF MarkPage
<1>2. badvaddr = access[1] /\ access \in Touched \X Op
  BY <1>1 DEF VmInv, FaultInv, VmShape, InFault
<1>3. badvaddr \in Mapped
  BY <1>1, <1>2, VmConstants DEF Mapped
<1>4. Faulting(l3pt[badvaddr], cause)
  BY <1>1 DEF VmInv, FaultInv
<1>5. ~ (l3pt[badvaddr].a /\ (l3pt[badvaddr].d \/ cause # "store"))
  BY <1>1, <1>4 DEF Faulting
<1>6. QED
  BY <1>3, <1>5 DEF MarkPage

LEMMA MarkKeeps == ASSUME VmInv, MarkPage PROVE VmInv'
<1>1. PICK p : p = badvaddr
  OBVIOUS
<1>2. /\ p \in Mapped /\ at = "fault" /\ at' = "flush" /\ badvaddr' = p
      /\ l3pt' = [l3pt EXCEPT ![p] = Marked(l3pt[p])]
      /\ UNCHANGED <<access, badvaddr, cause, tlb, addr, next, head, tail, mem, evicted>>
  BY <1>1, MarkFacts DEF MarkPage, trap, list
<1>3. /\ p \in UserPage /\ l3pt[p] \in PteShape /\ l3pt[p].frame \in Frame
      /\ (l3pt[p].d => l3pt[p].a) /\ l3pt \in [UserPage -> PteShape]
  BY <1>2 DEF VmInv, VmShape, EntryInv, Mapped
<1>4. PICK e : e = Marked(l3pt[p])
  OBVIOUS
<1>5. /\ e \in PteShape /\ e # NoPte /\ e.frame = l3pt[p].frame
      /\ e.a /\ (~ e.d => ~ l3pt[p].d) /\ (~ l3pt[p].d /\ l3pt[p].a => e.d)
  <2>1. e \in PteShape /\ e.frame = l3pt[p].frame
    BY <1>3, <1>4 DEF Marked, PteShape
  <2>2. e # NoPte
    BY <1>3, <2>1, VmConstants DEF NoPte, Pte
  <2>3. e.a /\ (~ e.d => ~ l3pt[p].d) /\ (~ l3pt[p].d /\ l3pt[p].a => e.d)
    BY <1>3, <1>4 DEF Marked, PteShape
  <2>4. QED
    BY <2>1, <2>2, <2>3
<1>6. l3pt' = [l3pt EXCEPT ![p] = e]
  BY <1>2, <1>4
<1>7. /\ l3pt' \in [UserPage -> PteShape] /\ l3pt'[p] = e
      /\ \A q \in UserPage : q # p => l3pt'[q] = l3pt[q]
      /\ \A q \in UserPage : l3pt'[q].frame = l3pt[q].frame
  BY <1>3, <1>5, <1>6
<1>8. Mapped' = Mapped
  BY <1>2, <1>5, <1>7 DEF Mapped
<1>9. VmShape'
  BY <1>2, <1>7 DEF VmInv, VmShape, InFault
<1>10. FaultInv'
  BY <1>2 DEF VmInv, FaultInv, InFault, Ended
<1>11. ListInv'
  <2>1. ~ Ended /\ ~ Ended'
    BY <1>2 DEF Ended
  <2>2. \A q \in Mapped : q \in UserPage
    BY DEF Mapped
  <2>3. QED
    BY <1>2, <1>7, <1>8, <2>1, <2>2 DEF VmInv, ListInv
<1>12. EntryInv'
  <2>1. \A q \in Mapped' :
          l3pt'[q].frame \in Frame /\ (l3pt'[q].d => l3pt'[q].a)
    BY <1>5, <1>7, <1>8 DEF VmInv, EntryInv, Mapped
  <2>2. \A q, r \in Mapped' : l3pt'[q].frame = l3pt'[r].frame => q = r
    BY <1>7, <1>8 DEF VmInv, EntryInv, Mapped
  <2>3. \A q \in Mapped' : ~ l3pt'[q].a => access' # <<>> /\ access'[1] = q
    BY <1>2, <1>5, <1>7, <1>8 DEF VmInv, EntryInv, Mapped
  <2>4. \A q \in UserPage : Stale(q)' \/ tlb'[q] = <<>> \/ tlb'[q] = <<l3pt'[q]>>
    BY <1>2, <1>7 DEF VmInv, EntryInv, Stale
  <2>5. QED
    BY <2>1, <2>2, <2>3, <2>4 DEF EntryInv
<1>13. CopyInv'
  <2>1. ASSUME NEW q \in Mapped, ~ l3pt'[q].d PROVE mem[l3pt[q].frame] = mem[Home(q)]
    <3>1. ~ l3pt[q].d /\ ~ Busy(q)
      BY <1>2, <1>5, <1>7, <2>1 DEF Busy, Mapped
    <3>2. QED
      BY <3>1 DEF VmInv, CopyInv
  <2>2. QED
    BY <1>2, <1>7, <1>8, <2>1 DEF CopyInv, Home, Mapped
<1>14. QED
  BY <1>9, <1>10, <1>11, <1>12, <1>13 DEF VmInv

\* A page that faults for want of an entry finds a node in the list, whose
\* frame no page has.
LEMMA TakeFacts ==
  ASSUME VmInv, TakeNode
  PROVE  /\ badvaddr \in UserPage /\ badvaddr \notin Mapped
         /\ head \in Draw /\ head < MaxPages /\ next[head] = head + 1
         /\ addr[head] \in Frame
         /\ \A q \in Mapped : l3pt[q].frame # addr[head]
         /\ head' = head + 1 /\ at' = "flush_new"
         /\ l3pt' = [l3pt EXCEPT ![badvaddr] = Pte(addr[head], TRUE, TRUE)]
         /\ next' = [next EXCEPT ![MappingNode(badvaddr)] = head + 1]
         /\ addr' = [addr EXCEPT ![MappingNode(badvaddr)] = addr[head]]
         /\ UNCHANGED <<access, trap, tlb, mem, seen, evicted>>
<1>1. at = "fault" /\ l3pt[badvaddr] = NoPte
  BY DEF TakeNode
<1>2. badvaddr = access[1] /\ access \in Touched \X Op
  BY <1>1 DEF VmInv, FaultInv, VmShape, InFault
<1>3. badvaddr \in UserPage /\ badvaddr \notin Mapped
  BY <1>1, <1>2, VmConstants DEF Mapped
<1>4. ~ Ended
  BY <1>1 DEF Ended
<1>5. head \in Nat /\ head = Cardinality(Mapped) + 1
  BY <1>4 DEF VmInv, ListInv
<1>6. head \in Draw /\ head < MaxPages /\ head # Null
  <2>1. Cardinality(Mapped) + 2 <= MaxPages /\ Cardinality(Mapped) \in Nat
    BY <1>3, MappedFinite
  <2>2. MaxPages \in Nat
    BY VmConstants
  <2>3. QED
    BY <1>5, <2>1, <2>2 DEF Draw, Null
<1>7. next[head] = head + 1 /\ addr[head] \in Frame
  BY <1>4, <1>6 DEF VmInv, ListInv
<1>8. \A q \in Mapped : l3pt[q].frame # addr[head]
  BY <1>4, <1>6 DEF VmInv, ListInv, Draw
<1>9. addr[MappingNode(badvaddr)] = 0
  BY <1>3, <1>4 DEF VmInv, ListInv
<1>10. QED
  BY <1>3, <1>6, <1>7, <1>8, <1>9 DEF TakeNode

LEMMA TakeKeeps == ASSUME VmInv, TakeNode PROVE VmInv'
<1>1. PICK p, f : p = badvaddr /\ f = addr[head]
  OBVIOUS
<1>2. PICK node : node = MappingNode(p)
  OBVIOUS
<1>3. /\ at = "fault" /\ at' = "flush_new" /\ badvaddr' = p
      /\ UNCHANGED <<access, badvaddr, cause, tlb, mem, evicted>>
      /\ l3pt' = [l3pt EXCEPT ![p] = Pte(f, TRUE, TRUE)]
      /\ addr' = [addr EXCEPT ![node] = f]
      /\ next' = [next EXCEPT ![node] = head + 1]
  BY <1>1, <1>2, TakeFacts DEF TakeNode, trap
<1>4. /\ p \in UserPage /\ p \notin Mapped /\ f \in Frame
      /\ \A q \in Mapped : l3pt[q].frame # f
      /\ head \in Draw /\ head' = head + 1 /\ head \in Nat /\ addr[head] = f
  BY <1>1, TakeFacts, VmConstants DEF Draw
<1>5. /\ node \in Node /\ node \notin Draw
      /\ \A q \in UserPage : MappingNode(q) \in Node /\ (MappingNode(q) = node => q = p)
      /\ Draw \subseteq Node
  BY <1>2, <1>4, VmConstants
<1>6. /\ l3pt \in [UserPage -> PteShape] /\ addr \in [Node -> {0} \cup Frame]
      /\ next \in [Node -> Nat]
  BY DEF VmInv, VmShape
<1>7. PICK e : e = Pte(f, TRUE, TRUE)
  OBVIOUS
<1>8. e \in PteShape /\ e # NoPte /\ e.frame = f /\ e.a /\ e.d
  BY <1>4, <1>7 DEF PteShape, NoPte, Pte
<1>9. /\ l3pt' \in [UserPage -> PteShape] /\ l3pt'[p] = e
      /\ \A q \in UserPage : q # p => l3pt'[q] = l3pt[q]
  BY <1>3, <1>4, <1>6, <1>7, <1>8
<1>10. /\ addr' \in [Node -> {0} \cup Frame] /\ addr'[node] = f
       /\ \A n \in Node : n # node => addr'[n] = addr[n]
  BY <1>3, <1>4, <1>5, <1>6
<1>11. /\ next' \in [Node -> Nat]
       /\ \A n \in Draw : next'[n] = next[n]
  BY <1>3, <1>4, <1>5, <1>6
<1>12. Mapped' = Mapped \cup {p}
  BY <1>4, <1>8, <1>9 DEF Mapped
<1>13. \A q \in Mapped : q \in UserPage /\ q # p /\ l3pt'[q] = l3pt[q]
  BY <1>4, <1>9 DEF Mapped
<1>14. VmShape'
  BY <1>3, <1>9, <1>10, <1>11 DEF VmInv, VmShape, InFault
<1>15. FaultInv'
  BY <1>3, <1>8, <1>9 DEF VmInv, FaultInv, InFault, Ended
<1>16. ListInv'
  <2>1. /\ ~ Ended /\ ~ Ended'
    BY <1>3 DEF Ended
  <2>2. \A n \in Draw : addr'[n] = addr[n]
    BY <1>5, <1>10
  <2>3. head' \in Nat /\ head' = Cardinality(Mapped') + 1
    <3>1. Cardinality(Mapped \cup {p}) = Cardinality(Mapped) + 1 /\ Cardinality(Mapped) \in Nat
      BY <1>4, MappedFinite
    <3>2. head = Cardinality(Mapped) + 1
      BY <2>1 DEF VmInv, ListInv
    <3>3. QED
      BY <1>4, <1>12, <3>1, <3>2
  <2>4. \A n \in Draw : n < MaxPages => next'[n] = n + 1
    BY <1>11, <2>1 DEF VmInv, ListInv
  <2>5. ASSUME NEW q \in Mapped', NEW n \in Draw, l3pt'[q].frame = addr'[n]
        PROVE  n < head'
    <3>1. n \in Nat
      BY DEF Draw
    <3>2. CASE q = p
      <4>1. addr[n] = addr[head]
        BY <1>4, <1>8, <1>9, <2>2, <2>5, <3>2
      <4>2. n = head
        BY <1>4, <4>1 DEF VmInv, ListInv
      <4>3. QED
        BY <1>4, <4>2
    <3>3. CASE q # p
      <4>1. q \in Mapped /\ l3pt[q].frame = addr[n]
        BY <1>12, <1>13, <2>2, <2>5, <3>3
      <4>2. n < head
        BY <2>1, <4>1 DEF VmInv, ListInv
      <4>3. QED
        BY <1>4, <3>1, <4>2
    <3>4. QED
      BY <3>2, <3>3
  <2>6. ASSUME NEW q \in UserPage
        PROVE  addr'[MappingNode(q)] = IF q \in Mapped' THEN l3pt'[q].frame ELSE 0
    <3>1. CASE q = p
      BY <1>2, <1>8, <1>9, <1>10, <1>12, <3>1
    <3>2. CASE q # p
      <4>1. addr'[MappingNode(q)] = addr[MappingNode(q)]
        BY <1>5, <1>10, <3>2
      <4>2. addr[MappingNode(q)] = IF q \in Mapped THEN l3pt[q].frame ELSE 0
        BY <2>1 DEF VmInv, ListInv
      <4>3. QED
        BY <1>9, <1>12, <3>2, <4>1, <4>2
    <3>3. QED
      BY <3>1, <3>2
  <2>7. /\ \A n \in Draw : addr'[n] \in Frame
        /\ \A m, n \in Draw : addr'[m] = addr'[n] => m = n
    BY <2>2 DEF VmInv, ListInv
  <2>8. \A q \in UserPage :
          (addr[MappingNode(q)])' = IF q \in Mapped' THEN l3pt'[q].frame ELSE 0
    BY <2>6 DEF MappingNode
  <2>9. QED
    BY <2>1, <2>3, <2>4, <2>5, <2>7, <2>8 DEF ListInv
<1>17. EntryInv'
  <2>1. \A q \in Mapped' :
          l3pt'[q].frame \in Frame /\ (l3pt'[q].d => l3pt'[q].a)
    BY <1>4, <1>8, <1>9, <1>12, <1>13 DEF VmInv, EntryInv
  <2>2. \A q, r \in Mapped' : l3pt'[q].frame = l3pt'[r].frame => q = r
    BY <1>4, <1>8, <1>9, <1>12, <1>13 DEF VmInv, EntryInv
  <2>3. \A q \in Mapped' : ~ l3pt'[q].a => access' # <<>> /\ access'[1] = q
    BY <1>3, <1>8, <1>9, <1>12, <1>13 DEF VmInv, EntryInv
  <2>4. \A q \in UserPage : Stale(q)' \/ tlb'[q] = <<>> \/ tlb'[q] = <<l3pt'[q]>>
    BY <1>3, <1>9 DEF VmInv, EntryInv, Stale
  <2>5. QED
    BY <2>1, <2>2, <2>3, <2>4 DEF EntryInv
<1>18. CopyInv'
  <2>1. ASSUME NEW q \in Mapped', ~ Busy(q)', ~ l3pt'[q].d
        PROVE  mem[l3pt'[q].frame] = mem[Home(q)]
    <3>1. q \in Mapped /\ ~ l3pt[q].d
      BY <1>8, <1>9, <1>12, <1>13, <2>1
    <3>2. ~ Busy(q)
      BY <1>3 DEF Busy
    <3>3. QED
      BY <1>13, <3>1, <3>2 DEF VmInv, CopyInv
  <2>2. QED
    BY <1>3, <2>1 DEF CopyInv, Home
<1>19. QED
  BY <1>14, <1>15, <1>16, <1>17, <1>18 DEF VmInv

LEMMA FlushKeeps == ASSUME VmInv, FlushNew \/ FlushAndReturn PROVE VmInv'
<1>1. PICK p : p = badvaddr
  OBVIOUS
<1>2. /\ (at = "flush_new" /\ at' = "copy") \/ (at = "flush" /\ at' = "user")
      /\ badvaddr' = p /\ badvaddr = p
      /\ tlb' = [tlb EXCEPT ![p] = <<>>]
      /\ UNCHANGED <<access, badvaddr, cause, l3pt, addr, next, head, mem, evicted>>
  BY <1>1 DEF FlushNew, FlushAndReturn, FlushPage, trap, list
<1>3. p \in UserPage
  <2>1. access \in Touched \X Op /\ p = access[1]
    BY <1>2 DEF VmInv, VmShape, FaultInv, InFault
  <2>2. QED
    BY <2>1, VmConstants
<1>4. /\ tlb' \in [UserPage -> {<<>>} \cup {<<e>> : e \in PteShape}]
      /\ tlb'[p] = <<>> /\ \A q \in UserPage : q # p => tlb'[q] = tlb[q]
  BY <1>2, <1>3 DEF VmInv, VmShape
<1>5. Mapped' = Mapped
  BY <1>2 DEF Mapped
<1>6. VmShape'
  BY <1>2, <1>4 DEF VmInv, VmShape, InFault
<1>7. FaultInv'
  BY <1>2 DEF VmInv, FaultInv, InFault, Ended
<1>8. ListInv'
  <2>1. ~ Ended /\ ~ Ended'
    BY <1>2 DEF Ended
  <2>2. QED
    BY <1>2, <1>5, <2>1 DEF VmInv, ListInv
<1>9. EntryInv'
  <2>1. \A q \in UserPage : tlb'[q] = <<>> \/ tlb'[q] = <<l3pt'[q]>>
    BY <1>2, <1>4 DEF VmInv, EntryInv, Stale
  <2>2. QED
    BY <1>2, <1>5, <2>1 DEF VmInv, EntryInv
<1>10. CopyInv'
  <2>1. \A q \in Mapped : Busy(q) => Busy(q)'
    BY <1>2, <1>3, MappedEntry DEF VmInv, FaultInv, Busy
  <2>2. QED
    BY <1>2, <1>5, <2>1 DEF VmInv, CopyInv, Home
<1>11. QED
  BY <1>6, <1>7, <1>8, <1>9, <1>10 DEF VmInv

\* The copy of a page goes to its frame, and leaves the entry without its bits.
LEMMA CopyFacts ==
  ASSUME VmInv, CopyIn
  PROVE  /\ badvaddr \in Mapped /\ access # <<>> /\ access[1] = badvaddr /\ at' = "flush"
         /\ Translation(badvaddr) = l3pt[badvaddr]
         /\ mem' = [mem EXCEPT ![l3pt[badvaddr].frame] = mem[Home(badvaddr)]]
         /\ l3pt' = [l3pt EXCEPT ![badvaddr] = Pte(l3pt[badvaddr].frame, FALSE, FALSE)]
         /\ UNCHANGED <<access, trap, tlb, list, seen, evicted>>
<1>1. at = "copy"
  BY DEF CopyIn
<1>2. access # <<>> /\ badvaddr = access[1] /\ access \in Touched \X Op
  BY <1>1 DEF VmInv, FaultInv, VmShape, InFault
<1>3. badvaddr \in UserPage /\ ~ Stale(badvaddr)
  BY <1>1, <1>2, VmConstants DEF Stale
<1>4. l3pt[badvaddr].a /\ l3pt[badvaddr].d
  BY <1>1 DEF VmInv, FaultInv
<1>5. badvaddr \in Mapped
  BY <1>3, <1>4, MappedEntry DEF VmInv
<1>6. ~ Faults(badvaddr, "store")
  BY <1>3, <1>4, <1>5, FaultsTell DEF Faulting, Mapped
<1>7. Translation(badvaddr) = l3pt[badvaddr]
  BY <1>3, Current
<1>8. addr[MappingNode(badvaddr)] = l3pt[badvaddr].frame
  BY <1>1, <1>3, <1>5 DEF VmInv, ListInv, Ended
<1>9. QED
  BY <1>2, <1>5, <1>6, <1>7, <1>8 DEF CopyIn, Copied

LEMMA CopyKeeps == ASSUME VmInv, CopyIn PROVE VmInv'
<1>1. PICK p, f : p = badvaddr /\ f = l3pt[badvaddr].frame
  OBVIOUS
<1>2. /\ p \in Mapped /\ at = "copy" /\ at' = "flush" /\ badvaddr = p /\ badvaddr' = p
      /\ access # <<>> /\ access[1] = p
      /\ mem' = [mem EXCEPT ![f] = mem[Home(p)]]
      /\ l3pt' = [l3pt EXCEPT ![p] = Pte(f, FALSE, FALSE)]
      /\ UNCHANGED <<access, badvaddr, cause, tlb, addr, next, head, tail, evicted>>
  BY <1>1, CopyFacts DEF CopyIn, trap, list
<1>3. /\ p \in UserPage /\ l3pt[p].frame = f /\ f \in Frame /\ f \in Physical /\ f # 0
      /\ Home(p) \in Physical /\ Home(p) # f
      /\ l3pt \in [UserPage -> PteShape] /\ mem \in [Physical -> Nat]
  <2>1. p \in UserPage /\ l3pt[p].frame = f /\ f \in Frame
    BY <1>1, <1>2 DEF VmInv, EntryInv, Mapped
  <2>2. f \in Physical /\ f # 0 /\ Home(p) \in Physical /\ Home(p) # f
    BY <2>1, VmConstants
  <2>3. QED
    BY <2>1, <2>2 DEF VmInv, VmShape
<1>4. PICK e : e = Pte(f, FALSE, FALSE)
  OBVIOUS
<1>5. e \in PteShape /\ e # NoPte /\ e.frame = f /\ ~ e.a /\ ~ e.d
  BY <1>3, <1>4 DEF PteShape, NoPte, Pte
<1>6. /\ l3pt' \in [UserPage -> PteShape] /\ l3pt'[p] = e
      /\ \A q \in UserPage : q # p => l3pt'[q] = l3pt[q]
      /\ \A q \in UserPage : l3pt'[q].frame = l3pt[q].frame
  BY <1>2, <1>3, <1>4, <1>5
<1>7. /\ mem' \in [Physical -> Nat] /\ mem'[f] = mem[Home(p)]
      /\ \A g \in Physical : g # f => mem'[g] = mem[g]
  BY <1>2, <1>3
<1>8. Mapped' = Mapped
  BY <1>2, <1>5, <1>6 DEF Mapped
<1>9. VmShape'
  BY <1>2, <1>6, <1>7 DEF VmInv, VmShape, InFault
<1>10. FaultInv'
  BY <1>2 DEF VmInv, FaultInv, InFault, Ended
<1>11. ListInv'
  <2>1. ~ Ended /\ ~ Ended'
    BY <1>2 DEF Ended
  <2>2. \A q \in Mapped : q \in UserPage
    BY DEF Mapped
  <2>3. UNCHANGED <<addr, next, head>> /\ \A q \in UserPage : l3pt'[q].frame = l3pt[q].frame
    BY <1>2, <1>6
  <2>4. QED
    BY <1>8, <2>1, <2>2, <2>3 DEF VmInv, ListInv, MappingNode
<1>12. EntryInv'
  <2>1. \A q \in Mapped' :
          l3pt'[q].frame \in Frame /\ (l3pt'[q].d => l3pt'[q].a)
    BY <1>3, <1>5, <1>6, <1>8 DEF VmInv, EntryInv, Mapped
  <2>2. \A q, r \in Mapped' : l3pt'[q].frame = l3pt'[r].frame => q = r
    BY <1>6, <1>8 DEF VmInv, EntryInv, Mapped
  <2>3. \A q \in Mapped' : ~ l3pt'[q].a => access' # <<>> /\ access'[1] = q
    BY <1>2, <1>6, <1>8 DEF VmInv, EntryInv, Mapped
  <2>4. \A q \in UserPage : Stale(q)' \/ tlb'[q] = <<>> \/ tlb'[q] = <<l3pt'[q]>>
    BY <1>2, <1>6 DEF VmInv, EntryInv, Stale
  <2>5. QED
    BY <2>1, <2>2, <2>3, <2>4 DEF EntryInv
<1>13. CopyInv'
  <2>1. ASSUME NEW q \in Mapped, ~ l3pt'[q].d PROVE mem'[l3pt'[q].frame] = mem'[Home(q)]
    <3>1. CASE q = p
      BY <1>3, <1>6, <1>7, <3>1
    <3>2. CASE q # p
      <4>1. q \in UserPage /\ ~ l3pt[q].d /\ ~ Busy(q)
        BY <1>2, <1>6, <2>1, <3>2 DEF Mapped, Busy
      <4>2. mem[l3pt[q].frame] = mem[Home(q)]
        BY <4>1 DEF VmInv, CopyInv
      <4>3. l3pt[q].frame # f /\ l3pt[q].frame \in Physical
        BY <1>2, <1>3, <3>2, VmConstants DEF VmInv, EntryInv
      <4>4. Home(q) # f /\ Home(q) \in Physical
        BY <1>3, <4>1, VmConstants
      <4>5. QED
        BY <1>6, <1>7, <4>1, <4>2, <4>3, <4>4
    <3>3. QED
      BY <3>1, <3>2
  <2>2. QED
    BY <1>8, <2>1 DEF CopyInv, Home
<1>14. QED
  BY <1>9, <1>10, <1>11, <1>12, <1>13 DEF VmInv

\* At the end a page with a node is mapped and marked as what was done to it,
\* so that no assertion of evict fails.
LEMMA EvictFacts ==
  ASSUME VmInv, Evict
  PROVE  /\ evicted + 1 \in UserPage /\ evicted' = evicted + 1 /\ at' = at
         /\ UNCHANGED <<access, trap, l3pt, tlb, seen>>
         /\ \/ UNCHANGED <<list, mem>>
            \/ /\ evicted + 1 \in Mapped
               /\ FreeNode(MappingNode(evicted + 1))
               /\ \/ mem' = mem
                  \/ mem' = [mem EXCEPT ![l3pt[evicted + 1].frame] = mem[Home(evicted + 1)]]
<1>1. PICK p : p = evicted + 1
  OBVIOUS
<1>2. at = "evict" /\ evicted < MaxPages - 1 /\ evicted \in Nat
  BY DEF Evict, VmInv, VmShape
<1>3. p \in UserPage /\ p > evicted
  BY <1>1, <1>2, VmConstants DEF UserPage
<1>4. CASE addr[MappingNode(p)] = 0
  BY <1>1, <1>3, <1>4 DEF Evict
<1>5. CASE addr[MappingNode(p)] # 0
  <2>1. p \in Mapped /\ access = <<>>
    BY <1>2, <1>3, <1>5 DEF VmInv, ListInv, FaultInv, Ended
  <2>2. l3pt[p].a /\ (~ l3pt[p].d => mem[l3pt[p].frame] = mem[Home(p)])
    BY <1>2, <2>1 DEF VmInv, EntryInv, CopyInv, Busy
  <2>3. ~ Stale(p)
    BY <1>2 DEF Stale
  <2>4. Translation(p) = l3pt[p]
    BY <1>3, <2>3, Current
  <2>5. ~ Faults(p, "load") /\ (l3pt[p].d => ~ Faults(p, "store"))
    BY <1>3, <2>1, <2>2, <2>3, FaultsTell DEF Faulting, Mapped
  <2>6. QED
    BY <1>1, <1>3, <1>5, <2>1, <2>2, <2>4, <2>5 DEF Evict, Copied
<1>6. QED
  BY <1>4, <1>5

LEMMA EvictKeeps == ASSUME VmInv, Evict PROVE VmInv'
<1>1. PICK p, f : p = evicted + 1 /\ f = l3pt[p].frame
  OBVIOUS
<1>2. /\ p \in UserPage /\ evicted' = p /\ at = "evict" /\ at' = "evict"
      /\ UNCHANGED <<access, badvaddr, cause, l3pt, tlb>>
      /\ \/ UNCHANGED <<list, mem>>
         \/ /\ p \in Mapped /\ FreeNode(MappingNode(p))
            /\ mem' = mem \/ mem' = [mem EXCEPT ![f] = mem[Home(p)]]
  BY <1>1, EvictFacts DEF Evict, trap
<1>3. /\ MappingNode(p) \in Node /\ MappingNode(p) \notin Draw /\ p \in Nat
      /\ MappingNode(p) \in Nat /\ Draw \subseteq Node /\ evicted \in Nat /\ p > evicted
      /\ UserPage \subseteq Nat
  BY <1>1, <1>2, VmConstants DEF UserPage, Node, VmInv, VmShape
<1>4. /\ addr \in [Node -> {0} \cup Frame] /\ next \in [Node -> Nat]
      /\ mem \in [Physical -> Nat]
  BY DEF VmInv, VmShape
<1>5. /\ addr' = addr \/ addr' = [addr EXCEPT ![MappingNode(p)] = 0]
      /\ next' = next \/ next' = [next EXCEPT ![tail] = MappingNode(p)]
  BY <1>2 DEF FreeNode, list
<1>6. /\ addr' \in [Node -> {0} \cup Frame] /\ next' \in [Node -> Nat]
      /\ \A n \in Draw : addr'[n] = addr[n]
      /\ \A n \in Node : addr'[n] # 0 => addr[n] # 0
  BY <1>3, <1>4, <1>5
<1>7. /\ mem' \in [Physical -> Nat]
      /\ mem' = mem \/ (p \in Mapped /\ mem' = [mem EXCEPT ![f] = mem[Home(p)]])
  BY <1>2, <1>4, VmConstants
<1>8. Mapped' = Mapped
  BY <1>2 DEF Mapped
<1>9. VmShape'
  BY <1>2, <1>3, <1>6, <1>7 DEF VmInv, VmShape, InFault, Ended
<1>10. FaultInv'
  BY <1>2 DEF VmInv, FaultInv, InFault, Ended
<1>11. ListInv'
  <2>1. /\ \A n \in Draw : addr'[n] \in Frame
        /\ \A m, n \in Draw : addr'[m] = addr'[n] => m = n
    BY <1>6 DEF VmInv, ListInv
  <2>2. ASSUME NEW q \in UserPage, q > p, addr'[MappingNode(q)] # 0 PROVE q \in Mapped
    <3>1. addr[MappingNode(q)] # 0
      BY <1>6, <2>2, VmConstants
    <3>2. q > evicted
      BY <1>1, <1>3, <2>2
    <3>3. QED
      BY <1>2, <3>1, <3>2 DEF VmInv, ListInv, Ended
  <2>3. Ended'
    BY <1>2 DEF Ended
  <2>4. QED
    BY <1>2, <1>8, <2>1, <2>2, <2>3 DEF ListInv, MappingNode
<1>12. EntryInv'
  BY <1>2, <1>8 DEF VmInv, EntryInv, Stale
<1>13. CopyInv'
  <2>1. ASSUME NEW q \in Mapped, ~ l3pt[q].d PROVE mem'[l3pt[q].frame] = mem'[Home(q)]
    <3>1. mem[l3pt[q].frame] = mem[Home(q)]
      BY <1>2, <2>1 DEF VmInv, CopyInv, Busy
    <3>2. /\ q \in UserPage /\ l3pt[q].frame \in Frame /\ l3pt[q].frame \in Physical
          /\ Home(q) \in Physical /\ Home(q) \notin Frame
      BY <2>1, VmConstants DEF VmInv, EntryInv, Mapped
    <3>3. p \in Mapped => f \in Frame /\ f \in Physical /\ (l3pt[q].frame = f => p = q)
      BY <1>1, <2>1, VmConstants DEF VmInv, EntryInv
    <3>4. QED
      BY <1>4, <1>7, <3>1, <3>2, <3>3
  <2>2. QED
    BY <1>2, <1>8, <2>1 DEF CopyInv, Home
<1>14. QED
  BY <1>9, <1>10, <1>11, <1>12, <1>13 DEF VmInv

LEMMA BootHolds == ASSUME VmBoot PROVE VmInv
<1>1. PICK entropy \in 1 .. MaxPages :
        addr = [n \in Node |-> IF n <= MaxPages THEN Frames(entropy)[n] ELSE 0]
  BY DEF VmBoot
<1>2. PICK f : f = Frames(entropy)
  OBVIOUS
<1>3. /\ \A n \in Draw : f[n] \in Frame
      /\ \A m, n \in Draw : f[m] = f[n] => m = n
  BY <1>2, PeriodAssumption DEF FramesDiffer, Draw, Frame
<1>4. /\ at = "user" /\ access = <<>> /\ evicted = 0 /\ head = 1
      /\ l3pt = [p \in UserPage |-> NoPte] /\ tlb = [p \in UserPage |-> <<>>]
      /\ addr = [n \in Node |-> IF n <= MaxPages THEN f[n] ELSE 0]
      /\ next = [n \in Node |-> IF n < MaxPages THEN n + 1 ELSE Null]
      /\ mem = [g \in Physical |-> IF g < MaxPages THEN Text(g) ELSE Junk]
  BY <1>1, <1>2 DEF VmBoot
<1>5. MaxPages \in Nat /\ MaxPages >= 1 /\ Draw \subseteq Node
  BY VmConstants
<1>6. /\ \A n \in Draw : n \in Nat /\ n <= MaxPages
      /\ \A n \in Node : n \in Nat /\ (n <= MaxPages => n \in Draw)
      /\ \A n \in Physical : n \in Nat
      /\ \A p \in UserPage : MappingNode(p) > MaxPages /\ MappingNode(p) \in Node
  BY <1>5 DEF Draw, Node, Physical, UserPage, MappingNode
<1>7. /\ addr \in [Node -> {0} \cup Frame]
      /\ \A n \in Draw : addr[n] = f[n]
      /\ \A p \in UserPage : addr[MappingNode(p)] = 0
  BY <1>3, <1>4, <1>5, <1>6
<1>8. next \in [Node -> Nat] /\ \A n \in Draw : n < MaxPages => next[n] = n + 1
  BY <1>4, <1>5, <1>6 DEF Null
<1>9. Mapped = {}
  BY <1>4 DEF Mapped
<1>10. VmShape
  <2>1. mem \in [Physical -> Nat]
    BY <1>4, <1>6 DEF Text, Junk
  <2>2. l3pt \in [UserPage -> PteShape]
    BY <1>4, VmConstants
  <2>3. QED
    BY <1>4, <1>7, <1>8, <2>1, <2>2 DEF VmShape
<1>11. FaultInv
  BY <1>4 DEF FaultInv, InFault, Ended
<1>12. ListInv
  <2>1. Cardinality(Mapped) = 0
    BY <1>9, FS_EmptySet
  <2>2. /\ \A n \in Draw : addr[n] \in Frame
        /\ \A m, n \in Draw : addr[m] = addr[n] => m = n
    BY <1>3, <1>7
  <2>3. ~ Ended /\ head \in Nat /\ head = Cardinality(Mapped) + 1
    BY <1>4, <2>1 DEF Ended
  <2>4. QED
    BY <1>7, <1>8, <1>9, <2>2, <2>3 DEF ListInv
<1>13. EntryInv
  BY <1>4, <1>9 DEF EntryInv
<1>14. CopyInv
  BY <1>9 DEF CopyInv
<1>15. QED
  BY <1>10, <1>11, <1>12, <1>13, <1>14 DEF VmInv

-----------------------------------------------------------------------------
(* The theorems                                                               *)

LEMMA VmStep == ASSUME VmInv, [VmNext]_vmVars PROVE VmInv'
<1>1. CASE UNCHANGED vmVars
  BY <1>1 DEF vmVars, trap, list, VmInv, VmShape, FaultInv, ListInv, EntryInv, CopyInv,
     InFault, Ended, Mapped, Busy, Stale, Faulting
<1>2. CASE VmNext
  BY <1>2, TlbKeeps, AccessKeeps, AccessDoneKeeps, MarkKeeps, TakeKeeps, FlushKeeps,
     CopyKeeps, EvictKeeps DEF VmNext, Supervisor
<1>3. QED
  BY <1>1, <1>2

\* The inductive invariant of the supervisor: the nodes in front of the head of
\* the free list are those of the mapped pages, no two pages have one frame,
\* an entry that the TLB keeps is current but for the page about to be flushed,
\* and a page that is not dirty is in its frame what it is at home.
THEOREM VmInvariance == VmSpec => []VmInv
<1>1. VmInv /\ [VmNext]_vmVars => VmInv'
  BY VmStep
<1>2. VmBoot => VmInv
  BY BootHolds
<1>3. QED
  BY <1>1, <1>2, PTL DEF VmSpec

\* No assertion of handle_fault or evict fails, whatever the pages touched and
\* whenever the TLB fills and loses its entries.
THEOREM VmAssertions == VmSpec => []AssertionsHold
<1>1. VmInv => AssertionsHold
  BY DEF VmInv, VmShape, InFault, Ended, AssertionsHold
<1>2. QED
  BY <1>1, VmInvariance, PTL

-----------------------------------------------------------------------------
(* The refinement of the flat memory                                          *)

\* Where a page lies: in its frame once it was copied there.
LEMMA ContentsAre ==
  ASSUME NEW p \in UserPage
  PROVE  Contents(p) = IF p \in Mapped /\ ~ Busy(p) THEN mem[l3pt[p].frame]
                       ELSE mem[Home(p)]
BY DEF Contents, Mapped, Busy

\* A page whose place is left alone by the step, and what lies there too.
LEMMA ContentsStay ==
  ASSUME NEW p \in UserPage, Mapped' = Mapped,
         p \in Mapped => (Busy(p) <=> Busy(p)') /\ l3pt'[p].frame = l3pt[p].frame,
         mem' = mem
  PROVE  Contents(p)' = Contents(p)
<1>1. Contents(p)' = IF p \in Mapped' /\ ~ Busy(p)' THEN mem'[l3pt'[p].frame]
                     ELSE mem'[Home(p)]
  BY DEF Contents, Mapped, Busy, Home
<1>2. QED
  BY <1>1, ContentsAre

\* The steps of the supervisor leave every page what it was.
LEMMA SupervisorStays ==
  ASSUME VmInv, MarkPage \/ TakeNode \/ FlushNew \/ CopyIn \/ FlushAndReturn,
         NEW p \in UserPage
  PROVE  Contents(p)' = Contents(p)
<1>1. CASE MarkPage
  <2>1. at = "fault" /\ at' = "flush" /\ mem' = mem
    BY <1>1, MarkFacts DEF MarkPage
  <2>2. /\ badvaddr \in Mapped /\ badvaddr \in UserPage
        /\ l3pt' = [l3pt EXCEPT ![badvaddr] = Marked(l3pt[badvaddr])]
    BY <1>1, MarkFacts DEF Mapped
  <2>3. l3pt[badvaddr] \in PteShape /\ l3pt[badvaddr].frame \in Frame
    BY <2>2 DEF VmInv, VmShape, EntryInv
  <2>4. /\ Marked(l3pt[badvaddr]).frame = l3pt[badvaddr].frame
        /\ Marked(l3pt[badvaddr]) # NoPte
    <3>1. Marked(l3pt[badvaddr]).frame = l3pt[badvaddr].frame
      BY <2>3 DEF Marked, PteShape
    <3>2. QED
      BY <2>3, <3>1, VmConstants DEF NoPte, Pte
  <2>5. \A q \in UserPage : l3pt'[q].frame = l3pt[q].frame
                            /\ (l3pt'[q] # NoPte <=> l3pt[q] # NoPte)
    BY <2>2, <2>4 DEF VmInv, VmShape, Mapped
  <2>6. Mapped' = Mapped
    BY <2>5 DEF Mapped
  <2>7. QED
    BY <2>1, <2>5, <2>6, ContentsStay DEF Busy
<1>2. CASE TakeNode
  <2>1. /\ at = "fault" /\ at' = "flush_new" /\ mem' = mem /\ badvaddr' = badvaddr
        /\ badvaddr \in UserPage /\ badvaddr \notin Mapped
        /\ l3pt' = [l3pt EXCEPT ![badvaddr] = Pte(addr[head], TRUE, TRUE)]
    BY <1>2, TakeFacts DEF TakeNode, trap
  <2>2. CASE p = badvaddr
    <3>1. Contents(p) = mem[Home(p)]
      BY <2>1, <2>2, ContentsAre
    <3>2. Contents(p)' = mem'[Home(p)]
      BY <2>1, <2>2 DEF Contents, Home
    <3>3. QED
      BY <2>1, <3>1, <3>2
  <2>3. CASE p # badvaddr
    <3>1. l3pt'[p] = l3pt[p]
      BY <2>1, <2>3 DEF VmInv, VmShape
    <3>2. QED
      BY <2>1, <2>3, <3>1 DEF Contents, Home
  <2>4. QED
    BY <2>2, <2>3
<1>3. CASE FlushNew \/ FlushAndReturn
  BY <1>3 DEF FlushNew, FlushAndReturn, trap, Contents, Home
<1>4. CASE CopyIn
  <2>1. /\ at = "copy" /\ at' = "flush" /\ badvaddr \in Mapped /\ badvaddr \in UserPage
        /\ mem' = [mem EXCEPT ![l3pt[badvaddr].frame] = mem[Home(badvaddr)]]
        /\ l3pt' = [l3pt EXCEPT ![badvaddr] = Pte(l3pt[badvaddr].frame, FALSE, FALSE)]
    BY <1>4, CopyFacts DEF CopyIn, Mapped
  <2>2. /\ l3pt[badvaddr].frame \in Frame /\ l3pt[badvaddr].frame \in Physical
        /\ l3pt[badvaddr].frame # 0
        /\ l3pt \in [UserPage -> PteShape] /\ mem \in [Physical -> Nat]
    <3>1. l3pt[badvaddr].frame \in Frame
      BY <2>1 DEF VmInv, EntryInv
    <3>2. QED
      BY <3>1, VmConstants DEF VmInv, VmShape
  <2>3. CASE p = badvaddr
    <3>1. Contents(p) = mem[Home(p)]
      BY <2>1, <2>3 DEF Contents
    <3>2. l3pt'[p] = Pte(l3pt[p].frame, FALSE, FALSE)
      BY <2>1, <2>2, <2>3
    <3>3. l3pt'[p] # NoPte /\ l3pt'[p].frame = l3pt[p].frame
      BY <2>2, <2>3, <3>2 DEF NoPte, Pte
    <3>4. Contents(p)' = mem'[l3pt[p].frame]
      BY <2>1, <3>3 DEF Contents
    <3>5. QED
      BY <2>1, <2>2, <2>3, <3>1, <3>4
  <2>4. CASE p # badvaddr
    <3>1. l3pt'[p] = l3pt[p]
      BY <2>1, <2>2, <2>4
    <3>2. mem'[Home(p)] = mem[Home(p)]
      BY <2>1, <2>2, VmConstants
    <3>3. p \in Mapped => mem'[l3pt[p].frame] = mem[l3pt[p].frame]
      <4>1. ASSUME p \in Mapped
            PROVE  l3pt[p].frame # l3pt[badvaddr].frame /\ l3pt[p].frame \in Physical
        BY <2>1, <2>4, <4>1, VmConstants DEF VmInv, EntryInv
      <4>2. QED
        BY <2>1, <2>2, <4>1
    <3>4. QED
      BY <2>1, <2>4, <3>1, <3>2, <3>3 DEF Contents, Home, Mapped
  <2>5. QED
    BY <2>3, <2>4
<1>5. QED
  BY <1>1, <1>2, <1>3, <1>4

\* A step at which the contents stay leaves the data of the flat memory.
LEMMA DataStay ==
  ASSUME \A p \in UserPage : Contents(p)' = Contents(p)
  PROVE  UNCHANGED [p \in Touched |-> Contents(p)]
<1>1. \A p \in Touched : Contents(p)' = Contents(p)
  BY VmConstants
<1>2. QED
  BY <1>1

\* A load sees what the page holds, a store leaves the other pages alone.
LEMMA AccessIsFlat ==
  ASSUME VmInv, AccessDone PROVE Flat!Load \/ Flat!Store
<1>1. PICK p, op : access = <<p, op>> /\ p \in Touched /\ op \in Op
  BY AccessFacts
<1>2. PICK f : f = l3pt[p].frame
  OBVIOUS
<1>3. /\ at = "user" /\ at' = "user" /\ access' = <<>> /\ l3pt' = l3pt
      /\ p \in UserPage /\ p \in Mapped
      /\ \/ op = "store" /\ mem' = [mem EXCEPT ![f] = Written(p)] /\ seen' = seen
         \/ op = "load" /\ seen' = <<p, mem[f]>> /\ mem' = mem
  BY <1>1, <1>2, AccessFacts DEF AccessDone, Mapped, Op
<1>4. f \in Frame /\ f \in Physical /\ mem \in [Physical -> Nat]
  BY <1>2, <1>3, VmConstants DEF VmInv, VmShape, EntryInv
<1>5. UNCHANGED (at \notin {"evict", "done", "failed"})
  BY <1>3
<1>6. CASE op = "load"
  <2>1. \A q \in UserPage : Contents(q)' = Contents(q)
    BY <1>3, <1>6 DEF Contents, Home
  <2>2. Contents(p) = mem[f]
    BY <1>2, <1>3, ContentsAre DEF Busy
  <2>3. seen' = <<p, [q \in Touched |-> Contents(q)][p]>>
    BY <1>1, <1>3, <1>6, <2>2
  <2>4. UNCHANGED [q \in Touched |-> Contents(q)]
    BY <2>1, DataStay
  <2>5. QED
    BY <1>1, <1>3, <1>5, <1>6, <2>3, <2>4 DEF Flat!Load
<1>7. CASE op = "store"
  <2>1. ASSUME NEW q \in UserPage
        PROVE  Contents(q)' = IF q = p THEN Written(p) ELSE Contents(q)
    <3>1. /\ mem'[f] = Written(p) /\ \A g \in Physical : g # f => mem'[g] = mem[g]
          /\ l3pt' = l3pt
      BY <1>3, <1>4, <1>7
    <3>2. Contents(q)' = IF q \in Mapped THEN mem'[l3pt[q].frame] ELSE mem'[Home(q)]
      BY <1>3, <3>1 DEF Contents, Mapped, Home
    <3>3. Contents(q) = IF q \in Mapped THEN mem[l3pt[q].frame] ELSE mem[Home(q)]
      BY <1>3 DEF Contents, Mapped
    <3>4. Home(q) \in Physical /\ Home(q) # f
      BY <1>4, VmConstants
    <3>5. q \in Mapped => l3pt[q].frame \in Physical /\ (l3pt[q].frame = f => q = p)
      BY <1>2, <1>3, VmConstants DEF VmInv, EntryInv
    <3>6. QED
      BY <1>2, <1>3, <3>1, <3>2, <3>3, <3>4, <3>5
  <2>2. [q \in Touched |-> Contents(q)]' =
          [[q \in Touched |-> Contents(q)] EXCEPT ![p] = Written(p)]
    <3>1. \A q \in Touched : Contents(q)' = IF q = p THEN Written(p) ELSE Contents(q)
      BY <2>1, VmConstants
    <3>2. QED
      BY <1>1, <3>1
  <2>3. QED
    BY <1>1, <1>3, <1>5, <1>7, <2>2 DEF Flat!Store
<1>8. QED
  BY <1>1, <1>6, <1>7 DEF Op

LEMMA VmStepImplements ==
  ASSUME VmInv, VmNext
  PROVE  Flat!FlatNext \/ UNCHANGED Flat!flatVars
<1>1. CASE TlbFills \/ TlbEvicts
  <2>1. UNCHANGED <<at, access, badvaddr, l3pt, mem, seen>>
    BY <1>1 DEF TlbFills, TlbEvicts, trap
  <2>2. \A p \in UserPage : Contents(p)' = Contents(p)
    BY <2>1 DEF Contents, Home
  <2>3. UNCHANGED [p \in Touched |-> Contents(p)]
    BY <2>2, DataStay
  <2>4. UNCHANGED Flat!flatVars
    BY <2>1, <2>3 DEF Flat!flatVars
  <2>5. QED
    BY <2>4
<1>2. CASE UserAccesses \/ AccessFaults \/ UserEcall
  <2>1. at = "user" /\ at' \in {"user", "fault", "evict"} /\ UNCHANGED <<l3pt, mem, seen>>
    BY <1>2 DEF UserAccesses, AccessFaults, UserEcall
  <2>2. \A p \in UserPage : Contents(p)' = Contents(p)
    BY <2>1 DEF Contents, Home
  <2>3. UNCHANGED [p \in Touched |-> Contents(p)]
    BY <2>2, DataStay
  <2>4. CASE UserAccesses
    <3>1. at' = "user" /\ access = <<>> /\ \E p \in Touched, op \in {"load", "store"} : access' = <<p, op>>
      BY <2>1, <2>4 DEF UserAccesses, Op
    <3>2. Flat!Begin
      BY <2>1, <2>3, <3>1 DEF Flat!Begin
    <3>3. QED
      BY <3>2 DEF Flat!FlatNext
  <2>5. CASE AccessFaults
    <3>1. at' = "fault" /\ UNCHANGED access
      BY <2>5 DEF AccessFaults
    <3>2. UNCHANGED (at \notin {"evict", "done", "failed"})
      BY <2>1, <3>1
    <3>3. UNCHANGED Flat!flatVars
      BY <2>1, <2>3, <3>1, <3>2 DEF Flat!flatVars
    <3>4. QED
      BY <3>3
  <2>6. CASE UserEcall
    <3>1. access = <<>> /\ UNCHANGED access /\ at' = "evict"
      BY <2>6 DEF UserEcall
    <3>2. Flat!End
      BY <2>1, <2>3, <3>1 DEF Flat!End
    <3>3. QED
      BY <3>2 DEF Flat!FlatNext
  <2>7. QED
    BY <1>2, <2>4, <2>5, <2>6
<1>3. CASE AccessDone
  BY <1>3, AccessIsFlat DEF Flat!FlatNext
<1>4. CASE MarkPage \/ TakeNode \/ FlushNew \/ CopyIn \/ FlushAndReturn
  <2>1. \A p \in UserPage : Contents(p)' = Contents(p)
    BY <1>4, SupervisorStays
  <2>2. UNCHANGED [p \in Touched |-> Contents(p)]
    BY <2>1, DataStay
  <2>3. /\ UNCHANGED <<access, seen>>
        /\ at \in {"fault", "flush_new", "copy", "flush"}
        /\ at' \in {"flush_new", "copy", "flush", "user"}
    <3>1. CASE MarkPage
      BY <3>1, MarkFacts DEF MarkPage
    <3>2. CASE TakeNode
      BY <3>2, TakeFacts DEF TakeNode
    <3>3. CASE CopyIn
      BY <3>3, CopyFacts DEF CopyIn
    <3>4. CASE FlushNew \/ FlushAndReturn
      BY <3>4 DEF FlushNew, FlushAndReturn
    <3>5. QED
      BY <1>4, <3>1, <3>2, <3>3, <3>4
  <2>4. UNCHANGED (at \notin {"evict", "done", "failed"})
    BY <2>3
  <2>5. UNCHANGED Flat!flatVars
    BY <2>2, <2>3, <2>4 DEF Flat!flatVars
  <2>6. QED
    BY <2>5
<1>5. CASE Evict \/ Terminate
  <2>1. UNCHANGED <<access, seen>> /\ at = "evict" /\ at' \in {"evict", "done"}
    <3>1. CASE Evict
      BY <3>1, EvictFacts DEF Evict
    <3>2. CASE Terminate
      BY <3>2 DEF Terminate
    <3>3. QED
      BY <1>5, <3>1, <3>2
  <2>2. Flat!Ended
    BY <2>1 DEF Flat!Ended
  <2>3. QED
    BY <2>2 DEF Flat!FlatNext
<1>6. QED
  BY <1>1, <1>2, <1>3, <1>4, <1>5 DEF VmNext, Supervisor

\* Pages that move to frames at their first access, with their accessed and
\* dirty bits kept by traps and a TLB that may hold an old entry until it is
\* flushed, are to the program one flat memory.
THEOREM FlatImplementation == VmSpec => ImplementsFlatMemory
<1>1. VmBoot => Flat!FlatInit
  <2>1. ASSUME VmBoot PROVE [p \in Touched |-> Contents(p)] = [p \in Touched |-> Text(p)]
    <3>1. ASSUME NEW p \in Touched PROVE Contents(p) = Text(p)
      <4>1. p \in UserPage /\ p \in 1 .. (MaxPages - 1) /\ MaxPages \in Nat /\ Home(p) \in Physical
        BY VmConstants DEF UserPage
      <4>2. Contents(p) = mem[Home(p)]
        BY <2>1, <4>1 DEF VmBoot, Contents
      <4>3. mem[Home(p)] = Text(p)
        BY <2>1, <4>1 DEF VmBoot, Home
      <4>4. QED
        BY <4>2, <4>3
    <3>2. QED
      BY <3>1
  <2>2. QED
    BY <2>1 DEF VmBoot, Flat!FlatInit
<1>2. VmInv /\ [VmNext]_vmVars => [Flat!FlatNext]_(Flat!flatVars)
  <2>1. ASSUME UNCHANGED vmVars PROVE UNCHANGED Flat!flatVars
    <3>1. UNCHANGED <<at, access, badvaddr, l3pt, mem, seen>>
      BY <2>1 DEF vmVars, trap
    <3>2. \A p \in UserPage : Contents(p)' = Contents(p)
      BY <3>1 DEF Contents, Home
    <3>3. UNCHANGED [p \in Touched |-> Contents(p)]
      BY <3>2, DataStay
    <3>4. QED
      BY <3>1, <3>3 DEF Flat!flatVars
  <2>2. QED
    BY <2>1, VmStepImplements
<1>3. QED
  BY <1>1, <1>2, VmInvariance, PTL DEF VmSpec, ImplementsFlatMemory, Flat!FlatSpec

=============================================================================
