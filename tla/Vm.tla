--------------------------------- MODULE Vm ---------------------------------
(***************************************************************************)
(* The supervisor of the virtual-memory test environment                   *)
(* (micro-arch-tests/performance_tests/env/v/vm.c): it gives the pages of  *)
(* a user program frames in an order drawn from a shift register, copies   *)
(* each page at its first access, and keeps the accessed and dirty bits in *)
(* software, with a trap for each.                                         *)
(*                                                                         *)
(* The hart and its TLB are outside: the TLB may read and keep the entry   *)
(* of a page at any time and loses it at any time, so an entry that was    *)
(* changed and not yet flushed may be used stale.  The user program makes  *)
(* any accesses to its pages; one that faults is made again.               *)
(***************************************************************************)
EXTENDS Naturals

CONSTANTS
  Bits,    \* width of the shift register; 6 in the code
  Touched  \* the pages the user program accesses

\* MAX_TEST_PAGES, the period of the shift register
MaxPages == 2 ^ Bits - 1

ASSUME VmAssumption ==
  /\ Bits \in Nat \ {0, 1}
  /\ Touched \subseteq 1 .. (MaxPages - 1)

VARIABLES
  at,        \* what runs: the user program or a step of the supervisor
  access,    \* the access the user program makes: page and operation
  badvaddr,  \* the page of the trap
  cause,     \* its cause: the operation that faulted
  l3pt,      \* user_l3pt: a page's frame and its A and D bits
  tlb,       \* the entries the TLB has kept
  addr,      \* frame in each node, of freelist_nodes and then user_mapping
  next,      \* next in each node
  head,      \* freelist_head
  tail,      \* freelist_tail
  mem,       \* what each physical page holds
  seen,      \* history: the last page loaded and what was in it
  evicted    \* pages the loop over evict has passed

list == <<addr, next, head, tail>>
trap == <<badvaddr, cause>>
vmVars == <<at, access, trap, l3pt, tlb, list, mem, seen, evicted>>

UserPage == 1 .. (MaxPages - 1)
Op == {"load", "store"}    \* a fetch is treated as a load
Null == 0
Pte(frame, a, d) == [frame |-> frame, a |-> a, d |-> d]
NoPte == Pte(0, FALSE, FALSE)

MappingNode(p) == MaxPages + p   \* &user_mapping[p]
Node == 1 .. (MaxPages + MaxPages - 1)

\* Page p lies in physical page p until it is given a frame (uva2kva).
Home(p) == p
Physical == 1 .. (2 * MaxPages)
Text(p) == p             \* what the program was loaded with
Written(p) == MaxPages + p
Junk == 0

-----------------------------------------------------------------------------
(* vm_boot                                                                    *)

\* LFSR_NEXT
LfsrNext(x) == ((x + x \div 2) % 2) * 2 ^ (Bits - 1) + x \div 2

\* The frames of the free nodes in their order.
Frames(random) ==
  LET drawn[i \in 1 .. MaxPages] ==
        IF i = 1 THEN random ELSE LfsrNext(drawn[i - 1])
  IN [i \in 1 .. MaxPages |-> MaxPages + drawn[i]]

\* Every draw is a frame of its own: the period of LFSR_NEXT is MAX_TEST_PAGES.
FramesDiffer(random) ==
  LET f == Frames(random)
  IN \A i, j \in 1 .. MaxPages :
       f[i] \in (MaxPages + 1) .. (2 * MaxPages) /\ (f[i] = f[j] => i = j)

\* Its two taps give that period for some widths, the six bits of the code
\* among them.
ASSUME PeriodAssumption ==
  /\ MaxPages \in Nat \ {0}
  /\ \A entropy \in 1 .. MaxPages : FramesDiffer(entropy)

VmBoot ==
  /\ \E entropy \in 1 .. MaxPages :
       addr = [n \in Node |-> IF n <= MaxPages THEN Frames(entropy)[n] ELSE 0]
  /\ next = [n \in Node |-> IF n < MaxPages THEN n + 1 ELSE Null]
  /\ head = 1
  /\ tail = MaxPages
  /\ l3pt = [p \in UserPage |-> NoPte]
  /\ tlb = [p \in UserPage |-> <<>>]
  /\ mem = [f \in Physical |-> IF f < MaxPages THEN Text(f) ELSE Junk]
  /\ at = "user"
  /\ access = <<>>
  /\ badvaddr = 0 /\ cause = "none"
  /\ seen = <<>>
  /\ evicted = 0

-----------------------------------------------------------------------------
(* The hart                                                                   *)

\* The entry an access to page p goes by.
Translation(p) == IF tlb[p] # <<>> THEN tlb[p][1] ELSE l3pt[p]

Faults(p, op) ==
  LET pte == Translation(p)
  IN pte = NoPte \/ ~ pte.a \/ (op = "store" /\ ~ pte.d)

TlbFills ==
  /\ \E p \in Touched : tlb[p] = <<>> /\ tlb' = [tlb EXCEPT ![p] = <<l3pt[p]>>]
  /\ UNCHANGED <<at, access, trap, l3pt, list, mem, seen, evicted>>

TlbEvicts ==
  /\ \E p \in Touched : tlb[p] # <<>> /\ tlb' = [tlb EXCEPT ![p] = <<>>]
  /\ UNCHANGED <<at, access, trap, l3pt, list, mem, seen, evicted>>

UserAccesses ==
  /\ at = "user" /\ access = <<>>
  /\ \E p \in Touched, op \in Op : access' = <<p, op>>
  /\ UNCHANGED <<at, trap, l3pt, tlb, list, mem, seen, evicted>>

AccessDone ==
  /\ at = "user" /\ access # <<>>
  /\ ~ Faults(access[1], access[2])
  /\ LET p == access[1]
         frame == Translation(p).frame
     IN IF access[2] = "store"
        THEN mem' = [mem EXCEPT ![frame] = Written(p)] /\ UNCHANGED seen
        ELSE seen' = <<p, mem[frame]>> /\ UNCHANGED mem
  /\ access' = <<>>
  /\ UNCHANGED <<at, trap, l3pt, tlb, list, evicted>>

AccessFaults ==
  /\ at = "user" /\ access # <<>>
  /\ Faults(access[1], access[2])
  /\ badvaddr' = access[1] /\ cause' = access[2]
  /\ at' = "fault"
  /\ UNCHANGED <<access, l3pt, tlb, list, mem, seen, evicted>>

\* The program ends with an environment call.  It has no illegal instruction:
\* medeleg does not hand that cause to the supervisor (vm.c:256-260), so its case
\* in handle_trap is not reached.
UserEcall ==
  /\ at = "user" /\ access = <<>>
  /\ at' = "evict"
  /\ UNCHANGED <<access, trap, l3pt, tlb, list, mem, seen, evicted>>

-----------------------------------------------------------------------------
(* handle_fault                                                               *)

CopiedBack(p) == [mem EXCEPT ![Home(p)] = mem[Translation(p).frame]] \* mutant

\* memcpy((void*)addr, uva2kva(addr), PGSIZE)
Copied(p) == [mem EXCEPT ![Translation(p).frame] = mem[Home(p)]]

FlushNothing(p) == UNCHANGED tlb \* mutant

FlushPage(p) == tlb' = [tlb EXCEPT ![p] = <<>>]

\* An assertion fails: terminate(3).
Fails ==
  /\ at' = "failed"
  /\ UNCHANGED <<access, trap, l3pt, tlb, list, mem, seen, evicted>>

MarkedAccessed(pte) == [pte EXCEPT !.a = TRUE] \* mutant: never the dirty bit

\* Which bit a fault on a mapped page sets.
Marked(pte) == IF ~ pte.a THEN [pte EXCEPT !.a = TRUE] ELSE [pte EXCEPT !.d = TRUE]

\* The page is mapped: the accessed bit is set or, for a store, the dirty bit.
MarkPage ==
  /\ at = "fault" /\ l3pt[badvaddr] # NoPte
  /\ LET pte == l3pt[badvaddr]
     IN IF pte.a /\ (pte.d \/ cause # "store")
        THEN Fails
        ELSE /\ l3pt' = [l3pt EXCEPT ![badvaddr] = Marked(pte)]
             /\ at' = "flush"
             /\ UNCHANGED <<access, trap, tlb, list, mem, seen, evicted>>

\* The page is not mapped: it gets the frame of the first free node, with the
\* accessed and dirty bits set for the time of the copy.
TakeNode ==
  /\ at = "fault" /\ l3pt[badvaddr] = NoPte
  /\ IF head = Null
     THEN Fails
     ELSE /\ head' = next[head]
          /\ tail' = IF next[head] = tail THEN Null ELSE tail
          /\ l3pt' = [l3pt EXCEPT ![badvaddr] = Pte(addr[head], TRUE, TRUE)]
          /\ next' = [next EXCEPT ![MappingNode(badvaddr)] = next[head]]
          /\ IF addr[MappingNode(badvaddr)] = 0
             THEN /\ addr' = [addr EXCEPT ![MappingNode(badvaddr)] = addr[head]]
                  /\ at' = "flush_new"
             ELSE at' = "failed" /\ UNCHANGED addr
          /\ UNCHANGED <<access, trap, tlb, mem, seen, evicted>>

FlushNew ==
  /\ at = "flush_new"
  /\ FlushPage(badvaddr)
  /\ at' = "copy"
  /\ UNCHANGED <<access, trap, l3pt, list, mem, seen, evicted>>

\* The copy goes by the new translation; a fault of the supervisor there would
\* find both bits set, which fails the assertion of handle_fault.
CopyIn ==
  /\ at = "copy"
  /\ IF Faults(badvaddr, "store")
     THEN Fails
     ELSE /\ mem' = Copied(badvaddr)
          /\ l3pt' = [l3pt EXCEPT ![badvaddr] =
                        Pte(addr[MappingNode(badvaddr)], FALSE, FALSE)]
          /\ at' = "flush"
          /\ UNCHANGED <<access, trap, tlb, list, seen, evicted>>

\* The last flush of handle_fault; then the program makes the access again.
FlushAndReturn ==
  /\ at = "flush"
  /\ FlushPage(badvaddr)
  /\ at' = "user"
  /\ UNCHANGED <<access, trap, l3pt, list, mem, seen, evicted>>

-----------------------------------------------------------------------------
(* evict, for each page in turn, and the end                                  *)

\* The node of an evicted page goes to the end of the free list.
FreeNode(node) ==
  /\ addr' = [addr EXCEPT ![node] = 0]
  /\ tail' = node
  /\ IF tail = Null
     THEN head' = node /\ UNCHANGED next
     ELSE next' = [next EXCEPT ![tail] = node] /\ UNCHANGED head

Evict ==
  /\ at = "evict" /\ evicted < MaxPages - 1
  /\ LET p == evicted + 1
         differs == mem[Translation(p).frame] # mem[Home(p)]
     IN IF addr[MappingNode(p)] = 0
        THEN UNCHANGED <<list, mem, at>> /\ evicted' = p
        ELSE IF \/ ~ l3pt[p].a \/ Faults(p, "load")
                \/ differs /\ (~ l3pt[p].d \/ Faults(p, "store"))
        THEN at' = "failed" /\ UNCHANGED <<list, mem, evicted>>
        ELSE /\ mem' = IF differs THEN Copied(p) ELSE mem
             /\ FreeNode(MappingNode(p))
             /\ evicted' = p
             /\ UNCHANGED at
  /\ UNCHANGED <<access, trap, l3pt, tlb, seen>>

Terminate ==
  /\ at = "evict" /\ evicted = MaxPages - 1
  /\ at' = "done"
  /\ UNCHANGED <<access, trap, l3pt, tlb, list, mem, seen, evicted>>

-----------------------------------------------------------------------------
Supervisor ==
  \/ MarkPage \/ TakeNode
  \/ FlushNew \/ CopyIn \/ FlushAndReturn
  \/ Evict \/ Terminate

VmNext ==
  \/ TlbFills \/ TlbEvicts
  \/ UserAccesses \/ AccessDone \/ AccessFaults
  \/ UserEcall
  \/ Supervisor

VmSpec == VmBoot /\ [][VmNext]_vmVars

\* A hart that has an instruction executes it.
VmFairness == WF_vmVars(AccessDone \/ AccessFaults \/ Supervisor)

-----------------------------------------------------------------------------
(* Properties                                                                 *)

\* No assertion of handle_fault or evict fails: a fault finds an entry it can explain, in spite
\* of entries the TLB kept, a page that is mapped finds a free node, and a page
\* that is evicted is marked as what was done to it.
AssertionsHold == at # "failed"

\* What page p of the program holds, wherever it lies.  From the time it has an
\* entry until it is copied, it lies at home.
Contents(p) ==
  IF l3pt[p] = NoPte \/ (at \in {"flush_new", "copy"} /\ badvaddr = p)
  THEN mem[Home(p)]
  ELSE mem[l3pt[p].frame]

Flat == INSTANCE FlatMemory WITH
  Page <- Touched,
  data <- [p \in Touched |-> Contents(p)],
  loaded <- seen,
  running <- at \notin {"evict", "done", "failed"}

\* Pages that move to frames at their first access, in an order from a shift
\* register, are one flat memory to the program: no frame is given twice, and
\* no access goes by an entry that has changed.
ImplementsFlatMemory == Flat!FlatSpec

\* An access is done after a few traps, and the environment call ends.
VmProgress ==
  /\ access # <<>> ~> access = <<>>
  /\ at = "evict" ~> at = "done"

=============================================================================
