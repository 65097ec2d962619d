------------------------------- MODULE Traps -------------------------------
(***************************************************************************)
(* Privilege modes: which interrupt decode lets through (decoder.bsv),     *)
(* where write back sends a trap (csr_daisy.bsv) and what trap and return  *)
(* save and restore (csr_grp1.bsv).                                        *)
(*                                                                         *)
(* Decode samples the interrupt lines and makes a trap of the instruction  *)
(* it has; the trap is taken when it commits, and only there its mode is   *)
(* chosen.  In between older instructions commit and lines change, but no  *)
(* CSR does (SyncBarrier of PipelineProps): the actions that write one, or *)
(* return, wait for decoded to be empty.                                   *)
(*                                                                         *)
(* User mode is present; misa and the trap vectors are not written.  A CSR *)
(* or return instruction that is not permitted is an exception (Except).   *)
(***************************************************************************)
EXTENDS Naturals

CONSTANTS
  SupervisorMode, \* `supervisor: S in the ISA string
  UserTraps,      \* `usertraps: N in the ISA string
  Interrupt,      \* causes of interrupts, numbered by their priority
  Exception,      \* causes of exceptions
  CodeAddr,
  HandlerOf       \* the address trap vector and cause give in each mode

User == 0
Supervisor == 1
Machine == 3
Mode == {User, Supervisor, Machine}
Cause == Interrupt \cup Exception

ASSUME TrapsAssumption ==
  /\ SupervisorMode \in BOOLEAN /\ UserTraps \in BOOLEAN
  /\ Interrupt \subseteq Nat
  /\ CodeAddr # {}
  /\ HandlerOf \in [Mode -> [Cause -> CodeAddr]]

VARIABLES
  prv,      \* rg_prv
  at,       \* address of the next instruction to commit
  ie, pie,  \* rg_mie, rg_sie, rg_uie and rg_mpie, rg_spie, rg_upie
  mpp, spp, \* rg_mpp, rg_spp
  xepc,     \* rg_mepc, rg_sepc, rg_uepc
  pend,     \* mip & mie
  mdeleg,   \* rg_mideleg and rg_medeleg
  sdeleg,   \* rg_sideleg and rg_sedeleg
  decoded,  \* the interrupt decode has made a trap of, on its way
  saved     \* history: what the last trap into a mode has interrupted

trapVars == <<prv, at, ie, pie, mpp, spp, xepc, pend, mdeleg, sdeleg, decoded, saved>>

None == [m \in Mode |-> <<>>]

TrapsIdle ==
  /\ prv = Machine
  /\ at \in CodeAddr
  /\ ie = [m \in Mode |-> FALSE] /\ pie = [m \in Mode |-> FALSE]
  /\ mpp = User /\ spp = User
  /\ xepc = [m \in Mode |-> at]
  /\ pend = {} /\ mdeleg = {} /\ sdeleg = {}
  /\ decoded = <<>>
  /\ saved = None

-----------------------------------------------------------------------------
(* Decode                                                                     *)

\* mutant: m_interrupts without the mask of mideleg
PendingUnmasked ==
  {i \in pend : prv # Machine \/ ie[Machine]}

\* chk_interrupt: m_interrupts, s_interrupts and u_interrupts
PendingInterrupts ==
  {i \in pend :
     \/ (prv # Machine \/ ie[Machine]) /\ i \notin mdeleg
     \/ /\ SupervisorMode
        /\ prv = User \/ (prv = Supervisor /\ ie[Supervisor])
        /\ i \in mdeleg /\ (UserTraps => i \notin sdeleg)
     \/ /\ UserTraps
        /\ prv = User /\ ie[User]
        /\ i \in mdeleg /\ (SupervisorMode => i \in sdeleg)}

\* decoder_func makes a trap of the instruction.
Sample ==
  /\ decoded = <<>>
  /\ \E i \in PendingInterrupts :
       /\ \A j \in PendingInterrupts : i <= j
       /\ decoded' = <<i>>
  /\ UNCHANGED <<prv, at, ie, pie, mpp, spp, xepc, pend, mdeleg, sdeleg, saved>>

\* A wrong prediction squashes it.
Squashed ==
  /\ decoded # <<>>
  /\ decoded' = <<>>
  /\ UNCHANGED <<prv, at, ie, pie, mpp, spp, xepc, pend, mdeleg, sdeleg, saved>>

-----------------------------------------------------------------------------
(* Traps                                                                      *)

\* mutant: what is delegated goes to the supervisor from every mode
TargetAnyMode(c) == IF SupervisorMode /\ c \in mdeleg THEN Supervisor ELSE Machine

\* mav_upd_on_trap of csr_daisy: delegateM, delegateS and the mode. With a
\* supervisor its branch comes first and leaves none to User.
Target(c) ==
  CASE c \in mdeleg /\ prv <= Supervisor /\ SupervisorMode -> Supervisor
    [] /\ c \in mdeleg /\ prv = User /\ UserTraps
       /\ ~ SupervisorMode                                 -> User
    [] OTHER                                               -> Machine

\* mutant: the supervisor's previous mode is not saved
TrapIntoKeepsSpp(m, c) ==
  /\ prv' = m
  /\ at' = HandlerOf[m][c]
  /\ xepc' = [xepc EXCEPT ![m] = at]
  /\ pie' = [pie EXCEPT ![m] = ie[m]]
  /\ ie' = [ie EXCEPT ![m] = FALSE]
  /\ mpp' = IF m = Machine THEN prv ELSE mpp
  /\ UNCHANGED spp
  /\ saved' = [saved EXCEPT ![m] = <<[prv |-> prv, ie |-> ie[m], at |-> at]>>]

\* mav_upd_on_trap of csr_grp1
TrapInto(m, c) ==
  /\ prv' = m
  /\ at' = HandlerOf[m][c]
  /\ xepc' = [xepc EXCEPT ![m] = at]
  /\ pie' = [pie EXCEPT ![m] = ie[m]]
  /\ ie' = [ie EXCEPT ![m] = FALSE]
  /\ mpp' = IF m = Machine THEN prv ELSE mpp
  /\ spp' = IF m = Supervisor THEN prv % 2 ELSE spp
  /\ saved' = [saved EXCEPT ![m] = <<[prv |-> prv, ie |-> ie[m], at |-> at]>>]

TakeTrap(c) ==
  /\ TrapInto(Target(c), c)
  /\ decoded' = <<>>
  /\ UNCHANGED <<pend, mdeleg, sdeleg>>

TakesInterrupt == decoded # <<>> /\ TakeTrap(decoded[1])

\* An instruction, possibly one older than the interrupt, ends in a trap.
Except == \E c \in Exception : TakeTrap(c)

-----------------------------------------------------------------------------
(* Returns: mav_upd_on_ret                                                    *)

\* What decode permits.
MayReturn(m) ==
  CASE m = Machine    -> prv = Machine
    [] m = Supervisor -> SupervisorMode /\ prv # User
    [] m = User       -> UserTraps

Returns(m) ==
  /\ decoded = <<>>
  /\ MayReturn(m)
  /\ prv' = CASE m = Machine -> mpp [] m = Supervisor -> spp [] m = User -> User
  /\ at' = xepc[m]
  /\ ie' = [ie EXCEPT ![m] = pie[m]]
  /\ pie' = [pie EXCEPT ![m] = TRUE]
  /\ mpp' = IF m = Machine THEN User ELSE mpp
  /\ spp' = IF m = Supervisor THEN User ELSE spp
  /\ saved' = [saved EXCEPT ![m] = <<>>]
  /\ UNCHANGED <<xepc, pend, mdeleg, sdeleg, decoded>>

-----------------------------------------------------------------------------
(* Instructions that are no traps, and lines                                  *)

Writes(m) == decoded = <<>> /\ prv >= m

\* The modes whose status a status register has; a write of it ends the claim
\* that what these modes have saved is what was interrupted.
Fields(m) == {l \in Mode : /\ l <= m
                           /\ l = Supervisor => SupervisorMode
                           /\ l = User => UserTraps}

\* ma_core_req of csr_grp1 for MSTATUS, SSTATUS and USTATUS
WritesStatus(m) ==
  /\ Writes(m) /\ m \in Fields(m)
  /\ \E e, p \in [Fields(m) -> BOOLEAN] :
       /\ ie' = [l \in Mode |-> IF l \in Fields(m) THEN e[l] ELSE ie[l]]
       /\ pie' = [l \in Mode |-> IF l \in Fields(m) THEN p[l] ELSE pie[l]]
  /\ IF m = Machine
     THEN mpp' \in {l \in Mode : l = Supervisor => SupervisorMode}
     ELSE UNCHANGED mpp
  /\ IF Supervisor \in Fields(m) THEN spp' \in {User, Supervisor} ELSE UNCHANGED spp
  /\ saved' = [l \in Mode |-> IF l \in Fields(m) THEN <<>> ELSE saved[l]]
  /\ UNCHANGED <<prv, at, xepc, pend, mdeleg, sdeleg, decoded>>

\* for MEPC, SEPC and UEPC
WritesEpc(m) ==
  /\ Writes(m) /\ m \in Fields(m)
  /\ \E a \in CodeAddr : xepc' = [xepc EXCEPT ![m] = a]
  /\ saved' = [saved EXCEPT ![m] = <<>>]
  /\ UNCHANGED <<prv, at, ie, pie, mpp, spp, pend, mdeleg, sdeleg, decoded>>

\* for MIDELEG, MEDELEG, SIDELEG and SEDELEG
WritesDelegation ==
  /\ decoded = <<>>
  /\ \/ /\ prv = Machine /\ (SupervisorMode \/ UserTraps)
        /\ mdeleg' \in SUBSET Cause
        /\ UNCHANGED sdeleg
     \/ /\ prv >= Supervisor /\ SupervisorMode /\ UserTraps
        /\ sdeleg' \in SUBSET Cause
        /\ UNCHANGED mdeleg
  /\ UNCHANGED <<prv, at, ie, pie, mpp, spp, xepc, pend, decoded, saved>>

Runs ==
  /\ at' \in CodeAddr
  /\ UNCHANGED <<prv, ie, pie, mpp, spp, xepc, pend, mdeleg, sdeleg, decoded, saved>>

\* A line rises or falls, or mie or mip is written.
LinesChange ==
  /\ pend' \in SUBSET Interrupt
  /\ UNCHANGED <<prv, at, ie, pie, mpp, spp, xepc, mdeleg, sdeleg, decoded, saved>>

-----------------------------------------------------------------------------
TrapsNext ==
  \/ Sample
  \/ Squashed
  \/ TakesInterrupt
  \/ Except
  \/ \E m \in Mode : Returns(m) \/ WritesStatus(m) \/ WritesEpc(m)
  \/ WritesDelegation
  \/ Runs
  \/ LinesChange

TrapsSpec == TrapsIdle /\ [][TrapsNext]_trapVars

-----------------------------------------------------------------------------
(* Properties                                                                 *)

\* Whatever traps into other modes have come in between, a return goes back to
\* the mode, the address and the interrupt enable that the trap into its mode
\* has interrupted, unless software has written them since.
ReturnsToInterrupted ==
  [][\A m \in Mode : (Returns(m) /\ saved[m] # <<>>) =>
       [prv |-> prv', ie |-> ie'[m], at |-> at'] = saved[m][1]]_trapVars

\* Decode decides that an interrupt is enabled, and write back, later, where it
\* goes; it goes to a mode above, or to the same if that mode has enabled its
\* interrupts, and never below.
InterruptsWhereEnabled ==
  [][TakesInterrupt =>
       \/ prv' > prv
       \/ prv' = prv /\ ie[prv]]_trapVars

=============================================================================
