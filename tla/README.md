# A TLA+ verification of the Chromite core

Chromite is a six-stage in-order RISC-V core written in Bluespec. A Bluespec
rule is an atomic guarded action, so it translates to a TLA+ action almost line
by line; what is hard about the core is what its rules do *to each other*:
speculation, bypassing, redirections and waits that have to fit together. This
project models that, checks it with TLC and proves its safety properties, and that
the detailed models implement the abstract ones, with TLAPS. It
covers the pipeline from program counter to write back, the fetch side with its
predictor, the CSR chain, privilege modes and delegation, the bus and the shared
page-table walker of the core wrapper, the divider, and the C program in the
repository that has state of its own: the supervisor and the string functions
of the virtual-memory test environment.

Paths below are relative to `src/src/` unless they start with `docs/`.

## 1. The system

| component | source | state it keeps | operations |
|---|---|---|---|
| PC generation | `stage0.bsv` | `rg_pc`, `rg_eEpoch`/`rg_wEpoch`, `rg_fence`, `rg_sfence`, `rg_delayed_redirect` | `rl_gen_next_pc`, `ma_flush`, epoch updates |
| branch predictor | `predictors/gshare_fa.bsv` | BTB tags and entries, BHT, GHR, RAS, `rg_allocate` | predict, train, repair after a misprediction, initialise |
| fetch response | `stage1.bsv`, `decompress.bsv` | `rg_action`, saved half instruction, epochs | `process_instruction` |
| decode, operand fetch | `stage2.bsv`, `decoder.bsv`, `registerfile.bsv` | `rg_stall`, `rg_wfi`, `rg_rerun`, `rg_fencei_rerun`, `rg_sfence_rerun`, `rg_op1..3`, register file | `decode_and_opfetch`, `rl_wait_for_interrupt`, `commit_rd`, `clear_stall` |
| execute | `stage3.bsv`, `alu.bsv`, `fwding.bsv` | `rg_stall`, `rg_loadreserved_addr`, epochs | `rl_capture_latest_ops`, `delayed_output` |
| memory | `stage4.bsv` | none of its own | `check_instruction` |
| write back | `stage5.bsv` | `rg_epoch`, `rg_store_initiated` | `instruction_commit` |
| CSRs | `csr/csr.bsv`, `csr/daisy_chain/` | every CSR, privilege, `rg_csr_wait`, one request FIFO per group | access, `mav_upd_on_trap`, `mav_upd_on_ret`, counters |
| integration | `riscv.bsv` | `pipe0`..`pipe4`, `rg_wEpoch` | bypass rules, `send_next_pc`, flush connections |
| multiply/divide | `m_ext/` | iteration counters | start, step, deliver |
| floating point | `fpu/` | operand and result registers | start, step, deliver |
| core wrapper | `ccore.bsv` | line read/write bookkeeping, `rg_ptw_state`, abstract-command state | bus arbitration, walk arbitration, debug access |
| virtual-memory test environment | `../micro-arch-tests/performance_tests/env/v/` | page table, free list of frames, `user_mapping` | `handle_trap`, `handle_fault`, `evict`, `vm_boot`, the functions of `string.c` |
| caches, MMU, store buffer, AXI fabric | not in the repository | - | used through interfaces |

**Interaction.** Each stage dequeues from the buffer before it and enqueues
into the one after it. Three connections run against that flow:

* *Redirections.* Execute (misprediction) and write back (trap, return, re-run)
  send a flush to `stage0` and flip one epoch bit each. Nothing in flight is
  erased: each stage drops what does not carry the epochs it expects.
* *Bypasses.* `riscv.bsv` offers execute the head of `pipe3` and `pipe4`;
  a commit also updates the operands that already wait in `rg_op1`/`rg_op2`.
* *Waits.* Decode stalls behind a trap, sleeps in a WFI and marks a re-run
  behind an instruction that changes CSRs, code or translation; execute stalls
  on a multi-cycle unit; write back waits for the CSR chain, for the store
  buffer and for the answer to an uncached store.

**What is hard.** Interleavings of two redirections with what is in flight;
data and answers that carry only one bit of identity; waits whose cause can be
squashed; commits in two steps; state sampled at decode and used at commit.
The file `PROJECT.json` lists the hazards one by one, at the line where each
bites, with the property that covers it or the reason why none does.

**What makes each component correct.** Decode: nothing runs with old CSRs, code
or translation, and each stall ends. Execute: operands are the latest older
values, and a control instruction redirects exactly when fetch went the wrong
way. Memory: an answer goes to the instruction that asked. Write back: effects
are those of the sequential program, exactly once, in order. Epochs: what is
squashed stays squashed, what is not is never dropped. PC generation, fetch
response: pcs and instruction bytes stay paired over flushes, faults are not
lost. Predictor: hits are unique, histories are repaired. CSRs: each legal
address is answered once, traps go to the right privilege. Core wrapper: memory
order of a line, answers to the side that asked. Multiply/divide: the quotient
and remainder of the specification, boundary cases included. Test environment:
the user program cannot tell that its pages are moved under it.

## 2. Modules

| module | what it is |
|---|---|
| `Program` | the program and the pure part of the instruction set, as CONSTANTS with named assumptions |
| `Isa` | abstract: one instruction at a time |
| `Pipeline` | `stage2`..`stage5`, their buffers, bypasses and redirections |
| `PipelineProps`, `MCPipeline` | its properties and its refinement mapping to `Isa`; four small programs for TLC |
| `Btb` | the branch target buffer of `gshare_fa.bsv` |
| `PcStream` | abstract: the stream of pcs the fetch side promises to decode, and what `Pipeline` assumes of it |
| `Fetch` | composes `Btb` with `stage0`, `stage1` and the two buffers behind them |
| `FetchProps`, `MCFetch` | its properties and its refinement mapping to `PcStream`; the code images for TLC |
| `LineBus` | the data side of the bus interface of `ccore.bsv` |
| `PtwArbiter` | the page-table walker shared by the two TLBs |
| `CsrChain` | the daisy chain of CSR groups, shared by write back and debug |
| `Traps` | privilege modes: which interrupt is let through, where a trap goes, what a return restores |
| `Divider` | the restoring divider, cycle by cycle |
| `MCUnits` | the five units above for TLC, one at a time |
| `FlatMemory` | abstract: the memory a user program of the test environment is promised |
| `Vm`, `Strings` | `vm.c` and `string.c` |
| `MCVm` | both for TLC |
| `PipelineProofs`, `OperandProofs`, `IsaProofs` | the theorems about `Pipeline`, each module on top of the one before |
| `FetchProofs`, `PathProofs` | the theorems about `Fetch` with its predictor, the second on top of the first |
| `UnitProofs`, `VmProofs` | the theorems about `LineBus`, `CsrChain`, `Traps` and `PtwArbiter`, and about `Vm` |
| `LoopProofs` | the theorems about what loops compute: `Divider` and `Strings` |

How they fit: `Pipeline` takes the fetch side as an assumption (its action
`Deliver` and the constant `Predicted`), which `PcStream` states and `Fetch` is
shown to meet. It takes the CSR chain as a request that is answered once, with
the answer to that very request: `CsrChain` shows that. It has one privilege
mode and a two-step sampling of interrupts; `Traps` has the modes, and in turn
assumes that no CSR changes between sampling and commit, which is `SyncBarrier`
of `Pipeline`. The data side of `Pipeline` and `LineBus` meet at the cache,
which is not in the repository.

### Program and Isa

An instruction is a record of its operation class, destination, two sources and
a branch target. What an instruction computes is three constant operators
(`Result`, `Taken`, `JumpTo`); which fetches fault, which targets and which data
addresses are misaligned are constant sets. A value of the model stands for a
register value, and `1` written to the one CSR means "interrupts enabled" there.
`Op` collapses the decoder's classes to those that differ in control; `ILL` is
every instruction that decode turns into an exception.

`Isa` runs that program. Its variable `sync` is what makes it more than an
interpreter: after an instruction of `SyncOp` nothing may retire until the next
instruction has been fetched again, and after FENCE.I or SFENCE.VMA that
re-fetch must carry the request that flushes the instruction side.

Deliberate freedom in `Isa`: a load returns any value (the data cache is not in
the repository), SC may fail, an access may fault, and an interrupt may be taken
whenever interrupts are enabled - also when its source has withdrawn it since,
because decode samples `mip & mie` and commit does not look again.

### Pipeline

| variables | code |
|---|---|
| `fetchPc`, `pipe1` | the pc stream of stage0 and the buffer behind stage1 |
| `eEpoch`, `wEpoch` | the epoch registers; each stage has a copy and the connections of `riscv.bsv` flip all copies in one cycle, so one variable each |
| `rgStall`, `rgWfi`, `rgRerun`, `rgKind`, `rgOp1`, `rgOp2`, `pipe2` | stage2; `rgKind` joins `rg_fencei_rerun` and `rg_sfence_rerun`, of which at most one is set |
| `rgMulti`, `reserved`, `pipe3` | stage3; `pipe3` joins the common and the type FIFO: type `"WAIT"` is a common part whose type part is not there yet |
| `pipe4`, `rgStoreInit` | stage5's input and `rg_store_initiated` |
| `rgCsrWait`, `csrResp`, `csr`, `pcsr`, `epc` | csr.bsv and the registers MIE, MPIE, mepc |
| `dreq`, `dresp`, `sb`, `mem` | external: the data side's request, answer, store buffer and the value last stored |
| `archPc`, `sync` | history: where the program stands at write back |

An action is one rule with *everything `riscv.bsv` connects to it in the same
cycle*: the redirecting rules flip the epoch, set the fetch pc, clear decode's
stall and drop nothing. `Deliver` is the fetch side, `Decode` is
`decode_and_opfetch` (`DropStale`, `SleepOnWfi`, `Dispatch`), `Exec` is
`rl_capture_latest_ops` with one disjunct per kind of instruction,
`DelayedOutput`, `CheckInstruction` and `InstructionCommit` are the rules of
stages 3, 4 and 5.

*Cycles.* The rules of one cycle are taken one after another, in the order
execute, decode, write back, memory; other orders are orders of different
cycles. What this serialisation cannot express is that decode, in the cycle of a
redirection, still compares with the old epochs and sees the flush only on its
wires. `Redirect` therefore lets decode take one instruction *within* the step
of the redirection, with the old epochs and with `flush` set. Several of the
core's subtle guards (`&& !wr_flush_from_exe && !wr_flush_from_wb`) exist only
for that case, and the mutants show that dropping them breaks the properties.

*Abstraction and scope.* The configuration modelled has the M, A, C and S
extensions' control, machine mode only, and none of the options debug,
triggers, floating point and event counters. A predicted taken branch is taken
to its own target (`PipelineAssumption`): the code never compares the target of
a conditional branch (`alu.bsv:179`), so this is a promise of the fetch side,
which `Fetch` examines; for `JAL` and `JALR` any
wrong target may be predicted.

Bounds: `Pipe1Size` and `Pipe3Size` are the sizes of the code's FIFOs,
`DmemSize` is the one request the data side holds before it answers, `SbSize`
(2 in the runs, any positive number in the proofs) the entries of its store
buffer. There are no unbounded counters: the state spaces are finite as they are.

### Btb, Fetch and PcStream

| variables | code |
|---|---|
| `pc`, `fence`, `sfence`, `delayed` | stage0: `rg_pc`, `rg_fence`, `rg_sfence`, `rg_delayed_redirect` |
| `btb`, `allocate`, `bpuInit` | the predictor's entries and tags, `rg_allocate`, `rg_initialize` |
| `td` | `wr_training_data` of stage3, which trains in the next cycle |
| `pipe0`, `pipe1` | the buffers behind stage0 and stage1, at their sizes |
| `iresp` | `ff_memory_response` of stage1 |
| `kept`, `receivingUpper` | stage1: `rg_prev` while `rg_action` is `CheckPrev`; `rg_receiving_upper` |
| `ireq`, `stale` | external: the instruction side's requests, and the versions of the code it may still hold |
| `pipe2`, `stall`, `inFlight` | what decode, execute and write back do to fetch |
| `ver`, `arch` | history: the code the program relies on, and where the program stands |

`GenNextPc` and `GenFence` are `rl_gen_next_pc`, `ProcessInstruction` is
`process_instruction` with one disjunct per case (old epoch, lower half, upper
half, rest of a kept half), `ExecControl` the misprediction test and training of
execute, `WbFlush` the redirection of write back.

The direction of a branch may be predicted either way. The counters, the hash
and the global history, whose only effect is that direction, therefore have no
variable: whatever they hold, and however stale they are behind a flush
(`gshare_fa.bsv:428`), the model has it. The return-address stack is a library;
a return may be predicted to any address of `RasTop`.

Code changes at the commit of FENCE.I, the translation at that of SFENCE.VMA.
From then on the instruction side may hold `stale` versions until the fence
request reaches it. What the model leaves out is a program that runs code it has
changed without a fence: there the architecture promises nothing.

### The units around the pipeline

*LineBus.* `burst` and `shift` are `rg_burst_count` and `rg_shift_amount`,
`wrReq` is `wr_write_req` (the line being written back), `held` is
`rg_read_line_req` (a read delayed behind it). The channels of the transactor
have a finite depth; the fabric takes writes and reads from channels of their
own in any order. `ReadsAreFresh`, and nothing else, needs two assumptions on what
is outside: `FabricOrders` (a write that was sent completely is served before a
later read of the place), and that the cache does not ask for a line whose
write-back still waits in its own queue. Neither follows from anything in the
repository, and the comment at `ccore.bsv:170-174` expects a fabric that may do the
opposite of the first; what holds on such a fabric is in section 4.

*PtwArbiter.* `ptwState` is `rg_ptw_state`. That the two sides' answers are not
confused rests on the data cache taking nothing from the core while its TLB waits
(`docs/source/mmu.rst:43-44`), which the model assumes.

*CsrChain.* A step is a clock cycle, because the answer of a group
(`rg_resp_to_core`) lasts for one cycle and what sees it depends on what else
fires in that cycle. `forward` is `ff_fwd_request` of each group, `csrWait` is
`rg_csr_wait`, `debugWait` and `debugResp` are `rg_debug_waitcsr` and
`rg_abst_response`. `DebugNeedsHalt`: the debug module sends commands to a
halted core only. `abstractOperation` does not check it; without it write back
takes the answer to a command within four steps.

*Traps.* `Sample` is the choice of an interrupt by decode, `TakesInterrupt` its
commit, `Except` an exception, `Returns` MRET, SRET and URET; CSR writes change
the enables, the pending set, the delegation and the `xepc`s. `saved` is history:
the mode, address and interrupt enable a trap into each mode has interrupted.
With S and N both present the User branch of `csr_daisy.bsv:509-513` can never be
reached, as the Supervisor branch before it has the weaker condition.

*Divider.* The registers of `restoring_div.bsv`; a step is a cycle, and makes
`Xlen / DivStages` bits of the quotient. `CountRange` is what `rg_count` can hold:
just enough, and for one stage too little (below).

### Vm, FlatMemory and Strings

`Vm` has `handle_fault` as steps between its stores and its fences (`at` names
the next one), because the hart's TLB may read an entry between any two of them:
`tlb` keeps any entry it has read until it is flushed or evicted. `list` is the
free list with the nodes as the C code links them, `mem` what each physical page
holds, `l3pt` the frame and the A and D bits of each page.

`FlatMemory` promises the user program that each page keeps what was last stored
in it. It promises nothing after the environment call, and that is deliberate:
on that path `evict` copies a page's home over the frame it has been using
(`vm.c:107`, where the destination is the frame and the source the home), so the
data of a dirty page is lost. Nothing reads it afterwards.

`Strings` checks each function of `string.c` against a definition of what the C
library promises, one call per state. `First` and a few functions stand for the
loops; the reading of whole words where the operands are aligned is kept.

## 3. What is checked

| run | module | instance | states |
|---|---|---|---|
| `hazards` | `MCPipeline` | MUL, LOAD, BRANCH, ALU, JALR, JAL; a faulting fetch on a wrong path only | 8,788 |
| `system` | `MCPipeline` | CSR write that enables interrupts, load that may fault, WFI, FENCE.I, SFENCE.VMA, a handler with CSR and MRET; interrupts at any time | 112,420 |
| `memory` | `MCPipeline` | LR, SC, uncached store, AMO, fence, misaligned data and jump targets; every access may fault | 518,352 |
| `stores` | `MCPipeline` | uncached STORE, AMO, FENCE, JAL; one store-buffer entry, every access may fault | 29,052 |
| `fetch` | `MCFetch` | two programs of four words with 16- and 32-bit instructions, FENCE.I between them, SFENCE.VMA to a copy; any prediction, flushes at any time | 719,263 |
| `units` | `MCUnits` | bus, walker, CSR chain, divider and privilege modes, one at a time | 54,015 |
| `vm` | `MCVm` | three pages on a 3-bit shift register; the string functions over 12 bytes | 992,943 |
| `doc_csr_stall` | `MCPipeline` | as `system`; *violated* | - |
| `doc_branch_target`, `doc_fetch_fault` | `MCFetch` | one branch whose target is mapped elsewhere; a jump to the upper half of a faulting word; *violated* | - |
| `doc_line_order` | `MCUnits` | the bus alone; *violated* | - |
| `doc_div_stages` | `MCUnits` | the divider alone, with one stage, where all may stop; *violated* | - |

What the properties say. Pipeline:

* `ImplementsIsa`: the pipeline, seen at write back, is `Isa`. The mapping is
  the identity on registers, history for the pc, and for the CSR the old value
  while an access is between its answer and its commit.
* `EpochOrder`, `FlushSquashes`: the one-bit epochs are enough.
* `NoStaleOperand`: what execute reads is what the youngest older instruction in
  flight will write. It rests on a numerical accident: `pipe3` has two entries
  and the bypass sees one, yet execute needs a free entry to run. With a third
  entry (the mutant `DeepPipe3`) it fails.
* `NextPcIsSuccessor`: the pc compared in execute is the prediction behind that
  very instruction.
* `SyncBarrier`: at most one instruction follows an instruction of `SyncOp`, as
  the trap that fetches it again, and with the right cause.
* `WaitsAreBacked`, `Progress`: no wait without something in flight that ends
  it; instructions retire for ever unless the hart sleeps in a WFI.
* `ResponsesPair`, `StoreBufferMirrors`: requests and stores are matched by
  position only, and position is right, over squashes and faults.

Fetch:

* `ImplementsPcStream`: what stage1 hands to decode is the predicted stream of
  pcs with the current epochs, which is what `Pipeline` assumes.
* `PairedByOrder`: `pipe0` has no epoch, the answers have; the two stay paired.
* `WholeInstruction`, `FaultsReported`: halves that are joined belong together,
  and a fault of either is reported, with the right half named.
* `CurrentCode`, `OnProgramPath`: nothing is executed that was read before the
  last fence, and no wrong turn of the predictor goes unnoticed.
* `SingleMatch`: a word has at most one entry in the branch target buffer.
* `FetchProgress`: instructions keep executing.

Around the pipeline:

* `BurstsAreLines`, `ReadsAreFresh`, `BusProgress`: the words of a write-back
  are one version of one line, a read does not overtake them on a fabric that
  orders complete writes before later reads, and every request is answered.
* `WalkAnswersAsker`, `WalkProgress`: one walker, two askers.
* `CsrAnswersOwn`, `CsrAppliedOnce`, `CsrProgress`: write back and debug share a
  chain whose answers name nobody.
* `ReturnsToInterrupted`, `InterruptsWhereEnabled`: nested traps over the modes.
* `DivisionExact`: all divisions and remainders, signed, unsigned, half width;
  `DivisionEnds`: each gives its result.

Test environment:

* `ImplementsFlatMemory`, `AssertionsHold`, `VmProgress`: pages that move under
  the program are one memory to it, no `assert` of `handle_fault` and `evict` fails,
  each access is done.
* `StringsExact`: each function of `string.c` computes what the C library
  promises (`memcmp` up to the sign).

**Why the bounds are enough.** *Pipeline.* The buffers are at their real sizes.
The programs (`stores` apart, whose point is a full store buffer) are loops of 7
to 9 instructions, longer than the at most 6 the modelled stages hold, so every
adjacency along the loop, wrong paths included, is met with every occupancy of
the buffers. Two or three data values are chosen so that a stale operand changes
a result (`MCResult` adds) and that branches, jumps and reservations go both
ways. The programs are examples: for other programs the theorems speak.
*Fetch.* Buffers at their real sizes, again with programs longer than what is in
flight. Two entries of the predictor are the least that allow a replacement
and a duplicate; three versions of the code the least in which one can come back.
The request queue of the instruction cache (`IcacheDepth`) is 1; a longer one
adds only answers that are in `RespSize` anyway. *Units.* Two lines and two
versions suffice to tell a stale word from a current one, three beats to have a
first, a middle and a last; the CSR chain has its four groups and an address
that none has; 4-bit registers have every boundary case of division (minimum,
-1, zero) and a half width of two. In `Traps` all handlers are at one
address, so that the return *address* is told apart by the theorem only.
*Vm.* The shift register of the code has six bits; with three it has seven
frames, and any two pages can compete for them. The program touches three pages, so
TLC never gets to the end of the free list, where `handle_fault` resets its tail;
`VmInvariance` is for any number of pages. That a register of a given width
does not repeat within its period is an assumption of `Vm` (`PeriodAssumption`),
which the run evaluates for its own three bits and, as `SixBitsAssumption`, for
the six of the code.
Strings of 12 bytes in words of 4 have a word loop, a remainder and every
misalignment.

**Fairness.** `FairSpec` of `Pipeline` and of `Fetch` has weak fairness on each
rule of the stages: a Bluespec schedule fires every rule whose guard holds and
that loses no conflict, and no modelled rule can lose one for ever. `DmemRespond`
and `CsrAnswer` assume that the data side and the CSR chain answer (the second
is `CsrProgress`), `IcacheRespond` and `IcacheFence` that the instruction side
does, `CommitFetchFault` that a decoded trap commits (which is `Progress`).
`BusFairness` and `PtwFairness` are the same for the rules of `ccore.bsv`, the
fabric and the walker; nothing obliges the program to access memory or the core
to fetch. `CsrFairness` is that the clock does not stop; the debug module owes
nothing. `DivFairness` is the clock too: the rule of the divider fires when its
counter is not zero, and execute takes the result in the cycle it is shown.
`VmFairness` is a hart that executes. There is no fairness on
interrupts, flushes of write back, debug commands or the choices of a program.
`Traps` and `Strings` have safety properties only. Where a free
action such as `ToggleIrq` is always enabled, TLC's deadlock check says nothing,
and the progress properties are what excludes a stuck system. `Progress` is
checked in `hazards`, `system` and `stores`; the graph of `memory` is too large
for it within the time a run has.

**Disagreements with the documentation and the configuration.**

* `docs/source/chromite.rst:355-357`: decode stalls behind a CSR instruction. In
  the code it does not stall but marks the next instruction a re-run trap, which
  is decoded and travels down the pipe and whose commit makes the flush.
* `docs/source/chromite.rst:402-403`: the calculated target is compared with the
  pc of the next instruction. For a branch only the direction is compared
  (`alu.bsv:179`); after SFENCE.VMA, which does not clear the branch target
  buffer, a taken branch can go to the target of the old mapping.
* `docs/source/chromite.rst:269-270`: a trap is buffered and sent on with the
  instruction. When fetch arrives at an upper half that looks like the first
  half of a 32-bit instruction, `stage1.bsv:307` keeps the half and forgets the
  trap.
* `ccore.bsv:172-174`: no read of a line is passed on between the start of its
  write and the answer to it. The code lets it go when the last word is sent. It
  is harmless if the fabric keeps the order of what reached it
  (`FabricOrders`). On any other, all that is left of the promise is that the
  words are sent before the read (`ReadsFollowWords`).
* `configure/schema.yaml:156-157` (in `src/`): `div_stages` is the number of cycles of
  a division, up to XLEN, and the assertions of the divider admit every power of two.
  With one stage `rg_count` (`m_ext/restoring_div.bsv:90`) is one bit wide, wraps to
  zero before it is compared with `DIVSTAGES + 1`, and execute waits for ever,
  unless the divisor is zero.

## 4. What is proved

For every value of the constants that satisfies the named assumptions of the
modules:

| theorem | states |
|---|---|
| `TypeInvariance`, `TypeCorrect` (`PipelineProofs`) | `Spec => []TypeInv`, `Spec => []TypeOK` |
| `EpochInvariance`, `EpochOrderCorrect` (`PipelineProofs`) | `Spec => [](Buffers /\ EpochInv)`, `Spec => []EpochOrder` |
| `FlushSquashesCorrect` (`PipelineProofs`) | `Spec => FlushSquashes` |
| `WaitInvariance`, `WaitsBacked` (`PipelineProofs`) | `Spec => []WaitInv`, `Spec => []WaitsAreBacked` |
| `ResponsesPairCorrect` (`PipelineProofs`) | `Spec => []ResponsesPair` |
| `StoreBufferCorrect` (`PipelineProofs`) | `Spec => []StoreBufferMirrors` |
| `ChainInvariance`, `NextPcCorrect` (`OperandProofs`) | `Spec => []ChainInv`, `Spec => []NextPcIsSuccessor` |
| `SyncBarrierCorrect` (`OperandProofs`) | `Spec => []SyncBarrier` |
| `NoStaleCorrect` (`OperandProofs`) | `Spec => []NoStaleOperand` |
| `CompInvariance`, `PathInvariance`, `PendingInvariance`, `StoreValInvariance` (`IsaProofs`) | the invariants of the refinement, below |
| `Implementation` (`IsaProofs`) | `Spec => ImplementsIsa`: the pipeline implements `Isa` |
| `FetchTypeCorrect`, `Pairing` (`FetchProofs`) | `Spec => []FetchTypeOK`, `Spec => []PairedByOrder` |
| `CodeIsCurrent` (`FetchProofs`) | `Spec => []CurrentCode` |
| `FaultsTravel` (`FetchProofs`) | `FaultData = {FALSE} => (Spec => []FaultsReported)` |
| `BtbAnswersOnce` (`FetchProofs`) | `Spec => []SingleMatch`, of `Fetch` |
| `RouteInvariance` (`PathProofs`) | `NoOverlap /\ FaultData = {FALSE} => (Spec => []RouteInv)` |
| `InstructionsWhole`, `ProgramPath` (`PathProofs`) | under the same hypotheses `Spec => []WholeInstruction`, `Spec => []OnProgramPath` |
| `StreamImplemented` (`PathProofs`) | under the same hypotheses `Spec => ImplementsPcStream`: the fetch side implements `PcStream` |
| `BusInvariance`, `LinesWhole` (`UnitProofs`) | `BusSpec => []BusInv`, `BusSpec => []BurstsAreLines` |
| `OrderInvariance`, `MemoryCurrent` (`UnitProofs`) | `BusSpec => [](BusInv /\ OrderInv)`, `BusSpec => []MemoryIsCurrent` |
| `ReadsFollowWords` (`UnitProofs`) | `BusSpec => ReadsAfterWords` |
| `WalkerAnswersAsker` (`UnitProofs`) | `PtwSpec => WalkAnswersAsker` |
| `CsrChainAnswersOwn`, `CsrChainAppliesOnce` (`UnitProofs`) | `DebugNeedsHalt => (CsrSpec => ...)` for `CsrAnswersOwn` and `CsrAppliedOnce` |
| `TrapsReturn`, `TrapsAboveOrEnabled` (`UnitProofs`) | `TrapsSpec => ...` for `ReturnsToInterrupted` and `InterruptsWhereEnabled` |
| `VmInvariance`, `VmAssertions` (`VmProofs`) | `VmSpec => []VmInv`, `VmSpec => []AssertionsHold` |
| `FlatImplementation` (`VmProofs`) | `VmSpec => ImplementsFlatMemory`: the supervisor implements `FlatMemory` |
| `DivInvariance`, `DivisionCorrect` (`LoopProofs`) | `DivSpec => []DivInv`, `DivSpec => []DivisionExact` |
| `StringsCorrect` (`LoopProofs`) | `StrSpec => []StringsExact` |

*Type correctness.* `TypeOK` is not inductive: `UncachedDone` and `UncachedError`
take the head of the store buffer on the word of `rg_store_initiated` alone, and
`CsrAnswer` takes a value from `pipe4` on the word of `rg_csr_wait`. `BusyInv`
adds that these flags are set only while the instruction that set them is alive
in `pipe4` and, for the store, has its entry. It is preserved because nothing but
that instruction's own commit moves `pipe4` or `wEpoch` meanwhile. The bound on
each buffer is part of `TypeOK`, so its theorem says that no enqueue of the code
finds its FIFO full.

*Epochs.* `EpochOrder` speaks of positions, which makes a poor induction: every
dequeue shifts them. `EpochInv` says the same of the buffers as sets of entries
and adds what is left implicit there (the entries of one buffer are *closed*:
behind a live one all are live). The proof first shows that every action is, on
the buffers, one of eight *moves* (lemma `Moves`): decode, fetch, execute,
execute with redirection, finish, pass, leave, flush. `EpochStep` then has one
case per move instead of one per action. `FlushSquashes` follows from the two
moves that flip a bit: with everything in flight carrying the old value, nothing
carries the new one.

*Waits.* `WaitInv` says of each stall where what ends it is: `MultiInv` that the
unit owns the last entry of `pipe3` and that no other entry waits, `StallInv`
that the trap is the only entry of `pipe2`, or the last of `pipe3`, or the one in
`pipe4` with nothing behind it, `AnswerInv` what stage5 has started. A trap can
leave each place only for the next one; execute cannot drop it while it is live,
and whatever squashes it clears the stall in the same step. `ExecIssues` and
`CommitEffects` say once what the execute and the write-back stage do, for the
steps of this and the next invariants.

*Data side.* The proof of `ResponsesPair` has five lemmas on `AnswersFor` alone:
an entry added with or without a request, the first entry leaving with or
without an answer, a change that concerns neither. From it follows that stage4
never discards an answer, although its code looks at the epoch and would.
`StoreBufferMirrors` needs that, and `KindInv`: what is sent as a store is a
store in the program.

*The stages as one sequence.* From here on the proofs look at what is in flight
as sequences: `Waiting` (what is in front of execute), `Issued` (what is past
it) and `Decoded`, their concatenation behind decode, oldest first. Each action
is described once as what it does to them: the first `s` leave (`Keeps(s)`,
`Carried(s)`, with `s` 0 or 1), at most one is added behind, what stays becomes
at most what its unit delivers (`Became`). An invariant over positions is then
carried by one lemma for all actions that only shift, and the work is in the few
that add an entry.

*Next pc.* `ChainInv` says that the instructions to be kept in front of execute
are the predicted stream without a gap: behind each stands where the predictor
went, and behind the last `fetchPc`. `NextPcIsSuccessor` is its first link.

*Sync barrier.* `SyncInv` says of each instruction of `SyncOp` in flight that
decode still remembers it and has taken up nothing behind it, or has taken up the
trap that fetches again, directly behind it and with its cause, and stalls.

*Operands.* The registers that decode latched follow each commit
(`OperandInv`: they are always what the register file holds), so what is missing
is what `pipe3` and `pipe4` are going to write. `NoStaleOperand` is then a
statement on the bypass over `Issued`: it has at most two entries when execute
may run, the network sees both, and `EntryInv` makes the destination it compares
that of the program.

*The pipeline implements the instruction set.* The mapping shows `Isa` the
registers at write back, so a step of `Isa` is the commit of the oldest
instruction, and what has to be known is that *this* commit is what the
program does next. `Holds(r, i, v)` says that register `r` has the value `v` once
the instructions before the `i`-th of `Issued` have committed. With it:

* `CompInv`: an instruction past execution is a trap that has a ground, or it
  carries the outcome of its operation on two values that its source registers
  hold at its place;
* `PathInv`: each instruction stands where the one before it goes on the values
  it has read, the first at `archPc`, the one after the last in front of execute.
  What follows a trap is never committed and is left free;
* `StoreValInv`: the value on its way to memory, with the request, with the
  answer or in the store buffer, is the one its instruction has read;
* `SyncPending`: while `Isa` owes a re-fetch, nothing is to be kept but the trap
  that makes it, or decode remembers it;
* `InterruptInv`, `CsrInv`: an interrupt was taken with interrupts enabled and
  nothing has changed that since; what the chain has answered is the value before
  the access.

Nothing stands before the oldest instruction, so for it `Holds` is the register
file and `Follows` is `archPc`: one lemma per kind of commit (`RegImplements`,
`StoreImplements`, `CsrImplements`, `XretImplements`, `TrapImplements`,
`RerunImplements`) turns these facts into the action of `Isa`, and every other
step of `Pipeline` leaves what `Isa` sees unchanged (`StepImplements`). The
invariants are needed in this order, each on top of the earlier ones; the
theorem has no hypothesis beyond `ProgramAssumption` and `PipelineAssumption`.

*The fetch side.* `PairedByOrder` is inductive as it is; the work is in lemmas on
`Due`, the number of answers the first `k` requests will get, when a request is
added behind or leaves in front. The rest needs to know which epochs can be where.
An epoch is one bit, so after two flushes what was fetched before the first would
look current again. `EpochInv` says why it does not: behind a live entry all are
live, and write back flips its bit only for an instruction that was executed since
its last flush (`inFlight`), by which time nothing older than that flush is left
(`AllSinceWb`); for the bit of execute, nothing that is in front of execute can be
of the other value and behind a live entry. `FenceInv` says that as long as stage0
has a fence to send, or the instruction side may hold old code, nothing that was
read is live and the fence stands in front of each live request. `CodeInv`, that
everything read and live is of the current version, follows: code changes in a step that leaves
nothing live, and what is read later is read behind the fence.
For the faults, `KeptInv` says that a half of other epochs that stage1 still
keeps is forgotten before it can be taken for a current one: a stale answer is
then still to come, because a flush finds `pipe0` nonempty, and each one settles
stage1. `FaultInv` says of each answer, kept half and instruction that its trap bit
says whether a word of it faults, and which. The hypothesis `FaultData = {FALSE}` of
`FaultsTravel` is the same as in the run `fetch`: what the data lines carry when a fetch
has failed does not look like the first half of a 32-bit instruction. Without it
the theorem is false, which `doc_fetch_fault` shows.

*The path.* Nothing in `pipe0` says that its words follow one another, and what the
predictor suggests is checked only in execute, an instruction later. `RouteInv`
has the words, the instructions and the predictor in one chain:

* `Route(n, tails)`: the first `n` words on their way are of other epochs and only
  those (`Split`), and each of the others leads to where the next one is entered,
  the last to `pc` (`Link`): by falling through, by a jump that is predicted in it,
  or, when that jump is the first half of an instruction whose second half is in
  the next word, through that word. Those second words are `tails`, of which the
  lower half is all that belongs to the path; `delayed` is what stage0 remembers
  of them.
* `Cursor`: stage1 stands at the start of an instruction, or in front of the rest
  of the one whose first half it keeps. `GoesOn`: this is where the last
  instruction it has handed on leads.
* `Entries`: what it has handed on is whole and leads from one to the next, the
  first from what is about to execute, which is at `arch`. Behind a fetch fault
  nothing is claimed (`TrapBefore`): decode waits there for the flush.
* `BtbTrue`: what the branch target buffer knows, and what it is about to learn,
  is a jump of the current code, from the moment stage0 has sent the fence and the
  buffer is cleared. Without it the predictor could send fetch into the middle of
  an instruction, or predict a plain instruction taken, which execute does not
  check.

`PassesOn` says once what `ProcessInstruction` does to the chain, with one lemma
for each of its ways (`JoinHands`, `PrevHands`, `UpperHands`, `WordHands`,
`LowerHands`); the safety theorems and the refinement both use it. For the
refinement `NextIs` shows that the address the mapping computes from the buffers
is the one where stage1 stands, so a step is a delivery, a taking or a
re-direction of `PcStream`, or leaves what it sees unchanged (`Continues`).
The hypotheses: `NoOverlap`, that there are sets of starts, one for each version of
the code, such that the instructions at them do not overlap, everything execution
goes to is one, a branch has one target and SFENCE.VMA maps the same code again
(`Separate`). Without the last clause `OnProgramPath` fails, which
`doc_branch_target` shows. That `RasTop` is among the starts is what the code
intends: it pushes only addresses behind calls (`gshare_fa.bsv:317-334`) and a
fence clears the stack (line 186). What an empty stack gives is up to the `stack`
module, which is not in the repository; it is assumed to be a start as well.
`FaultData = {FALSE}` is as for `FaultsTravel`. `StartsAssumption` of `MCFetch` has
TLC check that the programs of the run `fetch` meet `NoOverlap`, so the run and the
theorems are about the same thing.

*The bus.* `BurstsAreLines` is about what is in memory, and the words get there
through two channels that say nothing of each other. `BurstInv` restores the link:
there is a map from the beats on the data channel to the addresses, such that
each address has the beats of one line, in their order and from the right index
on, with the last one marked (`Served`). The beat that the burst under way puts
there next is counted as one of them (`Coming`), which is what ties the counter
and the shift to the channel. Three lemmas on `Served` alone say how it moves on:
`Begin`, `Continue`, `Take`. `MemoryInv` then says that the words already taken
are of the version whose words are coming.

On the order of reads and writes two things are proved, both for a fabric that
serves them in any order, in which a line may be changed and written back again
while its last write-back is still on its way. `MemoryIsCurrent`: a line of which no
write-back waits or is on the bus is in memory in the version written back last, so
that none is lost or undone. `ReadsAfterWords`: a step that puts a read on the read
channel finds all words sent of every write whose address was sent to its region.
Both rest on `OrderInv`: every address whose burst has ended has its last beat on
the channel, so counting the last beats tells which writes are complete
(`CountInv`), and what waits last of a line, in the queue, else on the channel,
else in memory, is its last version (`Newest`). That the read is also *served* after
the write, which is `ReadsAreFresh`, is true only under the assumptions on fabric
and cache above, and is not stated as a theorem.

*Units.* `SingleMatch` holds since an entry is written only where its word already
was, or when it was nowhere (`WriteKeepsSingle`). `WalkAnswersAsker` rests on
`WalkBelongs`, which ties the state of the arbiter to the side whose page is
walked. The CSR theorems rest on an invariant that says in which cycle of a
request each forwarding stage may hold it (`Waiting`, `ChainServes`, `Once`,
`ChainGoesOn`), under `DebugNeedsHalt`. For `ReturnsToInterrupted` the registers
hold what was interrupted as long as nobody has written them (`Holds`), which a
trap into the same mode re-establishes and one into another leaves alone.

*Vm.* Neither `AssertionsHold` nor the refinement says anything of the free list,
the TLB or what is at home in a page that has a frame; `VmInv` does. `ListInv`:
the nodes in front of `head` are those of the mapped pages, so while a page has no
entry the list is not empty (`MappedFinite` counts them) and its first frame is
nobody's. `EntryInv`: two pages never share a frame, and what the TLB keeps is
the entry of the page table but for the one page whose flush is due. `FaultInv`:
a fault has a reason in the entry that is in the table *now*, which is what the
assertions of `handle_fault` ask; it needs the clause before, since the fault was
found with the entry of the TLB. `CopyInv`: a mapped page that is not dirty is in its
frame what it is at home, which is what `evict` asserts. The refinement then has
one lemma for the steps of the supervisor, none of which changes what a page
holds (`SupervisorStays`), and one for the accesses (`AccessIsFlat`). The frames
drawn enter through `PeriodAssumption` alone, the only property of the shift
register the proof knows.

*Loops.* What a loop computes needs induction over the number of its iterations.
The induction theorems of the library take a predicate as a parameter, which no
prover here can instantiate, so `LoopProofs` states induction over a *set*
(`SetInduction`): a set of naturals that has 0 and with each number the next has
all, since otherwise there is a least one outside, by the well-foundedness of the
order (`WFMin` of the library). A recursive function of a model is a CHOOSE of
what satisfies its equation; `BitsExist`, `CopyStoresExist` and `FillStoresExist`
show by induction that there is one, which is what makes the equation usable. The
powers of two, of which the solvers know nothing, are counted: `2 ^ n` is the
number of subsets of `1 .. n`, and the law of exponents follows (`PowerOfSum`).

*Division.* `DivInv` says that after `i` bits the number `h` made of the first
`i` bits of the dividend is `q * D + rem`, with `rem < D`, and that the register of
the quotient holds the other bits above `q` (`Divided`). `OneBitDivides` carries
this over one bit: the register of the remainder is one bit wider than the others,
and its top bit may be wrong afterwards when the divisor is in the upper half of the
range, but is not used. `StageDivides` has the bits of a stage, by induction, and
`StepAdvances` the cycles. The counter does not wrap before it is compared
(`StagesCover`), unless there is one stage: then it stops at zero with nothing
shown, and the theorem says nothing false about it. The rest is about signs:
`MagnitudeIs` for what the divider is given, `SignedIs` for what it makes of the
result, with the minimum divided by -1 and a divisor of zero as cases
(`QuotientExact`, `ZeroDivisorExact`).

*Strings.* The loops of `memcpy` and `memset` are a sequence of stores, and by
induction the memory after `k` of them is the copy of the first `k` words
(`CopiedByIs`, `FilledByIs`). For the copy it matters that a store changes nothing
that is still to be loaded: the hypothesis is that the operands lie apart. Going
by words is going by bytes in larger steps, so that both are one lemma with
the size as a parameter, and for `memset` the three shifts of the byte fill a word of
2, 4 or 8 bytes (`WordIs`). `FirstExists` says that the searching loops stop; then
`memcmpIs` has to show that the first byte that differs behind the words that agree
is the first that differs at all.

*Only model-checked.* Liveness (`Progress`, `FetchProgress`, `BusProgress`,
`WalkProgress`, `CsrProgress`, `DivisionEnds`, `VmProgress`), as it needs ENABLED and fairness,
which is out of the prover's reach, and `ReadsAreFresh`, which assumes more of the fabric than
the code does. Every other invariant and action property of the passing runs, and
every refinement of an abstract specification, is a theorem.

## 5. What is not modelled, and why

* Caches, MMU and fabrics: not in the repository; they are the environment.
* The floating-point unit: IEEE arithmetic on wide words; its control is that of
  `MULDIV`, which `Pipeline` has. The multiplier is one multiplication spread
  over retiming registers; the alternative arrays are not instantiated.
* The other predictors, the flat CSR file and `csr_low_latency`: no configuration
  of the core selects them, or the code has them commented out.
* `decompress.bsv`: a combinational table from 16 to 32 bits, with no state.
* `configure.py`, the test SoC (`sim_main.cpp` toggles a clock until the
  simulation stops) and the headers of the tests: `encoding.h` is generated from
  the ISA's opcode tables and, like `compliance_model.h`, holds constants and
  macros for assembler.
* Debug: halt, resume and single step in `stage5.bsv` and `csr_daisy.bsv`,
  triggers; of the debug module only abstract commands are modelled. Also left
  out are performance counters, PMP, ITIM and DTIM, bus errors, and the bus
  rules of the instruction side, which only pass requests on.
* `Traps` has no TVM, TW, TSR and MPRV, no write of `misa` and no vectored
  handlers. A write of `sstatus` that clears TVM, TW and TSR
  (`csr/daisy_chain/csr_grp1.bsv:826`) is listed as a hazard only.
* The reserved fields of FENCE.I, taken to be zero: `stage3.bsv:352-354` applies the
  test for misaligned halfwords to it as well, so that other values could trap.
* The illegal-instruction case of `handle_trap` (`vm.c:181-193`) with its assertions:
  `vm_boot` does not delegate that cause (`vm.c:256-260`), so it is never entered.
  Nor is the assertion behind it (`vm.c:197`), for the causes that are.
* The reservation of LR/SC has no address, so an SC may succeed for the LR of a
  squashed path; `Isa` leaves it free.

## 6. What could come next

1. LR/SC with addresses, and the halt and step of debug.
