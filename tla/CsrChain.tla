------------------------------ MODULE CsrChain ------------------------------
(***************************************************************************)
(* The control and status registers as the write-back stage and the debug  *)
(* module use them: groups in a daisy chain (csr_daisy.bsv, csr_grp*.bsv), *)
(* the access of a CSR instruction (csr.bsv, stage5.bsv) and the abstract  *)
(* commands of the debug module (ccore.bsv).                               *)
(*                                                                         *)
(* A step is a clock cycle: the answer of a group lasts for one cycle, so  *)
(* which rule sees it depends on what else fires in that cycle.  A request *)
(* and its answer say who asked and for what; the values are left out.     *)
(*                                                                         *)
(* The pipeline before write back and the debug module are outside.        *)
(***************************************************************************)
EXTENDS Naturals

CONSTANTS
  Groups,         \* groups in the chain
  Csr,            \* addresses of registers
  GroupOf,        \* the group that has a register; 0 when none has
  DebugNeedsHalt  \* the debug module sends commands to a halted core only

ASSUME CsrChainAssumption ==
  /\ Groups \in Nat \ {0, 1}
  /\ GroupOf \in [Csr -> 0 .. Groups]
  /\ DebugNeedsHalt \in BOOLEAN

Gpr == "gpr"  \* a command for a general register, which is answered at once
Source == {"core", "debug"}
Request(source, addr) == [source |-> source, addr |-> addr]

VARIABLES
  atWb,      \* the CSR instruction that write back holds
  csrWait,   \* rg_csr_wait
  rd,        \* the last value committed by a CSR instruction: all answers or'ed
  forward,   \* ff_fwd_request of each group but the last
  response,  \* rg_resp_to_core of each group
  command,   \* the command the debug module waits for
  debugWait, \* rg_debug_waitcsr
  debugResp, \* rg_abst_response
  halted,    \* rg_core_halted
  applied    \* history: how often the access of each source was carried out

csrVars == <<atWb, csrWait, rd, forward, response, command, debugWait, debugResp,
             halted, applied>>

CsrIdle ==
  /\ atWb = <<>>
  /\ csrWait = FALSE
  /\ rd = {}
  /\ forward = [g \in 1 .. (Groups - 1) |-> {}]
  /\ response = [g \in 1 .. Groups |-> {}]
  /\ command = <<>>
  /\ debugWait = FALSE
  /\ debugResp = <<>>
  /\ halted = FALSE
  /\ applied = [s \in Source |-> 0]

\* anyhit and anydata of mk_csr_daisy
Answers == UNION {response[g] : g \in 1 .. Groups}
Hit == Answers # {}

-----------------------------------------------------------------------------
(* The chain                                                                  *)

\* mutant: the last group forwards as the others do
AnsweredByOwner(g, req) == GroupOf[req.addr] = g

\* Whether group g answers; the last one answers whatever reaches it.
AnsweredBy(g, req) == GroupOf[req.addr] = g \/ g = Groups

\* One cycle of every group: new holds the request given to the first, if any;
\* fresh, the sources that begin an access.
ChainMoves(new, fresh) ==
  LET arriving == [g \in 1 .. Groups |-> IF g = 1 THEN new ELSE forward[g - 1]]
      taken == [g \in 1 .. Groups |-> {req \in arriving[g] : AnsweredBy(g, req)}]
  IN /\ response' = taken
     /\ forward' = [g \in 1 .. (Groups - 1) |-> arriving[g] \ taken[g]]
     /\ applied' = [s \in Source |->
                      (IF s \in fresh THEN 0 ELSE applied[s])
                      + (IF \E g \in 1 .. Groups : \E req \in taken[g] : req.source = s
                         THEN 1 ELSE 0)]

-----------------------------------------------------------------------------
(* Write back                                                                 *)

SendsAlways == atWb # <<>> \* mutant

\* system_instruction: the request is sent once; while it waits, write back
\* looks for the answer.
Sends == atWb # <<>> /\ ~ csrWait

\* instruction_commit in a cycle in which write back holds a CSR instruction
\* or nothing of the kind, and the chain in that cycle.
Commit ==
  /\ ChainMoves(IF Sends THEN {Request("core", atWb[1])} ELSE {}, {})
  /\ csrWait' = (atWb # <<>> /\ (Sends \/ ~ Hit))
  /\ IF atWb # <<>> /\ Hit
     THEN atWb' = <<>> /\ rd' = Answers
     ELSE UNCHANGED <<atWb, rd>>

-----------------------------------------------------------------------------
(* The debug interface of the core                                            *)

DebugAnsweredWaits == \* mutant: goes on waiting
  /\ UNCHANGED debugWait
  /\ IF debugWait /\ debugResp = <<>> /\ Hit
     THEN debugResp' = <<Answers>>
     ELSE UNCHANGED debugResp

\* rl_wait_for_csr_response
DebugAnswered ==
  IF debugWait /\ debugResp = <<>> /\ Hit
  THEN debugResp' = <<Answers>> /\ debugWait' = FALSE
  ELSE UNCHANGED <<debugResp, debugWait>>

\* A cycle in which the debug module calls nothing.
Cycle ==
  /\ Commit
  /\ DebugAnswered
  /\ UNCHANGED <<command, halted>>

\* A CSR instruction reaches write back.  A halted core runs the loop of the
\* debug module (docs/source/debug.rst), which has none.
Arrives(addr) ==
  /\ atWb = <<>> /\ ~ halted
  /\ atWb' = <<addr>>
  /\ ChainMoves({}, {"core"})
  /\ csrWait' = FALSE
  /\ DebugAnswered
  /\ UNCHANGED <<rd, command, halted>>

\* mav_upd_on_debugger: write back takes the trap that halts the core or, on
\* a request of the debug module, the one that lets it run again.
Halts ==
  /\ atWb = <<>> /\ ~ halted
  /\ halted' = TRUE
  /\ Commit
  /\ DebugAnswered
  /\ UNCHANGED command

Resumes ==
  /\ atWb = <<>> /\ halted
  /\ command = <<>>
  /\ halted' = FALSE
  /\ Commit
  /\ DebugAnswered
  /\ UNCHANGED command

\* The guard of abstractOperation, and what is assumed of the debug module: it
\* has one command at a time, for a halted core.
MayCommand ==
  /\ command = <<>>
  /\ debugResp = <<>> /\ ~ debugWait
  /\ DebugNeedsHalt => halted

\* abstractOperation for a CSR: it takes write back's place in this cycle, and
\* what the chain answers in this cycle is taken for its answer.
AbstractCsr(addr) ==
  /\ MayCommand
  /\ command' = <<addr>>
  /\ ChainMoves({Request("debug", addr)}, {"debug"})
  /\ csrWait' = FALSE
  /\ IF Hit
     THEN debugResp' = <<Answers>> /\ UNCHANGED debugWait
     ELSE debugWait' = TRUE /\ UNCHANGED debugResp
  /\ UNCHANGED <<atWb, rd, halted>>

\* abstractOperation for a general register.
AbstractGpr ==
  /\ MayCommand
  /\ command' = <<Gpr>>
  /\ debugResp' = <<{Request("debug", Gpr)}>>
  /\ Commit
  /\ UNCHANGED <<debugWait, halted>>

\* abstractReadResponse
AbstractRead ==
  /\ debugResp # <<>>
  /\ debugResp' = <<>>
  /\ command' = <<>>
  /\ Commit
  /\ UNCHANGED <<debugWait, halted>>

-----------------------------------------------------------------------------
CsrNext ==
  \/ Cycle
  \/ \E a \in Csr : Arrives(a) \/ AbstractCsr(a)
  \/ Halts
  \/ Resumes
  \/ AbstractGpr
  \/ AbstractRead

CsrSpec == CsrIdle /\ [][CsrNext]_csrVars

\* The clock does not stop; the debug module may leave its answer unread.
CsrFairness == WF_csrVars(Cycle)

-----------------------------------------------------------------------------
(* Properties                                                                 *)

\* Write back and the debug module share the chain, whose answers name
\* nobody: what either takes is the answer to its own request, alone.
CsrAnswersOwn ==
  [][/\ atWb # <<>> /\ atWb' = <<>> => rd' = {Request("core", atWb[1])}
     /\ debugResp = <<>> /\ debugResp' # <<>> =>
          \E addr \in Csr \cup {Gpr} :
            command' = <<addr>> /\ debugResp' = <<{Request("debug", addr)}>>]_csrVars

\* An access may change a register (a write, a set, a clear), so although the
\* commit rule fires in each cycle of the wait it is carried out once.
CsrAppliedOnce ==
  [][/\ atWb # <<>> /\ atWb' = <<>> => applied["core"] = 1
     /\ debugWait /\ ~ debugWait' => applied["debug"] = 1]_csrVars

\* Write back and the debug module are always answered, for an address that no
\* group has as well.
CsrProgress ==
  /\ atWb # <<>> ~> atWb = <<>>
  /\ debugWait ~> ~ debugWait

=============================================================================
