----------------------------- MODULE PtwArbiter -----------------------------
(***************************************************************************)
(* The page-table walker shared by the instruction and the data side, in   *)
(* ccore.bsv: rg_ptw_state says for whom it walks, and the accesses of the *)
(* walk share the port of the data cache with the core.                    *)
(*                                                                         *)
(* The TLBs, the walker and the data cache are outside: a TLB that misses  *)
(* asks for a translation and its side waits; the data cache takes nothing *)
(* from the core while it waits for one (docs/source/mmu.rst:43-44); a     *)
(* walk makes some accesses and answers.                                   *)
(***************************************************************************)
EXTENDS Naturals

CONSTANTS
  Pages,     \* pages a TLB may ask for
  Levels,    \* most accesses of a walk
  InFlight   \* instructions the pipeline holds

ASSUME PtwAssumption ==
  /\ Levels \in Nat \ {0}
  /\ InFlight \in Nat \ {0}

Side == {"I", "D"}

VARIABLES
  ptwState,  \* rg_ptw_state
  miss,      \* what the TLB of each side waits for
  sent,      \* the TLB's request is still in its FIFO
  walk,      \* from_tlb ... to_tlb: the page, and the accesses left to make
  access,    \* the walk's access: "none", "request" or "answer"
  gotten,    \* the page of the last answer each TLB got
  flying,    \* instructions fetched that may still access memory
  coreReq    \* memory_request of the core holds a request

ptwVars == <<ptwState, miss, sent, walk, access, gotten, flying, coreReq>>

PtwIdle ==
  /\ ptwState = "None"
  /\ miss = [s \in Side |-> <<>>]
  /\ sent = [s \in Side |-> FALSE]
  /\ walk = <<>>
  /\ access = "none"
  /\ gotten = [s \in Side |-> <<>>]
  /\ flying = 0
  /\ coreReq = FALSE

-----------------------------------------------------------------------------
(* The pipeline and the TLBs (external)                                       *)

\* An instruction arrives, unless its page is not in the TLB.
Fetches ==
  /\ miss["I"] = <<>>
  /\ flying < InFlight
  /\ flying' = flying + 1
  /\ UNCHANGED <<ptwState, miss, sent, walk, access, gotten, coreReq>>

Misses(s, page) ==
  /\ miss' = [miss EXCEPT ![s] = <<page>>]
  /\ sent' = [sent EXCEPT ![s] = TRUE]
  /\ gotten' = [gotten EXCEPT ![s] = <<>>]

FetchMisses(page) ==
  /\ miss["I"] = <<>>
  /\ Misses("I", page)
  /\ UNCHANGED <<ptwState, walk, access, flying, coreReq>>

\* An instruction in flight accesses memory, or leaves without doing so.
CoreRequests ==
  /\ flying > 0 /\ ~ coreReq
  /\ coreReq' = TRUE
  /\ flying' = flying - 1
  /\ UNCHANGED <<ptwState, miss, sent, walk, access, gotten>>

Leaves ==
  /\ flying > 0
  /\ flying' = flying - 1
  /\ UNCHANGED <<ptwState, miss, sent, walk, access, gotten, coreReq>>

-----------------------------------------------------------------------------
(* The port of the data cache                                                 *)

\* core_req_mkConnectionGetPut: the access hits or misses in the data TLB.
CoreAccessReady == coreReq /\ miss["D"] = <<>>

CoreAccessHits ==
  /\ CoreAccessReady
  /\ coreReq' = FALSE
  /\ UNCHANGED <<ptwState, miss, sent, walk, access, gotten, flying>>

CoreAccessMisses(page) ==
  /\ CoreAccessReady
  /\ coreReq' = FALSE
  /\ Misses("D", page)
  /\ UNCHANGED <<ptwState, walk, access, flying>>

\* ptwalk_req_mkConnectionGetPut: the core goes first.
WalkAccess ==
  /\ access = "request"
  /\ ~ CoreAccessReady
  /\ access' = "answer"
  /\ UNCHANGED <<ptwState, miss, sent, walk, gotten, flying, coreReq>>

WalkAccessAnswered ==
  /\ access = "answer"
  /\ access' = "none"
  /\ UNCHANGED <<ptwState, miss, sent, walk, gotten, flying, coreReq>>

\* The walker makes its next access.
WalkContinues ==
  /\ walk # <<>> /\ walk[1].left > 0
  /\ access = "none"
  /\ access' = "request"
  /\ \E n \in 0 .. (walk[1].left - 1) : walk' = <<[walk[1] EXCEPT !.left = n]>>
  /\ UNCHANGED <<ptwState, miss, sent, gotten, flying, coreReq>>

-----------------------------------------------------------------------------
(* rg_ptw_state                                                               *)

WalkFor(s) == IF s = "I" THEN "IWalk" ELSE "DWalk"

\* itlb_req_to_ptwalk and dtlb_req_to_ptwalk; the data side goes first.
TlbRequest(s) ==
  /\ ptwState = "None"
  /\ sent[s]
  /\ walk = <<>>
  /\ s = "I" => ~ sent["D"]
  /\ sent' = [sent EXCEPT ![s] = FALSE]
  /\ walk' = <<[page |-> miss[s][1], left |-> Levels]>>
  /\ ptwState' = WalkFor(s)
  /\ UNCHANGED <<miss, access, gotten, flying, coreReq>>

\* mutant: to the side that waits, as if only one could
AnswerToWaiting == {s \in Side : miss[s] # <<>>}

\* Whose turn the answer is.
AnswerTo == {s \in Side : ptwState = WalkFor(s)}

WalkEndsBusy == walk' = <<>> /\ UNCHANGED ptwState \* mutant

\* What is left of the walk when its answer is passed on.
WalkEnds == walk' = <<>> /\ ptwState' = "None"

\* ptwalk_resp_to_itlb and ptwalk_resp_to_dtlb
WalkResponse(s) ==
  /\ s \in AnswerTo
  /\ walk # <<>> /\ walk[1].left = 0 /\ access = "none"
  /\ gotten' = [gotten EXCEPT ![s] = <<walk[1].page>>]
  /\ miss' = [miss EXCEPT ![s] = <<>>]
  /\ WalkEnds
  /\ UNCHANGED <<sent, access, flying, coreReq>>

-----------------------------------------------------------------------------
PtwNext ==
  \/ Fetches
  \/ \E p \in Pages : FetchMisses(p)
  \/ CoreRequests
  \/ Leaves
  \/ CoreAccessHits
  \/ \E p \in Pages : CoreAccessMisses(p)
  \/ WalkAccess
  \/ WalkAccessAnswered
  \/ WalkContinues
  \/ \E s \in Side : TlbRequest(s) \/ WalkResponse(s)

PtwSpec == PtwIdle /\ [][PtwNext]_ptwVars

\* Rules fire when they can, the walker makes its accesses and the data cache
\* answers.  The pipeline need neither fetch nor access memory.
PtwFairness ==
  /\ WF_ptwVars(CoreAccessHits \/ \E p \in Pages : CoreAccessMisses(p))
  /\ WF_ptwVars(WalkAccess)
  /\ WF_ptwVars(WalkAccessAnswered)
  /\ WF_ptwVars(WalkContinues)
  /\ \A s \in Side : WF_ptwVars(TlbRequest(s)) /\ WF_ptwVars(WalkResponse(s))

-----------------------------------------------------------------------------
(* Properties                                                                 *)

\* With both TLBs waiting and one walker, the answer a TLB gets is for the
\* page it asked for.
WalkAnswersAsker ==
  [][\A s \in Side : miss[s] # <<>> /\ miss'[s] = <<>> => gotten'[s] = miss[s]]_ptwVars

\* Although the data side and the core's accesses go first, every TLB that
\* asks is answered: while fetch waits the core runs out of accesses.
WalkProgress == \A s \in Side : miss[s] # <<>> ~> miss[s] = <<>>

=============================================================================
