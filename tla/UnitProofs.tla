---------------------------- MODULE UnitProofs -----------------------------
(***************************************************************************)
(* Four units that share no state.                                         *)
(*                                                                         *)
(* The bus interface of ccore.bsv writes back whole lines, in order, and    *)
(* lets no read pass the words of a burst to its region: for any lines, any *)
(* length of a burst and depth of the queues and channels, and for fabrics *)
(* that serve reads before writes as well as for those that do not.        *)
(*                                                                         *)
(* Write back and the debug module share the chain of CSR groups without   *)
(* taking each other's answers, and an access is carried out once: for     *)
(* every number of groups and wherever the registers are, under the        *)
(* assumption that the debug module sends commands to a halted core only.  *)
(*                                                                         *)
(* A trap is returned from to where it interrupted, in the mode it         *)
(* interrupted, for any code addresses and handlers.                       *)
(*                                                                         *)
(* The shared page-table walker answers the side that asked, for any pages *)
(* and any length of a walk.                                               *)
(***************************************************************************)
EXTENDS LineBus, CsrChain, Traps, PtwArbiter,
        SequenceTheorems, FunctionTheorems, FiniteSetTheorems, TLAPS

Forwarder == 1 .. (Groups - 1)
Responder == 1 .. Groups

\* No request is in the chain.
ChainQuiet ==
  /\ \A g \in Forwarder : forward[g] = {}
  /\ \A g \in Responder : response[g] = {}

\* The request r is in the chain, at one place, or no request is: while a
\* group answers it is no longer on its way.
ChainServes(r) ==
  /\ \A g \in Forwarder : forward[g] \subseteq {r}
  /\ \A g, h \in Forwarder : forward[g] # {} /\ forward[h] # {} => g = h
  /\ \A g \in Responder : response[g] \subseteq {r}
  /\ Hit => \A g \in Forwarder : forward[g] = {}

Once(n) == n = IF Hit THEN 1 ELSE 0

MaybeAddr(S) == {<<>>} \cup {<<a>> : a \in S}

\* Who waits: write back and the debug module never do so together, because
\* a halted core has no CSR instruction in write back.
Waiting ==
  /\ atWb \in MaybeAddr(Csr)
  /\ command \in MaybeAddr(Csr \cup {Gpr})
  /\ csrWait \in BOOLEAN /\ debugWait \in BOOLEAN
  /\ csrWait => atWb # <<>>
  /\ debugWait => command # <<>> /\ debugResp = <<>>
  /\ command # <<>> => halted
  /\ halted => atWb = <<>>

\* The chain works for the one that waits and is quiet when nobody does.
ChainInv ==
  /\ ~ csrWait /\ ~ debugWait => ChainQuiet
  /\ csrWait => ChainServes(Request("core", atWb[1])) /\ Once(applied["core"])
  /\ debugWait => ChainServes(Request("debug", command[1])) /\ Once(applied["debug"])
  /\ atWb # <<>> /\ ~ csrWait => applied["core"] = 0

CsrInv == Waiting /\ ChainInv

-----------------------------------------------------------------------------
(* The chain                                                                  *)

LEMMA QuietNoHit == ChainQuiet => ~ Hit
  BY DEF ChainQuiet, Hit, Answers, Responder

\* The one that waits finds its own request alone among the answers.
LEMMA ServedAlone ==
  ASSUME NEW r, ChainServes(r), Hit
  PROVE  Answers = {r}
  BY DEF ChainServes, Hit, Answers, Responder

\* With nothing on its way and nothing new, the chain is quiet afterwards.
LEMMA ChainEnds ==
  ASSUME NEW fresh, ChainMoves({}, fresh), \A g \in Forwarder : forward[g] = {}
  PROVE  /\ ChainQuiet'
         /\ \A s \in Source : applied'[s] = IF s \in fresh THEN 0 + 0 ELSE applied[s] + 0
<1> DEFINE arriving == [g \in Responder |-> IF g = 1 THEN {} ELSE forward[g - 1]]
           answering == [g \in Responder |-> {req \in arriving[g] : AnsweredBy(g, req)}]
<1>1. \A g \in Responder : arriving[g] = {}
  BY CsrChainAssumption DEF CsrChainAssumption, Forwarder, Responder
<1>2. \A g \in Responder : answering[g] = {}
  BY <1>1
<1>3. /\ response' = answering
      /\ forward' = [g \in Forwarder |-> arriving[g] \ answering[g]]
  BY DEF ChainMoves, Forwarder, Responder
<1>4. Forwarder \subseteq Responder
  BY CsrChainAssumption DEF CsrChainAssumption, Forwarder, Responder
<1>5. ChainQuiet'
  <2> HIDE DEF arriving, answering
  <2> QED BY <1>1, <1>2, <1>3, <1>4 DEF ChainQuiet
<1>6. applied' = [s \in Source |->
                    (IF s \in fresh THEN 0 ELSE applied[s])
                    + (IF \E g \in Responder : \E req \in answering[g] : req.source = s
                       THEN 1 ELSE 0)]
  BY DEF ChainMoves, Responder
<1>7. \A s \in Source : applied'[s] = IF s \in fresh THEN 0 + 0 ELSE applied[s] + 0
  <2> HIDE DEF answering
  <2> QED BY <1>2, <1>6
<1> QED BY <1>5, <1>7

\* A request that is in one place is in one place a cycle later, and counted
\* when a group has answered it.
LEMMA ChainGoesOn ==
  ASSUME NEW s \in Source, NEW r, r.source = s,
         NEW new, NEW fresh, ChainMoves(new, fresh),
         \/ new = {r} /\ ChainQuiet
         \/ new = {} /\ ChainServes(r)
  PROVE  /\ ChainServes(r)'
         /\ applied'[s] = (IF s \in fresh THEN 0 ELSE applied[s]) + (IF Hit' THEN 1 ELSE 0)
<1> DEFINE arriving == [g \in Responder |-> IF g = 1 THEN new ELSE forward[g - 1]]
           answering == [g \in Responder |-> {req \in arriving[g] : AnsweredBy(g, req)}]
<1>0. /\ new \subseteq {r}
      /\ \A g \in Forwarder : forward[g] \subseteq {r}
      /\ \A g, h \in Forwarder : forward[g] # {} /\ forward[h] # {} => g = h
      /\ new # {} => \A g \in Forwarder : forward[g] = {}
  BY DEF ChainQuiet, ChainServes
<1>1. Forwarder \subseteq Responder /\ \A g \in Responder : g # 1 => g - 1 \in Forwarder
  BY CsrChainAssumption DEF CsrChainAssumption, Forwarder, Responder
<1>2. \A g \in Responder : arriving[g] = IF g = 1 THEN new ELSE forward[g - 1]
  OBVIOUS
<1>3. \A g \in Responder : arriving[g] \subseteq {r}
  BY <1>0, <1>1, <1>2
<1>4. \A g, h \in Responder : arriving[g] # {} /\ arriving[h] # {} => g = h
  BY <1>0, <1>1, <1>2 DEF Responder
<1>5. \A g \in Responder : answering[g] = {req \in arriving[g] : AnsweredBy(g, req)}
  OBVIOUS
<1>6. /\ response' = answering
      /\ forward' = [g \in Forwarder |-> arriving[g] \ answering[g]]
  BY DEF ChainMoves, Forwarder, Responder
<1>7. applied' = [t \in Source |->
                    (IF t \in fresh THEN 0 ELSE applied[t])
                    + (IF \E g \in Responder : \E req \in answering[g] : req.source = t
                       THEN 1 ELSE 0)]
  BY DEF ChainMoves, Responder
<1> HIDE DEF arriving, answering
<1>8. \A g \in Responder : answering[g] \subseteq arriving[g]
  BY <1>5
<1>9. Hit' <=> \E g \in Responder : answering[g] # {}
  BY <1>6 DEF Hit, Answers, Responder
<1>10. \A g \in Responder : answering[g] # {} => answering[g] = arriving[g] /\ answering[g] = {r}
  BY <1>3, <1>8
<1>11. Hit' => \A g \in Forwarder : forward'[g] = {}
  <2> SUFFICES ASSUME Hit', NEW g \in Forwarder PROVE arriving[g] \ answering[g] = {}
    BY <1>6
  <2>1. PICK h \in Responder : answering[h] # {}
    BY <1>9
  <2>2. arriving[h] # {} /\ arriving[h] = answering[h]
    BY <2>1, <1>10
  <2>3. g # h => arriving[g] = {}
    BY <2>2, <1>1, <1>4
  <2> QED BY <2>2, <2>3
<1>12. ChainServes(r)'
  <2>1. \A g \in Forwarder : forward'[g] \subseteq {r}
    BY <1>1, <1>3, <1>6
  <2>2. \A g, h \in Forwarder : forward'[g] # {} /\ forward'[h] # {} => g = h
    BY <1>1, <1>4, <1>6
  <2>3. \A g \in Responder : response'[g] \subseteq {r}
    BY <1>3, <1>6, <1>8
  <2> QED BY <1>11, <2>1, <2>2, <2>3 DEF ChainServes
<1>13. Hit' <=> \E g \in Responder : \E req \in answering[g] : req.source = s
  BY <1>9, <1>10
<1> QED BY <1>7, <1>12, <1>13

-----------------------------------------------------------------------------
(* The rules                                                                  *)

LEMMA RequestOf ==
  /\ Request("core", atWb[1]).source = "core"
  /\ Request("debug", command[1]).source = "debug"
  /\ "core" \in Source /\ "debug" \in Source
  BY DEF Request, Source

\* instruction_commit with what the debug side does in the same cycle: a wait
\* of the debug side ends with a hit.
LEMMA CommitKeepsChain ==
  ASSUME CsrInv, Commit,
         debugWait' \in BOOLEAN,
         debugWait' <=> debugWait /\ ~ Hit,
         debugWait => command' = command
  PROVE  ChainInv'
<1> PICK core, debug : core = Request("core", atWb[1]) /\ debug = Request("debug", command[1])
  OBVIOUS
<1>0. core.source = "core" /\ debug.source = "debug"
  BY DEF Request
<1>1. CASE atWb = <<>>
  <2>1. ~ csrWait /\ ~ Sends /\ atWb' = <<>> /\ ~ csrWait'
    BY <1>1 DEF CsrInv, Waiting, Commit, Sends
  <2>2. ChainMoves({}, {})
    BY <2>1 DEF Commit
  <2>3. CASE debugWait /\ ~ Hit
    <3>1. ChainServes(debug) /\ applied["debug"] = 0
      BY <2>3 DEF CsrInv, ChainInv, Once
    <3>2. ChainServes(debug)' /\ applied'["debug"] = applied["debug"] + (IF Hit' THEN 1 ELSE 0)
      BY <1>0, <2>2, <2>3, <3>1, ChainGoesOn, RequestOf
    <3>3. debug = Request("debug", command'[1])
      BY <2>3
    <3>4. Once(applied["debug"])'
      BY <3>1, <3>2 DEF Once
    <3> QED BY <2>1, <2>3, <3>2, <3>3, <3>4 DEF ChainInv
  <2>4. CASE ~ (debugWait /\ ~ Hit)
    <3>1. \A g \in Forwarder : forward[g] = {}
      BY <2>1, <2>4 DEF CsrInv, ChainInv, ChainQuiet, ChainServes
    <3>2. ChainQuiet'
      BY <2>2, <3>1, ChainEnds
    <3> QED BY <2>1, <2>4, <3>2 DEF ChainInv
  <2> QED BY <2>3, <2>4
<1>2. CASE atWb # <<>>
  <2>1. ~ debugWait /\ ~ debugWait'
    BY <1>2 DEF CsrInv, Waiting
  <2>2. CASE csrWait /\ Hit
    <3>1. ~ Sends /\ atWb' = <<>> /\ ~ csrWait' /\ ChainMoves({}, {})
      BY <1>2, <2>2 DEF Commit, Sends
    <3>2. ChainQuiet'
      BY <2>2, <3>1, ChainEnds DEF CsrInv, ChainInv, ChainServes
    <3> QED BY <2>1, <3>1, <3>2 DEF ChainInv
  <2>3. CASE csrWait /\ ~ Hit
    <3>1. ~ Sends /\ atWb' = atWb /\ csrWait' /\ ChainMoves({}, {})
      BY <1>2, <2>3 DEF Commit, Sends
    <3>2. ChainServes(core) /\ applied["core"] = 0
      BY <2>3 DEF CsrInv, ChainInv, Once
    <3>3. ChainServes(core)' /\ applied'["core"] = applied["core"] + (IF Hit' THEN 1 ELSE 0)
      BY <1>0, <2>3, <3>1, <3>2, ChainGoesOn, RequestOf
    <3>4. Once(applied["core"])'
      BY <3>2, <3>3 DEF Once
    <3>5. core = Request("core", atWb'[1])
      BY <3>1
    <3> QED BY <2>1, <3>1, <3>3, <3>4, <3>5 DEF ChainInv
  <2>4. CASE ~ csrWait
    <3>1. ChainQuiet /\ ~ Hit /\ applied["core"] = 0
      BY <1>2, <2>1, <2>4, QuietNoHit DEF CsrInv, ChainInv
    <3>2. atWb' = atWb /\ csrWait' /\ ChainMoves({core}, {})
      BY <1>2, <2>4, <3>1 DEF Commit, Sends
    <3>3. ChainServes(core)' /\ applied'["core"] = applied["core"] + (IF Hit' THEN 1 ELSE 0)
      BY <1>0, <3>1, <3>2, ChainGoesOn, RequestOf
    <3>4. Once(applied["core"])'
      BY <3>1, <3>3 DEF Once
    <3>5. core = Request("core", atWb'[1])
      BY <3>2
    <3> QED BY <2>1, <3>2, <3>3, <3>4, <3>5 DEF ChainInv
  <2> QED BY <2>2, <2>3, <2>4 DEF CsrInv, Waiting
<1> QED BY <1>1, <1>2

\* What instruction_commit leaves write back waiting for.
LEMMA CommitKeepsWaiting ==
  ASSUME CsrInv, Commit
  PROVE  /\ atWb' \in MaybeAddr(Csr)
         /\ csrWait' \in BOOLEAN /\ (csrWait' => atWb' # <<>>)
         /\ atWb' = atWb \/ atWb' = <<>>
<1>1. atWb' = IF atWb # <<>> /\ Hit THEN <<>> ELSE atWb
  BY DEF Commit
<1>2. csrWait' \in BOOLEAN /\ (csrWait' <=> atWb # <<>> /\ (Sends \/ ~ Hit))
  BY DEF Commit
<1>3. Sends => ~ Hit
  BY QuietNoHit DEF CsrInv, Waiting, ChainInv, Sends
<1>4. atWb' \in MaybeAddr(Csr)
  BY <1>1 DEF CsrInv, Waiting, MaybeAddr
<1> QED BY <1>1, <1>2, <1>3, <1>4

LEMMA DebugAnsweredWait ==
  ASSUME CsrInv, DebugAnswered
  PROVE  /\ debugWait' \in BOOLEAN
         /\ debugWait' <=> debugWait /\ ~ Hit
         /\ debugWait' => debugResp' = <<>>
  BY DEF CsrInv, Waiting, DebugAnswered

\* A CSR instruction arrives at a chain that is quiet.
LEMMA ArrivesKeepsInv ==
  ASSUME CsrInv, NEW a \in Csr, Arrives(a)
  PROVE  CsrInv'
<1>1. ~ csrWait /\ ~ debugWait /\ command = <<>> /\ ChainQuiet
  BY DEF CsrInv, Waiting, ChainInv, Arrives
<1>2. ChainMoves({}, {"core"}) /\ atWb' = <<a>> /\ csrWait' = FALSE
  BY DEF Arrives
<1>3. debugWait' = FALSE /\ command' = <<>> /\ halted' = FALSE
  BY <1>1, DebugAnsweredWait DEF Arrives, CsrInv, Waiting
<1>4. ChainQuiet' /\ applied'["core"] = 0
  BY <1>1, <1>2, ChainEnds, RequestOf DEF ChainQuiet
<1>5. Waiting'
  BY <1>2, <1>3 DEF Waiting, MaybeAddr
<1> QED BY <1>2, <1>3, <1>4, <1>5 DEF CsrInv, ChainInv

\* abstractOperation for a CSR finds the chain quiet, so it never takes an
\* answer in the cycle of the request.
LEMMA AbstractCsrWaits ==
  ASSUME DebugNeedsHalt, CsrInv, NEW a \in Csr, AbstractCsr(a)
  PROVE  CsrInv' /\ debugResp' = debugResp /\ debugWait'
<1>1. halted /\ atWb = <<>> /\ ~ csrWait /\ ~ debugWait /\ ChainQuiet /\ ~ Hit
  BY QuietNoHit DEF CsrInv, Waiting, ChainInv, AbstractCsr, MayCommand
<1>2. /\ ChainMoves({Request("debug", a)}, {"debug"})
      /\ command' = <<a>> /\ csrWait' = FALSE /\ debugWait' = TRUE
      /\ debugResp' = debugResp /\ debugResp = <<>>
      /\ atWb' = <<>> /\ halted' = halted
  BY <1>1 DEF AbstractCsr, MayCommand
<1>3. ChainServes(Request("debug", a))' /\ applied'["debug"] = 0 + (IF Hit' THEN 1 ELSE 0)
  <2>1. PICK r : r = Request("debug", a)
    OBVIOUS
  <2>2. r.source = "debug"
    BY <2>1 DEF Request
  <2>3. ChainMoves({r}, {"debug"})
    BY <1>2, <2>1
  <2>4. ChainServes(r)' /\ applied'["debug"] = 0 + (IF Hit' THEN 1 ELSE 0)
    BY <1>1, <2>2, <2>3, ChainGoesOn, RequestOf
  <2> QED BY <2>1, <2>4
<1>4. ChainServes(Request("debug", command[1]))' /\ Once(applied["debug"])'
  BY <1>2, <1>3 DEF Once
<1>5. Waiting'
  BY <1>1, <1>2 DEF Waiting, MaybeAddr
<1> QED BY <1>2, <1>4, <1>5 DEF CsrInv, ChainInv

LEMMA CsrInitInv == CsrIdle => CsrInv
  BY DEF CsrIdle, CsrInv, Waiting, MaybeAddr, ChainInv, ChainQuiet, Forwarder, Responder

\* The rules in which write back and the debug side take what the chain
\* answers, and nothing begins.
LEMMA CommitKeepsInv ==
  ASSUME CsrInv, Commit, DebugAnswered, command' = command,
         halted' = halted \/ (atWb = <<>> /\ (command = <<>> \/ halted'))
  PROVE  CsrInv'
<1>1. ChainInv'
  BY CommitKeepsChain, DebugAnsweredWait
<1>2. Waiting'
  BY CommitKeepsWaiting, DebugAnsweredWait DEF CsrInv, Waiting
<1> QED BY <1>1, <1>2 DEF CsrInv

\* The rules of the debug interface in which it waits for nothing.
LEMMA NoWaitKeepsInv ==
  ASSUME CsrInv, Commit, debugWait = FALSE, debugWait' = FALSE, halted' = halted,
         command' \in MaybeAddr(Csr \cup {Gpr}), command' # <<>> => halted
  PROVE  CsrInv'
<1>1. ChainInv'
  BY CommitKeepsChain
<1>2. Waiting'
  BY CommitKeepsWaiting DEF CsrInv, Waiting
<1> QED BY <1>1, <1>2 DEF CsrInv

LEMMA CsrNextInv == DebugNeedsHalt /\ CsrInv /\ [CsrNext]_csrVars => CsrInv'
<1> SUFFICES ASSUME DebugNeedsHalt, CsrInv, [CsrNext]_csrVars PROVE CsrInv'
  OBVIOUS
<1>1. CASE Cycle
  BY <1>1, CommitKeepsInv DEF Cycle
<1>2. CASE \E a \in Csr : Arrives(a)
  BY <1>2, ArrivesKeepsInv
<1>3. CASE \E a \in Csr : AbstractCsr(a)
  BY <1>3, AbstractCsrWaits
<1>4. CASE Halts
  BY <1>4, CommitKeepsInv DEF Halts
<1>5. CASE Resumes
  BY <1>5, CommitKeepsInv DEF Resumes
<1>6. CASE AbstractGpr
  <2>1. halted /\ debugWait = FALSE /\ debugWait' = FALSE
    BY <1>6 DEF AbstractGpr, MayCommand, CsrInv, Waiting
  <2>2. command' \in MaybeAddr(Csr \cup {Gpr})
    BY <1>6 DEF AbstractGpr, MaybeAddr
  <2> QED BY <1>6, <2>1, <2>2, NoWaitKeepsInv DEF AbstractGpr
<1>7. CASE AbstractRead
  <2>1. debugWait = FALSE /\ debugWait' = FALSE
    BY <1>7 DEF AbstractRead, CsrInv, Waiting
  <2>2. command' = <<>> /\ command' \in MaybeAddr(Csr \cup {Gpr})
    BY <1>7 DEF AbstractRead, MaybeAddr
  <2> QED BY <1>7, <2>1, <2>2, NoWaitKeepsInv DEF AbstractRead
<1>8. CASE UNCHANGED csrVars
  BY <1>8 DEF csrVars, CsrInv, Waiting, ChainInv, ChainQuiet, ChainServes, Once, Hit, Answers
<1> QED BY <1>1, <1>2, <1>3, <1>4, <1>5, <1>6, <1>7, <1>8 DEF CsrNext

LEMMA InvariantOfCsr == DebugNeedsHalt => (CsrSpec => []CsrInv)
<1> SUFFICES ASSUME DebugNeedsHalt PROVE CsrSpec => []CsrInv
  OBVIOUS
<1> QED BY CsrInitInv, CsrNextInv, PTL DEF CsrSpec

-----------------------------------------------------------------------------
(* What is taken                                                              *)

\* Write back takes a value only in instruction_commit, with a hit; then the
\* request is its own and has been carried out.
LEMMA CommitTakesOwn ==
  ASSUME CsrInv, Commit, atWb # <<>>, atWb' = <<>>
  PROVE  rd' = {Request("core", atWb[1])} /\ applied["core"] = 1
<1>1. Hit /\ rd' = Answers
  BY DEF Commit
<1>2. csrWait
  BY <1>1, QuietNoHit DEF CsrInv, Waiting, ChainInv
<1>3. PICK r : r = Request("core", atWb[1])
  OBVIOUS
<1>4. ChainServes(r) /\ Once(applied["core"])
  BY <1>2, <1>3 DEF CsrInv, ChainInv
<1>5. Answers = {r}
  BY <1>1, <1>4, ServedAlone
<1> QED BY <1>1, <1>3, <1>4, <1>5 DEF Once

LEMMA DebugTakesOwn ==
  ASSUME CsrInv, DebugAnswered, debugWait, ~ debugWait' \/ debugResp' # debugResp
  PROVE  /\ debugResp' = <<{Request("debug", command[1])}>>
         /\ applied["debug"] = 1
         /\ \E addr \in Csr \cup {Gpr} : command = <<addr>>
<1>1. Hit /\ debugResp' = <<Answers>>
  BY DEF DebugAnswered
<1>2. PICK r : r = Request("debug", command[1])
  OBVIOUS
<1>3. ChainServes(r) /\ Once(applied["debug"])
  BY <1>2 DEF CsrInv, ChainInv
<1>4. Answers = {r}
  BY <1>1, <1>3, ServedAlone
<1>5. \E addr \in Csr \cup {Gpr} : command = <<addr>>
  BY DEF CsrInv, Waiting, MaybeAddr
<1> QED BY <1>1, <1>2, <1>3, <1>4, <1>5 DEF Once

CoreTakes == atWb # <<>> /\ atWb' = <<>>
DebugTakes == debugResp = <<>> /\ debugResp' # <<>>
DebugEnds == debugWait /\ ~ debugWait'

LEMMA StepTakesOwn ==
  ASSUME DebugNeedsHalt, CsrInv, [CsrNext]_csrVars
  PROVE  /\ CoreTakes => rd' = {Request("core", atWb[1])} /\ applied["core"] = 1
         /\ DebugTakes => \E addr \in Csr \cup {Gpr} :
              command' = <<addr>> /\ debugResp' = <<{Request("debug", addr)}>>
         /\ DebugEnds => applied["debug"] = 1
<1>1. ASSUME Commit
      PROVE  CoreTakes => rd' = {Request("core", atWb[1])} /\ applied["core"] = 1
  BY <1>1, CommitTakesOwn DEF CoreTakes
<1>2. ASSUME DebugAnswered, command' = command
      PROVE  /\ DebugTakes => \E addr \in Csr \cup {Gpr} :
                  command' = <<addr>> /\ debugResp' = <<{Request("debug", addr)}>>
             /\ DebugEnds => applied["debug"] = 1
  <2>1. DebugTakes => debugWait
    BY <1>2 DEF DebugAnswered, DebugTakes
  <2> QED BY <1>2, <2>1, DebugTakesOwn DEF DebugTakes, DebugEnds
<1>3. CASE Cycle \/ Halts \/ Resumes
  BY <1>1, <1>2, <1>3 DEF Cycle, Halts, Resumes
<1>4. CASE \E a \in Csr : Arrives(a)
  BY <1>2, <1>4 DEF Arrives, CoreTakes
<1>5. CASE \E a \in Csr : AbstractCsr(a)
  BY <1>5, AbstractCsrWaits DEF AbstractCsr, CoreTakes, DebugTakes, DebugEnds
<1>6. CASE AbstractGpr
  <2>1. command' = <<Gpr>> /\ debugResp' = <<{Request("debug", Gpr)}>> /\ debugWait' = debugWait
    BY <1>6 DEF AbstractGpr
  <2> QED BY <1>1, <1>6, <2>1 DEF AbstractGpr, DebugEnds
<1>7. CASE AbstractRead
  BY <1>1, <1>7 DEF AbstractRead, DebugTakes, DebugEnds
<1>8. CASE UNCHANGED csrVars
  BY <1>8 DEF csrVars, CoreTakes, DebugTakes, DebugEnds
<1> QED BY <1>3, <1>4, <1>5, <1>6, <1>7, <1>8 DEF CsrNext

\* The answers of the chain name nobody, and write back and the debug module
\* look at the same ones: each takes the answer to its own request, alone.
THEOREM CsrChainAnswersOwn == DebugNeedsHalt => (CsrSpec => CsrAnswersOwn)
<1> SUFFICES ASSUME DebugNeedsHalt PROVE CsrSpec => CsrAnswersOwn
  OBVIOUS
<1>1. CsrInv /\ [CsrNext]_csrVars =>
        [/\ atWb # <<>> /\ atWb' = <<>> => rd' = {Request("core", atWb[1])}
         /\ debugResp = <<>> /\ debugResp' # <<>> =>
              \E addr \in Csr \cup {Gpr} :
                command' = <<addr>> /\ debugResp' = <<{Request("debug", addr)}>>]_csrVars
  BY StepTakesOwn DEF CoreTakes, DebugTakes
<1> QED BY <1>1, InvariantOfCsr, PTL DEF CsrSpec, CsrAnswersOwn

\* The commit rule fires in each cycle of the wait, but the access, which may
\* change a register, is carried out once.
THEOREM CsrChainAppliesOnce == DebugNeedsHalt => (CsrSpec => CsrAppliedOnce)
<1> SUFFICES ASSUME DebugNeedsHalt PROVE CsrSpec => CsrAppliedOnce
  OBVIOUS
<1>1. CsrInv /\ [CsrNext]_csrVars =>
        [/\ atWb # <<>> /\ atWb' = <<>> => applied["core"] = 1
         /\ debugWait /\ ~ debugWait' => applied["debug"] = 1]_csrVars
  BY StepTakesOwn DEF CoreTakes, DebugEnds
<1> QED BY <1>1, InvariantOfCsr, PTL DEF CsrSpec, CsrAppliedOnce

-----------------------------------------------------------------------------
(***************************************************************************)
(* What the trap registers promise (Traps), for every set of causes,       *)
(* addresses and handlers, with or without S and N: a return restores what *)
(* the trap into its mode has interrupted, and an interrupt goes to a mode *)
(* above or to one that has it enabled.                                    *)
(***************************************************************************)

Context == [prv : Mode, ie : BOOLEAN, at : CodeAddr]

TrapsTypeOK ==
  /\ prv \in Mode
  /\ at \in CodeAddr
  /\ ie \in [Mode -> BOOLEAN]
  /\ pie \in [Mode -> BOOLEAN]
  /\ mpp \in Mode
  /\ spp \in {User, Supervisor}
  /\ xepc \in [Mode -> CodeAddr]
  /\ pend \subseteq Interrupt
  /\ decoded \in {<<>>} \cup {<<i>> : i \in Interrupt}
  /\ saved \in [Mode -> {<<>>} \cup {<<r>> : r \in Context}]

\* The mode a return from m goes back to.
HeldMode(m) == CASE m = Machine -> mpp [] m = Supervisor -> spp [] m = User -> User

\* The registers of a mode hold what its last trap has interrupted.
Holds(m) ==
  saved[m] # <<>> =>
    saved[m][1] = [prv |-> HeldMode(m), ie |-> pie[m], at |-> xepc[m]]

\* An interrupt on its way is still enabled where decode has found it to be;
\* only its line may have fallen.
StillEnabled ==
  decoded # <<>> =>
    \/ (prv # Machine \/ ie[Machine]) /\ decoded[1] \notin mdeleg
    \/ /\ SupervisorMode
       /\ prv = User \/ (prv = Supervisor /\ ie[Supervisor])
       /\ decoded[1] \in mdeleg
    \/ UserTraps /\ prv = User /\ ie[User] /\ decoded[1] \in mdeleg

TrapsInv ==
  /\ TrapsTypeOK
  /\ \A m \in Mode : Holds(m)
  /\ StillEnabled

-----------------------------------------------------------------------------
(* Where a trap goes                                                          *)

\* The mode of a trap is one of the three; below machine mode it is one that
\* can save the interrupted mode: the supervisor's one bit is enough.
LEMMA TargetSaves ==
  ASSUME prv \in Mode, NEW c
  PROVE  /\ Target(c) \in Mode
         /\ Target(c) = Supervisor => prv % 2 = prv
         /\ Target(c) = User => prv = User
<1>1. CASE c \in mdeleg /\ prv <= Supervisor /\ SupervisorMode
  <2>1. Target(c) = Supervisor
    BY <1>1 DEF Target
  <2>2. prv \in {0, 1}
    BY <1>1 DEF Mode, User, Supervisor, Machine
  <2> QED
    BY <2>1, <2>2 DEF Mode, User, Supervisor, Machine
<1>2. CASE /\ ~ (c \in mdeleg /\ prv <= Supervisor /\ SupervisorMode)
           /\ c \in mdeleg /\ prv = User /\ UserTraps /\ ~ SupervisorMode
  <2>1. Target(c) = User
    BY <1>2 DEF Target
  <2> QED
    BY <1>2, <2>1 DEF Mode, User, Supervisor, Machine
<1>3. CASE /\ ~ (c \in mdeleg /\ prv <= Supervisor /\ SupervisorMode)
           /\ ~ (c \in mdeleg /\ prv = User /\ UserTraps /\ ~ SupervisorMode)
  <2>1. Target(c) = Machine
    BY <1>3 DEF Target
  <2> QED
    BY <2>1 DEF Mode, User, Supervisor, Machine
<1> QED
  BY <1>1, <1>2, <1>3

\* Taking a trap saves what it interrupts, leaves what other modes have saved
\* and drops the interrupt on its way.
LEMMA TrapKeeps ==
  ASSUME TrapsInv, NEW c \in Cause, TakeTrap(c)
  PROVE  TrapsInv'
<1> DEFINE m == Target(c)
<1>1. /\ m \in Mode
      /\ m = Supervisor => prv % 2 = prv
      /\ m = User => prv = User
  BY TargetSaves DEF TrapsInv, TrapsTypeOK
<1>2. PICK t \in Mode : t = m
  BY <1>1
<1>3. TrapInto(t, c) /\ decoded' = <<>> /\ UNCHANGED pend
  BY <1>2 DEF TakeTrap
<1>4. TrapsTypeOK'
  <2>1. HandlerOf[t][c] \in CodeAddr
    BY TrapsAssumption
  <2>2. [prv |-> prv, ie |-> ie[t], at |-> at] \in Context
    BY DEF TrapsInv, TrapsTypeOK, Context
  <2>3. saved' \in [Mode -> {<<>>} \cup {<<r>> : r \in Context}]
    BY <1>3, <2>2 DEF TrapInto, TrapsInv, TrapsTypeOK
  <2>4. mpp' \in Mode /\ spp' \in {User, Supervisor}
    BY <1>1, <1>2, <1>3 DEF TrapInto, TrapsInv, TrapsTypeOK, Mode, User, Supervisor, Machine
  <2> QED
    BY <1>3, <2>1, <2>3, <2>4 DEF TrapInto, TrapsInv, TrapsTypeOK
<1>5. ASSUME NEW n \in Mode PROVE Holds(n)'
  <2>1. CASE n = t
    <3>1. saved'[n] = <<[prv |-> prv, ie |-> ie[n], at |-> at]>>
      BY <1>3, <2>1 DEF TrapInto, TrapsInv, TrapsTypeOK
    <3>2. pie'[n] = ie[n] /\ xepc'[n] = at
      BY <1>3, <2>1 DEF TrapInto, TrapsInv, TrapsTypeOK
    <3>3. HeldMode(n)' = prv
      BY <1>1, <1>2, <1>3, <2>1 DEF TrapInto, HeldMode, Mode, User, Supervisor, Machine
    <3> QED
      BY <3>1, <3>2, <3>3 DEF Holds
  <2>2. CASE n # t
    <3>1. saved'[n] = saved[n] /\ pie'[n] = pie[n] /\ xepc'[n] = xepc[n]
      BY <1>3, <2>2 DEF TrapInto, TrapsInv, TrapsTypeOK
    <3>2. HeldMode(n)' = HeldMode(n)
      BY <1>3, <2>2 DEF TrapInto, HeldMode, Mode, User, Supervisor, Machine
    <3> QED
      BY <3>1, <3>2 DEF Holds, TrapsInv
  <2> QED
    BY <2>1, <2>2
<1>6. StillEnabled'
  BY <1>3 DEF StillEnabled
<1> QED
  BY <1>4, <1>5, <1>6 DEF TrapsInv

-----------------------------------------------------------------------------
(* The invariant                                                              *)

\* The registers hold what was interrupted in every reachable state.
THEOREM TrapsInvariance == TrapsSpec => []TrapsInv
<1>1. TrapsIdle => TrapsInv
  <2> SUFFICES ASSUME TrapsIdle PROVE TrapsInv
    OBVIOUS
  <2>1. TrapsTypeOK
    BY DEF TrapsIdle, TrapsTypeOK, None, Mode, User, Supervisor, Machine
  <2>2. ASSUME NEW m \in Mode PROVE Holds(m)
    BY DEF TrapsIdle, Holds, None
  <2>3. StillEnabled
    BY DEF TrapsIdle, StillEnabled
  <2> QED
    BY <2>1, <2>2, <2>3 DEF TrapsInv
<1>2. TrapsInv /\ [TrapsNext]_trapVars => TrapsInv'
  <2> SUFFICES ASSUME TrapsInv, [TrapsNext]_trapVars PROVE TrapsInv'
    OBVIOUS
  <2>1. CASE Sample
    <3>1. PICK i \in PendingInterrupts : decoded' = <<i>>
      BY <2>1 DEF Sample
    <3>2. UNCHANGED <<prv, at, ie, pie, mpp, spp, xepc, pend, mdeleg, saved>>
      BY <2>1 DEF Sample
    <3>3. TrapsTypeOK'
      BY <3>1, <3>2 DEF PendingInterrupts, TrapsInv, TrapsTypeOK
    <3>4. \A m \in Mode : Holds(m)'
      BY <3>2 DEF TrapsInv, Holds, HeldMode
    <3>5. StillEnabled'
      BY <3>1, <3>2 DEF PendingInterrupts, StillEnabled
    <3> QED
      BY <3>3, <3>4, <3>5 DEF TrapsInv
  <2>2. CASE Squashed
    <3>1. UNCHANGED <<prv, at, ie, pie, mpp, spp, xepc, pend, mdeleg, saved>> /\ decoded' = <<>>
      BY <2>2 DEF Squashed
    <3>2. TrapsTypeOK' /\ StillEnabled'
      BY <3>1 DEF TrapsInv, TrapsTypeOK, StillEnabled
    <3>3. \A m \in Mode : Holds(m)'
      BY <3>1 DEF TrapsInv, Holds, HeldMode
    <3> QED
      BY <3>2, <3>3 DEF TrapsInv
  <2>3. CASE TakesInterrupt
    <3>1. decoded[1] \in Interrupt
      BY <2>3 DEF TakesInterrupt, TrapsInv, TrapsTypeOK
    <3>2. PICK c : c = decoded[1]
      OBVIOUS
    <3> QED
      BY <2>3, <3>1, <3>2, TrapKeeps DEF TakesInterrupt, Cause
  <2>4. CASE Except
    BY <2>4, TrapKeeps DEF Except, Cause
  <2>5. ASSUME NEW m \in Mode, Returns(m) PROVE TrapsInv'
    <3>1. decoded = <<>> /\ UNCHANGED <<xepc, pend, mdeleg, decoded>>
      BY <2>5 DEF Returns
    <3>2. prv' \in Mode /\ mpp' \in Mode /\ spp' \in {User, Supervisor}
      BY <2>5 DEF Returns, TrapsInv, TrapsTypeOK, Mode, User, Supervisor, Machine
    <3>3. at' \in CodeAddr
      BY <2>5 DEF Returns, TrapsInv, TrapsTypeOK
    <3>4. /\ ie' \in [Mode -> BOOLEAN] /\ pie' \in [Mode -> BOOLEAN]
          /\ saved' \in [Mode -> {<<>>} \cup {<<r>> : r \in Context}]
      BY <2>5 DEF Returns, TrapsInv, TrapsTypeOK
    <3>5. TrapsTypeOK'
      BY <3>1, <3>2, <3>3, <3>4 DEF TrapsInv, TrapsTypeOK
    <3>6. ASSUME NEW n \in Mode PROVE Holds(n)'
      <4>1. CASE n = m
        BY <2>5, <4>1 DEF Returns, Holds, TrapsInv, TrapsTypeOK
      <4>2. CASE n # m
        <5>1. saved'[n] = saved[n] /\ pie'[n] = pie[n] /\ xepc'[n] = xepc[n]
          BY <2>5, <4>2 DEF Returns, TrapsInv, TrapsTypeOK
        <5>2. HeldMode(n)' = HeldMode(n)
          BY <2>5, <4>2 DEF Returns, HeldMode, Mode, User, Supervisor, Machine
        <5> QED
          BY <5>1, <5>2 DEF Holds, TrapsInv
      <4> QED
        BY <4>1, <4>2
    <3>7. StillEnabled'
      BY <3>1 DEF StillEnabled
    <3> QED
      BY <3>5, <3>6, <3>7 DEF TrapsInv
  <2>6. ASSUME NEW m \in Mode, WritesStatus(m) PROVE TrapsInv'
    <3>1. decoded = <<>> /\ UNCHANGED <<prv, at, xepc, pend, mdeleg, decoded>>
      BY <2>6 DEF WritesStatus, Writes
    <3>2. PICK e, p \in [Fields(m) -> BOOLEAN] :
            /\ ie' = [l \in Mode |-> IF l \in Fields(m) THEN e[l] ELSE ie[l]]
            /\ pie' = [l \in Mode |-> IF l \in Fields(m) THEN p[l] ELSE pie[l]]
      BY <2>6 DEF WritesStatus
    <3>3. ie' \in [Mode -> BOOLEAN] /\ pie' \in [Mode -> BOOLEAN]
      BY <3>2 DEF TrapsInv, TrapsTypeOK
    <3>4. mpp' \in Mode /\ spp' \in {User, Supervisor}
      BY <2>6 DEF WritesStatus, TrapsInv, TrapsTypeOK
    <3>5. saved' = [l \in Mode |-> IF l \in Fields(m) THEN <<>> ELSE saved[l]]
      BY <2>6 DEF WritesStatus
    <3>6. TrapsTypeOK'
      BY <3>1, <3>3, <3>4, <3>5 DEF TrapsInv, TrapsTypeOK
    <3>7. ASSUME NEW n \in Mode PROVE Holds(n)'
      <4>1. CASE n \in Fields(m)
        BY <3>5, <4>1 DEF Holds
      <4>2. CASE n \notin Fields(m)
        <5>1. saved'[n] = saved[n] /\ pie'[n] = pie[n] /\ xepc'[n] = xepc[n]
          BY <3>1, <3>2, <3>5, <4>2
        <5>2. m \in Fields(m)
          BY <2>6 DEF WritesStatus
        <5>3. HeldMode(n)' = HeldMode(n)
          BY <2>6, <4>2, <5>2 DEF WritesStatus, HeldMode, Mode, User, Supervisor, Machine
        <5> QED
          BY <5>1, <5>3 DEF Holds, TrapsInv
      <4> QED
        BY <4>1, <4>2
    <3>8. StillEnabled'
      BY <3>1 DEF StillEnabled
    <3> QED
      BY <3>6, <3>7, <3>8 DEF TrapsInv
  <2>7. ASSUME NEW m \in Mode, WritesEpc(m) PROVE TrapsInv'
    <3>1. /\ decoded = <<>>
          /\ UNCHANGED <<prv, at, ie, pie, mpp, spp, pend, mdeleg, decoded>>
      BY <2>7 DEF WritesEpc, Writes
    <3>2. PICK a \in CodeAddr : xepc' = [xepc EXCEPT ![m] = a]
      BY <2>7 DEF WritesEpc
    <3>3. saved' = [saved EXCEPT ![m] = <<>>]
      BY <2>7 DEF WritesEpc
    <3>4. TrapsTypeOK'
      BY <3>1, <3>2, <3>3 DEF TrapsInv, TrapsTypeOK
    <3>5. ASSUME NEW n \in Mode PROVE Holds(n)'
      <4>1. CASE n = m
        BY <3>3, <4>1 DEF Holds, TrapsInv, TrapsTypeOK
      <4>2. CASE n # m
        <5>1. saved'[n] = saved[n] /\ xepc'[n] = xepc[n]
          BY <3>2, <3>3, <4>2 DEF TrapsInv, TrapsTypeOK
        <5> QED
          BY <3>1, <5>1 DEF Holds, HeldMode, TrapsInv
      <4> QED
        BY <4>1, <4>2
    <3>6. StillEnabled'
      BY <3>1 DEF StillEnabled
    <3> QED
      BY <3>4, <3>5, <3>6 DEF TrapsInv
  <2>8. CASE WritesDelegation
    <3>1. /\ decoded = <<>>
          /\ UNCHANGED <<prv, at, ie, pie, mpp, spp, xepc, pend, decoded, saved>>
      BY <2>8 DEF WritesDelegation
    <3>2. TrapsTypeOK' /\ StillEnabled'
      BY <3>1 DEF TrapsInv, TrapsTypeOK, StillEnabled
    <3>3. \A m \in Mode : Holds(m)'
      BY <3>1 DEF TrapsInv, Holds, HeldMode
    <3> QED
      BY <3>2, <3>3 DEF TrapsInv
  <2>9. CASE Runs \/ LinesChange \/ UNCHANGED trapVars
    <3>1. /\ at' \in CodeAddr /\ pend' \subseteq Interrupt
          /\ UNCHANGED <<prv, ie, pie, mpp, spp, xepc, mdeleg, decoded, saved>>
      BY <2>9 DEF Runs, LinesChange, trapVars, TrapsInv, TrapsTypeOK
    <3>2. TrapsTypeOK' /\ StillEnabled'
      BY <3>1 DEF TrapsInv, TrapsTypeOK, StillEnabled
    <3>3. \A m \in Mode : Holds(m)'
      BY <3>1 DEF TrapsInv, Holds, HeldMode
    <3> QED
      BY <3>2, <3>3 DEF TrapsInv
  <2> QED
    BY <2>1, <2>2, <2>3, <2>4, <2>5, <2>6, <2>7, <2>8, <2>9 DEF TrapsNext
<1> QED
  BY <1>1, <1>2, PTL DEF TrapsSpec

-----------------------------------------------------------------------------
(* The properties                                                             *)

\* A return goes back to the mode, the address and the interrupt enable that
\* the trap into its mode has interrupted.
THEOREM TrapsReturn == TrapsSpec => ReturnsToInterrupted
<1> DEFINE Back == \A m \in Mode : (Returns(m) /\ saved[m] # <<>>) =>
                     [prv |-> prv', ie |-> ie'[m], at |-> at'] = saved[m][1]
<1>1. TrapsInv /\ [TrapsNext]_trapVars => [Back]_trapVars
  <2> SUFFICES ASSUME TrapsInv, NEW m \in Mode, Returns(m), saved[m] # <<>>
               PROVE  [prv |-> prv', ie |-> ie'[m], at |-> at'] = saved[m][1]
    OBVIOUS
  <2>1. saved[m][1] = [prv |-> HeldMode(m), ie |-> pie[m], at |-> xepc[m]]
    BY DEF TrapsInv, Holds
  <2>2. ie'[m] = pie[m] /\ at' = xepc[m]
    BY DEF Returns, TrapsInv, TrapsTypeOK
  <2>3. prv' = HeldMode(m)
    BY DEF Returns, HeldMode
  <2> QED
    BY <2>1, <2>2, <2>3
<1> QED
  BY <1>1, TrapsInvariance, PTL DEF TrapsSpec, ReturnsToInterrupted

\* An interrupt goes to a mode above the one it interrupts, or to the same if
\* that has its interrupts enabled.
THEOREM TrapsAboveOrEnabled == TrapsSpec => InterruptsWhereEnabled
<1> DEFINE Up == TakesInterrupt => prv' > prv \/ (prv' = prv /\ ie[prv])
<1>1. TrapsInv /\ [TrapsNext]_trapVars => [Up]_trapVars
  <2> SUFFICES ASSUME TrapsInv, TakesInterrupt
               PROVE  prv' > prv \/ (prv' = prv /\ ie[prv])
    OBVIOUS
  <2>1. PICK c : c = decoded[1]
    OBVIOUS
  <2>2. prv' = Target(c)
    BY <2>1 DEF TakesInterrupt, TakeTrap, TrapInto
  <2>3. prv \in Mode
    BY DEF TrapsInv, TrapsTypeOK
  <2>4. CASE (prv # Machine \/ ie[Machine]) /\ c \notin mdeleg
    <3>1. Target(c) = Machine
      BY <2>4 DEF Target
    <3> QED
      BY <2>2, <2>3, <2>4, <3>1 DEF Mode, User, Supervisor, Machine
  <2>5. CASE /\ SupervisorMode
             /\ prv = User \/ (prv = Supervisor /\ ie[Supervisor])
             /\ c \in mdeleg
    <3>1. prv <= Supervisor
      BY <2>5 DEF User, Supervisor
    <3>2. Target(c) = Supervisor
      BY <2>5, <3>1 DEF Target
    <3> QED
      BY <2>2, <2>5, <3>2 DEF User, Supervisor
  <2>6. CASE UserTraps /\ prv = User /\ ie[User] /\ c \in mdeleg
    <3>1. CASE SupervisorMode
      BY <2>5, <2>6, <3>1
    <3>2. CASE ~ SupervisorMode
      <4>1. Target(c) = User
        BY <2>6, <3>2 DEF Target
      <4> QED
        BY <2>2, <2>6, <4>1
    <3> QED
      BY <3>1, <3>2
  <2> QED
    BY <2>1, <2>4, <2>5, <2>6 DEF TakesInterrupt, TrapsInv, StillEnabled
<1> QED
  BY <1>1, TrapsInvariance, PTL DEF TrapsSpec, InterruptsWhereEnabled

-----------------------------------------------------------------------------
(* The page-table walker                                                      *)

\* What a TLB waits for, or got.
MaybePage == {<<>>} \cup {<<p>> : p \in Pages}

PtwShape ==
  /\ ptwState \in {"None", "IWalk", "DWalk"}
  /\ miss \in [Side -> MaybePage]
  /\ gotten \in [Side -> MaybePage]
  /\ sent \in [Side -> BOOLEAN]

\* A walk for side s is under way for the page s waits for.
Walking(s) ==
  /\ ~ sent[s]
  /\ \E p \in Pages, n \in Nat :
       /\ miss[s] = <<p>>
       /\ walk = <<[page |-> p, left |-> n]>>

\* A request in the FIFO of a side is what the side waits for, and while
\* rg_ptw_state names a side the walk is the one of that side.  Without the
\* first part a walk could begin that nobody waits for.
WalkBelongs ==
  \A s \in Side :
    /\ sent[s] => miss[s] # <<>>
    /\ ptwState = WalkFor(s) => Walking(s)

PtwInv == PtwShape /\ WalkBelongs

LEMMA PtwInitInv == PtwIdle => PtwInv
  BY DEF PtwIdle, PtwInv, PtwShape, MaybePage, WalkBelongs, WalkFor, Side

\* A miss begins a wait of a side for which nothing is under way.
LEMMA MissKeepsInv ==
  ASSUME PtwInv, NEW s \in Side, NEW p \in Pages,
         miss[s] = <<>>, Misses(s, p), UNCHANGED <<ptwState, walk>>
  PROVE  PtwInv'
<1>1. PtwShape'
  BY DEF PtwInv, PtwShape, Misses, MaybePage
<1>2. ptwState # WalkFor(s)
  <2>1. SUFFICES ASSUME ptwState = WalkFor(s) PROVE FALSE
    OBVIOUS
  <2>2. Walking(s)
    BY <2>1 DEF PtwInv, WalkBelongs
  <2>3. PICK q \in Pages : miss[s] = <<q>>
    BY <2>2 DEF Walking
  <2> QED BY <2>3
<1>3. ASSUME NEW t \in Side
      PROVE  /\ sent'[t] => miss'[t] # <<>>
             /\ ptwState' = WalkFor(t) => Walking(t)'
  <2>1. CASE t = s
    BY <1>2, <2>1 DEF PtwInv, PtwShape, Misses
  <2>2. CASE t # s
    <3>1. miss'[t] = miss[t] /\ sent'[t] = sent[t]
      BY <2>2 DEF PtwInv, PtwShape, Misses
    <3> QED BY <3>1 DEF PtwInv, WalkBelongs, Walking
  <2> QED BY <2>1, <2>2
<1> QED BY <1>1, <1>3 DEF PtwInv, WalkBelongs

LEMMA TlbRequestKeepsInv ==
  ASSUME PtwInv, NEW s \in Side, TlbRequest(s)
  PROVE  PtwInv'
<1>1. PICK p \in Pages : miss[s] = <<p>>
  BY DEF PtwInv, PtwShape, WalkBelongs, MaybePage, TlbRequest
<1>2. PtwShape'
  BY DEF PtwInv, PtwShape, TlbRequest, WalkFor
<1>3. \A t \in Side : t # s => WalkFor(t) # WalkFor(s)
  BY DEF Side, WalkFor
<1>4. Walking(s)'
  BY <1>1, PtwAssumption DEF TlbRequest, Walking, PtwInv, PtwShape, PtwAssumption
<1>5. \A t \in Side : sent'[t] => sent[t]
  BY DEF TlbRequest, PtwInv, PtwShape
<1> QED BY <1>2, <1>3, <1>4, <1>5 DEF PtwInv, WalkBelongs, TlbRequest

LEMMA WalkResponseKeepsInv ==
  ASSUME PtwInv, NEW s \in Side, WalkResponse(s)
  PROVE  PtwInv' /\ gotten'[s] = miss[s] /\ \A t \in Side : t # s => miss'[t] = miss[t]
<1>1. ptwState = WalkFor(s)
  BY DEF WalkResponse, AnswerTo
<1>2. PICK p \in Pages, n \in Nat :
        ~ sent[s] /\ miss[s] = <<p>> /\ walk = <<[page |-> p, left |-> n]>>
  BY <1>1 DEF PtwInv, WalkBelongs, Walking
<1>3. /\ gotten' = [gotten EXCEPT ![s] = <<p>>]
      /\ miss' = [miss EXCEPT ![s] = <<>>]
      /\ ptwState' = "None" /\ sent' = sent
  BY <1>2 DEF WalkResponse, WalkEnds
<1>4. PtwShape'
  BY <1>3 DEF PtwInv, PtwShape, MaybePage
<1>5. \A t \in Side : t # s => miss'[t] = miss[t]
  BY <1>3 DEF PtwInv, PtwShape
<1>6. gotten'[s] = miss[s]
  BY <1>2, <1>3 DEF PtwInv, PtwShape
<1>7. \A t \in Side : sent'[t] => miss'[t] # <<>>
  BY <1>2, <1>3, <1>5 DEF PtwInv, WalkBelongs
<1>8. \A t \in Side : ptwState' # WalkFor(t)
  BY <1>3 DEF WalkFor
<1> QED BY <1>4, <1>5, <1>6, <1>7, <1>8 DEF PtwInv, WalkBelongs

\* The walker's next access is part of the same walk.
LEMMA WalkContinuesKeepsInv ==
  ASSUME PtwInv, WalkContinues
  PROVE  PtwInv'
<1>1. PtwShape'
  BY DEF PtwInv, PtwShape, WalkContinues
<1>2. ASSUME NEW s \in Side, Walking(s)
      PROVE  Walking(s)'
  <2>1. PICK p \in Pages, n \in Nat :
          ~ sent[s] /\ miss[s] = <<p>> /\ walk = <<[page |-> p, left |-> n]>>
    BY <1>2 DEF Walking
  <2>2. PICK m \in 0 .. (n - 1) : walk' = <<[walk[1] EXCEPT !.left = m]>>
    BY <2>1 DEF WalkContinues
  <2>3. m \in Nat /\ walk' = <<[page |-> p, left |-> m]>>
    BY <2>1, <2>2
  <2> QED BY <2>1, <2>3 DEF Walking, WalkContinues
<1> QED BY <1>1, <1>2 DEF PtwInv, WalkBelongs, WalkContinues

\* What the other rules leave alone.
LEMMA FrameKeepsInv ==
  ASSUME PtwInv, UNCHANGED <<ptwState, miss, sent, walk, gotten>>
  PROVE  PtwInv'
  BY DEF PtwInv, PtwShape, WalkBelongs, Walking

LEMMA PtwNextInv == PtwInv /\ [PtwNext]_ptwVars => PtwInv'
<1> SUFFICES ASSUME PtwInv, [PtwNext]_ptwVars PROVE PtwInv'
  OBVIOUS
<1>1. CASE \E p \in Pages : FetchMisses(p)
  BY <1>1, MissKeepsInv DEF FetchMisses, Side
<1>2. CASE \E p \in Pages : CoreAccessMisses(p)
  BY <1>2, MissKeepsInv DEF CoreAccessMisses, CoreAccessReady, Side
<1>3. CASE \E s \in Side : TlbRequest(s)
  BY <1>3, TlbRequestKeepsInv
<1>4. CASE \E s \in Side : WalkResponse(s)
  BY <1>4, WalkResponseKeepsInv
<1>5. CASE WalkContinues
  BY <1>5, WalkContinuesKeepsInv
<1>6. CASE Fetches \/ CoreRequests \/ Leaves \/ CoreAccessHits
  BY <1>6, FrameKeepsInv DEF Fetches, CoreRequests, Leaves, CoreAccessHits
<1>7. CASE WalkAccess \/ WalkAccessAnswered
  BY <1>7, FrameKeepsInv DEF WalkAccess, WalkAccessAnswered
<1>8. CASE UNCHANGED ptwVars
  BY <1>8, FrameKeepsInv DEF ptwVars
<1> QED BY <1>1, <1>2, <1>3, <1>4, <1>5, <1>6, <1>7, <1>8 DEF PtwNext

LEMMA InvariantOfPtw == PtwSpec => []PtwInv
  BY PtwInitInv, PtwNextInv, PTL DEF PtwSpec

\* A wait ends with the answer to itself.
LEMMA StepAnswersAsker ==
  ASSUME PtwInv, [PtwNext]_ptwVars, NEW s \in Side,
         miss[s] # <<>>, miss'[s] = <<>>
  PROVE  gotten'[s] = miss[s]
<1>1. ASSUME NEW t \in Side, NEW p \in Pages, Misses(t, p), miss[t] = <<>>
      PROVE  FALSE
  <2>1. miss'[t] = <<p>> /\ (s # t => miss'[s] = miss[s])
    BY <1>1 DEF PtwInv, PtwShape, Misses
  <2> QED BY <1>1, <2>1
<1>2. CASE \E p \in Pages : FetchMisses(p)
  BY <1>1, <1>2 DEF FetchMisses, Side
<1>3. CASE \E p \in Pages : CoreAccessMisses(p)
  BY <1>1, <1>3 DEF CoreAccessMisses, CoreAccessReady, Side
<1>4. CASE \E t \in Side : WalkResponse(t)
  BY <1>4, WalkResponseKeepsInv
<1>5. CASE \E t \in Side : TlbRequest(t)
  BY <1>5 DEF TlbRequest
<1>6. CASE Fetches \/ CoreRequests \/ Leaves \/ CoreAccessHits \/ WalkAccess
  BY <1>6 DEF Fetches, CoreRequests, Leaves, CoreAccessHits, WalkAccess
<1>7. CASE WalkAccessAnswered \/ WalkContinues
  BY <1>7 DEF WalkAccessAnswered, WalkContinues
<1>8. CASE UNCHANGED ptwVars
  BY <1>8 DEF ptwVars
<1> QED BY <1>2, <1>3, <1>4, <1>5, <1>6, <1>7, <1>8 DEF PtwNext

\* With both TLBs waiting for one walker, what a TLB gets in the end is the
\* translation it asked for.
THEOREM WalkerAnswersAsker == PtwSpec => WalkAnswersAsker
<1>1. PtwInv /\ [PtwNext]_ptwVars =>
        [\A s \in Side : miss[s] # <<>> /\ miss'[s] = <<>> => gotten'[s] = miss[s]]_ptwVars
  BY StepAnswersAsker
<1> QED BY <1>1, InvariantOfPtw, PTL DEF PtwSpec, WalkAnswersAsker

-----------------------------------------------------------------------------
(* What the queues and channels hold *)

Entry == {w \in [line : Location, io : BOOLEAN] : w.io <=> w.line \in IoLines}
WriteBack == {r \in [line : Location, version : Version, io : BOOLEAN] :
                r.io <=> r.line \in IoLines}
Carried == [word : Datum, last : BOOLEAN]
Index == 0 .. (Beats - 1)
LineWords == [Index -> Datum]

BusShape ==
  /\ cached \subseteq Lines /\ asked \subseteq Location
  /\ latest \in [Lines -> Version]
  /\ readMem \in Seq(Entry) /\ rdAddr \in Seq(Entry)
  /\ held \in Seq(Entry) /\ Len(held) <= 1
  /\ rdData \in Seq([line : Location, words : {<<>>} \cup LineWords])
  /\ writeMem \in Seq(WriteBack)
  /\ wrAddr \in Seq(Entry) /\ wrData \in Seq(Carried)
  /\ burst \in Index /\ shift \in Nat /\ taken \in Index
  /\ memory \in [Lines -> LineWords]

\* One entry more, or one less in front.
LEMMA Queue ==
  ASSUME NEW S, NEW s \in Seq(S)
  PROVE  /\ Len(s) \in Nat /\ DOMAIN s = 1..Len(s) /\ (s = <<>> <=> Len(s) = 0)
         /\ \A i \in 1..Len(s) : s[i] \in S
         /\ s # <<>> =>
              /\ Len(s) >= 1 /\ Head(s) = s[1] /\ Head(s) \in S
              /\ Tail(s) \in Seq(S) /\ Len(Tail(s)) = Len(s) - 1
              /\ \A i \in 1..(Len(s) - 1) : Tail(s)[i] = s[i + 1]
         /\ \A e \in S :
              /\ Append(s, e) \in Seq(S) /\ Len(Append(s, e)) = Len(s) + 1
              /\ \A i \in 1..Len(s) : Append(s, e)[i] = s[i]
              /\ Append(s, e)[Len(s) + 1] = e
<1>1. Len(s) \in Nat /\ DOMAIN s = 1..Len(s) /\ (s = <<>> <=> Len(s) = 0)
  BY EmptySeq, LenProperties
<1>2. \A i \in 1..Len(s) : s[i] \in S
  BY ElementOfSeq
<1>3. s # <<>> => /\ Len(s) >= 1 /\ Head(s) = s[1] /\ Head(s) \in S
                  /\ Tail(s) \in Seq(S) /\ Len(Tail(s)) = Len(s) - 1
                  /\ \A i \in 1..(Len(s) - 1) : Tail(s)[i] = s[i + 1]
  BY <1>1, HeadTailProperties
<1>4. \A e \in S : /\ Append(s, e) \in Seq(S) /\ Len(Append(s, e)) = Len(s) + 1
                   /\ \A i \in 1..Len(s) : Append(s, e)[i] = s[i]
                   /\ Append(s, e)[Len(s) + 1] = e
  BY <1>1, AppendProperties
<1>5. QED
  BY <1>1, <1>2, <1>3, <1>4

LEMMA FirstKept ==
  ASSUME NEW S, NEW s \in Seq(S), s # <<>>, NEW e \in S
  PROVE  Append(s, e) # <<>> /\ Head(Append(s, e)) = Head(s)
<1>1. /\ Len(s) \in Nat /\ Len(s) >= 1 /\ Head(s) = s[1]
      /\ Append(s, e) \in Seq(S) /\ Len(Append(s, e)) = Len(s) + 1
      /\ Append(s, e)[1] = s[1]
  BY Queue
<1>2. Append(s, e) # <<>>
  BY <1>1, EmptySeq
<1>3. QED
  BY <1>1, <1>2, Queue

LEMMA TailAppends ==
  ASSUME NEW S, NEW s \in Seq(S), s # <<>>, NEW e \in S
  PROVE  Tail(Append(s, e)) = Append(Tail(s), e)
<1> DEFINE n == Len(s)
<1>1. /\ n \in Nat /\ n >= 1 /\ Tail(s) \in Seq(S) /\ Len(Tail(s)) = n - 1
      /\ \A i \in 1..(n - 1) : Tail(s)[i] = s[i + 1]
  BY Queue
<1>2. /\ Append(s, e) \in Seq(S) /\ Len(Append(s, e)) = n + 1
      /\ \A i \in 1..n : Append(s, e)[i] = s[i]
      /\ Append(s, e)[n + 1] = e /\ Append(s, e) # <<>>
  BY Queue, FirstKept
<1>3. /\ Tail(Append(s, e)) \in Seq(S) /\ Len(Tail(Append(s, e))) = n
      /\ \A i \in 1..n : Tail(Append(s, e))[i] = Append(s, e)[i + 1]
  <2>1. /\ Tail(Append(s, e)) \in Seq(S) /\ Len(Tail(Append(s, e))) = (n + 1) - 1
        /\ \A i \in 1..((n + 1) - 1) : Tail(Append(s, e))[i] = Append(s, e)[i + 1]
    BY <1>2, Queue
  <2>2. QED
    BY <1>1, <2>1
<1>4. /\ Append(Tail(s), e) \in Seq(S) /\ Len(Append(Tail(s), e)) = n
      /\ \A i \in 1..(n - 1) : Append(Tail(s), e)[i] = Tail(s)[i]
      /\ Append(Tail(s), e)[n] = e
  <2>1. /\ Append(Tail(s), e) \in Seq(S) /\ Len(Append(Tail(s), e)) = (n - 1) + 1
        /\ \A i \in 1..(n - 1) : Append(Tail(s), e)[i] = Tail(s)[i]
        /\ Append(Tail(s), e)[(n - 1) + 1] = e
    BY <1>1, Queue
  <2>2. (n - 1) + 1 = n
    BY <1>1
  <2>3. QED
    BY <2>1, <2>2
<1>5. \A i \in 1..n : Tail(Append(s, e))[i] = Append(Tail(s), e)[i]
  <2> SUFFICES ASSUME NEW i \in 1..n PROVE Tail(Append(s, e))[i] = Append(Tail(s), e)[i]
    OBVIOUS
  <2>1. CASE i = n
    BY <1>2, <1>3, <1>4, <2>1
  <2>2. CASE i # n
    <3>1. i \in 1..(n - 1) /\ i + 1 \in 1..n
      <4>1. n \in Nat
        BY <1>1
      <4> HIDE DEF n
      <4>2. QED
        BY <2>2, <4>1
    <3>2. QED
      BY <1>1, <1>2, <1>3, <1>4, <3>1
  <2>3. QED
    BY <2>1, <2>2
<1>6. QED
  BY <1>3, <1>4, <1>5, SeqEqual

LEMMA BusConstants ==
  /\ Beats \in Nat /\ Beats >= 2 /\ 0 \in Index /\ 0 \in Version
  /\ \A l \in Location : (l \in Lines <=> l \notin IoLines)
  /\ \A l \in Location, v \in Version, i \in Index : Word(l, v, i) \in Datum
  /\ \A l \in Location, v \in Version : WholeLine(l, v) \in LineWords
<1>1. Beats \in Nat /\ Beats >= 2 /\ 0 \in Index /\ 0 \in Version
  BY LineBusAssumption DEF Index, Version
<1>2. \A l \in Location : (l \in Lines <=> l \notin IoLines)
  BY LineBusAssumption DEF Location
<1>3. \A l \in Location, v \in Version, i \in Index : Word(l, v, i) \in Datum
  BY DEF Word, Datum, Index
<1>4. \A l \in Location, v \in Version : WholeLine(l, v) \in LineWords
  BY <1>3 DEF WholeLine, LineWords, Index
<1>5. QED
  BY <1>1, <1>2, <1>3, <1>4

-----------------------------------------------------------------------------
(* A burst on its way *)

\* What is on the data channel, and what the burst is going to put there next.
Coming ==
  IF burst = 0 THEN wrData ELSE Append(wrData, Beat(shift, burst = Beats - 1))

\* The k-th of the beats s belongs to the own[k]-th of the addresses a: each
\* address has the beats of one line in their order, of which t are taken, and
\* the last is marked.
Owned(s, a, t, own) ==
  /\ own \in [1..Len(s) -> 1..Len(a)]
  /\ s = <<>> => a = <<>> /\ t = 0
  /\ s # <<>> => own[1] = 1 /\ own[Len(s)] = Len(a) /\ s[1].word.index = t
  /\ \A k \in 1..Len(s) :
       /\ s[k].word.line = a[own[k]].line
       /\ s[k].last <=> a[own[k]].io \/ s[k].word.index = Beats - 1
       /\ a[own[k]].io => s[k].word.index = 0
  /\ \A j, k \in 1..Len(s) :
       j < k => own[j] <= own[k] /\ (s[j].last => own[j] < own[k])
  /\ \A k \in 1..(Len(s) - 1) :
       IF s[k].last
       THEN own[k + 1] = own[k] + 1 /\ s[k + 1].word.index = 0
       ELSE /\ own[k + 1] = own[k]
            /\ s[k + 1].word = Word(s[k].word.line, s[k].word.version, s[k].word.index + 1)

Served(s, a, t) == \E own \in [1..Len(s) -> 1..Len(a)] : Owned(s, a, t, own)

BurstInv ==
  /\ burst = 0 =>
       /\ shift = 1 /\ wrReq = <<>>
       /\ wrData # <<>> => wrData[Len(wrData)].last
  /\ burst # 0 =>
       /\ shift = burst /\ writeMem # <<>> /\ ~ Head(writeMem).io
       /\ wrReq = <<Head(writeMem).line>>
  /\ Served(Coming, wrAddr, taken)

Whole(l) == \E v \in Version : memory[l] = WholeLine(l, v)

\* The words below taken are those of the version whose words are coming.
MemoryInv ==
  /\ \A l \in Lines : Whole(l) \/ (taken # 0 /\ Head(wrAddr).line = l)
  /\ taken # 0 =>
       /\ wrAddr # <<>> /\ ~ Head(wrAddr).io
       /\ \A i \in Index : i < taken =>
            memory[Head(wrAddr).line][i]
              = Word(Head(wrAddr).line, Head(Coming).word.version, i)

-----------------------------------------------------------------------------
(* How the channels move on *)

\* The address and the first beat of the next write.
LEMMA Begin ==
  ASSUME NEW s \in Seq(Carried), NEW a \in Seq(Entry), NEW t \in Index, Served(s, a, t),
         s # <<>> => s[Len(s)].last,
         NEW e \in Entry, NEW b \in Carried,
         b.word.line = e.line, b.word.index = 0, b.last <=> e.io
  PROVE  Served(Append(s, b), Append(a, e), t)
<1> DEFINE n == Len(s)
           m == Len(a)
<1>1. PICK own \in [1..n -> 1..m] : Owned(s, a, t, own)
  BY DEF Served
<1>2. /\ n \in Nat /\ (s = <<>> <=> n = 0)
      /\ Append(s, b) \in Seq(Carried) /\ Len(Append(s, b)) = n + 1
      /\ \A i \in 1..n : Append(s, b)[i] = s[i] /\ s[i] \in Carried
      /\ Append(s, b)[n + 1] = b
  BY Queue
<1>3. /\ m \in Nat /\ (a = <<>> <=> m = 0)
      /\ Append(a, e) \in Seq(Entry) /\ Len(Append(a, e)) = m + 1
      /\ \A i \in 1..m : Append(a, e)[i] = a[i]
      /\ Append(a, e)[m + 1] = e
  BY Queue
<1>4. Beats \in Nat /\ Beats >= 2
  BY BusConstants
<1> DEFINE map == [k \in 1..(n + 1) |-> IF k <= n THEN own[k] ELSE m + 1]
<1>5. PICK next \in [1..(n + 1) -> 1..(m + 1)] :
        next[n + 1] = m + 1 /\ \A k \in 1..n : next[k] = own[k] /\ own[k] \in 1..m
  <2>1. /\ n + 1 \in 1..(n + 1) /\ ~ (n + 1 <= n)
        /\ \A k \in 1..n : k \in 1..(n + 1) /\ k <= n
        /\ \A k \in 1..(n + 1) : k <= n => k \in 1..n
    BY <1>2
  <2>2. \A k \in 1..n : own[k] \in 1..m
    BY <1>1
  <2>3. 1..m \subseteq 1..(m + 1) /\ m + 1 \in 1..(m + 1)
    BY <1>3
  <2>4. map \in [1..(n + 1) -> 1..(m + 1)]
    BY <2>1, <2>2, <2>3
  <2>5. map[n + 1] = m + 1 /\ \A k \in 1..n : map[k] = own[k]
    BY <2>1
  <2> HIDE DEF map
  <2>6. QED
    BY <2>2, <2>4, <2>5
<1>6. n = 0 => m = 0 /\ t = 0
  BY <1>1, <1>2, <1>3 DEF Owned
<1>7. n > 0 => own[1] = 1 /\ own[n] = m /\ s[1].word.index = t /\ s[n].last
  BY <1>1, <1>2 DEF Owned
<1>8. next[1] = 1 /\ Append(s, b)[1].word.index = t
  BY <1>2, <1>3, <1>5, <1>6, <1>7
<1>9. ASSUME NEW k \in 1..(n + 1)
      PROVE  /\ Append(s, b)[k].word.line = Append(a, e)[next[k]].line
             /\ Append(s, b)[k].last <=>
                  Append(a, e)[next[k]].io \/ Append(s, b)[k].word.index = Beats - 1
             /\ Append(a, e)[next[k]].io => Append(s, b)[k].word.index = 0
  <2>1. CASE k \in 1..n
    BY <1>1, <1>2, <1>3, <1>5, <2>1 DEF Owned
  <2>2. CASE k = n + 1
    BY <1>2, <1>3, <1>4, <1>5, <2>2
  <2>3. k \in 1..n \/ k = n + 1
    BY <1>2
  <2>4. QED
    BY <2>1, <2>2, <2>3
<1>10. ASSUME NEW j \in 1..(n + 1), NEW k \in 1..(n + 1), j < k
       PROVE  next[j] <= next[k] /\ (Append(s, b)[j].last => next[j] < next[k])
  <2>1. CASE k \in 1..n
    <3>1. j \in 1..n
      BY <1>2, <1>10, <2>1
    <3>2. own[j] <= own[k] /\ (s[j].last => own[j] < own[k])
      BY <1>1, <1>10, <2>1, <3>1 DEF Owned
    <3>3. QED
      BY <1>2, <1>5, <2>1, <3>1, <3>2
  <2>2. CASE k = n + 1
    BY <1>2, <1>3, <1>5, <1>10, <2>2
  <2>3. QED
    BY <1>2, <2>1, <2>2
<1>11. ASSUME NEW k \in 1..n
       PROVE  IF Append(s, b)[k].last
              THEN next[k + 1] = next[k] + 1 /\ Append(s, b)[k + 1].word.index = 0
              ELSE /\ next[k + 1] = next[k]
                   /\ Append(s, b)[k + 1].word
                        = Word(Append(s, b)[k].word.line, Append(s, b)[k].word.version,
                               Append(s, b)[k].word.index + 1)
  <2>1. CASE k \in 1..(n - 1)
    BY <1>1, <1>2, <1>5, <2>1 DEF Owned
  <2>2. CASE k = n
    BY <1>2, <1>3, <1>5, <1>7, <2>2
  <2>3. QED
    BY <1>2, <2>1, <2>2
<1>12. Append(s, b) # <<>>
  BY <1>2, EmptySeq
<1>13. (n + 1) - 1 = n
  BY <1>2
<1>14. Owned(Append(s, b), Append(a, e), t, next)
  BY <1>2, <1>3, <1>5, <1>8, <1>9, <1>10, <1>11, <1>12, <1>13 DEF Owned
<1>15. QED
  BY <1>2, <1>3, <1>5, <1>14 DEF Served

\* The next beat of the write whose address was sent last.
LEMMA Continue ==
  ASSUME NEW s \in Seq(Carried), NEW a \in Seq(Entry), NEW t \in Index, Served(s, a, t),
         s # <<>>, NEW z \in Carried, z = s[Len(s)], ~ z.last, NEW b \in Carried,
         b.word = Word(z.word.line, z.word.version, z.word.index + 1),
         b.last <=> b.word.index = Beats - 1
  PROVE  Served(Append(s, b), a, t)
<1> DEFINE n == Len(s)
           m == Len(a)
<1>1. PICK own \in [1..n -> 1..m] : Owned(s, a, t, own)
  BY DEF Served
<1>2. /\ n \in Nat /\ n >= 1
      /\ Append(s, b) \in Seq(Carried) /\ Len(Append(s, b)) = n + 1
      /\ \A i \in 1..n : Append(s, b)[i] = s[i] /\ s[i] \in Carried
      /\ Append(s, b)[n + 1] = b
  BY Queue
<1>3. m \in Nat
  BY Queue
<1> DEFINE map == [k \in 1..(n + 1) |-> IF k <= n THEN own[k] ELSE m]
<1>5. PICK next \in [1..(n + 1) -> 1..m] :
        next[n + 1] = m /\ \A k \in 1..n : next[k] = own[k] /\ own[k] \in 1..m
  <2>1. /\ n + 1 \in 1..(n + 1) /\ ~ (n + 1 <= n)
        /\ \A k \in 1..n : k \in 1..(n + 1) /\ k <= n
        /\ \A k \in 1..(n + 1) : k <= n => k \in 1..n
    BY <1>2
  <2>2. \A k \in 1..n : own[k] \in 1..m
    BY <1>1
  <2>3. 1..m \subseteq 1..m /\ m \in 1..m
    <3>1. n \in 1..n
      BY <1>2
    <3>2. QED
      BY <1>1, <3>1 DEF Owned
  <2>4. map \in [1..(n + 1) -> 1..m]
    BY <2>1, <2>2, <2>3
  <2>5. map[n + 1] = m /\ \A k \in 1..n : map[k] = own[k]
    BY <2>1
  <2> HIDE DEF map
  <2>6. QED
    BY <2>2, <2>4, <2>5
<1>7. /\ own[1] = 1 /\ own[n] = m /\ s[1].word.index = t /\ s[n] = z
      /\ z.word.line = a[m].line /\ ~ a[m].io
  BY <1>1, <1>2 DEF Owned
<1>8. next[1] = 1 /\ Append(s, b)[1].word.index = t
  BY <1>2, <1>3, <1>5, <1>7
<1>9. ASSUME NEW k \in 1..(n + 1)
      PROVE  /\ Append(s, b)[k].word.line = a[next[k]].line
             /\ Append(s, b)[k].last <=> a[next[k]].io \/ Append(s, b)[k].word.index = Beats - 1
             /\ a[next[k]].io => Append(s, b)[k].word.index = 0
  <2>1. CASE k \in 1..n
    BY <1>1, <1>2, <1>3, <1>5, <2>1 DEF Owned
  <2>2. CASE k = n + 1
    <3>1. b.word.line = z.word.line
      BY DEF Word
    <3>2. QED
      BY <1>2, <1>3, <1>5, <1>7, <2>2, <3>1
  <2>3. QED
    BY <1>2, <2>1, <2>2
<1>10. ASSUME NEW j \in 1..(n + 1), NEW k \in 1..(n + 1), j < k
       PROVE  next[j] <= next[k] /\ (Append(s, b)[j].last => next[j] < next[k])
  <2>1. CASE k \in 1..n
    <3>1. j \in 1..n
      BY <1>2, <1>10, <2>1
    <3>2. own[j] <= own[k] /\ (s[j].last => own[j] < own[k])
      BY <1>1, <1>10, <2>1, <3>1 DEF Owned
    <3>3. QED
      BY <1>2, <1>5, <2>1, <3>1, <3>2
  <2>2. CASE k = n + 1 /\ j = n
    BY <1>2, <1>3, <1>5, <1>7, <2>2
  <2>4. CASE k = n + 1 /\ j # n
    <3>1. j \in 1..n /\ n \in 1..n /\ j < n
      BY <1>2, <1>10, <2>4
    <3>2. own[j] <= own[n] /\ (s[j].last => own[j] < own[n])
      BY <1>1, <3>1 DEF Owned
    <3>3. QED
      BY <1>2, <1>5, <1>7, <2>4, <3>1, <3>2
  <2>3. QED
    BY <1>2, <2>1, <2>2, <2>4
<1>11. ASSUME NEW k \in 1..n
       PROVE  IF Append(s, b)[k].last
              THEN next[k + 1] = next[k] + 1 /\ Append(s, b)[k + 1].word.index = 0
              ELSE /\ next[k + 1] = next[k]
                   /\ Append(s, b)[k + 1].word
                        = Word(Append(s, b)[k].word.line, Append(s, b)[k].word.version,
                               Append(s, b)[k].word.index + 1)
  <2>1. CASE k \in 1..(n - 1)
    BY <1>1, <1>2, <1>5, <2>1 DEF Owned
  <2>2. CASE k = n
    BY <1>2, <1>3, <1>5, <1>7, <2>2
  <2>3. QED
    BY <1>2, <2>1, <2>2
<1>12. Append(s, b) # <<>>
  BY <1>2, EmptySeq
<1>13. (n + 1) - 1 = n
  BY <1>2
<1>14. Owned(Append(s, b), a, t, next)
  BY <1>2, <1>3, <1>5, <1>8, <1>9, <1>10, <1>11, <1>12, <1>13 DEF Owned
<1>15. QED
  BY <1>2, <1>3, <1>5, <1>14 DEF Served

\* What remains when the memory has taken a beat: of the same line, or of the
\* next one.
LEMMA Take ==
  ASSUME NEW s \in Seq(Carried), NEW a \in Seq(Entry), NEW t \in Index, Served(s, a, t),
         s # <<>>, s[1].last \/ Len(s) > 1
  PROVE  /\ a # <<>> /\ s[1].word.line = a[1].line /\ s[1].word.index = t
         /\ s[1].last <=> a[1].io \/ t = Beats - 1
         /\ a[1].io => t = 0
         /\ s[1].last => Served(Tail(s), Tail(a), 0)
         /\ ~ s[1].last =>
              /\ (t + 1) % Beats = t + 1 /\ t + 1 \in Index
              /\ Served(Tail(s), a, t + 1)
              /\ Len(s) > 1
              /\ s[2].word = Word(s[1].word.line, s[1].word.version, t + 1)
<1> DEFINE n == Len(s)
           m == Len(a)
<1>1. PICK own \in [1..n -> 1..m] : Owned(s, a, t, own)
  BY DEF Served
<1>2. /\ n \in Nat /\ n >= 1
      /\ Tail(s) \in Seq(Carried) /\ Len(Tail(s)) = n - 1
      /\ \A i \in 1..(n - 1) : Tail(s)[i] = s[i + 1]
      /\ \A i \in 1..n : s[i] \in Carried
  BY Queue
<1>3. /\ own[1] = 1 /\ own[n] = m /\ s[1].word.index = t /\ own[1] \in 1..m
      /\ m \in Nat
  BY <1>1, <1>2, Queue DEF Owned
<1>4. m >= 1 /\ a # <<>>
  BY <1>3, Queue
<1>5. /\ Tail(a) \in Seq(Entry) /\ Len(Tail(a)) = m - 1
      /\ \A i \in 1..(m - 1) : Tail(a)[i] = a[i + 1]
  BY <1>4, Queue
<1>6. Beats \in Nat /\ Beats >= 2 /\ t \in 0..(Beats - 1)
  BY BusConstants DEF Index
<1>7. /\ s[1].word.line = a[1].line /\ s[1].word.index = t
      /\ s[1].last <=> a[1].io \/ t = Beats - 1
      /\ a[1].io => t = 0
  BY <1>1, <1>2, <1>3 DEF Owned
<1>8. ASSUME s[1].last PROVE Served(Tail(s), Tail(a), 0)
  <2> DEFINE next == [k \in 1..(n - 1) |-> own[k + 1] - 1]
  <2>1. ASSUME NEW k \in 1..(n - 1)
        PROVE  next[k] = own[k + 1] - 1 /\ next[k] \in 1..(m - 1)
               /\ Tail(a)[next[k]] = a[own[k + 1]] /\ Tail(s)[k] = s[k + 1]
               /\ k + 1 \in 1..n
    <3>1. k + 1 \in 1..n /\ 1 \in 1..n /\ 1 < k + 1
      BY <1>2
    <3>2. own[1] < own[k + 1] /\ own[k + 1] \in 1..m
      BY <1>1, <1>8, <3>1 DEF Owned
    <3>3. QED
      BY <1>2, <1>3, <1>5, <3>1, <3>2
  <2>2. next \in [1..(n - 1) -> 1..(m - 1)]
    BY <2>1
  <2> HIDE DEF next
  <2>3. n > 1 => next[1] = 1 /\ Tail(s)[1].word.index = 0
    <3> SUFFICES ASSUME n > 1 PROVE next[1] = 1 /\ Tail(s)[1].word.index = 0
      OBVIOUS
    <3>1. 1 \in 1..(n - 1) /\ 1 + 1 = 2
      BY <1>2
    <3>2. own[2] = own[1] + 1 /\ s[2].word.index = 0
      BY <1>1, <1>8, <3>1 DEF Owned
    <3>3. QED
      BY <1>3, <2>1, <3>1, <3>2
  <2>4. n > 1 => next[n - 1] = m - 1
    <3>1. n > 1 => n - 1 \in 1..(n - 1) /\ (n - 1) + 1 = n
      BY <1>2
    <3>2. QED
      BY <1>3, <2>1, <3>1
  <2>5. n = 1 => m = 1
    BY <1>3
  <2>6. \A k \in 1..(n - 1) :
          /\ Tail(s)[k].word.line = Tail(a)[next[k]].line
          /\ Tail(s)[k].last <=> Tail(a)[next[k]].io \/ Tail(s)[k].word.index = Beats - 1
          /\ Tail(a)[next[k]].io => Tail(s)[k].word.index = 0
    BY <1>1, <2>1 DEF Owned
  <2>7. \A j, k \in 1..(n - 1) :
          j < k => next[j] <= next[k] /\ (Tail(s)[j].last => next[j] < next[k])
    <3> SUFFICES ASSUME NEW j \in 1..(n - 1), NEW k \in 1..(n - 1), j < k
                 PROVE  next[j] <= next[k] /\ (Tail(s)[j].last => next[j] < next[k])
      OBVIOUS
    <3>1. j + 1 < k + 1 /\ j + 1 \in 1..n /\ k + 1 \in 1..n
      BY <1>2
    <3>2. own[j + 1] <= own[k + 1] /\ (s[j + 1].last => own[j + 1] < own[k + 1])
      BY <1>1, <3>1 DEF Owned
    <3>3. own[j + 1] \in 1..m /\ own[k + 1] \in 1..m
      BY <1>1, <3>1
    <3>4. next[j] = own[j + 1] - 1 /\ next[k] = own[k + 1] - 1 /\ Tail(s)[j] = s[j + 1]
      BY <2>1
    <3>5. QED
      BY <1>3, <3>2, <3>3, <3>4
  <2>8. \A k \in 1..((n - 1) - 1) :
          IF Tail(s)[k].last
          THEN next[k + 1] = next[k] + 1 /\ Tail(s)[k + 1].word.index = 0
          ELSE /\ next[k + 1] = next[k]
               /\ Tail(s)[k + 1].word
                    = Word(Tail(s)[k].word.line, Tail(s)[k].word.version,
                           Tail(s)[k].word.index + 1)
    <3> SUFFICES ASSUME NEW k \in 1..((n - 1) - 1)
                 PROVE  IF Tail(s)[k].last
                        THEN next[k + 1] = next[k] + 1 /\ Tail(s)[k + 1].word.index = 0
                        ELSE /\ next[k + 1] = next[k]
                             /\ Tail(s)[k + 1].word
                                  = Word(Tail(s)[k].word.line, Tail(s)[k].word.version,
                                         Tail(s)[k].word.index + 1)
      OBVIOUS
    <3>1. k \in 1..(n - 1) /\ k + 1 \in 1..(n - 1)
      BY <1>2
    <3>2. own[k + 1] \in 1..m /\ own[(k + 1) + 1] \in 1..m
      BY <1>1, <1>2, <3>1
    <3>3. IF s[k + 1].last
          THEN own[(k + 1) + 1] = own[k + 1] + 1 /\ s[(k + 1) + 1].word.index = 0
          ELSE /\ own[(k + 1) + 1] = own[k + 1]
               /\ s[(k + 1) + 1].word
                    = Word(s[k + 1].word.line, s[k + 1].word.version, s[k + 1].word.index + 1)
      BY <1>1, <3>1 DEF Owned
    <3>4. Tail(s)[k] = s[k + 1] /\ Tail(s)[k + 1] = s[(k + 1) + 1]
          /\ next[k] = own[k + 1] - 1 /\ next[k + 1] = own[(k + 1) + 1] - 1
      BY <2>1, <3>1
    <3>5. QED
      BY <1>3, <3>2, <3>3, <3>4
  <2>11. Tail(s) = <<>> => Tail(a) = <<>>
    BY <1>2, <1>3, <1>5, <2>5, EmptySeq
  <2>12. Tail(s) # <<>> => n > 1
    BY <1>2, EmptySeq
  <2>9. Owned(Tail(s), Tail(a), 0, next)
    BY <1>2, <1>5, <2>2, <2>3, <2>4, <2>6, <2>7, <2>8, <2>11, <2>12 DEF Owned
  <2>10. QED
    BY <1>2, <1>5, <2>2, <2>9 DEF Served
<1>9. ASSUME ~ s[1].last
      PROVE  /\ (t + 1) % Beats = t + 1 /\ t + 1 \in Index
             /\ Served(Tail(s), a, t + 1)
             /\ Len(s) > 1
             /\ s[2].word = Word(s[1].word.line, s[1].word.version, t + 1)
  <2> DEFINE next == [k \in 1..(n - 1) |-> own[k + 1]]
  <2>1. \A k \in 1..(n - 1) : /\ next[k] = own[k + 1] /\ next[k] \in 1..m
                              /\ Tail(s)[k] = s[k + 1] /\ k + 1 \in 1..n
    BY <1>1, <1>2
  <2>2. next \in [1..(n - 1) -> 1..m]
    BY <2>1
  <2>3. t + 1 \in Index /\ (t + 1) % Beats = t + 1
    <3>1. t + 1 \in 0..(Beats - 1) /\ t + 1 < Beats
      BY <1>6, <1>7, <1>9
    <3>2. \A x \in Nat : x < Beats => x % Beats = x
      BY <1>6
    <3>3. QED
      BY <3>1, <3>2 DEF Index
  <2>4. n > 1 /\ 1 \in 1..(n - 1) /\ 1 + 1 = 2 /\ n - 1 \in 1..(n - 1) /\ (n - 1) + 1 = n
    BY <1>2, <1>9
  <2>5. /\ own[2] = own[1]
        /\ s[2].word = Word(s[1].word.line, s[1].word.version, t + 1)
    BY <1>1, <1>3, <1>9, <2>4 DEF Owned
  <2>6. s[2].word.index = t + 1
    BY <2>5 DEF Word
  <2>7. next[1] = 1 /\ next[n - 1] = m /\ Tail(s)[1].word.index = t + 1
    BY <1>3, <2>1, <2>4, <2>5, <2>6
  <2> HIDE DEF next
  <2>8. \A k \in 1..(n - 1) :
          /\ Tail(s)[k].word.line = a[next[k]].line
          /\ Tail(s)[k].last <=> a[next[k]].io \/ Tail(s)[k].word.index = Beats - 1
          /\ a[next[k]].io => Tail(s)[k].word.index = 0
    BY <1>1, <2>1 DEF Owned
  <2>9. \A j, k \in 1..(n - 1) :
          j < k => next[j] <= next[k] /\ (Tail(s)[j].last => next[j] < next[k])
    <3> SUFFICES ASSUME NEW j \in 1..(n - 1), NEW k \in 1..(n - 1), j < k
                 PROVE  next[j] <= next[k] /\ (Tail(s)[j].last => next[j] < next[k])
      OBVIOUS
    <3>1. j + 1 < k + 1 /\ j + 1 \in 1..n /\ k + 1 \in 1..n
      BY <1>2
    <3>2. own[j + 1] <= own[k + 1] /\ (s[j + 1].last => own[j + 1] < own[k + 1])
      BY <1>1, <3>1 DEF Owned
    <3>3. QED
      BY <2>1, <3>2
  <2>10. \A k \in 1..((n - 1) - 1) :
           IF Tail(s)[k].last
           THEN next[k + 1] = next[k] + 1 /\ Tail(s)[k + 1].word.index = 0
           ELSE /\ next[k + 1] = next[k]
                /\ Tail(s)[k + 1].word
                     = Word(Tail(s)[k].word.line, Tail(s)[k].word.version,
                            Tail(s)[k].word.index + 1)
    <3> SUFFICES ASSUME NEW k \in 1..((n - 1) - 1)
                 PROVE  IF Tail(s)[k].last
                        THEN next[k + 1] = next[k] + 1 /\ Tail(s)[k + 1].word.index = 0
                        ELSE /\ next[k + 1] = next[k]
                             /\ Tail(s)[k + 1].word
                                  = Word(Tail(s)[k].word.line, Tail(s)[k].word.version,
                                         Tail(s)[k].word.index + 1)
      OBVIOUS
    <3>1. k \in 1..(n - 1) /\ k + 1 \in 1..(n - 1)
      BY <1>2
    <3>2. IF s[k + 1].last
          THEN own[(k + 1) + 1] = own[k + 1] + 1 /\ s[(k + 1) + 1].word.index = 0
          ELSE /\ own[(k + 1) + 1] = own[k + 1]
               /\ s[(k + 1) + 1].word
                    = Word(s[k + 1].word.line, s[k + 1].word.version, s[k + 1].word.index + 1)
      BY <1>1, <3>1 DEF Owned
    <3>3. Tail(s)[k] = s[k + 1] /\ Tail(s)[k + 1] = s[(k + 1) + 1]
          /\ next[k] = own[k + 1] /\ next[k + 1] = own[(k + 1) + 1]
      BY <2>1, <3>1
    <3>4. QED
      BY <3>2, <3>3
  <2>14. Tail(s) # <<>>
    BY <1>2, <2>4, EmptySeq
  <2>11. Owned(Tail(s), a, t + 1, next)
    BY <1>2, <2>2, <2>7, <2>8, <2>9, <2>10, <2>14 DEF Owned
  <2>12. Served(Tail(s), a, t + 1)
    BY <1>2, <2>2, <2>11 DEF Served
  <2>13. QED
    BY <2>3, <2>4, <2>5, <2>12
<1>10. QED
  BY <1>4, <1>7, <1>8, <1>9

-----------------------------------------------------------------------------
(* Bursts and memory, step by step *)

\* What is coming, and its first and last beat.
LEMMA ComingShape ==
  ASSUME BusShape, BurstInv
  PROVE  /\ Coming \in Seq(Carried)
         /\ wrData # <<>> =>
              /\ Coming # <<>> /\ Coming[1] = Head(wrData) /\ Head(wrData) \in Carried
              /\ burst # 0 => Len(Coming) > 1
         /\ burst = 0 => Coming = wrData
         /\ burst # 0 => /\ Beat(shift, burst = Beats - 1) \in Carried
                         /\ Coming = Append(wrData, Beat(shift, burst = Beats - 1))
                         /\ Coming # <<>>
                         /\ Coming[Len(Coming)] = Beat(shift, burst = Beats - 1)
<1>1. ASSUME burst # 0 PROVE Beat(shift, burst = Beats - 1) \in Carried
  <2>1. shift \in Index /\ Head(writeMem) \in WriteBack
    BY <1>1, Queue DEF BusShape, BurstInv
  <2>2. Shifted(shift) \in Datum
    BY <2>1, BusConstants DEF Shifted, WriteBack
  <2>3. QED
    BY <2>2 DEF Beat, Carried
<1>2. CASE burst = 0
  BY <1>2, Queue DEF BusShape, Coming
<1>3. CASE burst # 0
  <2> DEFINE b == Beat(shift, burst = Beats - 1)
  <2>1. b \in Carried /\ wrData \in Seq(Carried) /\ Coming = Append(wrData, b)
    BY <1>1, <1>3 DEF BusShape, Coming
  <2> HIDE DEF b
  <2>2. /\ Len(wrData) \in Nat /\ Coming \in Seq(Carried) /\ Len(Coming) = Len(wrData) + 1
        /\ \A i \in 1..Len(wrData) : Coming[i] = wrData[i]
        /\ Coming[Len(wrData) + 1] = b
    BY <2>1, Queue
  <2>3. wrData # <<>> => Len(wrData) >= 1 /\ Head(wrData) = wrData[1] /\ Head(wrData) \in Carried
    BY <2>1, Queue
  <2>4. Coming # <<>>
    BY <2>2, EmptySeq
  <2>5. QED
    BY <1>3, <2>1, <2>2, <2>3, <2>4 DEF b
<1>4. QED
  BY <1>2, <1>3

\* A request the cache or the core adds behind those of the queue.
LEMMA QueueGrows ==
  ASSUME BusShape, BurstInv, MemoryInv, NEW r \in WriteBack, writeMem' = Append(writeMem, r),
         UNCHANGED <<burst, shift, wrReq, wrAddr, wrData, taken, memory>>
  PROVE  BurstInv' /\ MemoryInv'
<1>1. writeMem # <<>> => writeMem' # <<>> /\ Head(writeMem') = Head(writeMem)
  <2> SUFFICES ASSUME writeMem # <<>> PROVE writeMem' # <<>> /\ Head(writeMem') = Head(writeMem)
    OBVIOUS
  <2>1. /\ Len(writeMem) \in Nat /\ Len(writeMem) >= 1 /\ Head(writeMem) = writeMem[1]
        /\ writeMem' \in Seq(WriteBack) /\ Len(writeMem') = Len(writeMem) + 1
        /\ writeMem'[1] = writeMem[1]
    BY Queue DEF BusShape
  <2>2. writeMem' # <<>>
    BY <2>1, EmptySeq
  <2>3. QED
    BY <2>1, <2>2, Queue
<1>2. burst # 0 => Beat(shift, burst = Beats - 1)' = Beat(shift, burst = Beats - 1)
  BY <1>1 DEF BurstInv, Beat, Shifted
<1>3. Coming' = Coming
  BY <1>2 DEF Coming
<1>4. BurstInv'
  BY <1>1, <1>3 DEF BurstInv
<1>5. MemoryInv'
  BY <1>3 DEF MemoryInv, Whole
<1>6. QED
  BY <1>4, <1>5

\* A beat added behind those that come changes nothing for the memory.
LEMMA MemoryKept ==
  ASSUME BusShape, BurstInv, MemoryInv, UNCHANGED <<taken, memory>>,
         taken # 0 => /\ wrAddr' # <<>> /\ Head(wrAddr') = Head(wrAddr)
                      /\ Head(Coming') = Head(Coming)
  PROVE  MemoryInv'
BY DEF MemoryInv, Whole

\* The address of a write and its first beat are sent.
LEMMA BurstStarts ==
  ASSUME BusShape, BurstInv, MemoryInv, WriteRequest
  PROVE  BurstInv' /\ MemoryInv'
<1> DEFINE r == Head(writeMem)
           e == [line |-> r.line, io |-> r.io]
           b == Beat(0, r.io)
           z == Beat(1, 1 = Beats - 1)
<1>1. /\ burst = 0 /\ shift = 1 /\ shift' = 1 /\ writeMem # <<>> /\ r \in WriteBack
      /\ wrAddr' = Append(wrAddr, e) /\ wrData' = Append(wrData, b)
      /\ taken' = taken /\ memory' = memory /\ taken \in Index
      /\ IF r.io THEN burst' = 0 /\ wrReq' = <<>>
                 ELSE burst' = 1 /\ wrReq' = <<r.line>> /\ writeMem' = writeMem
  BY Queue DEF WriteRequest, BurstInv, BusShape
<1>2. /\ e \in Entry /\ b \in Carried /\ b.word.line = e.line /\ b.word.index = 0
      /\ b.last = e.io /\ e.io = r.io /\ b.last \in BOOLEAN
      /\ z \in Carried /\ z.word = Word(b.word.line, b.word.version, b.word.index + 1)
      /\ z.last <=> z.word.index = Beats - 1
  <2>1. 1 \in Index /\ 0 \in Index
    BY BusConstants DEF Index
  <2>2. /\ r.line \in Location /\ r.version \in Version /\ r.io \in BOOLEAN
        /\ r.io <=> r.line \in IoLines
    BY <1>1 DEF WriteBack
  <2>3. Shifted(0) \in Datum /\ Shifted(1) \in Datum
    BY <2>1, <2>2, BusConstants DEF Shifted
  <2>4. e \in Entry /\ e.io = r.io /\ e.line = r.line
    BY <2>2 DEF Entry
  <2>5. /\ b.word = Word(r.line, r.version, 0) /\ b.last = r.io
        /\ z.word = Word(r.line, r.version, 1) /\ z.last = (1 = Beats - 1)
    BY DEF Beat, Shifted
  <2>6. b \in Carried /\ z \in Carried
    BY <2>2, <2>3 DEF Beat, Carried
  <2> HIDE DEF r, e, b, z
  <2>7. /\ b.word.line = r.line /\ b.word.version = r.version /\ b.word.index = 0
        /\ z.word.index = 1
    BY <2>5 DEF Word
  <2>8. z.word = Word(b.word.line, b.word.version, b.word.index + 1)
    BY <2>5, <2>7
  <2>9. z.last <=> z.word.index = Beats - 1
    BY <2>5, <2>7
  <2>10. b.last = e.io /\ b.last \in BOOLEAN /\ b.word.line = e.line
    BY <2>2, <2>4, <2>5, <2>7
  <2>11. QED
    BY <2>4, <2>6, <2>7, <2>8, <2>9, <2>10
<1>3. Coming = wrData /\ wrData \in Seq(Carried) /\ wrAddr \in Seq(Entry)
  BY <1>1 DEF Coming, BusShape
<1>4. Served(wrData', wrAddr', taken)
  <2>1. Served(wrData, wrAddr, taken) /\ (wrData # <<>> => wrData[Len(wrData)].last)
    BY <1>1, <1>3 DEF BurstInv
  <2> HIDE DEF r, e, b, z
  <2>2. QED
    BY <1>1, <1>2, <1>3, <2>1, Begin
<1>5. /\ wrData' \in Seq(Carried) /\ Len(wrData') = Len(wrData) + 1 /\ Len(wrData) \in Nat
      /\ wrData'[Len(wrData')] = b /\ wrData' # <<>>
      /\ wrAddr' \in Seq(Entry) /\ wrAddr' # <<>>
  <2> HIDE DEF r, e, b, z
  <2>1. /\ wrData' \in Seq(Carried) /\ Len(wrData') = Len(wrData) + 1 /\ Len(wrData) \in Nat
        /\ wrData'[Len(wrData) + 1] = b
    BY <1>1, <1>2, <1>3, Queue
  <2>2. wrAddr' \in Seq(Entry) /\ Len(wrAddr') = Len(wrAddr) + 1 /\ Len(wrAddr) \in Nat
    BY <1>1, <1>2, <1>3, Queue
  <2>3. QED
    BY <2>1, <2>2, EmptySeq
<1>6. Coming' = IF r.io THEN wrData' ELSE Append(wrData', z)
  <2>1. CASE r.io
    BY <1>1, <2>1 DEF Coming
  <2>2. CASE ~ r.io
    <3>1. burst' = 1 /\ shift' = 1 /\ writeMem' = writeMem
      BY <1>1, <2>2
    <3>2. QED
      BY <2>2, <3>1 DEF Coming, Beat, Shifted
  <2>3. QED
    BY <2>1, <2>2
<1>7. Served(Coming', wrAddr', taken)
  <2>1. CASE r.io
    BY <1>4, <1>6, <2>1
  <2>2. CASE ~ r.io
    <3> HIDE DEF r, e, b, z
    <3>1. Served(Append(wrData', z), wrAddr', taken)
      BY <1>1, <1>2, <1>4, <1>5, <2>2, Continue
    <3>2. QED
      BY <1>6, <2>2, <3>1
  <2>3. QED
    BY <2>1, <2>2
<1>8. BurstInv'
  BY <1>1, <1>2, <1>5, <1>7 DEF BurstInv
<1>9. ASSUME taken # 0
      PROVE  /\ wrAddr' # <<>> /\ Head(wrAddr') = Head(wrAddr) /\ Head(Coming') = Head(Coming)
  <2>1. wrAddr # <<>> /\ wrData # <<>>
    BY <1>3, <1>9 DEF MemoryInv, BurstInv, Served, Owned
  <2> HIDE DEF r, e, b, z
  <2>2. Head(wrAddr') = Head(wrAddr)
    BY <1>1, <1>2, <1>3, <1>5, <2>1, FirstKept
  <2>3. Head(wrData') = Head(wrData)
    BY <1>1, <1>2, <1>3, <2>1, FirstKept
  <2>4. Head(Append(wrData', z)) = Head(wrData')
    BY <1>2, <1>5, FirstKept
  <2>5. QED
    BY <1>3, <1>5, <1>6, <2>2, <2>3, <2>4
<1>10. QED
  BY <1>1, <1>8, <1>9, MemoryKept

\* The next beat is sent; the last one ends the burst.
LEMMA BurstGoesOn ==
  ASSUME BusShape, BurstInv, MemoryInv, BurstData
  PROVE  BurstInv' /\ MemoryInv'
<1> DEFINE r == Head(writeMem)
           b == Beat(shift, burst = Beats - 1)
           z == Beat(shift + 1, burst + 1 = Beats - 1)
<1>1. /\ burst # 0 /\ shift = burst /\ burst \in Nat /\ burst < Beats /\ r \in WriteBack
      /\ wrData' = Append(wrData, b) /\ wrData' = Coming
      /\ wrAddr' = wrAddr /\ taken' = taken /\ memory' = memory /\ taken \in Index
      /\ ~ r.io /\ wrReq = <<r.line>> /\ writeMem # <<>>
  <2>1. burst # 0 /\ shift = burst /\ writeMem # <<>> /\ ~ r.io /\ wrReq = <<r.line>>
    BY DEF BurstData, BurstInv
  <2>2. burst \in Nat /\ burst < Beats
    BY BusConstants DEF BusShape, Index
  <2>3. QED
    BY <2>1, <2>2, Queue DEF BurstData, BusShape, Coming
<1>2. Served(wrData', wrAddr, taken) /\ wrData' \in Seq(Carried) /\ wrAddr \in Seq(Entry)
      /\ wrData' # <<>> /\ b \in Carried /\ wrData'[Len(wrData')] = b
  BY <1>1, ComingShape DEF BurstInv, BusShape
<1>3. b.last <=> burst = Beats - 1
  BY DEF Beat
<1>4. Beats \in Nat /\ Beats >= 2
  BY BusConstants
<1>5. taken # 0 => Head(wrAddr') = Head(wrAddr) /\ wrAddr # <<>>
  BY <1>1 DEF MemoryInv
<1>6. CASE burst = Beats - 1
  <2>1. burst' = 0 /\ shift' = 1 /\ wrReq' = <<>>
    BY <1>6 DEF BurstData, BurstEnds
  <2>2. Coming' = wrData'
    BY <2>1 DEF Coming
  <2>3. BurstInv'
    BY <1>1, <1>2, <1>3, <1>6, <2>1, <2>2 DEF BurstInv
  <2>4. MemoryInv'
    BY <1>1, <1>5, <2>2, MemoryKept
  <2>5. QED
    BY <2>3, <2>4
<1>7. CASE burst # Beats - 1
  <2>1. burst' = burst + 1 /\ shift' = shift + 1 /\ wrReq' = wrReq /\ writeMem' = writeMem
    BY <1>7 DEF BurstData, BurstEnds
  <2>2. Coming' = Append(wrData', z)
    BY <1>1, <2>1 DEF Coming, Beat, Shifted
  <2>3. burst + 1 \in Index /\ burst + 1 # 0
    BY <1>1, <1>4, <1>7 DEF Index
  <2>4. /\ z \in Carried /\ z.word = Word(b.word.line, b.word.version, b.word.index + 1)
        /\ z.last <=> z.word.index = Beats - 1
    <3>1. r.line \in Location /\ r.version \in Version
      BY <1>1 DEF WriteBack
    <3>2. Shifted(shift + 1) \in Datum
      BY <1>1, <2>3, <3>1, BusConstants DEF Shifted
    <3>3. b.word = Word(r.line, r.version, shift) /\ z.word = Word(r.line, r.version, shift + 1)
          /\ z.last = (burst + 1 = Beats - 1)
      BY DEF Beat, Shifted
    <3>4. z \in Carried
      BY <3>2 DEF Beat, Carried
    <3> HIDE DEF r, b, z
    <3>5. /\ b.word.line = r.line /\ b.word.version = r.version /\ b.word.index = shift
          /\ z.word.index = shift + 1
      BY <3>3 DEF Word
    <3>6. z.word = Word(b.word.line, b.word.version, b.word.index + 1)
      BY <3>3, <3>5
    <3>7. z.last <=> z.word.index = Beats - 1
      BY <1>1, <3>3, <3>5
    <3>8. QED
      BY <3>4, <3>6, <3>7
  <2>5. ~ b.last
    BY <1>3, <1>7
  <2> HIDE DEF r, b, z
  <2>6. Served(Append(wrData', z), wrAddr, taken)
    BY <1>1, <1>2, <2>4, <2>5, Continue
  <2>7. BurstInv'
    BY <1>1, <2>1, <2>2, <2>3, <2>6 DEF BurstInv, r
  <2>8. Head(Append(wrData', z)) = Head(wrData')
    BY <1>2, <2>4, FirstKept
  <2>9. MemoryInv'
    BY <1>1, <1>5, <2>2, <2>8, MemoryKept
  <2>10. QED
    BY <2>7, <2>9
<1>8. QED
  BY <1>6, <1>7

\* The memory takes the next beat.
LEMMA BeatTaken ==
  ASSUME BusShape, BurstInv, MemoryInv, FabricWrites
  PROVE  BurstInv' /\ MemoryInv'
<1> DEFINE h == Head(wrData)
           v == h.word.version
<1>0. PICK l : l = Head(wrAddr).line
  OBVIOUS
<1>1. /\ Coming \in Seq(Carried) /\ Coming # <<>> /\ Coming[1] = h /\ Head(Coming) = h
      /\ h \in Carried /\ wrData # <<>> /\ wrAddr # <<>> /\ wrAddr \in Seq(Entry)
      /\ wrData' = Tail(wrData) /\ wrAddr[1] = Head(wrAddr) /\ Head(wrAddr) \in Entry
      /\ Len(Coming) \in Nat /\ wrData \in Seq(Carried)
  <2>1. wrData # <<>> /\ wrAddr # <<>> /\ wrData' = Tail(wrData) /\ wrAddr \in Seq(Entry)
        /\ wrData \in Seq(Carried)
    BY DEF FabricWrites, BusShape
  <2>2. Coming \in Seq(Carried) /\ Coming # <<>> /\ Coming[1] = h /\ h \in Carried
    BY <2>1, ComingShape
  <2>3. Head(Coming) = Coming[1] /\ Len(Coming) \in Nat
    BY <2>2, Queue
  <2>4. wrAddr[1] = Head(wrAddr) /\ Head(wrAddr) \in Entry
    BY <2>1, Queue
  <2>5. QED
    BY <2>1, <2>2, <2>3, <2>4
<1>2. h.last \/ Len(Coming) > 1
  <2>1. CASE burst = 0
    <3>1. Coming = wrData /\ wrData[Len(wrData)].last /\ Len(wrData) >= 1 /\ Len(wrData) \in Nat
      BY <1>1, <2>1, ComingShape, Queue DEF BurstInv
    <3>2. QED
      BY <1>1, <3>1
  <2>2. CASE burst # 0
    BY <1>1, <2>2, ComingShape
  <2>3. QED
    BY <2>1, <2>2
<1>3. /\ h.word.line = l /\ h.word.index = taken
      /\ h.last <=> Head(wrAddr).io \/ taken = Beats - 1
      /\ Head(wrAddr).io => taken = 0
      /\ h.last => Served(Tail(Coming), Tail(wrAddr), 0)
      /\ ~ h.last =>
           /\ (taken + 1) % Beats = taken + 1 /\ taken + 1 \in Index
           /\ Served(Tail(Coming), wrAddr, taken + 1)
           /\ Coming[2] = Tail(Coming)[1] /\ Tail(Coming) # <<>>
           /\ Coming[2].word = Word(h.word.line, v, taken + 1)
  <2>1. taken \in Index /\ Served(Coming, wrAddr, taken)
    BY DEF BusShape, BurstInv
  <2> HIDE DEF h
  <2>2. /\ Coming[1].word.line = wrAddr[1].line /\ Coming[1].word.index = taken
        /\ Coming[1].last <=> wrAddr[1].io \/ taken = Beats - 1
        /\ wrAddr[1].io => taken = 0
        /\ Coming[1].last => Served(Tail(Coming), Tail(wrAddr), 0)
        /\ ~ Coming[1].last =>
             /\ (taken + 1) % Beats = taken + 1 /\ taken + 1 \in Index
             /\ Served(Tail(Coming), wrAddr, taken + 1)
             /\ Len(Coming) > 1
             /\ Coming[2].word = Word(Coming[1].word.line, Coming[1].word.version, taken + 1)
    BY <1>1, <1>2, <2>1, Take
  <2>3. Len(Coming) > 1 => Coming[2] = Tail(Coming)[1] /\ Tail(Coming) # <<>>
    <3>1. /\ Len(Tail(Coming)) = Len(Coming) - 1
          /\ \A i \in 1..(Len(Coming) - 1) : Tail(Coming)[i] = Coming[i + 1]
      BY <1>1, Queue
    <3>2. Len(Coming) > 1 => 1 \in 1..(Len(Coming) - 1) /\ 1 + 1 = 2
      BY <1>1
    <3>3. QED
      BY <1>1, <3>1, <3>2, EmptySeq
  <2>4. QED
    BY <1>0, <1>1, <2>2, <2>3
<1>4. Coming' = Tail(Coming)
  <2>1. UNCHANGED <<burst, shift, writeMem>>
    BY DEF FabricWrites, coreVars, cacheVars
  <2>2. CASE burst = 0
    BY <1>1, <2>1, <2>2 DEF Coming
  <2>3. CASE burst # 0
    <3> DEFINE b == Beat(shift, burst = Beats - 1)
    <3>1. Coming = Append(wrData, b) /\ b \in Carried
      BY <2>3, ComingShape
    <3>2. Coming' = Append(Tail(wrData), b)
      BY <1>1, <2>1, <2>3 DEF Coming, Beat, Shifted
    <3> HIDE DEF b
    <3>3. Tail(Append(wrData, b)) = Append(Tail(wrData), b)
      BY <1>1, <3>1, TailAppends
    <3>4. QED
      BY <3>1, <3>2, <3>3
  <2>4. QED
    BY <2>2, <2>3
<1>5. /\ UNCHANGED <<burst, shift, wrReq, writeMem>>
      /\ h.last => taken' = 0 /\ wrAddr' = Tail(wrAddr)
      /\ ~ h.last => taken' = taken + 1 /\ wrAddr' = wrAddr
  BY <1>3 DEF FabricWrites, coreVars, cacheVars
<1>6. BurstInv'
  <2>1. Served(Coming', wrAddr', taken')
    BY <1>3, <1>4, <1>5
  <2>2. burst = 0 /\ wrData' # <<>> => wrData'[Len(wrData')].last
    <3>1. /\ Len(wrData) \in Nat /\ Len(wrData) >= 1 /\ wrData' \in Seq(Carried)
          /\ Len(wrData') = Len(wrData) - 1
          /\ \A i \in 1..(Len(wrData) - 1) : wrData'[i] = wrData[i + 1]
      BY <1>1, Queue
    <3>2. wrData' # <<>> => Len(wrData') >= 1
      BY <3>1, Queue
    <3>3. wrData' # <<>> => wrData'[Len(wrData')] = wrData[Len(wrData)]
      BY <3>1, <3>2
    <3>4. QED
      BY <1>1, <3>3 DEF BurstInv
  <2>3. QED
    BY <1>5, <2>1, <2>2 DEF BurstInv
<1>7. /\ l \in Location /\ h.word = Word(l, v, taken) /\ v \in Version
      /\ Head(wrAddr).io <=> l \in IoLines
      /\ memory \in [Lines -> LineWords] /\ taken \in Index
      /\ memory' = IF Head(wrAddr).io THEN memory ELSE [memory EXCEPT ![l][taken] = h.word]
  <2>1. h.word \in Datum /\ Head(wrAddr) \in Entry
    BY <1>1 DEF Carried
  <2>2. h.word = Word(h.word.line, v, h.word.index) /\ v \in Version
    BY <2>1 DEF Datum, Word
  <2>3. l \in Location /\ (Head(wrAddr).io <=> l \in IoLines)
    BY <1>0, <2>1 DEF Entry
  <2>4. QED
    BY <1>0, <1>3, <2>2, <2>3 DEF FabricWrites, BusShape
<1>8. CASE Head(wrAddr).io
  <2>1. taken = 0 /\ taken' = 0 /\ memory' = memory
    BY <1>3, <1>5, <1>7, <1>8
  <2>2. QED
    BY <1>6, <2>1 DEF MemoryInv, Whole
<1>9. CASE ~ Head(wrAddr).io
  <2>1. l \in Lines /\ memory[l] \in LineWords
    BY <1>7, <1>9, BusConstants
  <2>2. /\ \A k \in Lines : k # l => memory'[k] = memory[k]
        /\ memory'[l] = [memory[l] EXCEPT ![taken] = Word(l, v, taken)]
    BY <1>7, <1>9, <2>1
  <2>3. \A i \in Index : i < taken => memory[l][i] = Word(l, v, i)
    BY <1>0, <1>1, <1>7, BusConstants DEF MemoryInv, Index
  <2>4. /\ memory'[l] \in LineWords
        /\ \A i \in Index : i < taken + 1 => memory'[l][i] = Word(l, v, i)
    <3>1. DOMAIN memory[l] = Index
      BY <2>1 DEF LineWords
    <3>2. Word(l, v, taken) \in Datum
      BY <1>7, BusConstants
    <3>3. memory'[l] \in LineWords
      BY <1>7, <2>1, <2>2, <3>2 DEF LineWords
    <3>4. \A i \in Index : memory'[l][i] = IF i = taken THEN Word(l, v, taken) ELSE memory[l][i]
      BY <1>7, <2>2, <3>1
    <3>5. \A i \in Index : i < taken + 1 => i = taken \/ i < taken
      BY <1>7, BusConstants DEF Index
    <3>6. QED
      BY <2>3, <3>3, <3>4, <3>5
  <2>5. \A k \in Lines : k # l => Whole(k)'
    BY <1>0, <2>2 DEF MemoryInv, Whole
  <2>6. CASE h.last
    <3>1. taken = Beats - 1
      BY <1>3, <1>9, <2>6
    <3>2. \A i \in Index : i < taken + 1
      BY <3>1, BusConstants DEF Index
    <3>3. memory'[l] = [i \in Index |-> Word(l, v, i)]
      <4>1. memory'[l] = [i \in Index |-> memory'[l][i]]
        BY <2>4 DEF LineWords
      <4>2. QED
        BY <2>4, <3>2, <4>1
    <3>4. Whole(l)'
      BY <1>7, <3>3 DEF Whole, WholeLine, Index
    <3>5. QED
      BY <1>5, <1>6, <2>5, <2>6, <3>4 DEF MemoryInv
  <2>7. CASE ~ h.last
    <3>1. Head(Coming') = Tail(Coming)[1] /\ Head(Coming').word.version = v
      <4>1. Tail(Coming) \in Seq(Carried)
        BY <1>1, Queue
      <4>2. Head(Tail(Coming)) = Tail(Coming)[1]
        BY <1>3, <2>7, <4>1, Queue
      <4>3. Tail(Coming)[1].word = Word(h.word.line, v, taken + 1)
        BY <1>3, <2>7
      <4>4. Word(h.word.line, v, taken + 1).version = v
        BY DEF Word
      <4>5. QED
        BY <1>4, <4>2, <4>3, <4>4
    <3>2. taken' = taken + 1 /\ wrAddr' = wrAddr
      BY <1>5, <2>7
    <3>3. taken' # 0
      BY <1>7, <3>2, BusConstants DEF Index
    <3> HIDE DEF h, v
    <3>4. \A k \in Lines : Whole(k)' \/ (taken' # 0 /\ Head(wrAddr').line = k)
      BY <1>0, <2>5, <3>2, <3>3
    <3>5. /\ wrAddr' # <<>> /\ ~ Head(wrAddr').io
          /\ \A i \in Index : i < taken' =>
               memory'[Head(wrAddr').line][i]
                 = Word(Head(wrAddr').line, Head(Coming').word.version, i)
      BY <1>0, <1>1, <1>9, <2>4, <3>1, <3>2
    <3>6. QED
      BY <1>6, <3>4, <3>5 DEF MemoryInv
  <2>8. QED
    BY <2>6, <2>7
<1>10. QED
  BY <1>8, <1>9

\* What is queued and sent keeps its shape.
LEMMA ShapeStep ==
  ASSUME BusShape, BurstInv, MemoryInv, [BusNext]_busVars
  PROVE  BusShape'
<1>1. CASE UNCHANGED busVars
  BY <1>1 DEF BusShape, busVars, cacheVars, coreVars, fabricVars
<1>2. ASSUME NEW l \in Lines, CacheEvicts(l) PROVE BusShape'
  <2> DEFINE r == [line |-> l, version |-> latest[l] + 1, io |-> FALSE]
  <2>1. latest[l] + 1 \in Version
    BY <1>2, LineBusAssumption DEF CacheEvicts, BusShape, Version
  <2>2. latest' \in [Lines -> Version] /\ latest'[l] = latest[l] + 1
    BY <1>2, <2>1 DEF CacheEvicts, BusShape
  <2>3. r \in WriteBack /\ writeMem' = Append(writeMem, r)
    BY <1>2, <2>1, <2>2, BusConstants DEF CacheEvicts, WriteBack, Location
  <2> HIDE DEF r
  <2>4. writeMem' \in Seq(WriteBack)
    BY <2>3, Queue DEF BusShape
  <2>5. cached' \subseteq Lines
    BY <1>2 DEF CacheEvicts, BusShape
  <2>6. QED
    BY <1>2, <2>2, <2>4, <2>5 DEF CacheEvicts, BusShape, coreVars, fabricVars
<1>3. ASSUME NEW l \in Location, NEW io \in BOOLEAN, io <=> l \in IoLines,
             readMem' = Append(readMem, [line |-> l, io |-> io]), asked' = asked \cup {l},
             UNCHANGED <<cached, latest, writeMem, acks, coreVars, fabricVars>>
      PROVE  BusShape'
  <2> DEFINE e == [line |-> l, io |-> io]
  <2>1. e \in Entry
    BY <1>3 DEF Entry
  <2>2. readMem' = Append(readMem, e)
    BY <1>3
  <2> HIDE DEF e
  <2>3. readMem' \in Seq(Entry)
    BY <2>1, <2>2, Queue DEF BusShape
  <2>4. asked' \subseteq Location
    BY <1>3 DEF BusShape
  <2>5. QED
    BY <1>3, <2>3, <2>4 DEF BusShape, coreVars, fabricVars
<1>4. ASSUME NEW l \in Lines, CacheMisses(l) PROVE BusShape'
  <2>1. l \in Location /\ (FALSE <=> l \in IoLines)
    BY BusConstants DEF Location
  <2>2. /\ readMem' = Append(readMem, [line |-> l, io |-> FALSE]) /\ asked' = asked \cup {l}
        /\ UNCHANGED <<cached, latest, writeMem, acks, coreVars, fabricVars>>
    BY <1>4 DEF CacheMisses
  <2>3. QED
    BY <1>3, <2>1, <2>2
<1>5. ASSUME NEW l \in IoLines, CoreReads(l) PROVE BusShape'
  <2>1. l \in Location /\ (TRUE <=> l \in IoLines)
    BY DEF Location
  <2>2. /\ readMem' = Append(readMem, [line |-> l, io |-> TRUE]) /\ asked' = asked \cup {l}
        /\ UNCHANGED <<cached, latest, writeMem, acks, coreVars, fabricVars>>
    BY <1>5 DEF CoreReads
  <2>3. QED
    BY <1>3, <2>1, <2>2
<1>6. ASSUME NEW l \in IoLines, CoreWrites(l) PROVE BusShape'
  <2> DEFINE r == [line |-> l, version |-> 0, io |-> TRUE]
  <2>1. r \in WriteBack /\ writeMem' = Append(writeMem, r)
    BY <1>6, BusConstants DEF CoreWrites, WriteBack, Location
  <2> HIDE DEF r
  <2>2. writeMem' \in Seq(WriteBack)
    BY <2>1, Queue DEF BusShape
  <2>3. QED
    BY <1>6, <2>2 DEF CoreWrites, BusShape, coreVars, fabricVars
<1>7. CASE LineReadRequest
  <2> DEFINE e == Head(readMem)
  <2>1. readMem' \in Seq(Entry) /\ e \in Entry
    BY <1>7, Queue DEF LineReadRequest, BusShape
  <2>2. Append(rdAddr, e) \in Seq(Entry)
    BY <2>1, Queue DEF BusShape
  <2>3. <<e>> \in Seq(Entry) /\ Len(<<e>>) <= 1
    BY <2>1
  <2>4. rdAddr' \in Seq(Entry) /\ held' \in Seq(Entry) /\ Len(held') <= 1
    <3>1. \/ held' = <<e>> /\ rdAddr' = rdAddr
          \/ held' = held /\ rdAddr' = Append(rdAddr, e)
      BY <1>7 DEF LineReadRequest
    <3>2. rdAddr \in Seq(Entry) /\ held \in Seq(Entry) /\ Len(held) <= 1
      BY DEF BusShape
    <3> HIDE DEF e
    <3>3. QED
      BY <2>2, <2>3, <3>1, <3>2
  <2>5. QED
    BY <1>7, <2>1, <2>4 DEF LineReadRequest, BusShape
<1>8. CASE DelayedRead
  <2> DEFINE e == held[1]
  <2>1. e \in Entry
    BY <1>8, Queue DEF DelayedRead, BusShape
  <2>2. Append(rdAddr, e) \in Seq(Entry)
    BY <2>1, Queue DEF BusShape
  <2>3. held' \in Seq(Entry) /\ Len(held') <= 1
    BY <1>8, EmptySeq DEF DelayedRead
  <2>4. QED
    BY <1>8, <2>2, <2>3 DEF DelayedRead, BusShape, cacheVars
<1>9. CASE LineResponse
  <2>1. rdData' \in Seq([line : Location, words : {<<>>} \cup LineWords])
    BY <1>9, Queue DEF LineResponse, BusShape
  <2>2. cached' \subseteq Lines /\ asked' \subseteq Location
    BY <1>9 DEF LineResponse, BusShape
  <2>3. QED
    BY <1>9, <2>1, <2>2 DEF LineResponse, BusShape, coreVars
<1>10. CASE WriteRequest
  <2> DEFINE r == Head(writeMem)
             e == [line |-> r.line, io |-> r.io]
             b == Beat(0, r.io)
  <2>1. r \in WriteBack /\ Tail(writeMem) \in Seq(WriteBack)
    BY <1>10, Queue DEF WriteRequest, BusShape
  <2>2. e \in Entry
    BY <2>1 DEF WriteBack, Entry
  <2>3. b \in Carried
    <3>1. Shifted(0) \in Datum
      BY <2>1, BusConstants DEF Shifted, WriteBack
    <3>2. r.io \in BOOLEAN
      BY <2>1 DEF WriteBack
    <3>3. QED
      BY <3>1, <3>2 DEF Beat, Carried
  <2>4. wrAddr' = Append(wrAddr, e) /\ wrData' = Append(wrData, b)
    BY <1>10 DEF WriteRequest
  <2>5. writeMem' \in Seq(WriteBack) /\ burst' \in Index
    <3>1. 1 \in Index
      BY BusConstants DEF Index
    <3>2. QED
      BY <1>10, <2>1, <3>1 DEF WriteRequest, BusShape
  <2> HIDE DEF r, e, b
  <2>6. wrAddr' \in Seq(Entry) /\ wrData' \in Seq(Carried)
    BY <2>2, <2>3, <2>4, Queue DEF BusShape
  <2>7. QED
    BY <1>10, <2>5, <2>6 DEF WriteRequest, BusShape
<1>11. CASE BurstData
  <2>1. wrData' \in Seq(Carried)
    BY <1>11, ComingShape DEF BurstData
  <2>2. burst' \in Index /\ shift' \in Nat /\ writeMem' \in Seq(WriteBack)
    <3>1. burst # Beats - 1 => burst + 1 \in Index
      BY BusConstants DEF BusShape, Index
    <3>2. Tail(writeMem) \in Seq(WriteBack)
      BY <1>11, Queue DEF BurstData, BurstInv, BusShape
    <3>3. 0 \in Index
      BY BusConstants
    <3>4. CASE burst = Beats - 1
      BY <1>11, <3>2, <3>3, <3>4 DEF BurstData, BurstEnds
    <3>5. CASE burst # Beats - 1
      <4>1. burst' = burst + 1 /\ shift' = shift + 1 /\ writeMem' = writeMem
        BY <1>11, <3>5 DEF BurstData, BurstEnds
      <4>2. QED
        BY <3>1, <3>5, <4>1 DEF BusShape
    <3>6. QED
      BY <3>4, <3>5
  <2>3. QED
    BY <1>11, <2>1, <2>2 DEF BurstData, BusShape
<1>12. CASE WriteResponse
  BY <1>12 DEF WriteResponse, BusShape, coreVars
<1>13. CASE FabricWrites
  <2>1. /\ Tail(wrAddr) \in Seq(Entry) /\ Head(wrAddr) \in Entry
        /\ wrData' \in Seq(Carried) /\ Head(wrData) \in Carried
    BY <1>13, Queue DEF FabricWrites, BusShape
  <2>2. taken' \in Index /\ wrAddr' \in Seq(Entry)
    <3>1. 0 \in Index /\ (taken + 1) % Beats \in Index
      BY BusConstants DEF BusShape, Index
    <3>2. QED
      BY <1>13, <2>1, <3>1 DEF FabricWrites, BusShape
  <2>3. memory' \in [Lines -> LineWords]
    <3> DEFINE l == Head(wrAddr).line
               w == Head(wrData).word
    <3>1. memory \in [Lines -> LineWords] /\ w \in Datum
      BY <2>1 DEF BusShape, Carried
    <3>2. \A k \in Lines : memory[k] \in [Index -> Datum]
      BY <3>1 DEF LineWords
    <3>3. memory' = memory \/ memory' = [memory EXCEPT ![l] = [memory[l] EXCEPT ![taken] = w]]
      BY <1>13 DEF FabricWrites
    <3> HIDE DEF l, w
    <3>4. \A k \in Lines : [memory[k] EXCEPT ![taken] = w] \in LineWords
      BY <3>1, <3>2 DEF LineWords
    <3>5. QED
      BY <3>1, <3>3, <3>4
  <2>4. QED
    BY <1>13, <2>1, <2>2, <2>3 DEF FabricWrites, BusShape, cacheVars, coreVars
<1>14. CASE FabricReads
  <2> DEFINE S == [line : Location, words : {<<>>} \cup LineWords]
             e == [line |-> Head(rdAddr).line,
                   words |-> IF Head(rdAddr).io THEN <<>> ELSE memory[Head(rdAddr).line]]
  <2>1. rdAddr' \in Seq(Entry) /\ Head(rdAddr) \in Entry
    BY <1>14, Queue DEF FabricReads, BusShape
  <2>2. e \in S
    <3>1. Head(rdAddr).line \in Location
      BY <2>1 DEF Entry
    <3>2. ~ Head(rdAddr).io => memory[Head(rdAddr).line] \in LineWords
      BY <2>1, <3>1, BusConstants DEF Entry, BusShape
    <3>3. QED
      BY <3>1, <3>2
  <2>3. rdData' = Append(rdData, e) /\ rdData \in Seq(S)
    BY <1>14 DEF FabricReads, BusShape
  <2> HIDE DEF e
  <2>4. rdData' \in Seq(S)
    BY <2>2, <2>3, Queue
  <2>5. QED
    BY <1>14, <2>1, <2>4 DEF FabricReads, BusShape, cacheVars, coreVars
<1>15. QED
  BY <1>1, <1>2, <1>4, <1>5, <1>6, <1>7, <1>8, <1>9, <1>10, <1>11, <1>12, <1>13, <1>14
     DEF BusNext, BusRules

BusInv == BusShape /\ BurstInv /\ MemoryInv

LEMMA BurstStep == ASSUME BusInv, [BusNext]_busVars PROVE BurstInv' /\ MemoryInv'
<1>1. ASSUME UNCHANGED <<writeMem, burst, shift, wrReq, wrAddr, wrData, taken, memory>>
      PROVE  BurstInv' /\ MemoryInv'
  <2>1. Coming' = Coming
    BY <1>1 DEF Coming, Beat, Shifted
  <2>2. QED
    BY <1>1, <2>1 DEF BusInv, BurstInv, MemoryInv, Whole
<1>2. ASSUME NEW l \in Lines, CacheEvicts(l) PROVE BurstInv' /\ MemoryInv'
  <2> DEFINE r == [line |-> l, version |-> latest[l] + 1, io |-> FALSE]
  <2>1. latest[l] + 1 \in Version /\ latest'[l] = latest[l] + 1
    BY <1>2, LineBusAssumption DEF CacheEvicts, BusInv, BusShape, Version
  <2>2. r \in WriteBack /\ writeMem' = Append(writeMem, r)
    BY <1>2, <2>1, BusConstants DEF CacheEvicts, WriteBack, Location
  <2> HIDE DEF r
  <2>3. QED
    BY <1>2, <2>2, QueueGrows DEF CacheEvicts, BusInv, coreVars, fabricVars
<1>3. ASSUME NEW l \in IoLines, CoreWrites(l) PROVE BurstInv' /\ MemoryInv'
  <2> DEFINE r == [line |-> l, version |-> 0, io |-> TRUE]
  <2>1. r \in WriteBack /\ writeMem' = Append(writeMem, r)
    BY <1>3, BusConstants DEF CoreWrites, WriteBack, Location
  <2> HIDE DEF r
  <2>2. QED
    BY <1>3, <2>1, QueueGrows DEF CoreWrites, BusInv, coreVars, fabricVars
<1>4. CASE WriteRequest
  BY <1>4, BurstStarts DEF BusInv
<1>5. CASE BurstData
  BY <1>5, BurstGoesOn DEF BusInv
<1>6. CASE FabricWrites
  BY <1>6, BeatTaken DEF BusInv
<1>7. ASSUME \/ \E l \in Lines : CacheMisses(l)
             \/ \E l \in IoLines : CoreReads(l)
             \/ LineReadRequest \/ DelayedRead \/ LineResponse \/ WriteResponse \/ FabricReads
             \/ UNCHANGED busVars
      PROVE  UNCHANGED <<writeMem, burst, shift, wrReq, wrAddr, wrData, taken, memory>>
  BY <1>7 DEF CacheMisses, CoreReads, LineReadRequest, DelayedRead, LineResponse, WriteResponse,
     FabricReads, busVars, cacheVars, coreVars, fabricVars
<1>8. QED
  BY <1>1, <1>2, <1>3, <1>4, <1>5, <1>6, <1>7 DEF BusNext, BusRules

THEOREM BusInvariance == BusSpec => []BusInv
<1>1. BusIdle => BusInv
  <2> SUFFICES ASSUME BusIdle PROVE BusInv
    OBVIOUS
  <2>1. Len(<<>>) = 0 /\ \A S : <<>> \in Seq(S)
    BY EmptySeq
  <2>2. BusShape
    <3>1. \A l \in Lines : WholeLine(l, 0) \in LineWords
      BY BusConstants DEF Location
    <3>2. memory \in [Lines -> LineWords] /\ latest \in [Lines -> Version]
      BY <3>1, BusConstants DEF BusIdle
    <3>3. QED
      BY <2>1, <3>2, BusConstants DEF BusIdle, BusShape
  <2>3. Coming = <<>>
    BY DEF BusIdle, Coming
  <2>4. Served(<<>>, <<>>, 0)
    <3> DEFINE own == [k \in 1..Len(<<>>) |-> 1]
    <3>1. 1..Len(<<>>) = {} /\ 1..(Len(<<>>) - 1) = {}
      BY <2>1
    <3>2. own \in [1..Len(<<>>) -> 1..Len(<<>>)]
      BY <3>1
    <3>3. Owned(<<>>, <<>>, 0, own)
      BY <3>1, <3>2 DEF Owned
    <3>4. QED
      BY <3>2, <3>3 DEF Served
  <2>5. BurstInv
    BY <2>3, <2>4 DEF BusIdle, BurstInv
  <2>6. MemoryInv
    BY BusConstants DEF BusIdle, MemoryInv, Whole
  <2>7. QED
    BY <2>2, <2>5, <2>6 DEF BusInv
<1>2. BusInv /\ [BusNext]_busVars => BusInv'
  BY ShapeStep, BurstStep DEF BusInv
<1>3. QED
  BY <1>1, <1>2, PTL DEF BusSpec

\* Whatever the cache asks for, in whatever order the fabric serves it, a line
\* in memory is one version of that line, but for the one being written: the
\* counter, the shift and the marks of the last beat agree.
THEOREM LinesWhole == BusSpec => []BurstsAreLines
<1>1. BusInv => BurstsAreLines
  BY DEF BusInv, MemoryInv, Whole, BurstsAreLines
<1>2. QED
  BY <1>1, BusInvariance, PTL

-----------------------------------------------------------------------------
(* What the order of the channels gives, on any fabric *)

LinesOf(s) == {l \in Lines : \E n \in 1..Len(s) : s[n].line = l}
Lasts(s) == {m \in 1..Len(s) : s[m].last}

\* Every address whose burst has ended has its last beat on the channel.
CountInv ==
  /\ IsFiniteSet(Lasts(wrData))
  /\ Cardinality(Lasts(wrData)) = IF burst = 0 THEN Len(wrAddr) ELSE Len(wrAddr) - 1

\* The words on the data channel.
Words(s) == [k \in 1..Len(s) |-> s[k].word]

\* The last entry for line l in s, if there is one, has version v.
LastHas(s, l, v) ==
  \A n \in 1..Len(s) :
    s[n].line = l /\ (\A m \in 1..Len(s) : s[m].line = l => m <= n) => s[n].version = v

\* A line may be waiting more than once: it was read before its write was
\* served, changed and replaced again.  What waits last is the version the
\* core has last written, and when nothing waits the memory holds that version.
Newest(l) ==
  /\ LastHas(writeMem, l, latest[l])
  /\ l \in LinesOf(writeMem) \/ LastHas(Words(wrData), l, latest[l])
  /\ l \in LinesOf(writeMem) \cup LinesOf(wrAddr) \/ memory[l] = WholeLine(l, latest[l])

OrderInv == CountInv /\ \A l \in Lines : Newest(l)

LEMMA LinesAppend ==
  ASSUME NEW S, NEW s \in Seq(S), NEW e \in S
  PROVE  LinesOf(Append(s, e)) = LinesOf(s) \cup ({e.line} \cap Lines)
<1>1. /\ Len(s) \in Nat /\ Len(Append(s, e)) = Len(s) + 1
      /\ \A i \in 1..Len(s) : Append(s, e)[i] = s[i]
      /\ Append(s, e)[Len(s) + 1] = e
  BY Queue
<1>2. /\ \A i \in 1..(Len(s) + 1) : i \in 1..Len(s) \/ i = Len(s) + 1
      /\ \A i \in 1..Len(s) : i \in 1..(Len(s) + 1)
      /\ Len(s) + 1 \in 1..(Len(s) + 1)
  BY <1>1
<1>3. QED
  BY <1>1, <1>2 DEF LinesOf

LEMMA LinesTail ==
  ASSUME NEW S, NEW s \in Seq(S), s # <<>>
  PROVE  LinesOf(s) = LinesOf(Tail(s)) \cup ({Head(s).line} \cap Lines)
<1>1. /\ Len(s) \in Nat /\ Len(s) >= 1 /\ Len(Tail(s)) = Len(s) - 1 /\ Head(s) = s[1]
      /\ \A i \in 1..(Len(s) - 1) : Tail(s)[i] = s[i + 1]
  BY Queue
<1> DEFINE n == Len(s)
           t == Tail(s)
<1>2. /\ \A i \in 1..n : i = 1 \/ \E k \in 1..(n - 1) : i = k + 1
      /\ \A k \in 1..(n - 1) : k + 1 \in 1..n
      /\ 1 \in 1..n
  <2>1. \A i \in 1..n : i # 1 => i - 1 \in 1..(n - 1) /\ i = (i - 1) + 1
    BY <1>1
  <2>2. \A k \in 1..(n - 1) : k + 1 \in 1..n
    BY <1>1
  <2>3. QED
    BY <1>1, <2>1, <2>2
<1> HIDE DEF n, t
<1>3. /\ Len(t) = n - 1 /\ \A i \in 1..(n - 1) : t[i] = s[i + 1]
      /\ Len(s) = n
  BY <1>1 DEF n, t
<1>4. \A l \in Lines : (\E i \in 1..n : s[i].line = l)
                        <=> (s[1].line = l \/ \E k \in 1..(n - 1) : t[k].line = l)
  BY <1>2, <1>3
<1>5. LinesOf(s) = LinesOf(t) \cup ({s[1].line} \cap Lines)
  BY <1>3, <1>4 DEF LinesOf
<1>6. QED
  BY <1>1, <1>5 DEF t

LEMMA LastAppend ==
  ASSUME NEW S, NEW s \in Seq(S), NEW e \in S, NEW l, NEW v,
         IF e.line = l THEN e.version = v ELSE LastHas(s, l, v)
  PROVE  LastHas(Append(s, e), l, v)
<1>1. /\ Len(s) \in Nat /\ Len(Append(s, e)) = Len(s) + 1
      /\ \A i \in 1..Len(s) : Append(s, e)[i] = s[i]
      /\ Append(s, e)[Len(s) + 1] = e
  BY Queue
<1> DEFINE t == Append(s, e)
<1> SUFFICES ASSUME NEW n \in 1..Len(t), t[n].line = l,
                    \A m \in 1..Len(t) : t[m].line = l => m <= n
             PROVE  t[n].version = v
  BY DEF LastHas
<1> HIDE DEF t
<1>2. /\ Len(t) = Len(s) + 1 /\ t[Len(s) + 1] = e /\ Len(s) + 1 \in 1..Len(t)
      /\ \A i \in 1..Len(s) : t[i] = s[i] /\ i \in 1..Len(t)
  BY <1>1 DEF t
<1>3. CASE n = Len(s) + 1
  BY <1>2, <1>3
<1>4. CASE n # Len(s) + 1
  <2>1. n \in 1..Len(s) /\ ~ (Len(s) + 1 <= n)
    BY <1>1, <1>2, <1>4
  <2>2. e.line # l
    BY <1>2, <2>1
  <2>3. \A m \in 1..Len(s) : s[m].line = l => m <= n
    BY <1>2
  <2>4. QED
    BY <1>2, <2>1, <2>2, <2>3 DEF LastHas
<1>5. QED
  BY <1>3, <1>4

LEMMA LastTail ==
  ASSUME NEW S, NEW s \in Seq(S), s # <<>>, NEW l, NEW v, LastHas(s, l, v)
  PROVE  /\ LastHas(Tail(s), l, v)
         /\ l \in Lines \ LinesOf(Tail(s)) /\ Head(s).line = l => Head(s).version = v
<1>1. /\ Len(s) \in Nat /\ Len(s) >= 1 /\ Len(Tail(s)) = Len(s) - 1 /\ Head(s) = s[1]
      /\ \A i \in 1..(Len(s) - 1) : Tail(s)[i] = s[i + 1]
  BY Queue
<1> DEFINE t == Tail(s)
<1>2. /\ Len(t) = Len(s) - 1 /\ Head(s) = s[1] /\ 1 \in 1..Len(s)
      /\ \A i \in 1..Len(t) : t[i] = s[i + 1] /\ i + 1 \in 1..Len(s) /\ i \in Nat
      /\ \A i \in 1..Len(s) : i \in Nat /\ (i # 1 => i - 1 \in 1..Len(t) /\ (i - 1) + 1 = i)
  BY <1>1
<1> HIDE DEF t
<1>3. ASSUME NEW n \in 1..Len(t), t[n].line = l,
             \A m \in 1..Len(t) : t[m].line = l => m <= n
      PROVE  t[n].version = v
  <2>1. ASSUME NEW m \in 1..Len(s), s[m].line = l PROVE m <= n + 1
    <3>1. CASE m = 1
      BY <1>2, <3>1
    <3>2. CASE m # 1
      <4>1. m - 1 \in 1..Len(t) /\ t[m - 1] = s[m] /\ m \in Nat /\ n \in Nat
        BY <1>2, <3>2
      <4>2. m - 1 <= n
        BY <1>3, <2>1, <4>1
      <4>3. QED
        BY <4>1, <4>2
    <3>3. QED
      BY <3>1, <3>2
  <2>2. s[n + 1].line = l /\ n + 1 \in 1..Len(s) /\ t[n] = s[n + 1]
    BY <1>2, <1>3
  <2>3. QED
    BY <2>1, <2>2 DEF LastHas
<1>4. ASSUME l \in Lines \ LinesOf(t), s[1].line = l PROVE s[1].version = v
  <2>1. \A k \in 1..Len(t) : t[k].line # l
    BY <1>4 DEF LinesOf
  <2>2. ASSUME NEW m \in 1..Len(s), s[m].line = l PROVE m = 1
    <3>1. ASSUME m # 1 PROVE FALSE
      <4>1. m - 1 \in 1..Len(t) /\ (m - 1) + 1 = m
        BY <1>2, <3>1
      <4>2. t[m - 1] = s[m]
        BY <1>2, <4>1
      <4>3. QED
        BY <2>1, <2>2, <4>1, <4>2
    <3>2. QED
      BY <3>1
  <2>3. \A m \in 1..Len(s) : s[m].line = l => m <= 1
    <3>1. 1 <= 1
      OBVIOUS
    <3>2. QED
      BY <2>2, <3>1
  <2>4. QED
    BY <1>2, <1>4, <2>3 DEF LastHas
<1>5. LastHas(t, l, v)
  BY <1>3 DEF LastHas
<1>6. QED
  BY <1>2, <1>4, <1>5 DEF t

LEMMA WordsMove ==
  ASSUME NEW s \in Seq(Carried)
  PROVE  /\ Words(s) \in Seq(Datum) /\ Len(Words(s)) = Len(s)
         /\ \A b \in Carried : Words(Append(s, b)) = Append(Words(s), b.word)
         /\ s # <<>> => /\ Words(s) # <<>> /\ Head(Words(s)) = Head(s).word
                        /\ Words(Tail(s)) = Tail(Words(s))
<1>1. \A q \in Seq(Carried) :
        /\ Len(q) \in Nat /\ Words(q) \in Seq(Datum) /\ Len(Words(q)) = Len(q)
        /\ \A k \in 1..Len(q) : Words(q)[k] = q[k].word
  <2> TAKE q \in Seq(Carried)
  <2>1. Len(q) \in Nat /\ \A k \in 1..Len(q) : q[k].word \in Datum
    <3>1. Len(q) \in Nat /\ \A k \in 1..Len(q) : q[k] \in Carried
      BY Queue
    <3>2. \A c \in Carried : c.word \in Datum
      BY DEF Carried
    <3>3. QED
      BY <3>1, <3>2
  <2>2. Words(q) \in [1..Len(q) -> Datum]
    BY <2>1 DEF Words
  <2>3. QED
    BY <2>1, <2>2 DEF Words
<1>2. ASSUME NEW b \in Carried PROVE Words(Append(s, b)) = Append(Words(s), b.word)
  <2>1. /\ Append(s, b) \in Seq(Carried) /\ Len(Append(s, b)) = Len(s) + 1 /\ Len(s) \in Nat
        /\ \A k \in 1..Len(s) : Append(s, b)[k] = s[k]
        /\ Append(s, b)[Len(s) + 1] = b
    BY Queue
  <2>2. b.word \in Datum
    BY DEF Carried
  <2>3. /\ Append(Words(s), b.word) \in Seq(Datum) /\ Len(Append(Words(s), b.word)) = Len(s) + 1
        /\ \A k \in 1..Len(s) : Append(Words(s), b.word)[k] = s[k].word
        /\ Append(Words(s), b.word)[Len(s) + 1] = b.word
    BY <1>1, <2>2, Queue
  <2>4. \A k \in 1..(Len(s) + 1) : k \in 1..Len(s) \/ k = Len(s) + 1
    BY <2>1
  <2>5. /\ Words(Append(s, b)) \in Seq(Datum) /\ Len(Words(Append(s, b))) = Len(s) + 1
        /\ \A k \in 1..(Len(s) + 1) : Words(Append(s, b))[k] = Append(s, b)[k].word
    BY <1>1, <2>1
  <2>6. \A k \in 1..(Len(s) + 1) : Words(Append(s, b))[k] = Append(Words(s), b.word)[k]
    <3> TAKE k \in 1..(Len(s) + 1)
    <3>1. CASE k \in 1..Len(s)
      BY <2>1, <2>3, <2>5, <3>1
    <3>2. CASE k = Len(s) + 1
      BY <2>1, <2>3, <2>5, <3>2
    <3>3. QED
      BY <2>4, <3>1, <3>2
  <2>7. QED
    BY <2>3, <2>5, <2>6, SeqEqual
<1>3. ASSUME s # <<>>
      PROVE  /\ Words(s) # <<>> /\ Head(Words(s)) = Head(s).word
             /\ Words(Tail(s)) = Tail(Words(s))
  <2>1. /\ Len(s) \in Nat /\ Len(s) >= 1 /\ Head(s) = s[1] /\ 1 \in 1..Len(s)
        /\ Tail(s) \in Seq(Carried) /\ Len(Tail(s)) = Len(s) - 1
        /\ \A k \in 1..(Len(s) - 1) : Tail(s)[k] = s[k + 1] /\ k + 1 \in 1..Len(s)
    BY <1>3, Queue
  <2>2. Words(s) # <<>>
    BY <1>1, <2>1, EmptySeq
  <2>3. /\ Head(Words(s)) = Words(s)[1] /\ Tail(Words(s)) \in Seq(Datum)
        /\ Len(Tail(Words(s))) = Len(s) - 1
        /\ \A k \in 1..(Len(s) - 1) : Tail(Words(s))[k] = Words(s)[k + 1]
    <3>1. Words(s) \in Seq(Datum) /\ Len(Words(s)) = Len(s)
      BY <1>1
    <3> DEFINE q == Words(s)
    <3>2. q \in Seq(Datum) /\ q # <<>> /\ Len(q) = Len(s)
      BY <2>2, <3>1
    <3> HIDE DEF q
    <3>3. /\ Head(q) = q[1] /\ Tail(q) \in Seq(Datum) /\ Len(Tail(q)) = Len(s) - 1
          /\ \A k \in 1..(Len(s) - 1) : Tail(q)[k] = q[k + 1]
      BY <3>2, Queue
    <3>4. QED
      BY <3>3 DEF q
  <2>4. /\ Words(Tail(s)) \in Seq(Datum) /\ Len(Words(Tail(s))) = Len(s) - 1
        /\ \A k \in 1..(Len(s) - 1) : Words(Tail(s))[k] = Tail(s)[k].word
        /\ \A k \in 1..Len(s) : Words(s)[k] = s[k].word
    <3>1. Tail(s) \in Seq(Carried) /\ Len(Tail(s)) = Len(s) - 1
      BY <2>1
    <3>2. /\ Words(Tail(s)) \in Seq(Datum) /\ Len(Words(Tail(s))) = Len(Tail(s))
          /\ \A k \in 1..Len(Tail(s)) : Words(Tail(s))[k] = Tail(s)[k].word
      BY ONLY <1>1, <3>1
    <3>3. \A k \in 1..Len(s) : Words(s)[k] = s[k].word
      BY <1>1
    <3>4. QED
      BY <3>1, <3>2, <3>3
  <2>5. Words(Tail(s)) = Tail(Words(s))
    <3>1. \A k \in 1..(Len(s) - 1) : Words(Tail(s))[k] = Tail(Words(s))[k]
      BY <2>1, <2>3, <2>4
    <3>2. QED
      BY <2>3, <2>4, <3>1, SeqEqual
  <2>6. QED
    BY <1>1, <2>1, <2>2, <2>3, <2>5
<1>4. QED
  BY <1>1, <1>2, <1>3

LEMMA LastsAppend ==
  ASSUME NEW S, NEW s \in Seq(S), NEW e \in S, IsFiniteSet(Lasts(s))
  PROVE  /\ IsFiniteSet(Lasts(Append(s, e))) /\ Cardinality(Lasts(s)) \in Nat
         /\ Cardinality(Lasts(Append(s, e)))
              = IF e.last THEN Cardinality(Lasts(s)) + 1 ELSE Cardinality(Lasts(s))
<1>1. /\ Len(s) \in Nat /\ Len(Append(s, e)) = Len(s) + 1
      /\ \A i \in 1..Len(s) : Append(s, e)[i] = s[i]
      /\ Append(s, e)[Len(s) + 1] = e
  BY Queue
<1>2. /\ \A i \in 1..(Len(s) + 1) : i \in 1..Len(s) \/ i = Len(s) + 1
      /\ \A i \in 1..Len(s) : i \in 1..(Len(s) + 1)
      /\ Len(s) + 1 \in 1..(Len(s) + 1) /\ Len(s) + 1 \notin 1..Len(s)
  BY <1>1
<1>3. Lasts(Append(s, e)) = IF e.last THEN Lasts(s) \cup {Len(s) + 1} ELSE Lasts(s)
  BY <1>1, <1>2 DEF Lasts
<1>4. Len(s) + 1 \notin Lasts(s)
  BY <1>2 DEF Lasts
<1>5. /\ IsFiniteSet(Lasts(s) \cup {Len(s) + 1}) /\ Cardinality(Lasts(s)) \in Nat
      /\ Cardinality(Lasts(s) \cup {Len(s) + 1}) = Cardinality(Lasts(s)) + 1
  BY <1>4, FS_AddElement, FS_CardinalityType
<1>6. QED
  BY <1>3, <1>5

LEMMA LastsTail ==
  ASSUME NEW S, NEW s \in Seq(S), s # <<>>, IsFiniteSet(Lasts(s))
  PROVE  /\ IsFiniteSet(Lasts(Tail(s))) /\ Cardinality(Lasts(s)) \in Nat
         /\ Cardinality(Lasts(Tail(s)))
              = IF Head(s).last THEN Cardinality(Lasts(s)) - 1 ELSE Cardinality(Lasts(s))
<1>1. /\ Len(s) \in Nat /\ Len(s) >= 1 /\ Len(Tail(s)) = Len(s) - 1 /\ Head(s) = s[1]
      /\ \A i \in 1..(Len(s) - 1) : Tail(s)[i] = s[i + 1]
  BY Queue
<1> DEFINE rest == Lasts(s) \ {1}
           f == [m \in rest |-> m - 1]
<1>2. ASSUME NEW m \in Lasts(Tail(s)) PROVE m + 1 \in rest /\ m \in Nat
  BY <1>1 DEF Lasts
<1>3. ASSUME NEW m \in rest PROVE m - 1 \in Lasts(Tail(s)) /\ (m - 1) + 1 = m
  BY <1>1 DEF Lasts
<1>4. f \in Bijection(rest, Lasts(Tail(s)))
  <2>1. f \in [rest -> Lasts(Tail(s))]
    BY <1>3
  <2>2. \A a, b \in rest : f[a] = f[b] => a = b
    BY <1>3
  <2>3. \A m \in Lasts(Tail(s)) : \E a \in rest : f[a] = m
    <3> TAKE m \in Lasts(Tail(s))
    <3>1. m + 1 \in rest /\ (m + 1) - 1 = m
      BY <1>2
    <3>2. QED
      BY <3>1
  <2>4. QED
    BY <2>1, <2>2, <2>3 DEF Bijection, Injection, Surjection, IsInjective
<1>5. IsFiniteSet(rest) /\ Cardinality(rest) \in Nat /\ Cardinality(Lasts(s)) \in Nat
  BY FS_RemoveElement, FS_CardinalityType
<1>6. IsFiniteSet(Lasts(Tail(s))) /\ Cardinality(Lasts(Tail(s))) = Cardinality(rest)
  <2>1. ExistsBijection(rest, Lasts(Tail(s)))
    BY <1>4 DEF ExistsBijection
  <2>2. QED
    BY <1>5, <2>1, FS_Bijection
<1>7. 1 \in Lasts(s) <=> Head(s).last
  BY <1>1 DEF Lasts
<1>8. Cardinality(rest) = IF Head(s).last THEN Cardinality(Lasts(s)) - 1 ELSE Cardinality(Lasts(s))
  <2>1. CASE 1 \in Lasts(s)
    BY <1>7, <2>1, FS_RemoveElement
  <2>2. CASE 1 \notin Lasts(s)
    <3>1. rest = Lasts(s)
      BY <2>2
    <3>2. QED
      BY <1>7, <2>2, <3>1
  <2>3. QED
    BY <2>1, <2>2
<1>9. QED
  BY <1>5, <1>6, <1>8

\* The burst writes the line whose address was sent last.
LEMMA BurstAddress ==
  ASSUME BusInv, burst # 0
  PROVE  /\ Len(wrAddr) \in Nat /\ Len(wrAddr) >= 1
         /\ wrAddr[Len(wrAddr)].line = Head(writeMem).line
         /\ Head(writeMem).line \in LinesOf(wrAddr) \cap LinesOf(writeMem)
<1>1. PICK own \in [1..Len(Coming) -> 1..Len(wrAddr)] : Owned(Coming, wrAddr, taken, own)
  BY DEF BusInv, BurstInv, Served
<1>2. /\ Coming \in Seq(Carried) /\ Coming # <<>>
      /\ Coming[Len(Coming)].word.line = Head(writeMem).line
  <2>1. Beat(shift, burst = Beats - 1).word.line = Head(writeMem).line
    BY DEF Beat, Shifted, Word
  <2>2. QED
    BY <2>1, ComingShape DEF BusInv
<1>3. Len(Coming) \in 1..Len(Coming) /\ own[Len(Coming)] = Len(wrAddr)
  BY <1>1, <1>2, Queue DEF Owned
<1>4. Len(wrAddr) \in 1..Len(wrAddr)
  BY <1>1, <1>3
<1>5. wrAddr[Len(wrAddr)].line = Head(writeMem).line
  BY <1>1, <1>2, <1>3 DEF Owned
<1>6. /\ Len(wrAddr) \in Nat /\ writeMem # <<>> /\ ~ Head(writeMem).io
      /\ Head(writeMem) \in WriteBack /\ Head(writeMem) = writeMem[1] /\ 1 \in 1..Len(writeMem)
  BY Queue DEF BusInv, BusShape, BurstInv
<1>7. Head(writeMem).line \in Lines
  BY <1>6, BusConstants DEF WriteBack
<1>8. QED
  BY <1>4, <1>5, <1>6, <1>7 DEF LinesOf

\* Every beat belongs to an address.
LEMMA BeatAddress ==
  BusInv => \A n \in 1..Len(wrData) :
              wrData[n].word.line \in Lines => wrData[n].word.line \in LinesOf(wrAddr)
<1> SUFFICES ASSUME BusInv, NEW n \in 1..Len(wrData), wrData[n].word.line \in Lines
             PROVE  wrData[n].word.line \in LinesOf(wrAddr)
  OBVIOUS
<1>1. PICK own \in [1..Len(Coming) -> 1..Len(wrAddr)] : Owned(Coming, wrAddr, taken, own)
  BY DEF BusInv, BurstInv, Served
<1>2. n \in 1..Len(Coming) /\ Coming[n] = wrData[n]
  <2>1. CASE burst = 0
    BY <2>1, ComingShape DEF BusInv
  <2>2. CASE burst # 0
    <3> DEFINE b == Beat(shift, burst = Beats - 1)
    <3>1. Coming = Append(wrData, b) /\ b \in Carried /\ wrData \in Seq(Carried)
      BY <2>2, ComingShape DEF BusInv, BusShape
    <3> HIDE DEF b
    <3>2. Len(Coming) = Len(wrData) + 1 /\ Coming[n] = wrData[n] /\ Len(wrData) \in Nat
      BY <3>1, Queue
    <3>3. QED
      BY <3>2
  <2>3. QED
    BY <2>1, <2>2
<1>3. Coming[n].word.line = wrAddr[own[n]].line /\ own[n] \in 1..Len(wrAddr)
  BY <1>1, <1>2 DEF Owned
<1>4. QED
  BY <1>2, <1>3 DEF LinesOf

\* The first beat is one of the first address.
LEMMA HeadBeat ==
  ASSUME BusInv, wrAddr # <<>>, wrData # <<>>
  PROVE  Head(wrData).word.line = Head(wrAddr).line /\ Head(wrData).word.index = taken
<1>1. PICK own \in [1..Len(Coming) -> 1..Len(wrAddr)] : Owned(Coming, wrAddr, taken, own)
  BY DEF BusInv, BurstInv, Served
<1>2. Coming \in Seq(Carried) /\ Coming # <<>> /\ Coming[1] = Head(wrData)
  BY ComingShape DEF BusInv
<1>3. 1 \in 1..Len(Coming) /\ Head(wrAddr) = wrAddr[1]
  BY <1>2, Queue DEF BusInv, BusShape
<1>4. QED
  BY <1>1, <1>2, <1>3 DEF Owned

Ordered == BusInv /\ OrderInv

\* Newest in the next state, with the primes where they bind.
LEMMA NewestNext ==
  ASSUME NEW k \in Lines,
         LastHas(writeMem', k, latest'[k]),
         k \in LinesOf(writeMem') \/ LastHas(Words(wrData'), k, latest'[k]),
         k \in LinesOf(writeMem') \cup LinesOf(wrAddr') \/ memory'[k] = WholeLine(k, latest'[k])
  PROVE  Newest(k)'
<1>1. /\ LinesOf(writeMem)' = LinesOf(writeMem') /\ LinesOf(wrAddr)' = LinesOf(wrAddr')
      /\ WholeLine(k, latest[k])' = WholeLine(k, latest'[k])
  BY DEF LinesOf, WholeLine, Word
<1>2. LastHas(writeMem, k, latest[k])' <=> LastHas(writeMem', k, latest'[k])
  BY DEF LastHas
<1>3. LastHas(Words(wrData), k, latest[k])' <=> LastHas(Words(wrData'), k, latest'[k])
  BY DEF LastHas, Words
<1>4. QED
  BY <1>1, <1>2, <1>3 DEF Newest

\* What neither queues, sends nor serves a write.
LEMMA OrderKept ==
  ASSUME Ordered, UNCHANGED <<latest, writeMem, wrAddr, wrData, burst, memory>>
  PROVE  OrderInv'
<1>1. CountInv'
  BY DEF Ordered, OrderInv, CountInv, Lasts
<1>2. ASSUME NEW k \in Lines PROVE Newest(k)'
  BY NewestNext DEF Ordered, OrderInv, Newest
<1>3. QED
  BY <1>1, <1>2 DEF OrderInv

\* A line that was changed leaves the cache for the queue, whatever of it waits
\* there already.
LEMMA LineEvicted ==
  ASSUME Ordered, NEW l \in Lines, CacheEvicts(l)
  PROVE  OrderInv'
<1> DEFINE r == [line |-> l, version |-> latest[l] + 1, io |-> FALSE]
<1>1. /\ r \in WriteBack /\ writeMem' = Append(writeMem, r) /\ writeMem \in Seq(WriteBack)
      /\ r.line = l /\ r.version = latest[l] + 1
      /\ latest'[l] = latest[l] + 1 /\ \A k \in Lines : k # l => latest'[k] = latest[k]
      /\ UNCHANGED <<wrAddr, wrData, burst, memory>>
  <2>1. latest[l] + 1 \in Version
    BY LineBusAssumption DEF CacheEvicts, Ordered, BusInv, BusShape, Version
  <2>2. latest'[l] = latest[l] + 1 /\ \A k \in Lines : k # l => latest'[k] = latest[k]
    BY <2>1 DEF CacheEvicts, Ordered, BusInv, BusShape
  <2>3. UNCHANGED <<wrAddr, wrData, burst, memory>>
    BY DEF CacheEvicts, coreVars, fabricVars
  <2>4. QED
    BY <2>1, <2>2, <2>3, BusConstants
       DEF CacheEvicts, WriteBack, Location, Ordered, BusInv, BusShape
<1> HIDE DEF r
<1>2. LinesOf(writeMem') = LinesOf(writeMem) \cup {l}
  BY <1>1, LinesAppend
<1>3. CountInv'
  BY <1>1 DEF Ordered, OrderInv, CountInv, Lasts
<1>4. ASSUME NEW k \in Lines PROVE Newest(k)'
  <2>1. LastHas(writeMem', k, latest'[k])
    <3>1. LastHas(writeMem, k, latest[k])
      BY DEF Ordered, OrderInv, Newest
    <3>2. IF r.line = k THEN r.version = latest'[k] ELSE LastHas(writeMem, k, latest'[k])
      BY <1>1, <3>1
    <3>3. QED
      BY <1>1, <3>2, LastAppend
  <2>2. k # l => latest'[k] = latest[k] /\ (k \in LinesOf(writeMem') <=> k \in LinesOf(writeMem))
    BY <1>1, <1>2
  <2>3. k \in LinesOf(writeMem') \/ LastHas(Words(wrData'), k, latest'[k])
    BY <1>1, <1>2, <2>2 DEF Ordered, OrderInv, Newest
  <2>4. k \in LinesOf(writeMem') \cup LinesOf(wrAddr') \/ memory'[k] = WholeLine(k, latest'[k])
    BY <1>1, <1>2, <2>2 DEF Ordered, OrderInv, Newest
  <2>5. QED
    BY <2>1, <2>3, <2>4, NewestNext
<1>5. QED
  BY <1>3, <1>4 DEF OrderInv

\* A write of the core behind the requests of the cache.
LEMMA WriteAsked ==
  ASSUME Ordered, NEW l \in IoLines, CoreWrites(l)
  PROVE  OrderInv'
<1> DEFINE r == [line |-> l, version |-> 0, io |-> TRUE]
<1>1. /\ r \in WriteBack /\ writeMem' = Append(writeMem, r) /\ writeMem \in Seq(WriteBack)
      /\ r.line \notin Lines
      /\ UNCHANGED <<latest, wrAddr, wrData, burst, memory>>
  BY BusConstants DEF CoreWrites, WriteBack, Location, Ordered, BusInv, BusShape, coreVars, fabricVars
<1> HIDE DEF r
<1>2. LinesOf(writeMem') = LinesOf(writeMem)
  <2>1. LinesOf(writeMem') = LinesOf(writeMem) \cup ({r.line} \cap Lines)
    BY <1>1, LinesAppend
  <2>2. QED
    BY <1>1, <2>1
<1>3. CountInv'
  BY <1>1 DEF Ordered, OrderInv, CountInv, Lasts
<1>4. ASSUME NEW k \in Lines PROVE Newest(k)'
  <2>1. LastHas(writeMem', k, latest'[k])
    <3>1. IF r.line = k THEN r.version = latest[k] ELSE LastHas(writeMem, k, latest[k])
      BY <1>1 DEF Ordered, OrderInv, Newest
    <3>2. LastHas(Append(writeMem, r), k, latest[k])
      BY <1>1, <3>1, LastAppend
    <3>3. QED
      BY <1>1, <3>2
  <2>2. QED
    BY <1>1, <1>2, <2>1, NewestNext DEF Ordered, OrderInv, Newest
<1>5. QED
  BY <1>3, <1>4 DEF OrderInv

\* The address and the first beat of a write are sent.
LEMMA WriteSent ==
  ASSUME Ordered, WriteRequest
  PROVE  OrderInv'
<1> DEFINE r == Head(writeMem)
           e == [line |-> r.line, io |-> r.io]
           b == Beat(0, r.io)
<1>1. /\ burst = 0 /\ writeMem # <<>> /\ r \in WriteBack /\ writeMem \in Seq(WriteBack)
      /\ wrAddr \in Seq(Entry) /\ wrData \in Seq(Carried)
      /\ wrAddr' = Append(wrAddr, e) /\ wrData' = Append(wrData, b)
      /\ latest' = latest /\ memory' = memory
      /\ \/ r.io /\ writeMem' = Tail(writeMem) /\ burst' = 0
         \/ ~ r.io /\ writeMem' = writeMem /\ burst' = 1
  BY Queue DEF WriteRequest, Ordered, BusInv, BusShape
<1>2. /\ e \in Entry /\ b \in Carried /\ b.last = r.io
      /\ b.word.line = r.line /\ e.line = r.line /\ (r.line \in Lines <=> ~ r.io)
  <2>1. /\ r.line \in Location /\ r.version \in Version /\ r.io \in BOOLEAN
        /\ r.io <=> r.line \in IoLines
    BY <1>1 DEF WriteBack
  <2>2. b.word = Word(r.line, r.version, 0) /\ b.last = r.io
    BY DEF Beat, Shifted
  <2>3. Word(r.line, r.version, 0).line = r.line
    BY DEF Word
  <2>4. Word(r.line, r.version, 0) \in Datum
    BY <2>1, BusConstants
  <2>5. b \in Carried
    BY <2>1, <2>4 DEF Beat, Shifted, Carried
  <2>6. e \in Entry
    BY <2>1 DEF Entry
  <2>7. r.line \in Lines <=> ~ r.io
    BY <2>1, BusConstants
  <2> HIDE DEF b, r
  <2>8. QED
    BY <2>2, <2>3, <2>5, <2>6, <2>7
<1>3. r.line \in Lines => r.line \in LinesOf(writeMem)
  BY <1>1, LinesTail
<1> HIDE DEF r, e, b
<1>4. LinesOf(writeMem') = LinesOf(writeMem)
  <2>1. CASE r.io
    <3>1. LinesOf(writeMem) = LinesOf(Tail(writeMem)) \cup ({r.line} \cap Lines)
      BY <1>1, LinesTail DEF r
    <3>2. QED
      BY <1>1, <1>2, <2>1, <3>1
  <2>2. CASE ~ r.io
    BY <1>1, <2>2
  <2>3. QED
    BY <2>1, <2>2
<1>5. LinesOf(wrAddr') = LinesOf(wrAddr) \cup ({r.line} \cap Lines)
  BY <1>1, <1>2, LinesAppend
<1>6. CountInv'
  <2>1. Len(wrAddr) \in Nat /\ Len(wrAddr') = Len(wrAddr) + 1
    BY <1>1, <1>2, Queue
  <2>2. /\ IsFiniteSet(Lasts(wrData')) /\ Cardinality(Lasts(wrData)) = Len(wrAddr)
        /\ Cardinality(Lasts(wrData'))
             = IF b.last THEN Cardinality(Lasts(wrData)) + 1 ELSE Cardinality(Lasts(wrData))
    BY <1>1, <1>2, LastsAppend DEF Ordered, OrderInv, CountInv
  <2>3. Lasts(wrData)' = Lasts(wrData')
    BY DEF Lasts
  <2>4. Cardinality(Lasts(wrData')) = IF burst' = 0 THEN Len(wrAddr') ELSE Len(wrAddr') - 1
    BY <1>1, <1>2, <2>1, <2>2
  <2>5. QED
    BY <2>2, <2>3, <2>4 DEF CountInv
<1>7. ASSUME NEW k \in Lines PROVE Newest(k)'
  <2>1. LastHas(writeMem', k, latest[k])
    <3>1. LastHas(writeMem, k, latest[k])
      BY DEF Ordered, OrderInv, Newest
    <3>2. LastHas(Tail(writeMem), k, latest[k])
      BY <1>1, <3>1, LastTail
    <3>3. QED
      BY <1>1, <3>1, <3>2
  <2>2. k \in LinesOf(writeMem') \/ LastHas(Words(wrData'), k, latest[k])
    <3> SUFFICES ASSUME k \notin LinesOf(writeMem) PROVE LastHas(Words(wrData'), k, latest[k])
      BY <1>4
    <3>1. LastHas(Words(wrData), k, latest[k]) /\ b.word.line # k
      BY <1>2, <1>3 DEF Ordered, OrderInv, Newest
    <3>2. Words(wrData') = Append(Words(wrData), b.word) /\ Words(wrData) \in Seq(Datum)
      BY <1>1, <1>2, WordsMove
    <3>3. b.word \in Datum
      BY <1>2 DEF Carried
    <3>4. QED
      BY <3>1, <3>2, <3>3, LastAppend
  <2>3. k \in LinesOf(writeMem') \cup LinesOf(wrAddr') \/ memory'[k] = WholeLine(k, latest[k])
    BY <1>1, <1>4, <1>5 DEF Ordered, OrderInv, Newest
  <2>4. QED
    BY <1>1, <2>1, <2>2, <2>3, NewestNext
<1>8. QED
  BY <1>6, <1>7 DEF OrderInv

\* The next beat is sent.  With the last one the write leaves the queue, and
\* its word is the last on the channel.
LEMMA BeatSent ==
  ASSUME Ordered, BurstData
  PROVE  OrderInv'
<1> DEFINE r == Head(writeMem)
           z == (burst = Beats - 1)
           b == Beat(shift, z)
<1>1. /\ burst # 0 /\ burst \in Nat /\ writeMem # <<>> /\ r \in WriteBack
      /\ writeMem \in Seq(WriteBack) /\ wrData \in Seq(Carried)
      /\ wrData' = Append(wrData, b) /\ b \in Carried
      /\ UNCHANGED <<latest, wrAddr, memory>>
      /\ \/ z /\ writeMem' = Tail(writeMem) /\ burst' = 0
         \/ ~ z /\ writeMem' = writeMem /\ burst' = burst + 1
  <2>1. burst # 0 /\ writeMem # <<>> /\ burst \in Nat
    BY BusConstants DEF BurstData, Ordered, BusInv, BusShape, BurstInv, Index
  <2>2. b \in Carried
    BY <2>1, ComingShape DEF Ordered, BusInv
  <2>3. r \in WriteBack
    BY <2>1, Queue DEF Ordered, BusInv, BusShape
  <2>4. /\ UNCHANGED <<latest, wrAddr, memory>>
        /\ wrData' = Append(wrData, b)
        /\ writeMem \in Seq(WriteBack) /\ wrData \in Seq(Carried)
    BY DEF BurstData, Ordered, BusInv, BusShape
  <2>5. \/ z /\ writeMem' = Tail(writeMem) /\ burst' = 0
        \/ ~ z /\ writeMem' = writeMem /\ burst' = burst + 1
    BY DEF BurstData, BurstEnds
  <2>6. QED
    BY <2>1, <2>2, <2>3, <2>4, <2>5
<1>2. b.last = z /\ b.word.line = r.line /\ b.word.version = r.version /\ b.word \in Datum
  <2>1. b.word = Word(r.line, r.version, shift) /\ b.last = z
    BY DEF Beat, Shifted
  <2>2. Word(r.line, r.version, shift).line = r.line /\ Word(r.line, r.version, shift).version = r.version
    BY DEF Word
  <2>3. b.word \in Datum
    BY <1>1 DEF Carried
  <2> HIDE DEF b, r, z
  <2>4. QED
    BY <2>1, <2>2, <2>3
<1>3. r.line \in LinesOf(wrAddr) /\ r.line \in LinesOf(writeMem) /\ Len(wrAddr) \in Nat
  BY <1>1, BurstAddress DEF Ordered
<1>4. LinesOf(writeMem) = LinesOf(Tail(writeMem)) \cup ({r.line} \cap Lines)
  BY <1>1, LinesTail
<1>5. CountInv'
  <2> HIDE DEF b, z, r
  <2>1. /\ IsFiniteSet(Lasts(wrData')) /\ Cardinality(Lasts(wrData)) = Len(wrAddr) - 1
        /\ Cardinality(Lasts(wrData'))
             = IF b.last THEN Cardinality(Lasts(wrData)) + 1 ELSE Cardinality(Lasts(wrData))
    BY <1>1, LastsAppend DEF Ordered, OrderInv, CountInv
  <2>2. Lasts(wrData)' = Lasts(wrData') /\ wrAddr' = wrAddr
    BY <1>1 DEF Lasts
  <2>3. Cardinality(Lasts(wrData')) = IF burst' = 0 THEN Len(wrAddr') ELSE Len(wrAddr') - 1
    BY <1>1, <1>2, <1>3, <2>1, <2>2
  <2>4. QED
    BY <2>1, <2>2, <2>3 DEF CountInv
<1>6. ASSUME NEW k \in Lines PROVE Newest(k)'
  <2> HIDE DEF b, z
  <2>1. /\ LastHas(writeMem, k, latest[k])
        /\ k \in LinesOf(writeMem) \/ LastHas(Words(wrData), k, latest[k])
        /\ k \in LinesOf(writeMem) \cup LinesOf(wrAddr) \/ memory[k] = WholeLine(k, latest[k])
    BY DEF Ordered, OrderInv, Newest
  <2>2. /\ LastHas(Tail(writeMem), k, latest[k])
        /\ k \notin LinesOf(Tail(writeMem)) /\ r.line = k => r.version = latest[k]
    BY <1>1, <2>1, LastTail
  <2> HIDE DEF r
  <2>3. LastHas(writeMem', k, latest[k])
    BY <1>1, <2>1, <2>2
  <2>4. k \in LinesOf(writeMem') \/ LastHas(Words(wrData'), k, latest[k])
    <3> SUFFICES ASSUME k \notin LinesOf(writeMem') PROVE LastHas(Words(wrData'), k, latest[k])
      OBVIOUS
    <3>1. Words(wrData') = Append(Words(wrData), b.word) /\ Words(wrData) \in Seq(Datum)
      BY <1>1, WordsMove
    <3>2. IF b.word.line = k THEN b.word.version = latest[k] ELSE LastHas(Words(wrData), k, latest[k])
      <4>1. CASE r.line = k
        <5>1. z /\ writeMem' = Tail(writeMem)
          BY <1>1, <1>3, <4>1
        <5>2. QED
          BY <1>2, <2>2, <4>1, <5>1
      <4>2. CASE r.line # k
        <5>1. k \notin LinesOf(writeMem)
          BY <1>1, <1>4, <4>2
        <5>2. QED
          BY <1>2, <2>1, <4>2, <5>1
      <4>3. QED
        BY <4>1, <4>2
    <3>3. QED
      BY <1>2, <3>1, <3>2, LastAppend
  <2>5. k \in LinesOf(writeMem') \cup LinesOf(wrAddr') \/ memory'[k] = WholeLine(k, latest[k])
    <3>1. wrAddr' = wrAddr /\ memory' = memory
      BY <1>1
    <3>2. k \in LinesOf(writeMem) => k \in LinesOf(writeMem') \cup LinesOf(wrAddr')
      BY <1>1, <1>3, <1>4, <3>1
    <3>3. QED
      BY <2>1, <3>1, <3>2
  <2>6. QED
    BY <1>1, <2>3, <2>4, <2>5, NewestNext
<1>7. QED
  BY <1>5, <1>6 DEF OrderInv

\* The memory takes a beat.  With the last beat of the last write that waits
\* for a line, the line is in memory as the core has last written it.
LEMMA WriteServed ==
  ASSUME Ordered, FabricWrites
  PROVE  OrderInv'
<1> DEFINE h == Head(wrData)
<1>1. /\ wrAddr # <<>> /\ wrAddr \in Seq(Entry) /\ wrData # <<>> /\ wrData \in Seq(Carried)
      /\ h \in Carried /\ wrData' = Tail(wrData)
      /\ UNCHANGED <<latest, writeMem, burst>>
      /\ Head(wrAddr) \in Entry
      /\ h.last => taken' = 0 /\ wrAddr' = Tail(wrAddr)
      /\ ~ h.last => wrAddr' = wrAddr
      /\ taken \in Index /\ memory \in [Lines -> LineWords]
  BY Queue DEF FabricWrites, cacheVars, coreVars, Ordered, BusInv, BusShape
<1>2. PICK l : l = Head(wrAddr).line
  OBVIOUS
<1>3. /\ l \in Location /\ (l \in Lines <=> ~ Head(wrAddr).io)
      /\ h.word = Word(l, h.word.version, taken) /\ h.word.version \in Version
      /\ h.word.line = l
  <2>1. h.word.line = l /\ h.word.index = taken
    BY <1>1, <1>2, HeadBeat DEF Ordered
  <2>2. h.word \in Datum
    BY <1>1 DEF Carried
  <2>3. h.word = Word(h.word.line, h.word.version, h.word.index) /\ h.word.version \in Version
    BY <2>2 DEF Datum, Word
  <2>4. l \in Location /\ (l \in Lines <=> ~ Head(wrAddr).io)
    BY <1>1, <1>2, BusConstants DEF Entry
  <2>5. QED
    BY <2>1, <2>3, <2>4
<1>4. /\ \A k \in Lines : k # l => memory'[k] = memory[k]
      /\ l \in Lines => memory'[l][taken] = h.word
  <2>1. memory' = IF Head(wrAddr).io THEN memory ELSE [memory EXCEPT ![l][taken] = h.word]
    BY <1>2 DEF FabricWrites
  <2>2. l \in Lines => memory' = [memory EXCEPT ![l][taken] = h.word]
    BY <1>3, <2>1
  <2>3. l \notin Lines => memory' = memory
    BY <1>3, <2>1
  <2>4. l \in Lines => memory[l] \in LineWords /\ taken \in DOMAIN memory[l]
    BY <1>1 DEF LineWords
  <2>5. QED
    BY <1>1, <2>2, <2>3, <2>4
<1>5. h.last /\ l \in Lines => memory'[l] = WholeLine(l, h.word.version)
  <2> SUFFICES ASSUME h.last, l \in Lines PROVE memory'[l] = WholeLine(l, h.word.version)
    OBVIOUS
  <2>1. MemoryInv'
    BY BurstStep DEF Ordered, BusNext, BusRules
  <2>2. taken' = 0
    BY <1>1
  <2>3. Whole(l)'
    BY <2>1, <2>2 DEF MemoryInv
  <2>4. PICK v \in Version : memory'[l] = [i \in Index |-> Word(l, v, i)]
    BY <2>3 DEF Whole, WholeLine, Index
  <2>5. memory'[l][taken] = Word(l, v, taken)
    BY <1>1, <2>4
  <2>6. Word(l, v, taken) = Word(l, h.word.version, taken)
    BY <1>3, <1>4, <2>5
  <2>7. v = h.word.version
    BY <2>6 DEF Word
  <2>8. QED
    BY <2>4, <2>7 DEF WholeLine, Index
<1>6. /\ l \in Lines => l \in LinesOf(wrAddr)
      /\ LinesOf(wrAddr) \subseteq LinesOf(wrAddr') \cup {l}
      /\ ~ h.last => LinesOf(wrAddr') = LinesOf(wrAddr)
  <2>1. LinesOf(wrAddr) = LinesOf(Tail(wrAddr)) \cup ({l} \cap Lines)
    BY <1>1, <1>2, LinesTail
  <2>2. h.last => LinesOf(wrAddr') = LinesOf(Tail(wrAddr))
    BY <1>1
  <2>3. ~ h.last => LinesOf(wrAddr') = LinesOf(wrAddr)
    BY <1>1
  <2> HIDE DEF h
  <2>4. QED
    BY <2>1, <2>2, <2>3
\* What is still on the data channel belongs to an address that is still there.
<1>7. \A k \in Lines \ LinesOf(wrAddr') : k \notin LinesOf(Words(wrData'))
  <2>1. BusInv'
    BY ShapeStep, BurstStep DEF Ordered, BusInv, BusNext, BusRules
  <2>2. \A n \in 1..Len(wrData') : wrData'[n].word.line \in Lines
                                     => wrData'[n].word.line \in LinesOf(wrAddr')
    <3>1. (BusInv => \A n \in 1..Len(wrData) :
                       wrData[n].word.line \in Lines => wrData[n].word.line \in LinesOf(wrAddr))'
      BY BeatAddress, PTL
    <3>2. LinesOf(wrAddr)' = LinesOf(wrAddr')
      BY DEF LinesOf
    <3>3. QED
      BY <2>1, <3>1, <3>2
  <2>3. Len(Words(wrData')) = Len(wrData') /\ \A n \in 1..Len(wrData') : Words(wrData')[n] = wrData'[n].word
    <3>1. wrData' \in Seq(Carried) /\ Len(wrData') \in Nat
      BY <1>1, Queue
    <3>2. QED
      BY <3>1, WordsMove DEF Words
  <2>4. QED
    BY <2>2, <2>3 DEF LinesOf
<1>8. CountInv'
  <2>1. Len(wrAddr) \in Nat /\ Len(Tail(wrAddr)) = Len(wrAddr) - 1
    BY <1>1, Queue
  <2>2. /\ IsFiniteSet(Lasts(wrData')) /\ Cardinality(Lasts(wrData)) \in Nat
        /\ Cardinality(Lasts(wrData')) = IF h.last THEN Cardinality(Lasts(wrData)) - 1
                                                   ELSE Cardinality(Lasts(wrData))
    BY <1>1, LastsTail DEF Ordered, OrderInv, CountInv
  <2>3. Lasts(wrData)' = Lasts(wrData')
    BY DEF Lasts
  <2>4. /\ Cardinality(Lasts(wrData)) = IF burst = 0 THEN Len(wrAddr) ELSE Len(wrAddr) - 1
        /\ burst' = burst
        /\ Len(wrAddr') = IF h.last THEN Len(wrAddr) - 1 ELSE Len(wrAddr)
    <3>1. Cardinality(Lasts(wrData)) = IF burst = 0 THEN Len(wrAddr) ELSE Len(wrAddr) - 1
      BY DEF Ordered, OrderInv, CountInv
    <3>2. (h.last => wrAddr' = Tail(wrAddr)) /\ (~ h.last => wrAddr' = wrAddr) /\ burst' = burst
      BY <1>1
    <3> HIDE DEF h
    <3>3. Len(wrAddr') = IF h.last THEN Len(wrAddr) - 1 ELSE Len(wrAddr)
      BY <2>1, <3>2
    <3>4. QED
      BY <3>1, <3>2, <3>3
  <2> HIDE DEF h
  <2>5. Cardinality(Lasts(wrData')) = IF burst' = 0 THEN Len(wrAddr') ELSE Len(wrAddr') - 1
    BY <2>1, <2>2, <2>4
  <2>6. QED
    BY <2>2, <2>3, <2>5 DEF CountInv
<1>9. ASSUME NEW k \in Lines PROVE Newest(k)'
  <2>1. /\ LastHas(writeMem, k, latest[k])
        /\ k \in LinesOf(writeMem) \/ LastHas(Words(wrData), k, latest[k])
        /\ k \in LinesOf(writeMem) \cup LinesOf(wrAddr) \/ memory[k] = WholeLine(k, latest[k])
    BY DEF Ordered, OrderInv, Newest
  <2>2. /\ Words(wrData) \in Seq(Datum) /\ Words(wrData) # <<>>
        /\ Head(Words(wrData)) = h.word /\ Words(wrData') = Tail(Words(wrData))
    BY <1>1, WordsMove
  <2> HIDE DEF h
  <2>3. LastHas(Words(wrData), k, latest[k]) =>
          /\ LastHas(Words(wrData'), k, latest[k])
          /\ k \notin LinesOf(Words(wrData')) /\ h.word.line = k => h.word.version = latest[k]
    BY <2>2, LastTail
  <2>4. k \in LinesOf(writeMem') \cup LinesOf(wrAddr') \/ memory'[k] = WholeLine(k, latest[k])
    <3> SUFFICES ASSUME k \notin LinesOf(writeMem), k \notin LinesOf(wrAddr')
                 PROVE  memory'[k] = WholeLine(k, latest[k])
      BY <1>1
    <3>1. CASE k = l
      <4>1. h.last
        BY <1>6, <3>1
      <4>2. h.word.version = latest[k]
        BY <1>3, <1>7, <2>1, <2>3, <3>1
      <4>3. QED
        BY <1>5, <3>1, <4>1, <4>2
    <3>2. CASE k # l
      BY <1>4, <1>6, <2>1, <3>2
    <3>3. QED
      BY <3>1, <3>2
  <2>5. QED
    BY <1>1, <2>1, <2>3, <2>4, NewestNext
<1>10. QED
  BY <1>8, <1>9 DEF OrderInv

LEMMA OrderStep == ASSUME Ordered, [BusNext]_busVars PROVE OrderInv'
<1>1. ASSUME NEW l \in Lines, CacheEvicts(l) PROVE OrderInv'
  BY <1>1, LineEvicted
<1>2. ASSUME NEW l \in IoLines, CoreWrites(l) PROVE OrderInv'
  BY <1>2, WriteAsked
<1>3. ASSUME \/ \E l \in Lines : CacheMisses(l)
             \/ \E l \in IoLines : CoreReads(l)
             \/ LineReadRequest \/ DelayedRead \/ LineResponse \/ WriteResponse \/ FabricReads
             \/ UNCHANGED busVars
      PROVE  OrderInv'
  <2>1. UNCHANGED <<latest, writeMem, wrAddr, wrData, burst, memory>>
    BY <1>3 DEF CacheMisses, CoreReads, LineReadRequest, DelayedRead, LineResponse, WriteResponse,
       FabricReads, busVars, cacheVars, coreVars, fabricVars
  <2>2. QED
    BY <2>1, OrderKept
<1>4. QED
  BY <1>1, <1>2, <1>3, WriteSent, BeatSent, WriteServed DEF BusNext, BusRules

LEMMA OrderBegins == BusIdle => OrderInv
<1> SUFFICES ASSUME BusIdle PROVE OrderInv
  OBVIOUS
<1>1. Len(<<>>) = 0 /\ 1..0 = {}
  BY EmptySeq
<1>2. Lasts(<<>>) = {} /\ IsFiniteSet({}) /\ Cardinality({}) = 0
  BY <1>1, FS_EmptySet DEF Lasts
<1>3. CountInv
  BY <1>1, <1>2 DEF BusIdle, CountInv
<1>4. ASSUME NEW k \in Lines PROVE Newest(k)
  <2>1. Words(<<>>) = <<>>
    BY <1>1 DEF Words
  <2>2. LastHas(<<>>, k, latest[k])
    BY <1>1 DEF LastHas
  <2>3. writeMem = <<>> /\ wrData = <<>> /\ memory[k] = WholeLine(k, latest[k])
    BY DEF BusIdle
  <2>4. QED
    BY <2>1, <2>2, <2>3 DEF Newest
<1>5. QED
  BY <1>3, <1>4 DEF OrderInv

THEOREM OrderInvariance == BusSpec => [](BusInv /\ OrderInv)
<1>1. BusIdle => OrderInv
  BY OrderBegins
<1>2. BusInv /\ OrderInv /\ [BusNext]_busVars => OrderInv'
  BY OrderStep DEF Ordered
<1>3. QED
  BY <1>1, <1>2, BusInvariance, PTL DEF BusSpec

\* What of a line is neither queued nor on its way is in memory as the core has
\* last written it.  No write-back is lost, and none is undone by an older one:
\* not even when the fabric has served a read before a write that was sent
\* earlier, so that the line was changed and replaced a second time with the
\* first write-back of it still on its way.
MemoryIsCurrent ==
  \A l \in Lines \ (LinesOf(writeMem) \cup LinesOf(wrAddr)) : memory[l] = WholeLine(l, latest[l])

\* rl_handle_dmem_write_request, rl_dmem_burst_write_data: write-backs reach the
\* memory whole, in order and in their last version.
THEOREM MemoryCurrent == BusSpec => []MemoryIsCurrent
<1>1. OrderInv => MemoryIsCurrent
  BY DEF OrderInv, Newest, MemoryIsCurrent
<1>2. QED
  BY <1>1, OrderInvariance, PTL

\* The line, or location, of the read last put on the read channel.
LastRead == rdAddr[Len(rdAddr)].line

\* A read is put on the read channel only when every word of every write whose
\* address was sent to its region has been sent as well: of the writes on the
\* channel those to the region are among the first, as many as there are last
\* words on the data channel.
ReadsAfterWords ==
  [][Len(rdAddr') > Len(rdAddr) =>
       \A n \in 1..Len(wrAddr) :
         Region[wrAddr[n].line] = Region[LastRead'] => n <= Cardinality(Lasts(wrData))]_busVars

\* The comment at ccore.bsv:170-174 asks that a read does not pass a write to its
\* line.  This much of it rl_handle_dmem_line_read_request and
\* rl_handle_delayed_read achieve by themselves, whatever the cache asks for and
\* whatever the fabric does: the burst is over.  That the write has arrived is
\* not part of it.
THEOREM ReadsFollowWords == BusSpec => ReadsAfterWords
<1>1. ASSUME BusInv, OrderInv, [BusNext]_busVars, Len(rdAddr') > Len(rdAddr),
             NEW n \in 1..Len(wrAddr), Region[wrAddr[n].line] = Region[LastRead']
      PROVE  n <= Cardinality(Lasts(wrData))
  <2>1. Len(wrAddr) \in Nat /\ rdAddr \in Seq(Entry) /\ Len(rdAddr) \in Nat /\ n \in Nat
    BY <1>1, Queue DEF BusInv, BusShape
  <2>2. CASE burst = 0
    BY <1>1, <2>1, <2>2 DEF OrderInv, CountInv
  <2>3. CASE burst # 0
    <3>1. wrReq = <<Head(writeMem).line>> /\ wrAddr[Len(wrAddr)].line = Head(writeMem).line
      BY <1>1, <2>3, BurstAddress DEF BusInv, BurstInv
    <3>2. LineReadRequest
      <4>1. ~ DelayedRead
        BY <3>1 DEF DelayedRead
      <4>2. ~ FabricReads
        <5>1. rdAddr # <<>> => Len(Tail(rdAddr)) = Len(rdAddr) - 1
          BY <2>1, Queue
        <5>2. QED
          BY <1>1, <2>1, <5>1 DEF FabricReads
      <4>3. rdAddr' # rdAddr
        BY <1>1, <2>1
      <4>4. QED
        BY <1>1, <4>1, <4>2, <4>3 DEF BusNext, BusRules, CacheEvicts, CacheMisses, CoreReads,
           CoreWrites, LineResponse, WriteRequest, BurstData, WriteResponse, FabricWrites,
           busVars, cacheVars, coreVars, fabricVars
    <3> DEFINE e == Head(readMem)
    <3>3. ~ MustWait(e.line) /\ rdAddr' = Append(rdAddr, e) /\ e \in Entry
      <4>1. e \in Entry
        BY <1>1, <3>2, Queue DEF LineReadRequest, BusInv, BusShape
      <4>2. QED
        BY <1>1, <2>1, <3>2, <4>1 DEF LineReadRequest
    <3>4. LastRead' = e.line
      <4> HIDE DEF e
      <4>1. Len(rdAddr') = Len(rdAddr) + 1 /\ rdAddr'[Len(rdAddr) + 1] = e
        BY <2>1, <3>3, Queue
      <4>2. LastRead' = rdAddr'[Len(rdAddr')].line
        BY DEF LastRead
      <4>3. QED
        BY <4>1, <4>2
    <3>5. Region[wrAddr[Len(wrAddr)].line] # Region[e.line]
      <4>1. wrReq[1] = Head(writeMem).line /\ wrReq # <<>>
        BY <3>1
      <4>2. QED
        BY <3>1, <3>3, <4>1 DEF MustWait
    <3>6. n # Len(wrAddr)
      BY <1>1, <3>4, <3>5
    <3>7. Cardinality(Lasts(wrData)) = Len(wrAddr) - 1
      BY <1>1, <2>3 DEF OrderInv, CountInv
    <3>8. QED
      BY <1>1, <2>1, <3>6, <3>7
  <2>4. QED
    BY <2>2, <2>3
<1>2. ASSUME BusInv, OrderInv, [BusNext]_busVars
      PROVE  [Len(rdAddr') > Len(rdAddr) =>
                \A n \in 1..Len(wrAddr) :
                  Region[wrAddr[n].line] = Region[LastRead'] => n <= Cardinality(Lasts(wrData))]_busVars
  BY <1>1, <1>2
<1>3. QED
  BY <1>2, OrderInvariance, PTL DEF BusSpec, ReadsAfterWords

=============================================================================
