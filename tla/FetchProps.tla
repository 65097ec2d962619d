----------------------------- MODULE FetchProps -----------------------------
(***************************************************************************)
(* What has to hold of the fetch side.                                     *)
(***************************************************************************)
EXTENDS Fetch, FiniteSets

Epoch == {0, 1} \X {0, 1}
Parts == [at : Half, ver : Version]
WordEntry == [word : Word, discard : BOOLEAN, hi : BOOLEAN, pred : BOOLEAN]
Request == [word : Word, ep : Epoch, kind : {"fetch", "fence", "sfence"}]
Answer == [word : Word, ep : Epoch, trap : BOOLEAN, ver : Version,
              lo : BOOLEAN, hi : BOOLEAN]
HalfEntry == [word : Word, long : BOOLEAN, ver : Version, ep : Epoch,
              hi : BOOLEAN, pred : BOOLEAN]
FetchedEntry == [pc : Half, parts : [1..1 -> Parts] \cup [1..2 -> Parts], ep : Epoch,
                 trap : BOOLEAN, upperErr : BOOLEAN, pred : BOOLEAN]

\* Every register holds what it can hold and no buffer more than it has room for.
FetchTypeOK ==
  /\ btb \in [0 .. (BtbDepth - 1) -> Entry]
  /\ allocate \in 0 .. (BtbDepth - 1)
  /\ {bpuInit, fence, sfence, receivingUpper, stall, inFlight} \subseteq BOOLEAN
  /\ {pc, arch} \subseteq Half
  /\ delayed \in Seq(Half) /\ Len(delayed) <= 1
  /\ td \in Seq(TrainingData) /\ Len(td) <= 1
  /\ Epochs \in Epoch
  /\ pipe0 \in Seq(WordEntry) /\ Len(pipe0) <= Pipe0Size
  /\ ireq \in Seq(Request) /\ Len(ireq) <= IcacheDepth
  /\ iresp \in Seq(Answer) /\ Len(iresp) <= RespSize
  /\ kept \in Seq(HalfEntry) /\ Len(kept) <= 1
  /\ pipe1 \in Seq(FetchedEntry) /\ Len(pipe1) <= Pipe1Size
  /\ pipe2 \in Seq(FetchedEntry) /\ Len(pipe2) <= 1
  /\ stale \subseteq Version
  /\ ver \in Version

-----------------------------------------------------------------------------
(* Pairing *)

Fetches(r) == r.kind = "fetch"

\* How many of the first k requests of s will be answered.
Due(s, k) == Cardinality({j \in 1..k : Fetches(s[j])})

\* The entries of pipe0 carry no epoch: over any number of flushes, and over
\* fences, which are not answered, each is still paired with its own answer.
PairedByOrder ==
  /\ Len(pipe0) = Len(iresp) + Due(ireq, Len(ireq))
  /\ \A i \in 1..Len(iresp) : pipe0[i].word = iresp[i].word
  /\ \A k \in 1..Len(ireq) :
       Fetches(ireq[k]) => pipe0[Len(iresp) + Due(ireq, k)].word = ireq[k].word

-----------------------------------------------------------------------------
(* Realignment *)

Faulty(p) == WordOf(p.at) \in FaultWord

\* What decode has accepted is an instruction as it stands in memory: it starts
\* at its pc and has both halves, in order, when it is a 32-bit one.
WholeInstruction ==
  (LiveInExec /\ ~ InExec.trap) =>
     /\ InExec.parts[1].at = InExec.pc
     /\ Len(InExec.parts) = Length(InExec.parts[1].ver, InExec.pc)
     /\ Len(InExec.parts) = 2 => InExec.parts[2].at = Plus(InExec.pc, 1)

\* A fetch fault of any part of an instruction travels with it, and mtval will
\* name the upper half exactly when only that half has failed.
FaultsReported ==
  LiveInExec =>
     LET parts == {InExec.parts[i] : i \in 1..Len(InExec.parts)}
     IN  /\ InExec.trap = (\E p \in parts : Faulty(p))
         /\ InExec.trap => InExec.upperErr = ~ Faulty(InExec.parts[1])

\* Once FENCE.I (or SFENCE.VMA) has committed, nothing is executed that was read
\* before: the fence reaches the instruction side ahead of the next fetch.
CurrentCode ==
  LiveInExec => \A i \in 1..Len(InExec.parts) : InExec.parts[i].ver = ver

-----------------------------------------------------------------------------
(* The path *)

\* s is where the instructions of version v start: they do not overlap, all that
\* redirects or is predicted leads to a start, and a branch has one target.
StartsOf(s, v) ==
  /\ {TrapVec} \cup WbTarget[v] \cup RasTop \subseteq s
  /\ \A a \in s :
       /\ Code[v][a].tgt \cup {Plus(a, Length(v, a))} \subseteq s
       /\ Code[v][a].long => Plus(a, 1) \notin s
       /\ Code[v][a].op = "BRANCH" => \E t \in Half : Code[v][a].tgt = {t}

\* SFENCE.VMA maps the same code again.
Separate(starts) ==
  /\ ResetPc \in starts[FirstVersion]
  /\ \A v \in Version : StartsOf(starts[v], v)
  /\ \A v \in Version : \A u \in AfterSfence[v] :
       Code[u] = Code[v] /\ starts[u] = starts[v]

\* The instruction about to execute is the next one of the program: whatever
\* the predictor has suggested, the checks of execute notice a wrong turn.  For
\* code whose instructions do not overlap, with FENCE.I behind every change.
OnProgramPath == LiveInExec => InExec.pc = arch

\* The documentation of the execute stage: to detect a misprediction the target
\* is compared with the pc of the next instruction.
TargetCompared ==
  [][(ExecControl /\ eEpoch' = eEpoch) => Head(pipe1).pc = arch']_vars

\* Behind a fetch fault the stream is undefined until the flush.
Lost ==
  \/ stall
  \/ \E i \in 1..Len(pipe1) : pipe1[i].ep = Epochs /\ pipe1[i].trap
  \/ LiveInExec /\ InExec.trap

\* The answer to the i-th entry of pipe0, or the request for it.
AnswerOf(i) ==
  IF i <= Len(iresp) THEN iresp[i]
  ELSE ireq[CHOOSE k \in 1..Len(ireq) : Fetches(ireq[k]) /\ Due(ireq, k) = i - Len(iresp)]

\* The address stage1 will deliver next: the half it has kept, or the oldest
\* word on its way with the current epochs, or the word stage0 asks for next.
NextDelivered ==
  LET live == {i \in 1..Len(pipe0) : AnswerOf(i).ep = Epochs}
  IN  IF Lost THEN <<>>
      ELSE IF HasPrev THEN <<PrevPc>>
      ELSE IF live = {} THEN <<pc>>
      ELSE LET i == CHOOSE k \in live : \A l \in live : k <= l
           IN  <<2 * pipe0[i].word + (IF pipe0[i].discard THEN 1 ELSE 0)>>

PredictedTargets(v, a) ==
  CASE Code[v][a].op = "PLAIN"          -> {}
    [] Code[v][a].op \in {"BRANCH", "JAL"} -> Code[v][a].tgt
    [] OTHER                            -> RasTop

Stream == INSTANCE PcStream WITH
  Addr <- Half,
  Targets <- [v \in Version |-> [a \in Half |-> PredictedTargets(v, a)]],
  Neighbour <- [v \in Version |-> [a \in Half |-> Plus(a, Length(v, a))]],
  StreamSize <- Pipe1Size,
  next <- NextDelivered,
  epochs <- Epochs,
  code <- ver,
  out <- [i \in 1..Len(pipe1) |->
            [pc |-> pipe1[i].pc, ep |-> pipe1[i].ep, trap |-> pipe1[i].trap,
             pred |-> pipe1[i].pred]]

\* The fetch side gives decode what Pipeline assumes of it.
ImplementsPcStream == Stream!Spec

Executes == (ExecPlain \/ ExecControl) /\ LiveInExec

\* Instructions keep executing: no flush, full buffer or fence stops fetch.
FetchProgress == []<><<Executes>>_vars

=============================================================================
