-------------------------------- MODULE Btb --------------------------------
(***************************************************************************)
(* The branch target buffer of gshare_fa.bsv: one entry for each aligned   *)
(* word that holds a control instruction in its lower or upper half, kept  *)
(* fully associative and replaced round robin.                             *)
(*                                                                         *)
(* The direction of a BRANCH comes from a table of counters indexed by a   *)
(* hash of the history; here it may be either.  The return address stack   *)
(* is a library: the target of a return is any address it may hold.        *)
(***************************************************************************)
EXTENDS Naturals

CONSTANTS
  Words,      \* aligned words of the address space
  BtbDepth,   \* entries of the buffer
  RasTop      \* addresses the return address stack may give

ASSUME BtbAssumption ==
  /\ Words \in Nat \ {0}
  /\ BtbDepth \in Nat \ {0}
  /\ RasTop \subseteq 0 .. (2 * Words - 1)

\* An address counts halfwords; the program wraps at the end of the space.
Word == 0 .. (Words - 1)
Half == 0 .. (2 * Words - 1)
WordOf(a) == a \div 2
IsHi(a) == a % 2 = 1
Plus(a, n) == (a + n) % (2 * Words)

ControlInsn == {"Branch", "JAL", "Ret"}

Entry == [valid : BOOLEAN, tag : Word, target : Half, ci : ControlInsn,
          instr16 : BOOLEAN, hi : BOOLEAN]

TrainingData == [pc : Half, target : Half, ci : ControlInsn, instr16 : BOOLEAN]

VARIABLES
  btb,       \* v_reg_btb_entry and v_reg_btb_tag
  allocate,  \* rg_allocate
  bpuInit    \* rg_initialize: a FENCE.I is about to clear the buffer

btbVars == <<btb, allocate, bpuInit>>

NoEntry == [valid |-> FALSE, tag |-> 0, target |-> 0, ci |-> "Branch",
            instr16 |-> FALSE, hi |-> FALSE]

BtbInit ==
  /\ btb = [i \in 0 .. (BtbDepth - 1) |-> NoEntry]
  /\ allocate = 0
  /\ bpuInit = FALSE

\* match_
Matches(w) == {i \in DOMAIN btb : btb[i].valid /\ btb[i].tag = w}

Response(pred, target, e) ==
  [pred |-> pred, target |-> target, hi |-> e.hi, instr16 |-> e.instr16]

\* mav_prediction_response for the address p: pred is the upper bit of the
\* prediction.  An entry for the lower half says nothing of the upper one.
Predictions(p) ==
  IF Matches(WordOf(p)) = {}
  THEN {Response(FALSE, p, NoEntry)}
  ELSE LET e == btb[CHOOSE i \in Matches(WordOf(p)) : TRUE]
       IN  CASE IsHi(p) /\ ~ e.hi -> {Response(FALSE, p, e)}
             [] ~ (IsHi(p) /\ ~ e.hi) /\ e.ci = "Ret" ->
                  {Response(TRUE, t, e) : t \in RasTop}
             [] ~ (IsHi(p) /\ ~ e.hi) /\ e.ci = "JAL" ->
                  {Response(TRUE, e.target, e)}
             [] OTHER -> {Response(b, e.target, e) : b \in BOOLEAN}

Trained(d) ==
  [valid |-> TRUE, tag |-> WordOf(d.pc), target |-> d.target, ci |-> d.ci,
   instr16 |-> d.instr16, hi |-> IsHi(d.pc)]

\* Mutant: the buffer is not searched before an entry is allocated.
TrainBlind(d) ==
  /\ btb' = [btb EXCEPT ![allocate] = Trained(d)]
  /\ allocate' = (allocate + 1) % BtbDepth
  /\ UNCHANGED bpuInit

\* ma_train_bpu: an entry of the same word is replaced in place.
Train(d) ==
  /\ ~ bpuInit
  /\ \/ \E i \in Matches(WordOf(d.pc)) :
          /\ btb' = [btb EXCEPT ![i] = Trained(d)]
          /\ UNCHANGED allocate
     \/ /\ Matches(WordOf(d.pc)) = {}
        /\ btb' = [btb EXCEPT ![allocate] = Trained(d)]
        /\ allocate' = (allocate + 1) % BtbDepth
  /\ UNCHANGED bpuInit

\* rl_initialize
Clear ==
  /\ bpuInit
  /\ btb' = [i \in DOMAIN btb |-> NoEntry]
  /\ allocate' = 0
  /\ bpuInit' = FALSE

\* The assertion of mav_prediction_response, "Multiple Matches in BTB": no word
\* has two entries.  Training looks the word up again at its own time, with
\* other trainings and a replacement in between.
SingleMatch ==
  \A i, j \in DOMAIN btb :
    (btb[i].valid /\ btb[j].valid /\ btb[i].tag = btb[j].tag) => i = j

=============================================================================
