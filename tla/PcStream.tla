------------------------------ MODULE PcStream ------------------------------
(***************************************************************************)
(* What the fetch side promises to decode, and what Pipeline assumes of it *)
(* (its action Deliver and the constant Predicted): between two            *)
(* re-directions the instructions arrive as one stream of addresses.  An   *)
(* instruction predicted not taken is followed by its neighbour; only a    *)
(* control instruction is predicted taken, and a branch only to its own    *)
(* target.  Behind an instruction whose fetch has failed anything may come.*)
(***************************************************************************)
EXTENDS Naturals, Sequences

CONSTANTS
  Addr, Version,
  Targets,      \* in a version, the targets that may be predicted at an address
  Neighbour,    \* in a version, the address behind each instruction
  StreamSize

VARIABLES
  next,     \* <<the address that comes next>>, or <<>> when it may be any
  epochs,
  code,     \* the version of the code
  out       \* what decode has not taken yet: [pc, ep, trap, pred]

vars == <<next, epochs, code, out>>

Init ==
  /\ next \in {<<p>> : p \in Addr}
  /\ epochs = <<0, 0>>
  /\ code \in Version
  /\ out = <<>>

Following(p, trap, pred) ==
  CASE trap           -> {<<>>}
    [] ~ trap /\ pred -> {<<t>> : t \in Targets[code][p]}
    [] OTHER          -> {<<Neighbour[code][p]>>}

Deliver ==
  /\ Len(out) < StreamSize
  /\ \E p \in Addr, trap, pred \in BOOLEAN :
       /\ next \in {<<p>>, <<>>}
       /\ out' = Append(out, [pc |-> p, ep |-> epochs, trap |-> trap, pred |-> pred])
       /\ IF next = <<>>
          THEN next' = <<>>
          ELSE next' \in Following(p, trap, pred)
  /\ UNCHANGED <<epochs, code>>

Take ==
  /\ out # <<>>
  /\ out' = Tail(out)
  /\ UNCHANGED <<next, epochs, code>>

Redirect ==
  /\ next' \in {<<p>> : p \in Addr}
  /\ epochs' \in {0, 1} \X {0, 1} \ {epochs}
  /\ code' \in Version
  /\ UNCHANGED out

Next == Deliver \/ Take \/ Redirect

Spec == Init /\ [][Next]_vars

=============================================================================
