------------------------------ MODULE MCUnits ------------------------------
(***************************************************************************)
(* Code for TLC: five parts of the core that share no state with each other *)
(* in the models, checked one at a time; unit says which one moves.        *)
(***************************************************************************)
EXTENDS LineBus, PtwArbiter, CsrChain, Divider, Traps, TLC

CONSTANTS l1, l2, io, c0, c1, c2, c4, handler

\* The uncached location is in the region of the second line.
Regions == l1 :> l1 @@ l2 :> l2 @@ io :> l2
CsrGroups == c1 :> 1 @@ c2 :> 2 @@ c4 :> 4 @@ c0 :> 0

Handlers == [m \in Mode |-> [cause \in Cause |-> handler]]

VARIABLE unit

vars == <<busVars, ptwVars, csrVars, divVars, trapVars, unit>>

Init ==
  /\ BusIdle
  /\ PtwIdle
  /\ CsrIdle
  /\ DivIdle
  /\ TrapsIdle
  /\ unit \in {"bus", "ptw", "csr", "div", "traps"}

InitBus ==
  /\ Init
  /\ unit = "bus"

\* The first division takes any operands; a later one, which starts on what
\* the first has left, takes some that are special.
DividerNext ==
  \/ \E x, y \in (IF DivIdle THEN Register ELSE {1, Modulus \div 2, Modulus - 1}),
        f \in Operation, half \in BOOLEAN : Start(x, y, f, half)
  \/ Step
  \/ Take

Next ==
  \/ unit = "bus" /\ BusNext /\ UNCHANGED <<ptwVars, csrVars, divVars, trapVars, unit>>
  \/ unit = "ptw" /\ PtwNext /\ UNCHANGED <<busVars, csrVars, divVars, trapVars, unit>>
  \/ unit = "csr" /\ CsrNext /\ UNCHANGED <<busVars, ptwVars, divVars, trapVars, unit>>
  \/ unit = "div" /\ DividerNext /\ UNCHANGED <<busVars, ptwVars, csrVars, trapVars, unit>>
  \/ unit = "traps" /\ TrapsNext /\ UNCHANGED <<busVars, ptwVars, csrVars, divVars, unit>>

\* A unit that does not move is idle, where its fairness asks nothing of it.
\* The privilege modes have safety properties only.
FairSpec ==
  /\ Init /\ [][Next]_vars
  /\ BusFairness /\ PtwFairness /\ CsrFairness /\ DivFairness

BusOnly == InitBus /\ [][Next]_vars

DividerOnly == Init /\ unit = "div" /\ [][Next]_vars /\ DivFairness

=============================================================================
