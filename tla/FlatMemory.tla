----------------------------- MODULE FlatMemory -----------------------------
(***************************************************************************)
(* The memory a user program of the virtual-memory test environment is     *)
(* promised: each page keeps what was last stored in it, a load sees that, *)
(* and where a page really lies makes no difference.  Nothing is promised  *)
(* once the program has made its environment call.                         *)
(***************************************************************************)
CONSTANTS
  Page,       \* pages of the program
  Text(_),    \* what a page holds at first
  Written(_)  \* what a store leaves in a page

VARIABLES
  data,       \* what each page holds
  access,     \* the access the program is making: page and operation
  loaded,     \* the last page loaded and what was seen in it
  running     \* the program has not ended

flatVars == <<data, access, loaded, running>>

FlatInit ==
  /\ data = [p \in Page |-> Text(p)]
  /\ access = <<>>
  /\ loaded = <<>>
  /\ running = TRUE

Begin ==
  /\ running /\ access = <<>>
  /\ \E p \in Page, op \in {"load", "store"} : access' = <<p, op>>
  /\ UNCHANGED <<data, loaded, running>>

Load ==
  /\ \E p \in Page : access = <<p, "load">> /\ loaded' = <<p, data[p]>>
  /\ access' = <<>>
  /\ UNCHANGED <<data, running>>

Store ==
  /\ \E p \in Page :
       access = <<p, "store">> /\ data' = [data EXCEPT ![p] = Written(p)]
  /\ access' = <<>>
  /\ UNCHANGED <<loaded, running>>

End ==
  /\ access = <<>>
  /\ running' = FALSE
  /\ UNCHANGED <<data, access, loaded>>

\* The environment is free to move pages about after the end.
Ended ==
  /\ ~ running
  /\ UNCHANGED <<access, loaded, running>>

FlatNext == Begin \/ Load \/ Store \/ End \/ Ended

FlatSpec == FlatInit /\ [][FlatNext]_flatVars

=============================================================================
