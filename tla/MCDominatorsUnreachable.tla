---------------------- MODULE MCDominatorsUnreachable ----------------------
(* Dominators on the graph the front end builds for                         *)
(*   if (a) { if (b) return 1; else return 2; } return 0;                   *)
(* The block where the inner if would go on has no predecessor, yet it is   *)
(* current when the outer if ends and is given a branch to the block that   *)
(* follows (cminusf_builder.cpp:315-318).                                   *)
EXTENDS Dominators

CONSTANTS entry, true1, cont1, true2, false2, cont2

IfIf ==
  [succ |-> [b \in Block |-> CASE b = entry -> <<cont1, true1>>
                               [] b = true1 -> <<false2, true2>>
                               [] b = cont2 -> <<cont1>>
                               [] OTHER     -> <<>>],
   pre  |-> [b \in Block |-> CASE b = true1  -> <<entry>>
                               [] b = true2  -> <<true1>>
                               [] b = false2 -> <<true1>>
                               [] b = cont1  -> <<entry, cont2>>
                               [] OTHER      -> <<>>]]

IfIfGraphs == {IfIf}
=============================================================================
