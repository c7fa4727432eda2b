------------------------------- MODULE DefUse -------------------------------
(***************************************************************************)
(* Which value is used where, with no use lists: a use <<u, i, v>> says    *)
(* that operand i of user u is the value v.  A value is replaced in all    *)
(* the uses by some users at once.                                         *)
(***************************************************************************)
CONSTANTS User,  \* the values that have operands
          Val,   \* all values
          ArgNo  \* positions of operands

VARIABLE edges

Init == edges = {}

Use(u, i, v) == /\ \A e \in edges : <<e[1], e[2]>> # <<u, i>>
                /\ edges' = edges \cup {<<u, i, v>>}

Replaced(e, v, w, S) == IF e[3] = v /\ e[1] \in S THEN <<e[1], e[2], w>> ELSE e

Replace(v, w, S) == edges' = {Replaced(e, v, w, S) : e \in edges}

Drop(u) == edges' = {e \in edges : e[1] # u}

Next == \/ \E u \in User, i \in ArgNo, v \in Val : Use(u, i, v)
        \/ \E v, w \in Val, S \in SUBSET User : Replace(v, w, S)
        \/ \E u \in User : Drop(u)

Spec == Init /\ [][Next]_edges
=============================================================================
