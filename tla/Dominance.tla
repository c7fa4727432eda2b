----------------------------- MODULE Dominance ------------------------------
(***************************************************************************)
(* Dominance in a control-flow graph, by paths: the reference definitions  *)
(* the results of the pass Dominators are compared with.  A graph is the   *)
(* function that gives each block its sequence of successors.              *)
(***************************************************************************)
EXTENDS Integers, Sequences, Functions

CONSTANTS Block,  \* the basic blocks of a function
          Entry   \* its entry block

Succs(succ, b) == Range(succ[b])
Preds(succ, b) == {p \in Block : b \in Succs(succ, p)}

\* S holds the entry and whatever an edge leads to from S, if Avoid is not entered.
ClosedAvoiding(succ, Avoid, S) ==
  /\ Entry \notin Avoid => Entry \in S
  /\ \A b \in S : Succs(succ, b) \ Avoid \subseteq S

\* The blocks that a path from the entry reaches without entering Avoid.
ReachAvoiding(succ, Avoid) ==
  {b \in Block : \A S \in SUBSET Block : ClosedAvoiding(succ, Avoid, S) => b \in S}

Reachable(succ) == ReachAvoiding(succ, {})

\* Every path from the entry to b goes through d.
Dominates(succ, d, b) == b \notin ReachAvoiding(succ, {d})

StrictDoms(succ, b) == {d \in Block \ {b} : Dominates(succ, d, b)}

\* The dominators of a reachable block form a chain; the last one before the block.
ImmediateDom(succ, b) ==
  CHOOSE d \in StrictDoms(succ, b) : \A e \in StrictDoms(succ, b) : Dominates(succ, e, d)

\* Where the dominance of b ends: it dominates a predecessor but not strictly the block.
Frontier(succ, b) ==
  {y \in Block : /\ \E p \in Preds(succ, y) : Dominates(succ, b, p)
                 /\ b \notin StrictDoms(succ, y)}
=============================================================================
