---------------------------- MODULE MCDominators ----------------------------
(* Every control-flow graph of four blocks, with every order of successors, *)
(* and predecessors listed in the order of the blocks or in reverse.        *)
EXTENDS Dominators, SequencesExt

CONSTANTS e, x, y, z

MCOrder == <<e, x, y, z>>

\* A block returns, branches to one block, or on a condition to two; the entry
\* block is never a target.
Targets  == {x, y, z}
SuccList == {<<>>} \cup {<<t>> : t \in Targets}
            \cup {l \in Targets \X Targets : l[1] # l[2]}

Pre(succ, o) == [b \in Block |-> SelectSeq(o, LAMBDA p : b \in Range(succ[p]))]

\* The entry block branches to x, or to x and y: the other choices are the same
\* graphs with the blocks renamed.
AllGraphs == {[succ |-> s, pre |-> Pre(s, o)] :
                s \in {f \in [Block -> SuccList] : f[e] \in {<<x>>, <<x, y>>}},
                o \in {MCOrder, Reverse(MCOrder)}}

\* The graphs whose blocks are all reachable from the entry.
ReachableGraphs == {g \in AllGraphs : Reachable(g.succ) = Block}
=============================================================================
