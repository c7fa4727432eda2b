----------------------------- MODULE Dominators -----------------------------
(***************************************************************************)
(* The pass Dominators (src/optimization/Dominators.cpp) on one function:  *)
(* a depth-first search numbers the blocks in post order, the immediate    *)
(* dominators are iterated to a fixpoint in reverse post order, and the    *)
(* dominance frontiers and the dominator tree are read off them.           *)
(*                                                                         *)
(* Null is nullptr.  The maps idom_ and dom_frontier_ answer for it too:   *)
(* operator[] inserts a null entry.                                        *)
(***************************************************************************)
EXTENDS Dominance

CONSTANTS Null,    \* nullptr
          Graphs   \* the control-flow graphs the pass may be run on

ASSUME EntryAssumption == Entry \in Block /\ Null \notin Block

\* g.succ[b] and g.pre[b] are the lists succ_bbs_ and pre_bbs_ of b; the entry
\* block is no branch target.
IsGraph(g) ==
  /\ g.succ \in [Block -> Seq(Block)]
  /\ g.pre \in [Block -> Seq(Block)]
  /\ \A b, p \in Block : p \in Range(g.pre[b]) <=> b \in Range(g.succ[p])
  /\ g.pre[Entry] = <<>>

ASSUME GraphsAssumption == \A g \in Graphs : IsGraph(g)

VARIABLES cfg,      \* the graph of the function
          phase,    \* where run() is
          stack,    \* the calls of post_order_visit in progress: block, next successor
          visited,  \* the set visited of the search
          order,    \* reverse_post_order_, still in post order
          id,       \* post_order_id_
          idom,     \* idom_
          pos,      \* how many blocks the loop over reverse_post_order_ has left
          changed,  \* the flag of create_idom
          rest,     \* the predecessors the loop in progress has still to visit
          pred,     \* the first predecessor that has an idom
          b1, b2,   \* the arguments of intersect; b2 is new_idom
          blocks,   \* the blocks the loop in progress has still to visit
          runner,   \* the block create_dominance_frontier is climbing from
          frontier, \* dom_frontier_
          children  \* dom_tree_succ_blocks_

vars == <<cfg, phase, stack, visited, order, id, idom, pos, changed, rest, pred, b1, b2,
          blocks, runner, frontier, children>>

dfsvars  == <<stack, visited, order, id>>
idomvars == <<idom, pos, changed, rest, pred, b1, b2>>
dfvars   == <<blocks, runner, frontier>>

NullOr == Block \cup {Null}

\* The block whose turn it is in reverse post order.
bb == order[pos]

Init == /\ cfg \in Graphs
        /\ phase = "dfs"
        /\ stack = <<[block |-> Entry, next |-> 1]>>
        /\ visited = {Entry}
        /\ order = <<>>
        /\ id = [b \in Block |-> 0]
        /\ idom = [b \in NullOr |-> Null]
        /\ pos = 0
        /\ changed = FALSE
        /\ rest = <<>>
        /\ pred = Null /\ b1 = Null /\ b2 = Null
        /\ blocks = {}
        /\ runner = Null
        /\ frontier = [b \in NullOr |-> {}]
        /\ children = [b \in NullOr |-> {}]

-----------------------------------------------------------------------------
(* create_reverse_post_order                                               *)

Top == stack[Len(stack)]

\* One iteration of the loop of post_order_visit, with the call it makes.
VisitSuccessor ==
  /\ phase = "dfs"
  /\ stack # <<>>
  /\ Top.next <= Len(cfg.succ[Top.block])
  /\ LET b   == cfg.succ[Top.block][Top.next]
         adv == [stack EXCEPT ![Len(stack)].next = @ + 1]
     IN IF b \in visited
        THEN stack' = adv /\ UNCHANGED visited
        ELSE /\ stack' = Append(adv, [block |-> b, next |-> 1])
             /\ visited' = visited \cup {b}
  /\ UNCHANGED <<cfg, phase, order, id, idomvars, dfvars, children>>

\* Mutant: the list is built in reverse already.
LeaveBlockInFront ==
  /\ phase = "dfs"
  /\ stack # <<>>
  /\ Top.next > Len(cfg.succ[Top.block])
  /\ id' = [id EXCEPT ![Top.block] = Len(order)]
  /\ order' = <<Top.block>> \o order
  /\ stack' = SubSeq(stack, 1, Len(stack) - 1)
  /\ UNCHANGED <<cfg, phase, visited, idomvars, dfvars, children>>

\* The end of post_order_visit: number the block and return.
LeaveBlock ==
  /\ phase = "dfs"
  /\ stack # <<>>
  /\ Top.next > Len(cfg.succ[Top.block])
  /\ id' = [id EXCEPT ![Top.block] = Len(order)]
  /\ order' = Append(order, Top.block)
  /\ stack' = SubSeq(stack, 1, Len(stack) - 1)
  /\ UNCHANGED <<cfg, phase, visited, idomvars, dfvars, children>>

-----------------------------------------------------------------------------
(* create_idom                                                             *)

\* Mutant: the root does not get itself as idom.
BeginIdomNoRoot ==
  /\ phase = "dfs"
  /\ stack = <<>>
  /\ phase' = "idom"
  /\ idom' = [b \in NullOr |-> Null]
  /\ pos' = Len(order)
  /\ changed' = FALSE
  /\ UNCHANGED <<cfg, dfsvars, rest, pred, b1, b2, dfvars, children>>

\* Mutant: the loop starts one past the last block.
BeginIdomTooFar ==
  /\ phase = "dfs"
  /\ stack = <<>>
  /\ phase' = "idom"
  /\ idom' = [b \in NullOr |-> IF b = Entry THEN Entry ELSE Null]
  /\ pos' = Len(order) + 1
  /\ changed' = FALSE
  /\ UNCHANGED <<cfg, dfsvars, rest, pred, b1, b2, dfvars, children>>

BeginIdom ==
  /\ phase = "dfs"
  /\ stack = <<>>
  /\ phase' = "idom"
  /\ idom' = [b \in NullOr |-> IF b = Entry THEN Entry ELSE Null]
  /\ pos' = Len(order)
  /\ changed' = FALSE
  /\ UNCHANGED <<cfg, dfsvars, rest, pred, b1, b2, dfvars, children>>

SkipRoot ==
  /\ phase = "idom"
  /\ pos > 0
  /\ bb = Entry
  /\ pos' = pos - 1
  /\ UNCHANGED <<cfg, phase, dfsvars, idom, changed, rest, pred, b1, b2, dfvars, children>>

\* Find the first predecessor that has an idom; assert(pred) stops the program
\* when there is none.
FindPred ==
  /\ phase = "idom"
  /\ pos > 0
  /\ bb # Entry
  /\ LET pre  == cfg.pre[bb]
         have == {n \in 1 .. Len(pre) : idom[pre[n]] # Null}
     IN IF have = {}
        THEN phase' = "assert_failed" /\ UNCHANGED <<rest, pred, b2>>
        ELSE /\ pred' = pre[CHOOSE n \in have : \A m \in have : n <= m]
             /\ b2' = pred'
             /\ rest' = pre
             /\ phase' = "merge"
  /\ UNCHANGED <<cfg, dfsvars, idom, pos, changed, b1, dfvars, children>>

\* Mutant: the other predecessors are not looked at.
NextPredIgnored ==
  /\ phase = "merge"
  /\ rest # <<>>
  /\ rest' = Tail(rest)
  /\ UNCHANGED <<cfg, phase, dfsvars, idom, pos, changed, pred, b1, b2, dfvars, children>>

\* One iteration of the second loop over the predecessors.
NextPred ==
  /\ phase = "merge"
  /\ rest # <<>>
  /\ rest' = Tail(rest)
  /\ IF Head(rest) # pred /\ idom[Head(rest)] # Null
     THEN b1' = Head(rest) /\ phase' = "intersect"
     ELSE UNCHANGED <<b1, phase>>
  /\ UNCHANGED <<cfg, dfsvars, idom, pos, changed, pred, b2, dfvars, children>>

\* intersect: the block with the lower number climbs to its idom, which must exist.
Climb1 ==
  /\ phase = "intersect"
  /\ id[b1] < id[b2]
  /\ IF idom[b1] = Null THEN phase' = "assert_failed" /\ UNCHANGED b1
                        ELSE b1' = idom[b1] /\ UNCHANGED phase
  /\ UNCHANGED <<cfg, dfsvars, idom, pos, changed, rest, pred, b2, dfvars, children>>

Climb2 ==
  /\ phase = "intersect"
  /\ id[b2] < id[b1]
  /\ IF idom[b2] = Null THEN phase' = "assert_failed" /\ UNCHANGED b2
                        ELSE b2' = idom[b2] /\ UNCHANGED phase
  /\ UNCHANGED <<cfg, dfsvars, idom, pos, changed, rest, pred, b1, dfvars, children>>

\* Mutant: intersect climbs once more after the two have met.
EndIntersectAbove ==
  /\ phase = "intersect"
  /\ b1 = b2
  /\ b2' = idom[b2]
  /\ phase' = "merge"
  /\ UNCHANGED <<cfg, dfsvars, idom, pos, changed, rest, pred, b1, dfvars, children>>

EndIntersect ==
  /\ phase = "intersect"
  /\ b1 = b2
  /\ phase' = "merge"
  /\ UNCHANGED <<cfg, dfsvars, idomvars, dfvars, children>>

SetIdom ==
  /\ phase = "merge"
  /\ rest = <<>>
  /\ idom' = [idom EXCEPT ![bb] = b2]
  /\ changed' = (changed \/ idom[bb] # b2)
  /\ pos' = pos - 1
  /\ phase' = "idom"
  /\ UNCHANGED <<cfg, dfsvars, rest, pred, b1, b2, dfvars, children>>

\* Mutant: changed is not set to false when the loop starts over.
IterateForever ==
  /\ phase = "idom"
  /\ pos = 0
  /\ changed
  /\ pos' = Len(order)
  /\ UNCHANGED <<cfg, phase, dfsvars, idom, changed, rest, pred, b1, b2, dfvars, children>>

\* while (changed)
IterateAgain ==
  /\ phase = "idom"
  /\ pos = 0
  /\ changed
  /\ pos' = Len(order)
  /\ changed' = FALSE
  /\ UNCHANGED <<cfg, phase, dfsvars, idom, rest, pred, b1, b2, dfvars, children>>

-----------------------------------------------------------------------------
(* create_dominance_frontier and create_dom_tree_succ                      *)

\* Mutant: only blocks with more than two predecessors are joins.
BeginFrontierMoreThanTwo ==
  /\ phase = "idom"
  /\ pos = 0
  /\ ~changed
  /\ phase' = "frontier"
  /\ blocks' = {b \in Block : Len(cfg.pre[b]) > 2}
  /\ rest' = <<>>
  /\ UNCHANGED <<cfg, dfsvars, idom, pos, changed, pred, b1, b2, runner, frontier, children>>

BeginFrontier ==
  /\ phase = "idom"
  /\ pos = 0
  /\ ~changed
  /\ phase' = "frontier"
  /\ blocks' = {b \in Block : Len(cfg.pre[b]) >= 2}
  /\ rest' = <<>>
  /\ UNCHANGED <<cfg, dfsvars, idom, pos, changed, pred, b1, b2, runner, frontier, children>>

\* The next block with two predecessors or more; pred keeps it.
NextJoin(b) ==
  /\ phase = "frontier"
  /\ rest = <<>>
  /\ b \in blocks
  /\ blocks' = blocks \ {b}
  /\ pred' = b
  /\ rest' = cfg.pre[b]
  /\ runner' = Head(cfg.pre[b])
  /\ phase' = "walk"
  /\ UNCHANGED <<cfg, dfsvars, idom, pos, changed, b1, b2, frontier, children>>

\* One iteration of the while loop: from the predecessor up to the idom of the block.
Walk ==
  /\ phase = "walk"
  /\ runner # idom[pred]
  /\ frontier' = [frontier EXCEPT ![runner] = @ \cup {pred}]
  /\ runner' = idom[runner]
  /\ UNCHANGED <<cfg, phase, dfsvars, idomvars, blocks, children>>

EndWalk ==
  /\ phase = "walk"
  /\ runner = idom[pred]
  /\ rest' = Tail(rest)
  /\ IF Tail(rest) = <<>> THEN phase' = "frontier" /\ UNCHANGED runner
                          ELSE runner' = Head(Tail(rest)) /\ UNCHANGED phase
  /\ UNCHANGED <<cfg, dfsvars, idom, pos, changed, pred, b1, b2, blocks, frontier, children>>

\* Mutant: joins are left out of the tree.
CreateDomTreeSuccNoJoin ==
  /\ phase = "frontier"
  /\ rest = <<>>
  /\ blocks = {}
  /\ children' = [p \in NullOr |-> {b \in Block : idom[b] = p /\ p # b /\ Len(cfg.pre[b]) = 1}]
  /\ phase' = "done"
  /\ UNCHANGED <<cfg, dfsvars, idomvars, dfvars>>

CreateDomTreeSucc ==
  /\ phase = "frontier"
  /\ rest = <<>>
  /\ blocks = {}
  /\ children' = [p \in NullOr |-> {b \in Block : idom[b] = p /\ p # b}]
  /\ phase' = "done"
  /\ UNCHANGED <<cfg, dfsvars, idomvars, dfvars>>

Next == \/ VisitSuccessor \/ LeaveBlock
        \/ BeginIdom \/ SkipRoot \/ FindPred \/ NextPred
        \/ Climb1 \/ Climb2 \/ EndIntersect \/ SetIdom \/ IterateAgain
        \/ BeginFrontier \/ (\E b \in Block : NextJoin(b)) \/ Walk \/ EndWalk
        \/ CreateDomTreeSucc

Spec == Init /\ [][Next]_vars /\ WF_vars(Next)

-----------------------------------------------------------------------------
(* What makes the result right.                                            *)

Reached == Reachable(cfg.succ)

TypeOK ==
  /\ IsGraph(cfg)
  /\ phase \in {"dfs", "idom", "merge", "intersect", "frontier", "walk", "done", "assert_failed"}
  /\ stack \in Seq([block : Block, next : Nat \ {0}])
  /\ visited \in SUBSET Block
  /\ order \in Seq(Block)
  /\ id \in [Block -> Nat]
  /\ idom \in [NullOr -> NullOr]
  /\ pos \in 0 .. Len(order)
  /\ changed \in BOOLEAN
  /\ rest \in Seq(Block)
  /\ {pred, b1, b2, runner} \subseteq NullOr
  /\ blocks \in SUBSET Block
  /\ frontier \in [NullOr -> SUBSET Block]
  /\ children \in [NullOr -> SUBSET Block]

\* The assertions of create_idom and intersect hold: in reverse post order each
\* block has a predecessor that is done before it, and no climb passes the root.
AssertsHold == phase # "assert_failed"

\* The search reaches every reachable block once; the root has the highest number,
\* and every other block has a predecessor with a higher number than its own.
PostOrderNumbers ==
  phase = "idom" =>
    /\ Range(order) = Reached
    /\ \A n \in 1 .. Len(order) : id[order[n]] = n - 1
    /\ \A b \in Reached \ {Entry} :
         /\ id[b] < id[Entry]
         /\ \E p \in Preds(cfg.succ, b) \cap Reached : id[p] > id[b]

\* The candidate idoms of a block lead upwards in the numbering to the root, so
\* that two climbs always meet; and the climb of a block passes all its
\* dominators: at no moment of the iteration is a dominator lost.
ClimbsKeepDominators ==
  phase = "idom" =>
    \A b \in Block \ {Entry} :
      idom[b] # Null =>
        /\ idom[b] \in Block
        /\ id[idom[b]] > id[b]
        /\ \A d \in StrictDoms(cfg.succ, b) : \A S \in SUBSET Block :
             idom[b] \in S /\ (\A c \in S : idom[c] \in S) => d \in S

\* No climb goes astray, at any moment of the iteration: the numbers of the search
\* and the candidate idoms lead every climb of intersect upwards to the root, past
\* all dominators of where it began.
ClimbsMeet == AssertsHold /\ PostOrderNumbers /\ ClimbsKeepDominators

\* The fixpoint is the immediate dominator of each reachable block.
IdomsCorrect ==
  phase \in {"frontier", "done"} =>
    /\ idom[Entry] = Entry
    /\ \A b \in Reached \ {Entry} : idom[b] = ImmediateDom(cfg.succ, b)

\* The frontiers are those of the definition, although only blocks with two
\* predecessors are looked at.
FrontiersCorrect ==
  phase = "done" => \A b \in Reached : frontier[b] = Frontier(cfg.succ, b)

\* The recursion of Mem2Reg over the dominator tree visits every reachable block.
TreeSpans ==
  phase = "done" =>
    \A S \in SUBSET Block :
      Entry \in S /\ (\A b \in S : children[b] \subseteq S) => Reached \subseteq S

\* What the pass leaves to Mem2Reg is what the definitions by paths say, of every
\* reachable block.
ResultsCorrect == IdomsCorrect /\ FrontiersCorrect /\ TreeSpans

\* The pass returns.
Terminates == <>(phase = "done")

\* Dominators.cpp:180: the climb from a predecessor goes on until it arrives at
\* the idom of the block.
EveryWalkArrives == (phase = "walk") ~> (phase # "walk" \/ runner = idom[pred])
=============================================================================
