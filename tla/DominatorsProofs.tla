-------------------------- MODULE DominatorsProofs --------------------------
(* The pass Dominators, for every control-flow graph: no climb goes astray,  *)
(* and what the pass leaves is what the definitions by paths say.            *)
EXTENDS Dominators, DominanceProofs, SequenceTheorems

-----------------------------------------------------------------------------
(* The invariant.                                                           *)

\* The blocks an idom is known of.
Known == {b \in Block : idom[b] # Null}

\* The blocks a climb from b along the idoms f passes, b included.
Chain(f, b) == {c \in Block : \A S \in SUBSET Block :
                  b \in S /\ (\A a \in S : f[a] \in S) => c \in S}

\* All the strict dominators of b dominate c.
Keeps(b, c) == \A d \in StrictDoms(cfg.succ, b) : Dominates(cfg.succ, d, c)

\* The search: the calls in progress are a path from the entry, the finished blocks
\* are numbered, and only finished blocks and the explored part of the calls have
\* left the unvisited blocks behind.
OnStack == {stack[i].block : i \in 1 .. Len(stack)}

SearchInv ==
  /\ \A i, j \in 1 .. Len(stack) : stack[i].block = stack[j].block => i = j
  /\ OnStack \cap Range(order) = {}
  /\ visited = OnStack \cup Range(order)
  /\ visited \subseteq Reached
  /\ \A n \in 1 .. Len(order) : id[order[n]] = n - 1
  /\ stack # <<>> => stack[1].block = Entry
  /\ stack = <<>> => order # <<>> /\ order[Len(order)] = Entry
  /\ \A i \in 1 .. Len(stack) - 1 : stack[i + 1].block \in Succs(cfg.succ, stack[i].block)
  /\ \A b \in Range(order) \ {Entry} :
       \E p \in Preds(cfg.succ, b) : p \in OnStack \/ (p \in Range(order) /\ id[p] > id[b])
  /\ \A b \in Range(order) : Succs(cfg.succ, b) \subseteq visited
  /\ \A i \in 1 .. Len(stack) : \A n \in 1 .. Len(cfg.succ[stack[i].block]) :
       n < stack[i].next => cfg.succ[stack[i].block][n] \in visited

\* What the search leaves.
Numbered ==
  /\ Range(order) = Reached
  /\ \A n \in 1 .. Len(order) : id[order[n]] = n - 1
  /\ \A b \in Reached \ {Entry} :
       /\ id[b] < id[Entry]
       /\ \E p \in Preds(cfg.succ, b) \cap Reached : id[p] > id[b]

\* The idoms, at any moment of the iteration: they lead upwards, and the dominators
\* of a block are dominators of its idom.
IdomInv ==
  /\ idom[Null] = Null
  /\ idom[Entry] = Entry
  /\ Known \subseteq Reached
  /\ \A b \in Known : idom[b] \in Known /\ Keeps(b, idom[b])
  /\ \A b \in Known \ {Entry} : id[idom[b]] > id[b]

\* Nothing is left to do for b: its idom is on the climb from each predecessor.
Settled(b) == \A p \in Range(cfg.pre[b]) \cap Known : idom[b] \in Chain(idom, p)

\* The part of a pass that is done.
PassInv ==
  \A n \in 1 .. Len(order) : n > pos =>
    /\ order[n] \in Known
    /\ ~changed /\ order[n] # Entry => Settled(order[n])

\* One block is worked on: new_idom keeps its dominators and is on the climb from each
\* predecessor looked at.
MergeInv ==
  /\ pos > 0
  /\ bb # Entry
  /\ Range(rest) \subseteq Range(cfg.pre[bb])
  /\ pred \in Range(cfg.pre[bb]) \cap Known
  /\ b2 \in Known /\ Keeps(bb, b2)
  /\ b2 \in Chain(idom, pred)
  /\ phase = "merge" => \A p \in Range(cfg.pre[bb]) \cap Known : p \in Range(rest) \/ b2 \in Chain(idom, p)
  /\ phase = "intersect" =>
       /\ b1 \in Known /\ Keeps(bb, b1)
       /\ \A p \in Range(cfg.pre[bb]) \cap Known :
            p \in Range(rest) \/ b1 \in Chain(idom, p) \/ b2 \in Chain(idom, p)

\* The fixpoint.
Final == /\ Known = Reached
         /\ \A b \in Reached \ {Entry} : idom[b] \in StrictDoms(cfg.succ, b)

Joins == {b \in Block : Len(cfg.pre[b]) >= 2}

\* y is in the frontier of whoever the climb from p owes it to, except perhaps of
\* the dominators of c.
Entered(succ, f, y, p, Open) ==
  \A b \in Block : Dominates(succ, b, p) /\ b \notin StrictDoms(succ, y) =>
    y \in f[b] \/ b \in Open

WalkInv ==
  /\ pred \in Joins \ blocks
  /\ rest # <<>>
  /\ Range(rest) \subseteq Range(cfg.pre[pred])
  /\ {pred, Head(rest)} \subseteq Reached =>
       /\ runner \in Reached
       /\ Dominates(cfg.succ, idom[pred], runner)
       /\ Dominates(cfg.succ, runner, Head(rest))
       /\ Entered(cfg.succ, frontier, pred, Head(rest), {b \in Block : Dominates(cfg.succ, b, runner)})
  /\ ~({pred, Head(rest)} \subseteq Reached) => runner \notin Reached

FrontierInv ==
  /\ blocks \subseteq Joins
  /\ \A b \in Reached : frontier[b] \subseteq Frontier(cfg.succ, b)
  /\ \A y \in (Joins \cap Reached) \ blocks : \A p \in Range(cfg.pre[y]) :
       (phase = "walk" /\ pred = y /\ p \in Range(rest)) \/ (p \in Reached /\ Entered(cfg.succ, frontier, y, p, {}))

IInv ==
  /\ TypeOK
  /\ AssertsHold
  /\ phase = "dfs" => SearchInv
  /\ phase # "dfs" => Numbered /\ IdomInv
  /\ phase \in {"idom", "merge", "intersect"} => PassInv
  /\ phase \in {"dfs", "idom", "merge", "intersect"} => \A b \in Block : frontier[b] = {}
  /\ phase \in {"merge", "intersect"} => MergeInv
  /\ phase \in {"frontier", "walk", "done"} => Final /\ FrontierInv
  /\ phase = "walk" => WalkInv
  /\ phase = "frontier" => rest = <<>>
  /\ phase = "done" => /\ blocks = {}
                       /\ children = [p \in NullOr |-> {b \in Block : idom[b] = p /\ p # b}]

-----------------------------------------------------------------------------
(* Types.                                                                   *)

LEMMA Graph ==
  ASSUME TypeOK
  PROVE  /\ IsSucc(cfg.succ)
         /\ Reached \subseteq Block /\ Entry \in Reached
         /\ \A b \in Block : Range(cfg.pre[b]) = Preds(cfg.succ, b) /\ cfg.pre[b] \in Seq(Block)
         /\ cfg.pre[Entry] = <<>> /\ Preds(cfg.succ, Entry) = {}
<1>1. IsSucc(cfg.succ)
  BY EntryAssumption DEF TypeOK, IsGraph, IsSucc
<1>2. \A b \in Block : cfg.pre[b] \in Seq(Block) /\ Range(cfg.pre[b]) \subseteq Block
  BY DEF TypeOK, IsGraph, Range
<1>3. \A b \in Block : Range(cfg.pre[b]) = Preds(cfg.succ, b)
  BY <1>2 DEF TypeOK, IsGraph, Preds, Succs
<1>4. cfg.pre[Entry] = <<>> /\ Range(cfg.pre[Entry]) = {}
  BY DEF TypeOK, IsGraph, Range
<1>q. QED
  BY <1>1, <1>2, <1>3, <1>4, ReachableStep, EntryAssumption DEF Reached

\* A list without its head.
LEMMA Rest ==
  ASSUME NEW s \in Seq(Block), s # <<>>
  PROVE  /\ Head(s) \in Range(s) /\ Head(s) \in Block
         /\ Tail(s) \in Seq(Block)
         /\ Range(s) = Range(Tail(s)) \cup {Head(s)}
<1>1. /\ Head(s) \in Block /\ Tail(s) \in Seq(Block) /\ Len(Tail(s)) = Len(s) - 1
      /\ Len(s) \in Nat \ {0} /\ Head(s) = s[1]
      /\ \A n \in 1 .. Len(Tail(s)) : Tail(s)[n] = s[n + 1]
      /\ DOMAIN Tail(s) = 1 .. Len(Tail(s)) /\ DOMAIN s = 1 .. Len(s)
  OBVIOUS
<1>2. Range(Tail(s)) \cup {Head(s)} \subseteq Range(s)
  BY <1>1 DEF Range
<1>3. ASSUME NEW n \in 1 .. Len(s), n # 1 PROVE s[n] \in Range(Tail(s))
  <2>1. n - 1 \in 1 .. Len(Tail(s)) /\ Tail(s)[n - 1] = s[n]
    BY <1>1, <1>3
  <2>q. QED
    BY <1>1, <2>1 DEF Range
<1>4. Range(s) \subseteq Range(Tail(s)) \cup {Head(s)}
  BY <1>1, <1>3 DEF Range
<1>q. QED
  BY <1>1, <1>2, <1>4 DEF Range

LEMMA TypeInit == Init => TypeOK
<1> SUFFICES ASSUME Init PROVE TypeOK
  OBVIOUS
<1>1. IsGraph(cfg) /\ Entry \in Block /\ Null \in NullOr /\ Block \subseteq NullOr
  BY EntryAssumption, GraphsAssumption DEF Init, NullOr
<1>2. /\ stack \in Seq([block : Block, next : Nat \ {0}]) /\ visited \in SUBSET Block /\ order \in Seq(Block)
      /\ id \in [Block -> Nat] /\ pos \in 0 .. Len(order) /\ rest \in Seq(Block)
  BY <1>1 DEF Init
<1>3. changed \in BOOLEAN
  BY Zenon DEF Init
<1>4. /\ idom \in [NullOr -> NullOr] /\ {pred, b1, b2, runner} \subseteq NullOr /\ blocks \in SUBSET Block
      /\ frontier \in [NullOr -> SUBSET Block] /\ children \in [NullOr -> SUBSET Block]
  BY <1>1 DEF Init
<1>q. QED
  BY <1>1, <1>2, <1>3, <1>4 DEF Init, TypeOK

\* A list with another last element.
LEMMA ReplaceLast ==
  ASSUME NEW C, NEW s \in Seq(C), s # <<>>, NEW c \in C
  PROVE  LET t == [s EXCEPT ![Len(s)] = c] IN
         /\ t \in Seq(C) /\ Len(t) = Len(s) /\ t[Len(s)] = c
         /\ \A i \in 1 .. Len(s) - 1 : t[i] = s[i]
BY Len(s) \in 1 .. Len(s), ExceptSeq

\* The calls of the search.
Call == [block : Block, next : Nat \ {0}]

LEMMA TypeSearch ==
  ASSUME TypeOK, VisitSuccessor \/ LeaveBlock
  PROVE  TypeOK'
<1>1. /\ stack \in Seq(Call) /\ stack # <<>> /\ Len(stack) \in Nat \ {0} /\ Top \in Call
      /\ Top.block \in Block /\ Top.next \in Nat \ {0} /\ order \in Seq(Block) /\ Len(order) \in Nat
      /\ cfg.succ[Top.block] \in Seq(Block) /\ pos \in 0 .. Len(order)
  <2>1. stack \in Seq(Call) /\ stack # <<>>
    BY DEF TypeOK, VisitSuccessor, LeaveBlock, Call
  <2>2. Len(stack) \in Nat \ {0} /\ Top \in Call
    BY <2>1 DEF Top
  <2>3. Top.block \in Block /\ Top.next \in Nat \ {0}
    BY <2>2 DEF Call
  <2>4. order \in Seq(Block) /\ Len(order) \in Nat /\ pos \in 0 .. Len(order)
    BY DEF TypeOK
  <2>5. cfg.succ[Top.block] \in Seq(Block)
    BY <2>3 DEF TypeOK, IsGraph
  <2>q. QED
    BY <2>1, <2>2, <2>3, <2>4, <2>5
<1>2. CASE VisitSuccessor
  <2> DEFINE b   == cfg.succ[Top.block][Top.next]
             adv == [stack EXCEPT ![Len(stack)].next = @ + 1]
  <2>1. b \in Block
    BY <1>1, <1>2 DEF VisitSuccessor
  <2>2. adv \in Seq(Call)
    <3>1. [Top EXCEPT !.next = @ + 1] \in Call
      BY <1>1 DEF Call
    <3>2. adv = [stack EXCEPT ![Len(stack)] = [Top EXCEPT !.next = @ + 1]]
      BY <1>1 DEF Top
    <3>q. QED
      BY <1>1, <3>1, <3>2, ReplaceLast
  <2>3. Append(adv, [block |-> b, next |-> 1]) \in Seq(Call)
    BY <2>1, <2>2 DEF Call
  <2> HIDE DEF b, adv
  <2>4. stack' \in Seq(Call) /\ visited' \in SUBSET Block
    BY <1>2, <2>1, <2>2, <2>3 DEF VisitSuccessor, TypeOK, b, adv
  <2>q. QED
    BY <1>2, <2>4 DEF VisitSuccessor, TypeOK, idomvars, dfvars, Call
<1>3. CASE LeaveBlock
  <2>1. order' \in Seq(Block) /\ Len(order') = Len(order) + 1
    BY <1>1, <1>3 DEF LeaveBlock
  <2>2. stack' \in Seq(Call) /\ id' \in [Block -> Nat] /\ pos' \in 0 .. Len(order')
    BY <1>1, <1>3, <2>1 DEF LeaveBlock, TypeOK, idomvars
  <2>q. QED
    BY <1>3, <2>1, <2>2 DEF LeaveBlock, TypeOK, idomvars, dfvars, Call
<1>q. QED
  BY <1>2, <1>3

\* The lists of predecessors are non-empty where the code takes their head, and a block
\* is worked on while the loop over the blocks has one left.
LEMMA TypeStep ==
  ASSUME IInv, [Next]_vars
  PROVE  TypeOK'
<1> USE DEF dfsvars, idomvars, dfvars
<1>0. TypeOK /\ Null \in NullOr /\ Block \subseteq NullOr
  BY DEF IInv, NullOr
<1>1. CASE VisitSuccessor \/ LeaveBlock
  BY <1>0, <1>1, TypeSearch
<1>2. CASE BeginIdom
  <2>1. idom' \in [NullOr -> NullOr] /\ pos' \in 0 .. Len(order')
    BY <1>0, <1>2, EntryAssumption DEF BeginIdom, TypeOK
  <2>q. QED
    BY <1>0, <1>2, <2>1 DEF BeginIdom, TypeOK
<1>3. CASE SkipRoot
  <2>1. pos' \in 0 .. Len(order')
    BY <1>0, <1>3 DEF SkipRoot, TypeOK
  <2>q. QED
    BY <1>0, <1>3, <2>1 DEF SkipRoot, TypeOK
<1>4. CASE FindPred
  <2>1. bb \in Block /\ cfg.pre[bb] \in Seq(Block)
    BY <1>0, <1>4, Graph DEF FindPred, TypeOK, bb
  <2> DEFINE have == {n \in 1 .. Len(cfg.pre[bb]) : idom[cfg.pre[bb][n]] # Null}
             m == CHOOSE n \in have : \A k \in have : n <= k
  <2>2. pred' \in NullOr /\ b2' \in NullOr /\ rest' \in Seq(Block)
    <3>1. CASE have = {}
      BY <1>0, <1>4, <3>1 DEF FindPred, TypeOK
    <3>2. CASE have # {}
      <4>1. \E n \in have : \A k \in have : n <= k
        BY <3>2, LeastNumber, have \subseteq Nat
      <4>2. m \in have
        BY <4>1
      <4>3. pred' = cfg.pre[bb][m] /\ b2' = pred' /\ rest' = cfg.pre[bb]
        BY <1>4, <3>2 DEF FindPred
      <4> HIDE DEF m
      <4>4. cfg.pre[bb][m] \in NullOr
        BY <2>1, <4>2, <1>0
      <4>q. QED
        BY <2>1, <4>3, <4>4
    <3>q. QED
      BY <3>1, <3>2
  <2>3. phase' \in {"assert_failed", "merge"}
    BY <1>4 DEF FindPred
  <2>q. QED
    BY <1>0, <1>4, <2>2, <2>3 DEF FindPred, TypeOK
<1>5. CASE NextPred
  <2>1. Head(rest) \in Block /\ Tail(rest) \in Seq(Block)
    BY <1>0, <1>5, Rest DEF NextPred, TypeOK
  <2>q. QED
    BY <1>0, <1>5, <2>1 DEF NextPred, TypeOK
<1>6. CASE Climb1 \/ Climb2
  BY <1>0, <1>6 DEF Climb1, Climb2, TypeOK
<1>7. CASE EndIntersect
  BY <1>0, <1>7 DEF EndIntersect, TypeOK
<1>8. CASE SetIdom
  <2>1. pos > 0 /\ bb \in Block
    BY <1>0, <1>8 DEF SetIdom, IInv, MergeInv, TypeOK, bb
  <2>2. idom' \in [NullOr -> NullOr] /\ pos' \in 0 .. Len(order')
    BY <1>0, <1>8, <2>1 DEF SetIdom, TypeOK
  <2>3. changed' \in BOOLEAN
    BY <1>8, Zenon DEF SetIdom
  <2>q. QED
    BY <1>0, <1>8, <2>2, <2>3 DEF SetIdom, TypeOK
<1>9. CASE IterateAgain
  <2>1. pos' \in 0 .. Len(order')
    BY <1>0, <1>9 DEF IterateAgain, TypeOK
  <2>2. changed' \in BOOLEAN
    BY <1>9, Zenon DEF IterateAgain
  <2>q. QED
    BY <1>0, <1>9, <2>1, <2>2 DEF IterateAgain, TypeOK
<1>10. CASE BeginFrontier
  BY <1>0, <1>10 DEF BeginFrontier, TypeOK
<1>11. ASSUME NEW b \in Block, NextJoin(b) PROVE TypeOK'
  <2>1. cfg.pre[b] \in Seq(Block) /\ cfg.pre[b] # <<>>
    BY <1>0, <1>11, Graph DEF NextJoin, IInv, FrontierInv, Joins
  <2>2. Head(cfg.pre[b]) \in Block
    BY <2>1
  <2>q. QED
    BY <1>0, <1>11, <2>1, <2>2 DEF NextJoin, TypeOK
<1>12. CASE Walk
  <2>1. runner \in NullOr /\ idom[runner] \in NullOr /\ pred \in NullOr
    BY <1>0 DEF TypeOK
  <2>2. pred \in Block
    BY <1>12 DEF Walk, IInv, WalkInv, Joins
  <2>3. frontier' \in [NullOr -> SUBSET Block]
    BY <1>0, <1>12, <2>1, <2>2 DEF Walk, TypeOK
  <2>q. QED
    BY <1>0, <1>12, <2>1, <2>3 DEF Walk, TypeOK
<1>13. CASE EndWalk
  <2>1. Tail(rest) \in Seq(Block) /\ (Tail(rest) # <<>> => Head(Tail(rest)) \in Block)
    BY <1>0, <1>13, Rest DEF EndWalk, IInv, WalkInv, TypeOK
  <2>q. QED
    BY <1>0, <1>13, <2>1 DEF EndWalk, TypeOK
<1>14. CASE CreateDomTreeSucc
  BY <1>0, <1>14 DEF CreateDomTreeSucc, TypeOK
<1>15. CASE UNCHANGED vars
  BY <1>0, <1>15 DEF vars, TypeOK
<1>q. QED
  BY <1>1, <1>2, <1>3, <1>4, <1>5, <1>6, <1>7, <1>8, <1>9, <1>10, <1>11, <1>12, <1>13, <1>14, <1>15
     DEF Next

-----------------------------------------------------------------------------
(* The search.                                                              *)

\* The stack after an iteration of the loop: the call on top has advanced, and a call
\* for b, which was not visited, may be on top of it.
LEMMA VisitStack ==
  ASSUME TypeOK, VisitSuccessor
  PROVE  LET b == cfg.succ[Top.block][Top.next]
             k == Len(stack)
         IN /\ k \in Nat \ {0} /\ Len(stack') \in {k, k + 1}
            /\ Top.next \in Nat \ {0}
            /\ Top.block \in Block /\ b \in Block /\ b \in Succs(cfg.succ, Top.block)
            /\ \A i \in 1 .. k : stack'[i].block = stack[i].block
            /\ \A i \in 1 .. k - 1 : stack'[i].next = stack[i].next
            /\ stack'[k].next = Top.next + 1
            /\ visited' = visited \cup {b}
            /\ Len(stack') = k => b \in visited
            /\ Len(stack') = k + 1 => b \notin visited /\ stack'[k + 1] = [block |-> b, next |-> 1]
            /\ cfg' = cfg /\ order' = order /\ id' = id /\ phase' = phase /\ frontier' = frontier
<1> DEFINE b   == cfg.succ[Top.block][Top.next]
           c   == [Top EXCEPT !.next = @ + 1]
           adv == [stack EXCEPT ![Len(stack)] = c]
           k   == Len(stack)
<1>1. stack \in Seq(Call) /\ stack # <<>>
  BY DEF TypeOK, VisitSuccessor, Call
<1>2. k \in Nat \ {0} /\ Top \in Call /\ Top = stack[k]
  BY <1>1 DEF Top
<1>3. Top.block \in Block /\ Top.next \in Nat \ {0}
  BY <1>2 DEF Call
<1>4. c \in Call /\ c.block = Top.block /\ c.next = Top.next + 1
  BY <1>2 DEF Call
<1>5. cfg.succ[Top.block] \in Seq(Block) /\ Top.next \in 1 .. Len(cfg.succ[Top.block])
  BY <1>3 DEF TypeOK, IsGraph, VisitSuccessor
<1>6. b \in Block /\ b \in Succs(cfg.succ, Top.block)
  BY <1>5 DEF Succs, Range
<1>7. adv = [stack EXCEPT ![Len(stack)].next = @ + 1]
  BY <1>1 DEF Top
<1> HIDE DEF c
<1>8. /\ adv \in Seq(Call) /\ Len(adv) = k /\ adv[k] = c
      /\ \A i \in 1 .. k - 1 : adv[i] = stack[i]
  BY <1>1, <1>4, ReplaceLast
<1>9. /\ \A i \in 1 .. k : adv[i].block = stack[i].block
      /\ \A i \in 1 .. k - 1 : adv[i].next = stack[i].next
      /\ adv[k].next = Top.next + 1
  BY <1>2, <1>4, <1>8
<1>10. cfg' = cfg /\ order' = order /\ id' = id /\ phase' = phase /\ frontier' = frontier
  BY DEF VisitSuccessor, dfvars
<1>11. CASE b \in visited
  <2>1. stack' = adv /\ visited' = visited
    BY <1>7, <1>11 DEF VisitSuccessor
  <2> HIDE DEF adv, b
  <2>q. QED
    BY <1>2, <1>3, <1>6, <1>8, <1>9, <1>10, <1>11, <2>1 DEF b
<1>12. CASE b \notin visited
  <2> DEFINE d == [block |-> b, next |-> 1]
  <2>1. stack' = Append(adv, d) /\ visited' = visited \cup {b}
    BY <1>7, <1>12 DEF VisitSuccessor
  <2>2. d \in Call
    BY <1>6 DEF Call
  <2> HIDE DEF adv
  <2>3. /\ Len(stack') = k + 1 /\ stack'[k + 1] = d
        /\ \A i \in 1 .. k : stack'[i] = adv[i]
    BY <1>8, <2>1, <2>2, AppendProperties
  <2> HIDE DEF b, d
  <2>q. QED
    BY <1>2, <1>3, <1>6, <1>9, <1>10, <1>12, <2>1, <2>3 DEF b, d
<1>q. QED
  BY <1>11, <1>12

LEMMA VisitStep ==
  ASSUME IInv, VisitSuccessor
  PROVE  SearchInv'
<1> DEFINE b == cfg.succ[Top.block][Top.next]
           k == Len(stack)
           m == Len(stack')
<1>0. TypeOK /\ SearchInv
  BY DEF IInv, VisitSuccessor
<1>1. /\ k \in Nat \ {0} /\ m \in {k, k + 1}
      /\ Top.next \in Nat \ {0}
      /\ Top.block \in Block /\ b \in Block /\ b \in Succs(cfg.succ, Top.block)
      /\ \A i \in 1 .. k : stack'[i].block = stack[i].block
      /\ \A i \in 1 .. k - 1 : stack'[i].next = stack[i].next
      /\ stack'[k].next = Top.next + 1
      /\ visited' = visited \cup {b}
      /\ m = k => b \in visited
      /\ m = k + 1 => b \notin visited /\ stack'[k + 1].block = b /\ stack'[k + 1].next = 1
  BY <1>0, VisitStack
<1>2. cfg' = cfg /\ order' = order /\ id' = id /\ phase' = phase
  BY <1>0, VisitStack
<1>3. Top = stack[k]
  BY DEF Top
<1>4. b = cfg.succ[stack[k].block][stack[k].next]
  BY <1>3
<1> HIDE DEF b
<1>5. /\ \A i, j \in 1 .. k : stack[i].block = stack[j].block => i = j
      /\ visited = OnStack \cup Range(order)
      /\ OnStack \cap Range(order) = {}
  BY <1>0 DEF SearchInv
<1>6. OnStack' = OnStack \cup (IF m = k + 1 THEN {b} ELSE {})
  BY <1>1 DEF OnStack
<1>7. \A i, j \in 1 .. m : stack'[i].block = stack'[j].block => i = j
  <2>1. \A i \in 1 .. k : stack[i].block \in visited
    BY <1>5 DEF OnStack
  <2>q. QED
    BY <1>1, <1>5, <2>1
<1>8. OnStack' \cap Range(order') = {} /\ visited' = OnStack' \cup Range(order')
  BY <1>1, <1>2, <1>5, <1>6
<1>9. visited' \subseteq Reached'
  <2>1. Top.block \in Reached
    BY <1>0, <1>1, <1>3 DEF SearchInv, OnStack
  <2>2. b \in Reached
    BY <1>0, <1>1, <2>1, Graph, ReachableStep DEF Reached
  <2>q. QED
    BY <1>0, <1>1, <1>2, <2>2 DEF SearchInv, Reached
<1>10. \A n \in 1 .. Len(order') : id'[order'[n]] = n - 1
  BY <1>0, <1>2 DEF SearchInv
<1>11. stack' # <<>> /\ stack'[1].block = Entry
  BY <1>0, <1>1 DEF SearchInv
<1>12. ASSUME NEW i \in 1 .. m - 1
       PROVE  stack'[i + 1].block \in Succs(cfg'.succ, stack'[i].block)
  <2>1. \A j \in 1 .. k - 1 : stack[j + 1].block \in Succs(cfg.succ, stack[j].block)
    BY <1>0 DEF SearchInv
  <2>2. CASE i = k
    BY <1>1, <1>2, <1>3, <1>12, <2>2
  <2>3. CASE i \in 1 .. k - 1
    <3>1. i + 1 \in 1 .. k /\ i \in 1 .. k
      BY <1>1, <2>3
    <3>q. QED
      BY <1>1, <1>2, <2>1, <2>3, <3>1
  <2>q. QED
    BY <1>1, <1>12, <2>2, <2>3
<1>13. \A c \in Range(order') \ {Entry} :
         \E p \in Preds(cfg'.succ, c) : p \in OnStack' \/ (p \in Range(order') /\ id'[p] > id'[c])
  BY <1>0, <1>2, <1>6 DEF SearchInv
<1>14. \A c \in Range(order') : Succs(cfg'.succ, c) \subseteq visited'
  BY <1>0, <1>1, <1>2 DEF SearchInv
<1>15. ASSUME NEW i \in 1 .. m, NEW n \in 1 .. Len(cfg.succ[stack'[i].block]), n < stack'[i].next
       PROVE  cfg.succ[stack'[i].block][n] \in visited'
  <2>1. \A j \in 1 .. k : \A l \in 1 .. Len(cfg.succ[stack[j].block]) :
          l < stack[j].next => cfg.succ[stack[j].block][l] \in visited
    BY <1>0 DEF SearchInv
  <2>2. CASE i = k + 1
    BY <1>1, <1>15, <2>2
  <2>3. CASE i \in 1 .. k - 1
    BY <1>1, <1>15, <2>1, <2>3
  <2>4. CASE i = k
    <3>1. n < Top.next \/ n = Top.next
      BY <1>1, <1>15, <2>4
    <3>2. CASE n = Top.next
      BY <1>1, <1>3, <1>4, <2>4, <3>2
    <3>3. CASE n < Top.next
      BY <1>1, <1>3, <1>15, <2>1, <2>4, <3>3
    <3>q. QED
      BY <3>1, <3>2, <3>3
  <2>q. QED
    BY <1>1, <2>2, <2>3, <2>4
<1>q. QED
  BY <1>2, <1>7, <1>8, <1>9, <1>10, <1>11, <1>12, <1>13, <1>14, <1>15 DEF SearchInv

LEMMA LeaveStep ==
  ASSUME IInv, LeaveBlock
  PROVE  SearchInv'
<1> DEFINE t == Top.block
           k == Len(stack)
           l == Len(order)
<1>0. TypeOK /\ SearchInv
  BY DEF IInv, LeaveBlock
<1>1. stack \in Seq(Call) /\ stack # <<>> /\ k \in Nat \ {0} /\ Top = stack[k] /\ Top \in Call
  <2>1. stack \in Seq(Call) /\ stack # <<>>
    BY <1>0 DEF TypeOK, LeaveBlock, Call
  <2>q. QED
    BY <2>1 DEF Top
<1>2. t \in Block /\ cfg' = cfg /\ phase' = phase /\ visited' = visited
  BY <1>1 DEF LeaveBlock, Call
<1>3. Len(stack') = k - 1 /\ \A i \in 1 .. k - 1 : stack'[i] = stack[i]
  <2>1. stack' = SubSeq(stack, 1, k - 1)
    BY DEF LeaveBlock
  <2>2. \A i \in 1 .. k - 1 : stack[i] \in Call
    BY <1>1
  <2>3. k - 1 \in Int /\ 1 \in Int /\ (1 <= k - 1 \/ k - 1 = 0)
    BY <1>1
  <2> HIDE DEF k
  <2>4. /\ Len(SubSeq(stack, 1, k - 1)) = IF 1 <= k - 1 THEN k - 1 - 1 + 1 ELSE 0
        /\ \A i \in 1 .. k - 1 - 1 + 1 : SubSeq(stack, 1, k - 1)[i] = stack[1 + i - 1]
    BY <2>2, <2>3, SubSeqProperties
  <2>q. QED
    BY <2>1, <2>3, <2>4
<1>4. order \in Seq(Block) /\ l \in Nat /\ id \in [Block -> Nat]
  BY <1>0 DEF TypeOK
<1>5. /\ Len(order') = l + 1 /\ order'[l + 1] = t
      /\ \A n \in 1 .. l : order'[n] = order[n]
      /\ order' \in Seq(Block)
  <2>1. order' = Append(order, t)
    BY DEF LeaveBlock
  <2>q. QED
    BY <1>2, <1>4, <2>1, AppendProperties
<1>6. id'[t] = l /\ \A b \in Block : b # t => id'[b] = id[b]
  BY <1>2, <1>4 DEF LeaveBlock
<1>7. Range(order') = Range(order) \cup {t} /\ \A b \in Range(order) : \E n \in 1 .. l : b = order[n]
  <2>1. DOMAIN order = 1 .. l /\ DOMAIN order' = 1 .. l + 1
    BY <1>4, <1>5
  <2>2. \A n \in 1 .. l + 1 : n = l + 1 \/ n \in 1 .. l
    BY <1>4
  <2>3. Range(order') \subseteq Range(order) \cup {t}
    BY <2>1, <2>2, <1>5 DEF Range
  <2>4. Range(order) \cup {t} \subseteq Range(order')
    <3>1. l + 1 \in 1 .. l + 1 /\ 1 .. l \subseteq 1 .. l + 1
      BY <1>4
    <3>q. QED
      BY <2>1, <3>1, <1>5 DEF Range
  <2>q. QED
    BY <2>1, <2>3, <2>4 DEF Range
<1> HIDE DEF t
<1>8. /\ \A i, j \in 1 .. k : stack[i].block = stack[j].block => i = j
      /\ OnStack \cap Range(order) = {}
      /\ visited = OnStack \cup Range(order)
      /\ \A n \in 1 .. l : id[order[n]] = n - 1
  BY <1>0 DEF SearchInv
<1>9. t = stack[k].block /\ OnStack = OnStack' \cup {t} /\ t \notin OnStack'
  <2>1. t = stack[k].block
    BY <1>1 DEF t
  <2>2. OnStack' = {stack[i].block : i \in 1 .. k - 1}
    BY <1>3 DEF OnStack
  <2>3. \A i \in 1 .. k : i = k \/ i \in 1 .. k - 1
    BY <1>1
  <2>4. k \in 1 .. k /\ 1 .. k - 1 \subseteq 1 .. k
    BY <1>1
  <2>5. OnStack = OnStack' \cup {t}
    BY <2>1, <2>2, <2>3, <2>4 DEF OnStack
  <2>6. ASSUME NEW i \in 1 .. k - 1 PROVE stack[i].block # t
    <3>1. i \in 1 .. k /\ i # k
      BY <1>1, <2>6
    <3>q. QED
      BY <1>8, <2>1, <2>4, <3>1
  <2>q. QED
    BY <2>1, <2>2, <2>5, <2>6
<1>10. t \notin Range(order)
  BY <1>8, <1>9
<1>11. \A i, j \in 1 .. k - 1 : stack'[i].block = stack'[j].block => i = j
  BY <1>1, <1>3, <1>8
<1>12. OnStack' \cap Range(order') = {} /\ visited' = OnStack' \cup Range(order')
  BY <1>2, <1>7, <1>8, <1>9
<1>13. visited' \subseteq Reached'
  BY <1>0, <1>2 DEF SearchInv, Reached
<1>14. ASSUME NEW n \in 1 .. l + 1 PROVE id'[order'[n]] = n - 1
  <2>1. CASE n = l + 1
    BY <1>4, <1>5, <1>6, <2>1
  <2>2. CASE n \in 1 .. l
    <3>1. order[n] \in Block /\ order[n] # t
      BY <1>4, <1>10, <2>2 DEF Range
    <3>q. QED
      BY <1>5, <1>6, <1>8, <2>2, <3>1
  <2>q. QED
    BY <1>4, <2>1, <2>2
<1>15. stack' # <<>> => stack'[1].block = Entry
  BY <1>0, <1>1, <1>3 DEF SearchInv
<1>16. stack' = <<>> => order' # <<>> /\ order'[Len(order')] = Entry
  <2>1. ASSUME stack' = <<>> PROVE k = 1
    BY <1>1, <1>3, <2>1
  <2>2. ASSUME k = 1 PROVE t = Entry
    BY <1>0, <1>1, <1>9, <2>2 DEF SearchInv
  <2>q. QED
    BY <1>4, <1>5, <2>1, <2>2
<1>17. ASSUME NEW i \in 1 .. k - 1 - 1
       PROVE  stack'[i + 1].block \in Succs(cfg'.succ, stack'[i].block)
  <2>1. i \in 1 .. k - 1 /\ i + 1 \in 1 .. k - 1
    BY <1>1, <1>17
  <2>q. QED
    BY <1>0, <1>2, <1>3, <2>1 DEF SearchInv
<1>18. ASSUME NEW b \in Range(order') \ {Entry}
       PROVE  \E p \in Preds(cfg'.succ, b) : p \in OnStack' \/ (p \in Range(order') /\ id'[p] > id'[b])
  <2>1. CASE b = t
    <3>1. k # 1
      BY <1>0, <1>1, <1>9, <1>18, <2>1 DEF SearchInv
    <3>2. k - 1 \in 1 .. k - 1 /\ k = (k - 1) + 1
      <4>1. k \in Nat \ {0}
        BY <1>1
      <4> HIDE DEF k
      <4>q. QED
        BY <3>1, <4>1
    <3>3. stack[k].block \in Succs(cfg.succ, stack[k - 1].block)
      BY <1>0, <3>2 DEF SearchInv
    <3>4. stack[k - 1] \in Call /\ stack[k - 1].block \in OnStack'
      BY <1>1, <1>3, <3>2 DEF OnStack
    <3>q. QED
      BY <1>2, <1>9, <2>1, <3>3, <3>4 DEF Preds, Call
  <2>2. CASE b # t
    <3>1. b \in Range(order)
      BY <1>7, <1>18, <2>2
    <3>2. PICK p \in Preds(cfg.succ, b) : p \in OnStack \/ (p \in Range(order) /\ id[p] > id[b])
      BY <1>0, <1>18, <3>1 DEF SearchInv
    <3>3. b \in Block /\ id'[b] = id[b] /\ id[b] < l
      <4>1. PICK n \in 1 .. l : b = order[n]
        BY <1>7, <3>1
      <4>2. id[b] = n - 1
        BY <1>8, <4>1
      <4>q. QED
        BY <1>4, <1>6, <2>2, <4>1, <4>2
    <3>4. CASE p \in OnStack'
      BY <1>2, <3>2, <3>4
    <3>5. CASE p = t
      BY <1>2, <1>4, <1>6, <1>7, <3>2, <3>3, <3>5
    <3>6. CASE p \in Range(order) /\ id[p] > id[b]
      <4>1. p \in Block /\ p # t
        BY <1>10, <3>6, <3>2 DEF Preds
      <4>q. QED
        BY <1>2, <1>6, <1>7, <3>2, <3>3, <3>6, <4>1
    <3>q. QED
      BY <1>9, <3>2, <3>4, <3>5, <3>6
  <2>q. QED
    BY <2>1, <2>2
<1>19. ASSUME NEW b \in Range(order') PROVE Succs(cfg'.succ, b) \subseteq visited'
  <2>1. CASE b = t
    <3>1. Top.next > Len(cfg.succ[t]) /\ cfg.succ[t] \in Seq(Block) /\ Top.next \in Nat
      BY <1>0, <1>1, <1>2 DEF LeaveBlock, t, TypeOK, IsGraph, Call
    <3>2. \A n \in 1 .. Len(cfg.succ[t]) : n < Top.next
      BY <3>1
    <3>3. \A n \in 1 .. Len(cfg.succ[stack[k].block]) :
            n < stack[k].next => cfg.succ[stack[k].block][n] \in visited
      BY <1>0, <1>1, k \in 1 .. k DEF SearchInv
    <3>4. \A n \in 1 .. Len(cfg.succ[t]) : cfg.succ[t][n] \in visited
      BY <1>1, <1>9, <3>2, <3>3
    <3>5. DOMAIN cfg.succ[t] = 1 .. Len(cfg.succ[t])
      BY <3>1
    <3>q. QED
      BY <1>2, <2>1, <3>4, <3>5 DEF Succs, Range
  <2>2. CASE b \in Range(order)
    BY <1>0, <1>2, <2>2 DEF SearchInv
  <2>q. QED
    BY <1>7, <2>1, <2>2
<1>20. \A i \in 1 .. k - 1 : \A n \in 1 .. Len(cfg'.succ[stack'[i].block]) :
         n < stack'[i].next => cfg'.succ[stack'[i].block][n] \in visited'
  <2>1. \A i \in 1 .. k - 1 : i \in 1 .. k
    BY <1>1
  <2>q. QED
    BY <1>0, <1>2, <1>3, <2>1 DEF SearchInv
<1>q. QED
  BY <1>3, <1>5, <1>11, <1>12, <1>13, <1>14, <1>15, <1>16, <1>17, <1>18, <1>19, <1>20 DEF SearchInv

\* When the search is over the numbers are those of a post order.
LEMMA SearchEnd ==
  ASSUME TypeOK, SearchInv, stack = <<>>
  PROVE  Numbered
<1> DEFINE l == Len(order)
<1>1. order \in Seq(Block) /\ l \in Nat \ {0} /\ order[l] = Entry /\ DOMAIN order = 1 .. l
  BY DEF TypeOK, SearchInv
<1>2. OnStack = {} /\ visited = Range(order)
  BY DEF SearchInv, OnStack
<1>3. Entry \in Range(order) /\ Range(order) \subseteq Block
  BY <1>1 DEF Range
<1>4. Reached \subseteq Range(order)
  <2>1. \A b \in Range(order) : Succs(cfg.succ, b) \subseteq Range(order)
    BY <1>2 DEF SearchInv
  <2>q. QED
    BY <1>3, <2>1, ReachableIsLeast DEF Reached
<1>5. Range(order) = Reached /\ \A n \in 1 .. l : id[order[n]] = n - 1
  BY <1>2, <1>4 DEF SearchInv
<1>6. ASSUME NEW b \in Reached \ {Entry}
      PROVE  /\ id[b] < id[Entry]
             /\ \E p \in Preds(cfg.succ, b) \cap Reached : id[p] > id[b]
  <2>1. PICK n \in 1 .. l : b = order[n]
    BY <1>1, <1>4, <1>6 DEF Range
  <2>2. n # l
    BY <1>1, <1>6, <2>1
  <2>3. id[b] = n - 1 /\ id[Entry] = l - 1
    BY <1>1, <1>5, <2>1
  <2>4. id[b] < id[Entry]
    <3>1. l \in Nat
      BY <1>1
    <3> HIDE DEF l
    <3>q. QED
      BY <2>1, <2>2, <2>3, <3>1
  <2>5. \E p \in Preds(cfg.succ, b) : p \in Range(order) /\ id[p] > id[b]
    BY <1>2, <1>5, <1>6 DEF SearchInv
  <2>q. QED
    BY <1>5, <2>4, <2>5
<1>q. QED
  BY <1>5, <1>6 DEF Numbered

-----------------------------------------------------------------------------
(* The numbers.                                                             *)

\* Each reached block stands in the order at the place its number says.
LEMMA Places ==
  ASSUME TypeOK, Numbered
  PROVE  /\ \A b \in Reached : id[b] \in 0 .. Len(order) /\ id[b] + 1 \in 1 .. Len(order)
                               /\ order[id[b] + 1] = b
         /\ \A n \in 1 .. Len(order) : order[n] \in Reached /\ id[order[n]] = n - 1
         /\ \A b, c \in Reached : id[b] = id[c] => b = c
<1> DEFINE l == Len(order)
<1>1. order \in Seq(Block) /\ l \in Nat /\ DOMAIN order = 1 .. l
  BY DEF TypeOK
<1>2. Range(order) = Reached /\ \A n \in 1 .. l : id[order[n]] = n - 1
  BY DEF Numbered
<1>3. \A n \in 1 .. l : order[n] \in Reached
  BY <1>1, <1>2 DEF Range
<1>4. ASSUME NEW b \in Reached
      PROVE  id[b] \in 0 .. l /\ id[b] + 1 \in 1 .. l /\ order[id[b] + 1] = b
  <2>1. PICK n \in 1 .. l : b = order[n]
    BY <1>1, <1>2 DEF Range
  <2>2. id[b] = n - 1 /\ l \in Nat
    BY <1>1, <1>2, <2>1
  <2> HIDE DEF l
  <2>3. id[b] + 1 = n
    BY <2>2
  <2>q. QED
    BY <2>1, <2>2, <2>3
<1>5. \A b, c \in Reached : id[b] = id[c] => b = c
  BY <1>4
<1>q. QED
  BY <1>2, <1>3, <1>4, <1>5

\* Of any blocks that are reached one has the greatest number.
LEMMA Uppermost ==
  ASSUME TypeOK, Numbered, NEW T, T \subseteq Reached, T # {}
  PROVE  \E b \in T : \A c \in T : id[c] <= id[b]
<1>1. Len(order) \in Nat
  BY DEF TypeOK
<1>2. \A b \in T : id[b] \in 0 .. Len(order)
  BY Places
<1>q. QED
  BY <1>1, <1>2, GreatestNumber

\* A strict dominator of a reached block has the higher number: the chain of
\* predecessors with rising numbers passes it.
LEMMA DominatorsAbove ==
  ASSUME TypeOK, Numbered, NEW b \in Reached, NEW d \in StrictDoms(cfg.succ, b)
  PROVE  id[d] > id[b] /\ d \in Reached
<1>1. IsSucc(cfg.succ) /\ Reached \subseteq Block
  BY Graph
<1>2. \A c \in Reached : \A a \in StrictDoms(cfg.succ, c) : a \in Reached
  BY <1>1, DominatorIsReached DEF Reached, StrictDoms
<1>3. \A c \in Reached : id[c] \in Nat
  BY <1>1 DEF TypeOK
<1> DEFINE T == {c \in Reached : \E a \in StrictDoms(cfg.succ, c) : id[a] <= id[c]}
<1>4. ASSUME T # {} PROVE FALSE
  <2>1. PICK c \in T : \A x \in T : id[x] <= id[c]
    <3> HIDE DEF T
    <3>1. T \subseteq Reached
      BY DEF T
    <3>q. QED
      BY <1>4, <3>1, Uppermost
  <2>2. PICK a \in StrictDoms(cfg.succ, c) : id[a] <= id[c]
    BY <2>1
  <2>3. c # Entry
    BY <1>1, <2>2, EntryDominates DEF StrictDoms
  <2>4. PICK p \in Preds(cfg.succ, c) \cap Reached : id[p] > id[c]
    BY <2>1, <2>3 DEF Numbered
  <2>5. Dominates(cfg.succ, a, p)
    BY <1>1, <2>2, <2>4, DominatesPred DEF StrictDoms, Preds
  <2>6. a # p /\ a \in Reached
    BY <1>2, <1>3, <2>1, <2>2, <2>4
  <2>7. a \in StrictDoms(cfg.succ, p) /\ id[a] <= id[p]
    BY <1>1, <1>3, <2>1, <2>2, <2>4, <2>5, <2>6 DEF StrictDoms
  <2>8. p \in T
    BY <2>4, <2>7
  <2>9. id[p] <= id[c]
    BY <2>1, <2>8
  <2>q. QED
    BY <1>3, <2>1, <2>4, <2>9
<1>5. \A c \in Reached : \A a \in StrictDoms(cfg.succ, c) : ~(id[a] <= id[c])
  BY <1>4
<1>q. QED
  BY <1>2, <1>3, <1>5

-----------------------------------------------------------------------------
(* Climbs.                                                                  *)

\* A climb begins where it begins, goes on to the idom of where it is,
LEMMA ChainStart ==
  ASSUME NEW f, NEW b \in Block
  PROVE  b \in Chain(f, b)
BY DEF Chain

LEMMA ChainStep ==
  ASSUME NEW f, NEW b, NEW c \in Chain(f, b), f[c] \in Block
  PROVE  f[c] \in Chain(f, b)
BY DEF Chain

\* and does not leave a set that idoms do not lead out of.
LEMMA ChainStays ==
  ASSUME NEW f, NEW S, S \subseteq Block, NEW b \in S, \A a \in S : f[a] \in S
  PROVE  Chain(f, b) \subseteq S
BY DEF Chain

\* Past its beginning a climb is the climb from the idom,
LEMMA ChainSplit ==
  ASSUME NEW f, NEW b \in Block, f[b] \in Block, NEW c \in Chain(f, b), c # b
  PROVE  c \in Chain(f, f[b])
<1>1. ASSUME NEW S \in SUBSET Block, f[b] \in S, \A a \in S : f[a] \in S
      PROVE  c \in S
  <2>1. \A a \in S \cup {b} : f[a] \in S \cup {b}
    BY <1>1
  <2>2. c \in S \cup {b}
    BY <1>1, <2>1, ChainStays, S \cup {b} \subseteq Block
  <2>q. QED
    BY <2>2
<1>q. QED
  BY <1>1 DEF Chain

\* and the climb from a block on a climb is part of it.
LEMMA ChainTransitive ==
  ASSUME NEW f, NEW b, NEW c \in Chain(f, b), NEW d \in Chain(f, c)
  PROVE  d \in Chain(f, b)
BY DEF Chain

\* A climb from a block with an idom stays among such blocks and does not go down.
LEMMA ChainUp ==
  ASSUME TypeOK, Numbered, IdomInv, NEW b \in Known, NEW c \in Chain(idom, b)
  PROVE  c \in Known /\ id[c] >= id[b]
<1> DEFINE S == {a \in Known : id[a] >= id[b]}
<1>1. \A a \in Known : id[a] \in Nat
  BY DEF TypeOK, Known
<1>2. ASSUME NEW a \in S PROVE idom[a] \in S
  <2>1. idom[a] \in Known
    BY <1>2 DEF IdomInv
  <2>2. a = Entry \/ id[idom[a]] > id[a]
    BY <1>2 DEF IdomInv
  <2>q. QED
    BY <1>1, <1>2, <2>1, <2>2 DEF IdomInv
<1>3. b \in S /\ S \subseteq Block
  BY <1>1 DEF Known
<1>4. Chain(idom, b) \subseteq S
  <2> HIDE DEF S
  <2>q. QED
    BY <1>2, <1>3, ChainStays
<1>q. QED
  BY <1>4

\* The climb from the entry goes nowhere.
LEMMA ChainOfEntry ==
  ASSUME IdomInv
  PROVE  Chain(idom, Entry) \subseteq {Entry}
<1>1. idom[Entry] = Entry /\ Entry \in Block
  BY EntryAssumption DEF IdomInv
<1>q. QED
  BY <1>1, ChainStays

\* A climb passes all dominators of where it began.
LEMMA ClimbPasses ==
  ASSUME TypeOK, Numbered, IdomInv, NEW b \in Known \ {Entry}, NEW d \in StrictDoms(cfg.succ, b),
         NEW S \in SUBSET Block, idom[b] \in S, \A c \in S : idom[c] \in S
  PROVE  d \in S
<1> SUFFICES ASSUME d \notin S PROVE FALSE
  OBVIOUS
<1>1. IsSucc(cfg.succ) /\ Known \subseteq Reached /\ Reached \subseteq Block
  BY Graph DEF IdomInv
<1>2. \A c \in Known : id[c] \in Nat
  BY <1>1 DEF TypeOK
<1> DEFINE T == {c \in S \cap Known : Dominates(cfg.succ, d, c)}
<1>3. idom[b] \in T
  BY DEF IdomInv, Keeps
<1>4. PICK c \in T : \A x \in T : id[x] <= id[c]
  <2>1. T \subseteq Reached /\ T # {}
    BY <1>1, <1>3
  <2> HIDE DEF T
  <2>q. QED
    BY <2>1, Uppermost
<1>5. d \in StrictDoms(cfg.succ, c)
  BY <1>1, <1>4 DEF StrictDoms
<1>6. c # Entry
  BY <1>1, <1>5, EntryDominates DEF StrictDoms
<1>7. idom[c] \in T /\ id[idom[c]] > id[c]
  BY <1>4, <1>5, <1>6 DEF IdomInv, Keeps
<1>8. id[idom[c]] <= id[c]
  BY <1>4, <1>7
<1>q. QED
  BY <1>2, <1>4, <1>7, <1>8

\* The root of the iteration.
LEMMA BeginStep ==
  ASSUME IInv, BeginIdom
  PROVE  Numbered' /\ IdomInv' /\ PassInv'
<1>0. TypeOK /\ SearchInv /\ stack = <<>> /\ Entry \in Block /\ Block \subseteq NullOr
  BY EntryAssumption DEF IInv, BeginIdom, NullOr
<1>1. Numbered
  BY <1>0, SearchEnd
<1>2. cfg' = cfg /\ order' = order /\ id' = id
  BY DEF BeginIdom, dfsvars
<1>3. /\ idom'[Entry] = Entry /\ idom'[Null] = Null
      /\ \A b \in Block \ {Entry} : idom'[b] = Null
  BY <1>0, EntryAssumption DEF BeginIdom, NullOr
<1>4. Known' = {Entry}
  BY <1>0, <1>3, EntryAssumption DEF Known
<1>5. Numbered'
  BY <1>1, <1>2 DEF Numbered, Reached
<1>6. IdomInv'
  <2>1. Entry \in Reached'
    BY <1>0, <1>2, Graph DEF Reached
  <2>2. Keeps(Entry, idom[Entry])'
    BY <1>0, <1>2, <1>3, Graph, EntryDominates DEF Keeps, StrictDoms
  <2>q. QED
    BY <1>3, <1>4, <2>1, <2>2 DEF IdomInv
<1>7. PassInv'
  <2>1. pos' = Len(order') /\ Len(order') \in Nat
    BY <1>0, <1>2 DEF BeginIdom, TypeOK
  <2>q. QED
    BY <2>1 DEF PassInv
<1>q. QED
  BY <1>5, <1>6, <1>7

-----------------------------------------------------------------------------
(* The iteration.                                                           *)

LEMMA IdomFrame ==
  ASSUME cfg' = cfg, order' = order, id' = id, idom' = idom
  PROVE  /\ Reached' = Reached /\ Known' = Known
         /\ Numbered => Numbered'
         /\ IdomInv => IdomInv'
<1>1. Reached' = Reached /\ Known' = Known
  BY DEF Reached, Known
<1>2. Numbered => Numbered'
  BY <1>1 DEF Numbered
<1>3. \A b, c \in Block : Keeps(b, c)' <=> Keeps(b, c)
  BY DEF Keeps
<1>4. IdomInv => IdomInv'
  <2>1. \A b \in Known : b \in Block
    BY DEF Known
  <2>q. QED
    BY <1>1, <1>3, <2>1 DEF IdomInv
<1>q. QED
  BY <1>1, <1>2, <1>4

LEMMA PassFrame ==
  ASSUME PassInv, cfg' = cfg, order' = order, idom' = idom, pos' = pos, changed' = changed
  PROVE  PassInv'
BY DEF PassInv, Settled, Known

\* The block whose turn it is, and the predecessor it has from the search: that one has
\* been done in this pass.
LEMMA Turn ==
  ASSUME TypeOK, Numbered, PassInv, pos > 0, bb # Entry
  PROVE  /\ bb \in Reached /\ id[bb] = pos - 1
         /\ \E p \in Range(cfg.pre[bb]) \cap Known : id[p] > id[bb]
<1>1. pos \in 1 .. Len(order)
  BY DEF TypeOK
<1>2. bb \in Reached /\ id[bb] = pos - 1
  BY <1>1, Places DEF bb
<1>3. PICK p \in Preds(cfg.succ, bb) \cap Reached : id[p] > id[bb]
  BY <1>2 DEF Numbered
<1>4. id[p] + 1 \in 1 .. Len(order) /\ order[id[p] + 1] = p /\ id[p] \in 0 .. Len(order)
  BY <1>3, Places
<1>5. id[p] + 1 > pos
  BY <1>1, <1>2, <1>3, <1>4
<1>6. p \in Known
  BY <1>4, <1>5 DEF PassInv
<1>7. p \in Range(cfg.pre[bb])
  BY <1>2, <1>3, Graph
<1>q. QED
  BY <1>2, <1>3, <1>6, <1>7

\* The dominators of a block dominate its predecessors.
LEMMA PredKeeps ==
  ASSUME TypeOK, NEW b \in Block, NEW p \in Range(cfg.pre[b])
  PROVE  Keeps(b, p)
BY Graph, DominatesPred DEF Keeps, StrictDoms, Preds

LEMMA FindPredStep ==
  ASSUME IInv, FindPred
  PROVE  phase' = "merge" /\ MergeInv'
<1>0. TypeOK /\ Numbered /\ IdomInv /\ PassInv /\ pos > 0 /\ bb # Entry
  BY DEF IInv, FindPred
<1>1. bb \in Reached /\ \E p \in Range(cfg.pre[bb]) \cap Known : id[p] > id[bb]
  BY <1>0, Turn
<1>2. bb \in Block /\ cfg.pre[bb] \in Seq(Block)
  BY <1>0, <1>1, Graph
<1> DEFINE pre  == cfg.pre[bb]
           have == {n \in 1 .. Len(pre) : idom[pre[n]] # Null}
           m    == CHOOSE n \in have : \A k \in have : n <= k
<1>3. DOMAIN pre = 1 .. Len(pre) /\ Len(pre) \in Nat
  BY <1>2
<1>4. have # {}
  BY <1>1, <1>3 DEF Range, Known
<1>5. m \in have
  <2>1. \E n \in have : \A k \in have : n <= k
    BY <1>4, LeastNumber, have \subseteq Nat
  <2>q. QED
    BY <2>1
<1>6. phase' = "merge" /\ pred' = pre[m] /\ b2' = pre[m] /\ rest' = pre
  BY <1>4 DEF FindPred
<1> HIDE DEF m
<1>7. pre[m] \in Range(pre) \cap Known
  BY <1>2, <1>3, <1>5 DEF Range, Known
<1>8. cfg' = cfg /\ order' = order /\ id' = id /\ idom' = idom /\ pos' = pos /\ bb' = bb
  BY DEF FindPred, dfsvars, bb
<1>9. Keeps(bb, pre[m])
  BY <1>0, <1>2, <1>7, PredKeeps
<1>10. Keeps(bb, b2)'
  BY <1>6, <1>8, <1>9 DEF Keeps
<1>11. b2' \in Chain(idom', pred')
  BY <1>6, <1>7, ChainStart DEF Known
<1>12. Known' = Known
  BY <1>8 DEF Known
<1>q. QED
  BY <1>0, <1>6, <1>7, <1>8, <1>10, <1>11, <1>12 DEF MergeInv

LEMMA NextPredStep ==
  ASSUME IInv, NextPred
  PROVE  MergeInv'
<1>0. TypeOK /\ Numbered /\ IdomInv /\ MergeInv /\ phase = "merge"
  BY DEF IInv, NextPred
<1>1. cfg' = cfg /\ idom' = idom /\ pos' = pos /\ bb' = bb /\ b2' = b2 /\ pred' = pred
  BY DEF NextPred, dfsvars, bb
<1>2. /\ rest' = Tail(rest) /\ Range(rest) = Range(rest') \cup {Head(rest)}
      /\ Head(rest) \in Block
  BY <1>0, Rest DEF NextPred, TypeOK
<1>3. bb \in Block
  BY <1>0, Turn, Places, Graph DEF MergeInv, TypeOK, bb
<1>4. Known' = Known /\ (Keeps(bb, b2) <=> Keeps(bb, b2)')
  BY <1>1 DEF Known, Keeps
<1>5. CASE Head(rest) # pred /\ idom[Head(rest)] # Null
  <2>1. b1' = Head(rest) /\ phase' = "intersect"
    BY <1>5 DEF NextPred
  <2>2. b1' \in Known /\ b1' \in Range(cfg.pre[bb])
    BY <1>0, <1>2, <1>5, <2>1 DEF MergeInv, Known
  <2>3. Keeps(bb, b1') /\ b1' \in Chain(idom, b1')
    BY <1>0, <1>3, <2>2, PredKeeps, ChainStart DEF Known
  <2>4. Keeps(bb, b1)'
    BY <1>1, <2>3 DEF Keeps
  <2>5. \A p \in Range(cfg.pre[bb]) \cap Known :
          p \in Range(rest') \/ b1' \in Chain(idom, p) \/ b2' \in Chain(idom, p)
    BY <1>0, <1>1, <1>2, <2>1, <2>3 DEF MergeInv
  <2>q. QED
    BY <1>0, <1>1, <1>2, <1>4, <2>1, <2>2, <2>4, <2>5 DEF MergeInv
<1>6. CASE ~(Head(rest) # pred /\ idom[Head(rest)] # Null)
  <2>1. b1' = b1 /\ phase' = "merge"
    BY <1>0, <1>6 DEF NextPred
  <2>2. \A p \in Range(cfg.pre[bb]) \cap Known : p \in Range(rest') \/ b2' \in Chain(idom, p)
    BY <1>0, <1>1, <1>2, <1>6 DEF MergeInv, Known
  <2>q. QED
    BY <1>0, <1>1, <1>2, <1>4, <2>1, <2>2 DEF MergeInv
<1>q. QED
  BY <1>5, <1>6

\* A block that climbs leaves no dominator of bb behind: the dominator would be the
\* block itself, with a number below that of the other one, which it dominates.
LEMMA ClimbKeeps ==
  ASSUME TypeOK, Numbered, IdomInv, NEW b \in Block, NEW low \in Known, NEW high \in Known,
         Keeps(b, low), Keeps(b, high), id[low] < id[high]
  PROVE  idom[low] \in Known /\ Keeps(b, idom[low])
<1>1. idom[low] \in Known /\ Keeps(low, idom[low])
  BY DEF IdomInv
<1>2. low \in Block /\ high \in Block /\ low \in Reached /\ high \in Reached
  BY DEF IdomInv, Known
<1>3. ASSUME NEW d \in StrictDoms(cfg.succ, b) PROVE Dominates(cfg.succ, d, idom[low])
  <2>1. Dominates(cfg.succ, d, low) /\ Dominates(cfg.succ, d, high) /\ d \in Block
    BY <1>3 DEF Keeps, StrictDoms
  <2>2. d # low
    <3>1. ASSUME d = low PROVE FALSE
      <4>1. low # high /\ id[low] \in Nat /\ id[high] \in Nat
        BY <1>2 DEF TypeOK
      <4>2. d \in StrictDoms(cfg.succ, high)
        BY <2>1, <3>1, <4>1 DEF StrictDoms
      <4>3. id[low] > id[high]
        BY <1>2, <3>1, <4>2, DominatorsAbove
      <4>q. QED
        BY <4>1, <4>3
    <3>q. QED
      BY <3>1
  <2>q. QED
    BY <1>1, <2>1, <2>2 DEF Keeps, StrictDoms
<1>q. QED
  BY <1>1, <1>3 DEF Keeps

LEMMA ClimbStep ==
  ASSUME IInv, Climb1 \/ Climb2
  PROVE  phase' = "intersect" /\ MergeInv'
<1>0. TypeOK /\ Numbered /\ IdomInv /\ MergeInv /\ phase = "intersect"
  BY DEF IInv, Climb1, Climb2
<1>1. cfg' = cfg /\ idom' = idom /\ pos' = pos /\ bb' = bb /\ rest' = rest /\ pred' = pred
  BY DEF Climb1, Climb2, dfsvars, bb
<1>2. bb \in Block
  BY <1>0, Places, Graph DEF MergeInv, TypeOK, bb
<1>3. b1 \in Known /\ b2 \in Known /\ Keeps(bb, b1) /\ Keeps(bb, b2)
  BY <1>0 DEF MergeInv
<1>4. Known' = Known
  BY <1>1 DEF Known
<1>5. CASE Climb1
  <2>1. b1' = idom[b1] /\ b2' = b2 /\ phase' = "intersect" /\ id[b1] < id[b2]
    BY <1>0, <1>3, <1>5 DEF Climb1, Known
  <2>2. b1' \in Known /\ Keeps(bb, b1')
    BY <1>0, <1>2, <1>3, <2>1, ClimbKeeps
  <2>3. Keeps(bb, b1)' /\ Keeps(bb, b2)'
    BY <1>1, <1>3, <2>1, <2>2 DEF Keeps
  <2>4. \A p : b1 \in Chain(idom, p) => b1' \in Chain(idom, p)
    BY <2>1, <2>2, ChainStep DEF Known
  <2>q. QED
    BY <1>0, <1>1, <1>4, <2>1, <2>2, <2>3, <2>4 DEF MergeInv
<1>6. CASE Climb2
  <2>1. b2' = idom[b2] /\ b1' = b1 /\ phase' = "intersect" /\ id[b2] < id[b1]
    BY <1>0, <1>3, <1>6 DEF Climb2, Known
  <2>2. b2' \in Known /\ Keeps(bb, b2')
    BY <1>0, <1>2, <1>3, <2>1, ClimbKeeps
  <2>3. Keeps(bb, b1)' /\ Keeps(bb, b2)'
    BY <1>1, <1>3, <2>1, <2>2 DEF Keeps
  <2>4. \A p : b2 \in Chain(idom, p) => b2' \in Chain(idom, p)
    BY <2>1, <2>2, ChainStep DEF Known
  <2>q. QED
    BY <1>0, <1>1, <1>4, <2>1, <2>2, <2>3, <2>4 DEF MergeInv
<1>q. QED
  BY <1>5, <1>6

LEMMA MeetStep ==
  ASSUME IInv, EndIntersect
  PROVE  MergeInv'
<1>0. MergeInv /\ phase = "intersect" /\ b1 = b2 /\ phase' = "merge"
  BY DEF IInv, EndIntersect
<1>1. /\ cfg' = cfg /\ idom' = idom /\ pos' = pos /\ bb' = bb /\ rest' = rest /\ pred' = pred
      /\ b1' = b1 /\ b2' = b2
  BY DEF EndIntersect, dfsvars, idomvars, bb
<1>2. Known' = Known /\ (Keeps(bb, b2) <=> Keeps(bb, b2)')
  BY <1>1 DEF Known, Keeps
<1>q. QED
  BY <1>0, <1>1, <1>2 DEF MergeInv

LEMMA SetIdomStep ==
  ASSUME IInv, SetIdom
  PROVE  Numbered' /\ IdomInv' /\ PassInv'
<1>0. TypeOK /\ Numbered /\ IdomInv /\ PassInv /\ MergeInv /\ phase = "merge" /\ rest = <<>>
  BY DEF IInv, SetIdom
<1>1. cfg' = cfg /\ order' = order /\ id' = id /\ pos' = pos - 1
  BY DEF SetIdom, dfsvars
<1>2. bb \in Reached /\ bb \in Block /\ bb # Entry /\ id[bb] = pos - 1
  BY <1>0, Turn, Graph DEF MergeInv
<1>3. PICK h \in Range(cfg.pre[bb]) \cap Known : id[h] > id[bb]
  BY <1>0, Turn DEF MergeInv
<1>4. \A p \in Range(cfg.pre[bb]) \cap Known : b2 \in Chain(idom, p)
  BY <1>0 DEF MergeInv, Range
<1>5. b2 \in Known /\ Keeps(bb, b2) /\ b2 \in Block
  BY <1>0 DEF MergeInv, Known
<1>6. id[b2] > id[bb]
  <2>1. id[b2] >= id[h]
    BY <1>0, <1>3, <1>4, ChainUp
  <2>2. id[b2] \in Nat /\ id[h] \in Nat /\ id[bb] \in Nat
    BY <1>0, <1>2, <1>3, <1>5 DEF TypeOK, Known
  <2>q. QED
    BY <1>3, <2>1, <2>2
<1>7. idom'[bb] = b2 /\ \A b \in NullOr \ {bb} : idom'[b] = idom[b]
  BY <1>0, <1>2 DEF SetIdom, TypeOK, NullOr
<1>8. Entry \in NullOr /\ Null \in NullOr /\ Null # bb /\ b2 # Null /\ Block \subseteq NullOr
  BY <1>2, <1>5, EntryAssumption DEF NullOr, Known
<1>9. Known' = Known \cup {bb} /\ Reached' = Reached
  BY <1>1, <1>2, <1>7, <1>8 DEF Known, Reached
<1>10. Numbered'
  BY <1>0, <1>1, <1>9 DEF Numbered
<1>11. IdomInv'
  <2>1. idom'[Null] = Null /\ idom'[Entry] = Entry /\ Known' \subseteq Reached'
    BY <1>0, <1>2, <1>7, <1>8, <1>9 DEF IdomInv
  <2>2. ASSUME NEW b \in Known' PROVE idom'[b] \in Known' /\ Keeps(b, idom[b])'
    <3>1. CASE b = bb
      <4>1. idom'[b] \in Known' /\ Keeps(b, idom'[b])
        BY <1>5, <1>7, <1>9, <3>1
      <4>q. QED
        BY <1>1, <4>1 DEF Keeps
    <3>2. CASE b # bb
      <4>1. b \in Known /\ idom'[b] = idom[b]
        BY <1>7, <1>8, <1>9, <2>2, <3>2 DEF Known
      <4>2. idom'[b] \in Known' /\ Keeps(b, idom'[b])
        BY <1>0, <1>9, <4>1 DEF IdomInv
      <4>q. QED
        BY <1>1, <4>2 DEF Keeps
    <3>q. QED
      BY <3>1, <3>2
  <2>3. ASSUME NEW b \in Known' \ {Entry} PROVE id'[idom'[b]] > id'[b]
    <3>1. CASE b = bb
      BY <1>1, <1>6, <1>7, <3>1
    <3>2. CASE b # bb
      <4>1. b \in Known \ {Entry} /\ idom'[b] = idom[b]
        BY <1>7, <1>8, <1>9, <2>3, <3>2 DEF Known
      <4>q. QED
        BY <1>0, <1>1, <4>1 DEF IdomInv
    <3>q. QED
      BY <3>1, <3>2
  <2>q. QED
    BY <2>1, <2>2, <2>3 DEF IdomInv
<1>12. PassInv'
  <2>1. ASSUME NEW n \in 1 .. Len(order), n > pos - 1
        PROVE  /\ order[n] \in Known'
               /\ ~changed' /\ order[n] # Entry => Settled(order[n])'
    <3>1. pos \in Nat /\ (n = pos \/ n > pos)
      BY <1>0, <2>1 DEF TypeOK
    <3>2. order[n] \in Known'
      BY <1>0, <1>9, <2>1, <3>1 DEF PassInv, bb
    <3>3. ASSUME ~changed', order[n] # Entry PROVE Settled(order[n])'
      <4>1. ~changed /\ idom[bb] = b2
        BY <3>3 DEF SetIdom
      <4>2. idom' = idom
        BY <1>0, <4>1 DEF SetIdom, TypeOK
      <4>3. Settled(order[n])
        <5>1. CASE n = pos
          BY <1>4, <4>1, <5>1 DEF Settled, bb
        <5>2. CASE n > pos
          BY <1>0, <2>1, <3>3, <4>1, <5>2 DEF PassInv
        <5>q. QED
          BY <3>1, <5>1, <5>2
      <4>q. QED
        BY <1>1, <4>2, <4>3 DEF Settled, Known
    <3>q. QED
      BY <3>2, <3>3
  <2>q. QED
    BY <1>1, <2>1 DEF PassInv
<1>q. QED
  BY <1>10, <1>11, <1>12

LEMMA SkipRootStep ==
  ASSUME IInv, SkipRoot
  PROVE  PassInv'
<1>0. TypeOK /\ IdomInv /\ PassInv /\ bb = Entry
  BY DEF IInv, SkipRoot
<1>1. /\ cfg' = cfg /\ order' = order /\ idom' = idom /\ changed' = changed /\ pos' = pos - 1
      /\ pos \in Nat
  BY <1>0 DEF SkipRoot, dfsvars, TypeOK
<1>2. Entry \in Known
  BY <1>0, EntryAssumption DEF IdomInv, Known
<1>3. ASSUME NEW n \in 1 .. Len(order), n > pos - 1
      PROVE  order[n] \in Known /\ (~changed /\ order[n] # Entry => Settled(order[n]))
  <2>1. n = pos \/ n > pos
    BY <1>1, <1>3
  <2>q. QED
    BY <1>0, <1>2, <2>1 DEF PassInv, bb
<1>4. Known' = Known /\ \A b : Settled(b)' <=> Settled(b)
  BY <1>1 DEF Known, Settled
<1>q. QED
  BY <1>1, <1>3, <1>4 DEF PassInv

-----------------------------------------------------------------------------
(* The fixpoint.                                                            *)

\* When a whole pass has changed nothing, the climbs pass dominators only: the blocks
\* whose climb does not pass d are closed under edges that do not lead into d.
LEMMA FixpointSound ==
  ASSUME TypeOK, IdomInv, Known = Reached, \A b \in Reached \ {Entry} : Settled(b),
         NEW b \in Reached, NEW d \in Chain(idom, b)
  PROVE  Dominates(cfg.succ, d, b)
<1> DEFINE S == {c \in Reached : d \notin Chain(idom, c)}
<1>1. IsSucc(cfg.succ) /\ Reached \subseteq Block /\ Entry \in Reached
  BY Graph
<1>2. d # Entry => Entry \in S
  BY <1>1, ChainOfEntry
<1>3. ASSUME NEW a \in S, NEW c \in Succs(cfg.succ, a), c # d PROVE c \in S
  <2>1. a \in Reached /\ c \in Reached /\ a \in Block /\ c \in Block
    BY <1>1, <1>3, ReachableStep DEF Reached
  <2>2. a \in Range(cfg.pre[c]) /\ c # Entry
    BY <1>3, <2>1, Graph DEF Preds
  <2>3. idom[c] \in Chain(idom, a) /\ idom[c] \in Block
    BY <2>1, <2>2 DEF Settled, IdomInv, Known
  <2>4. ASSUME d \in Chain(idom, c) PROVE FALSE
    <3>1. d \in Chain(idom, idom[c])
      BY <1>3, <2>1, <2>3, <2>4, ChainSplit
    <3>2. d \in Chain(idom, a)
      BY <2>3, <3>1, ChainTransitive
    <3>q. QED
      BY <1>3, <3>2
  <2>q. QED
    BY <2>1, <2>4
<1>4. ClosedAvoiding(cfg.succ, {d}, S) /\ S \subseteq Block /\ b \notin S
  BY <1>1, <1>2, <1>3 DEF ClosedAvoiding
<1>5. ReachAvoiding(cfg.succ, {d}) \subseteq S
  <2> HIDE DEF S
  <2>q. QED
    BY <1>4, ReachIsLeast
<1>q. QED
  BY <1>4, <1>5 DEF Dominates

LEMMA FixpointFinal ==
  ASSUME TypeOK, Numbered, IdomInv, PassInv, pos = 0, ~changed
  PROVE  Final
<1>1. \A b \in Reached : b \in Known /\ (b # Entry => Settled(b))
  <2>1. ASSUME NEW b \in Reached PROVE b \in Known /\ (b # Entry => Settled(b))
    <3>1. id[b] + 1 \in 1 .. Len(order) /\ order[id[b] + 1] = b
      BY Places
    <3>2. id[b] + 1 > pos
      BY <3>1
    <3>q. QED
      BY <3>1, <3>2 DEF PassInv
  <2>q. QED
    BY <2>1
<1>2. Known = Reached
  BY <1>1 DEF IdomInv
<1>3. ASSUME NEW b \in Reached \ {Entry} PROVE idom[b] \in StrictDoms(cfg.succ, b)
  <2>1. idom[b] \in Reached /\ b \in Block /\ idom[b] \in Block
    BY <1>2, Graph DEF IdomInv
  <2>2. idom[b] \in Chain(idom, b)
    BY <2>1, ChainStart, ChainStep
  <2>3. Dominates(cfg.succ, idom[b], b)
    BY <1>1, <1>2, <2>2, FixpointSound
  <2>4. idom[b] # b
    <3>1. id[idom[b]] > id[b] /\ id[b] \in Nat
      BY <1>2, <2>1 DEF IdomInv, TypeOK
    <3>q. QED
      BY <3>1
  <2>q. QED
    BY <2>1, <2>3, <2>4 DEF StrictDoms
<1>q. QED
  BY <1>2, <1>3 DEF Final

\* The idom of a reached block is its immediate dominator.
LEMMA IdomIsImmediate ==
  ASSUME TypeOK, IdomInv, Final, NEW b \in Reached \ {Entry}
  PROVE  idom[b] = ImmediateDom(cfg.succ, b)
<1>1. IsSucc(cfg.succ) /\ b \in Reachable(cfg.succ)
  BY Graph DEF Reached
<1>2. idom[b] \in StrictDoms(cfg.succ, b)
  BY DEF Final
<1>3. \A c \in StrictDoms(cfg.succ, b) : Dominates(cfg.succ, c, idom[b])
  BY DEF Final, IdomInv, Keeps
<1>q. QED
  BY <1>1, <1>2, <1>3, ImmediateIsUnique

LEMMA BeginFrontierStep ==
  ASSUME IInv, BeginFrontier
  PROVE  Final' /\ FrontierInv'
<1>0. /\ TypeOK /\ Numbered /\ IdomInv /\ PassInv /\ pos = 0 /\ ~changed
      /\ \A b \in Block : frontier[b] = {}
  BY DEF IInv, BeginFrontier
<1>1. /\ cfg' = cfg /\ order' = order /\ id' = id /\ idom' = idom /\ frontier' = frontier
      /\ blocks' = Joins
  BY DEF BeginFrontier, dfsvars, Joins
<1>2. Reached' = Reached /\ Known' = Known /\ Joins' = Joins
  BY <1>1 DEF Reached, Known, Joins
<1>3. Final'
  BY <1>0, <1>1, <1>2, FixpointFinal DEF Final
<1>4. FrontierInv'
  BY <1>0, <1>1, <1>2, Graph DEF FrontierInv
<1>q. QED
  BY <1>3, <1>4

-----------------------------------------------------------------------------
(* The frontiers.                                                           *)

\* What a climb along the final idoms does with the dominators: those of a block that
\* are not the block itself dominate its idom, and its idom dominates it.
LEMMA ClimbFinal ==
  ASSUME TypeOK, IdomInv, Final, NEW b \in Reached
  PROVE  /\ idom[b] \in Reached
         /\ Dominates(cfg.succ, idom[b], b)
         /\ \A d \in Block : Dominates(cfg.succ, d, b) /\ d # b => Dominates(cfg.succ, d, idom[b])
<1>1. IsSucc(cfg.succ) /\ Reached \subseteq Block /\ Entry \in Reached
  BY Graph
<1>2. idom[b] \in Reached
  BY DEF IdomInv, Final
<1>3. Dominates(cfg.succ, idom[b], b)
  <2>1. CASE b = Entry
    BY <1>1, <2>1, DominatesItself DEF IdomInv
  <2>2. CASE b # Entry
    BY <2>2 DEF Final, StrictDoms
  <2>q. QED
    BY <2>1, <2>2
<1>4. ASSUME NEW d \in Block, Dominates(cfg.succ, d, b), d # b PROVE Dominates(cfg.succ, d, idom[b])
  BY <1>4 DEF StrictDoms, IdomInv, Keeps, Final
<1>q. QED
  BY <1>2, <1>3, <1>4

\* A block strictly dominates a reached block when it dominates its idom.
LEMMA StrictByIdom ==
  ASSUME TypeOK, IdomInv, Final, NEW y \in Reached \ {Entry}, NEW d \in Block
  PROVE  d \in StrictDoms(cfg.succ, y) <=> Dominates(cfg.succ, d, idom[y])
<1>1. IsSucc(cfg.succ) /\ Reached \subseteq Block
  BY Graph
<1>2. idom[y] \in StrictDoms(cfg.succ, y) /\ idom[y] \in Reached
  BY ClimbFinal DEF Final
<1>3. ASSUME d \in StrictDoms(cfg.succ, y) PROVE Dominates(cfg.succ, d, idom[y])
  BY <1>3, ClimbFinal DEF StrictDoms
<1>4. ASSUME Dominates(cfg.succ, d, idom[y]) PROVE d \in StrictDoms(cfg.succ, y)
  <2>1. Dominates(cfg.succ, d, y)
    BY <1>1, <1>2, <1>4, DominatesTransitive DEF StrictDoms
  <2>2. d # y
    <3>1. ASSUME d = y PROVE FALSE
      <4>1. y = idom[y]
        BY <1>1, <1>2, <1>4, <3>1, DominatesAntisymmetric DEF StrictDoms, Reached
      <4>q. QED
        BY <1>2, <4>1 DEF StrictDoms
    <3>q. QED
      BY <3>1
  <2>q. QED
    BY <2>1, <2>2 DEF StrictDoms
<1>q. QED
  BY <1>3, <1>4

\* A climb begins at a predecessor p of the join y.
LEMMA ClimbBegins ==
  ASSUME TypeOK, IdomInv, Final, NEW y \in Block, NEW p \in Range(cfg.pre[y])
  PROVE  /\ {y, p} \subseteq Reached =>
              /\ Dominates(cfg.succ, idom[y], p)
              /\ Dominates(cfg.succ, p, p)
              /\ Entered(cfg.succ, frontier, y, p, {b \in Block : Dominates(cfg.succ, b, p)})
         /\ ~({y, p} \subseteq Reached) => p \notin Reached
<1>1. IsSucc(cfg.succ) /\ Reached \subseteq Block
  BY Graph
<1>2. p \in Block /\ y \in Succs(cfg.succ, p) /\ y # Entry
  BY Graph DEF Preds
<1>3. ASSUME {y, p} \subseteq Reached PROVE Dominates(cfg.succ, idom[y], p)
  <2>1. idom[y] \in StrictDoms(cfg.succ, y)
    BY <1>2, <1>3 DEF Final
  <2>q. QED
    BY <1>1, <1>2, <2>1, DominatesPred DEF StrictDoms
<1>4. Dominates(cfg.succ, p, p) /\ Entered(cfg.succ, frontier, y, p, {b \in Block : Dominates(cfg.succ, b, p)})
  BY <1>1, <1>2, DominatesItself DEF Entered
<1>5. p \in Reached => y \in Reached
  BY <1>1, <1>2, ReachableStep DEF Reached
<1>q. QED
  BY <1>3, <1>4, <1>5

\* What the phases of the frontiers leave alone.
LEMMA FinalFrame ==
  ASSUME Final, cfg' = cfg, idom' = idom
  PROVE  Final' /\ Reached' = Reached /\ Joins' = Joins
BY DEF Final, Reached, Known, Joins

LEMMA NextJoinStep ==
  ASSUME IInv, NEW b \in Block, NextJoin(b)
  PROVE  FrontierInv' /\ WalkInv'
<1>0. TypeOK /\ IdomInv /\ Final /\ FrontierInv /\ phase = "frontier" /\ rest = <<>>
  BY DEF IInv, NextJoin
<1>1. /\ cfg' = cfg /\ idom' = idom /\ frontier' = frontier /\ blocks' = blocks \ {b}
      /\ pred' = b /\ rest' = cfg.pre[b] /\ runner' = Head(cfg.pre[b]) /\ phase' = "walk"
      /\ b \in blocks
  BY DEF NextJoin, dfsvars
<1>2. Reached' = Reached /\ Joins' = Joins
  BY <1>0, <1>1, FinalFrame
<1>3. b \in Joins /\ cfg.pre[b] \in Seq(Block) /\ cfg.pre[b] # <<>>
  <2>1. b \in Joins /\ cfg.pre[b] \in Seq(Block)
    BY <1>0, <1>1, Graph DEF FrontierInv
  <2>q. QED
    BY <2>1 DEF Joins
<1>4. Head(cfg.pre[b]) \in Range(cfg.pre[b])
  BY <1>3, Rest
<1> DEFINE p == Head(cfg.pre[b])
<1>5. /\ {b, p} \subseteq Reached =>
           /\ Dominates(cfg.succ, idom[b], p)
           /\ Dominates(cfg.succ, p, p)
           /\ Entered(cfg.succ, frontier, b, p, {c \in Block : Dominates(cfg.succ, c, p)})
      /\ ~({b, p} \subseteq Reached) => p \notin Reached
  BY <1>0, <1>4, ClimbBegins
<1>7. WalkInv'
  <2>1. /\ {b, p} \subseteq Reached =>
            /\ p \in Reached
            /\ Dominates(cfg'.succ, idom'[b], p)
            /\ Dominates(cfg'.succ, p, p)
            /\ Entered(cfg'.succ, frontier', b, p, {c \in Block : Dominates(cfg'.succ, c, p)})
    BY <1>1, <1>5
  <2>q. QED
    BY <1>1, <1>2, <1>3, <1>5, <2>1 DEF WalkInv
<1>8. FrontierInv'
  <2>1. \A y \in (Joins \cap Reached) \ blocks : \A q \in Range(cfg.pre[y]) :
          q \in Reached /\ Entered(cfg.succ, frontier, y, q, {})
    BY <1>0 DEF FrontierInv
  <2>2. \A y \in (Joins \cap Reached) \ (blocks \ {b}) : y = b \/ y \in (Joins \cap Reached) \ blocks
    OBVIOUS
  <2>3. \A y \in (Joins' \cap Reached') \ blocks' : \A q \in Range(cfg'.pre[y]) :
          (phase' = "walk" /\ pred' = y /\ q \in Range(rest')) \/ (q \in Reached' /\ Entered(cfg'.succ, frontier', y, q, {}))
    BY <1>1, <1>2, <2>1, <2>2
  <2>q. QED
    BY <1>0, <1>1, <1>2, <2>3 DEF FrontierInv
<1>q. QED
  BY <1>7, <1>8

LEMMA WalkStep ==
  ASSUME IInv, Walk
  PROVE  FrontierInv' /\ WalkInv'
<1> DEFINE y == pred
           p == Head(rest)
<1>0. TypeOK /\ IdomInv /\ Final /\ FrontierInv /\ WalkInv /\ phase = "walk"
  BY DEF IInv, Walk
<1>1. /\ cfg' = cfg /\ idom' = idom /\ blocks' = blocks /\ pred' = pred /\ rest' = rest
      /\ runner' = idom[runner] /\ phase' = phase /\ runner # idom[y]
  BY DEF Walk, dfsvars, idomvars
<1>2. Reached' = Reached /\ Joins' = Joins
  BY <1>0, <1>1, FinalFrame
<1>3. IsSucc(cfg.succ) /\ Reached \subseteq Block /\ Null \notin Block
  BY <1>0, Graph, EntryAssumption
<1>4. /\ y \in Block /\ rest \in Seq(Block) /\ rest # <<>> /\ runner \in NullOr
      /\ Range(rest) \subseteq Range(cfg.pre[y])
  BY <1>0 DEF WalkInv, Joins, TypeOK
<1>5. p \in Range(cfg.pre[y]) /\ p \in Block
  BY <1>4, Rest
<1>6. y \in Succs(cfg.succ, p) /\ y # Entry /\ p \in Preds(cfg.succ, y)
  BY <1>0, <1>4, <1>5, Graph DEF Preds
<1>7. /\ y \in frontier'[runner] /\ \A b \in Block : frontier[b] \subseteq frontier'[b]
      /\ \A b \in Block : b # runner => frontier'[b] = frontier[b]
      /\ runner \in Block => frontier'[runner] = frontier[runner] \cup {y}
  BY <1>0, <1>4 DEF Walk, TypeOK, NullOr
<1> HIDE DEF y, p
<1>8. ASSUME {y, p} \subseteq Reached
      PROVE  /\ runner \in Reached
             /\ Dominates(cfg.succ, idom[y], runner)
             /\ Dominates(cfg.succ, runner, p)
             /\ Entered(cfg.succ, frontier, y, p, {b \in Block : Dominates(cfg.succ, b, runner)})
  BY <1>0, <1>8 DEF WalkInv, y, p
<1>9. ASSUME ~({y, p} \subseteq Reached) PROVE runner \notin Reached
  BY <1>0, <1>9 DEF WalkInv, y, p
<1>10. ASSUME {y, p} \subseteq Reached
       PROVE  /\ idom[runner] \in Reached
              /\ Dominates(cfg.succ, idom[y], idom[runner])
              /\ Dominates(cfg.succ, idom[runner], p)
              /\ Entered(cfg.succ, frontier', y, p, {b \in Block : Dominates(cfg.succ, b, idom[runner])})
  <2>1. /\ idom[runner] \in Reached /\ Dominates(cfg.succ, idom[runner], runner)
        /\ \A d \in Block : Dominates(cfg.succ, d, runner) /\ d # runner => Dominates(cfg.succ, d, idom[runner])
    BY <1>0, <1>8, <1>10, ClimbFinal
  <2>2. idom[y] \in Block
    BY <1>0, <1>3, <1>10, ClimbFinal
  <2>3. Dominates(cfg.succ, idom[y], idom[runner])
    BY <1>1, <1>8, <1>10, <2>1, <2>2
  <2>4. Dominates(cfg.succ, idom[runner], p)
    BY <1>3, <1>8, <1>10, <2>1, DominatesTransitive
  <2>5. ASSUME NEW b \in Block, Dominates(cfg.succ, b, p), b \notin StrictDoms(cfg.succ, y),
               y \notin frontier'[b]
        PROVE  Dominates(cfg.succ, b, idom[runner])
    <3>1. b # runner /\ y \notin frontier[b]
      BY <1>7, <2>5
    <3>2. Dominates(cfg.succ, b, runner)
      BY <1>8, <1>10, <2>5, <3>1 DEF Entered
    <3>q. QED
      BY <2>1, <3>1, <3>2
  <2>6. Entered(cfg.succ, frontier', y, p, {b \in Block : Dominates(cfg.succ, b, idom[runner])})
    BY <2>5 DEF Entered
  <2>q. QED
    BY <2>1, <2>3, <2>4, <2>6
<1>11. ASSUME runner \notin Reached PROVE idom[runner] \notin Reached
  <2>1. idom[runner] = Null
    BY <1>0, <1>4, <1>11 DEF Final, IdomInv, Known, NullOr
  <2>q. QED
    BY <1>3, <2>1
<1>12. WalkInv'
  <2>1. pred' = y /\ rest' = rest /\ Head(rest) = p
    BY <1>1 DEF y, p
  <2>2. /\ pred' \in Joins' \ blocks' /\ rest' # <<>> /\ Range(rest') \subseteq Range(cfg'.pre[pred'])
    BY <1>0, <1>1, <1>2 DEF WalkInv
  <2>3. {pred', Head(rest')} \subseteq Reached' =>
          /\ runner' \in Reached'
          /\ Dominates(cfg'.succ, idom'[pred'], runner')
          /\ Dominates(cfg'.succ, runner', Head(rest'))
          /\ Entered(cfg'.succ, frontier', pred', Head(rest'),
                     {b \in Block : Dominates(cfg'.succ, b, runner')})
    BY <1>1, <1>2, <1>10, <2>1
  <2>4. ~({pred', Head(rest')} \subseteq Reached') => runner' \notin Reached'
    BY <1>1, <1>2, <1>9, <1>11, <2>1
  <2>q. QED
    BY <2>2, <2>3, <2>4 DEF WalkInv
<1>13. FrontierInv'
  <2>1. ASSUME NEW b \in Reached PROVE frontier'[b] \subseteq Frontier(cfg.succ, b)
    <3>1. frontier[b] \subseteq Frontier(cfg.succ, b)
      BY <1>0 DEF FrontierInv
    <3>2. CASE b # runner
      BY <1>3, <1>7, <3>1, <3>2
    <3>3. CASE b = runner
      <4>1. {y, p} \subseteq Reached
        BY <1>9, <2>1, <3>3
      <4>2. Dominates(cfg.succ, idom[y], b) /\ Dominates(cfg.succ, b, p) /\ b \in Block
        BY <1>3, <1>8, <2>1, <3>3, <4>1
      <4>3. b \notin StrictDoms(cfg.succ, y)
        <5>1. ASSUME b \in StrictDoms(cfg.succ, y) PROVE FALSE
          <6>1. Dominates(cfg.succ, b, idom[y])
            BY <1>0, <1>6, <4>1, <4>2, <5>1, StrictByIdom
          <6>2. b = idom[y]
            BY <1>3, <2>1, <4>2, <6>1, DominatesAntisymmetric DEF Reached
          <6>q. QED
            BY <1>1, <3>3, <6>2
        <5>q. QED
          BY <5>1
      <4>4. y \in Frontier(cfg.succ, b)
        BY <1>4, <1>6, <4>2, <4>3 DEF Frontier, y
      <4>q. QED
        BY <1>3, <1>7, <2>1, <3>1, <3>3, <4>4
    <3>q. QED
      BY <3>2, <3>3
  <2>2. \A x, q : Entered(cfg.succ, frontier, x, q, {}) => Entered(cfg.succ, frontier', x, q, {})
    BY <1>7 DEF Entered
  <2>3. \A x \in (Joins' \cap Reached') \ blocks' : \A q \in Range(cfg'.pre[x]) :
          (phase' = "walk" /\ pred' = x /\ q \in Range(rest')) \/ (q \in Reached' /\ Entered(cfg'.succ, frontier', x, q, {}))
    BY <1>0, <1>1, <1>2, <2>2 DEF FrontierInv
  <2>q. QED
    BY <1>0, <1>1, <1>2, <2>1, <2>3 DEF FrontierInv
<1>q. QED
  BY <1>12, <1>13

LEMMA EndWalkStep ==
  ASSUME IInv, EndWalk
  PROVE  /\ FrontierInv'
         /\ phase' = "walk" => WalkInv'
         /\ phase' \in {"walk", "frontier"}
         /\ phase' = "frontier" => rest' = <<>>
<1> DEFINE y == pred
           p == Head(rest)
<1>0. TypeOK /\ IdomInv /\ Final /\ FrontierInv /\ WalkInv /\ phase = "walk"
  BY DEF IInv, EndWalk
<1>1. /\ cfg' = cfg /\ idom' = idom /\ blocks' = blocks /\ pred' = pred /\ frontier' = frontier
      /\ rest' = Tail(rest) /\ runner = idom[y]
  BY DEF EndWalk, dfsvars
<1>2. /\ rest' = <<>> => phase' = "frontier"
      /\ rest' # <<>> => phase' = "walk" /\ runner' = Head(rest')
  BY <1>0 DEF EndWalk
<1>3. Reached' = Reached /\ Joins' = Joins
  BY <1>0, <1>1, FinalFrame
<1>4. IsSucc(cfg.succ) /\ Reached \subseteq Block
  BY <1>0, Graph
<1>5. /\ y \in Block /\ y \in Joins \ blocks /\ rest \in Seq(Block) /\ rest # <<>>
      /\ Range(rest) \subseteq Range(cfg.pre[y])
  BY <1>0 DEF WalkInv, Joins, TypeOK
<1>6. /\ p \in Range(cfg.pre[y]) /\ p \in Block
      /\ rest' \in Seq(Block) /\ Range(rest) = Range(rest') \cup {p}
  BY <1>1, <1>5, Rest
<1>7. y # Entry
  BY <1>0, <1>6, Graph
<1> HIDE DEF y, p
<1>8. ASSUME y \in Reached PROVE p \in Reached /\ Entered(cfg.succ, frontier, y, p, {})
  <2>1. runner \in Reached
    BY <1>0, <1>1, <1>8, ClimbFinal
  <2>2. {y, p} \subseteq Reached
    BY <1>0, <2>1 DEF WalkInv, y, p
  <2>3. Entered(cfg.succ, frontier, y, p, {b \in Block : Dominates(cfg.succ, b, idom[y])})
    BY <1>0, <1>1, <2>2 DEF WalkInv, y, p
  <2>4. \A b \in Block : Dominates(cfg.succ, b, idom[y]) => b \in StrictDoms(cfg.succ, y)
    BY <1>0, <1>7, <1>8, StrictByIdom
  <2>q. QED
    BY <2>2, <2>3, <2>4 DEF Entered
<1>10. FrontierInv'
  <2>1. ASSUME NEW x \in (Joins \cap Reached) \ blocks, NEW q \in Range(cfg.pre[x])
        PROVE  (phase' = "walk" /\ pred' = x /\ q \in Range(rest')) \/ (q \in Reached /\ Entered(cfg.succ, frontier, x, q, {}))
    <3>1. (y = x /\ q \in Range(rest)) \/ (q \in Reached /\ Entered(cfg.succ, frontier, x, q, {}))
      BY <1>0, <2>1 DEF FrontierInv, y
    <3>2. ASSUME y = x, q \in Range(rest') PROVE phase' = "walk"
      BY <1>2, <3>2 DEF Range
    <3>q. QED
      BY <1>1, <1>6, <1>8, <2>1, <3>1, <3>2 DEF y
  <2>2. \A x \in (Joins' \cap Reached') \ blocks' : \A q \in Range(cfg'.pre[x]) :
          (phase' = "walk" /\ pred' = x /\ q \in Range(rest')) \/ (q \in Reached' /\ Entered(cfg'.succ, frontier', x, q, {}))
    BY <1>1, <1>3, <2>1
  <2>q. QED
    BY <1>0, <1>1, <1>3, <2>2 DEF FrontierInv
<1>11. ASSUME rest' # <<>> PROVE WalkInv'
  <2> DEFINE q == Head(rest')
  <2>1. q \in Range(rest') /\ q \in Range(cfg.pre[y]) /\ Range(rest') \subseteq Range(cfg.pre[y])
    BY <1>5, <1>6, <1>11, Rest
  <2>2. /\ {y, q} \subseteq Reached =>
             /\ Dominates(cfg.succ, idom[y], q)
             /\ Dominates(cfg.succ, q, q)
             /\ Entered(cfg.succ, frontier, y, q, {b \in Block : Dominates(cfg.succ, b, q)})
        /\ ~({y, q} \subseteq Reached) => q \notin Reached
    BY <1>0, <1>5, <2>1, ClimbBegins
  <2>3. pred' = y /\ runner' = q
    BY <1>1, <1>2, <1>11 DEF y
  <2> HIDE DEF q
  <2>4. {pred', q} \subseteq Reached' =>
          /\ runner' \in Reached'
          /\ Dominates(cfg'.succ, idom'[pred'], runner')
          /\ Dominates(cfg'.succ, runner', q)
          /\ Entered(cfg'.succ, frontier', pred', q, {b \in Block : Dominates(cfg'.succ, b, runner')})
    BY <1>1, <1>3, <2>2, <2>3
  <2>5. ~({pred', q} \subseteq Reached') => runner' \notin Reached'
    BY <1>3, <2>2, <2>3
  <2>6. pred' \in Joins' \ blocks' /\ Range(rest') \subseteq Range(cfg'.pre[pred'])
    BY <1>1, <1>3, <1>5, <2>1, <2>3
  <2>q. QED
    BY <1>11, <2>4, <2>5, <2>6 DEF WalkInv, q
<1>q. QED
  BY <1>2, <1>10, <1>11

\* When no join is left the frontiers are complete: a block with one predecessor is in
\* no frontier of a reached block.
LEMMA FrontiersComplete ==
  ASSUME TypeOK, IdomInv, Final, FrontierInv, blocks = {}, phase # "walk", NEW b \in Reached
  PROVE  frontier[b] = Frontier(cfg.succ, b)
<1>1. IsSucc(cfg.succ) /\ Reached \subseteq Block /\ b \in Block
  BY Graph
<1>2. frontier[b] \subseteq Frontier(cfg.succ, b)
  BY DEF FrontierInv
<1>3. ASSUME NEW y \in Frontier(cfg.succ, b) PROVE y \in frontier[b]
  <2>1. PICK p \in Preds(cfg.succ, y) : Dominates(cfg.succ, b, p)
    BY <1>3 DEF Frontier
  <2>2. y \in Block /\ b \notin StrictDoms(cfg.succ, y) /\ y # Entry /\ p \in Range(cfg.pre[y])
    BY <1>3, <2>1, Graph DEF Frontier
  <2>3. y \in Reached
    <3>1. ASSUME y \notin Reached PROVE FALSE
      <4>1. y \notin ReachAvoiding(cfg.succ, {b})
        BY <1>1, <3>1, AvoidingIsReaching DEF Reached
      <4>2. b \in StrictDoms(cfg.succ, y)
        BY <1>1, <3>1, <4>1 DEF StrictDoms, Dominates
      <4>q. QED
        BY <2>2, <4>2
    <3>q. QED
      BY <3>1
  <2>4. CASE y \in Joins
    <3>1. Entered(cfg.succ, frontier, y, p, {})
      BY <2>2, <2>3, <2>4 DEF FrontierInv
    <3>q. QED
      BY <1>1, <2>1, <2>2, <3>1 DEF Entered
  <2>5. CASE y \notin Joins
    <3>1. cfg.pre[y] \in Seq(Block) /\ Len(cfg.pre[y]) < 2
      BY <2>2, <2>5, Graph DEF Joins
    <3> DEFINE l == Len(cfg.pre[y])
    <3>2. l = 1 /\ DOMAIN cfg.pre[y] = 1 .. l
      <4>1. DOMAIN cfg.pre[y] = 1 .. l /\ l \in Nat /\ l < 2
        BY <3>1
      <4> HIDE DEF l
      <4>2. PICK n \in 1 .. l : p = cfg.pre[y][n]
        BY <2>2, <4>1 DEF Range
      <4>3. l = 1
        BY <4>1, <4>2
      <4>q. QED
        BY <4>1, <4>3
    <3>3. \A q \in Range(cfg.pre[y]) : q = p
      BY <2>2, <3>2 DEF Range
    <3>4. \A q \in Preds(cfg.succ, y) : q = p
      BY <2>2, <3>3, Graph
    <3>5. Dominates(cfg.succ, b, y) /\ b # y
      BY <1>1, <2>1, <2>2, <2>3, <3>4, DominatesByPreds DEF Reached
    <3>q. QED
      BY <1>1, <2>2, <3>5 DEF StrictDoms
  <2>q. QED
    BY <2>4, <2>5
<1>q. QED
  BY <1>2, <1>3

\* The tree: of the reached blocks outside a set closed under children none has the
\* greatest number.
LEMMA TreeIsWhole ==
  ASSUME TypeOK, Numbered, IdomInv, Final,
         children = [p \in NullOr |-> {b \in Block : idom[b] = p /\ p # b}],
         NEW S \in SUBSET Block, Entry \in S, \A b \in S : children[b] \subseteq S
  PROVE  Reached \subseteq S
<1> DEFINE T == Reached \ S
<1> SUFFICES ASSUME T # {} PROVE FALSE
  OBVIOUS
<1>1. PICK b \in T : \A c \in T : id[c] <= id[b]
  <2>1. T \subseteq Reached
    OBVIOUS
  <2> HIDE DEF T
  <2>q. QED
    BY <2>1, Uppermost
<1>2. b \in Reached /\ b # Entry /\ b \in Block
  BY <1>1, Graph
<1>3. idom[b] \in Reached /\ id[idom[b]] > id[b] /\ id[b] \in Nat /\ id[idom[b]] \in Nat /\ idom[b] # b
  <2>1. idom[b] \in Reached /\ id[idom[b]] > id[b]
    BY <1>2 DEF IdomInv, Final
  <2>2. idom[b] \in Block /\ id[b] \in Nat /\ id[idom[b]] \in Nat
    BY <1>2, <2>1, Graph DEF TypeOK
  <2>q. QED
    BY <2>1, <2>2
<1>4. idom[b] \in S
  <2>1. ASSUME idom[b] \in T PROVE FALSE
    <3>1. id[idom[b]] <= id[b]
      BY <1>1, <2>1
    <3>q. QED
      BY <1>3, <3>1
  <2>q. QED
    BY <1>3, <2>1
<1>5. b \in children[idom[b]]
  BY <1>2, <1>3, <1>4 DEF NullOr
<1>q. QED
  BY <1>1, <1>4, <1>5

-----------------------------------------------------------------------------
(* The invariant, and what follows from it.                                 *)

LEMMA InvInit == Init => IInv
<1> SUFFICES ASSUME Init PROVE IInv
  OBVIOUS
<1>1. TypeOK
  BY TypeInit
<1>2. /\ phase = "dfs" /\ stack = <<[block |-> Entry, next |-> 1]>> /\ visited = {Entry} /\ order = <<>>
      /\ Entry \in NullOr /\ Block \subseteq NullOr /\ frontier = [b \in NullOr |-> {}]
  BY EntryAssumption DEF Init, NullOr
<1>3. /\ Len(stack) = 1 /\ stack[1].block = Entry /\ stack[1].next = 1 /\ stack # <<>>
      /\ Len(order) = 0 /\ Range(order) = {}
  BY <1>2 DEF Range
<1>4. OnStack = {Entry}
  BY <1>3 DEF OnStack
<1>5. Entry \in Reached
  BY <1>1, Graph
<1>6. SearchInv
  BY <1>2, <1>3, <1>4, <1>5 DEF SearchInv
<1>q. QED
  BY <1>1, <1>2, <1>6 DEF IInv, AssertsHold

LEMMA InvStep ==
  ASSUME IInv, [Next]_vars
  PROVE  IInv'
<1>0. TypeOK'
  BY TypeStep
<1> USE DEF AssertsHold
<1>1. CASE VisitSuccessor \/ LeaveBlock
  <2>1. SearchInv' /\ phase' = "dfs" /\ frontier' = frontier /\ phase = "dfs"
    BY <1>1, VisitStep, LeaveStep DEF VisitSuccessor, LeaveBlock, dfvars
  <2>q. QED
    BY <1>0, <2>1 DEF IInv
<1>2. CASE BeginIdom
  <2>1. phase' = "idom" /\ phase = "dfs" /\ frontier' = frontier
    BY <1>2 DEF BeginIdom, dfvars
  <2>q. QED
    BY <1>0, <1>2, <2>1, BeginStep DEF IInv
<1>3. CASE SkipRoot
  <2>1. /\ phase = "idom" /\ phase' = phase /\ cfg' = cfg /\ order' = order /\ id' = id /\ idom' = idom
        /\ frontier' = frontier
    BY <1>3 DEF SkipRoot, dfsvars, dfvars
  <2>q. QED
    BY <1>0, <1>3, <2>1, SkipRootStep, IdomFrame DEF IInv
<1>4. CASE FindPred \/ NextPred \/ Climb1 \/ Climb2 \/ EndIntersect
  <2>1. /\ cfg' = cfg /\ order' = order /\ id' = id /\ idom' = idom /\ pos' = pos /\ changed' = changed
        /\ frontier' = frontier
    BY <1>4 DEF FindPred, NextPred, Climb1, Climb2, EndIntersect, dfsvars, idomvars, dfvars
  <2>2. phase \in {"idom", "merge", "intersect"} /\ phase' \in {"merge", "intersect"}
    BY <1>4, FindPredStep, ClimbStep DEF FindPred, NextPred, Climb1, Climb2, EndIntersect
  <2>3. MergeInv'
    BY <1>4, FindPredStep, NextPredStep, ClimbStep, MeetStep
  <2>4. Numbered' /\ IdomInv' /\ PassInv'
    BY <2>1, <2>2, IdomFrame, PassFrame DEF IInv
  <2>5. \A b \in Block : frontier'[b] = {}
    BY <2>1, <2>2 DEF IInv
  <2>q. QED
    BY <1>0, <2>2, <2>3, <2>4, <2>5 DEF IInv
<1>5. CASE SetIdom
  <2>1. phase = "merge" /\ phase' = "idom" /\ frontier' = frontier
    BY <1>5 DEF SetIdom, dfvars
  <2>q. QED
    BY <1>0, <1>5, <2>1, SetIdomStep DEF IInv
<1>6. CASE IterateAgain
  <2>1. /\ phase = "idom" /\ phase' = phase /\ cfg' = cfg /\ order' = order /\ id' = id /\ idom' = idom
        /\ frontier' = frontier /\ pos' = Len(order)
    BY <1>6 DEF IterateAgain, dfsvars, dfvars
  <2>2. PassInv'
    <3>1. Len(order) \in Nat
      BY DEF IInv, TypeOK
    <3>q. QED
      BY <2>1, <3>1 DEF PassInv
  <2>3. Numbered' /\ IdomInv'
    BY <2>1, IdomFrame DEF IInv
  <2>q. QED
    BY <1>0, <2>1, <2>2, <2>3 DEF IInv
<1>7. CASE BeginFrontier
  <2>1. /\ phase = "idom" /\ phase' = "frontier" /\ cfg' = cfg /\ order' = order /\ id' = id /\ idom' = idom
        /\ rest' = <<>>
    BY <1>7 DEF BeginFrontier, dfsvars
  <2>q. QED
    BY <1>0, <1>7, <2>1, BeginFrontierStep, IdomFrame DEF IInv
<1>8. CASE (\E b \in Block : NextJoin(b)) \/ Walk \/ EndWalk
  <2>1. /\ cfg' = cfg /\ order' = order /\ id' = id /\ idom' = idom
        /\ phase \in {"frontier", "walk"} /\ phase' \in {"frontier", "walk"}
    BY <1>8 DEF NextJoin, Walk, EndWalk, dfsvars, idomvars
  <2>2. FrontierInv' /\ (phase' = "walk" => WalkInv') /\ (phase' = "frontier" => rest' = <<>>)
    <3>1. CASE \E b \in Block : NextJoin(b)
      BY <3>1, NextJoinStep DEF NextJoin
    <3>2. CASE Walk
      BY <3>2, WalkStep DEF Walk
    <3>3. CASE EndWalk
      BY <3>3, EndWalkStep
    <3>q. QED
      BY <1>8, <3>1, <3>2, <3>3
  <2>3. Numbered' /\ IdomInv' /\ Final'
    BY <2>1, IdomFrame, FinalFrame DEF IInv
  <2>q. QED
    BY <1>0, <2>1, <2>2, <2>3 DEF IInv
<1>9. CASE CreateDomTreeSucc
  <2>1. /\ cfg' = cfg /\ order' = order /\ id' = id /\ idom' = idom /\ blocks' = blocks /\ frontier' = frontier
        /\ phase = "frontier" /\ phase' = "done" /\ blocks = {}
        /\ children' = [p \in NullOr |-> {b \in Block : idom[b] = p /\ p # b}]
    BY <1>9 DEF CreateDomTreeSucc, dfsvars, idomvars, dfvars
  <2>2. Numbered' /\ IdomInv' /\ Final' /\ Reached' = Reached /\ Joins' = Joins
    BY <2>1, IdomFrame, FinalFrame DEF IInv
  <2>3. FrontierInv'
    BY <2>1, <2>2 DEF IInv, FrontierInv
  <2>q. QED
    BY <1>0, <2>1, <2>2, <2>3 DEF IInv
<1>10. CASE UNCHANGED vars
  <2>1. SearchInv' <=> SearchInv
    BY <1>10 DEF vars, SearchInv, OnStack, Reached
  <2>2. (Numbered => Numbered') /\ (IdomInv => IdomInv') /\ (PassInv => PassInv') /\ (Final => Final')
    BY <1>10, IdomFrame, PassFrame, FinalFrame DEF vars
  <2>3. MergeInv' <=> MergeInv
    BY <1>10 DEF vars, MergeInv, Known, Keeps, bb
  <2>4. FrontierInv' <=> FrontierInv
    BY <1>10 DEF vars, FrontierInv, Joins, Reached
  <2>5. WalkInv' <=> WalkInv
    BY <1>10 DEF vars, WalkInv, Joins, Reached
  <2>q. QED
    BY <1>0, <1>10, <2>1, <2>2, <2>3, <2>4, <2>5 DEF vars, IInv
<1>q. QED
  BY <1>1, <1>2, <1>3, <1>4, <1>5, <1>6, <1>7, <1>8, <1>9, <1>10 DEF Next

\* What each phase of run() keeps and leaves behind holds at every moment of the pass,
\* whatever the graph.
THEOREM Invariance == Spec => []IInv
BY InvInit, InvStep, PTL DEF Spec

\* Every variable keeps its type.
THEOREM Typing == Spec => []TypeOK
<1>1. IInv => TypeOK
  BY DEF IInv
<1>q. QED
  BY <1>1, Invariance, PTL

\* The assertions of create_idom and intersect hold for every graph, the numbers of the
\* search rise towards the root, and at no moment of the iteration does a climb miss a
\* dominator of where it began.
THEOREM NoClimbAstray == Spec => []ClimbsMeet
<1>1. ASSUME IInv PROVE ClimbsMeet
  <2>1. AssertsHold
    BY <1>1 DEF IInv
  <2>2. PostOrderNumbers
    BY <1>1 DEF IInv, PostOrderNumbers, Numbered
  <2>3. ASSUME phase = "idom", NEW b \in Block \ {Entry}, idom[b] # Null
        PROVE  /\ idom[b] \in Block
               /\ id[idom[b]] > id[b]
               /\ \A d \in StrictDoms(cfg.succ, b) : \A S \in SUBSET Block :
                    idom[b] \in S /\ (\A c \in S : idom[c] \in S) => d \in S
    <3>1. TypeOK /\ Numbered /\ IdomInv /\ b \in Known
      BY <1>1, <2>3 DEF IInv, Known
    <3>2. idom[b] \in Block /\ id[idom[b]] > id[b]
      BY <2>3, <3>1 DEF IdomInv, Known
    <3>q. QED
      BY <2>3, <3>1, <3>2, ClimbPasses
  <2>q. QED
    BY <2>1, <2>2, <2>3 DEF ClimbsMeet, ClimbsKeepDominators
<1>q. QED
  BY <1>1, Invariance, PTL

\* When the pass is done, the idom of each reachable block is its immediate dominator,
\* its frontier is its dominance frontier, and the tree reaches it.
THEOREM Correctness == Spec => []ResultsCorrect
<1>1. ASSUME IInv PROVE ResultsCorrect
  <2>1. IdomsCorrect
    BY <1>1, IdomIsImmediate DEF IInv, IdomsCorrect, IdomInv
  <2>2. FrontiersCorrect
    BY <1>1, FrontiersComplete DEF IInv, FrontiersCorrect
  <2>3. TreeSpans
    BY <1>1, TreeIsWhole DEF IInv, TreeSpans
  <2>q. QED
    BY <2>1, <2>2, <2>3 DEF ResultsCorrect
<1>q. QED
  BY <1>1, Invariance, PTL
=============================================================================
