-------------------------- MODULE DominanceProofs ---------------------------
(* Dominance, for every control-flow graph: an order on the blocks, with the *)
(* entry block at its head, that edges respect.                              *)
EXTENDS Dominance, FiniteSetTheorems, TLAPS

\* A graph: each block has a sequence of successors.
IsSucc(succ) == succ \in [Block -> Seq(Block)] /\ Entry \in Block

LEMMA SuccsAreBlocks ==
  ASSUME NEW succ, IsSucc(succ), NEW b \in Block
  PROVE  Succs(succ, b) \subseteq Block
BY DEF IsSucc, Succs, Range

\* What paths reach is the least closed set: it is inside every closed set ...
LEMMA ReachIsLeast ==
  ASSUME NEW succ, NEW A, NEW S, S \subseteq Block, ClosedAvoiding(succ, A, S)
  PROVE  ReachAvoiding(succ, A) \subseteq S
BY DEF ReachAvoiding

\* ... and closed itself.
LEMMA ReachIsClosed ==
  ASSUME NEW succ, IsSucc(succ), NEW A
  PROVE  ClosedAvoiding(succ, A, ReachAvoiding(succ, A))
<1>1. ASSUME Entry \notin A PROVE Entry \in ReachAvoiding(succ, A)
  BY <1>1 DEF ReachAvoiding, ClosedAvoiding, IsSucc
<1>2. ASSUME NEW b \in ReachAvoiding(succ, A), NEW c \in Succs(succ, b) \ A
      PROVE  c \in ReachAvoiding(succ, A)
  <2>1. b \in Block /\ c \in Block
    BY <1>2, SuccsAreBlocks DEF ReachAvoiding
  <2>2. ASSUME NEW S \in SUBSET Block, ClosedAvoiding(succ, A, S) PROVE c \in S
    BY <1>2, <2>2 DEF ReachAvoiding, ClosedAvoiding
  <2>q. QED
    BY <2>1, <2>2 DEF ReachAvoiding
<1>q. QED
  BY <1>1, <1>2 DEF ClosedAvoiding

\* An edge that does not lead into the avoided block is a path, and what is reached
\* avoiding a block is reached.
LEMMA ReachStep ==
  ASSUME NEW succ, IsSucc(succ), NEW d, NEW b \in ReachAvoiding(succ, {d}),
         NEW c \in Succs(succ, b), c # d
  PROVE  c \in ReachAvoiding(succ, {d})
BY ReachIsClosed DEF ClosedAvoiding

LEMMA ReachableStep ==
  ASSUME NEW succ, IsSucc(succ)
  PROVE  /\ Entry \in Reachable(succ)
         /\ \A b \in Reachable(succ) : Succs(succ, b) \subseteq Reachable(succ)
         /\ Reachable(succ) \subseteq Block
<1>1. ClosedAvoiding(succ, {}, Reachable(succ))
  BY ReachIsClosed DEF Reachable
<1>q. QED
  BY <1>1 DEF ClosedAvoiding, Reachable, ReachAvoiding

LEMMA AvoidingIsReaching ==
  ASSUME NEW succ, IsSucc(succ), NEW d
  PROVE  ReachAvoiding(succ, {d}) \subseteq Reachable(succ)
<1>1. ClosedAvoiding(succ, {d}, Reachable(succ))
  BY ReachableStep DEF ClosedAvoiding
<1>q. QED
  BY <1>1, ReachIsLeast, ReachableStep

\* A set that holds the entry and is closed under edges holds all that is reached.
LEMMA ReachableIsLeast ==
  ASSUME NEW succ, NEW S, S \subseteq Block, Entry \in S, \A b \in S : Succs(succ, b) \subseteq S
  PROVE  Reachable(succ) \subseteq S
<1>1. ClosedAvoiding(succ, {}, S)
  BY DEF ClosedAvoiding
<1>q. QED
  BY <1>1, ReachIsLeast DEF Reachable

-----------------------------------------------------------------------------
(* Dominance is an order.                                                   *)

\* Every block dominates itself.
LEMMA DominatesItself ==
  ASSUME NEW succ, IsSucc(succ), NEW d \in Block
  PROVE  Dominates(succ, d, d)
<1>1. ClosedAvoiding(succ, {d}, Block \ {d})
  BY SuccsAreBlocks DEF ClosedAvoiding, IsSucc
<1>q. QED
  BY <1>1, ReachIsLeast, Block \ {d} \subseteq Block DEF Dominates

\* The entry dominates every block, and no other block dominates it.
LEMMA EntryDominates ==
  ASSUME NEW succ, IsSucc(succ), NEW b
  PROVE  Dominates(succ, Entry, b) /\ (Dominates(succ, b, Entry) => b = Entry)
<1>1. ClosedAvoiding(succ, {Entry}, {})
  BY DEF ClosedAvoiding
<1>2. b # Entry => Entry \in ReachAvoiding(succ, {b})
  BY ReachIsClosed DEF ClosedAvoiding
<1>q. QED
  BY <1>1, <1>2, ReachIsLeast, {} \subseteq Block DEF Dominates

\* A dominator of a block, other than the block, dominates its predecessors.
LEMMA DominatesPred ==
  ASSUME NEW succ, IsSucc(succ), NEW p \in Block, NEW b \in Succs(succ, p), NEW d, d # b,
         Dominates(succ, d, b)
  PROVE  Dominates(succ, d, p)
BY ReachStep DEF Dominates

LEMMA DominatesTransitive ==
  ASSUME NEW succ, IsSucc(succ), NEW a, NEW b, NEW c,
         Dominates(succ, a, b), Dominates(succ, b, c)
  PROVE  Dominates(succ, a, c)
<1> DEFINE A == ReachAvoiding(succ, {a})
           B == ReachAvoiding(succ, {b})
<1> SUFFICES ASSUME c \in A PROVE FALSE
  BY DEF Dominates
<1>1. b \notin A /\ c \notin B
  BY DEF Dominates
<1>2. a # Entry
  BY EntryDominates DEF Dominates
<1>3. Entry \in A
  BY <1>2, ReachIsClosed DEF ClosedAvoiding
<1>4. Entry \in B
  BY <1>1, <1>3, ReachIsClosed DEF ClosedAvoiding
<1>5. ClosedAvoiding(succ, {a}, A \cap B)
  <2>1. ASSUME NEW x \in A \cap B, NEW y \in Succs(succ, x), y # a PROVE y \in A \cap B
    <3>1. y \in A
      BY <2>1, ReachStep
    <3>q. QED
      BY <2>1, <3>1, <1>1, ReachStep
  <2>q. QED
    BY <1>3, <1>4, <2>1 DEF ClosedAvoiding
<1>6. A \cap B \subseteq Block
  BY DEF ReachAvoiding
<1>7. A \subseteq A \cap B
  <2> HIDE DEF B
  <2>q. QED
    BY <1>5, <1>6, ReachIsLeast
<1>q. QED
  BY <1>1, <1>7

\* Two blocks that dominate each other are one, or not reached.
LEMMA DominatesAntisymmetric ==
  ASSUME NEW succ, IsSucc(succ), NEW a \in Reachable(succ), NEW b,
         Dominates(succ, a, b), Dominates(succ, b, a)
  PROVE  a = b
<1> DEFINE A == ReachAvoiding(succ, {a})
           B == ReachAvoiding(succ, {b})
<1> SUFFICES ASSUME a # b PROVE FALSE
  OBVIOUS
<1>1. b \notin A /\ a \notin B
  BY DEF Dominates
<1>2. a # Entry /\ b # Entry
  BY EntryDominates
<1>3. Entry \in A \cap B
  BY <1>2, ReachIsClosed DEF ClosedAvoiding
<1>4. ASSUME NEW x \in A \cap B, NEW y \in Succs(succ, x) PROVE y \in A \cap B
  <2>1. y # a
    BY <1>1, <1>4, ReachStep
  <2>2. y # b
    BY <1>1, <1>4, ReachStep
  <2>q. QED
    BY <2>1, <2>2, <1>4, ReachStep
<1>5. A \cap B \subseteq Block
  BY DEF ReachAvoiding
<1>6. Reachable(succ) \subseteq A \cap B
  <2> HIDE DEF A, B
  <2>q. QED
    BY <1>3, <1>4, <1>5, ReachableIsLeast
<1>7. a \in B
  BY <1>6
<1>q. QED
  BY <1>1, <1>7

\* The dominators of a reached block are reached.
LEMMA DominatorIsReached ==
  ASSUME NEW succ, IsSucc(succ), NEW b \in Reachable(succ), NEW d, Dominates(succ, d, b)
  PROVE  d \in Reachable(succ)
<1> SUFFICES ASSUME d \notin Reachable(succ) PROVE FALSE
  OBVIOUS
<1> DEFINE D == ReachAvoiding(succ, {d})
<1>1. D \subseteq Reachable(succ) /\ D \subseteq Block
  BY AvoidingIsReaching, ReachableStep
<1>2. Entry \in D
  BY ReachIsClosed, ReachableStep DEF ClosedAvoiding
<1>3. ASSUME NEW x \in D, NEW y \in Succs(succ, x) PROVE y \in D
  BY <1>1, <1>3, ReachableStep, ReachStep
<1>4. Reachable(succ) \subseteq D
  <2> HIDE DEF D
  <2>q. QED
    BY <1>1, <1>2, <1>3, ReachableIsLeast
<1>q. QED
  BY <1>4 DEF Dominates

\* What dominates every predecessor of a block dominates the block, and a block that
\* dominates all its predecessors is not reached: the entry has none to dominate.
LEMMA DominatesByPreds ==
  ASSUME NEW succ, IsSucc(succ), NEW y \in Block, y # Entry, NEW d,
         \A p \in Preds(succ, y) : Dominates(succ, d, p)
  PROVE  /\ Dominates(succ, d, y)
         /\ d = y => y \notin Reachable(succ)
<1> DEFINE D == ReachAvoiding(succ, {d})
<1>1. \A p \in D : y \notin Succs(succ, p)
  BY DEF Dominates, Preds, ReachAvoiding
<1>2. y \notin D
  <2>1. ClosedAvoiding(succ, {d}, D \ {y})
    BY <1>1, ReachIsClosed DEF ClosedAvoiding
  <2>2. D \ {y} \subseteq Block
    BY DEF ReachAvoiding
  <2>3. D \subseteq D \ {y}
    BY <2>1, <2>2, ReachIsLeast
  <2>q. QED
    BY <2>3
<1>3. ASSUME d = y PROVE y \notin Reachable(succ)
  <2>1. Entry \in D
    BY <1>3, ReachIsClosed DEF ClosedAvoiding
  <2>2. ASSUME NEW p \in D, NEW c \in Succs(succ, p) PROVE c \in D
    BY <1>1, <1>3, <2>2, ReachStep
  <2>3. D \subseteq Block
    BY DEF ReachAvoiding
  <2>4. Reachable(succ) \subseteq D
    <3> HIDE DEF D
    <3>q. QED
      BY <2>1, <2>2, <2>3, ReachableIsLeast
  <2>q. QED
    BY <1>2, <2>4
<1>q. QED
  BY <1>2, <1>3 DEF Dominates

\* The immediate dominator is the strict dominator that all others dominate.
LEMMA ImmediateIsUnique ==
  ASSUME NEW succ, IsSucc(succ), NEW b \in Reachable(succ), NEW d \in StrictDoms(succ, b),
         \A c \in StrictDoms(succ, b) : Dominates(succ, c, d)
  PROVE  ImmediateDom(succ, b) = d
<1> DEFINE D == ImmediateDom(succ, b)
<1>1. D \in StrictDoms(succ, b) /\ \A c \in StrictDoms(succ, b) : Dominates(succ, c, D)
  BY DEF ImmediateDom
<1>2. d \in Reachable(succ)
  BY DominatorIsReached DEF StrictDoms
<1> HIDE DEF D
<1>3. D = d
  BY <1>1, <1>2, DominatesAntisymmetric
<1>q. QED
  BY <1>3 DEF D

-----------------------------------------------------------------------------
(* The greatest of the numbers of a set of blocks.                         *)

\* The library's relation on Nat, with the operator it is given written out.
LessThan == {r \in Nat \X Nat : r[1] < r[2]}

LEMMA LessThanWellFounded == IsWellFoundedOn(LessThan, Nat)
BY NatLessThanWellFounded, Zenon DEF OpToRel, LessThan

LEMMA LeastNumber ==
  ASSUME NEW N, N \subseteq Nat, N # {}
  PROVE  \E n \in N : \A m \in N : n <= m
<1>1. PICK n \in N : \A m \in N : ~(<<m, n>> \in LessThan)
  BY WFMin, LessThanWellFounded
<1>2. ASSUME NEW m \in N PROVE n <= m
  <2>1. m \in Nat /\ n \in Nat /\ ~(m < n)
    BY <1>1, <1>2 DEF LessThan
  <2>q. QED
    BY <2>1
<1>q. QED
  BY <1>2

LEMMA GreatestNumber ==
  ASSUME NEW T, T # {}, NEW num, NEW bound \in Nat, \A b \in T : num[b] \in 0 .. bound
  PROVE  \E b \in T : \A c \in T : num[c] <= num[b]
<1> DEFINE N == {bound - num[b] : b \in T}
<1>1. N \subseteq Nat /\ N # {}
  OBVIOUS
<1>2. PICK n \in N : \A m \in N : n <= m
  <2> HIDE DEF N
  <2>q. QED
    BY <1>1, LeastNumber
<1>3. PICK b \in T : n = bound - num[b]
  BY <1>2
<1>4. ASSUME NEW c \in T PROVE num[c] <= num[b]
  BY <1>2, <1>3, n <= bound - num[c]
<1>q. QED
  BY <1>3, <1>4

-----------------------------------------------------------------------------
(* Functions with finitely many blocks: the dominators of a block are a     *)
(* chain from the entry down to the immediate dominator.                    *)

LEMMA DominatorsOrdered ==
  ASSUME NEW succ, IsSucc(succ), NEW b \in Reachable(succ), NEW d, NEW e,
         Dominates(succ, d, b), Dominates(succ, e, b)
  PROVE  Dominates(succ, d, e) \/ Dominates(succ, e, d)
<1> SUFFICES ASSUME ~Dominates(succ, d, e), ~Dominates(succ, e, d)
             PROVE  FALSE
  OBVIOUS
<1> DEFINE D == ReachAvoiding(succ, {d})
           E == ReachAvoiding(succ, {e})
<1>1. e \in D /\ d \in E /\ b \notin D /\ b \notin E
  BY DEF Dominates
<1>2. ClosedAvoiding(succ, {d}, D) /\ ClosedAvoiding(succ, {e}, E)
  BY ReachIsClosed
<1>3. D \cup E \subseteq Block
  BY DEF ReachAvoiding
<1> HIDE DEF D, E
<1>4. d # e
  BY <1>1, DominatesItself, <1>3 DEF Dominates, D, E
<1>5. Entry \in D \cup E
  BY <1>2, <1>4 DEF ClosedAvoiding
<1>6. ASSUME NEW c \in D \cup E PROVE Succs(succ, c) \subseteq D \cup E
  BY <1>1, <1>2 DEF ClosedAvoiding
<1>7. Reachable(succ) \subseteq D \cup E
  BY <1>3, <1>5, <1>6, ReachableIsLeast
<1>q. QED
  BY <1>1, <1>7

\* How many strict dominators a block has.
Depth(succ, b) == Cardinality(StrictDoms(succ, b))

LEMMA DepthIsBounded ==
  ASSUME NEW succ, IsFiniteSet(Block), NEW b
  PROVE  IsFiniteSet(StrictDoms(succ, b)) /\ Depth(succ, b) \in 0 .. Cardinality(Block)
<1>1. StrictDoms(succ, b) \in SUBSET Block
  BY DEF StrictDoms
<1>2. /\ IsFiniteSet(StrictDoms(succ, b))
      /\ Cardinality(StrictDoms(succ, b)) <= Cardinality(Block)
  BY <1>1, FS_Subset
<1>3. Cardinality(StrictDoms(succ, b)) \in Nat /\ Cardinality(Block) \in Nat
  BY <1>2, FS_CardinalityType
<1>q. QED
  BY <1>2, <1>3 DEF Depth

\* A block is deeper than what dominates it.
LEMMA DepthRises ==
  ASSUME NEW succ, IsSucc(succ), IsFiniteSet(Block), NEW b \in Reachable(succ),
         NEW d \in StrictDoms(succ, b)
  PROVE  Depth(succ, d) < Depth(succ, b)
<1>1. d \in Block /\ d # b /\ Dominates(succ, d, b) /\ b \in Block
  BY ReachableStep DEF StrictDoms
<1>2. d \in Reachable(succ)
  BY <1>1, DominatorIsReached
<1>3. ASSUME NEW c \in StrictDoms(succ, d) PROVE c \in StrictDoms(succ, b)
  <2>1. c \in Block /\ c # d /\ Dominates(succ, c, d)
    BY <1>3 DEF StrictDoms
  <2>2. Dominates(succ, c, b)
    BY <1>1, <2>1, DominatesTransitive
  <2>3. c # b
    BY <1>1, <1>2, <2>1, DominatesAntisymmetric
  <2>q. QED
    BY <2>1, <2>2, <2>3 DEF StrictDoms
<1>4. d \notin StrictDoms(succ, d)
  BY DEF StrictDoms
<1> DEFINE B == StrictDoms(succ, b)
           D == StrictDoms(succ, d)
<1>5. IsFiniteSet(B) /\ D \in SUBSET B /\ D # B
  BY <1>3, <1>4, DepthIsBounded
<1> HIDE DEF B, D
<1>6. Cardinality(D) <= Cardinality(B) /\ Cardinality(D) # Cardinality(B)
  BY <1>5, FS_Subset
<1>7. Cardinality(D) \in Nat /\ Cardinality(B) \in Nat
  BY <1>5, FS_Subset, FS_CardinalityType
<1>q. QED
  BY <1>6, <1>7 DEF Depth, B, D

LEMMA ImmediateExists ==
  ASSUME NEW succ, IsSucc(succ), IsFiniteSet(Block), NEW b \in Reachable(succ) \ {Entry}
  PROVE  /\ ImmediateDom(succ, b) \in StrictDoms(succ, b)
         /\ \A c \in StrictDoms(succ, b) : Dominates(succ, c, ImmediateDom(succ, b))
<1> DEFINE S == StrictDoms(succ, b)
           depth == [c \in S |-> Depth(succ, c)]
<1>1. Entry \in S
  BY EntryDominates DEF StrictDoms, IsSucc
<1>2. \A c \in S : depth[c] \in 0 .. Cardinality(Block)
  BY DepthIsBounded
<1>3. Cardinality(Block) \in Nat
  BY FS_CardinalityType
<1>4. PICK d \in S : \A c \in S : depth[c] <= depth[d]
  <2> HIDE DEF S, depth
  <2>q. QED
    BY <1>1, <1>2, <1>3, GreatestNumber
<1>5. ASSUME NEW c \in S PROVE Dominates(succ, c, d)
  <2>1. /\ c \in Block /\ Dominates(succ, c, b)
        /\ d \in Block /\ Dominates(succ, d, b)
    BY DEF StrictDoms
  <2>2. c \in Reachable(succ)
    BY <2>1, DominatorIsReached
  <2>3. CASE Dominates(succ, d, c) /\ c # d
    <3>1. d \in StrictDoms(succ, c)
      BY <2>1, <2>3 DEF StrictDoms
    <3>2. Depth(succ, d) < Depth(succ, c)
      BY <3>1, <2>2, DepthRises
    <3>3. depth[c] <= depth[d] /\ Depth(succ, c) \in Nat /\ Depth(succ, d) \in Nat
      BY <1>4, DepthIsBounded
    <3>q. QED
      BY <3>2, <3>3
  <2>4. CASE c = d
    BY <2>4, <2>1, DominatesItself
  <2>q. QED
    BY <2>1, <2>3, <2>4, DominatorsOrdered
<1>q. QED
  BY <1>5 DEF ImmediateDom

\* The strict dominators of a block are its immediate dominator and those of that.
LEMMA DominatorsOfChild ==
  ASSUME NEW succ, IsSucc(succ), IsFiniteSet(Block), NEW b \in Reachable(succ) \ {Entry},
         NEW d, ImmediateDom(succ, b) = d
  PROVE  /\ d \in Reachable(succ) /\ d # b
         /\ StrictDoms(succ, b) = StrictDoms(succ, d) \cup {d}
<1>1. d \in StrictDoms(succ, b) /\ \A c \in StrictDoms(succ, b) : Dominates(succ, c, d)
  BY ImmediateExists
<1>2. d \in Block /\ d # b /\ Dominates(succ, d, b)
  BY <1>1 DEF StrictDoms
<1>3. d \in Reachable(succ)
  BY <1>2, DominatorIsReached
<1>4. StrictDoms(succ, b) \subseteq StrictDoms(succ, d) \cup {d}
  BY <1>1 DEF StrictDoms
<1>5. ASSUME NEW c \in StrictDoms(succ, d) PROVE c \in StrictDoms(succ, b)
  <2>1. c \in Block /\ c # d /\ Dominates(succ, c, d)
    BY <1>5 DEF StrictDoms
  <2>2. Dominates(succ, c, b)
    BY <1>2, <2>1, DominatesTransitive
  <2>3. c # b
    BY <1>2, <1>3, <2>1, DominatesAntisymmetric
  <2>q. QED
    BY <2>1, <2>2, <2>3 DEF StrictDoms
<1>q. QED
  BY <1>1, <1>2, <1>3, <1>4, <1>5

\* Below a block, everything is below one of its children in the tree.
LEMMA ChildAbove ==
  ASSUME NEW succ, IsSucc(succ), IsFiniteSet(Block), NEW b \in Reachable(succ),
         NEW d \in StrictDoms(succ, b)
  PROVE  \E k \in Reachable(succ) \ {Entry} : ImmediateDom(succ, k) = d /\ Dominates(succ, k, b)
<1> DEFINE T == {k \in Reachable(succ) : d \in StrictDoms(succ, k) /\ Dominates(succ, k, b)}
           bound == Cardinality(Block)
           height == [k \in T |-> bound - Depth(succ, k)]
<1>1. b \in T
  BY DominatesItself, ReachableStep
<1>2. bound \in Nat
  BY FS_CardinalityType
<1>3. \A k \in T : height[k] \in 0 .. bound
  BY <1>2, DepthIsBounded
<1>4. PICK k \in T : \A c \in T : height[c] <= height[k]
  <2> HIDE DEF T, height, bound
  <2>q. QED
    BY <1>1, <1>2, <1>3, GreatestNumber
<1>5. k \in Reachable(succ) /\ d \in StrictDoms(succ, k) /\ Dominates(succ, k, b)
  OBVIOUS
<1>6. k # Entry
  BY <1>5, EntryDominates DEF StrictDoms
<1> DEFINE i == ImmediateDom(succ, k)
<1>7. i \in StrictDoms(succ, k) /\ Dominates(succ, d, i)
  BY <1>5, <1>6, ImmediateExists
<1>8. i \in Block /\ Dominates(succ, i, k)
  BY <1>7 DEF StrictDoms
<1>9. i \in Reachable(succ)
  BY <1>5, <1>8, DominatorIsReached
<1>10. Dominates(succ, i, b)
  BY <1>5, <1>8, DominatesTransitive
<1> HIDE DEF i
<1>11. ASSUME i # d PROVE FALSE
  <2>1. i \in T
    BY <1>5, <1>7, <1>9, <1>10, <1>11 DEF StrictDoms
  <2>2. Depth(succ, i) < Depth(succ, k)
    BY <1>5, <1>7, DepthRises
  <2>3. Depth(succ, i) \in Nat /\ Depth(succ, k) \in Nat
    BY DepthIsBounded
  <2>4. height[i] <= height[k]
    BY <1>4, <2>1
  <2>5. bound - Depth(succ, i) <= bound - Depth(succ, k)
    BY <2>1, <2>4
  <2> HIDE DEF bound
  <2>q. QED
    BY <1>2, <2>2, <2>3, <2>5
<1>q. QED
  BY <1>5, <1>6, <1>11 DEF i
=============================================================================
