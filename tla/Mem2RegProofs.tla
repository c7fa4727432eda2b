--------------------------- MODULE Mem2RegProofs ----------------------------
(* The pass Mem2Reg, for every function whose variables are stored in the    *)
(* entry block first: the stacks serve, nothing of the variables is left,    *)
(* and no path through the function can tell the difference.                 *)
EXTENDS Mem2Reg, DominanceProofs, SequenceTheorems

-----------------------------------------------------------------------------
(* Places in a function and the values of a variable there.  A place is a    *)
(* block and a position; a phi is at position 0, the end of a block behind   *)
(* its last instruction.                                                     *)

Placed(p) == UNION {{b} \X DOMAIN p.code[b] : b \in Block}

\* Where v gets a value, if ph are the phis.
Defs(p, ph, v) == ({b \in Block : v \in ph[b]} \X {0})
                  \cup {i \in Placed(p) : /\ p.code[i[1]][i[2]].op = "store"
                                          /\ p.code[i[1]][i[2]].var = v}

DefsAbove(p, ph, i, v) == {s \in Defs(p, ph, v) : Above(p, s, i)}

\* The last of them before i, whatever path is taken.
Latest(p, ph, i, v) ==
  CHOOSE s \in DefsAbove(p, ph, i, v) :
    \A t \in DefsAbove(p, ph, i, v) : t = s \/ Above(p, t, s)

\* What it stores, if o are the operands of the function.
ValueOf(o, s, v) == IF s[2] = 0 THEN <<"phi", s[1], v>> ELSE o[s[1]][s[2]]

Newest(p, ph, o, i, v) == ValueOf(o, Latest(p, ph, i, v), v)

EndOf(p, b) == <<b, Len(p.code[b]) + 1>>

\* How many values v has got before i.
Height(p, ph, i, v) == Cardinality(DefsAbove(p, ph, i, v))

Places(p) == Reachable(p.succ) \X Nat

-----------------------------------------------------------------------------
(* Places above a place are in order.                                        *)

LEMMA Code ==
  ASSUME NEW p, IsProgram(p)
  PROVE  /\ IsSucc(p.succ)
         /\ \A b \in Block : /\ Len(p.code[b]) \in Nat
                             /\ DOMAIN p.code[b] = 1 .. Len(p.code[b])
                             /\ \A n \in 1 .. Len(p.code[b]) :
                                  /\ p.code[b][n].op \in {"load", "store", "out"}
                                  /\ p.code[b][n].op # "out" => p.code[b][n].var \in Var
         /\ Placed(p) \subseteq Block \X Nat
         /\ \A b \in Block : \A n \in 1 .. Len(p.code[b]) : <<b, n>> \in Placed(p)
         /\ \A i \in Placed(p) : i = <<i[1], i[2]>> /\ i[1] \in Block /\ i[2] \in 1 .. Len(p.code[i[1]])
<1>1. IsSucc(p.succ)
  BY BlockAssumption DEF IsProgram, IsSucc
<1>2. ASSUME NEW b \in Block
      PROVE  /\ Len(p.code[b]) \in Nat
             /\ DOMAIN p.code[b] = 1 .. Len(p.code[b])
             /\ \A n \in 1 .. Len(p.code[b]) :
                  /\ p.code[b][n].op \in {"load", "store", "out"}
                  /\ p.code[b][n].op # "out" => p.code[b][n].var \in Var
  <2> DEFINE R == [op : {"load", "store", "out"}, var : Var \cup {NoVar},
                   arg : ({"const"} \X Const) \cup ({"load"} \X Block \X Nat) \cup {NoVar}]
  <2>1. p.code[b] \in Seq(R)
    BY DEF IsProgram
  <2> HIDE DEF R
  <2>2. /\ Len(p.code[b]) \in Nat
        /\ DOMAIN p.code[b] = 1 .. Len(p.code[b])
        /\ \A n \in 1 .. Len(p.code[b]) : p.code[b][n] \in R
    BY <2>1, LenProperties, ElementOfSeq
  <2>3. \A n \in DOMAIN p.code[b] : p.code[b][n].op # "out" => p.code[b][n].var \in Var
    BY DEF IsProgram
  <2>q. QED
    BY <2>2, <2>3 DEF R
<1>q. QED
  BY <1>1, <1>2 DEF Placed

LEMMA DefsArePlaces ==
  ASSUME NEW p, IsProgram(p), NEW ph, NEW v, NEW s \in Defs(p, ph, v)
  PROVE  s = <<s[1], s[2]>> /\ s[1] \in Block /\ s[2] \in 0 .. Len(p.code[s[1]])
BY Code DEF Defs

LEMMA AboveIsReached ==
  ASSUME NEW p, IsProgram(p), NEW i \in Places(p), NEW s \in Block \X Nat, Above(p, s, i)
  PROVE  s \in Places(p)
<1>1. IsSucc(p.succ)
  BY Code
<1>2. i[1] \in Reachable(p.succ)
  BY DEF Places
<1>3. s[1] \in Reachable(p.succ)
  BY <1>1, <1>2, DominatorIsReached DEF Above
<1>q. QED
  BY <1>3 DEF Places

LEMMA AboveTransitive ==
  ASSUME NEW p, IsProgram(p), NEW i \in Places(p), NEW j \in Places(p), NEW k \in Places(p),
         Above(p, i, j), Above(p, j, k)
  PROVE  Above(p, i, k)
<1>1. IsSucc(p.succ)
  BY Code
<1>2. /\ i[1] \in Reachable(p.succ) /\ j[1] \in Reachable(p.succ) /\ k[1] \in Reachable(p.succ)
      /\ i[2] \in Nat /\ j[2] \in Nat /\ k[2] \in Nat
  BY DEF Places
<1>3. CASE i[1] = j[1] \/ j[1] = k[1]
  BY <1>2, <1>3 DEF Above
<1>4. CASE i[1] # j[1] /\ j[1] # k[1]
  <2>1. Dominates(p.succ, i[1], j[1]) /\ Dominates(p.succ, j[1], k[1])
    BY <1>4 DEF Above
  <2>2. Dominates(p.succ, i[1], k[1])
    BY <1>1, <2>1, DominatesTransitive
  <2>3. i[1] # k[1]
    BY <1>1, <1>2, <1>4, <2>1, DominatesAntisymmetric
  <2>q. QED
    BY <2>2, <2>3 DEF Above
<1>q. QED
  BY <1>3, <1>4

LEMMA AboveIrreflexive ==
  ASSUME NEW p, NEW i \in Places(p)
  PROVE  ~Above(p, i, i)
BY DEF Above, Places

LEMMA AboveTotal ==
  ASSUME NEW p, IsProgram(p), NEW i \in Places(p), NEW j \in Places(p), NEW k \in Places(p),
         Above(p, i, k), Above(p, j, k)
  PROVE  i = j \/ Above(p, i, j) \/ Above(p, j, i)
<1>1. IsSucc(p.succ)
  BY Code
<1>2. /\ i[1] \in Reachable(p.succ) /\ j[1] \in Reachable(p.succ) /\ k[1] \in Reachable(p.succ)
      /\ i[2] \in Nat /\ j[2] \in Nat /\ k[2] \in Nat
      /\ i = <<i[1], i[2]>> /\ j = <<j[1], j[2]>>
  BY DEF Places
<1>3. CASE i[1] = j[1]
  BY <1>2, <1>3 DEF Above
<1>4. CASE i[1] # j[1]
  <2>1. i[1] \in Block /\ j[1] \in Block /\ k[1] \in Block
    BY <1>1, <1>2, ReachableStep
  <2>2. Dominates(p.succ, i[1], k[1]) /\ Dominates(p.succ, j[1], k[1])
    BY <1>1, <2>1, DominatesItself DEF Above
  <2>3. Dominates(p.succ, i[1], j[1]) \/ Dominates(p.succ, j[1], i[1])
    BY <1>1, <1>2, <2>2, DominatorsOrdered
  <2>q. QED
    BY <1>4, <2>3 DEF Above
<1>q. QED
  BY <1>3, <1>4

-----------------------------------------------------------------------------
(* How many definitions are above a place, and which is the latest.          *)

LEMMA DefsAreFinite ==
  ASSUME NEW p, IsProgram(p), NEW ph, NEW v
  PROVE  IsFiniteSet(Defs(p, ph, v))
<1> DEFINE All(b) == {b} \X (0 .. Len(p.code[b]))
           f == [b \in Block |-> All(b)]
           F == {f[b] : b \in Block}
<1>1. f \in Surjection(Block, F)
  BY DEF Surjection
<1>2. IsFiniteSet(F)
  <2> HIDE DEF f, F
  <2>q. QED
    BY <1>1, BlockAssumption, FS_Surjection
<1>3. ASSUME NEW b \in Block PROVE IsFiniteSet(f[b])
  <2>1. Len(p.code[b]) \in Int
    BY Code
  <2>2. IsFiniteSet(0 .. Len(p.code[b])) /\ IsFiniteSet({b})
    BY <2>1, FS_Interval, FS_Singleton
  <2>q. QED
    BY <2>2, FS_Product
<1>4. IsFiniteSet(UNION F)
  <2>1. \A T \in F : IsFiniteSet(T)
    BY <1>3
  <2> HIDE DEF f, F
  <2>q. QED
    BY <2>1, <1>2, FS_UNION
<1>5. ASSUME NEW s \in Defs(p, ph, v) PROVE s \in UNION F
  <2>1. s \in f[s[1]] /\ s[1] \in Block
    BY DefsArePlaces
  <2>q. QED
    BY <2>1
<1>6. Defs(p, ph, v) \in SUBSET UNION F
  BY <1>5
<1> HIDE DEF F
<1>q. QED
  BY <1>4, <1>6, FS_Subset

LEMMA HeightType ==
  ASSUME NEW p, IsProgram(p), NEW ph, NEW v, NEW i
  PROVE  /\ IsFiniteSet(DefsAbove(p, ph, i, v))
         /\ Height(p, ph, i, v) \in 0 .. Cardinality(Defs(p, ph, v))
         /\ Cardinality(Defs(p, ph, v)) \in Nat
         /\ Height(p, ph, i, v) \in Nat
<1>1. DefsAbove(p, ph, i, v) \in SUBSET Defs(p, ph, v)
  BY DEF DefsAbove
<1>2. IsFiniteSet(Defs(p, ph, v))
  BY DefsAreFinite
<1>3. /\ IsFiniteSet(DefsAbove(p, ph, i, v))
      /\ Cardinality(DefsAbove(p, ph, i, v)) <= Cardinality(Defs(p, ph, v))
  BY <1>1, <1>2, FS_Subset
<1>4. Cardinality(DefsAbove(p, ph, i, v)) \in Nat /\ Cardinality(Defs(p, ph, v)) \in Nat
  BY <1>2, <1>3, FS_CardinalityType
<1>q. QED
  BY <1>3, <1>4 DEF Height

\* A definition above i has fewer above it than i has.
LEMMA HeightRises ==
  ASSUME NEW p, IsProgram(p), NEW ph, NEW v, NEW i \in Places(p), NEW s \in DefsAbove(p, ph, i, v)
  PROVE  /\ s \in Places(p)
         /\ Height(p, ph, s, v) < Height(p, ph, i, v)
<1>1. s \in Defs(p, ph, v) /\ Above(p, s, i)
  BY DEF DefsAbove
<1>2. s \in Places(p)
  <2>1. s = <<s[1], s[2]>> /\ s[1] \in Block /\ s[2] \in 0 .. Len(p.code[s[1]])
    BY <1>1, DefsArePlaces
  <2>2. Len(p.code[s[1]]) \in Nat
    BY <2>1, Code
  <2>3. s \in Block \X Nat
    BY <2>1, <2>2
  <2>q. QED
    BY <1>1, <2>3, AboveIsReached
<1>3. ASSUME NEW t \in DefsAbove(p, ph, s, v) PROVE t \in DefsAbove(p, ph, i, v)
  <2>1. t \in Defs(p, ph, v) /\ Above(p, t, s)
    BY DEF DefsAbove
  <2>2. t \in Block \X Nat
    <3>1. t = <<t[1], t[2]>> /\ t[1] \in Block /\ t[2] \in 0 .. Len(p.code[t[1]])
      BY <2>1, DefsArePlaces
    <3>2. Len(p.code[t[1]]) \in Nat
      BY <3>1, Code
    <3>q. QED
      BY <3>1, <3>2
  <2>3. t \in Places(p)
    BY <1>2, <2>1, <2>2, AboveIsReached
  <2>4. Above(p, t, i)
    BY <1>1, <1>2, <2>1, <2>3, AboveTransitive
  <2>q. QED
    BY <2>1, <2>4 DEF DefsAbove
<1>4. s \notin DefsAbove(p, ph, s, v)
  BY <1>2, AboveIrreflexive DEF DefsAbove
<1> DEFINE S == DefsAbove(p, ph, s, v)
           I == DefsAbove(p, ph, i, v)
<1>5. IsFiniteSet(I) /\ IsFiniteSet(S)
  BY HeightType
<1>6. S \in SUBSET I /\ S # I
  BY <1>3, <1>4
<1> HIDE DEF S, I
<1>7. Cardinality(S) <= Cardinality(I) /\ Cardinality(S) # Cardinality(I)
  BY <1>5, <1>6, FS_Subset
<1>8. Cardinality(S) \in Nat /\ Cardinality(I) \in Nat
  BY <1>5, FS_CardinalityType
<1>9. Cardinality(S) < Cardinality(I)
  BY <1>7, <1>8
<1>q. QED
  BY <1>2, <1>9 DEF Height, S, I

LEMMA LatestExists ==
  ASSUME NEW p, IsProgram(p), NEW ph, NEW v, NEW i \in Places(p), DefsAbove(p, ph, i, v) # {}
  PROVE  /\ Latest(p, ph, i, v) \in DefsAbove(p, ph, i, v)
         /\ \A t \in DefsAbove(p, ph, i, v) :
              t = Latest(p, ph, i, v) \/ Above(p, t, Latest(p, ph, i, v))
<1> DEFINE T == DefsAbove(p, ph, i, v)
           num == [s \in T |-> Height(p, ph, s, v)]
           bound == Cardinality(Defs(p, ph, v))
<1>1. bound \in Nat /\ \A s \in T : num[s] \in 0 .. bound
  BY HeightType
<1>2. PICK s \in T : \A t \in T : num[t] <= num[s]
  <2> HIDE DEF T, num, bound
  <2>q. QED
    BY <1>1, GreatestNumber DEF T
<1>3. ASSUME NEW t \in T PROVE t = s \/ Above(p, t, s)
  <2>1. s \in Places(p) /\ t \in Places(p)
    BY HeightRises
  <2>2. Above(p, s, i) /\ Above(p, t, i) /\ s \in Defs(p, ph, v)
    BY DEF DefsAbove
  <2>3. ASSUME Above(p, s, t) PROVE FALSE
    <3>1. s \in DefsAbove(p, ph, t, v)
      BY <2>2, <2>3 DEF DefsAbove
    <3>2. Height(p, ph, s, v) < Height(p, ph, t, v)
      BY <2>1, <3>1, HeightRises
    <3>3. Height(p, ph, t, v) <= Height(p, ph, s, v)
      BY <1>2
    <3>4. Height(p, ph, t, v) \in Nat /\ Height(p, ph, s, v) \in Nat
      BY HeightType
    <3>q. QED
      BY <3>2, <3>3, <3>4
  <2>q. QED
    BY <2>1, <2>2, <2>3, AboveTotal
<1>q. QED
  BY <1>2, <1>3 DEF Latest

LEMMA LatestIsUnique ==
  ASSUME NEW p, IsProgram(p), NEW ph, NEW v, NEW i \in Places(p), NEW s \in DefsAbove(p, ph, i, v),
         \A t \in DefsAbove(p, ph, i, v) : t = s \/ Above(p, t, s)
  PROVE  Latest(p, ph, i, v) = s
<1> DEFINE l == Latest(p, ph, i, v)
<1>1. l \in DefsAbove(p, ph, i, v) /\ (s = l \/ Above(p, s, l))
  BY LatestExists
<1>2. l \in Places(p) /\ s \in Places(p)
  BY <1>1, HeightRises
<1>3. l = s \/ Above(p, l, s)
  BY <1>1
<1> HIDE DEF l
<1>4. l = s
  BY <1>1, <1>2, <1>3, AboveTransitive, AboveIrreflexive
<1>q. QED
  BY <1>4 DEF l

-----------------------------------------------------------------------------
(* Definitions above the places next to each other.                          *)

LEMMA NextPlace ==
  ASSUME NEW p, IsProgram(p), NEW ph, NEW v, NEW b \in Block, NEW n \in Nat
  PROVE  /\ <<b, n>> \in Defs(p, ph, v) =>
              /\ DefsAbove(p, ph, <<b, n + 1>>, v) = DefsAbove(p, ph, <<b, n>>, v) \cup {<<b, n>>}
              /\ Height(p, ph, <<b, n + 1>>, v) = Height(p, ph, <<b, n>>, v) + 1
         /\ <<b, n>> \notin Defs(p, ph, v) =>
              DefsAbove(p, ph, <<b, n + 1>>, v) = DefsAbove(p, ph, <<b, n>>, v)
<1> DEFINE i == <<b, n>>
           j == <<b, n + 1>>
<1>1. ASSUME NEW s \in Defs(p, ph, v)
      PROVE  Above(p, s, j) <=> Above(p, s, i) \/ s = i
  <2>1. s = <<s[1], s[2]>> /\ s[1] \in Block /\ s[2] \in 0 .. Len(p.code[s[1]])
    BY DefsArePlaces
  <2>2. Len(p.code[s[1]]) \in Nat
    BY <2>1, Code
  <2>3. s[2] \in Nat
    BY <2>1, <2>2
  <2>4. CASE s[1] = b
    BY <2>1, <2>3, <2>4 DEF Above
  <2>5. CASE s[1] # b
    BY <2>1, <2>5 DEF Above
  <2>q. QED
    BY <2>4, <2>5
<1>2. ~Above(p, i, i)
  BY DEF Above
<1> HIDE DEF i, j
<1>3. ASSUME i \in Defs(p, ph, v)
      PROVE  /\ DefsAbove(p, ph, j, v) = DefsAbove(p, ph, i, v) \cup {i}
             /\ Height(p, ph, j, v) = Height(p, ph, i, v) + 1
  <2>1. DefsAbove(p, ph, j, v) = DefsAbove(p, ph, i, v) \cup {i}
    BY <1>1, <1>3 DEF DefsAbove
  <2>2. IsFiniteSet(DefsAbove(p, ph, i, v)) /\ i \notin DefsAbove(p, ph, i, v)
    BY <1>2, HeightType DEF DefsAbove
  <2>q. QED
    BY <2>1, <2>2, FS_AddElement DEF Height
<1>4. ASSUME i \notin Defs(p, ph, v)
      PROVE  DefsAbove(p, ph, j, v) = DefsAbove(p, ph, i, v)
  BY <1>1, <1>4 DEF DefsAbove
<1>q. QED
  BY <1>3, <1>4 DEF i, j

LEMMA HeadOfEntry ==
  ASSUME NEW p, IsProgram(p), NEW ph, NEW v
  PROVE  DefsAbove(p, ph, <<Entry, 0>>, v) = {}
<1> SUFFICES ASSUME NEW s \in DefsAbove(p, ph, <<Entry, 0>>, v) PROVE FALSE
  OBVIOUS
<1>1. s \in Defs(p, ph, v) /\ Above(p, s, <<Entry, 0>>)
  BY DEF DefsAbove
<1>2. s[1] \in Block /\ s[2] \in 0 .. Len(p.code[s[1]])
  BY <1>1, DefsArePlaces
<1>3. Len(p.code[s[1]]) \in Nat
  BY <1>2, Code
<1>4. CASE s[1] = Entry
  BY <1>1, <1>2, <1>3, <1>4 DEF Above
<1>5. CASE s[1] # Entry
  BY <1>1, <1>5, Code, EntryDominates DEF Above
<1>q. QED
  BY <1>4, <1>5

\* What is above the end of b.
LEMMA AboveEnd ==
  ASSUME NEW p, IsProgram(p), NEW b \in Block, NEW s \in Block \X Nat, s[2] <= Len(p.code[s[1]])
  PROVE  Above(p, s, EndOf(p, b)) <=> Dominates(p.succ, s[1], b)
<1>1. IsSucc(p.succ) /\ Len(p.code[b]) \in Nat
  BY Code
<1>2. Dominates(p.succ, b, b)
  BY <1>1, DominatesItself
<1>q. QED
  BY <1>1, <1>2 DEF Above, EndOf

LEMMA DefsAboveEnd ==
  ASSUME NEW p, IsProgram(p), NEW ph, NEW v, NEW b \in Block
  PROVE  \A s \in Defs(p, ph, v) :
           /\ s \in Block \X Nat /\ s[2] <= Len(p.code[s[1]])
           /\ s \in DefsAbove(p, ph, EndOf(p, b), v) <=> Dominates(p.succ, s[1], b)
<1> SUFFICES ASSUME NEW s \in Defs(p, ph, v)
             PROVE  /\ s \in Block \X Nat /\ s[2] <= Len(p.code[s[1]])
                    /\ s \in DefsAbove(p, ph, EndOf(p, b), v) <=> Dominates(p.succ, s[1], b)
  OBVIOUS
<1>1. s = <<s[1], s[2]>> /\ s[1] \in Block /\ s[2] \in 0 .. Len(p.code[s[1]])
  BY DefsArePlaces
<1>2. Len(p.code[s[1]]) \in Nat
  BY <1>1, Code
<1>3. s \in Block \X Nat /\ s[2] <= Len(p.code[s[1]])
  BY <1>1, <1>2
<1>4. Above(p, s, EndOf(p, b)) <=> Dominates(p.succ, s[1], b)
  BY <1>3, AboveEnd
<1>q. QED
  BY <1>3, <1>4 DEF DefsAbove

LEMMA HeadOfChild ==
  ASSUME NEW p, IsProgram(p), NEW ph, NEW v, NEW b \in Reachable(p.succ) \ {Entry},
         NEW d, ImmediateDom(p.succ, b) = d
  PROVE  DefsAbove(p, ph, <<b, 0>>, v) = DefsAbove(p, ph, EndOf(p, d), v)
<1>1. IsSucc(p.succ)
  BY Code
<1>2. d \in Reachable(p.succ) /\ d # b /\ StrictDoms(p.succ, b) = StrictDoms(p.succ, d) \cup {d}
  BY <1>1, BlockAssumption, DominatorsOfChild
<1>3. d \in Block
  BY <1>1, <1>2, ReachableStep
<1>4. Dominates(p.succ, d, d)
  BY <1>1, <1>3, DominatesItself
<1>5. ASSUME NEW s \in Defs(p, ph, v)
      PROVE  Above(p, s, <<b, 0>>) <=> Dominates(p.succ, s[1], d)
  <2>1. s \in Block \X Nat
    BY <1>3, <1>5, DefsAboveEnd
  <2>2. Above(p, s, <<b, 0>>) <=> s[1] \in StrictDoms(p.succ, b)
    BY <2>1 DEF Above, StrictDoms
  <2>3. s[1] \in StrictDoms(p.succ, b) <=> Dominates(p.succ, s[1], d)
    <3>1. b \notin StrictDoms(p.succ, b)
      BY DEF StrictDoms
    <3>2. s[1] \in StrictDoms(p.succ, d) \cup {d} <=> Dominates(p.succ, s[1], d)
      BY <1>4, <2>1 DEF StrictDoms
    <3>q. QED
      BY <1>2, <3>2
  <2>q. QED
    BY <2>2, <2>3
<1>q. QED
  BY <1>3, <1>5, DefsAboveEnd DEF DefsAbove

\* The phis are closed under dominance frontiers.
ClosedPhis(p, ph, v) ==
  \A b \in Reachable(p.succ) :
    (\E n \in Nat : <<b, n>> \in Defs(p, ph, v)) => \A y \in Frontier(p.succ, b) : v \in ph[y]

\* Behind an edge to a block without a phi, v has the value it had before.
LEMMA HeadWithoutPhi ==
  ASSUME NEW p, IsProgram(p), NEW ph, NEW v, ClosedPhis(p, ph, v),
         NEW b \in Reachable(p.succ), NEW y \in Succs(p.succ, b), v \notin ph[y]
  PROVE  DefsAbove(p, ph, <<y, 1>>, v) = DefsAbove(p, ph, EndOf(p, b), v)
<1>1. IsSucc(p.succ)
  BY Code
<1>2. b \in Block /\ y \in Reachable(p.succ) /\ y \in Block
  BY <1>1, ReachableStep
<1>3. ASSUME NEW s \in Defs(p, ph, v), Above(p, s, <<y, 1>>)
      PROVE  Dominates(p.succ, s[1], b)
  <2>1. s[1] # y
    <3> SUFFICES ASSUME s[1] = y PROVE FALSE
      OBVIOUS
    <3>1. s \in Block \X Nat
      BY <1>2, DefsAboveEnd
    <3>2. s[2] = 0
      BY <1>3, <3>1 DEF Above
    <3>3. s \notin Placed(p)
      BY <3>2, Code
    <3>q. QED
      BY <3>3 DEF Defs
  <2>2. Dominates(p.succ, s[1], y)
    BY <1>3, <2>1 DEF Above
  <2>q. QED
    BY <1>1, <1>2, <2>1, <2>2, DominatesPred
<1>4. ASSUME NEW s \in Defs(p, ph, v), Dominates(p.succ, s[1], b)
      PROVE  Above(p, s, <<y, 1>>)
  <2>1. s \in Block \X Nat
    BY <1>2, DefsAboveEnd
  <2>2. s[1] \in Reachable(p.succ)
    BY <1>1, <1>4, DominatorIsReached
  <2>3. y \notin Frontier(p.succ, s[1])
    <3>1. s = <<s[1], s[2]>> /\ s[2] \in Nat
      BY <2>1
    <3>q. QED
      BY <2>2, <3>1 DEF ClosedPhis
  <2>4. b \in Preds(p.succ, y)
    BY <1>2 DEF Preds
  <2>5. s[1] \in StrictDoms(p.succ, y)
    BY <1>2, <1>4, <2>3, <2>4 DEF Frontier
  <2>q. QED
    BY <2>5 DEF Above, StrictDoms
<1>q. QED
  BY <1>2, <1>3, <1>4, DefsAboveEnd DEF DefsAbove

-----------------------------------------------------------------------------
(* Types.                                                                    *)

ValuesOf(p) == ({"const"} \X Const) \cup {<<"load", i[1], i[2]>> : i \in Placed(p)}
               \cup ({"phi"} \X Block \X Var) \cup {Garbage, NoVar}

CallsOf(p) == [block : Block, step : {"phis", "instr", "kids"}, pos : Nat, kids : SUBSET Block,
               wait_delete : SUBSET Placed(p)]

TypeInv ==
  /\ prog \in Programs
  /\ phase \in {"run", "phi", "rename", "assert_failed", "done"}
  /\ df \in [Block -> SUBSET Block] /\ tree \in [Block -> SUBSET Block]
  /\ todo \subseteq Var /\ work \in [var : Var \cup {NoVar}, list : SUBSET Block]
  /\ work.list # {} => work.var \in Var
  /\ phis \in [Block -> SUBSET Var]
  /\ args \in [Block -> [Var -> Seq(Block \X ValuesOf(prog))]]
  /\ operand \in [Block -> Seq(ValuesOf(prog))]
  /\ \A b \in Block : Len(operand[b]) = Len(prog.code[b])
  /\ erased \subseteq Placed(prog) /\ keys \subseteq Var
  /\ stacks \in [Var -> Seq(ValuesOf(prog))]
  /\ calls \in Seq(CallsOf(prog))
  /\ \A m \in 1 .. Len(calls) : calls[m].pos \in 1 .. Len(prog.code[calls[m].block]) + 1

\* The code in terms of places.
LEMMA SameNames ==
  /\ Instrs = Placed(prog)
  /\ Values = ValuesOf(prog)
  /\ \A v : Sites(v) = Defs(prog, phis, v)
<1>1. Instrs = Placed(prog)
  BY DEF Instrs, Placed
<1>2. Values = ValuesOf(prog)
  BY <1>1 DEF Values, ValuesOf
<1>q. QED
  BY <1>1, <1>2 DEF Sites, Defs, At

LEMMA TypesAreRight == TypeInv => TypeOK
<1> SUFFICES ASSUME TypeInv PROVE TypeOK
  OBVIOUS
<1>1. IsProgram(prog)
  BY ProgramsAssumption DEF TypeInv
<1>2. ASSUME NEW b \in Block, NEW v \in Var
      PROVE  Range(args[b][v]) \subseteq Block \X ValuesOf(prog)
  <2>1. args[b][v] \in Seq(Block \X ValuesOf(prog))
    BY DEF TypeInv
  <2>q. QED
    BY <2>1 DEF Range
<1>3. ASSUME NEW v \in Var PROVE Range(stacks[v]) \subseteq ValuesOf(prog)
  <2>1. stacks[v] \in Seq(ValuesOf(prog))
    BY DEF TypeInv
  <2>q. QED
    BY <2>1 DEF Range
<1>4. ASSUME NEW i \in Placed(prog) PROVE operand[i[1]][i[2]] \in ValuesOf(prog)
  <2>1. i[1] \in Block /\ i[2] \in 1 .. Len(prog.code[i[1]])
    BY <1>1, Code
  <2>2. operand[i[1]] \in Seq(ValuesOf(prog)) /\ i[2] \in 1 .. Len(operand[i[1]])
    BY <2>1 DEF TypeInv
  <2>q. QED
    BY <2>2, ElementOfSeq
<1>5. ASSUME NEW c \in Range(calls) PROVE c.pos \in 1 .. Len(prog.code[c.block]) + 1
  <2>1. PICK m \in DOMAIN calls : c = calls[m]
    BY DEF Range
  <2>2. DOMAIN calls = 1 .. Len(calls)
    BY DEF TypeInv
  <2>q. QED
    BY <2>1, <2>2 DEF TypeInv
<1>q. QED
  BY <1>2, <1>3, <1>4, <1>5, SameNames DEF TypeOK, TypeInv

LEMMA InitialOperands ==
  ASSUME NEW p, IsProgram(p)
  PROVE  [b \in Block |-> [n \in 1 .. Len(p.code[b]) |-> p.code[b][n].arg]] \in [Block -> Seq(ValuesOf(p))]
<1> SUFFICES ASSUME NEW b \in Block
             PROVE  [n \in 1 .. Len(p.code[b]) |-> p.code[b][n].arg] \in Seq(ValuesOf(p))
  OBVIOUS
<1>1. Len(p.code[b]) \in Nat /\ DOMAIN p.code[b] = 1 .. Len(p.code[b])
  BY Code
<1>2. ASSUME NEW n \in 1 .. Len(p.code[b]) PROVE p.code[b][n].arg \in ValuesOf(p)
  <2> DEFINE a == p.code[b][n].arg
             A == ({"const"} \X Const) \cup ({"load"} \X Block \X Nat) \cup {NoVar}
             R == [op : {"load", "store", "out"}, var : Var \cup {NoVar}, arg : A]
  <2>1. a \in A
    <3>1. p.code[b] \in Seq(R)
      BY DEF IsProgram
    <3> HIDE DEF R
    <3>2. p.code[b][n] \in R
      BY <3>1, ElementOfSeq
    <3>q. QED
      BY <3>2 DEF R
  <2>2. CASE a[1] = "load"
    <3>1. a[3] \in DOMAIN p.code[a[2]]
      BY <1>1, <2>2 DEF IsProgram
    <3>2. a \in {"load"} \X Block \X Nat
      BY <2>1, <2>2 DEF NoVar
    <3>3. <<a[2], a[3]>> \in Placed(p) /\ a = <<"load", a[2], a[3]>>
      BY <3>1, <3>2 DEF Placed
    <3> DEFINE i == <<a[2], a[3]>>
    <3>4. i \in Placed(p) /\ a = <<"load", i[1], i[2]>>
      BY <3>3
    <3> HIDE DEF a, i
    <3>5. a \in ValuesOf(p)
      BY <3>4 DEF ValuesOf
    <3>q. QED
      BY <3>5 DEF a
  <2>3. CASE a[1] # "load"
    <3>1. a \in ({"const"} \X Const) \cup {NoVar}
      BY <2>1, <2>3
    <3>q. QED
      BY <3>1 DEF ValuesOf
  <2>q. QED
    BY <2>2, <2>3
<1>q. QED
  BY <1>1, <1>2, IsASeq

LEMMA TypeInit == Init => TypeInv
<1> SUFFICES ASSUME Init PROVE TypeInv
  OBVIOUS
<1>1. prog \in Programs /\ IsProgram(prog)
  BY ProgramsAssumption DEF Init
<1>2. operand \in [Block -> Seq(ValuesOf(prog))]
  BY <1>1, InitialOperands DEF Init
<1>3. ASSUME NEW b \in Block PROVE Len(operand[b]) = Len(prog.code[b])
  BY <1>1, Code DEF Init
<1>4. args \in [Block -> [Var -> Seq(Block \X ValuesOf(prog))]] /\ stacks \in [Var -> Seq(ValuesOf(prog))]
  BY DEF Init
<1>5. calls \in Seq(CallsOf(prog)) /\ Len(calls) = 0
  BY DEF Init
<1>q. QED
  BY <1>1, <1>2, <1>3, <1>4, <1>5 DEF Init, TypeInv

\* The call on top.
LEMMA TheTop ==
  ASSUME TypeInv, calls # <<>>
  PROVE  /\ Len(calls) \in Nat \ {0}
         /\ Top = calls[Len(calls)] /\ Top \in CallsOf(prog)
         /\ Top.block \in Block /\ Top.pos \in 1 .. Len(prog.code[Top.block]) + 1
         /\ Top.pos \in Nat \ {0} /\ Len(prog.code[Top.block]) \in Nat
<1>1. calls \in Seq(CallsOf(prog)) /\ IsProgram(prog)
  BY ProgramsAssumption DEF TypeInv
<1>2. Len(calls) \in Nat \ {0}
  BY <1>1, EmptySeq
<1>3. Top \in CallsOf(prog) /\ Top = calls[Len(calls)]
  BY <1>1, <1>2, ElementOfSeq DEF Top
<1>4. Top.block \in Block
  BY <1>3 DEF CallsOf
<1>5. Top.pos \in 1 .. Len(prog.code[Top.block]) + 1
  BY <1>2, <1>3 DEF TypeInv
<1>6. Len(prog.code[Top.block]) \in Nat
  BY <1>1, <1>4, Code
<1>q. QED
  BY <1>2, <1>3, <1>4, <1>5, <1>6

LEMMA TopReplaced ==
  ASSUME TypeInv, calls # <<>>, NEW c \in CallsOf(prog), SetTop(c)
  PROVE  /\ calls' \in Seq(CallsOf(prog)) /\ calls' # <<>>
         /\ Len(calls') = Len(calls)
         /\ \A m \in 1 .. Len(calls) : calls'[m] = IF m = Len(calls) THEN c ELSE calls[m]
         /\ Top' = c
<1>1. calls \in Seq(CallsOf(prog)) /\ Len(calls) \in 1 .. Len(calls)
  BY TheTop DEF TypeInv
<1>2. /\ calls' \in Seq(CallsOf(prog)) /\ Len(calls') = Len(calls)
      /\ \A m \in 1 .. Len(calls) : calls'[m] = IF m = Len(calls) THEN c ELSE calls[m]
  BY <1>1, ExceptSeq DEF SetTop
<1>3. calls' # <<>>
  BY <1>1, <1>2, EmptySeq
<1>q. QED
  BY <1>1, <1>2, <1>3 DEF Top

LEMMA TakenFromCall ==
  ASSUME NEW p, NEW c \in CallsOf(p), NEW k
  PROVE  LET d == [c EXCEPT !.kids = @ \ {k}]
         IN /\ d \in CallsOf(p) /\ d.pos = c.pos /\ d.block = c.block /\ d.step = c.step
            /\ d.kids = c.kids \ {k} /\ d.wait_delete = c.wait_delete
BY DEF CallsOf

\* re_name goes on to the next instruction, or its loop over the children to the next one.
LEMMA TopChanged ==
  ASSUME TypeInv, calls # <<>>, Top.pos <= Len(prog.code[Top.block])
  PROVE  LET i == <<Top.block, Top.pos>>
             d == [Top EXCEPT !.pos = @ + 1]
             e == [Top EXCEPT !.pos = @ + 1, !.wait_delete = @ \cup {i}]
         IN /\ d \in CallsOf(prog) /\ d.pos \in 1 .. Len(prog.code[d.block]) + 1
            /\ e \in CallsOf(prog) /\ e.pos \in 1 .. Len(prog.code[e.block]) + 1
<1> DEFINE t == Top
           i == <<t.block, t.pos>>
           d == [t EXCEPT !.pos = @ + 1]
           e == [t EXCEPT !.pos = @ + 1, !.wait_delete = @ \cup {i}]
<1>1. IsProgram(prog)
  BY ProgramsAssumption DEF TypeInv
<1>2. t \in CallsOf(prog) /\ t.block \in Block /\ t.pos \in 1 .. Len(prog.code[t.block])
      /\ t.pos \in Nat /\ Len(prog.code[t.block]) \in Nat
  BY TheTop
<1>3. i \in Placed(prog)
  BY <1>1, <1>2, Code
<1> HIDE DEF t, i
<1>6. t.pos + 1 \in Nat /\ t.wait_delete \cup {i} \in SUBSET Placed(prog)
  BY <1>2, <1>3 DEF CallsOf
<1>4. /\ d \in CallsOf(prog) /\ d.pos = t.pos + 1 /\ d.block = t.block
      /\ e \in CallsOf(prog) /\ e.pos = t.pos + 1 /\ e.block = t.block
  <2> DEFINE n == t.pos + 1
             W == t.wait_delete \cup {i}
  <2> HIDE DEF n, W
  <2>1. [t EXCEPT !.pos = n] \in CallsOf(prog) /\ [t EXCEPT !.pos = n].pos = n /\ [t EXCEPT !.pos = n].block = t.block
    BY <1>2, <1>6 DEF CallsOf, n
  <2> DEFINE f == [t EXCEPT !.pos = n, !.wait_delete = W]
  <2>2. f \in CallsOf(prog) /\ f.pos = n /\ f.block = t.block
    BY <1>2, <1>6 DEF CallsOf, n, W
  <2>q. QED
    BY <2>1, <2>2 DEF n, W
<1> HIDE DEF d, e
<1>5. d.pos \in 1 .. Len(prog.code[d.block]) + 1 /\ e.pos \in 1 .. Len(prog.code[e.block]) + 1
  BY <1>2, <1>4
<1>q. QED
  BY <1>4, <1>5 DEF d, e, i, t

LEMMA CallTypes ==
  ASSUME TypeInv, calls # <<>>, NEW c \in CallsOf(prog), SetTop(c),
         c.pos \in 1 .. Len(prog.code[c.block]) + 1
  PROVE  /\ calls' \in Seq(CallsOf(prog))
         /\ \A m \in 1 .. Len(calls') : calls'[m].pos \in 1 .. Len(prog.code[calls'[m].block]) + 1
<1>1. \A m \in 1 .. Len(calls) : calls[m].pos \in 1 .. Len(prog.code[calls[m].block]) + 1
  BY DEF TypeInv
<1>2. /\ calls' \in Seq(CallsOf(prog)) /\ Len(calls') = Len(calls)
      /\ \A m \in 1 .. Len(calls) : calls'[m] = IF m = Len(calls) THEN c ELSE calls[m]
  BY TopReplaced
<1>q. QED
  BY <1>1, <1>2

LEMMA ReplacedTypes ==
  ASSUME TypeInv, NEW val, NEW new \in ValuesOf(prog), ReplaceAllUseWith(val, new)
  PROVE  /\ operand' \in [Block -> Seq(ValuesOf(prog))]
         /\ \A b \in Block : Len(operand'[b]) = Len(operand[b])
         /\ \A b \in Block : \A n \in 1 .. Len(operand[b]) :
              operand'[b][n] = IF operand[b][n] = val THEN new ELSE operand[b][n]
         /\ args' \in [Block -> [Var -> Seq(Block \X ValuesOf(prog))]]
         /\ \A b \in Block, v \in Var :
              (\A m \in DOMAIN args[b][v] : args[b][v][m][2] # val) => args'[b][v] = args[b][v]
<1> DEFINE V == ValuesOf(prog)
           subst(w) == IF w = val THEN new ELSE w
<1>1. new \in V
  OBVIOUS
<1>2. ASSUME NEW b \in Block
      PROVE  /\ operand'[b] \in Seq(V) /\ Len(operand'[b]) = Len(operand[b])
             /\ \A n \in 1 .. Len(operand[b]) : operand'[b][n] = subst(operand[b][n])
  <2>1. operand[b] \in Seq(V)
    BY DEF TypeInv
  <2>2. operand'[b] = [n \in DOMAIN operand[b] |-> subst(operand[b][n])]
    BY DEF ReplaceAllUseWith
  <2> DEFINE f == operand[b]
  <2>3. f \in Seq(V) /\ operand'[b] = [n \in DOMAIN f |-> subst(f[n])]
    BY <2>1, <2>2
  <2> HIDE DEF f, V
  <2>4. /\ Len(f) \in Nat /\ DOMAIN f = 1 .. Len(f) /\ \A n \in 1 .. Len(f) : f[n] \in V
    BY <2>3, LenProperties, ElementOfSeq
  <2>5. \A n \in 1 .. Len(f) : subst(f[n]) \in V
    BY <1>1, <2>4
  <2>6. operand'[b] = [n \in 1 .. Len(f) |-> subst(f[n])]
    BY <2>3, <2>4
  <2>7. operand'[b] \in Seq(V)
    BY <2>4, <2>5, <2>6, IsASeq
  <2>8. Len(operand'[b]) = Len(f)
    BY <2>4, <2>6, <2>7
  <2>9. \A n \in 1 .. Len(f) : operand'[b][n] = subst(f[n])
    BY <2>6
  <2>q. QED
    BY <2>7, <2>8, <2>9 DEF f
<1>3. ASSUME NEW b \in Block, NEW v \in Var
      PROVE  /\ args'[b][v] \in Seq(Block \X V)
             /\ (\A m \in DOMAIN args[b][v] : args[b][v][m][2] # val) => args'[b][v] = args[b][v]
  <2>1. args[b][v] \in Seq(Block \X V)
    BY DEF TypeInv
  <2>2. args'[b][v] = [m \in DOMAIN args[b][v] |-> <<args[b][v][m][1], subst(args[b][v][m][2])>>]
    BY DEF ReplaceAllUseWith
  <2> DEFINE f == args[b][v]
  <2>3. f \in Seq(Block \X V) /\ args'[b][v] = [m \in DOMAIN f |-> <<f[m][1], subst(f[m][2])>>]
    BY <2>1, <2>2
  <2> HIDE DEF f, V
  <2>4. /\ Len(f) \in Nat /\ DOMAIN f = 1 .. Len(f) /\ \A m \in 1 .. Len(f) : f[m] \in Block \X V
        /\ f = [m \in 1 .. Len(f) |-> f[m]]
    BY <2>3, LenProperties, ElementOfSeq
  <2>5. \A m \in 1 .. Len(f) : <<f[m][1], subst(f[m][2])>> \in Block \X V
    BY <1>1, <2>4
  <2>6. args'[b][v] = [m \in 1 .. Len(f) |-> <<f[m][1], subst(f[m][2])>>]
    BY <2>3, <2>4
  <2>7. args'[b][v] \in Seq(Block \X V)
    BY <2>4, <2>5, <2>6, IsASeq
  <2>8. ASSUME \A m \in DOMAIN f : f[m][2] # val PROVE args'[b][v] = f
    <3>1. \A m \in 1 .. Len(f) : <<f[m][1], subst(f[m][2])>> = f[m]
      BY <2>4, <2>8
    <3>q. QED
      BY <3>1, <2>4, <2>6
  <2>q. QED
    BY <2>7, <2>8 DEF f
<1>4. operand' \in [Block -> Seq(V)]
  <2>1. operand' = [b \in Block |-> operand'[b]]
    BY DEF ReplaceAllUseWith
  <2> HIDE DEF V
  <2>q. QED
    BY <1>2, <2>1
<1>5. args' \in [Block -> [Var -> Seq(Block \X V)]]
  <2>1. args' = [b \in Block |-> [v \in Var |-> args'[b][v]]]
    BY DEF ReplaceAllUseWith
  <2> HIDE DEF V
  <2>q. QED
    BY <1>3, <2>1
<1>q. QED
  BY <1>2, <1>3, <1>4, <1>5

LEMMA CallType ==
  ASSUME TypeInv, NEW b \in Block
  PROVE  Call(b) \in CallsOf(prog) /\ Call(b).pos \in 1 .. Len(prog.code[b]) + 1
<1>1. IsProgram(prog) /\ tree[b] \subseteq Block
  BY ProgramsAssumption DEF TypeInv
<1>2. Len(prog.code[b]) \in Nat
  BY <1>1, Code
<1>q. QED
  BY <1>1, <1>2 DEF Call, CallsOf

\* An instruction and the value on top of a stack.
LEMMA TheInstruction ==
  ASSUME TypeInv, calls # <<>>, Top.pos <= Len(prog.code[Top.block])
  PROVE  LET i == <<Top.block, Top.pos>> IN
         /\ i \in Placed(prog)
         /\ At(i) = prog.code[Top.block][Top.pos]
         /\ At(i).op \in {"load", "store", "out"}
         /\ At(i).op # "out" => At(i).var \in Var
         /\ operand[Top.block][Top.pos] \in ValuesOf(prog)
<1>1. IsProgram(prog)
  BY ProgramsAssumption DEF TypeInv
<1>2. /\ Top.block \in Block /\ Top.pos \in 1 .. Len(prog.code[Top.block])
      /\ Len(prog.code[Top.block]) \in Nat
  BY TheTop
<1>3. operand[Top.block] \in Seq(ValuesOf(prog)) /\ Top.pos \in 1 .. Len(operand[Top.block])
  BY <1>2 DEF TypeInv
<1>4. operand[Top.block][Top.pos] \in ValuesOf(prog)
  BY <1>3, ElementOfSeq
<1>q. QED
  BY <1>1, <1>2, <1>4, Code DEF At

LEMMA BackType ==
  ASSUME TypeInv, NEW v \in Var
  PROVE  Back(v) \in ValuesOf(prog)
<1>1. stacks[v] \in Seq(ValuesOf(prog))
  BY DEF TypeInv
<1>2. CASE stacks[v] = <<>>
  BY <1>2 DEF Back, ValuesOf
<1>3. CASE stacks[v] # <<>>
  <2>1. Len(stacks[v]) \in Nat \ {0}
    BY <1>1, <1>3, EmptySeq
  <2>2. stacks[v][Len(stacks[v])] \in ValuesOf(prog)
    BY <1>1, <2>1, ElementOfSeq
  <2>q. QED
    BY <1>3, <2>2 DEF Back
<1>q. QED
  BY <1>2, <1>3

LEMMA TypeStep == TypeInv /\ [Next]_vars => TypeInv'
<1> SUFFICES ASSUME TypeInv, [Next]_vars PROVE TypeInv'
  OBVIOUS
<1> USE DEF passvars, execvars
<1>0. IsProgram(prog) /\ prog \in Programs
  BY ProgramsAssumption DEF TypeInv
<1>1. CASE RunDominators
  <2>1. Reachable(prog.succ) \subseteq Block
    BY <1>0, Code, ReachableStep
  <2>2. df' \in [Block -> SUBSET Block] /\ tree' \in [Block -> SUBSET Block]
    BY <1>1, <2>1 DEF RunDominators, Frontier
  <2>q. QED
    BY <1>1, <2>2 DEF RunDominators, TypeInv
<1>2. ASSUME NEW v \in Var, NextVar(v) PROVE TypeInv'
  <2>1. Stores(v) \subseteq Block
    BY DEF Stores
  <2>q. QED
    BY <1>2, <2>1 DEF NextVar, TypeInv
<1>3. ASSUME NEW b \in Block, InsertPhis(b) PROVE TypeInv'
  <2>1. work.var \in Var
    BY <1>3 DEF InsertPhis, TypeInv
  <2>q. QED
    BY <1>3, <2>1 DEF InsertPhis, TypeInv
<1>4. CASE ReName
  <2>1. Call(Entry) \in CallsOf(prog) /\ Call(Entry).pos \in 1 .. Len(prog.code[Entry]) + 1
    BY BlockAssumption, CallType
  <2>2. calls' \in Seq(CallsOf(prog)) /\ Len(calls') = 1 /\ calls'[1] = Call(Entry)
    BY <1>4, <2>1 DEF ReName
  <2>3. calls'[1].block = Entry
    BY <2>2 DEF Call
  <2>q. QED
    BY <1>4, <2>1, <2>2, <2>3 DEF ReName, TypeInv
<1>5. CASE PushPhis
  <2> DEFINE c == [Top EXCEPT !.step = "instr"]
  <2>1. calls # <<>> /\ SetTop(c)
    BY <1>5 DEF PushPhis, InReName
  <2>2. c \in CallsOf(prog) /\ c.pos \in 1 .. Len(prog.code[c.block]) + 1
    BY <2>1, TheTop DEF CallsOf
  <2> HIDE DEF c
  <2>3. /\ calls' \in Seq(CallsOf(prog))
        /\ \A m \in 1 .. Len(calls') : calls'[m].pos \in 1 .. Len(prog.code[calls'[m].block]) + 1
    BY <2>1, <2>2, CallTypes
  <2>4. phis[Top.block] \subseteq Var /\ Top.block \in Block
    BY <2>1, TheTop DEF TypeInv
  <2>5. ASSUME NEW v \in Var PROVE stacks'[v] \in Seq(ValuesOf(prog))
    <3>1. stacks[v] \in Seq(ValuesOf(prog)) /\ <<"phi", Top.block, v>> \in ValuesOf(prog)
      BY <2>4 DEF TypeInv, ValuesOf
    <3>2. Append(stacks[v], <<"phi", Top.block, v>>) \in Seq(ValuesOf(prog))
      BY <3>1, AppendProperties
    <3>q. QED
      BY <1>5, <3>1, <3>2 DEF PushPhis
  <2>6. stacks' \in [Var -> Seq(ValuesOf(prog))] /\ keys' \subseteq Var
    BY <1>5, <2>4, <2>5 DEF PushPhis, TypeInv
  <2>q. QED
    BY <1>5, <2>3, <2>6 DEF PushPhis, TypeInv
<1>6. CASE ReNameLoad
  <2> DEFINE i == <<Top.block, Top.pos>>
             c == [Top EXCEPT !.pos = @ + 1, !.wait_delete = @ \cup {i}]
             d == [Top EXCEPT !.pos = @ + 1]
  <2>1. /\ calls # <<>> /\ Top.pos <= Len(prog.code[Top.block])
        /\ At(i).op = "load"
    BY <1>6 DEF ReNameLoad, InReName
  <2>2. i \in Placed(prog) /\ At(i).var \in Var
    BY <2>1, TheInstruction
  <2>3. /\ c \in CallsOf(prog) /\ c.pos \in 1 .. Len(prog.code[c.block]) + 1
        /\ d \in CallsOf(prog) /\ d.pos \in 1 .. Len(prog.code[d.block]) + 1
    BY <2>1, TopChanged
  <2>4. CASE At(i).var \in keys
    <3>1. ReplaceAllUseWith(<<"load", Top.block, Top.pos>>, Back(At(i).var)) /\ SetTop(c)
      BY <1>6, <2>4 DEF ReNameLoad
    <3>2. Back(At(i).var) \in ValuesOf(prog)
      BY <2>2, BackType
    <3>3. /\ operand' \in [Block -> Seq(ValuesOf(prog))]
          /\ \A b \in Block : Len(operand'[b]) = Len(operand[b])
          /\ args' \in [Block -> [Var -> Seq(Block \X ValuesOf(prog))]]
      BY <3>1, <3>2, ReplacedTypes
    <3> HIDE DEF c, i
    <3>4. /\ calls' \in Seq(CallsOf(prog))
          /\ \A m \in 1 .. Len(calls') : calls'[m].pos \in 1 .. Len(prog.code[calls'[m].block]) + 1
      BY <2>1, <2>3, <3>1, CallTypes
    <3>q. QED
      BY <1>6, <3>3, <3>4 DEF ReNameLoad, TypeInv
  <2>5. CASE At(i).var \notin keys
    <3>1. SetTop(d) /\ UNCHANGED <<operand, args>>
      BY <1>6, <2>5 DEF ReNameLoad
    <3> HIDE DEF d, i
    <3>4. /\ calls' \in Seq(CallsOf(prog))
          /\ \A m \in 1 .. Len(calls') : calls'[m].pos \in 1 .. Len(prog.code[calls'[m].block]) + 1
      BY <2>1, <2>3, <3>1, CallTypes
    <3>q. QED
      BY <1>6, <3>1, <3>4 DEF ReNameLoad, TypeInv
  <2>q. QED
    BY <2>4, <2>5
<1>7. CASE ReNameStore
  <2> DEFINE i == <<Top.block, Top.pos>>
             c == [Top EXCEPT !.pos = @ + 1, !.wait_delete = @ \cup {i}]
             w == operand[Top.block][Top.pos]
  <2>1. /\ calls # <<>> /\ Top.pos <= Len(prog.code[Top.block])
        /\ At(i).op = "store" /\ Push(At(i).var, w) /\ SetTop(c)
    BY <1>7 DEF ReNameStore, InReName
  <2>2. i \in Placed(prog) /\ At(i).var \in Var /\ w \in ValuesOf(prog)
    BY <2>1, TheInstruction
  <2>3. c \in CallsOf(prog) /\ c.pos \in 1 .. Len(prog.code[c.block]) + 1
    BY <2>1, TopChanged
  <2> HIDE DEF c, i, w
  <2>4. /\ calls' \in Seq(CallsOf(prog))
        /\ \A m \in 1 .. Len(calls') : calls'[m].pos \in 1 .. Len(prog.code[calls'[m].block]) + 1
    BY <2>1, <2>3, CallTypes
  <2>5. stacks[At(i).var] \in Seq(ValuesOf(prog))
    BY <2>2 DEF TypeInv
  <2>6. Append(stacks[At(i).var], w) \in Seq(ValuesOf(prog))
    BY <2>2, <2>5, AppendProperties
  <2>7. stacks' \in [Var -> Seq(ValuesOf(prog))] /\ keys' \subseteq Var
    BY <2>1, <2>2, <2>6 DEF Push, TypeInv
  <2>q. QED
    BY <1>7, <2>4, <2>7 DEF ReNameStore, TypeInv
<1>8. CASE ReNameOther
  <2> DEFINE c == [Top EXCEPT !.pos = @ + 1]
  <2>1. calls # <<>> /\ Top.pos <= Len(prog.code[Top.block]) /\ SetTop(c)
    BY <1>8 DEF ReNameOther, InReName
  <2>2. c \in CallsOf(prog) /\ c.pos \in 1 .. Len(prog.code[c.block]) + 1
    BY <2>1, TopChanged
  <2> HIDE DEF c
  <2>3. /\ calls' \in Seq(CallsOf(prog))
        /\ \A m \in 1 .. Len(calls') : calls'[m].pos \in 1 .. Len(prog.code[calls'[m].block]) + 1
    BY <2>1, <2>2, CallTypes
  <2>q. QED
    BY <1>8, <2>3 DEF ReNameOther, TypeInv
<1>9. CASE FillPhis
  <2> DEFINE b == Top.block
             fill == {t \in Succs(prog.succ, b) \X Var : t[2] \in phis[t[1]] \cap keys}
             c == [Top EXCEPT !.step = "kids"]
  <2>1. calls # <<>>
    BY <1>9 DEF FillPhis, InReName
  <2>2. CASE \E t \in fill : stacks[t[2]] = <<>>
    BY <1>9, <2>2 DEF FillPhis, TypeInv
  <2>3. CASE ~\E t \in fill : stacks[t[2]] = <<>>
    <3>1. /\ args' = [s \in Block |-> [v \in Var |->
                           IF <<s, v>> \in fill THEN Append(args[s][v], <<b, Back(v)>>)
                                                ELSE args[s][v]]]
          /\ SetTop(c) /\ UNCHANGED phase
      BY <1>9, <2>3 DEF FillPhis
    <3>2. c \in CallsOf(prog) /\ c.pos \in 1 .. Len(prog.code[c.block]) + 1
      BY <2>1, TheTop DEF CallsOf
    <3>3. b \in Block
      BY <2>1, TheTop
    <3> HIDE DEF c, b, fill
    <3>4. /\ calls' \in Seq(CallsOf(prog))
          /\ \A m \in 1 .. Len(calls') : calls'[m].pos \in 1 .. Len(prog.code[calls'[m].block]) + 1
      BY <2>1, <3>1, <3>2, CallTypes
    <3>5. ASSUME NEW s \in Block, NEW v \in Var PROVE args'[s][v] \in Seq(Block \X ValuesOf(prog))
      <4>1. args[s][v] \in Seq(Block \X ValuesOf(prog)) /\ <<b, Back(v)>> \in Block \X ValuesOf(prog)
        BY <3>3, BackType DEF TypeInv
      <4>2. Append(args[s][v], <<b, Back(v)>>) \in Seq(Block \X ValuesOf(prog))
        BY <4>1, AppendProperties
      <4>q. QED
        BY <3>1, <4>1, <4>2
    <3>6. args' \in [Block -> [Var -> Seq(Block \X ValuesOf(prog))]]
      BY <3>1, <3>5
    <3>q. QED
      BY <1>9, <3>1, <3>4, <3>6 DEF FillPhis, TypeInv
  <2>q. QED
    BY <2>2, <2>3
<1>10. ASSUME NEW k \in Block, Descend(k) PROVE TypeInv'
  <2> DEFINE adv == [calls EXCEPT ![Len(calls)].kids = @ \ {k}]
             c == [Top EXCEPT !.kids = @ \ {k}]
  <2>1. calls # <<>> /\ calls' = Append(adv, Call(k))
    BY <1>10 DEF Descend, InReName
  <2>2. calls \in Seq(CallsOf(prog)) /\ Len(calls) \in 1 .. Len(calls) /\ Len(calls) \in Nat
    BY <2>1, TheTop DEF TypeInv
  <2>9. c \in CallsOf(prog) /\ c.pos \in 1 .. Len(prog.code[c.block]) + 1
    <3> DEFINE t == Top
    <3>1. t \in CallsOf(prog) /\ t.pos \in 1 .. Len(prog.code[t.block]) + 1
      BY <2>1, TheTop
    <3> HIDE DEF t
    <3>2. /\ [t EXCEPT !.kids = @ \ {k}] \in CallsOf(prog)
          /\ [t EXCEPT !.kids = @ \ {k}].pos = t.pos /\ [t EXCEPT !.kids = @ \ {k}].block = t.block
      BY <3>1, TakenFromCall
    <3>q. QED
      BY <3>1, <3>2 DEF t
  <2>3. adv = [calls EXCEPT ![Len(calls)] = c]
    BY <2>1, TheTop
  <2>4. Call(k) \in CallsOf(prog) /\ Call(k).pos \in 1 .. Len(prog.code[k]) + 1 /\ Call(k).block = k
    BY CallType DEF Call
  <2> HIDE DEF c, adv
  <2>6. /\ adv \in Seq(CallsOf(prog)) /\ Len(adv) = Len(calls)
        /\ \A m \in 1 .. Len(calls) : adv[m] = IF m = Len(calls) THEN c ELSE calls[m]
    BY <2>2, <2>3, <2>9, ExceptSeq
  <2>7. /\ calls' \in Seq(CallsOf(prog)) /\ Len(calls') = Len(calls) + 1
        /\ \A m \in 1 .. Len(calls) : calls'[m] = adv[m]
        /\ calls'[Len(calls) + 1] = Call(k)
    BY <2>1, <2>4, <2>6, AppendProperties
  <2>8. ASSUME NEW m \in 1 .. Len(calls') PROVE calls'[m].pos \in 1 .. Len(prog.code[calls'[m].block]) + 1
    <3>1. CASE m = Len(calls) + 1
      BY <2>4, <2>7, <3>1
    <3>2. CASE m = Len(calls)
      BY <2>2, <2>6, <2>7, <2>9, <3>2
    <3>3. CASE m \in 1 .. Len(calls) /\ m # Len(calls)
      <4>1. calls'[m] = calls[m]
        BY <2>6, <2>7, <3>3
      <4>q. QED
        BY <3>3, <4>1 DEF TypeInv
    <3>q. QED
      BY <2>2, <2>7, <3>1, <3>2, <3>3
  <2>q. QED
    BY <1>10, <2>7, <2>8 DEF Descend, TypeInv
<1>11. CASE Return
  <2>1. calls # <<>> /\ calls' = SubSeq(calls, 1, Len(calls) - 1)
    BY <1>11 DEF Return, InReName
  <2>2. calls \in Seq(CallsOf(prog)) /\ Len(calls) \in Nat \ {0} /\ Top \in CallsOf(prog)
    BY <2>1, TheTop DEF TypeInv
  <2>3. \A m \in 1 .. Len(calls) - 1 : calls[m] \in CallsOf(prog)
    BY <2>2, ElementOfSeq
  <2>4. /\ calls' \in Seq(CallsOf(prog)) /\ Len(calls') = Len(calls) - 1
        /\ \A m \in 1 .. Len(calls) - 1 : calls'[m] = calls[m]
    <3> DEFINE l == Len(calls) - 1
    <3>1. l \in Nat /\ \A m \in 1 .. l : calls[m] \in CallsOf(prog)
      BY <2>2, <2>3
    <3> HIDE DEF l
    <3>2. /\ SubSeq(calls, 1, l) \in Seq(CallsOf(prog)) /\ Len(SubSeq(calls, 1, l)) = l
          /\ \A m \in 1 .. l : SubSeq(calls, 1, l)[m] = calls[m]
      BY <3>1, SubSeqProperties
    <3>q. QED
      BY <2>1, <3>2 DEF l
  <2>5. ASSUME NEW v \in Var PROVE stacks'[v] \in Seq(ValuesOf(prog))
    <3>1. stacks'[v] = SubSeq(stacks[v], 1, Len(stacks[v]) - Pushed(Top.block, v))
      BY <1>11 DEF Return
    <3>2. stacks[v] \in Seq(ValuesOf(prog))
      BY DEF TypeInv
    <3>3. Pushed(Top.block, v) \in Nat
      <4> DEFINE S == {n \in 1 .. Len(prog.code[Top.block]) :
                         prog.code[Top.block][n].op = "store" /\ prog.code[Top.block][n].var = v}
      <4>1. Len(prog.code[Top.block]) \in Int
        BY <2>1, TheTop
      <4>2. IsFiniteSet(1 .. Len(prog.code[Top.block]))
        BY <4>1, FS_Interval
      <4>3. IsFiniteSet(S)
        BY <4>2, FS_Subset
      <4>4. IsFiniteSet(phis[Top.block] \cap {v})
        BY FS_Singleton, FS_Intersection
      <4> HIDE DEF S
      <4>5. Cardinality(S) \in Nat /\ Cardinality(phis[Top.block] \cap {v}) \in Nat
        BY <4>3, <4>4, FS_CardinalityType
      <4>6. Pushed(Top.block, v) = Cardinality(phis[Top.block] \cap {v}) + Cardinality(S)
        BY DEF Pushed, S
      <4>q. QED
        BY <4>5, <4>6
    <3> DEFINE n == Len(stacks[v]) - Pushed(Top.block, v)
    <3>4. n \in Int /\ n <= Len(stacks[v]) /\ Len(stacks[v]) \in Nat
      BY <3>2, <3>3
    <3> HIDE DEF n
    <3>5. \A m \in 1 .. n : stacks[v][m] \in ValuesOf(prog)
      BY <3>2, <3>4, ElementOfSeq
    <3>q. QED
      BY <3>1, <3>4, <3>5, SubSeqProperties DEF n
  <2>6. stacks' \in [Var -> Seq(ValuesOf(prog))]
    BY <1>11, <2>5 DEF Return
  <2>7. erased' \subseteq Placed(prog)
    BY <1>11, <2>2 DEF Return, TypeInv, CallsOf
  <2>8. \A m \in 1 .. Len(calls') : calls'[m].pos \in 1 .. Len(prog.code[calls'[m].block]) + 1
    <3> SUFFICES ASSUME NEW m \in 1 .. Len(calls')
                 PROVE  calls'[m].pos \in 1 .. Len(prog.code[calls'[m].block]) + 1
      OBVIOUS
    <3>1. m \in 1 .. Len(calls) /\ m \in 1 .. Len(calls) - 1
      BY <2>2, <2>4
    <3>2. calls'[m] = calls[m]
      BY <2>4, <3>1
    <3>q. QED
      BY <3>1, <3>2 DEF TypeInv
  <2>q. QED
    BY <1>11, <2>4, <2>6, <2>7, <2>8 DEF Return, TypeInv
<1>12. CASE RemoveAlloca
  BY <1>12 DEF RemoveAlloca, TypeInv
<1>13. CASE Execute
  <2>1. UNCHANGED <<prog, passvars, phase>>
    BY <1>13 DEF Execute, ExecInstr, ExecBranch
  <2>q. QED
    BY <2>1 DEF TypeInv
<1>14. CASE UNCHANGED vars
  BY <1>14 DEF vars, TypeInv
<1>q. QED
  BY <1>1, <1>2, <1>3, <1>4, <1>5, <1>6, <1>7, <1>8, <1>9, <1>10, <1>11, <1>12, <1>13, <1>14 DEF Next, Pass

-----------------------------------------------------------------------------
(* The insertion of phis.                                                    *)

Started == phase \notin {"run", "phi"}

\* Before re_name nothing but the phis has changed.
Untouched ==
  ~Started => /\ operand = [b \in Block |-> [n \in 1 .. Len(prog.code[b]) |-> prog.code[b][n].arg]]
              /\ args = [b \in Block |-> [v \in Var |-> <<>>]]
              /\ stacks = [v \in Var |-> <<>>]
              /\ keys = {} /\ calls = <<>> /\ erased = {}

StoredIn(p, v) == {b \in Block : \E i \in Placed(p) : /\ i[1] = b
                                                      /\ p.code[i[1]][i[2]].op = "store"
                                                      /\ p.code[i[1]][i[2]].var = v}

TheFrontiers(p) == [b \in Block |-> IF b \in Reachable(p.succ) THEN Frontier(p.succ, b) ELSE {}]
TheTree(p) == [b \in Block |-> {c \in Reachable(p.succ) \ {Entry} : ImmediateDom(p.succ, c) = b}]

\* The frontier of a block that gives v a value has phis for it, or will get them
\* when the work list comes to the block.
Closing(p, ph, w, v) ==
  \A b \in Reachable(p.succ) :
    (\E n \in Nat : <<b, n>> \in Defs(p, ph, v)) =>
      (w.var = v /\ b \in w.list) \/ \A y \in Frontier(p.succ, b) : v \in ph[y]

PhiInv ==
  /\ phase = "run" => phis = [b \in Block |-> {}] /\ todo = {} /\ work.list = {}
  /\ phase # "run" => df = TheFrontiers(prog) /\ tree = TheTree(prog)
  /\ phase # "run" => \A v \in Var \ todo : Closing(prog, phis, work, v)
  /\ \A b \in Block : phis[b] \cap todo = {} /\ \A v \in phis[b] : StoredIn(prog, v) # {}
  /\ work.list # {} => work.var \notin todo /\ StoredIn(prog, work.var) # {}
  /\ Started => todo = {} /\ work.list = {}

LEMMA StoresAre == \A v : Stores(v) = StoredIn(prog, v)
BY SameNames DEF Stores, StoredIn, At

LEMMA PhiInit == Init => Untouched /\ PhiInv
BY DEF Init, Untouched, PhiInv, Started

LEMMA PhiFrame ==
  ASSUME Untouched, PhiInv, UNCHANGED <<prog, df, tree, todo, work, phis>>, Started, Started'
  PROVE  Untouched' /\ PhiInv'
BY DEF Untouched, PhiInv, Started

LEMMA RunDominatorsStep ==
  ASSUME TypeInv, Untouched, PhiInv, RunDominators
  PROVE  Untouched' /\ PhiInv'
<1> USE DEF RunDominators
<1>1. phis = [b \in Block |-> {}] /\ work.list = {} /\ ~Started /\ ~Started'
  BY DEF PhiInv, Started
<1>2. Untouched'
  BY <1>1 DEF Untouched
<1>3. df' = TheFrontiers(prog') /\ tree' = TheTree(prog')
  BY DEF TheFrontiers, TheTree
<1>4. todo' = {v \in Var : StoredIn(prog, v) # {}}
  BY StoresAre
<1>5. ASSUME NEW v \in Var \ todo' PROVE Closing(prog', phis', work', v)
  <2>1. Defs(prog, phis, v) = {}
    BY <1>1, <1>4, <1>5, Code, ProgramsAssumption DEF Defs, StoredIn, TypeInv
  <2>q. QED
    BY <2>1 DEF Closing
<1>q. QED
  BY <1>1, <1>2, <1>3, <1>5 DEF PhiInv

LEMMA NextVarStep ==
  ASSUME TypeInv, Untouched, PhiInv, NEW v \in Var, NextVar(v)
  PROVE  Untouched' /\ PhiInv'
<1> USE DEF NextVar
<1>1. ~Started /\ ~Started' /\ phase = "phi"
  BY DEF Started
<1>2. Untouched'
  BY <1>1 DEF Untouched
<1>3. ASSUME NEW w \in Var \ todo' PROVE Closing(prog', phis', work', w)
  <2>1. CASE w = v
    <3>1. ASSUME NEW b \in Reachable(prog.succ), NEW n \in Nat, <<b, n>> \in Defs(prog, phis, v)
          PROVE  b \in work'.list
      <4>1. b \in Block /\ v \notin phis[b]
        BY ProgramsAssumption, Code, ReachableStep DEF PhiInv, TypeInv
      <4>2. b \in StoredIn(prog, v)
        BY <3>1, <4>1 DEF Defs, StoredIn
      <4>q. QED
        BY <4>2, StoresAre
    <3>q. QED
      BY <2>1, <3>1 DEF Closing
  <2>2. CASE w # v
    <3>1. Closing(prog, phis, work, w) /\ work.list = {}
      BY <1>1, <2>2 DEF PhiInv
    <3>q. QED
      BY <3>1 DEF Closing
  <2>q. QED
    BY <2>1, <2>2
<1>4. work'.list # {} => work'.var \notin todo' /\ StoredIn(prog', work'.var) # {}
  BY StoresAre
<1>5. \A b \in Block : phis'[b] \cap todo' = {} /\ \A w \in phis'[b] : StoredIn(prog', w) # {}
  BY DEF PhiInv
<1>q. QED
  BY <1>1, <1>2, <1>3, <1>4, <1>5 DEF PhiInv

LEMMA InsertPhisStep ==
  ASSUME TypeInv, Untouched, PhiInv, NEW b \in Block, InsertPhis(b)
  PROVE  Untouched' /\ PhiInv'
<1> USE DEF InsertPhis
<1>0. IsProgram(prog) /\ Reachable(prog.succ) \subseteq Block
  BY ProgramsAssumption, Code, ReachableStep DEF TypeInv
<1>1. ~Started /\ ~Started' /\ phase = "phi"
  BY DEF Started
<1>2. Untouched'
  BY <1>1 DEF Untouched
<1> DEFINE new == {d \in df[b] : work.var \notin phis[d]}
           x == work.var
<1>3. /\ \A d \in Block : phis'[d] = IF d \in new THEN phis[d] \cup {x} ELSE phis[d]
      /\ work' = [work EXCEPT !.list = (@ \ {b}) \cup new]
      /\ UNCHANGED <<prog, df, tree, todo, phase>>
      /\ x \in Var /\ b \in work.list
  BY DEF TypeInv
<1>4. work'.var = x /\ work'.list = (work.list \ {b}) \cup new
  BY <1>3 DEF TypeInv
<1>5. x \notin todo /\ StoredIn(prog, x) # {}
  BY <1>3 DEF PhiInv
<1>6. df = TheFrontiers(prog)
  BY <1>1 DEF PhiInv
<1>7. new \subseteq Block
  BY DEF TypeInv
<1>8. \A d \in df[b] : d \in Block /\ (d \in new \/ x \in phis[d])
  BY DEF TypeInv
<1> HIDE DEF new, x
<1>9. ASSUME NEW w \in Var \ todo' PROVE Closing(prog', phis', work', w)
  <2>1. Closing(prog, phis, work, w)
    BY <1>1, <1>3 DEF PhiInv
  <2>2. \A d \in Block : w \in phis[d] => w \in phis'[d]
    BY <1>3
  <2>3. \A d \in Reachable(prog.succ) : Frontier(prog.succ, d) \subseteq Block
    BY DEF Frontier
  <2>4. CASE w # x
    <3>1. Defs(prog, phis', w) = Defs(prog, phis, w)
      <4>1. {d \in Block : w \in phis'[d]} = {d \in Block : w \in phis[d]}
        BY <1>3, <2>4
      <4>q. QED
        BY <4>1 DEF Defs
    <3>2. ASSUME NEW d \in Reachable(prog.succ), NEW n \in Nat, <<d, n>> \in Defs(prog, phis, w)
          PROVE  \A y \in Frontier(prog.succ, d) : w \in phis'[y]
      <4>1. \A y \in Frontier(prog.succ, d) : w \in phis[y]
        BY <2>1, <2>4, <3>2 DEF Closing, x
      <4>q. QED
        BY <2>2, <2>3, <4>1
    <3>q. QED
      BY <1>3, <3>1, <3>2 DEF Closing
  <2>5. CASE w = x
    <3>1. ASSUME NEW d \in Reachable(prog.succ), NEW n \in Nat, <<d, n>> \in Defs(prog, phis', w)
          PROVE  d \in work'.list \/ \A y \in Frontier(prog.succ, d) : w \in phis'[y]
      <4>1. CASE d \in new
        BY <1>4, <4>1
      <4>2. CASE d = b
        <5>1. Frontier(prog.succ, d) = df[b]
          BY <1>0, <1>6, <4>2 DEF TheFrontiers
        <5>q. QED
          BY <1>3, <1>8, <2>5, <5>1
      <4>3. CASE d # b /\ d \notin new
        <5>1. <<d, n>> \in Defs(prog, phis, w)
          BY <1>3, <3>1, <4>3 DEF Defs
        <5>2. d \in work.list \/ \A y \in Frontier(prog.succ, d) : w \in phis[y]
          BY <2>1, <5>1 DEF Closing
        <5>q. QED
          BY <1>4, <2>2, <2>3, <4>3, <5>2
      <4>q. QED
        BY <4>1, <4>2, <4>3
    <3>q. QED
      BY <1>3, <1>4, <2>5, <3>1 DEF Closing
  <2>q. QED
    BY <2>4, <2>5
<1>10. \A d \in Block : phis'[d] \cap todo' = {} /\ \A w \in phis'[d] : StoredIn(prog', w) # {}
  BY <1>3, <1>5 DEF PhiInv
<1>11. work'.list # {} => work'.var \notin todo' /\ StoredIn(prog', work'.var) # {}
  BY <1>3, <1>4, <1>5
<1>q. QED
  BY <1>1, <1>2, <1>3, <1>6, <1>9, <1>10, <1>11 DEF PhiInv

-----------------------------------------------------------------------------
(* The calls of re_name in progress: a path in the dominator tree, of all     *)
(* the blocks above the one that is visited.                                  *)

GoodCall(p, cs, m) ==
  /\ cs[m].block \in Reachable(p.succ)
  /\ cs[m].step = "phis" => cs[m].pos = 1
  /\ cs[m].step # "kids" => cs[m].kids = TheTree(p)[cs[m].block] /\ m = Len(cs)
  /\ cs[m].step = "kids" => /\ cs[m].pos = Len(p.code[cs[m].block]) + 1
                            /\ cs[m].kids \subseteq TheTree(p)[cs[m].block]
  /\ StrictDoms(p.succ, cs[m].block) = {cs[j].block : j \in 1 .. m - 1}
  /\ m < Len(cs) => cs[m + 1].block \in TheTree(p)[cs[m].block] \ cs[m].kids

CallsInv ==
  /\ phase = "done" => calls = <<>>
  /\ \A m \in 1 .. Len(calls) : GoodCall(prog, calls, m)

LEMMA CallsInit == Init => CallsInv
BY DEF Init, CallsInv

LEMMA StartedByCalls ==
  ASSUME TypeInv, Untouched, PhiInv, calls # <<>>
  PROVE  Started /\ tree = TheTree(prog) /\ IsProgram(prog) /\ IsSucc(prog.succ) /\ prog \in Programs
BY ProgramsAssumption, Code DEF Untouched, PhiInv, Started, TypeInv

\* The call on top goes on, in the same block.
LEMMA SetTopCalls ==
  ASSUME TypeInv, CallsInv, calls # <<>>, NEW c \in CallsOf(prog), SetTop(c), prog' = prog,
         phase = "rename", phase' = phase,
         c.block = Top.block, c.kids = Top.kids, Top.step # "kids", c.step # "phis",
         c.step = "kids" => c.pos = Len(prog.code[c.block]) + 1
  PROVE  CallsInv'
<1>1. /\ calls' # <<>> /\ Len(calls') = Len(calls)
      /\ \A m \in 1 .. Len(calls) : calls'[m] = IF m = Len(calls) THEN c ELSE calls[m]
      /\ Top = calls[Len(calls)] /\ Len(calls) \in Nat \ {0}
  BY TopReplaced, TheTop
<1> DEFINE l == Len(calls)
<1> HIDE DEF l
<1>2. \A m \in 1 .. l : calls'[m].block = calls[m].block /\ calls'[m].kids = calls[m].kids
  BY <1>1 DEF l
<1>3. ASSUME NEW m \in 1 .. l PROVE GoodCall(prog, calls', m)
  <2>1. GoodCall(prog, calls, m) /\ l \in Nat /\ Len(calls) = l /\ Len(calls') = l
    BY <1>1 DEF CallsInv, l
  <2>2. {calls'[j].block : j \in 1 .. m - 1} = {calls[j].block : j \in 1 .. m - 1}
    BY <1>2, <2>1
  <2>3. m < l => calls'[m + 1].block = calls[m + 1].block
    BY <1>2, <2>1
  <2>4. CASE m = l
    <3>1. calls'[m] = c /\ calls[m] = Top
      BY <1>1, <2>4 DEF l
    <3>q. QED
      BY <1>2, <2>1, <2>2, <2>3, <2>4, <3>1 DEF GoodCall
  <2>5. CASE m # l
    <3>1. calls'[m] = calls[m]
      BY <1>1, <2>5 DEF l
    <3>q. QED
      BY <1>2, <2>1, <2>2, <2>3, <2>5, <3>1 DEF GoodCall
  <2>q. QED
    BY <2>4, <2>5
<1>q. QED
  BY <1>1, <1>3 DEF CallsInv, l

LEMMA ReNameCalls ==
  ASSUME TypeInv, PhiInv, ReName
  PROVE  CallsInv'
<1>1. IsProgram(prog) /\ IsSucc(prog.succ) /\ phase = "phi" /\ prog' = prog /\ phase' = "rename"
  BY ProgramsAssumption, Code DEF TypeInv, ReName
<1>2. tree = TheTree(prog) /\ calls' = <<Call(Entry)>>
  BY <1>1 DEF PhiInv, ReName
<1>3. Len(calls') = 1 /\ calls'[1] = Call(Entry)
  BY <1>2
<1>4. Entry \in Reachable(prog.succ)
  BY <1>1, ReachableStep
<1>5. StrictDoms(prog.succ, Entry) = {}
  BY <1>1, EntryDominates DEF StrictDoms
<1>6. /\ Call(Entry).block = Entry /\ Call(Entry).step = "phis" /\ Call(Entry).pos = 1
      /\ Call(Entry).kids = TheTree(prog)[Entry]
  BY <1>2 DEF Call
<1>7. GoodCall(prog, calls', 1)
  BY <1>3, <1>4, <1>5, <1>6 DEF GoodCall
<1>8. ASSUME NEW m \in 1 .. Len(calls') PROVE GoodCall(prog, calls', m)
  <2>1. m = 1
    BY <1>3
  <2>q. QED
    BY <1>7, <2>1
<1>q. QED
  BY <1>1, <1>8 DEF CallsInv

LEMMA DescendCalls ==
  ASSUME TypeInv, Untouched, PhiInv, CallsInv, NEW k \in Block, Descend(k)
  PROVE  /\ CallsInv'
         /\ k \in Reachable(prog.succ) \ {Entry} /\ ImmediateDom(prog.succ, k) = Top.block
         /\ Len(calls') = Len(calls) + 1
         /\ \A m \in 1 .. Len(calls) :
              /\ calls'[m].block = calls[m].block /\ calls'[m].step = calls[m].step
              /\ calls'[m].pos = calls[m].pos /\ calls'[m].wait_delete = calls[m].wait_delete
              /\ calls'[m].kids = IF m = Len(calls) THEN calls[m].kids \ {k} ELSE calls[m].kids
         /\ calls'[Len(calls) + 1] = Call(k)
         /\ Top' = Call(k) /\ calls' # <<>>
<1>1. /\ calls # <<>> /\ Top.step = "kids" /\ k \in Top.kids /\ phase = "rename"
      /\ calls' = Append([calls EXCEPT ![Len(calls)].kids = @ \ {k}], Call(k))
      /\ prog' = prog /\ phase' = phase /\ tree' = tree
  BY DEF Descend, InReName
<1>2. IsProgram(prog) /\ IsSucc(prog.succ) /\ tree = TheTree(prog)
  BY <1>1, StartedByCalls
<1> DEFINE l == Len(calls)
           c == [Top EXCEPT !.kids = @ \ {k}]
           adv == [calls EXCEPT ![Len(calls)].kids = @ \ {k}]
<1>3. calls \in Seq(CallsOf(prog)) /\ l \in Nat \ {0} /\ l \in 1 .. Len(calls) /\ Top = calls[l] /\ Top \in CallsOf(prog)
  BY <1>1, TheTop DEF TypeInv
<1>4. adv = [calls EXCEPT ![l] = c]
  BY <1>3
<1>5. /\ c \in CallsOf(prog) /\ c.pos = Top.pos /\ c.block = Top.block /\ c.step = Top.step
      /\ c.kids = Top.kids \ {k} /\ c.wait_delete = Top.wait_delete
  <2> DEFINE t == Top
  <2>1. t \in CallsOf(prog)
    BY <1>3
  <2> HIDE DEF t
  <2>2. /\ [t EXCEPT !.kids = @ \ {k}] \in CallsOf(prog)
        /\ [t EXCEPT !.kids = @ \ {k}].pos = t.pos /\ [t EXCEPT !.kids = @ \ {k}].block = t.block
        /\ [t EXCEPT !.kids = @ \ {k}].step = t.step
        /\ [t EXCEPT !.kids = @ \ {k}].kids = t.kids \ {k}
        /\ [t EXCEPT !.kids = @ \ {k}].wait_delete = t.wait_delete
    BY <2>1 DEF CallsOf
  <2>q. QED
    BY <2>2 DEF t
<1> HIDE DEF c, adv
<1>6. /\ adv \in Seq(CallsOf(prog)) /\ Len(adv) = l
      /\ \A m \in 1 .. l : adv[m] = IF m = l THEN c ELSE calls[m]
  BY <1>3, <1>4, <1>5, ExceptSeq
<1>7. /\ calls' \in Seq(CallsOf(prog)) /\ Len(calls') = l + 1
      /\ \A m \in 1 .. l : calls'[m] = adv[m]
      /\ calls'[l + 1] = Call(k)
  <2>1. Call(k) \in CallsOf(prog)
    BY CallType
  <2>2. calls' = Append(adv, Call(k))
    BY <1>1 DEF adv
  <2>q. QED
    BY <1>6, <2>1, <2>2, AppendProperties
<1>8. \A m \in 1 .. l :
        /\ calls'[m].block = calls[m].block /\ calls'[m].step = calls[m].step
        /\ calls'[m].pos = calls[m].pos /\ calls'[m].wait_delete = calls[m].wait_delete
        /\ calls'[m].kids = IF m = l THEN calls[m].kids \ {k} ELSE calls[m].kids
  BY <1>3, <1>5, <1>6, <1>7
<1>9. GoodCall(prog, calls, l) /\ \A m \in 1 .. l : GoodCall(prog, calls, m)
  BY <1>3 DEF CallsInv
<1>10. k \in TheTree(prog)[Top.block] /\ Top.block \in Block
  BY <1>1, <1>3, <1>9, TheTop DEF GoodCall
<1>11. k \in Reachable(prog.succ) \ {Entry} /\ ImmediateDom(prog.succ, k) = Top.block
  BY <1>10 DEF TheTree
<1>12. StrictDoms(prog.succ, k) = StrictDoms(prog.succ, Top.block) \cup {Top.block}
  BY <1>2, <1>11, BlockAssumption, DominatorsOfChild
<1>13. calls' # <<>> /\ Top' = Call(k)
  BY <1>3, <1>7 DEF Top
<1>14. /\ Call(k).block = k /\ Call(k).step = "phis" /\ Call(k).pos = 1
       /\ Call(k).kids = TheTree(prog)[k]
  BY <1>2 DEF Call
<1> HIDE DEF l
<1>17. /\ \A m \in 1 .. l : {calls'[j].block : j \in 1 .. m - 1} = {calls[j].block : j \in 1 .. m - 1}
       /\ {calls'[j].block : j \in 1 .. l} = {calls[j].block : j \in 1 .. l - 1} \cup {calls[l].block}
  <2>1. l \in Nat \ {0}
    BY <1>3
  <2>2. \A j \in 1 .. l : calls'[j].block = calls[j].block
    BY <1>8
  <2>3. ASSUME NEW m \in 1 .. l
        PROVE  {calls'[j].block : j \in 1 .. m - 1} = {calls[j].block : j \in 1 .. m - 1}
    <3>1. \A j \in 1 .. m - 1 : calls'[j].block = calls[j].block
      BY <2>1, <2>2
    <3>q. QED
      BY ONLY <3>1
  <2>4. {calls'[j].block : j \in 1 .. l} = {calls[j].block : j \in 1 .. l - 1} \cup {calls[l].block}
    <3>1. \A j : j \in 1 .. l <=> j \in 1 .. l - 1 \/ j = l
      BY <2>1
    <3>q. QED
      BY ONLY <2>2, <3>1
  <2>q. QED
    BY <2>3, <2>4
<1>15. ASSUME NEW m \in 1 .. l + 1 PROVE GoodCall(prog, calls', m)
  <2>1. CASE m = l + 1
    <3>1. {calls'[j].block : j \in 1 .. m - 1} = StrictDoms(prog.succ, k)
      <4>1. StrictDoms(prog.succ, Top.block) = {calls[j].block : j \in 1 .. l - 1}
        BY <1>3, <1>9 DEF GoodCall
      <4>2. {calls'[j].block : j \in 1 .. l} = {calls[j].block : j \in 1 .. l - 1} \cup {Top.block}
        BY <1>3, <1>17
      <4>3. m - 1 = l
        BY <1>3, <2>1
      <4>q. QED
        BY <1>12, <4>1, <4>2, <4>3
    <3>q. QED
      BY <1>3, <1>7, <1>11, <1>14, <2>1, <3>1 DEF GoodCall
  <2>2. CASE m \in 1 .. l
    <3>1. {calls'[j].block : j \in 1 .. m - 1} = {calls[j].block : j \in 1 .. m - 1}
      BY <1>17, <2>2
    <3>2. GoodCall(prog, calls, m)
      BY <1>9, <2>2
    <3>3. calls'[m].step = "kids"
      BY <1>1, <1>3, <1>8, <2>2, <3>2 DEF GoodCall, l
    <3>4. calls'[m + 1].block \in TheTree(prog)[calls'[m].block] \ calls'[m].kids
      <4>1. CASE m = l
        <5>1. calls'[m + 1].block = k
          BY <1>7, <1>14, <4>1
        <5>2. calls'[m].block = Top.block /\ calls'[m].kids = Top.kids \ {k}
          BY <1>3, <1>8, <2>2, <4>1
        <5>q. QED
          BY <1>10, <5>1, <5>2
      <4>2. CASE m # l
        <5>1. m < l /\ m + 1 \in 1 .. l
          BY <1>3, <2>2, <4>2
        <5>q. QED
          BY <1>8, <2>2, <3>2, <4>2, <5>1 DEF GoodCall, l
      <4>q. QED
        BY <4>1, <4>2
    <3>5. calls'[m].kids \subseteq calls[m].kids
      BY <1>8, <2>2
    <3>q. QED
      BY <1>8, <2>2, <3>1, <3>2, <3>3, <3>4, <3>5 DEF GoodCall
  <2>q. QED
    BY <1>3, <2>1, <2>2
<1>16. CallsInv'
  BY <1>1, <1>7, <1>15 DEF CallsInv
<1>q. QED
  BY <1>7, <1>8, <1>11, <1>13, <1>16 DEF l

LEMMA ReturnCalls ==
  ASSUME TypeInv, Untouched, PhiInv, CallsInv, Return
  PROVE  /\ CallsInv'
         /\ calls # <<>> /\ Top.step = "kids" /\ Top.kids = {}
         /\ Len(calls') = Len(calls) - 1
         /\ \A m \in 1 .. Len(calls) - 1 : calls'[m] = calls[m]
         /\ calls' # <<>> =>
              /\ Len(calls) - 1 \in 1 .. Len(calls) /\ Top' = calls[Len(calls) - 1]
              /\ Top'.step = "kids" /\ Top'.pos = Len(prog.code[Top'.block]) + 1
              /\ Top.block \in Reachable(prog.succ) \ {Entry}
              /\ ImmediateDom(prog.succ, Top.block) = Top'.block
         /\ calls' = <<>> => Len(calls) = 1 /\ Top.block = Entry
<1>1. /\ calls # <<>> /\ Top.step = "kids" /\ Top.kids = {} /\ phase = "rename"
      /\ calls' = SubSeq(calls, 1, Len(calls) - 1)
      /\ prog' = prog /\ phase' = phase
  BY DEF Return, InReName
<1>2. IsProgram(prog) /\ IsSucc(prog.succ) /\ tree = TheTree(prog)
  BY <1>1, StartedByCalls
<1>3. calls \in Seq(CallsOf(prog)) /\ Len(calls) \in Nat \ {0} /\ Top = calls[Len(calls)]
  BY <1>1, TheTop DEF TypeInv
<1> DEFINE l == Len(calls) - 1
<1>4. l \in Nat /\ Len(calls) = l + 1 /\ \A m \in 1 .. l : calls[m] \in CallsOf(prog)
  BY <1>3, ElementOfSeq
<1>5. \A m \in 1 .. l + 1 : GoodCall(prog, calls, m)
  BY <1>4 DEF CallsInv
<1>6. /\ calls' \in Seq(CallsOf(prog)) /\ Len(calls') = l
      /\ \A m \in 1 .. l : calls'[m] = calls[m]
  <2> HIDE DEF l
  <2>1. /\ SubSeq(calls, 1, l) \in Seq(CallsOf(prog)) /\ Len(SubSeq(calls, 1, l)) = l
        /\ \A m \in 1 .. l : SubSeq(calls, 1, l)[m] = calls[m]
    BY <1>4, SubSeqProperties
  <2>q. QED
    BY <1>1, <2>1 DEF l
<1> HIDE DEF l
<1>7. ASSUME NEW m \in 1 .. l PROVE GoodCall(prog, calls', m)
  <2>1. GoodCall(prog, calls, m) /\ calls'[m] = calls[m]
    BY <1>4, <1>5, <1>6
  <2>2. {calls'[j].block : j \in 1 .. m - 1} = {calls[j].block : j \in 1 .. m - 1}
    BY <1>4, <1>6
  <2>3. calls[m].step = "kids"
    BY <1>4, <2>1 DEF GoodCall
  <2>4. m < l => calls'[m + 1].block \in TheTree(prog)[calls'[m].block] \ calls'[m].kids
    BY <1>4, <1>6, <2>1 DEF GoodCall
  <2>q. QED
    BY <1>6, <2>1, <2>2, <2>3, <2>4 DEF GoodCall
<1>8. CallsInv'
  BY <1>1, <1>6, <1>7 DEF CallsInv
<1>9. ASSUME calls' # <<>>
      PROVE  /\ l \in 1 .. l + 1 /\ Top' = calls[l]
             /\ Top'.step = "kids" /\ Top'.pos = Len(prog.code[Top'.block]) + 1
             /\ Top.block \in Reachable(prog.succ) \ {Entry}
             /\ ImmediateDom(prog.succ, Top.block) = Top'.block
  <2>1. l \in 1 .. l
    BY <1>4, <1>6, <1>9, EmptySeq
  <2>2. Top' = calls[l]
    BY <1>6, <2>1 DEF Top
  <2>3. GoodCall(prog, calls, l) /\ l < Len(calls)
    <3>1. l \in 1 .. l + 1 /\ l < l + 1
      BY <1>4, <2>1
    <3>q. QED
      BY <1>4, <1>5, <3>1
  <2>4. calls[l].block \in Block
    BY <1>2, <2>3, ReachableStep DEF GoodCall
  <2>5. Top.block \in TheTree(prog)[calls[l].block]
    BY <1>3, <1>4, <2>3 DEF GoodCall
  <2>6. Top.block \in Reachable(prog.succ) \ {Entry} /\ ImmediateDom(prog.succ, Top.block) = calls[l].block
    BY <2>4, <2>5 DEF TheTree
  <2>q. QED
    BY <1>4, <2>1, <2>2, <2>3, <2>6 DEF GoodCall
<1>10. ASSUME calls' = <<>> PROVE Len(calls) = 1 /\ Top.block = Entry
  <2>1. Len(calls') = 0
    BY <1>10
  <2>2. Len(calls) = 1
    BY <1>4, <1>6, <2>1
  <2>3. GoodCall(prog, calls, 1) /\ Top = calls[1]
    BY <1>3, <1>4, <1>5, <2>2
  <2>4. StrictDoms(prog.succ, Top.block) = {} /\ Top.block \in Reachable(prog.succ)
    BY <2>3 DEF GoodCall
  <2>5. Entry \in Block /\ Dominates(prog.succ, Entry, Top.block)
    BY <1>2, EntryDominates DEF IsSucc
  <2>q. QED
    BY <2>2, <2>4, <2>5 DEF StrictDoms
<1>q. QED
  BY <1>1, <1>3, <1>4, <1>6, <1>8, <1>9, <1>10 DEF l

\* The blocks above the one that is visited are those of the calls below.
LEMMA ThePath ==
  ASSUME NEW p, IsProgram(p), NEW cs \in Seq(CallsOf(p)), cs # <<>>,
         \A m \in 1 .. Len(cs) : GoodCall(p, cs, m)
  PROVE  /\ Len(cs) \in Nat \ {0}
         /\ \A n \in 1 .. Len(cs) : \A m \in 1 .. n - 1 :
              /\ m \in 1 .. Len(cs) /\ m < Len(cs)
              /\ cs[m].block \in StrictDoms(p.succ, cs[n].block) /\ cs[m].block # cs[n].block
              /\ cs[m].step = "kids" /\ cs[m].pos = Len(p.code[cs[m].block]) + 1
         /\ \A n \in 1 .. Len(cs) : \A d \in StrictDoms(p.succ, cs[n].block) :
              \E m \in 1 .. n - 1 : cs[m].block = d
<1> DEFINE l == Len(cs)
<1>1. l \in Nat \ {0}
  BY EmptySeq
<1>2. \A m \in 1 .. l : GoodCall(p, cs, m)
  OBVIOUS
<1> HIDE DEF l
<1>3. ASSUME NEW n \in 1 .. l, NEW m \in 1 .. n - 1
      PROVE  /\ m \in 1 .. l /\ m < l
             /\ cs[m].block \in StrictDoms(p.succ, cs[n].block) /\ cs[m].block # cs[n].block
             /\ cs[m].step = "kids" /\ cs[m].pos = Len(p.code[cs[m].block]) + 1
  <2>1. m \in 1 .. l /\ m < l
    BY <1>1
  <2>2. cs[m].block \in StrictDoms(p.succ, cs[n].block)
    BY <1>2 DEF GoodCall
  <2>3. cs[m].step = "kids"
    BY <1>2, <2>1 DEF GoodCall, l
  <2>q. QED
    BY <1>2, <2>1, <2>2, <2>3 DEF GoodCall, StrictDoms
<1>4. ASSUME NEW n \in 1 .. l, NEW d \in StrictDoms(p.succ, cs[n].block)
      PROVE  \E m \in 1 .. n - 1 : cs[m].block = d
  <2>1. StrictDoms(p.succ, cs[n].block) = {cs[j].block : j \in 1 .. n - 1}
    BY <1>2 DEF GoodCall
  <2>q. QED
    BY <2>1
<1>q. QED
  BY <1>1, <1>3, <1>4 DEF l

\* No two children of a block dominate the same block.
LEMMA Siblings ==
  ASSUME NEW p, IsProgram(p), NEW x, NEW c \in TheTree(p)[x], NEW d \in TheTree(p)[x], x \in Block,
         NEW b \in Reachable(p.succ), Dominates(p.succ, c, b), Dominates(p.succ, d, b)
  PROVE  c = d
<1>1. /\ IsSucc(p.succ) /\ c \in Reachable(p.succ) \ {Entry} /\ d \in Reachable(p.succ) \ {Entry}
      /\ ImmediateDom(p.succ, c) = x /\ ImmediateDom(p.succ, d) = x
  BY Code DEF TheTree
<1>2. /\ StrictDoms(p.succ, c) = StrictDoms(p.succ, x) \cup {x}
      /\ StrictDoms(p.succ, d) = StrictDoms(p.succ, x) \cup {x}
      /\ c \in Block /\ d \in Block
  BY <1>1, BlockAssumption, DominatorsOfChild, ReachableStep
<1>3. ASSUME NEW e, NEW f, e \in Block, f \in Block, e # f, Dominates(p.succ, e, f),
             StrictDoms(p.succ, e) = StrictDoms(p.succ, f)
      PROVE  FALSE
  BY <1>3 DEF StrictDoms
<1>4. Dominates(p.succ, c, d) \/ Dominates(p.succ, d, c)
  BY <1>1, DominatorsOrdered
<1>5. StrictDoms(p.succ, c) = StrictDoms(p.succ, d)
  BY <1>2
<1>q. QED
  BY <1>2, <1>3, <1>4, <1>5

-----------------------------------------------------------------------------
(* How far the walk has come: the blocks it has visited, those it has left,   *)
(* those whose successors have their phi operands, and the instructions it    *)
(* has passed.                                                                *)

\* A child that is still to be visited stands for all that it dominates.
Pending(p, cs) == {b \in Reachable(p.succ) : \E m \in 1 .. Len(cs) : \E k \in cs[m].kids : Dominates(p.succ, k, b)}

Seen(p, cs) == Reachable(p.succ) \ Pending(p, cs)

LeftBy(p, cs) == {b \in Seen(p, cs) : \A m \in 1 .. Len(cs) : cs[m].block # b}

FilledBy(p, cs) == {b \in Seen(p, cs) : \A m \in 1 .. Len(cs) : cs[m].block = b => cs[m].step = "kids"}

PassedBy(p, cs) == {i \in Placed(p) : /\ i[1] \in Seen(p, cs)
                                      /\ \A m \in 1 .. Len(cs) : cs[m].block = i[1] => i[2] < cs[m].pos}

Left   == IF Started THEN LeftBy(prog, calls) ELSE {}
Filled == IF Started THEN FilledBy(prog, calls) ELSE {}
Passed == IF Started THEN PassedBy(prog, calls) ELSE {}

\* Where the walk is.
PlaceOf(c) == <<c.block, IF c.step = "phis" THEN 0 ELSE c.pos>>

\* The blocks of calls in progress have been visited.
LEMMA PathIsSeen ==
  ASSUME NEW p, IsProgram(p), NEW cs \in Seq(CallsOf(p)), cs # <<>>,
         \A m \in 1 .. Len(cs) : GoodCall(p, cs, m),
         NEW n \in 1 .. Len(cs)
  PROVE  cs[n].block \in Seen(p, cs)
<1>1. IsSucc(p.succ) /\ cs[n].block \in Reachable(p.succ)
  BY Code DEF GoodCall
<1>2. Len(cs) \in Nat \ {0}
  BY EmptySeq
<1>3. ASSUME NEW m \in 1 .. Len(cs), NEW c \in cs[m].kids, Dominates(p.succ, c, cs[n].block)
      PROVE  FALSE
  <2>1. GoodCall(p, cs, m) /\ GoodCall(p, cs, n)
    OBVIOUS
  <2>2. cs[m] \in CallsOf(p)
    BY ElementOfSeq
  <2>3. cs[m].step \in {"phis", "instr", "kids"} /\ cs[m].block \in Block
    BY <2>2 DEF CallsOf
  <2>4. c \in TheTree(p)[cs[m].block]
    BY <2>1, <2>3 DEF GoodCall
  <2>5. /\ c \in Reachable(p.succ) \ {Entry} /\ c # cs[m].block
        /\ cs[m].block \in StrictDoms(p.succ, c)
    BY <1>1, <2>3, <2>4, BlockAssumption, DominatorsOfChild DEF TheTree
  <2>6. CASE m < n
    <3>1. m + 1 \in 1 .. Len(cs) /\ m < Len(cs)
      BY <1>2, <2>6
    <3>2. cs[m + 1].block \in TheTree(p)[cs[m].block] \ cs[m].kids
      BY <2>1, <3>1 DEF GoodCall
    <3>3. Dominates(p.succ, cs[m + 1].block, cs[n].block)
      <4>1. CASE m + 1 = n
        BY <1>1, <4>1, DominatesItself, ReachableStep
      <4>2. CASE m + 1 # n
        <5>1. m + 1 \in 1 .. n - 1
          BY <1>2, <2>6, <4>2
        <5>2. cs[m + 1].block \in StrictDoms(p.succ, cs[n].block)
          BY <5>1, ThePath
        <5>q. QED
          BY <5>2 DEF StrictDoms
      <4>q. QED
        BY <4>1, <4>2
    <3>4. c = cs[m + 1].block
      <4> DEFINE x == cs[m].block
                 d == cs[m + 1].block
                 b == cs[n].block
      <4>1. /\ c \in TheTree(p)[x] /\ d \in TheTree(p)[x] /\ x \in Block /\ b \in Reachable(p.succ)
            /\ Dominates(p.succ, c, b) /\ Dominates(p.succ, d, b)
        BY <1>1, <1>3, <2>3, <2>4, <3>2, <3>3
      <4> HIDE DEF x, d, b
      <4>2. c = d
        BY <4>1, Siblings
      <4>q. QED
        BY <4>2 DEF d
    <3>q. QED
      BY <3>2, <3>4
  <2>7. CASE ~(m < n)
    <3>1. Dominates(p.succ, cs[n].block, cs[m].block)
      <4>1. CASE m = n
        BY <1>1, <4>1, DominatesItself, ReachableStep
      <4>2. CASE m # n
        <5>1. n \in 1 .. m - 1
          BY <1>2, <2>7, <4>2
        <5>2. cs[n].block \in StrictDoms(p.succ, cs[m].block)
          BY <5>1, ThePath
        <5>q. QED
          BY <5>2 DEF StrictDoms
      <4>q. QED
        BY <4>1, <4>2
    <3>2. Dominates(p.succ, c, cs[m].block)
      BY <1>1, <1>3, <3>1, DominatesTransitive
    <3>3. Dominates(p.succ, cs[m].block, c)
      BY <2>5 DEF StrictDoms
    <3>q. QED
      BY <1>1, <2>5, <3>2, <3>3, DominatesAntisymmetric
  <2>q. QED
    BY <2>6, <2>7
<1>q. QED
  BY <1>1, <1>3 DEF Seen, Pending

\* What re_name does to the call on top moves on in its block, or comes to its end.
LEMMA TopMoves ==
  ASSUME TypeInv, Untouched, PhiInv, CallsInv, calls # <<>>, NEW c \in CallsOf(prog), SetTop(c),
         UNCHANGED <<prog, phase>>, phase = "rename",
         c.block = Top.block, c.kids = Top.kids, Top.step # "kids", c.step # "phis",
         c.step = "kids" => c.pos = Len(prog.code[c.block]) + 1,
         Top.pos <= c.pos
  PROVE  /\ CallsInv' /\ calls' # <<>> /\ Top' = c
         /\ Top.block \in Reachable(prog.succ)
         /\ Left' = Left
         /\ Filled' = Filled \cup (IF c.step = "kids" THEN {Top.block} ELSE {})
         /\ Passed' = Passed \cup {i \in Placed(prog) : i[1] = Top.block /\ Top.pos <= i[2] /\ i[2] < c.pos}
<1> DEFINE l == Len(calls)
<1>1. /\ IsProgram(prog) /\ IsSucc(prog.succ) /\ Started /\ Started'
      /\ calls \in Seq(CallsOf(prog)) /\ \A m \in 1 .. l : GoodCall(prog, calls, m)
      /\ prog' = prog
  BY StartedByCalls DEF TypeInv, CallsInv, Started
<1>2. /\ calls' # <<>> /\ Len(calls') = l
      /\ \A m \in 1 .. l : calls'[m] = IF m = l THEN c ELSE calls[m]
      /\ Top = calls[l] /\ l \in Nat \ {0} /\ l \in 1 .. l /\ Top' = c /\ Top.pos \in Nat
  BY TopReplaced, TheTop
<1>3. CallsInv'
  BY SetTopCalls
<1>4. \A m \in 1 .. l : calls'[m].block = calls[m].block /\ calls'[m].kids = calls[m].kids
  BY <1>2
<1>5. Seen(prog, calls') = Seen(prog, calls)
  BY <1>2, <1>4 DEF Seen, Pending
<1>6. Top.block \in Seen(prog, calls) /\ Top.block \in Reachable(prog.succ)
  <2>1. calls[l].block \in Seen(prog, calls)
    BY <1>1, <1>2, PathIsSeen
  <2>q. QED
    BY <1>2, <2>1 DEF Seen
<1>7. \A m \in 1 .. l : calls[m].block = Top.block => m = l
  <2> SUFFICES ASSUME NEW m \in 1 .. l, calls[m].block = Top.block, m # l PROVE FALSE
    OBVIOUS
  <2>1. m \in 1 .. l - 1
    BY <1>2
  <2>2. calls[m].block # calls[l].block
    BY <1>1, <1>2, <2>1, ThePath
  <2>q. QED
    BY <1>2, <2>2
<1> HIDE DEF l
<1>8. LeftBy(prog, calls') = LeftBy(prog, calls)
  BY <1>2, <1>4, <1>5 DEF LeftBy, l
<1>9. FilledBy(prog, calls') = FilledBy(prog, calls) \cup (IF c.step = "kids" THEN {Top.block} ELSE {})
  <2>1. ASSUME NEW b \in Seen(prog, calls), b # Top.block
        PROVE  b \in FilledBy(prog, calls') <=> b \in FilledBy(prog, calls)
    <3>1. \A m \in 1 .. l : calls[m].block = b => calls'[m].step = calls[m].step
      BY <1>2, <2>1
    <3>q. QED
      BY <1>2, <1>4, <1>5, <3>1 DEF FilledBy, l
  <2>2. Top.block \notin FilledBy(prog, calls)
    BY <1>2 DEF FilledBy, l
  <2>3. Top.block \in FilledBy(prog, calls') <=> c.step = "kids"
    BY <1>2, <1>4, <1>5, <1>6, <1>7 DEF FilledBy, l
  <2>4. FilledBy(prog, calls) \subseteq Seen(prog, calls) /\ FilledBy(prog, calls') \subseteq Seen(prog, calls)
    BY <1>5 DEF FilledBy
  <2>q. QED
    BY <2>1, <2>2, <2>3, <2>4
<1>10. PassedBy(prog, calls') = PassedBy(prog, calls) \cup {i \in Placed(prog) : i[1] = Top.block /\ Top.pos <= i[2] /\ i[2] < c.pos}
  <2>1. ASSUME NEW i \in Placed(prog), i[1] # Top.block
        PROVE  i \in PassedBy(prog, calls') <=> i \in PassedBy(prog, calls)
    <3>1. \A m \in 1 .. l : calls[m].block = i[1] => calls'[m].pos = calls[m].pos
      BY <1>2, <2>1
    <3>q. QED
      BY <1>2, <1>4, <1>5, <3>1 DEF PassedBy, l
  <2>2. ASSUME NEW i \in Placed(prog), i[1] = Top.block
        PROVE  /\ i \in PassedBy(prog, calls') <=> i[2] < c.pos
               /\ i \in PassedBy(prog, calls) <=> i[2] < Top.pos
    BY <1>2, <1>4, <1>5, <1>6, <1>7, <2>2 DEF PassedBy, l
  <2>3. ASSUME NEW i \in Placed(prog)
        PROVE  i[2] < c.pos <=> i[2] < Top.pos \/ (Top.pos <= i[2] /\ i[2] < c.pos)
    <3>1. i[2] \in Int /\ c.pos \in Int
      <4>1. i[1] \in Block /\ i[2] \in 1 .. Len(prog.code[i[1]])
        BY <1>1, Code
      <4>2. Len(prog.code[i[1]]) \in Nat
        BY <1>1, <4>1, Code
      <4>q. QED
        BY <4>1, <4>2 DEF CallsOf
    <3>q. QED
      BY <1>2, <3>1
  <2>4. PassedBy(prog, calls) \subseteq Placed(prog) /\ PassedBy(prog, calls') \subseteq Placed(prog)
    BY DEF PassedBy
  <2>q. QED
    BY <2>1, <2>2, <2>3, <2>4
<1>q. QED
  BY <1>1, <1>2, <1>3, <1>6, <1>8, <1>9, <1>10 DEF Left, Filled, Passed

LEMMA ReNameMoves ==
  ASSUME TypeInv, Untouched, PhiInv, ReName
  PROVE  /\ CallsInv' /\ Started' /\ ~Started
         /\ calls' # <<>> /\ Top' = Call(Entry)
         /\ Left' = {} /\ Filled' = {} /\ Passed' = {}
<1>1. /\ IsProgram(prog) /\ IsSucc(prog.succ) /\ phase = "phi" /\ phase' = "rename" /\ prog' = prog
      /\ calls' = <<Call(Entry)>> /\ tree = TheTree(prog)
  BY ProgramsAssumption, Code DEF TypeInv, ReName, PhiInv
<1>2. /\ CallsInv' /\ Started' /\ ~Started
      /\ calls' # <<>> /\ Top' = Call(Entry) /\ Len(calls') = 1 /\ calls'[1] = Call(Entry)
  BY <1>1, ReNameCalls DEF Started, Top
<1>3. /\ Call(Entry).block = Entry /\ Call(Entry).step = "phis" /\ Call(Entry).pos = 1
      /\ Call(Entry).kids = TheTree(prog)[Entry]
  BY <1>1 DEF Call
<1>4. ASSUME NEW b \in Reachable(prog.succ), b # Entry PROVE b \in Pending(prog, calls')
  <2>1. Entry \in StrictDoms(prog.succ, b)
    BY <1>1, <1>4, EntryDominates DEF StrictDoms, IsSucc
  <2>2. PICK k \in Reachable(prog.succ) \ {Entry} :
               ImmediateDom(prog.succ, k) = Entry /\ Dominates(prog.succ, k, b)
    BY <1>1, <2>1, BlockAssumption, ChildAbove
  <2>3. k \in calls'[1].kids
    BY <1>2, <1>3, <2>2, BlockAssumption DEF TheTree
  <2>4. 1 \in 1 .. Len(calls')
    BY <1>2
  <2>q. QED
    BY <2>2, <2>3, <2>4 DEF Pending
<1>5. Seen(prog, calls') \subseteq {Entry}
  BY <1>4 DEF Seen
<1>6. \A i \in Placed(prog) : ~(i[2] < 1)
  <2> SUFFICES ASSUME NEW i \in Placed(prog), i[2] < 1 PROVE FALSE
    OBVIOUS
  <2>1. i[1] \in Block /\ i[2] \in 1 .. Len(prog.code[i[1]])
    BY <1>1, Code
  <2>q. QED
    BY <2>1
<1>7. 1 \in 1 .. Len(calls') /\ calls'[1].block = Entry /\ calls'[1].step = "phis" /\ calls'[1].pos = 1
  BY <1>2, <1>3
<1>8. LeftBy(prog, calls') = {}
  BY <1>5, <1>7 DEF LeftBy
<1>9. FilledBy(prog, calls') = {}
  BY <1>5, <1>7 DEF FilledBy
<1>10. PassedBy(prog, calls') = {}
  BY <1>5, <1>6, <1>7 DEF PassedBy
<1>q. QED
  BY <1>1, <1>2, <1>8, <1>9, <1>10 DEF Left, Filled, Passed

LEMMA DescendMoves ==
  ASSUME TypeInv, Untouched, PhiInv, CallsInv, NEW k \in Block, Descend(k)
  PROVE  /\ CallsInv' /\ Started /\ Started' /\ calls # <<>> /\ calls' # <<>> /\ Top' = Call(k)
         /\ k \in Reachable(prog.succ) \ {Entry} /\ ImmediateDom(prog.succ, k) = Top.block
         /\ Left' = Left /\ Filled' = Filled /\ Passed' = Passed
<1> DEFINE l == Len(calls)
<1>1. /\ calls # <<>> /\ Top.step = "kids" /\ k \in Top.kids /\ phase = "rename"
      /\ prog' = prog /\ phase' = phase
  BY DEF Descend, InReName
<1>2. /\ IsProgram(prog) /\ IsSucc(prog.succ) /\ Started /\ Started' /\ tree = TheTree(prog)
  BY <1>1, StartedByCalls DEF Started
<1>3. /\ CallsInv' /\ calls' # <<>> /\ Top' = Call(k)
      /\ k \in Reachable(prog.succ) \ {Entry} /\ ImmediateDom(prog.succ, k) = Top.block
      /\ Len(calls') = l + 1
      /\ \A m \in 1 .. l :
              /\ calls'[m].block = calls[m].block /\ calls'[m].step = calls[m].step
              /\ calls'[m].pos = calls[m].pos
              /\ calls'[m].kids = IF m = l THEN calls[m].kids \ {k} ELSE calls[m].kids
      /\ calls'[l + 1] = Call(k)
  BY DescendCalls
<1>4. /\ Call(k).block = k /\ Call(k).step = "phis" /\ Call(k).pos = 1
      /\ Call(k).kids = TheTree(prog)[k]
  BY <1>2 DEF Call
<1>5. l \in Nat \ {0} /\ l \in 1 .. l /\ Top = calls[l] /\ calls \in Seq(CallsOf(prog))
  BY <1>1, TheTop DEF TypeInv
<1>6. calls' \in Seq(CallsOf(prog)) /\ \A m \in 1 .. l + 1 : GoodCall(prog, calls', m)
  <2>1. TypeInv'
    BY TypeStep DEF Next, Pass
  <2>q. QED
    BY <1>1, <1>3, <2>1 DEF TypeInv, CallsInv
<1> HIDE DEF l
<1>7. l + 1 \in 1 .. l + 1 /\ \A m : m \in 1 .. l + 1 <=> m \in 1 .. l \/ m = l + 1
  BY <1>5
<1>8. k \in Seen(prog, calls')
  BY <1>2, <1>3, <1>4, <1>6, <1>7, PathIsSeen
<1>9. k \in Pending(prog, calls)
  <2>1. Dominates(prog.succ, k, k) /\ k \in Top.kids
    BY <1>1, <1>2, DominatesItself
  <2>q. QED
    BY <1>3, <1>5, <2>1 DEF Pending, l
<1>10. ASSUME NEW b \in Reachable(prog.succ), b # k
       PROVE  b \in Pending(prog, calls') <=> b \in Pending(prog, calls)
  <2>1. ASSUME b \in Pending(prog, calls) PROVE b \in Pending(prog, calls')
    <3>1. PICK m \in 1 .. l : \E c \in calls[m].kids : Dominates(prog.succ, c, b)
      BY <2>1 DEF Pending, l
    <3>2. PICK c \in calls[m].kids : Dominates(prog.succ, c, b)
      BY <3>1
    <3>3. CASE c \in calls'[m].kids
      <4>1. m \in 1 .. Len(calls')
        BY <1>3, <1>7
      <4>q. QED
        BY <3>2, <3>3, <4>1 DEF Pending
    <3>4. CASE c \notin calls'[m].kids
      <4>1. c = k
        BY <1>3, <3>4
      <4>2. k \in StrictDoms(prog.succ, b)
        BY <1>10, <3>2, <4>1 DEF StrictDoms
      <4>3. PICK d \in Reachable(prog.succ) \ {Entry} :
                   ImmediateDom(prog.succ, d) = k /\ Dominates(prog.succ, d, b)
        BY <1>2, <4>2, BlockAssumption, ChildAbove
      <4>4. d \in calls'[l + 1].kids
        BY <1>3, <1>4, <4>3 DEF TheTree
      <4>5. l + 1 \in 1 .. Len(calls')
        BY <1>3, <1>7
      <4>q. QED
        BY <4>3, <4>4, <4>5 DEF Pending
    <3>q. QED
      BY <3>3, <3>4
  <2>2. ASSUME b \in Pending(prog, calls') PROVE b \in Pending(prog, calls)
    <3>1. PICK m \in 1 .. l + 1 : \E c \in calls'[m].kids : Dominates(prog.succ, c, b)
      BY <1>3, <2>2 DEF Pending
    <3>2. PICK c \in calls'[m].kids : Dominates(prog.succ, c, b)
      BY <3>1
    <3>3. CASE m \in 1 .. l
      <4>1. c \in calls[m].kids
        BY <1>3, <3>3
      <4>q. QED
        BY <3>2, <3>3, <4>1 DEF Pending, l
    <3>4. CASE m = l + 1
      <4>1. c \in Reachable(prog.succ) \ {Entry} /\ ImmediateDom(prog.succ, c) = k
        BY <1>3, <1>4, <3>4 DEF TheTree
      <4>2. k \in StrictDoms(prog.succ, c)
        BY <1>2, <4>1, BlockAssumption, DominatorsOfChild
      <4>3. Dominates(prog.succ, k, b)
        BY <1>2, <3>2, <4>2, DominatesTransitive DEF StrictDoms
      <4>q. QED
        BY <1>1, <1>5, <4>3 DEF Pending, l
    <3>q. QED
      BY <1>7, <3>3, <3>4
  <2>q. QED
    BY <2>1, <2>2
<1>11. Seen(prog, calls') = Seen(prog, calls) \cup {k} /\ k \notin Seen(prog, calls)
  BY <1>3, <1>8, <1>9, <1>10 DEF Seen
<1>12. \A i \in Placed(prog) : ~(i[2] < 1)
  <2> SUFFICES ASSUME NEW i \in Placed(prog), i[2] < 1 PROVE FALSE
    OBVIOUS
  <2>1. i[1] \in Block /\ i[2] \in 1 .. Len(prog.code[i[1]])
    BY <1>2, Code
  <2>q. QED
    BY <2>1
<1>13. Len(calls) = l /\ Len(calls') = l + 1
  BY <1>3 DEF l
<1>17. \A m \in 1 .. l : /\ calls'[m].block = calls[m].block /\ calls'[m].step = calls[m].step
                          /\ calls'[m].pos = calls[m].pos
  BY <1>3
<1>18. /\ calls'[l + 1].block = k /\ calls'[l + 1].step # "kids" /\ calls'[l + 1].pos = 1
       /\ l + 1 \in 1 .. l + 1
  BY <1>3, <1>4, <1>7
<1>14. LeftBy(prog, calls') = LeftBy(prog, calls)
  <2>1. ASSUME NEW b \in Seen(prog, calls)
        PROVE  b \in LeftBy(prog, calls') <=> b \in LeftBy(prog, calls)
    <3>1. b \in Seen(prog, calls') /\ b # k
      BY <1>11
    <3>q. QED
      BY ONLY <1>7, <1>13, <1>17, <1>18, <2>1, <3>1 DEF LeftBy
  <2>2. k \notin LeftBy(prog, calls')
    BY ONLY <1>13, <1>18 DEF LeftBy
  <2>q. QED
    BY ONLY <1>11, <2>1, <2>2 DEF LeftBy
<1>15. FilledBy(prog, calls') = FilledBy(prog, calls)
  <2>1. ASSUME NEW b \in Seen(prog, calls)
        PROVE  b \in FilledBy(prog, calls') <=> b \in FilledBy(prog, calls)
    <3>1. b \in Seen(prog, calls') /\ b # k
      BY <1>11
    <3>q. QED
      BY ONLY <1>7, <1>13, <1>17, <1>18, <2>1, <3>1 DEF FilledBy
  <2>2. k \notin FilledBy(prog, calls')
    BY ONLY <1>13, <1>18 DEF FilledBy
  <2>q. QED
    BY ONLY <1>11, <2>1, <2>2 DEF FilledBy
<1>16. PassedBy(prog, calls') = PassedBy(prog, calls)
  <2>1. ASSUME NEW i \in Placed(prog), i[1] \in Seen(prog, calls)
        PROVE  i \in PassedBy(prog, calls') <=> i \in PassedBy(prog, calls)
    <3>1. i[1] \in Seen(prog, calls') /\ i[1] # k
      BY <1>11, <2>1
    <3>q. QED
      BY ONLY <1>7, <1>13, <1>17, <1>18, <2>1, <3>1 DEF PassedBy
  <2>2. ASSUME NEW i \in Placed(prog), i[1] = k PROVE i \notin PassedBy(prog, calls')
    BY ONLY <1>12, <1>13, <1>18, <2>2 DEF PassedBy
  <2>q. QED
    BY ONLY <1>11, <2>1, <2>2 DEF PassedBy
<1>q. QED
  BY <1>1, <1>2, <1>3, <1>14, <1>15, <1>16 DEF Left, Filled, Passed

LEMMA ReturnMoves ==
  ASSUME TypeInv, Untouched, PhiInv, CallsInv, Return
  PROVE  /\ Started /\ Started' /\ Top.block \in Reachable(prog.succ)
         /\ Left' = Left \cup {Top.block} /\ Filled' = Filled /\ Passed' = Passed
<1> DEFINE l == Len(calls) - 1
<1>1. phase = "rename" /\ prog' = prog /\ phase' = phase
  BY DEF Return, InReName
<1>2. /\ calls # <<>> /\ Top.step = "kids" /\ Top.kids = {}
      /\ Len(calls') = l /\ \A m \in 1 .. l : calls'[m] = calls[m]
  BY ReturnCalls
<1>3. /\ IsProgram(prog) /\ Started /\ Started' /\ calls \in Seq(CallsOf(prog))
      /\ \A m \in 1 .. Len(calls) : GoodCall(prog, calls, m)
  BY <1>1, <1>2, StartedByCalls DEF TypeInv, CallsInv, Started
<1>4. l \in Nat /\ Len(calls) = l + 1 /\ Len(calls) \in 1 .. Len(calls) /\ Top = calls[l + 1]
  BY <1>2, TheTop
<1>5. Top.block \in Seen(prog, calls) /\ Top.block \in Reachable(prog.succ) /\ GoodCall(prog, calls, l + 1)
  <2>1. calls[Len(calls)].block \in Seen(prog, calls)
    BY <1>2, <1>3, <1>4, PathIsSeen
  <2>2. calls[Len(calls)] = Top
    BY <1>4
  <2>q. QED
    BY <1>3, <1>4, <2>1, <2>2 DEF Seen
<1>6. \A m \in 1 .. l : calls[m].block # Top.block
  <2> SUFFICES ASSUME NEW m \in 1 .. l, calls[m].block = Top.block PROVE FALSE
    OBVIOUS
  <2>1. m \in 1 .. Len(calls) - 1
    BY <1>4
  <2>2. calls[m].block # calls[Len(calls)].block
    BY <1>2, <1>3, <1>4, <2>1, ThePath
  <2>q. QED
    BY <1>4, <2>2
<1> HIDE DEF l
<1>7. \A m : m \in 1 .. l + 1 <=> m \in 1 .. l \/ m = l + 1
  BY <1>4
<1>8. Seen(prog, calls') = Seen(prog, calls)
  BY <1>2, <1>4, <1>7 DEF Seen, Pending
<1>9. LeftBy(prog, calls') = LeftBy(prog, calls) \cup {Top.block}
  BY <1>2, <1>4, <1>5, <1>6, <1>7, <1>8 DEF LeftBy
<1>10. FilledBy(prog, calls') = FilledBy(prog, calls)
  BY <1>2, <1>4, <1>6, <1>7, <1>8 DEF FilledBy
<1>11. PassedBy(prog, calls') = PassedBy(prog, calls)
  <2>1. ASSUME NEW i \in Placed(prog), i[1] = Top.block PROVE i[2] < Top.pos
    <3>1. i[2] \in 1 .. Len(prog.code[Top.block]) /\ Len(prog.code[Top.block]) \in Nat
      BY <1>3, <2>1, Code
    <3>2. Top.pos = Len(prog.code[Top.block]) + 1
      BY <1>2, <1>4, <1>5 DEF GoodCall
    <3>q. QED
      BY <3>1, <3>2
  <2>q. QED
    BY <1>2, <1>4, <1>6, <1>7, <1>8, <2>1 DEF PassedBy
<1>q. QED
  BY <1>1, <1>3, <1>5, <1>9, <1>10, <1>11 DEF Left, Filled, Passed

-----------------------------------------------------------------------------
(* The height of the stacks.                                                 *)

LEMMA DefsOfBlock ==
  ASSUME NEW p, IsProgram(p), NEW ph, NEW v, NEW b \in Block
  PROVE  /\ <<b, 0>> \in Defs(p, ph, v) <=> v \in ph[b]
         /\ \A n \in 1 .. Len(p.code[b]) :
              <<b, n>> \in Defs(p, ph, v) <=> p.code[b][n].op = "store" /\ p.code[b][n].var = v
<1>1. <<b, 0>> \notin Placed(p) /\ \A n \in 1 .. Len(p.code[b]) : <<b, n>> \in Placed(p) /\ n # 0
  BY Code
<1>q. QED
  BY <1>1 DEF Defs

LEMMA DefAt ==
  ASSUME NEW p, IsProgram(p), NEW ph, NEW v, NEW b \in Block, NEW n \in 1 .. Len(p.code[b])
  PROVE  <<b, n>> \in Defs(p, ph, v) <=> p.code[b][n].op = "store" /\ p.code[b][n].var = v
<1> DEFINE i == <<b, n>>
<1>1. i \in Placed(p) /\ i[1] = b /\ i[2] = n /\ n # 0
  BY Code
<1>2. i \notin {d \in Block : v \in ph[d]} \X {0}
  BY <1>1
<1> HIDE DEF i
<1>3. i \in Defs(p, ph, v) <=> p.code[i[1]][i[2]].op = "store" /\ p.code[i[1]][i[2]].var = v
  BY <1>1, <1>2 DEF Defs
<1>q. QED
  BY <1>1, <1>3 DEF i

\* What the call for b pushes for v lies between the head of b and its end.
LEMMA OwnDefs ==
  ASSUME NEW p, IsProgram(p), NEW ph, NEW v, NEW b \in Block
  PROVE  /\ DefsAbove(p, ph, <<b, 0>>, v) \subseteq DefsAbove(p, ph, EndOf(p, b), v)
         /\ Height(p, ph, EndOf(p, b), v)
              = Height(p, ph, <<b, 0>>, v) + Cardinality(ph[b] \cap {v})
                + Cardinality({n \in 1 .. Len(p.code[b]) : p.code[b][n].op = "store" /\ p.code[b][n].var = v})
<1> DEFINE N == {n \in 1 .. Len(p.code[b]) : p.code[b][n].op = "store" /\ p.code[b][n].var = v}
           D(n) == DefsAbove(p, ph, <<b, n>>, v)
           E == DefsAbove(p, ph, EndOf(p, b), v)
<1>1. Len(p.code[b]) \in Nat
  BY Code
<1>2. Height(p, ph, <<b, 1>>, v) = Height(p, ph, <<b, 0>>, v) + Cardinality(ph[b] \cap {v}) /\ D(0) \subseteq D(1)
  <2>1. 0 \in Nat /\ 0 + 1 = 1 /\ Height(p, ph, <<b, 0>>, v) \in Nat
    BY HeightType
  <2>2. CASE v \in ph[b]
    <3>1. Cardinality(ph[b] \cap {v}) = 1
      <4>1. ph[b] \cap {v} = {v}
        BY <2>2
      <4>q. QED
        BY <4>1, FS_Singleton
    <3>2. <<b, 0>> \in Defs(p, ph, v)
      BY <2>2, DefsOfBlock
    <3>3. /\ DefsAbove(p, ph, <<b, 0 + 1>>, v) = DefsAbove(p, ph, <<b, 0>>, v) \cup {<<b, 0>>}
          /\ Height(p, ph, <<b, 0 + 1>>, v) = Height(p, ph, <<b, 0>>, v) + 1
      BY <2>1, <3>2, NextPlace
    <3>q. QED
      BY <2>1, <3>1, <3>3
  <2>3. CASE v \notin ph[b]
    <3>1. Cardinality(ph[b] \cap {v}) = 0
      <4>1. ph[b] \cap {v} = {}
        BY <2>3
      <4>q. QED
        BY <4>1, FS_EmptySet
    <3>2. <<b, 0>> \notin Defs(p, ph, v)
      BY <2>3, DefsOfBlock
    <3>3. DefsAbove(p, ph, <<b, 0 + 1>>, v) = DefsAbove(p, ph, <<b, 0>>, v)
      BY <2>1, <3>2, NextPlace
    <3>4. Height(p, ph, <<b, 1>>, v) = Height(p, ph, <<b, 0>>, v)
      BY <2>1, <3>3 DEF Height
    <3>q. QED
      BY <2>1, <3>1, <3>3, <3>4
  <2>q. QED
    BY <2>2, <2>3
<1>3. IsFiniteSet(D(1)) /\ IsFiniteSet(N) /\ IsFiniteSet({b})
  <2>1. IsFiniteSet(1 .. Len(p.code[b]))
    BY <1>1, FS_Interval
  <2>2. N \in SUBSET (1 .. Len(p.code[b]))
    OBVIOUS
  <2>3. IsFiniteSet(D(1))
    BY HeightType
  <2> HIDE DEF N, D
  <2>q. QED
    BY <2>1, <2>2, <2>3, FS_Subset, FS_Singleton
<1>4. E = D(1) \cup ({b} \X N) /\ D(1) \cap ({b} \X N) = {}
  <2>1. ASSUME NEW s \in Defs(p, ph, v)
        PROVE  /\ s \in E <=> s \in D(1) \/ s \in {b} \X N
               /\ ~(s \in D(1) /\ s \in {b} \X N)
    <3>1. s = <<s[1], s[2]>> /\ s[1] \in Block /\ s[2] \in 0 .. Len(p.code[s[1]])
      BY DefsArePlaces
    <3>2. Len(p.code[s[1]]) \in Nat
      BY <3>1, Code
    <3>3. CASE s[1] # b
      BY <3>1, <3>3 DEF DefsAbove, Above, EndOf
    <3>4. CASE s[1] = b
      <4>1. s \in E
        BY <1>1, <3>1, <3>4 DEF DefsAbove, Above, EndOf
      <4>2. s \in D(1) <=> s[2] = 0
        BY <3>1, <3>2, <3>4 DEF DefsAbove, Above
      <4>3. CASE s[2] = 0
        <5>1. 0 \notin N
          BY <1>1
        <5> HIDE DEF N, D, E
        <5>2. s \notin {b} \X N
          BY <4>3, <5>1
        <5>q. QED
          BY <4>1, <4>2, <4>3, <5>2
      <4>4. CASE s[2] # 0
        <5>1. s[2] \in 1 .. Len(p.code[b]) /\ s = <<b, s[2]>>
          BY <3>1, <3>2, <3>4, <4>4
        <5>2. s[2] \in N
          <6> DEFINE n == s[2]
          <6>1. <<b, n>> \in Defs(p, ph, v) /\ n \in 1 .. Len(p.code[b])
            BY <5>1
          <6> HIDE DEF n
          <6>2. p.code[b][n].op = "store" /\ p.code[b][n].var = v
            BY <6>1, DefAt
          <6>q. QED
            BY <6>1, <6>2 DEF n
        <5> HIDE DEF N, D, E
        <5>3. s \in {b} \X N
          BY <5>1, <5>2
        <5>4. s \notin D(1)
          BY <4>2, <4>4
        <5>q. QED
          BY <4>1, <5>3, <5>4
      <4>q. QED
        BY <4>3, <4>4
    <3>q. QED
      BY <3>3, <3>4
  <2>2. ASSUME NEW n \in N PROVE <<b, n>> \in Defs(p, ph, v)
    BY DefsOfBlock
  <2>3. E \subseteq Defs(p, ph, v) /\ D(1) \subseteq Defs(p, ph, v) /\ {b} \X N \subseteq Defs(p, ph, v)
    <3>1. ASSUME NEW s \in {b} \X N PROVE s \in Defs(p, ph, v)
      <4>1. s = <<b, s[2]>> /\ s[2] \in N
        OBVIOUS
      <4> HIDE DEF N
      <4>2. <<b, s[2]>> \in Defs(p, ph, v)
        BY <2>2, <4>1
      <4>q. QED
        BY <4>1, <4>2
    <3>q. QED
      BY <3>1 DEF DefsAbove
  <2> HIDE DEF D, E, N
  <2>q. QED
    BY <2>1, <2>3
<1> HIDE DEF N
<1>5. Cardinality({b} \X N) = Cardinality(N) /\ IsFiniteSet({b} \X N)
  <2>1. Cardinality({b} \X N) = Cardinality({b}) * Cardinality(N) /\ IsFiniteSet({b} \X N)
    BY <1>3, FS_Product
  <2>2. Cardinality({b}) = 1 /\ Cardinality(N) \in Nat
    BY <1>3, FS_Singleton, FS_CardinalityType
  <2>q. QED
    BY <2>1, <2>2
<1>6. Cardinality(E) = Cardinality(D(1)) + Cardinality(N)
  <2>1. Cardinality(D(1) \cup ({b} \X N)) = Cardinality(D(1)) + Cardinality({b} \X N) - Cardinality(D(1) \cap ({b} \X N))
    BY <1>3, <1>5, FS_Union
  <2>2. Cardinality(D(1) \cap ({b} \X N)) = 0
    BY <1>4, FS_EmptySet
  <2>3. Cardinality(D(1)) \in Nat /\ Cardinality(N) \in Nat
    BY <1>3, FS_CardinalityType
  <2> HIDE DEF D, E
  <2>q. QED
    BY <1>4, <1>5, <2>1, <2>2, <2>3
<1>7. D(0) \subseteq E
  BY <1>2, <1>4
<1>q. QED
  BY <1>2, <1>6, <1>7 DEF Height, N

HeightInv ==
  /\ calls = <<>> => \A v \in Var : Len(stacks[v]) = 0
  /\ calls # <<>> => \A v \in Var : Len(stacks[v]) = Height(prog, phis, PlaceOf(Top), v)

LEMMA HeightInit == Init => HeightInv
BY DEF Init, HeightInv

\* re_name starts: nothing is above the head of the entry block.
LEMMA ReNameHeight ==
  ASSUME TypeInv, Untouched, PhiInv, ReName
  PROVE  HeightInv'
<1>1. calls' # <<>> /\ Top' = Call(Entry) /\ ~Started /\ IsProgram(prog) /\ prog' = prog /\ phis' = phis
  BY ReNameMoves, ProgramsAssumption DEF TypeInv, ReName
<1>2. \A v \in Var : Len(stacks'[v]) = 0
  BY <1>1 DEF Untouched, ReName
<1>3. PlaceOf(Call(Entry)) = <<Entry, 0>>
  BY DEF PlaceOf, Call
<1>4. \A v \in Var : Height(prog, phis, <<Entry, 0>>, v) = 0
  <2> SUFFICES ASSUME NEW v \in Var PROVE Height(prog, phis, <<Entry, 0>>, v) = 0
    OBVIOUS
  <2>1. DefsAbove(prog, phis, <<Entry, 0>>, v) = {}
    BY <1>1, HeadOfEntry
  <2>q. QED
    BY <2>1, FS_EmptySet DEF Height
<1>q. QED
  BY <1>1, <1>2, <1>3, <1>4 DEF HeightInv

LEMMA PushPhisPlaces ==
  ASSUME TypeInv, Untouched, PhiInv, CallsInv, PushPhis
  PROVE  /\ CallsInv' /\ Started /\ Started' /\ calls # <<>> /\ calls' # <<>> /\ IsProgram(prog)
         /\ Top.block \in Reachable(prog.succ) /\ Top.block \in Block
         /\ PlaceOf(Top) = <<Top.block, 0>> /\ PlaceOf(Top)' = <<Top.block, 1>>
         /\ Left' = Left /\ Filled' = Filled /\ Passed' = Passed
         /\ Top'.block = Top.block
<1> DEFINE c == [Top EXCEPT !.step = "instr"]
<1>1. calls # <<>> /\ Top.step = "phis" /\ SetTop(c) /\ UNCHANGED <<prog, phase>> /\ phase = "rename"
  BY DEF PushPhis, InReName
<1>2. Started /\ Started' /\ IsProgram(prog)
  BY <1>1, StartedByCalls DEF Started
<1>3. Top.pos = 1
  <2>1. Len(calls) \in 1 .. Len(calls) /\ Top = calls[Len(calls)]
    BY <1>1, TheTop
  <2>2. GoodCall(prog, calls, Len(calls))
    BY <2>1 DEF CallsInv
  <2>q. QED
    BY <1>1, <2>1, <2>2 DEF GoodCall
<1>4. /\ c \in CallsOf(prog) /\ c.block = Top.block /\ c.kids = Top.kids /\ c.step = "instr"
      /\ c.pos = 1
  <2> DEFINE t == Top
  <2>1. t \in CallsOf(prog) /\ t.pos = 1
    BY <1>1, <1>3, TheTop
  <2> HIDE DEF t
  <2>2. /\ [t EXCEPT !.step = "instr"] \in CallsOf(prog) /\ [t EXCEPT !.step = "instr"].block = t.block
        /\ [t EXCEPT !.step = "instr"].kids = t.kids /\ [t EXCEPT !.step = "instr"].step = "instr"
        /\ [t EXCEPT !.step = "instr"].pos = 1
    BY <2>1 DEF CallsOf
  <2>q. QED
    BY <2>2 DEF t
<1> HIDE DEF c
<1>5. /\ CallsInv' /\ calls' # <<>> /\ Top' = c
      /\ Top.block \in Reachable(prog.succ)
      /\ Left' = Left
      /\ Filled' = Filled \cup (IF c.step = "kids" THEN {Top.block} ELSE {})
      /\ Passed' = Passed \cup {i \in Placed(prog) : i[1] = Top.block /\ Top.pos <= i[2] /\ i[2] < c.pos}
  <2>1. /\ Top.pos <= c.pos /\ Top.step # "kids" /\ c.step # "phis"
        /\ c.step = "kids" => c.pos = Len(prog.code[c.block]) + 1
        /\ UNCHANGED <<prog, phase>> /\ SetTop(c) /\ calls # <<>> /\ phase = "rename"
        /\ c \in CallsOf(prog) /\ c.block = Top.block /\ c.kids = Top.kids
    BY <1>1, <1>3, <1>4
  <2>q. QED
    BY ONLY <2>1, TypeInv, Untouched, PhiInv, CallsInv, TopMoves
<1>6. {i \in Placed(prog) : i[1] = Top.block /\ Top.pos <= i[2] /\ i[2] < c.pos} = {}
  <2>1. \A i \in Placed(prog) : i[1] \in Block /\ i[2] \in 1 .. Len(prog.code[i[1]])
    BY <1>2, Code
  <2>q. QED
    BY <1>4, <2>1
<1>7. Top.block \in Block
  BY <1>1, TheTop
<1>q. QED
  BY <1>1, <1>2, <1>4, <1>5, <1>6, <1>7 DEF PlaceOf

\* An instruction is passed.
LEMMA InstrPlaces ==
  ASSUME TypeInv, Untouched, PhiInv, CallsInv, InReName("instr"),
         Top.pos <= Len(prog.code[Top.block]), UNCHANGED <<prog, phase>>,
         \/ SetTop([Top EXCEPT !.pos = @ + 1])
         \/ SetTop([Top EXCEPT !.pos = @ + 1, !.wait_delete = @ \cup {<<Top.block, Top.pos>>}])
  PROVE  /\ CallsInv' /\ Started /\ Started' /\ calls # <<>> /\ calls' # <<>> /\ IsProgram(prog)
         /\ Top.block \in Reachable(prog.succ) /\ Top.block \in Block
         /\ Top.pos \in 1 .. Len(prog.code[Top.block]) /\ Top.pos \in Nat
         /\ <<Top.block, Top.pos>> \in Placed(prog)
         /\ PlaceOf(Top) = <<Top.block, Top.pos>> /\ PlaceOf(Top)' = <<Top.block, Top.pos + 1>>
         /\ Left' = Left /\ Filled' = Filled /\ Passed' = Passed \cup {<<Top.block, Top.pos>>}
         /\ Top'.block = Top.block
<1> DEFINE i == <<Top.block, Top.pos>>
<1>1. calls # <<>> /\ Top.step = "instr" /\ phase = "rename"
  BY DEF InReName
<1>2. Started /\ Started' /\ IsProgram(prog)
  BY <1>1, StartedByCalls DEF Started
<1>3. /\ Top.block \in Block /\ Top.pos \in 1 .. Len(prog.code[Top.block]) /\ Top.pos \in Nat
      /\ i \in Placed(prog) /\ Len(prog.code[Top.block]) \in Nat
  <2>1. /\ Top.block \in Block /\ Top.pos \in 1 .. Len(prog.code[Top.block]) /\ Top.pos \in Nat
        /\ Len(prog.code[Top.block]) \in Nat
    BY <1>1, TheTop
  <2>q. QED
    BY <1>2, <2>1, Code
<1>4. PICK c \in CallsOf(prog) : /\ SetTop(c) /\ c.block = Top.block /\ c.kids = Top.kids
                                 /\ c.step = "instr" /\ c.pos = Top.pos + 1
  <2> DEFINE t == Top
             j == <<t.block, t.pos>>
  <2>1. t \in CallsOf(prog) /\ j \in Placed(prog) /\ t.step = "instr"
    BY <1>1, <1>3, TheTop
  <2>2. SetTop([t EXCEPT !.pos = @ + 1]) \/ SetTop([t EXCEPT !.pos = @ + 1, !.wait_delete = @ \cup {j}])
    OBVIOUS
  <2> HIDE DEF t, j
  <2>3. t.pos + 1 \in Nat /\ t.wait_delete \cup {j} \in SUBSET Placed(prog)
    BY <2>1 DEF CallsOf
  <2> DEFINE n == t.pos + 1
             W == t.wait_delete \cup {j}
  <2> HIDE DEF n, W
  <2> DEFINE c1 == [t EXCEPT !.pos = n]
             c2 == [t EXCEPT !.pos = n, !.wait_delete = W]
  <2>4. c1 \in CallsOf(prog) /\ c1.block = t.block /\ c1.kids = t.kids /\ c1.step = "instr" /\ c1.pos = n
    BY <2>1, <2>3 DEF CallsOf, n
  <2>5. c2 \in CallsOf(prog) /\ c2.block = t.block /\ c2.kids = t.kids /\ c2.step = "instr" /\ c2.pos = n
    BY <2>1, <2>3 DEF CallsOf, n, W
  <2>6. SetTop(c1) \/ SetTop(c2)
    BY <2>2 DEF n, W
  <2> HIDE DEF c1, c2
  <2>q. QED
    BY <2>4, <2>5, <2>6 DEF n, t
<1>5. /\ CallsInv' /\ calls' # <<>> /\ Top' = c
      /\ Top.block \in Reachable(prog.succ)
      /\ Left' = Left
      /\ Filled' = Filled \cup (IF c.step = "kids" THEN {Top.block} ELSE {})
      /\ Passed' = Passed \cup {j \in Placed(prog) : j[1] = Top.block /\ Top.pos <= j[2] /\ j[2] < c.pos}
  <2>1. /\ Top.pos <= c.pos /\ Top.step # "kids" /\ c.step # "phis"
        /\ c.step = "kids" => c.pos = Len(prog.code[c.block]) + 1
        /\ UNCHANGED <<prog, phase>> /\ SetTop(c) /\ calls # <<>> /\ phase = "rename"
        /\ c \in CallsOf(prog) /\ c.block = Top.block /\ c.kids = Top.kids
    BY <1>1, <1>3, <1>4
  <2>q. QED
    BY ONLY <2>1, TypeInv, Untouched, PhiInv, CallsInv, TopMoves
<1>6. {j \in Placed(prog) : j[1] = Top.block /\ Top.pos <= j[2] /\ j[2] < c.pos} = {i}
  <2>1. ASSUME NEW j \in Placed(prog), j[1] = Top.block, Top.pos <= j[2], j[2] < c.pos PROVE j = i
    <3>1. j = <<j[1], j[2]>> /\ j[2] \in 1 .. Len(prog.code[Top.block])
      BY <1>2, <2>1, Code
    <3>2. j[2] = Top.pos
      BY <1>3, <1>4, <2>1, <3>1
    <3>q. QED
      BY <2>1, <3>1, <3>2
  <2>2. i[1] = Top.block /\ Top.pos <= i[2] /\ i[2] < c.pos
    BY <1>3, <1>4
  <2> HIDE DEF i
  <2>q. QED
    BY <1>3, <2>1, <2>2
<1>q. QED
  BY <1>1, <1>2, <1>3, <1>4, <1>5, <1>6 DEF PlaceOf

LEMMA FillPhisPlaces ==
  ASSUME TypeInv, Untouched, PhiInv, CallsInv, FillPhis, SetTop([Top EXCEPT !.step = "kids"]), phase' = phase
  PROVE  /\ CallsInv' /\ Started /\ Started' /\ calls # <<>> /\ calls' # <<>> /\ IsProgram(prog)
         /\ Top.block \in Reachable(prog.succ) /\ Top.block \in Block
         /\ PlaceOf(Top) = EndOf(prog, Top.block) /\ PlaceOf(Top)' = EndOf(prog, Top.block)
         /\ Left' = Left /\ Filled' = Filled \cup {Top.block} /\ Passed' = Passed
         /\ Top'.block = Top.block
<1> DEFINE c == [Top EXCEPT !.step = "kids"]
<1>1. /\ calls # <<>> /\ Top.step = "instr" /\ SetTop(c) /\ UNCHANGED <<prog, phase>> /\ phase = "rename"
      /\ Top.pos > Len(prog.code[Top.block])
  BY DEF FillPhis, InReName
<1>2. Started /\ Started' /\ IsProgram(prog)
  BY <1>1, StartedByCalls DEF Started
<1>3. Top.pos = Len(prog.code[Top.block]) + 1 /\ Top.block \in Block /\ Top.pos \in Nat
  BY <1>1, TheTop
<1>4. /\ c \in CallsOf(prog) /\ c.block = Top.block /\ c.kids = Top.kids /\ c.step = "kids"
      /\ c.pos = Top.pos
  <2> DEFINE t == Top
  <2>1. t \in CallsOf(prog)
    BY <1>1, TheTop
  <2> HIDE DEF t
  <2>2. /\ [t EXCEPT !.step = "kids"] \in CallsOf(prog) /\ [t EXCEPT !.step = "kids"].block = t.block
        /\ [t EXCEPT !.step = "kids"].kids = t.kids /\ [t EXCEPT !.step = "kids"].step = "kids"
        /\ [t EXCEPT !.step = "kids"].pos = t.pos
    BY <2>1 DEF CallsOf
  <2>q. QED
    BY <2>2 DEF t
<1> HIDE DEF c
<1>5. /\ CallsInv' /\ calls' # <<>> /\ Top' = c
      /\ Top.block \in Reachable(prog.succ)
      /\ Left' = Left
      /\ Filled' = Filled \cup (IF c.step = "kids" THEN {Top.block} ELSE {})
      /\ Passed' = Passed \cup {i \in Placed(prog) : i[1] = Top.block /\ Top.pos <= i[2] /\ i[2] < c.pos}
  <2>1. /\ Top.pos <= c.pos /\ Top.step # "kids" /\ c.step # "phis"
        /\ c.step = "kids" => c.pos = Len(prog.code[c.block]) + 1
        /\ UNCHANGED <<prog, phase>> /\ SetTop(c) /\ calls # <<>> /\ phase = "rename"
        /\ c \in CallsOf(prog) /\ c.block = Top.block /\ c.kids = Top.kids
    BY <1>1, <1>3, <1>4
  <2>q. QED
    BY ONLY <2>1, TypeInv, Untouched, PhiInv, CallsInv, TopMoves
<1>6. {i \in Placed(prog) : i[1] = Top.block /\ Top.pos <= i[2] /\ i[2] < c.pos} = {}
  <2>1. \A i \in Placed(prog) : i[1] = Top.block => i[2] \in 1 .. Len(prog.code[Top.block])
    BY <1>2, Code
  <2>q. QED
    BY <1>3, <1>4, <2>1
<1>q. QED
  BY <1>1, <1>2, <1>3, <1>4, <1>5, <1>6 DEF PlaceOf, EndOf

LEMMA PushPhisHeight ==
  ASSUME TypeInv, Untouched, PhiInv, CallsInv, HeightInv, PushPhis
  PROVE  HeightInv'
<1> DEFINE b == Top.block
<1>1. /\ calls # <<>> /\ calls' # <<>> /\ IsProgram(prog) /\ b \in Block
      /\ PlaceOf(Top) = <<b, 0>> /\ PlaceOf(Top)' = <<b, 1>>
  BY PushPhisPlaces
<1>2. prog' = prog /\ phis' = phis
  BY DEF PushPhis
<1> HIDE DEF b
<1>3. ASSUME NEW v \in Var PROVE Len(stacks'[v]) = Height(prog, phis, <<b, 1>>, v)
  <2>1. stacks[v] \in Seq(ValuesOf(prog)) /\ Len(stacks[v]) = Height(prog, phis, <<b, 0>>, v)
    BY <1>1 DEF TypeInv, HeightInv
  <2>2. stacks'[v] = IF v \in phis[b] THEN Append(stacks[v], <<"phi", b, v>>) ELSE stacks[v]
    BY DEF PushPhis, b
  <2>3. 0 \in Nat /\ 0 + 1 = 1
    OBVIOUS
  <2>4. CASE v \in phis[b]
    <3>1. Height(prog, phis, <<b, 0 + 1>>, v) = Height(prog, phis, <<b, 0>>, v) + 1
      BY <1>1, <2>3, <2>4, DefsOfBlock, NextPlace
    <3>2. Len(stacks'[v]) = Len(stacks[v]) + 1
      <4>1. <<"phi", b, v>> \in ValuesOf(prog)
        BY <1>1 DEF ValuesOf
      <4>q. QED
        BY <2>1, <2>2, <2>4, <4>1, AppendProperties
    <3>q. QED
      BY <2>1, <2>3, <3>1, <3>2
  <2>5. CASE v \notin phis[b]
    <3>1. DefsAbove(prog, phis, <<b, 0 + 1>>, v) = DefsAbove(prog, phis, <<b, 0>>, v)
      BY <1>1, <2>3, <2>5, DefsOfBlock, NextPlace
    <3>q. QED
      BY <2>1, <2>2, <2>3, <2>5, <3>1 DEF Height
  <2>q. QED
    BY <2>4, <2>5
<1>q. QED
  BY <1>1, <1>2, <1>3 DEF HeightInv

\* A load, or an instruction that is passed over, gives no variable a value.
LEMMA QuietHeight ==
  ASSUME TypeInv, Untouched, PhiInv, CallsInv, HeightInv, ReNameLoad \/ ReNameOther
  PROVE  HeightInv'
<1> DEFINE b == Top.block
           n == Top.pos
<1>1. /\ InReName("instr") /\ n <= Len(prog.code[b]) /\ UNCHANGED <<prog, phis, phase, stacks>>
      /\ prog.code[b][n].op # "store"
      /\ \/ SetTop([Top EXCEPT !.pos = @ + 1])
         \/ SetTop([Top EXCEPT !.pos = @ + 1, !.wait_delete = @ \cup {<<Top.block, Top.pos>>}])
  BY DEF ReNameLoad, ReNameOther, At
<1>2. /\ calls # <<>> /\ calls' # <<>> /\ IsProgram(prog) /\ b \in Block
      /\ n \in 1 .. Len(prog.code[b]) /\ n \in Nat
      /\ PlaceOf(Top) = <<b, n>> /\ PlaceOf(Top)' = <<b, n + 1>>
  BY <1>1, InstrPlaces
<1> HIDE DEF b, n
<1>3. ASSUME NEW v \in Var PROVE Len(stacks'[v]) = Height(prog, phis, <<b, n + 1>>, v)
  <2>1. Len(stacks[v]) = Height(prog, phis, <<b, n>>, v)
    BY <1>2 DEF HeightInv
  <2>2. <<b, n>> \notin Defs(prog, phis, v)
    BY <1>1, <1>2, DefAt
  <2>3. DefsAbove(prog, phis, <<b, n + 1>>, v) = DefsAbove(prog, phis, <<b, n>>, v)
    BY <1>2, <2>2, NextPlace
  <2>q. QED
    BY <1>1, <2>1, <2>3 DEF Height
<1>q. QED
  BY <1>1, <1>2, <1>3 DEF HeightInv

LEMMA ReNameStoreHeight ==
  ASSUME TypeInv, Untouched, PhiInv, CallsInv, HeightInv, ReNameStore
  PROVE  HeightInv'
<1> DEFINE b == Top.block
           n == Top.pos
           x == prog.code[b][n].var
           w == operand[b][n]
<1>1. /\ InReName("instr") /\ n <= Len(prog.code[b]) /\ UNCHANGED <<prog, phis, phase>>
      /\ prog.code[b][n].op = "store" /\ Push(x, w)
      /\ SetTop([Top EXCEPT !.pos = @ + 1, !.wait_delete = @ \cup {<<Top.block, Top.pos>>}])
  BY DEF ReNameStore, At
<1>2. /\ calls # <<>> /\ calls' # <<>> /\ IsProgram(prog) /\ b \in Block
      /\ n \in 1 .. Len(prog.code[b]) /\ n \in Nat
      /\ PlaceOf(Top) = <<b, n>> /\ PlaceOf(Top)' = <<b, n + 1>>
  BY <1>1, InstrPlaces
<1> HIDE DEF b, n
<1>3. w \in ValuesOf(prog) /\ x \in Var
  <2>1. operand[b] \in Seq(ValuesOf(prog)) /\ n \in 1 .. Len(operand[b])
    BY <1>2 DEF TypeInv
  <2>2. x \in Var
    BY <1>1, <1>2, Code
  <2>q. QED
    BY <2>1, <2>2, ElementOfSeq
<1> HIDE DEF w, x
<1>4. ASSUME NEW v \in Var PROVE Len(stacks'[v]) = Height(prog, phis, <<b, n + 1>>, v)
  <2>1. stacks[v] \in Seq(ValuesOf(prog)) /\ Len(stacks[v]) = Height(prog, phis, <<b, n>>, v)
    BY <1>2 DEF TypeInv, HeightInv
  <2>2. stacks'[v] = IF v = x THEN Append(stacks[v], w) ELSE stacks[v]
    BY <1>1 DEF Push, TypeInv
  <2>3. <<b, n>> \in Defs(prog, phis, v) <=> v = x
    BY <1>1, <1>2, DefAt DEF x
  <2>4. CASE v = x
    <3>1. Height(prog, phis, <<b, n + 1>>, v) = Height(prog, phis, <<b, n>>, v) + 1
      BY <1>2, <2>3, <2>4, NextPlace
    <3>2. Len(stacks'[v]) = Len(stacks[v]) + 1
      BY <1>3, <2>1, <2>2, <2>4, AppendProperties
    <3>q. QED
      BY <2>1, <3>1, <3>2
  <2>5. CASE v # x
    <3>1. DefsAbove(prog, phis, <<b, n + 1>>, v) = DefsAbove(prog, phis, <<b, n>>, v)
      BY <1>2, <2>3, <2>5, NextPlace
    <3>q. QED
      BY <2>1, <2>2, <2>5, <3>1 DEF Height
  <2>q. QED
    BY <2>4, <2>5
<1>q. QED
  BY <1>1, <1>2, <1>4 DEF HeightInv

LEMMA FillPhisHeight ==
  ASSUME TypeInv, Untouched, PhiInv, CallsInv, HeightInv, FillPhis
  PROVE  HeightInv'
<1>1. UNCHANGED <<prog, phis, stacks>>
  BY DEF FillPhis
<1>2. CASE SetTop([Top EXCEPT !.step = "kids"]) /\ phase' = phase
  <2>1. calls # <<>> /\ calls' # <<>> /\ PlaceOf(Top)' = PlaceOf(Top)
    BY <1>2, FillPhisPlaces
  <2>q. QED
    BY <1>1, <2>1 DEF HeightInv
<1>3. CASE calls' = calls
  BY <1>1, <1>3 DEF HeightInv, Top
<1>q. QED
  BY <1>2, <1>3 DEF FillPhis

\* The head of a child is behind the end of its parent.
LEMMA DescendHeight ==
  ASSUME TypeInv, Untouched, PhiInv, CallsInv, HeightInv, NEW k \in Block, Descend(k)
  PROVE  /\ HeightInv'
         /\ \A v : DefsAbove(prog, phis, PlaceOf(Call(k)), v) = DefsAbove(prog, phis, PlaceOf(Top), v)
         /\ PlaceOf(Top) = EndOf(prog, Top.block) /\ Top.block \in Reachable(prog.succ)
<1>1. UNCHANGED <<prog, phis, stacks>> /\ Top.step = "kids"
  BY DEF Descend, InReName
<1>2. /\ calls # <<>> /\ calls' # <<>> /\ Top' = Call(k)
      /\ k \in Reachable(prog.succ) \ {Entry} /\ ImmediateDom(prog.succ, k) = Top.block
      /\ IsProgram(prog)
  BY DescendMoves, StartedByCalls
<1>3. PlaceOf(Call(k)) = <<k, 0>>
  BY DEF PlaceOf, Call
<1>4. PlaceOf(Top) = EndOf(prog, Top.block) /\ Top.block \in Reachable(prog.succ)
  <2>1. Len(calls) \in 1 .. Len(calls) /\ Top = calls[Len(calls)]
    BY <1>2, TheTop
  <2>2. GoodCall(prog, calls, Len(calls))
    BY <2>1 DEF CallsInv
  <2>q. QED
    BY <1>1, <2>1, <2>2 DEF GoodCall, PlaceOf, EndOf
<1>5. ASSUME NEW v PROVE DefsAbove(prog, phis, <<k, 0>>, v) = DefsAbove(prog, phis, EndOf(prog, Top.block), v)
  BY <1>2, HeadOfChild
<1>6. \A v : Height(prog, phis, <<k, 0>>, v) = Height(prog, phis, EndOf(prog, Top.block), v)
  BY <1>5 DEF Height
<1>7. HeightInv'
  BY <1>1, <1>2, <1>3, <1>4, <1>6 DEF HeightInv
<1>q. QED
  BY <1>3, <1>4, <1>5, <1>7

\* What the call pops is what lies between the head of its block and the end; the rest
\* is what its parent had.
LEMMA ReturnHeight ==
  ASSUME TypeInv, Untouched, PhiInv, CallsInv, HeightInv, Return
  PROVE  /\ HeightInv'
         /\ calls' # <<>> =>
              /\ PlaceOf(Top') = EndOf(prog, Top'.block)
              /\ \A v \in Var : DefsAbove(prog, phis, PlaceOf(Top'), v) \subseteq DefsAbove(prog, phis, PlaceOf(Top), v)
         /\ \A v \in Var : /\ Len(stacks'[v]) \in Nat /\ Len(stacks'[v]) <= Len(stacks[v])
                           /\ \A m \in 1 .. Len(stacks'[v]) : stacks'[v][m] = stacks[v][m]
<1> DEFINE b == Top.block
<1>1. UNCHANGED <<prog, phis>> /\ Top.step = "kids"
  BY DEF Return, InReName
<1>2. /\ calls # <<>>
      /\ calls' # <<>> =>
              /\ Top'.step = "kids" /\ Top'.pos = Len(prog.code[Top'.block]) + 1
              /\ b \in Reachable(prog.succ) \ {Entry}
              /\ ImmediateDom(prog.succ, b) = Top'.block
      /\ calls' = <<>> => b = Entry
      /\ b \in Block /\ IsProgram(prog)
  BY ReturnCalls, StartedByCalls, TheTop
<1>3. PlaceOf(Top) = EndOf(prog, b)
  <2>1. Len(calls) \in 1 .. Len(calls) /\ Top = calls[Len(calls)]
    BY <1>2, TheTop
  <2>2. GoodCall(prog, calls, Len(calls))
    BY <2>1 DEF CallsInv
  <2>q. QED
    BY <1>1, <2>1, <2>2 DEF GoodCall, PlaceOf, EndOf
<1> HIDE DEF b
<1>4. ASSUME NEW v \in Var
      PROVE  /\ Len(stacks'[v]) = Height(prog, phis, <<b, 0>>, v)
             /\ Len(stacks'[v]) \in Nat /\ Len(stacks'[v]) <= Len(stacks[v])
             /\ \A m \in 1 .. Len(stacks'[v]) : stacks'[v][m] = stacks[v][m]
  <2> DEFINE h == Height(prog, phis, <<b, 0>>, v)
             st == stacks[v]
             V == ValuesOf(prog)
  <2>1. st \in Seq(V) /\ Len(st) = Height(prog, phis, EndOf(prog, b), v)
    BY <1>2, <1>3 DEF TypeInv, HeightInv
  <2>2. stacks'[v] = SubSeq(st, 1, Len(st) - Pushed(b, v))
    BY DEF Return, b
  <2>3. Len(st) = h + Pushed(b, v) /\ Pushed(b, v) \in Nat
    <3> DEFINE N == {n \in 1 .. Len(prog.code[b]) : prog.code[b][n].op = "store" /\ prog.code[b][n].var = v}
               P == phis[b] \cap {v}
    <3>1. Len(prog.code[b]) \in Nat
      BY <1>2, Code
    <3>2. IsFiniteSet(1 .. Len(prog.code[b])) /\ N \in SUBSET (1 .. Len(prog.code[b]))
      BY <3>1, FS_Interval
    <3>3. IsFiniteSet(P)
      BY FS_Singleton, FS_Intersection
    <3>4. Height(prog, phis, EndOf(prog, b), v) = h + Cardinality(P) + Cardinality(N)
      BY <1>2, OwnDefs
    <3>5. Pushed(b, v) = Cardinality(P) + Cardinality(N)
      BY DEF Pushed
    <3>6. h \in Nat
      BY <1>2, HeightType
    <3> HIDE DEF N, P, h, st
    <3>7. Cardinality(P) \in Nat /\ Cardinality(N) \in Nat
      <4>1. IsFiniteSet(N)
        BY <3>2, FS_Subset
      <4>q. QED
        BY <3>3, <4>1, FS_CardinalityType
    <3>q. QED
      BY <2>1, <3>4, <3>5, <3>6, <3>7
  <2>4. h \in Nat
    BY <1>2, HeightType
  <2> HIDE DEF h, st, V
  <2>5. Len(st) - Pushed(b, v) = h /\ h <= Len(st) /\ Len(st) \in Nat
    BY <2>1, <2>3, <2>4
  <2>6. \A m \in 1 .. h : st[m] \in V
    BY <2>1, <2>4, <2>5, ElementOfSeq
  <2>7. Len(SubSeq(st, 1, h)) = h /\ \A m \in 1 .. h : SubSeq(st, 1, h)[m] = st[m]
    BY <2>4, <2>6, SubSeqProperties
  <2>q. QED
    BY <2>2, <2>4, <2>5, <2>7 DEF h, st
<1>5. ASSUME calls' # <<>>
      PROVE  /\ PlaceOf(Top') = EndOf(prog, Top'.block)
             /\ \A v \in Var : /\ DefsAbove(prog, phis, PlaceOf(Top'), v) = DefsAbove(prog, phis, <<b, 0>>, v)
                               /\ Height(prog, phis, PlaceOf(Top'), v) = Height(prog, phis, <<b, 0>>, v)
  <2>1. PlaceOf(Top') = EndOf(prog, Top'.block)
    BY <1>2, <1>5 DEF PlaceOf, EndOf
  <2>2. ASSUME NEW v \in Var
        PROVE  DefsAbove(prog, phis, EndOf(prog, Top'.block), v) = DefsAbove(prog, phis, <<b, 0>>, v)
    BY <1>2, <1>5, HeadOfChild
  <2>q. QED
    BY <2>1, <2>2 DEF Height
<1>6. calls' = <<>> => \A v \in Var : Height(prog, phis, <<b, 0>>, v) = 0
  <2> SUFFICES ASSUME calls' = <<>>, NEW v \in Var PROVE Height(prog, phis, <<b, 0>>, v) = 0
    OBVIOUS
  <2>1. DefsAbove(prog, phis, <<b, 0>>, v) = {}
    BY <1>2, HeadOfEntry
  <2>q. QED
    BY <2>1, FS_EmptySet DEF Height
<1>7. \A v \in Var : DefsAbove(prog, phis, <<b, 0>>, v) \subseteq DefsAbove(prog, phis, PlaceOf(Top), v)
  BY <1>2, <1>3, OwnDefs
<1>8. HeightInv'
  <2>1. calls' = <<>> => \A v \in Var : Len(stacks'[v]) = 0
    BY <1>4, <1>6
  <2>2. calls' # <<>> => \A v \in Var : Len(stacks'[v]) = Height(prog, phis, PlaceOf(Top'), v)
    BY <1>4, <1>5
  <2>q. QED
    BY <1>1, <2>1, <2>2 DEF HeightInv, PlaceOf
<1>q. QED
  BY <1>4, <1>5, <1>7, <1>8

-----------------------------------------------------------------------------
(* The walk, of any function: types, calls and the height of the stacks.      *)

WalkInv == TypeInv /\ Untouched /\ PhiInv /\ CallsInv /\ HeightInv

LEMMA WalkInit == Init => WalkInv
BY TypeInit, PhiInit, CallsInit, HeightInit DEF WalkInv

LEMMA QuietCalls ==
  ASSUME CallsInv, HeightInv, UNCHANGED <<prog, calls, stacks, phis>>, phase' # "done" \/ calls = <<>>
  PROVE  CallsInv' /\ HeightInv'
BY DEF CallsInv, HeightInv, Top

LEMMA WalkStep == WalkInv /\ [Next]_vars => WalkInv'
<1> SUFFICES ASSUME WalkInv, [Next]_vars PROVE WalkInv'
  OBVIOUS
<1> USE DEF WalkInv
<1>0. TypeInv'
  BY TypeStep
<1>1. CASE RunDominators
  BY <1>0, <1>1, RunDominatorsStep, QuietCalls DEF RunDominators
<1>2. ASSUME NEW v \in Var, NextVar(v) PROVE WalkInv'
  BY <1>0, <1>2, NextVarStep, QuietCalls DEF NextVar
<1>3. ASSUME NEW b \in Block, InsertPhis(b) PROVE WalkInv'
  <2>1. UNCHANGED calls /\ phase' # "done" /\ calls = <<>> /\ ~Started /\ ~Started'
    BY <1>3 DEF InsertPhis, Untouched, Started
  <2>2. CallsInv' /\ HeightInv'
    BY <1>3, <2>1 DEF InsertPhis, CallsInv, HeightInv
  <2>q. QED
    BY <1>0, <1>3, <2>2, InsertPhisStep
<1>4. CASE ReName
  <2>1. Started' /\ CallsInv' /\ HeightInv'
    BY <1>4, ReNameMoves, ReNameHeight
  <2>2. PhiInv'
    BY <1>4 DEF ReName, PhiInv
  <2>q. QED
    BY <1>0, <2>1, <2>2 DEF Untouched
<1>5. CASE PushPhis
  <2>1. UNCHANGED <<prog, df, tree, todo, work, phis>>
    BY <1>5 DEF PushPhis
  <2>q. QED
    BY <1>0, <1>5, <2>1, PushPhisPlaces, PushPhisHeight, PhiFrame
<1>6. CASE ReNameLoad \/ ReNameOther
  <2>1. /\ InReName("instr") /\ Top.pos <= Len(prog.code[Top.block])
        /\ UNCHANGED <<prog, df, tree, todo, work, phis, phase>>
        /\ \/ SetTop([Top EXCEPT !.pos = @ + 1])
           \/ SetTop([Top EXCEPT !.pos = @ + 1, !.wait_delete = @ \cup {<<Top.block, Top.pos>>}])
    BY <1>6 DEF ReNameLoad, ReNameOther
  <2>2. Started /\ Started' /\ CallsInv'
    BY <2>1, InstrPlaces
  <2>q. QED
    BY <1>0, <1>6, <2>1, <2>2, QuietHeight, PhiFrame
<1>7. CASE ReNameStore
  <2>1. /\ InReName("instr") /\ Top.pos <= Len(prog.code[Top.block])
        /\ UNCHANGED <<prog, df, tree, todo, work, phis, phase>>
        /\ SetTop([Top EXCEPT !.pos = @ + 1, !.wait_delete = @ \cup {<<Top.block, Top.pos>>}])
    BY <1>7 DEF ReNameStore
  <2>2. Started /\ Started' /\ CallsInv'
    BY <2>1, InstrPlaces
  <2>q. QED
    BY <1>0, <1>7, <2>1, <2>2, ReNameStoreHeight, PhiFrame
<1>8. CASE FillPhis
  <2>1. UNCHANGED <<prog, df, tree, todo, work, phis>>
    BY <1>8 DEF FillPhis
  <2>2. HeightInv'
    BY <1>8, FillPhisHeight
  <2>3. CASE SetTop([Top EXCEPT !.step = "kids"]) /\ phase' = phase
    BY <1>0, <1>8, <2>1, <2>2, <2>3, FillPhisPlaces, PhiFrame
  <2>4. CASE phase' = "assert_failed" /\ calls' = calls
    <3>1. Started /\ Started'
      BY <1>8, <2>4 DEF FillPhis, InReName, Started
    <3>2. CallsInv'
      BY <2>1, <2>4 DEF CallsInv
    <3>q. QED
      BY <1>0, <2>1, <2>2, <3>1, <3>2, PhiFrame
  <2>q. QED
    BY <1>8, <2>3, <2>4 DEF FillPhis
<1>9. ASSUME NEW k \in Block, Descend(k) PROVE WalkInv'
  <2>1. UNCHANGED <<prog, df, tree, todo, work, phis>>
    BY <1>9 DEF Descend
  <2>q. QED
    BY <1>0, <1>9, <2>1, DescendMoves, DescendHeight, PhiFrame
<1>10. CASE Return
  <2>1. UNCHANGED <<prog, df, tree, todo, work, phis>>
    BY <1>10 DEF Return
  <2>q. QED
    BY <1>0, <1>10, <2>1, ReturnMoves, ReturnCalls, ReturnHeight, PhiFrame
<1>11. CASE RemoveAlloca
  <2>1. UNCHANGED <<prog, df, tree, todo, work, phis, calls, stacks>> /\ calls = <<>> /\ Started /\ Started'
    BY <1>11 DEF RemoveAlloca, Started, passvars
  <2>q. QED
    BY <1>0, <2>1, QuietCalls, PhiFrame
<1>12. CASE Execute \/ UNCHANGED vars
  <2>1. UNCHANGED <<prog, passvars, phase>>
    BY <1>12 DEF Execute, ExecInstr, ExecBranch, vars
  <2>2. UNCHANGED <<prog, df, tree, todo, work, phis, calls, stacks, args, operand, keys, erased, phase>>
    BY <2>1 DEF passvars
  <2>3. CallsInv' /\ HeightInv'
    BY <2>2 DEF CallsInv, HeightInv, Top
  <2>4. Untouched' /\ PhiInv'
    BY <2>2 DEF Untouched, PhiInv, Started
  <2>q. QED
    BY <1>0, <2>3, <2>4
<1>q. QED
  BY <1>1, <1>2, <1>3, <1>4, <1>5, <1>6, <1>7, <1>8, <1>9, <1>10, <1>11, <1>12 DEF Next, Pass

\* The stacks hold a value for each definition above the place where re_name is: those
\* are the ones that the calls in progress have passed.
LEMMA StacksMatch == WalkInv => StacksMatchCalls
<1> SUFFICES ASSUME WalkInv, NEW v \in Var
             PROVE  Len(stacks[v]) = Cardinality({s \in Sites(v) : \E c \in Range(calls) :
                                       c.block = s[1] /\ c.step # "phis" /\ s[2] < c.pos})
  BY DEF StacksMatchCalls
<1> USE DEF WalkInv
<1> DEFINE S == {s \in Sites(v) : \E c \in Range(calls) : c.block = s[1] /\ c.step # "phis" /\ s[2] < c.pos}
<1>1. CASE calls = <<>>
  <2>1. Range(calls) = {}
    BY <1>1 DEF Range
  <2>2. S = {}
    BY <2>1
  <2> HIDE DEF S
  <2>q. QED
    BY <1>1, <2>2, FS_EmptySet DEF HeightInv, S
<1>2. CASE calls # <<>>
  <2> DEFINE l == Len(calls)
             b == Top.block
  <2>1. /\ IsProgram(prog) /\ calls \in Seq(CallsOf(prog)) /\ \A m \in 1 .. l : GoodCall(prog, calls, m)
        /\ l \in Nat \ {0} /\ l \in 1 .. l /\ Top = calls[l] /\ b \in Block
        /\ DOMAIN calls = 1 .. l /\ Top.pos \in Nat
    <3>1. IsProgram(prog)
      BY <1>2, StartedByCalls
    <3>2. /\ l \in Nat \ {0} /\ Top = calls[l] /\ b \in Block /\ Top.pos \in Nat
      BY <1>2, TheTop
    <3>3. calls \in Seq(CallsOf(prog)) /\ \A m \in 1 .. l : GoodCall(prog, calls, m)
      BY DEF CallsInv, TypeInv
    <3>q. QED
      BY <3>1, <3>2, <3>3
  <2>5. /\ \A m \in 1 .. l - 1 :
              /\ m \in 1 .. l
              /\ calls[m].block \in StrictDoms(prog.succ, b) /\ calls[m].block # b
              /\ calls[m].step = "kids" /\ calls[m].pos = Len(prog.code[calls[m].block]) + 1
        /\ \A d \in StrictDoms(prog.succ, b) : \E m \in 1 .. l - 1 : calls[m].block = d
    <3>1. l \in 1 .. l /\ calls[l].block = b
      BY <2>1
    <3> HIDE DEF l, b, S
    <3>2. ASSUME NEW m \in 1 .. l - 1
          PROVE  /\ m \in 1 .. l
                 /\ calls[m].block \in StrictDoms(prog.succ, calls[l].block) /\ calls[m].block # calls[l].block
                 /\ calls[m].step = "kids" /\ calls[m].pos = Len(prog.code[calls[m].block]) + 1
      BY <1>2, <2>1, <3>1, ThePath DEF l
    <3>3. ASSUME NEW d \in StrictDoms(prog.succ, calls[l].block)
          PROVE  \E m \in 1 .. l - 1 : calls[m].block = d
      <4>1. StrictDoms(prog.succ, calls[l].block) = {calls[j].block : j \in 1 .. l - 1}
        BY <2>1, <3>1 DEF GoodCall
      <4>q. QED
        BY <3>3, <4>1
    <3>q. QED
      BY <3>1, <3>2, <3>3
  <2>2. Sites(v) = Defs(prog, phis, v)
    BY SameNames
  <2>3. ASSUME NEW s \in Defs(prog, phis, v)
        PROVE  s \in S <=> Above(prog, s, PlaceOf(Top))
    <3>1. s[1] \in Block /\ s[2] \in 0 .. Len(prog.code[s[1]]) /\ Len(prog.code[s[1]]) \in Nat
      BY <2>1, DefsArePlaces, Code
    <3>2. s \in S <=> \E m \in 1 .. l : calls[m].block = s[1] /\ calls[m].step # "phis" /\ s[2] < calls[m].pos
      BY <2>1, <2>2 DEF Range
    <3> HIDE DEF S, l
    <3>3. CASE s[1] = b
      <4>1. \A m \in 1 .. l : calls[m].block = b => m = l
        <5> SUFFICES ASSUME NEW m \in 1 .. l, calls[m].block = b, m # l PROVE FALSE
          OBVIOUS
        <5>1. m \in 1 .. l - 1
          BY <2>1
        <5>q. QED
          BY <2>5, <5>1
      <4>2. s \in S <=> Top.step # "phis" /\ s[2] < Top.pos
        BY <2>1, <3>2, <3>3, <4>1
      <4>q. QED
        BY <3>1, <3>3, <4>2 DEF Above, PlaceOf
    <3>4. CASE s[1] # b
      <4>1. Above(prog, s, PlaceOf(Top)) <=> s[1] \in StrictDoms(prog.succ, b)
        BY <3>1, <3>4 DEF Above, PlaceOf, StrictDoms
      <4>2. ASSUME NEW m \in 1 .. l, calls[m].block = s[1] PROVE s[1] \in StrictDoms(prog.succ, b)
        <5>1. m \in 1 .. l - 1
          BY <2>1, <3>4, <4>2
        <5>q. QED
          BY <2>5, <4>2, <5>1
      <4>3. ASSUME s[1] \in StrictDoms(prog.succ, b) PROVE s \in S
        <5>1. PICK m \in 1 .. l - 1 : calls[m].block = s[1]
          BY <2>5, <4>3
        <5>2. /\ m \in 1 .. l /\ calls[m].step = "kids" /\ calls[m].pos = Len(prog.code[s[1]]) + 1
          BY <2>5, <5>1
        <5>3. s[2] < calls[m].pos
          BY <3>1, <5>2
        <5>q. QED
          BY <3>2, <5>1, <5>2, <5>3
      <4>q. QED
        BY <3>2, <4>1, <4>2, <4>3
    <3>q. QED
      BY <3>3, <3>4
  <2>4. S = DefsAbove(prog, phis, PlaceOf(Top), v)
    BY <2>2, <2>3 DEF DefsAbove
  <2> HIDE DEF S
  <2>q. QED
    BY <1>2, <2>4 DEF HeightInv, Height, S
<1>q. QED
  BY <1>1, <1>2

THEOREM WalkInvariance == Spec => []WalkInv
BY WalkInit, WalkStep, PTL DEF Spec

\* Type correctness: whatever the function, every operand, phi operand and stack entry
\* is a value of the function, and each call of re_name is at an instruction of its block.
THEOREM Typing == Spec => []TypeOK
<1>1. WalkInv => TypeOK
  BY TypesAreRight DEF WalkInv
<1>q. QED
  BY <1>1, WalkInvariance, PTL

\* Whatever the function, step 8 pops exactly what the call has pushed: a block finds
\* what its dominators have put on the stacks, and nothing of its siblings.
THEOREM StacksAreThePath == Spec => []StacksMatchCalls
BY StacksMatch, WalkInvariance, PTL

-----------------------------------------------------------------------------
(* Functions that store every variable first.  The builder allocates each     *)
(* variable where it is declared, so this is not true of every function:      *)
(* without it the assertion of step 6 can fail.                               *)

\* Every load and store is reachable, and the entry block stores its variable, before
\* it if it is in that block.
StoredFirst(p) ==
  \A i \in Placed(p) : p.code[i[1]][i[2]].op # "out" =>
    /\ i[1] \in Reachable(p.succ)
    /\ \E k \in 1 .. Len(p.code[Entry]) :
         /\ p.code[Entry][k].op = "store" /\ p.code[Entry][k].var = p.code[i[1]][i[2]].var
         /\ i[1] = Entry => k <= i[2]

LEMMA StoredAbove ==
  ASSUME NEW p, IsProgram(p), StoredFirst(p), NEW ph, NEW i \in Placed(p), p.code[i[1]][i[2]].op # "out"
  PROVE  /\ i \in Places(p) /\ p.code[i[1]][i[2]].var \in Var
         /\ p.code[i[1]][i[2]].op = "load" => DefsAbove(p, ph, i, p.code[i[1]][i[2]].var) # {}
<1> DEFINE v == p.code[i[1]][i[2]].var
<1>1. i = <<i[1], i[2]>> /\ i[1] \in Block /\ i[2] \in 1 .. Len(p.code[i[1]]) /\ Len(p.code[i[1]]) \in Nat
  BY Code
<1>2. i \in Places(p)
  <2>1. i[1] \in Reachable(p.succ) /\ i[2] \in Nat
    BY <1>1 DEF StoredFirst
  <2>q. QED
    BY <1>1, <2>1 DEF Places
<1>3. v \in Var
  BY <1>1, Code
<1>4. ASSUME p.code[i[1]][i[2]].op = "load" PROVE DefsAbove(p, ph, i, v) # {}
  <2>1. PICK k \in 1 .. Len(p.code[Entry]) :
               /\ p.code[Entry][k].op = "store" /\ p.code[Entry][k].var = v
               /\ i[1] = Entry => k <= i[2]
    BY DEF StoredFirst
  <2>2. Entry \in Block /\ Len(p.code[Entry]) \in Nat
    BY BlockAssumption, Code
  <2>3. <<Entry, k>> \in Defs(p, ph, v)
    BY <2>1, <2>2, DefAt
  <2>4. Above(p, <<Entry, k>>, i)
    <3>1. CASE i[1] = Entry
      <4>1. k # i[2]
        BY <1>4, <2>1, <3>1
      <4>q. QED
        BY <1>1, <2>1, <2>2, <3>1, <4>1 DEF Above
    <3>2. CASE i[1] # Entry
      <4>1. Dominates(p.succ, Entry, i[1])
        BY Code, EntryDominates
      <4>q. QED
        BY <3>2, <4>1 DEF Above
    <3>q. QED
      BY <3>1, <3>2
  <2>q. QED
    BY <2>3, <2>4 DEF DefsAbove
<1>q. QED
  BY <1>2, <1>3, <1>4

LEMMA StoredAtEnd ==
  ASSUME NEW p, IsProgram(p), StoredFirst(p), NEW ph, NEW v, StoredIn(p, v) # {}, NEW b \in Block
  PROVE  DefsAbove(p, ph, EndOf(p, b), v) # {}
<1>1. PICK i \in Placed(p) : p.code[i[1]][i[2]].op = "store" /\ p.code[i[1]][i[2]].var = v
  BY DEF StoredIn
<1>2. PICK k \in 1 .. Len(p.code[Entry]) : p.code[Entry][k].op = "store" /\ p.code[Entry][k].var = v
  BY <1>1 DEF StoredFirst
<1>3. Entry \in Block
  BY BlockAssumption
<1> DEFINE s == <<Entry, k>>
<1>4. s \in Defs(p, ph, v) /\ s[1] = Entry
  BY <1>2, <1>3, DefAt
<1> HIDE DEF s
<1>5. Dominates(p.succ, Entry, b)
  BY Code, EntryDominates
<1>6. s \in DefsAbove(p, ph, EndOf(p, b), v)
  BY <1>4, <1>5, DefsAboveEnd
<1>q. QED
  BY <1>6

-----------------------------------------------------------------------------
(* The values that are on the stacks: constants and phis.                     *)

IsPlain(w) == w \in ({"const"} \X Const) \cup ({"phi"} \X Block \X Var)

\* A constant, or the phi of a block that dominates b.
PlainAt(p, w, b) ==
  \/ w \in {"const"} \X Const
  \/ \E y \in Block : \E x \in Var : w = <<"phi", y, x>> /\ Dominates(p.succ, y, b)

LEMMA PlainValues ==
  ASSUME NEW p, NEW w, NEW b, PlainAt(p, w, b)
  PROVE  /\ IsPlain(w) /\ w # Garbage /\ w[1] \in {"const", "phi"}
         /\ \A d, n : w # <<"load", d, n>>
<1>1. CASE w \in {"const"} \X Const
  <2>1. w[1] = "const"
    BY <1>1
  <2>q. QED
    BY <1>1, <2>1 DEF IsPlain, Garbage
<1>2. CASE \E y \in Block : \E x \in Var : w = <<"phi", y, x>> /\ Dominates(p.succ, y, b)
  <2>1. PICK y \in Block : \E x \in Var : w = <<"phi", y, x>>
    BY <1>2
  <2>2. PICK x \in Var : w = <<"phi", y, x>>
    BY <2>1
  <2>q. QED
    BY <2>2 DEF IsPlain, Garbage
<1>q. QED
  BY <1>1, <1>2 DEF PlainAt

LEMMA PlainBelow ==
  ASSUME NEW p, IsProgram(p), NEW w, NEW b, NEW d, PlainAt(p, w, b), Dominates(p.succ, b, d)
  PROVE  PlainAt(p, w, d)
<1>1. IsSucc(p.succ)
  BY Code
<1>2. \A y : Dominates(p.succ, y, b) => Dominates(p.succ, y, d)
  BY <1>1, DominatesTransitive
<1>q. QED
  BY <1>2 DEF PlainAt

\* Operands of passed stores are plain; an operand that is a load has been replaced by
\* the newest value of its variable if the load has been passed.
FormsOk(p, o, P) ==
  \A i \in P : p.code[i[1]][i[2]].op = "store" => PlainAt(p, o[i[1]][i[2]], i[1])

OperandAt(p, ph, o, P, i) ==
  LET a == p.code[i[1]][i[2]].arg
      l == <<a[2], a[3]>>
  IN IF a[1] = "load" /\ l \in P THEN Newest(p, ph, o, l, p.code[l[1]][l[2]].var) ELSE a

OperandsOk(p, ph, o, P) == \A i \in Placed(p) : o[i[1]][i[2]] = OperandAt(p, ph, o, P, i)

Closed(p, P, i) == \A s \in Placed(p) : Above(p, s, i) => s \in P

Agrees(p, o, o2, P) == \A i \in P : p.code[i[1]][i[2]].op = "store" => o2[i[1]][i[2]] = o[i[1]][i[2]]

LEMMA DefIsPassed ==
  ASSUME NEW p, IsProgram(p), NEW ph, NEW i \in Places(p), NEW P, Closed(p, P, i), NEW v,
         NEW s \in DefsAbove(p, ph, i, v)
  PROVE  /\ s = <<s[1], s[2]>> /\ s[1] \in Block /\ Dominates(p.succ, s[1], i[1])
         /\ s[2] # 0 => s \in P /\ p.code[s[1]][s[2]].op = "store"
<1>1. s \in Defs(p, ph, v) /\ Above(p, s, i)
  BY DEF DefsAbove
<1>2. s = <<s[1], s[2]>> /\ s[1] \in Block
  BY <1>1, DefsArePlaces
<1>3. Dominates(p.succ, s[1], i[1])
  BY <1>1, <1>2, Code, DominatesItself DEF Above
<1>4. ASSUME s[2] # 0 PROVE s \in P /\ p.code[s[1]][s[2]].op = "store"
  <2>1. s \in Placed(p) /\ p.code[s[1]][s[2]].op = "store"
    BY <1>1, <1>4 DEF Defs
  <2>q. QED
    BY <1>1, <2>1 DEF Closed
<1>q. QED
  BY <1>2, <1>3, <1>4

LEMMA NewestPlain ==
  ASSUME NEW p, IsProgram(p), NEW ph, NEW o, NEW P, FormsOk(p, o, P),
         NEW i \in Places(p), Closed(p, P, i), NEW v \in Var, DefsAbove(p, ph, i, v) # {}
  PROVE  PlainAt(p, Newest(p, ph, o, i, v), i[1])
<1> DEFINE s == Latest(p, ph, i, v)
<1>1. s \in DefsAbove(p, ph, i, v)
  BY LatestExists
<1>2. Newest(p, ph, o, i, v) = IF s[2] = 0 THEN <<"phi", s[1], v>> ELSE o[s[1]][s[2]]
  BY DEF Newest, ValueOf
<1> HIDE DEF s
<1>3. /\ s[1] \in Block /\ Dominates(p.succ, s[1], i[1])
      /\ s[2] # 0 => s \in P /\ p.code[s[1]][s[2]].op = "store"
  BY <1>1, DefIsPassed
<1>4. CASE s[2] = 0
  BY <1>2, <1>3, <1>4 DEF PlainAt
<1>5. CASE s[2] # 0
  <2>1. PlainAt(p, o[s[1]][s[2]], s[1])
    BY <1>3, <1>5 DEF FormsOk
  <2>q. QED
    BY <1>2, <1>3, <1>5, <2>1, PlainBelow
<1>q. QED
  BY <1>4, <1>5

LEMMA NewestKept ==
  ASSUME NEW p, IsProgram(p), NEW ph, NEW o, NEW o2, NEW P, Agrees(p, o, o2, P),
         NEW i \in Places(p), Closed(p, P, i), NEW v
  PROVE  /\ \A s \in DefsAbove(p, ph, i, v) : ValueOf(o2, s, v) = ValueOf(o, s, v)
         /\ DefsAbove(p, ph, i, v) # {} => Newest(p, ph, o2, i, v) = Newest(p, ph, o, i, v)
<1>1. ASSUME NEW s \in DefsAbove(p, ph, i, v) PROVE ValueOf(o2, s, v) = ValueOf(o, s, v)
  <2>1. s[2] # 0 => s \in P /\ p.code[s[1]][s[2]].op = "store"
    BY DefIsPassed
  <2>q. QED
    BY <2>1 DEF Agrees, ValueOf
<1>2. DefsAbove(p, ph, i, v) # {} => Latest(p, ph, i, v) \in DefsAbove(p, ph, i, v)
  BY LatestExists
<1>q. QED
  BY <1>1, <1>2 DEF Newest

\* What an instruction uses: a constant, or a load above it.
LEMMA Arguments ==
  ASSUME NEW p, IsProgram(p), NEW i \in Placed(p)
  PROVE  LET a == p.code[i[1]][i[2]].arg
             l == <<a[2], a[3]>>
         IN /\ a[1] = "load" => /\ a = <<"load", a[2], a[3]>> /\ l \in Placed(p) /\ Above(p, l, i)
                                /\ p.code[l[1]][l[2]].op = "load"
            /\ a[1] # "load" /\ p.code[i[1]][i[2]].op # "load" => a \in {"const"} \X Const
<1> DEFINE a == p.code[i[1]][i[2]].arg
           A == ({"const"} \X Const) \cup ({"load"} \X Block \X Nat) \cup {NoVar}
           R == [op : {"load", "store", "out"}, var : Var \cup {NoVar}, arg : A]
<1>1. i = <<i[1], i[2]>> /\ i[1] \in Block /\ i[2] \in 1 .. Len(p.code[i[1]])
      /\ \A b \in Block : DOMAIN p.code[b] = 1 .. Len(p.code[b]) /\ \A n \in 1 .. Len(p.code[b]) : <<b, n>> \in Placed(p)
  BY Code
<1>2. p.code[i[1]] \in Seq(R)
  BY <1>1 DEF IsProgram
<1>3. p.code[i[1]][i[2]] \in R
  <2> HIDE DEF R
  <2>q. QED
    BY <1>1, <1>2, ElementOfSeq
<1>4. a \in A
  BY <1>3
<1>5. /\ a[1] = "load" => /\ a[3] \in DOMAIN p.code[a[2]] /\ p.code[a[2]][a[3]].op = "load"
                          /\ Above(p, <<a[2], a[3]>>, <<i[1], i[2]>>)
      /\ p.code[i[1]][i[2]].op = "load" <=> a = NoVar
  BY <1>1 DEF IsProgram
<1> HIDE DEF a
<1>6. ASSUME a[1] = "load"
      PROVE  /\ a = <<"load", a[2], a[3]>> /\ <<a[2], a[3]>> \in Placed(p) /\ Above(p, <<a[2], a[3]>>, i)
             /\ p.code[<<a[2], a[3]>>[1]][<<a[2], a[3]>>[2]].op = "load"
  <2>1. a \in {"load"} \X Block \X Nat
    BY <1>4, <1>6 DEF NoVar
  <2>2. a = <<"load", a[2], a[3]>> /\ a[2] \in Block
    BY <2>1
  <2>3. <<a[2], a[3]>> \in Placed(p)
    BY <1>1, <1>5, <1>6, <2>2
  <2>q. QED
    BY <1>1, <1>5, <1>6, <2>2, <2>3
<1>7. ASSUME a[1] # "load", p.code[i[1]][i[2]].op # "load" PROVE a \in {"const"} \X Const
  BY <1>4, <1>5, <1>7
<1>q. QED
  BY <1>6, <1>7 DEF a

\* An instruction that is not a load changes nothing for the operands.
LEMMA NotALoad ==
  ASSUME NEW p, IsProgram(p), NEW ph, NEW o, NEW P, OperandsOk(p, ph, o, P),
         NEW j, p.code[j[1]][j[2]].op # "load"
  PROVE  OperandsOk(p, ph, o, P \cup {j})
<1> SUFFICES ASSUME NEW i \in Placed(p) PROVE OperandAt(p, ph, o, P \cup {j}, i) = OperandAt(p, ph, o, P, i)
  BY DEF OperandsOk
<1> DEFINE a == p.code[i[1]][i[2]].arg
           l == <<a[2], a[3]>>
<1>1. ASSUME a[1] = "load" PROVE l # j
  <2>1. p.code[l[1]][l[2]].op = "load"
    BY <1>1, Arguments
  <2> HIDE DEF l
  <2>q. QED
    BY <2>1
<1>q. QED
  BY <1>1 DEF OperandAt

\* An operand of a store that is reached is a constant or the newest value at a load above.
LEMMA StoredIsPlain ==
  ASSUME NEW p, IsProgram(p), StoredFirst(p), NEW ph, NEW o, NEW P, P \subseteq Placed(p), FormsOk(p, o, P),
         OperandsOk(p, ph, o, P), \A i \in P : Closed(p, P, i),
         NEW j \in Placed(p), p.code[j[1]][j[2]].op # "load", Closed(p, P, j)
  PROVE  PlainAt(p, o[j[1]][j[2]], j[1])
<1> DEFINE a == p.code[j[1]][j[2]].arg
           l == <<a[2], a[3]>>
<1>1. o[j[1]][j[2]] = OperandAt(p, ph, o, P, j)
  BY DEF OperandsOk
<1>2. CASE a[1] = "load"
  <2>1. l \in Placed(p) /\ Above(p, l, j) /\ p.code[l[1]][l[2]].op = "load"
    BY <1>2, Arguments
  <2>2. l \in P
    BY <2>1 DEF Closed
  <2> DEFINE v == p.code[l[1]][l[2]].var
  <2>3. o[j[1]][j[2]] = Newest(p, ph, o, l, v)
    BY <1>1, <1>2, <2>2 DEF OperandAt
  <2>4. l[1] \in Block /\ IsSucc(p.succ)
    BY <2>1, Code
  <2>5. Dominates(p.succ, l[1], j[1])
    BY <2>1, <2>4, DominatesItself DEF Above
  <2> HIDE DEF l
  <2>6. l \in Places(p) /\ v \in Var /\ DefsAbove(p, ph, l, v) # {}
    BY <2>1, StoredAbove
  <2>7. PlainAt(p, Newest(p, ph, o, l, v), l[1])
    <3> HIDE DEF v
    <3>1. Closed(p, P, l)
      BY <2>2
    <3>q. QED
      BY <2>6, <3>1, NewestPlain
  <2>q. QED
    BY <2>3, <2>5, <2>7, PlainBelow
<1>3. CASE a[1] # "load"
  <2>1. a \in {"const"} \X Const
    BY <1>3, Arguments
  <2>q. QED
    BY <1>1, <1>3, <2>1 DEF OperandAt, PlainAt
<1>q. QED
  BY <1>2, <1>3

\* The load at j is replaced by the newest value of its variable.
LEMMA Replacing ==
  ASSUME NEW p, IsProgram(p), StoredFirst(p), NEW ph, NEW o, NEW o2, NEW P, P \subseteq Placed(p),
         FormsOk(p, o, P), OperandsOk(p, ph, o, P),
         \A i \in P : Closed(p, P, i),
         NEW j \in Placed(p), p.code[j[1]][j[2]].op = "load", Closed(p, P, j),
         \A i \in Placed(p) : o2[i[1]][i[2]] =
            IF o[i[1]][i[2]] = <<"load", j[1], j[2]>> THEN Newest(p, ph, o, j, p.code[j[1]][j[2]].var)
            ELSE o[i[1]][i[2]]
  PROVE  /\ Agrees(p, o, o2, P)
         /\ FormsOk(p, o2, P \cup {j}) /\ OperandsOk(p, ph, o2, P \cup {j})
<1> DEFINE L == <<"load", j[1], j[2]>>
           var(l) == p.code[l[1]][l[2]].var
           N(l) == Newest(p, ph, o, l, var(l))
           N2(l) == Newest(p, ph, o2, l, var(l))
<1>1. Agrees(p, o, o2, P)
  <2> SUFFICES ASSUME NEW i \in P, p.code[i[1]][i[2]].op = "store" PROVE o2[i[1]][i[2]] = o[i[1]][i[2]]
    BY DEF Agrees
  <2>1. PlainAt(p, o[i[1]][i[2]], i[1]) /\ i \in Placed(p)
    BY DEF FormsOk
  <2>2. o[i[1]][i[2]] # L
    BY <2>1, PlainValues
  <2>q. QED
    BY <2>1, <2>2
<1>2. FormsOk(p, o2, P \cup {j})
  BY <1>1 DEF FormsOk, Agrees
<1>3. ASSUME NEW l \in P \cup {j}, p.code[l[1]][l[2]].op = "load"
      PROVE  N2(l) = N(l) /\ PlainAt(p, N(l), l[1])
  <2>1. l \in Placed(p) /\ Closed(p, P, l)
    OBVIOUS
  <2>2. l \in Places(p) /\ var(l) \in Var /\ DefsAbove(p, ph, l, var(l)) # {}
    BY <1>3, <2>1, StoredAbove
  <2> DEFINE v == var(l)
  <2> HIDE DEF v
  <2>3. Newest(p, ph, o2, l, v) = Newest(p, ph, o, l, v) /\ PlainAt(p, Newest(p, ph, o, l, v), l[1])
    BY <1>1, <2>1, <2>2, NewestKept, NewestPlain DEF v
  <2>q. QED
    BY <2>3 DEF v
<1> HIDE DEF N, N2
<1>4. ASSUME NEW i \in Placed(p) PROVE o2[i[1]][i[2]] = OperandAt(p, ph, o2, P \cup {j}, i)
  <2> DEFINE a == p.code[i[1]][i[2]].arg
             l == <<a[2], a[3]>>
             u == o[i[1]][i[2]]
             u2 == o2[i[1]][i[2]]
  <2>1. u = IF a[1] = "load" /\ l \in P THEN N(l) ELSE a
    BY DEF OperandsOk, OperandAt, N
  <2>2. u2 = IF u = L THEN N(j) ELSE u
    BY DEF N
  <2>3. a[1] = "load" => p.code[l[1]][l[2]].op = "load" /\ a = <<"load", a[2], a[3]>>
    BY Arguments
  <2>4. OperandAt(p, ph, o2, P \cup {j}, i) = IF a[1] = "load" /\ l \in P \cup {j} THEN N2(l) ELSE a
    BY DEF OperandAt, N2
  <2>5. L[1] = "load" /\ L[2] = j[1] /\ L[3] = j[2] /\ j = <<j[1], j[2]>>
    BY Code
  <2> HIDE DEF a, u, u2, L
  <2>6. CASE a[1] = "load" /\ l \in P
    <3>1. N2(l) = N(l) /\ PlainAt(p, N(l), l[1])
      BY <1>3, <2>3, <2>6
    <3>2. u = N(l) /\ u # L
      BY <2>1, <2>6, <3>1, PlainValues DEF L
    <3>q. QED
      BY <2>2, <2>4, <2>6, <3>1, <3>2 DEF u2
  <2>7. CASE a[1] = "load" /\ l \notin P /\ l = j
    <3>1. N2(j) = N(j)
      BY <1>3
    <3>2. u = a
      BY <2>1, <2>7
    <3>3. a = L
      BY <2>3, <2>5, <2>7 DEF L
    <3>q. QED
      BY <2>2, <2>4, <2>7, <3>1, <3>2, <3>3 DEF u2
  <2>8. CASE a[1] # "load" \/ (l \notin P /\ l # j)
    <3>1. u = a
      BY <2>1, <2>8
    <3>2. a # L
      BY <2>5, <2>8
    <3>3. ~(a[1] = "load" /\ l \in P \cup {j})
      BY <2>8
    <3>q. QED
      BY <2>2, <2>4, <3>1, <3>2, <3>3 DEF u2
  <2>q. QED
    BY <2>6, <2>7, <2>8
<1>q. QED
  BY <1>1, <1>2, <1>4 DEF OperandsOk

-----------------------------------------------------------------------------
(* What the walk has passed is closed: it holds all that is above.            *)

Behind(p, cs, i) ==
  /\ i \in Places(p) /\ i[1] \in Seen(p, cs)
  /\ \A m \in 1 .. Len(cs) : cs[m].block = i[1] => i[2] <= cs[m].pos

LEMMA BehindIsPassed ==
  ASSUME NEW p, IsProgram(p), NEW cs \in Seq(CallsOf(p)), \A m \in 1 .. Len(cs) : GoodCall(p, cs, m),
         NEW i, Behind(p, cs, i)
  PROVE  Closed(p, PassedBy(p, cs), i)
<1> SUFFICES ASSUME NEW s \in Placed(p), Above(p, s, i) PROVE s \in PassedBy(p, cs)
  BY DEF Closed
<1>1. /\ IsSucc(p.succ) /\ s \in Block \X Nat /\ s[1] \in Block
      /\ s[2] \in 1 .. Len(p.code[s[1]]) /\ Len(p.code[s[1]]) \in Nat
  BY Code
<1>2. i[1] \in Reachable(p.succ) /\ i[2] \in Nat
  BY DEF Behind, Places
<1>3. \A m \in 1 .. Len(cs) : cs[m] \in CallsOf(p)
  BY ElementOfSeq
<1>4. CASE s[1] = i[1]
  <2>1. \A m \in 1 .. Len(cs) : cs[m].block = s[1] => s[2] < cs[m].pos
    <3> SUFFICES ASSUME NEW m \in 1 .. Len(cs), cs[m].block = s[1] PROVE s[2] < cs[m].pos
      OBVIOUS
    <3>1. cs[m].pos \in Nat
      BY <1>3 DEF CallsOf
    <3>2. i[2] <= cs[m].pos /\ s[2] < i[2]
      BY <1>4 DEF Behind, Above
    <3>q. QED
      BY <1>1, <1>2, <3>1, <3>2
  <2>q. QED
    BY <1>4, <2>1 DEF PassedBy, Behind
<1>5. CASE s[1] # i[1]
  <2>1. Dominates(p.succ, s[1], i[1])
    BY <1>5 DEF Above
  <2>2. i[1] \notin Pending(p, cs)
    BY DEF Behind, Seen
  <2>3. s[1] \in Seen(p, cs)
    <3>1. s[1] \in Reachable(p.succ)
      BY <1>1, <1>2, <2>1, DominatorIsReached
    <3>2. ASSUME NEW m \in 1 .. Len(cs), NEW k \in cs[m].kids, Dominates(p.succ, k, s[1]) PROVE FALSE
      <4>1. Dominates(p.succ, k, i[1])
        BY <1>1, <2>1, <3>2, DominatesTransitive
      <4>q. QED
        BY <1>2, <2>2, <4>1 DEF Pending
    <3>q. QED
      BY <3>1, <3>2 DEF Seen, Pending
  <2>4. ASSUME NEW m \in 1 .. Len(cs), cs[m].block = s[1] PROVE s[2] < cs[m].pos
    <3>1. cs[m].step = "kids"
      <4> SUFFICES ASSUME cs[m].step # "kids" PROVE FALSE
        OBVIOUS
      <4>1. cs[m].kids = TheTree(p)[s[1]]
        BY <2>4 DEF GoodCall
      <4>2. s[1] \in StrictDoms(p.succ, i[1])
        BY <1>1, <1>5, <2>1 DEF StrictDoms
      <4>3. PICK k \in Reachable(p.succ) \ {Entry} :
                   ImmediateDom(p.succ, k) = s[1] /\ Dominates(p.succ, k, i[1])
        BY <1>1, <1>2, <4>2, BlockAssumption, ChildAbove
      <4>4. k \in cs[m].kids
        BY <1>1, <4>1, <4>3 DEF TheTree
      <4>q. QED
        BY <1>2, <2>2, <4>3, <4>4 DEF Pending
    <3>2. cs[m].pos = Len(p.code[s[1]]) + 1
      BY <2>4, <3>1 DEF GoodCall
    <3>q. QED
      BY <1>1, <3>2
  <2>q. QED
    BY <2>3, <2>4 DEF PassedBy
<1>q. QED
  BY <1>4, <1>5

\* Passed instructions, the ends of the blocks whose successors have their phi
\* operands, and the place where the walk is.
LEMMA WalkIsClosed ==
  ASSUME WalkInv
  PROVE  /\ Passed \subseteq Placed(prog) /\ Filled \subseteq Reachable(prog.succ)
         /\ \A i \in Passed : i \in Places(prog) /\ Closed(prog, Passed, i)
         /\ \A b \in Filled : b \in Block /\ EndOf(prog, b) \in Places(prog) /\ Closed(prog, Passed, EndOf(prog, b))
         /\ calls # <<>> => /\ Top.block \in Reachable(prog.succ) /\ Top.block \in Block
                            /\ PlaceOf(Top) \in Places(prog) /\ Closed(prog, Passed, PlaceOf(Top))
                            /\ Top.step # "phis" => PlaceOf(Top) = <<Top.block, Top.pos>>
<1>1. IsProgram(prog) /\ IsSucc(prog.succ)
  BY ProgramsAssumption, Code DEF WalkInv, TypeInv
<1>2. /\ calls \in Seq(CallsOf(prog)) /\ \A m \in 1 .. Len(calls) : GoodCall(prog, calls, m)
  BY DEF WalkInv, TypeInv, CallsInv
<1>3. Seen(prog, calls) \subseteq Reachable(prog.succ) /\ Reachable(prog.succ) \subseteq Block
  BY <1>1, ReachableStep DEF Seen
<1>4. Passed \subseteq Placed(prog) /\ Filled \subseteq Reachable(prog.succ)
  BY <1>3 DEF Passed, PassedBy, Filled, FilledBy
<1>5. ASSUME NEW i \in Passed PROVE i \in Places(prog) /\ Closed(prog, Passed, i)
  <2>1. Started /\ i \in PassedBy(prog, calls) /\ Passed = PassedBy(prog, calls)
    BY DEF Passed
  <2>2. i = <<i[1], i[2]>> /\ i[1] \in Reachable(prog.succ) /\ i[2] \in Nat
    <3>1. i \in Placed(prog) /\ i[1] \in Seen(prog, calls)
      BY <2>1 DEF PassedBy
    <3>2. i = <<i[1], i[2]>> /\ i[1] \in Block /\ i[2] \in 1 .. Len(prog.code[i[1]]) /\ Len(prog.code[i[1]]) \in Nat
      BY <1>1, <3>1, Code
    <3>q. QED
      BY <1>3, <3>1, <3>2
  <2>3. Behind(prog, calls, i)
    <3>1. i \in Places(prog) /\ i[1] \in Seen(prog, calls)
      BY <2>1, <2>2 DEF Places, PassedBy
    <3>2. ASSUME NEW m \in 1 .. Len(calls), calls[m].block = i[1] PROVE i[2] <= calls[m].pos
      <4>1. i[2] < calls[m].pos
        BY <2>1, <3>2 DEF PassedBy
      <4>2. calls[m] \in CallsOf(prog)
        BY ONLY <1>2, ElementOfSeq
      <4>3. calls[m].pos \in Nat
        BY <4>2 DEF CallsOf
      <4>q. QED
        BY <2>2, <4>1, <4>3
    <3>q. QED
      BY <3>1, <3>2 DEF Behind
  <2>q. QED
    BY <1>1, <1>2, <2>1, <2>3, BehindIsPassed DEF Behind
<1>6. ASSUME NEW b \in Filled
      PROVE  b \in Block /\ EndOf(prog, b) \in Places(prog) /\ Closed(prog, Passed, EndOf(prog, b))
  <2>1. Started /\ b \in FilledBy(prog, calls) /\ Passed = PassedBy(prog, calls)
    BY DEF Filled, Passed
  <2>2. b \in Seen(prog, calls) /\ b \in Block /\ b \in Reachable(prog.succ)
    BY <1>3, <2>1 DEF FilledBy
  <2>3. Len(prog.code[b]) \in Nat
    BY <1>1, <2>2, Code
  <2>4. Behind(prog, calls, EndOf(prog, b))
    <3>1. EndOf(prog, b) \in Places(prog) /\ EndOf(prog, b)[1] \in Seen(prog, calls)
      BY <2>2, <2>3 DEF Places, EndOf
    <3>2. ASSUME NEW m \in 1 .. Len(calls), calls[m].block = b PROVE Len(prog.code[b]) + 1 <= calls[m].pos
      <4>1. calls[m].step = "kids"
        BY <2>1, <3>2 DEF FilledBy
      <4>2. calls[m].pos = Len(prog.code[b]) + 1
        BY <1>2, <3>2, <4>1 DEF GoodCall
      <4>q. QED
        BY <2>3, <4>2
    <3>q. QED
      BY <3>1, <3>2 DEF Behind, EndOf
  <2>q. QED
    BY <1>1, <1>2, <2>1, <2>2, <2>4, BehindIsPassed DEF Behind
<1>7. ASSUME calls # <<>>
      PROVE  /\ Top.block \in Reachable(prog.succ) /\ Top.block \in Block
             /\ PlaceOf(Top) \in Places(prog) /\ Closed(prog, Passed, PlaceOf(Top))
             /\ Top.step # "phis" => PlaceOf(Top) = <<Top.block, Top.pos>>
  <2>1. /\ Len(calls) \in 1 .. Len(calls) /\ Top = calls[Len(calls)] /\ Top.pos \in Nat \ {0} /\ Top.block \in Block
        /\ Len(calls) \in Nat
    BY <1>7, TheTop DEF WalkInv
  <2>2. Started /\ Passed = PassedBy(prog, calls)
    BY <1>7, StartedByCalls DEF WalkInv, Passed
  <2>3. Top.block \in Seen(prog, calls)
    BY <1>1, <1>2, <1>7, <2>1, PathIsSeen
  <2>4. Top.block \in Reachable(prog.succ)
    BY <1>3, <2>3
  <2>5. PlaceOf(Top)[1] = Top.block /\ PlaceOf(Top)[2] \in {0, Top.pos}
    BY DEF PlaceOf
  <2>6. PlaceOf(Top) \in Places(prog)
    BY <2>1, <2>4 DEF PlaceOf, Places
  <2>7. ASSUME NEW m \in 1 .. Len(calls), calls[m].block = Top.block PROVE PlaceOf(Top)[2] <= calls[m].pos
    <3>1. m = Len(calls)
      <4> SUFFICES ASSUME m # Len(calls) PROVE FALSE
        OBVIOUS
      <4>1. m \in 1 .. Len(calls) - 1
        BY <2>1
      <4>2. calls[m].block # calls[Len(calls)].block
        BY <1>1, <1>2, <1>7, <2>1, <4>1, ThePath
      <4>q. QED
        BY <2>1, <2>7, <4>2
    <3>q. QED
      BY <2>1, <2>5, <3>1
  <2>8. Behind(prog, calls, PlaceOf(Top))
    BY <2>3, <2>5, <2>6, <2>7 DEF Behind
  <2>9. Closed(prog, Passed, PlaceOf(Top))
    BY <1>1, <1>2, <2>2, <2>8, BehindIsPassed
  <2>q. QED
    BY <2>1, <2>4, <2>6, <2>9 DEF PlaceOf
<1>q. QED
  BY <1>4, <1>5, <1>6, <1>7

-----------------------------------------------------------------------------
(* The renaming.                                                             *)

\* The operands of the phis are the newest values at the ends of the predecessors that
\* the walk has left behind, one for each.
ArgsOk(p, ph, o, ar, F) ==
  \A s \in Block : \A v \in Var :
    /\ Range(ar[s][v]) = IF v \in ph[s]
                         THEN {<<q, Newest(p, ph, o, EndOf(p, q), v)>> : q \in Preds(p.succ, s) \cap F}
                         ELSE {}
    /\ \A m, n \in 1 .. Len(ar[s][v]) : ar[s][v][m][1] = ar[s][v][n][1] => m = n

\* A stack holds the values of the definitions above a place, the latest on top.
StackOk(p, ph, o, i, v, st) ==
  \A s \in DefsAbove(p, ph, i, v) : st[Height(p, ph, s, v) + 1] = ValueOf(o, s, v)

DeletesOk(p, c) ==
  c.wait_delete = {i \in Placed(p) : i[1] = c.block /\ i[2] < c.pos /\ p.code[i[1]][i[2]].op # "out"}

StacksOk ==
  calls # <<>> => \A v \in Var :
    /\ StackOk(prog, phis, operand, PlaceOf(Top), v, stacks[v])
    /\ DefsAbove(prog, phis, PlaceOf(Top), v) # {} => v \in keys

PlainStacks == \A v \in Var : \A m \in 1 .. Len(stacks[v]) : IsPlain(stacks[v][m])

ErasedOk ==
  /\ erased = {i \in Placed(prog) : i[1] \in Left /\ prog.code[i[1]][i[2]].op # "out"}
  /\ \A m \in 1 .. Len(calls) : DeletesOk(prog, calls[m])

RenamedInv ==
  /\ phase # "assert_failed"
  /\ OperandsOk(prog, phis, operand, Passed)
  /\ FormsOk(prog, operand, Passed)
  /\ ArgsOk(prog, phis, operand, args, Filled)
  /\ StacksOk /\ PlainStacks /\ ErasedOk

\* The top of a stack is the newest value.
LEMMA BackIsNewest ==
  ASSUME WalkInv, StacksOk, calls # <<>>, NEW v \in Var, DefsAbove(prog, phis, PlaceOf(Top), v) # {}
  PROVE  /\ Back(v) = Newest(prog, phis, operand, PlaceOf(Top), v)
         /\ v \in keys /\ stacks[v] # <<>>
<1> DEFINE i == PlaceOf(Top)
           s == Latest(prog, phis, i, v)
           h == Height(prog, phis, s, v)
<1>1. IsProgram(prog) /\ i \in Places(prog) /\ stacks[v] \in Seq(ValuesOf(prog))
  BY WalkIsClosed, ProgramsAssumption DEF WalkInv, TypeInv
<1>2. Len(stacks[v]) = Height(prog, phis, i, v)
  BY DEF WalkInv, HeightInv
<1>3. stacks[v][h + 1] = ValueOf(operand, s, v) /\ v \in keys
  BY <1>1, LatestExists DEF StacksOk, StackOk
<1> HIDE DEF i
<1>4. s \in DefsAbove(prog, phis, i, v) /\ \A t \in DefsAbove(prog, phis, i, v) : t = s \/ Above(prog, t, s)
  BY <1>1, LatestExists DEF i
<1> HIDE DEF s, h
<1>5. s \in Places(prog)
  BY <1>1, <1>4, HeightRises
<1>6. DefsAbove(prog, phis, i, v) = DefsAbove(prog, phis, s, v) \cup {s} /\ s \notin DefsAbove(prog, phis, s, v)
  <2>1. ASSUME NEW t \in DefsAbove(prog, phis, s, v) PROVE t \in DefsAbove(prog, phis, i, v)
    <3>1. t \in Defs(prog, phis, v) /\ Above(prog, t, s) /\ Above(prog, s, i)
      BY <1>4 DEF DefsAbove
    <3>2. t \in Places(prog)
      BY <1>1, <1>5, HeightRises
    <3>q. QED
      BY <1>1, <1>5, <3>1, <3>2, AboveTransitive DEF DefsAbove
  <2>2. ~Above(prog, s, s)
    BY <1>5, AboveIrreflexive
  <2>3. ASSUME NEW t \in DefsAbove(prog, phis, i, v) PROVE t = s \/ t \in DefsAbove(prog, phis, s, v)
    BY <1>4 DEF DefsAbove
  <2>q. QED
    BY <1>4, <2>1, <2>2, <2>3 DEF DefsAbove
<1>7. Height(prog, phis, i, v) = h + 1 /\ h \in Nat
  <2>1. IsFiniteSet(DefsAbove(prog, phis, s, v)) /\ Height(prog, phis, s, v) \in Nat
    BY <1>1, HeightType
  <2>q. QED
    BY <1>6, <2>1, FS_AddElement DEF Height, h
<1>8. stacks[v] # <<>>
  <2>1. Len(stacks[v]) # 0
    BY <1>2, <1>7
  <2>q. QED
    BY <2>1
<1>9. Back(v) = stacks[v][h + 1]
  BY <1>2, <1>7, <1>8 DEF Back
<1>q. QED
  BY <1>3, <1>8, <1>9 DEF Newest, i, s

-----------------------------------------------------------------------------
(* What a step of the walk leaves right.                                     *)

LEMMA NothingYet == WalkInv /\ ~Started => RenamedInv
<1> SUFFICES ASSUME WalkInv, ~Started PROVE RenamedInv
  OBVIOUS
<1>1. /\ operand = [b \in Block |-> [n \in 1 .. Len(prog.code[b]) |-> prog.code[b][n].arg]]
      /\ args = [b \in Block |-> [v \in Var |-> <<>>]]
      /\ stacks = [v \in Var |-> <<>>] /\ calls = <<>> /\ erased = {}
  BY DEF WalkInv, Untouched
<1>2. Passed = {} /\ Filled = {} /\ Left = {}
  BY DEF Passed, Filled, Left
<1>3. IsProgram(prog)
  BY ProgramsAssumption DEF WalkInv, TypeInv
<1>4. OperandsOk(prog, phis, operand, {})
  <2> SUFFICES ASSUME NEW i \in Placed(prog) PROVE operand[i[1]][i[2]] = OperandAt(prog, phis, operand, {}, i)
    BY DEF OperandsOk
  <2>1. i[1] \in Block /\ i[2] \in 1 .. Len(prog.code[i[1]])
    BY <1>3, Code
  <2>q. QED
    BY <1>1, <2>1 DEF OperandAt
<1>5. FormsOk(prog, operand, {})
  BY DEF FormsOk
<1>6. ArgsOk(prog, phis, operand, args, {})
  <2>1. ASSUME NEW s \in Block, NEW v \in Var
        PROVE  /\ Range(args[s][v]) = IF v \in phis[s]
                  THEN {<<q, Newest(prog, phis, operand, EndOf(prog, q), v)>> : q \in Preds(prog.succ, s) \cap {}}
                  ELSE {}
               /\ \A m, n \in 1 .. Len(args[s][v]) : args[s][v][m][1] = args[s][v][n][1] => m = n
    <3>1. args[s][v] = <<>>
      BY <1>1
    <3>2. Range(args[s][v]) = {} /\ Len(args[s][v]) = 0
      BY <3>1 DEF Range
    <3>3. {<<q, Newest(prog, phis, operand, EndOf(prog, q), v)>> : q \in Preds(prog.succ, s) \cap {}} = {}
      OBVIOUS
    <3>q. QED
      BY <3>2, <3>3
  <2>q. QED
    BY <2>1 DEF ArgsOk
<1>7. PlainStacks
  BY <1>1 DEF PlainStacks
<1>8. StacksOk /\ ErasedOk
  BY <1>1, <1>2 DEF StacksOk, ErasedOk
<1>9. phase # "assert_failed"
  BY DEF Started
<1>q. QED
  BY <1>2, <1>4, <1>5, <1>6, <1>7, <1>8, <1>9 DEF RenamedInv

LEMMA StackKept ==
  ASSUME NEW p, IsProgram(p), NEW ph, NEW o, NEW o2, NEW P, Agrees(p, o, o2, P),
         NEW i \in Places(p), Closed(p, P, i), NEW v, NEW st, StackOk(p, ph, o, i, v, st)
  PROVE  StackOk(p, ph, o2, i, v, st)
BY NewestKept DEF StackOk

\* A place that defines nothing leaves the stack as it is, a definition is pushed.
LEMMA StackMoves ==
  ASSUME NEW p, IsProgram(p), NEW ph, NEW o, NEW b \in Reachable(p.succ), b \in Block, NEW n \in Nat, NEW v,
         NEW S, NEW st \in Seq(S), StackOk(p, ph, o, <<b, n>>, v, st), Len(st) = Height(p, ph, <<b, n>>, v)
  PROVE  /\ <<b, n>> \notin Defs(p, ph, v) => StackOk(p, ph, o, <<b, n + 1>>, v, st)
         /\ <<b, n>> \in Defs(p, ph, v) =>
              \A w : w = ValueOf(o, <<b, n>>, v) => StackOk(p, ph, o, <<b, n + 1>>, v, Append(st, w))
<1> DEFINE i == <<b, n>>
           j == <<b, n + 1>>
<1>1. i \notin Defs(p, ph, v) => StackOk(p, ph, o, j, v, st)
  BY NextPlace DEF StackOk
<1>2. ASSUME i \in Defs(p, ph, v), NEW w, w = ValueOf(o, i, v)
      PROVE  StackOk(p, ph, o, j, v, Append(st, w))
  <2>1. DefsAbove(p, ph, j, v) = DefsAbove(p, ph, i, v) \cup {i}
    BY <1>2, NextPlace
  <2>2. i \in Places(p)
    BY DEF Places
  <2> DEFINE h(s) == Height(p, ph, s, v)
             st2 == Append(st, w)
  <2>3. Len(st) = h(i) /\ h(i) \in Nat
    BY HeightType
  <2>4. st2[Len(st) + 1] = w /\ \A m \in 1 .. Len(st) : st2[m] = st[m]
    BY <2>3, AppendProperties
  <2>5. ASSUME NEW s \in DefsAbove(p, ph, i, v) PROVE st2[h(s) + 1] = ValueOf(o, s, v)
    <3>1. h(s) < h(i) /\ h(s) \in Nat
      BY <2>2, HeightRises, HeightType
    <3>2. st[h(s) + 1] = ValueOf(o, s, v)
      BY DEF StackOk
    <3> HIDE DEF h, st2, i
    <3>3. h(s) + 1 \in 1 .. Len(st)
      BY <2>3, <3>1
    <3>q. QED
      BY <2>4, <3>2, <3>3
  <2>6. st2[h(i) + 1] = ValueOf(o, i, v)
    BY <1>2, <2>3, <2>4
  <2> HIDE DEF st2, i, j
  <2>q. QED
    BY <2>1, <2>5, <2>6 DEF StackOk, st2
<1>q. QED
  BY <1>1, <1>2

\* The operands of the phis do not change when a load is replaced.
LEMMA ArgsKept ==
  ASSUME WalkInv, StoredFirst(prog), FormsOk(prog, operand, Passed),
         ArgsOk(prog, phis, operand, args, Filled), NEW o2, Agrees(prog, operand, o2, Passed)
  PROVE  /\ ArgsOk(prog, phis, o2, args, Filled)
         /\ \A s \in Block, v \in Var : \A m \in DOMAIN args[s][v] : \A d, n : args[s][v][m][2] # <<"load", d, n>>
<1>0. IsProgram(prog)
  BY ProgramsAssumption DEF WalkInv, TypeInv
<1>1. ASSUME NEW s \in Block, NEW v \in phis[s], NEW q \in Filled
      PROVE  /\ Newest(prog, phis, o2, EndOf(prog, q), v) = Newest(prog, phis, operand, EndOf(prog, q), v)
             /\ PlainAt(prog, Newest(prog, phis, operand, EndOf(prog, q), v), q)
  <2>1. q \in Block /\ EndOf(prog, q) \in Places(prog) /\ Closed(prog, Passed, EndOf(prog, q))
    BY WalkIsClosed
  <2>2. StoredIn(prog, v) # {} /\ v \in Var
    BY DEF WalkInv, PhiInv, TypeInv
  <2>3. DefsAbove(prog, phis, EndOf(prog, q), v) # {}
    BY <1>0, <2>1, <2>2, StoredAtEnd
  <2> DEFINE e == EndOf(prog, q)
  <2>4. e[1] = q
    BY DEF EndOf
  <2> HIDE DEF e
  <2>5. PlainAt(prog, Newest(prog, phis, operand, e, v), e[1])
    BY <1>0, <2>1, <2>2, <2>3, NewestPlain DEF e
  <2>6. Newest(prog, phis, o2, e, v) = Newest(prog, phis, operand, e, v)
    BY <1>0, <2>1, <2>3, NewestKept DEF e
  <2>q. QED
    BY <2>4, <2>5, <2>6 DEF e
<1>2. ASSUME NEW s \in Block, NEW v \in Var
      PROVE  /\ Range(args[s][v]) = IF v \in phis[s]
                   THEN {<<q, Newest(prog, phis, o2, EndOf(prog, q), v)>> : q \in Preds(prog.succ, s) \cap Filled}
                   ELSE {}
             /\ \A m \in DOMAIN args[s][v] : \A d, n : args[s][v][m][2] # <<"load", d, n>>
  <2>1. Range(args[s][v]) = IF v \in phis[s]
                   THEN {<<q, Newest(prog, phis, operand, EndOf(prog, q), v)>> : q \in Preds(prog.succ, s) \cap Filled}
                   ELSE {}
    BY DEF ArgsOk
  <2>2. ASSUME NEW m \in DOMAIN args[s][v], NEW d, NEW n PROVE args[s][v][m][2] # <<"load", d, n>>
    <3>1. args[s][v][m] \in Range(args[s][v])
      BY DEF Range
    <3>2. v \in phis[s]
      BY <2>1, <3>1
    <3>3. PICK q \in Filled : args[s][v][m] = <<q, Newest(prog, phis, operand, EndOf(prog, q), v)>>
      BY <2>1, <3>1, <3>2
    <3>4. PlainAt(prog, args[s][v][m][2], q)
      BY <1>1, <3>2, <3>3
    <3>q. QED
      BY <3>4, PlainValues
  <2>3. v \in phis[s] =>
          {<<q, Newest(prog, phis, o2, EndOf(prog, q), v)>> : q \in Preds(prog.succ, s) \cap Filled}
          = {<<q, Newest(prog, phis, operand, EndOf(prog, q), v)>> : q \in Preds(prog.succ, s) \cap Filled}
    BY <1>1
  <2>q. QED
    BY <2>1, <2>2, <2>3
<1>q. QED
  BY <1>2 DEF ArgsOk

\* A change of the topmost call, if what it has put on wait_delete is right.
LEMMA DeletesMove ==
  ASSUME WalkInv, ErasedOk, calls # <<>>, NEW c \in CallsOf(prog), SetTop(c),
         UNCHANGED <<prog, erased>>, Left' = Left, DeletesOk(prog, c)
  PROVE  ErasedOk'
<1>1. /\ Len(calls') = Len(calls)
      /\ \A m \in 1 .. Len(calls) : calls'[m] = IF m = Len(calls) THEN c ELSE calls[m]
  BY TopReplaced DEF WalkInv
<1>2. \A m \in 1 .. Len(calls') : DeletesOk(prog, calls'[m])
  BY <1>1 DEF ErasedOk
<1>q. QED
  BY <1>2 DEF ErasedOk

LEMMA DeletesNext ==
  ASSUME WalkInv, ErasedOk, calls # <<>>, Top.pos <= Len(prog.code[Top.block])
  PROVE  LET i == <<Top.block, Top.pos>>
             d == [Top EXCEPT !.pos = @ + 1]
             e == [Top EXCEPT !.pos = @ + 1, !.wait_delete = @ \cup {i}]
         IN /\ At(i).op = "out" => DeletesOk(prog, d)
            /\ At(i).op # "out" => DeletesOk(prog, e)
<1> DEFINE t == Top
           i == <<t.block, t.pos>>
           D(n) == {k \in Placed(prog) : k[1] = t.block /\ k[2] < n /\ prog.code[k[1]][k[2]].op # "out"}
<1>1. /\ t \in CallsOf(prog) /\ t = calls[Len(calls)] /\ Len(calls) \in 1 .. Len(calls) /\ t.pos \in Nat
      /\ i \in Placed(prog) /\ At(i) = prog.code[i[1]][i[2]]
      /\ IsProgram(prog)
  BY TheTop, TheInstruction, ProgramsAssumption DEF WalkInv, TypeInv, At
<1>2. t.wait_delete = D(t.pos)
  BY <1>1 DEF ErasedOk, DeletesOk
<1>3. \A k \in Placed(prog) : k = <<k[1], k[2]>> /\ k[2] \in Nat
  BY <1>1, Code
<1> HIDE DEF t
<1>4. D(t.pos + 1) = IF At(i).op = "out" THEN D(t.pos) ELSE D(t.pos) \cup {i}
  <2>1. \A k \in Placed(prog) : k[1] = t.block /\ k[2] < t.pos + 1 <=> (k[1] = t.block /\ k[2] < t.pos) \/ k = i
    BY <1>1, <1>3
  <2> HIDE DEF i
  <2>q. QED
    BY <1>1, <2>1
<1>5. /\ [t EXCEPT !.pos = @ + 1].wait_delete = t.wait_delete
      /\ [t EXCEPT !.pos = @ + 1].pos = t.pos + 1
      /\ [t EXCEPT !.pos = @ + 1].block = t.block
      /\ [t EXCEPT !.pos = @ + 1, !.wait_delete = @ \cup {i}].wait_delete = t.wait_delete \cup {i}
      /\ [t EXCEPT !.pos = @ + 1, !.wait_delete = @ \cup {i}].pos = t.pos + 1
      /\ [t EXCEPT !.pos = @ + 1, !.wait_delete = @ \cup {i}].block = t.block
  BY <1>1 DEF CallsOf
<1>6. /\ At(i).op = "out" => DeletesOk(prog, [t EXCEPT !.pos = @ + 1])
      /\ At(i).op # "out" => DeletesOk(prog, [t EXCEPT !.pos = @ + 1, !.wait_delete = @ \cup {i}])
  <2> HIDE DEF i
  <2>q. QED
    BY <1>2, <1>4, <1>5 DEF DeletesOk
<1>q. QED
  BY <1>6 DEF t

LEMMA ReNameRenames ==
  ASSUME WalkInv, RenamedInv, ReName
  PROVE  RenamedInv'
<1>0. IsProgram(prog)
  BY ProgramsAssumption DEF WalkInv, TypeInv
<1>1. /\ calls' = <<Call(Entry)>> /\ phase' = "rename"
      /\ UNCHANGED <<prog, phis, args, operand, erased, keys, stacks>>
  BY DEF ReName
<1>2. /\ ~Started /\ calls' # <<>> /\ Top' = Call(Entry)
      /\ Left' = {} /\ Filled' = {} /\ Passed' = {}
  BY ReNameMoves DEF WalkInv
<1>3. Left = {} /\ Filled = {} /\ Passed = {}
  BY <1>2 DEF Left, Filled, Passed
<1>4. StacksOk'
  <2>1. PlaceOf(Call(Entry)) = <<Entry, 0>>
    BY DEF PlaceOf, Call
  <2>2. \A v : DefsAbove(prog, phis, <<Entry, 0>>, v) = {}
    BY <1>0, HeadOfEntry
  <2>3. PlaceOf(Top)' = <<Entry, 0>>
    BY <1>2, <2>1
  <2>q. QED
    BY <1>1, <2>2, <2>3 DEF StacksOk, StackOk
<1>5. ErasedOk'
  <2>1. DeletesOk(prog, Call(Entry))
    <3>1. Call(Entry).wait_delete = {} /\ Call(Entry).pos = 1
      BY DEF Call
    <3>2. \A i \in Placed(prog) : ~(i[2] < 1)
      BY <1>0, Code
    <3>q. QED
      BY <3>1, <3>2 DEF DeletesOk
  <2>2. erased = {}
    BY <1>2 DEF WalkInv, Untouched
  <2> DEFINE k == Call(Entry)
  <2> HIDE DEF k
  <2>3. Len(<<k>>) = 1 /\ <<k>>[1] = k
    OBVIOUS
  <2>4. \A m \in 1 .. Len(calls') : DeletesOk(prog', calls'[m])
    BY <1>1, <2>1, <2>3 DEF k
  <2>q. QED
    BY <1>1, <1>2, <2>2, <2>4 DEF ErasedOk
<1>6. PlainStacks'
  BY <1>1 DEF RenamedInv, PlainStacks
<1>q. QED
  BY <1>1, <1>2, <1>3, <1>4, <1>5, <1>6 DEF RenamedInv

LEMMA PushPhisRenames ==
  ASSUME WalkInv, RenamedInv, PushPhis
  PROVE  RenamedInv'
<1> DEFINE b == Top.block
<1>1. /\ IsProgram(prog) /\ calls # <<>> /\ calls' # <<>> /\ b \in Reachable(prog.succ) /\ b \in Block
      /\ PlaceOf(Top) = <<b, 0>> /\ PlaceOf(Top)' = <<b, 1>>
      /\ Left' = Left /\ Filled' = Filled /\ Passed' = Passed
  BY PushPhisPlaces DEF WalkInv
<1>2. /\ stacks' = [v \in Var |-> IF v \in phis[b] THEN Append(stacks[v], <<"phi", b, v>>) ELSE stacks[v]]
      /\ keys' = keys \cup phis[b]
      /\ SetTop([Top EXCEPT !.step = "instr"])
      /\ UNCHANGED <<prog, phis, args, operand, erased, phase>>
  BY DEF PushPhis
<1>3. stacks \in [Var -> Seq(ValuesOf(prog))] /\ \A v \in Var : Len(stacks[v]) = Height(prog, phis, <<b, 0>>, v)
  BY <1>1 DEF WalkInv, TypeInv, HeightInv
<1> HIDE DEF b
<1>4. ASSUME NEW v \in Var
      PROVE  /\ StackOk(prog, phis, operand, <<b, 1>>, v, stacks'[v])
             /\ DefsAbove(prog, phis, <<b, 1>>, v) # {} => v \in keys'
             /\ \A m \in 1 .. Len(stacks'[v]) : IsPlain(stacks'[v][m])
  <2>1. /\ StackOk(prog, phis, operand, <<b, 0>>, v, stacks[v])
        /\ DefsAbove(prog, phis, <<b, 0>>, v) # {} => v \in keys
        /\ \A m \in 1 .. Len(stacks[v]) : IsPlain(stacks[v][m])
        /\ stacks[v] \in Seq(ValuesOf(prog)) /\ Len(stacks[v]) = Height(prog, phis, <<b, 0>>, v)
    BY <1>1, <1>3 DEF RenamedInv, StacksOk, PlainStacks
  <2>2. <<b, 0>> \in Defs(prog, phis, v) <=> v \in phis[b]
    BY <1>1, DefsOfBlock
  <2> DEFINE w == <<"phi", b, v>>
  <2>3. w = ValueOf(operand, <<b, 0>>, v) /\ 0 + 1 = 1 /\ 0 \in Nat /\ IsPlain(w)
    BY <1>1 DEF ValueOf, IsPlain
  <2>4. /\ <<b, 0>> \notin Defs(prog, phis, v) => StackOk(prog, phis, operand, <<b, 0 + 1>>, v, stacks[v])
        /\ <<b, 0>> \in Defs(prog, phis, v) =>
             \A u : u = ValueOf(operand, <<b, 0>>, v) =>
               StackOk(prog, phis, operand, <<b, 0 + 1>>, v, Append(stacks[v], u))
    BY ONLY <1>1, <2>1, <2>3, StackMoves
  <2>5. /\ <<b, 0>> \in Defs(prog, phis, v) =>
             DefsAbove(prog, phis, <<b, 0 + 1>>, v) = DefsAbove(prog, phis, <<b, 0>>, v) \cup {<<b, 0>>}
        /\ <<b, 0>> \notin Defs(prog, phis, v) =>
             DefsAbove(prog, phis, <<b, 0 + 1>>, v) = DefsAbove(prog, phis, <<b, 0>>, v)
    BY ONLY <1>1, <2>3, NextPlace
  <2> HIDE DEF w
  <2>6. CASE v \in phis[b]
    <3>1. stacks'[v] = Append(stacks[v], w) /\ v \in keys'
      BY <1>2, <2>6 DEF w
    <3>2. StackOk(prog, phis, operand, <<b, 1>>, v, stacks'[v])
      BY <2>2, <2>3, <2>4, <2>6, <3>1
    <3>3. \A m \in 1 .. Len(stacks'[v]) : IsPlain(stacks'[v][m])
      BY <2>1, <2>3, <3>1, AppendProperties
    <3>q. QED
      BY <3>1, <3>2, <3>3
  <2>7. CASE v \notin phis[b]
    <3>1. stacks'[v] = stacks[v] /\ (v \in keys => v \in keys')
      BY <1>2, <2>7
    <3>q. QED
      BY <2>1, <2>2, <2>3, <2>4, <2>5, <2>7, <3>1
  <2>q. QED
    BY <2>6, <2>7
<1>5. StacksOk' /\ PlainStacks'
  <2>1. \A v \in Var : /\ StackOk(prog, phis, operand, PlaceOf(Top), v, stacks[v])'
                       /\ (DefsAbove(prog, phis, PlaceOf(Top), v) # {} => v \in keys)'
    BY <1>1, <1>2, <1>4
  <2>q. QED
    BY <1>4, <2>1 DEF StacksOk, PlainStacks
<1>6. ErasedOk'
  <2> DEFINE t == Top
             c == [t EXCEPT !.step = "instr"]
  <2>1. t \in CallsOf(prog) /\ t = calls[Len(calls)] /\ Len(calls) \in 1 .. Len(calls)
    BY <1>1, TheTop DEF WalkInv
  <2>2. DeletesOk(prog, t)
    BY <2>1 DEF RenamedInv, ErasedOk
  <2> HIDE DEF t
  <2>3. c \in CallsOf(prog) /\ c.wait_delete = t.wait_delete /\ c.pos = t.pos /\ c.block = t.block
    BY <2>1 DEF CallsOf
  <2>4. SetTop(c)
    BY <1>2 DEF t
  <2> HIDE DEF c
  <2>5. DeletesOk(prog, c)
    BY <2>2, <2>3 DEF DeletesOk
  <2>6. ErasedOk
    BY DEF RenamedInv
  <2>q. QED
    BY ONLY WalkInv, <1>1, <1>2, <2>3, <2>4, <2>5, <2>6, DeletesMove
<1>q. QED
  BY <1>1, <1>2, <1>5, <1>6 DEF RenamedInv

\* The three actions at an instruction: what they do to the stacks is for each to show.
LEMMA InstrRenames ==
  ASSUME WalkInv, RenamedInv, StoredFirst(prog), InReName("instr"), Top.pos <= Len(prog.code[Top.block]),
         UNCHANGED <<prog, phis, erased, phase>>,
         LET i == <<Top.block, Top.pos>> IN
           /\ SetTop(IF At(i).op = "out" THEN [Top EXCEPT !.pos = @ + 1]
                     ELSE [Top EXCEPT !.pos = @ + 1, !.wait_delete = @ \cup {i}])
           /\ args' = args /\ Agrees(prog, operand, operand', Passed)
           /\ OperandsOk(prog, phis, operand', Passed \cup {i}) /\ FormsOk(prog, operand', Passed \cup {i})
           /\ \A v \in Var : IF i \in Defs(prog, phis, v)
                             THEN v \in keys' /\ stacks'[v] = Append(stacks[v], operand'[i[1]][i[2]])
                             ELSE (v \in keys => v \in keys') /\ stacks'[v] = stacks[v]
  PROVE  RenamedInv'
<1> DEFINE b == Top.block
           n == Top.pos
           i == <<b, n>>
           c == IF At(i).op = "out" THEN [Top EXCEPT !.pos = @ + 1]
                ELSE [Top EXCEPT !.pos = @ + 1, !.wait_delete = @ \cup {i}]
<1>1. /\ IsProgram(prog) /\ calls # <<>> /\ calls' # <<>> /\ b \in Reachable(prog.succ) /\ b \in Block
      /\ n \in Nat /\ n # 0 /\ i \in Placed(prog) /\ n \in 1 .. Len(prog.code[b])
      /\ PlaceOf(Top) = i /\ PlaceOf(Top)' = <<b, n + 1>>
      /\ Left' = Left /\ Filled' = Filled /\ Passed' = Passed \cup {i}
  BY InstrPlaces DEF WalkInv
<1>2. /\ Agrees(prog, operand, operand', Passed) /\ FormsOk(prog, operand', Passed \cup {i})
      /\ OperandsOk(prog, phis, operand', Passed \cup {i}) /\ SetTop(c)
      /\ args' = args
  OBVIOUS
<1>3. stacks \in [Var -> Seq(ValuesOf(prog))] /\ \A v \in Var : Len(stacks[v]) = Height(prog, phis, i, v)
  BY <1>1 DEF WalkInv, TypeInv, HeightInv
<1>4. i \in Places(prog) /\ Closed(prog, Passed, i)
  BY <1>1, WalkIsClosed
<1>5. ArgsOk(prog, phis, operand', args, Filled)
  BY <1>2, ArgsKept DEF RenamedInv
<1>6. ASSUME NEW v \in Var
      PROVE  /\ StackOk(prog, phis, operand', <<b, n + 1>>, v, stacks'[v])
             /\ DefsAbove(prog, phis, <<b, n + 1>>, v) # {} => v \in keys'
             /\ \A m \in 1 .. Len(stacks'[v]) : IsPlain(stacks'[v][m])
  <2> DEFINE w == operand'[b][n]
  <2>1. /\ StackOk(prog, phis, operand, i, v, stacks[v])
        /\ DefsAbove(prog, phis, i, v) # {} => v \in keys
        /\ \A m \in 1 .. Len(stacks[v]) : IsPlain(stacks[v][m])
        /\ stacks[v] \in Seq(ValuesOf(prog)) /\ Len(stacks[v]) = Height(prog, phis, i, v)
    BY <1>1, <1>3 DEF RenamedInv, StacksOk, PlainStacks
  <2>2. StackOk(prog, phis, operand', i, v, stacks[v])
    BY <1>1, <1>2, <1>4, <2>1, StackKept
  <2>3. w = ValueOf(operand', i, v)
    BY <1>1 DEF ValueOf
  <2>4. /\ i \notin Defs(prog, phis, v) => StackOk(prog, phis, operand', <<b, n + 1>>, v, stacks[v])
        /\ i \in Defs(prog, phis, v) =>
             \A u : u = ValueOf(operand', i, v) =>
               StackOk(prog, phis, operand', <<b, n + 1>>, v, Append(stacks[v], u))
    BY <1>1, <2>1, <2>2, StackMoves
  <2>5. i \notin Defs(prog, phis, v) => DefsAbove(prog, phis, <<b, n + 1>>, v) = DefsAbove(prog, phis, i, v)
    BY <1>1, NextPlace
  <2>6. IF i \in Defs(prog, phis, v) THEN v \in keys' /\ stacks'[v] = Append(stacks[v], w)
                                     ELSE (v \in keys => v \in keys') /\ stacks'[v] = stacks[v]
    OBVIOUS
  <2>7. CASE i \in Defs(prog, phis, v)
    <3>1. prog.code[b][n].op = "store"
      BY <1>1, <2>7, DefAt
    <3>2. PlainAt(prog, w, b)
      BY <1>2, <3>1 DEF FormsOk
    <3>3. IsPlain(w)
      BY <3>2, PlainValues
    <3> HIDE DEF w, i
    <3>4. \A m \in 1 .. Len(stacks'[v]) : IsPlain(stacks'[v][m])
      BY <2>1, <2>6, <2>7, <3>3, AppendProperties
    <3>q. QED
      BY <2>3, <2>4, <2>6, <2>7, <3>4
  <2>8. CASE i \notin Defs(prog, phis, v)
    BY <2>1, <2>4, <2>5, <2>6, <2>8
  <2>q. QED
    BY <2>7, <2>8
<1>7. StacksOk' /\ PlainStacks'
  <2>1. \A v \in Var : /\ StackOk(prog, phis, operand, PlaceOf(Top), v, stacks[v])'
                       /\ (DefsAbove(prog, phis, PlaceOf(Top), v) # {} => v \in keys)'
    BY <1>1, <1>6
  <2>q. QED
    BY <1>6, <2>1 DEF StacksOk, PlainStacks
<1>8. ErasedOk'
  <2>1. ErasedOk
    BY DEF RenamedInv
  <2>2. DeletesOk(prog, c)
    BY <1>1, <2>1, DeletesNext
  <2>3. c \in CallsOf(prog)
    BY <1>1, TopChanged DEF WalkInv
  <2> HIDE DEF c
  <2>q. QED
    BY <1>1, <1>2, <2>1, <2>2, <2>3, DeletesMove
<1>9. phase' # "assert_failed"
  BY DEF RenamedInv
<1> HIDE DEF i
<1>q. QED
  BY <1>1, <1>2, <1>5, <1>7, <1>8, <1>9 DEF RenamedInv

\* Nothing is done to the operands.
LEMMA SameOperands ==
  ASSUME NEW p, NEW o, NEW P
  PROVE  Agrees(p, o, o, P)
BY DEF Agrees

LEMMA ReNameLoadRenames ==
  ASSUME WalkInv, RenamedInv, StoredFirst(prog), ReNameLoad
  PROVE  RenamedInv'
<1> DEFINE b == Top.block
           n == Top.pos
           i == <<b, n>>
           v == At(i).var
<1>1. /\ InReName("instr") /\ n <= Len(prog.code[b]) /\ calls # <<>>
      /\ UNCHANGED <<prog, phis, erased, keys, stacks, phase>>
      /\ At(i).op = "load"
      /\ IF v \in keys
         THEN /\ ReplaceAllUseWith(<<"load", b, n>>, Back(v))
              /\ SetTop([Top EXCEPT !.pos = @ + 1, !.wait_delete = @ \cup {i}])
         ELSE TRUE
  BY DEF ReNameLoad, InReName
<1>2. /\ i \in Placed(prog) /\ At(i) = prog.code[b][n] /\ v \in Var
      /\ TypeInv /\ IsProgram(prog)
      /\ b \in Block /\ n \in 1 .. Len(prog.code[b])
  <2>1. TypeInv /\ IsProgram(prog)
    BY ProgramsAssumption DEF WalkInv, TypeInv
  <2>2. /\ i \in Placed(prog) /\ At(i) = prog.code[b][n]
        /\ At(i).op # "out" => At(i).var \in Var
    BY <1>1, <2>1, TheInstruction
  <2>3. b \in Block /\ n \in Nat \ {0} /\ Len(prog.code[b]) \in Nat
    BY <1>1, <2>1, TheTop
  <2>q. QED
    BY <1>1, <2>1, <2>2, <2>3
<1>3. /\ Top.step = "instr" /\ PlaceOf(Top) = i
  BY <1>1 DEF InReName, PlaceOf
<1>4. /\ Passed \subseteq Placed(prog) /\ \A k \in Passed : Closed(prog, Passed, k)
      /\ i \in Places(prog) /\ Closed(prog, Passed, i)
  BY <1>1, <1>3, WalkIsClosed
<1>5. DefsAbove(prog, phis, i, v) # {}
  <2>1. prog.code[i[1]][i[2]].op = "load" /\ v = prog.code[i[1]][i[2]].var
    BY <1>1, <1>2
  <2> HIDE DEF i, v
  <2>q. QED
    BY <1>2, <2>1, StoredAbove
<1>6. v \in keys /\ Back(v) = Newest(prog, phis, operand, i, v)
  BY <1>1, <1>2, <1>3, <1>5, BackIsNewest DEF RenamedInv
<1>7. ReplaceAllUseWith(<<"load", b, n>>, Back(v)) /\ SetTop([Top EXCEPT !.pos = @ + 1, !.wait_delete = @ \cup {i}])
  BY <1>1, <1>6
<1>8. /\ \A d \in Block : \A m \in 1 .. Len(operand[d]) :
           operand'[d][m] = IF operand[d][m] = <<"load", b, n>> THEN Back(v) ELSE operand[d][m]
      /\ \A d \in Block, x \in Var :
           (\A m \in DOMAIN args[d][x] : args[d][x][m][2] # <<"load", b, n>>) => args'[d][x] = args[d][x]
      /\ args' \in [Block -> [Var -> Seq(Block \X ValuesOf(prog))]]
  <2> DEFINE val == <<"load", b, n>>
             new == Back(v)
  <2>1. new \in ValuesOf(prog)
    BY <1>2, BackType
  <2>2. ReplaceAllUseWith(val, new)
    BY <1>7
  <2> HIDE DEF val, new
  <2>3. /\ operand' \in [Block -> Seq(ValuesOf(prog))]
        /\ \A d \in Block : \A m \in 1 .. Len(operand[d]) :
             operand'[d][m] = IF operand[d][m] = val THEN new ELSE operand[d][m]
        /\ args' \in [Block -> [Var -> Seq(Block \X ValuesOf(prog))]]
        /\ \A d \in Block, x \in Var :
             (\A m \in DOMAIN args[d][x] : args[d][x][m][2] # val) => args'[d][x] = args[d][x]
    BY ONLY <1>2, <2>1, <2>2, ReplacedTypes
  <2>q. QED
    BY <2>3 DEF val, new
<1>9. \A k \in Placed(prog) : operand'[k[1]][k[2]] = IF operand[k[1]][k[2]] = <<"load", b, n>>
                                 THEN Newest(prog, phis, operand, i, v) ELSE operand[k[1]][k[2]]
  <2>1. \A k \in Placed(prog) : k[1] \in Block /\ k[2] \in 1 .. Len(operand[k[1]])
    BY <1>2, Code DEF TypeInv
  <2>q. QED
    BY <1>6, <1>8, <2>1
<1>10. /\ Agrees(prog, operand, operand', Passed)
       /\ FormsOk(prog, operand', Passed \cup {i}) /\ OperandsOk(prog, phis, operand', Passed \cup {i})
  <2>1. i[1] = b /\ i[2] = n /\ v = prog.code[i[1]][i[2]].var /\ prog.code[i[1]][i[2]].op = "load"
    BY <1>1, <1>2
  <2> HIDE DEF i, v, b, n
  <2>2. \A k \in Placed(prog) : operand'[k[1]][k[2]] = IF operand[k[1]][k[2]] = <<"load", i[1], i[2]>>
              THEN Newest(prog, phis, operand, i, prog.code[i[1]][i[2]].var) ELSE operand[k[1]][k[2]]
    BY <1>9, <2>1
  <2>3. FormsOk(prog, operand, Passed) /\ OperandsOk(prog, phis, operand, Passed)
    BY DEF RenamedInv
  <2>q. QED
    BY ONLY StoredFirst(prog), <1>2, <1>4, <2>1, <2>2, <2>3, Replacing
<1>11. args' = args
  <2>1. \A s \in Block, x \in Var : \A m \in DOMAIN args[s][x] : \A d, k : args[s][x][m][2] # <<"load", d, k>>
    BY <1>10, ArgsKept DEF RenamedInv
  <2>2. ASSUME NEW s \in Block, NEW x \in Var PROVE args'[s][x] = args[s][x]
    <3>1. \A m \in DOMAIN args[s][x] : args[s][x][m][2] # <<"load", b, n>>
      BY <2>1
    <3>q. QED
      BY <1>8, <3>1
  <2>3. args \in [Block -> [Var -> Seq(Block \X ValuesOf(prog))]]
    BY <1>2 DEF TypeInv
  <2> DEFINE S == Seq(Block \X ValuesOf(prog))
  <2> HIDE DEF S
  <2>4. \A s \in Block : args'[s] = args[s]
    BY <1>8, <2>2, <2>3 DEF S
  <2>q. QED
    BY <1>8, <2>3, <2>4 DEF S
<1>12. \A x \in Var : i \notin Defs(prog, phis, x)
  BY <1>1, <1>2, DefAt
<1>13. At(i).op # "out"
  BY <1>1
<1>q. QED
  BY <1>1, <1>7, <1>10, <1>11, <1>12, <1>13, InstrRenames

LEMMA ReNameStoreRenames ==
  ASSUME WalkInv, RenamedInv, StoredFirst(prog), ReNameStore
  PROVE  RenamedInv'
<1> DEFINE b == Top.block
           n == Top.pos
           i == <<b, n>>
           v == At(i).var
<1>1. /\ InReName("instr") /\ n <= Len(prog.code[b]) /\ calls # <<>>
      /\ UNCHANGED <<prog, phis, args, operand, erased, phase>>
      /\ At(i).op = "store"
      /\ stacks' = [stacks EXCEPT ![v] = Append(@, operand[b][n])] /\ keys' = keys \cup {v}
      /\ SetTop([Top EXCEPT !.pos = @ + 1, !.wait_delete = @ \cup {i}])
  BY DEF ReNameStore, InReName, Push
<1>2. /\ i \in Placed(prog) /\ At(i) = prog.code[b][n] /\ v \in Var
      /\ TypeInv /\ IsProgram(prog)
      /\ b \in Block /\ n \in 1 .. Len(prog.code[b])
  <2>1. TypeInv /\ IsProgram(prog)
    BY ProgramsAssumption DEF WalkInv, TypeInv
  <2>2. /\ i \in Placed(prog) /\ At(i) = prog.code[b][n]
        /\ At(i).op # "out" => At(i).var \in Var
    BY <1>1, <2>1, TheInstruction
  <2>3. b \in Block /\ n \in Nat \ {0} /\ Len(prog.code[b]) \in Nat
    BY <1>1, <2>1, TheTop
  <2>q. QED
    BY <1>1, <2>1, <2>2, <2>3
<1>3. /\ Top.step = "instr" /\ PlaceOf(Top) = i
  BY <1>1 DEF InReName, PlaceOf
<1>4. /\ Passed \subseteq Placed(prog) /\ \A k \in Passed : Closed(prog, Passed, k)
      /\ i \in Places(prog) /\ Closed(prog, Passed, i)
  BY <1>1, <1>3, WalkIsClosed
<1>5. PlainAt(prog, operand[b][n], b) /\ OperandsOk(prog, phis, operand, Passed \cup {i})
  <2>1. i[1] = b /\ i[2] = n /\ prog.code[i[1]][i[2]].op = "store"
    BY <1>1, <1>2
  <2>2. FormsOk(prog, operand, Passed) /\ OperandsOk(prog, phis, operand, Passed)
    BY DEF RenamedInv
  <2> HIDE DEF i, b, n
  <2>3. PlainAt(prog, operand[i[1]][i[2]], i[1])
    BY ONLY StoredFirst(prog), <1>2, <1>4, <2>1, <2>2, StoredIsPlain
  <2>4. OperandsOk(prog, phis, operand, Passed \cup {i})
    BY <1>2, <2>1, <2>2, NotALoad
  <2>q. QED
    BY <2>1, <2>3, <2>4
<1>6. FormsOk(prog, operand, Passed \cup {i})
  BY <1>5 DEF RenamedInv, FormsOk
<1>7. \A x \in Var : IF i \in Defs(prog, phis, x)
                     THEN x \in keys' /\ stacks'[x] = Append(stacks[x], operand'[i[1]][i[2]])
                     ELSE (x \in keys => x \in keys') /\ stacks'[x] = stacks[x]
  <2> SUFFICES ASSUME NEW x \in Var
               PROVE  IF i \in Defs(prog, phis, x)
                      THEN x \in keys' /\ stacks'[x] = Append(stacks[x], operand'[i[1]][i[2]])
                      ELSE (x \in keys => x \in keys') /\ stacks'[x] = stacks[x]
    OBVIOUS
  <2>1. i \in Defs(prog, phis, x) <=> x = v
    BY <1>1, <1>2, DefAt
  <2>2. stacks \in [Var -> Seq(ValuesOf(prog))]
    BY <1>2 DEF TypeInv
  <2>q. QED
    BY <1>1, <2>1, <2>2
<1>8. At(i).op # "out"
  BY <1>1
<1>9. Agrees(prog, operand, operand', Passed)
  BY <1>1, SameOperands
<1>q. QED
  BY <1>1, <1>5, <1>6, <1>7, <1>8, <1>9, InstrRenames

LEMMA ReNameOtherRenames ==
  ASSUME WalkInv, RenamedInv, StoredFirst(prog), ReNameOther
  PROVE  RenamedInv'
<1> DEFINE b == Top.block
           n == Top.pos
           i == <<b, n>>
<1>1. /\ InReName("instr") /\ n <= Len(prog.code[b]) /\ calls # <<>>
      /\ UNCHANGED <<prog, phis, args, operand, erased, keys, stacks, phase>>
      /\ At(i).op = "out" /\ SetTop([Top EXCEPT !.pos = @ + 1])
  BY DEF ReNameOther, InReName
<1>2. /\ i \in Placed(prog) /\ At(i) = prog.code[b][n]
      /\ TypeInv /\ IsProgram(prog)
      /\ b \in Block /\ n \in 1 .. Len(prog.code[b])
  <2>1. TypeInv /\ IsProgram(prog)
    BY ProgramsAssumption DEF WalkInv, TypeInv
  <2>2. /\ i \in Placed(prog) /\ At(i) = prog.code[b][n]
        /\ At(i).op # "out" => At(i).var \in Var
    BY <1>1, <2>1, TheInstruction
  <2>3. b \in Block /\ n \in Nat \ {0} /\ Len(prog.code[b]) \in Nat
    BY <1>1, <2>1, TheTop
  <2>q. QED
    BY <1>1, <2>1, <2>2, <2>3
<1>3. OperandsOk(prog, phis, operand, Passed \cup {i})
  BY <1>1, <1>2, NotALoad DEF RenamedInv
<1>4. FormsOk(prog, operand, Passed \cup {i})
  BY <1>1, <1>2 DEF RenamedInv, FormsOk
<1>5. \A x \in Var : i \notin Defs(prog, phis, x)
  BY <1>1, <1>2, DefAt
<1>6. Agrees(prog, operand, operand', Passed)
  BY <1>1, SameOperands
<1>q. QED
  BY <1>1, <1>3, <1>4, <1>5, <1>6, InstrRenames

LEMMA FillPhisRenames ==
  ASSUME WalkInv, WalkInv', RenamedInv, StoredFirst(prog), FillPhis
  PROVE  RenamedInv'
<1> DEFINE b == Top.block
           e == EndOf(prog, b)
           fill == {t \in Succs(prog.succ, b) \X Var : t[2] \in phis[t[1]] \cap keys}
           N(o, q, v) == Newest(prog, phis, o, EndOf(prog, q), v)
<1>1. /\ Top.step = "instr" /\ calls # <<>> /\ Top.pos > Len(prog.code[b]) /\ phase = "rename"
      /\ UNCHANGED <<prog, phis, operand, erased, keys, stacks>>
  BY DEF FillPhis, InReName
<1>2. IsProgram(prog) /\ IsSucc(prog.succ) /\ TypeInv
  BY ProgramsAssumption, Code DEF WalkInv, TypeInv
<1>3. b \in Block /\ b \in Reachable(prog.succ) /\ PlaceOf(Top) = e
  <2>1. Top.pos \in 1 .. Len(prog.code[b]) + 1 /\ Len(prog.code[b]) \in Nat
    BY <1>1, <1>2, TheTop
  <2>2. Top.pos = Len(prog.code[b]) + 1
    BY <1>1, <2>1
  <2>q. QED
    BY <1>1, <2>2, WalkIsClosed DEF EndOf, PlaceOf
<1>4. ASSUME NEW s \in Block, NEW v \in phis[s]
      PROVE  v \in Var /\ v \in keys /\ stacks[v] # <<>> /\ Back(v) = N(operand, b, v)
  <2>1. v \in Var /\ StoredIn(prog, v) # {}
    BY <1>2 DEF WalkInv, PhiInv, TypeInv
  <2>2. DefsAbove(prog, phis, PlaceOf(Top), v) # {}
    BY <1>2, <1>3, <2>1, StoredAtEnd
  <2>q. QED
    BY <1>1, <1>3, <2>1, <2>2, BackIsNewest DEF RenamedInv
<1>5. Succs(prog.succ, b) \subseteq Block
  <2>1. prog.succ[b] \in Seq(Block)
    BY <1>2, <1>3 DEF IsProgram
  <2>q. QED
    BY <2>1 DEF Succs, Range
<1>6. /\ args' = [s \in Block |-> [v \in Var |->
                    IF <<s, v>> \in fill THEN Append(args[s][v], <<b, Back(v)>>) ELSE args[s][v]]]
      /\ SetTop([Top EXCEPT !.step = "kids"]) /\ phase' = phase
  <2>1. ~ \E t \in fill : stacks[t[2]] = <<>>
    BY <1>4, <1>5
  <2>q. QED
    BY <2>1 DEF FillPhis
<1>7. /\ calls' # <<>> /\ PlaceOf(Top)' = e
      /\ Left' = Left /\ Filled' = Filled \cup {b} /\ Passed' = Passed
  BY <1>6, FillPhisPlaces DEF WalkInv
<1>8. b \notin Filled
  <2>1. Len(calls) \in 1 .. Len(calls) /\ Top = calls[Len(calls)]
    BY <1>1, <1>2, TheTop
  <2>q. QED
    BY <1>1, <2>1 DEF Filled, FilledBy
<1>9. ASSUME NEW s \in Block, NEW v \in Var
      PROVE  /\ Range(args'[s][v]) = IF v \in phis[s]
                   THEN {<<q, N(operand, q, v)>> : q \in Preds(prog.succ, s) \cap (Filled \cup {b})}
                   ELSE {}
             /\ \A m, n \in 1 .. Len(args'[s][v]) : args'[s][v][m][1] = args'[s][v][n][1] => m = n
  <2> DEFINE x == args[s][v]
             B == N(operand, b, v)
             w == <<b, B>>
             S == {<<q, N(operand, q, v)>> : q \in Preds(prog.succ, s) \cap Filled}
  <2>1. x \in Seq(Block \X ValuesOf(prog)) /\ Len(x) \in Nat /\ DOMAIN x = 1 .. Len(x)
    BY <1>2 DEF TypeInv
  <2>2. /\ Range(x) = IF v \in phis[s] THEN S ELSE {}
        /\ \A m, n \in 1 .. Len(x) : x[m][1] = x[n][1] => m = n
    BY DEF RenamedInv, ArgsOk
  <2>3. <<s, v>> \in fill <=> b \in Preds(prog.succ, s) /\ v \in phis[s]
    <3>1. <<s, v>> \in fill <=> s \in Succs(prog.succ, b) /\ v \in phis[s] /\ v \in keys
      OBVIOUS
    <3>2. b \in Preds(prog.succ, s) <=> s \in Succs(prog.succ, b)
      BY <1>3 DEF Preds
    <3>q. QED
      BY <1>4, <3>1, <3>2
  <2>4. CASE <<s, v>> \notin fill
    <3>1. args'[s][v] = x
      BY <1>6, <2>4
    <3>2. v \in phis[s] => Preds(prog.succ, s) \cap (Filled \cup {b}) = Preds(prog.succ, s) \cap Filled
      BY <2>3, <2>4
    <3> HIDE DEF x, fill, N
    <3>q. QED
      BY <2>2, <3>1, <3>2
  <2>5. CASE <<s, v>> \in fill
    <3>1. v \in phis[s] /\ b \in Preds(prog.succ, s) /\ Back(v) = B
      BY <1>4, <2>3, <2>5
    <3>2. args'[s][v] = Append(x, w)
      BY <1>6, <2>5, <3>1
    <3>3. Preds(prog.succ, s) \cap (Filled \cup {b}) = (Preds(prog.succ, s) \cap Filled) \cup {b}
      BY <3>1
    <3>4. {<<q, N(operand, q, v)>> : q \in Preds(prog.succ, s) \cap (Filled \cup {b})} = S \cup {w}
      <4> HIDE DEF N
      <4>q. QED
        BY <3>3
    <3>5. \A m \in 1 .. Len(x) : x[m] \in S
      BY <2>1, <2>2, <3>1 DEF Range
    <3>6. \A m \in 1 .. Len(x) : x[m][1] # b
      <4>1. \A y \in S : y[1] \in Filled
        OBVIOUS
      <4>q. QED
        BY <1>8, <3>5, <4>1
    <3>7. w[1] = b
      OBVIOUS
    <3>8. Range(x) = S
      BY <2>2, <3>1
    <3> HIDE DEF x, w, S, fill, N, B
    <3>9. /\ Len(Append(x, w)) = Len(x) + 1 /\ DOMAIN Append(x, w) = 1 .. Len(x) + 1
          /\ Append(x, w)[Len(x) + 1] = w
          /\ \A m \in 1 .. Len(x) : Append(x, w)[m] = x[m]
      BY <2>1, AppendProperties
    <3>10. Range(args'[s][v]) = S \cup {w}
      <4>1. Range(Append(x, w)) = Range(x) \cup {w}
        <5>1. \A m \in 1 .. Len(x) + 1 : m \in 1 .. Len(x) \/ m = Len(x) + 1
          BY <2>1
        <5>2. Range(Append(x, w)) \subseteq Range(x) \cup {w}
          BY <2>1, <3>9, <5>1 DEF Range
        <5>3. Range(x) \subseteq Range(Append(x, w))
          BY <2>1, <3>9 DEF Range
        <5>4. w \in Range(Append(x, w))
          BY <2>1, <3>9 DEF Range
        <5>q. QED
          BY <5>2, <5>3, <5>4
      <4>q. QED
        BY <3>2, <3>8, <4>1
    <3>11. ASSUME NEW m \in 1 .. Len(x) + 1, NEW n \in 1 .. Len(x) + 1,
                  Append(x, w)[m][1] = Append(x, w)[n][1]
           PROVE  m = n
      <4>1. m \in 1 .. Len(x) \/ m = Len(x) + 1
        BY <2>1
      <4>2. n \in 1 .. Len(x) \/ n = Len(x) + 1
        BY <2>1
      <4>q. QED
        BY <2>2, <3>6, <3>7, <3>9, <3>11, <4>1, <4>2
    <3>q. QED
      BY <3>1, <3>2, <3>4, <3>9, <3>10, <3>11
  <2>q. QED
    BY <2>4, <2>5
<1>10. ArgsOk(prog, phis, operand, args', Filled \cup {b})
  <2> HIDE DEF b
  <2>q. QED
    BY <1>9 DEF ArgsOk
<1>11. StacksOk' /\ PlainStacks'
  <2>1. StacksOk /\ PlainStacks
    BY DEF RenamedInv
  <2>q. QED
    BY <1>1, <1>3, <1>7, <2>1 DEF StacksOk, PlainStacks
<1>12. ErasedOk'
  <2> DEFINE t == Top
             c == [t EXCEPT !.step = "kids"]
  <2>1. t \in CallsOf(prog) /\ t = calls[Len(calls)] /\ Len(calls) \in 1 .. Len(calls)
    BY <1>1, <1>2, TheTop
  <2>2. DeletesOk(prog, t)
    BY <2>1 DEF RenamedInv, ErasedOk
  <2>4. SetTop(c)
    BY <1>6
  <2> HIDE DEF t
  <2>3. c \in CallsOf(prog) /\ c.wait_delete = t.wait_delete /\ c.pos = t.pos /\ c.block = t.block
    BY <2>1 DEF CallsOf
  <2> HIDE DEF c
  <2>5. DeletesOk(prog, c)
    BY <2>2, <2>3 DEF DeletesOk
  <2>6. ErasedOk
    BY DEF RenamedInv
  <2>q. QED
    BY ONLY WalkInv, <1>1, <1>7, <2>3, <2>4, <2>5, <2>6, DeletesMove
<1>13. phase' # "assert_failed"
  BY <1>1, <1>6
<1> HIDE DEF b, e
<1>q. QED
  BY <1>1, <1>7, <1>10, <1>11, <1>12, <1>13 DEF RenamedInv

LEMMA DescendRenames ==
  ASSUME WalkInv, RenamedInv, NEW k \in Block, Descend(k)
  PROVE  RenamedInv'
<1>1. UNCHANGED <<prog, phis, args, operand, erased, keys, stacks, phase>>
  BY DEF Descend
<1>2. /\ calls # <<>> /\ Top' = Call(k)
      /\ Left' = Left /\ Filled' = Filled /\ Passed' = Passed
      /\ \A v : DefsAbove(prog, phis, PlaceOf(Call(k)), v) = DefsAbove(prog, phis, PlaceOf(Top), v)
  BY DescendMoves, DescendHeight DEF WalkInv
<1>3. PlaceOf(Top)' = PlaceOf(Call(k))
  BY <1>2
<1>4. StacksOk' /\ PlainStacks'
  <2>1. StacksOk /\ PlainStacks
    BY DEF RenamedInv
  <2>q. QED
    BY <1>1, <1>2, <1>3, <2>1 DEF StacksOk, PlainStacks, StackOk
<1>5. ErasedOk'
  <2>1. IsProgram(prog) /\ TypeInv
    BY ProgramsAssumption DEF WalkInv, TypeInv
  <2>2. /\ Len(calls') = Len(calls) + 1
        /\ \A m \in 1 .. Len(calls) : /\ calls'[m].block = calls[m].block /\ calls'[m].pos = calls[m].pos
                                      /\ calls'[m].wait_delete = calls[m].wait_delete
        /\ calls'[Len(calls) + 1] = Call(k)
    BY DescendCalls DEF WalkInv
  <2>3. Len(calls) \in Nat
    BY <1>2, <2>1, TheTop
  <2>4. DeletesOk(prog, Call(k))
    <3>1. Call(k).wait_delete = {} /\ Call(k).pos = 1
      BY DEF Call
    <3>2. \A i \in Placed(prog) : ~(i[2] < 1)
      BY <2>1, Code
    <3>q. QED
      BY <3>1, <3>2 DEF DeletesOk
  <2>5. ASSUME NEW m \in 1 .. Len(calls) PROVE DeletesOk(prog, calls'[m])
    <3>1. DeletesOk(prog, calls[m])
      BY DEF RenamedInv, ErasedOk
    <3>q. QED
      BY <2>2, <3>1 DEF DeletesOk
  <2>6. \A m \in 1 .. Len(calls') : m \in 1 .. Len(calls) \/ m = Len(calls) + 1
    BY <2>2, <2>3
  <2>7. \A m \in 1 .. Len(calls') : DeletesOk(prog, calls'[m])
    BY <2>2, <2>4, <2>5, <2>6
  <2>q. QED
    BY <1>1, <1>2, <2>7 DEF RenamedInv, ErasedOk
<1>q. QED
  BY <1>1, <1>2, <1>4, <1>5 DEF RenamedInv

LEMMA ReturnRenames ==
  ASSUME WalkInv, WalkInv', RenamedInv, Return
  PROVE  RenamedInv'
<1>1. /\ UNCHANGED <<prog, phis, args, operand, keys, phase>>
      /\ erased' = erased \cup Top.wait_delete
  BY DEF Return
<1>2. Left' = Left \cup {Top.block} /\ Filled' = Filled /\ Passed' = Passed
  BY ReturnMoves DEF WalkInv
<1>3. /\ calls # <<>> /\ Top.step = "kids" /\ Len(calls') = Len(calls) - 1
      /\ \A m \in 1 .. Len(calls) - 1 : calls'[m] = calls[m]
      /\ calls' # <<>> => Len(calls) - 1 \in 1 .. Len(calls) /\ Top' = calls[Len(calls) - 1]
  BY ReturnCalls DEF WalkInv
<1>4. /\ calls' # <<>> =>
           \A v \in Var : DefsAbove(prog, phis, PlaceOf(Top'), v) \subseteq DefsAbove(prog, phis, PlaceOf(Top), v)
      /\ \A v \in Var : /\ Len(stacks'[v]) \in Nat /\ Len(stacks'[v]) <= Len(stacks[v])
                        /\ \A m \in 1 .. Len(stacks'[v]) : stacks'[v][m] = stacks[v][m]
  BY ReturnHeight DEF WalkInv
<1>5. IsProgram(prog) /\ TypeInv
  BY ProgramsAssumption DEF WalkInv, TypeInv
<1>6. /\ Top \in CallsOf(prog) /\ Top = calls[Len(calls)] /\ Len(calls) \in 1 .. Len(calls) /\ Len(calls) \in Nat \ {0}
  BY <1>3, <1>5, TheTop
<1>7. StacksOk'
  <2> SUFFICES ASSUME calls' # <<>>, NEW v \in Var
               PROVE  /\ StackOk(prog, phis, operand, PlaceOf(Top'), v, stacks'[v])
                      /\ DefsAbove(prog, phis, PlaceOf(Top'), v) # {} => v \in keys
    BY <1>1 DEF StacksOk, PlaceOf
  <2> DEFINE i == PlaceOf(Top')
             j == PlaceOf(Top)
  <2>1. StackOk(prog, phis, operand, j, v, stacks[v]) /\ (DefsAbove(prog, phis, j, v) # {} => v \in keys)
    BY <1>3 DEF RenamedInv, StacksOk
  <2>2. DefsAbove(prog, phis, i, v) \subseteq DefsAbove(prog, phis, j, v)
    BY <1>4
  <2>3. Len(stacks'[v]) = Height(prog, phis, i, v)
    BY <1>1 DEF WalkInv, HeightInv, PlaceOf
  <2>4. i \in Places(prog)
    <3>1. GoodCall(prog, calls, Len(calls) - 1) /\ calls[Len(calls) - 1] \in CallsOf(prog)
      BY <1>3, <1>5, ElementOfSeq DEF WalkInv, CallsInv, TypeInv
    <3>2. Top'.block \in Reachable(prog.succ) /\ Top'.pos \in Nat
      BY <1>3, <3>1 DEF GoodCall, CallsOf
    <3>q. QED
      BY <3>2 DEF Places, PlaceOf
  <2> HIDE DEF i, j
  <2>5. ASSUME NEW s \in DefsAbove(prog, phis, i, v)
        PROVE  stacks'[v][Height(prog, phis, s, v) + 1] = ValueOf(operand, s, v)
    <3> DEFINE h == Height(prog, phis, s, v)
    <3>1. h < Height(prog, phis, i, v) /\ h \in Nat
      BY <1>5, <2>4, HeightRises, HeightType
    <3>2. stacks[v][h + 1] = ValueOf(operand, s, v)
      BY <2>1, <2>2 DEF StackOk
    <3> HIDE DEF h
    <3>3. h + 1 \in 1 .. Len(stacks'[v])
      BY <1>4, <2>3, <3>1
    <3>4. stacks'[v][h + 1] = stacks[v][h + 1]
      BY <1>4, <3>3
    <3>q. QED
      BY <3>2, <3>4 DEF h
  <2>q. QED
    BY <2>1, <2>2, <2>5 DEF StackOk, i
<1>8. PlainStacks'
  <2> SUFFICES ASSUME NEW v \in Var, NEW m \in 1 .. Len(stacks'[v]) PROVE IsPlain(stacks'[v][m])
    BY DEF PlainStacks
  <2>1. Len(stacks[v]) \in Nat
    BY <1>5 DEF TypeInv
  <2>2. m \in 1 .. Len(stacks[v])
    BY <1>4, <2>1
  <2>q. QED
    BY <1>4, <2>2 DEF RenamedInv, PlainStacks
<1>9. ErasedOk'
  <2> DEFINE t == Top
  <2>1. /\ DeletesOk(prog, t) /\ GoodCall(prog, calls, Len(calls))
        /\ erased = {i \in Placed(prog) : i[1] \in Left /\ prog.code[i[1]][i[2]].op # "out"}
        /\ \A m \in 1 .. Len(calls) : DeletesOk(prog, calls[m])
    BY <1>6 DEF RenamedInv, ErasedOk, WalkInv, CallsInv
  <2>2. t.pos = Len(prog.code[t.block]) + 1
    BY <1>3, <1>6, <2>1 DEF GoodCall
  <2>3. \A i \in Placed(prog) : i[1] = t.block => i[2] < t.pos
    <3>1. \A i \in Placed(prog) : i[2] \in 1 .. Len(prog.code[i[1]]) /\ i[1] \in Block
      BY <1>5, Code
    <3>2. \A d \in Block : Len(prog.code[d]) \in Nat
      BY <1>5, Code
    <3> HIDE DEF t
    <3>q. QED
      BY <2>2, <3>1, <3>2
  <2> HIDE DEF t
  <2>4. t.wait_delete = {i \in Placed(prog) : i[1] = t.block /\ prog.code[i[1]][i[2]].op # "out"}
    BY <2>1, <2>3 DEF DeletesOk
  <2>5. erased' = {i \in Placed(prog) : i[1] \in Left \cup {t.block} /\ prog.code[i[1]][i[2]].op # "out"}
    BY <1>1, <2>1, <2>4 DEF t
  <2>6. \A m \in 1 .. Len(calls') : m \in 1 .. Len(calls) - 1 /\ m \in 1 .. Len(calls)
    BY <1>3, <1>6
  <2>7. \A m \in 1 .. Len(calls') : DeletesOk(prog, calls'[m])
    BY <1>3, <2>1, <2>6
  <2>q. QED
    BY <1>1, <1>2, <2>5, <2>7 DEF ErasedOk, t
<1>q. QED
  BY <1>1, <1>2, <1>7, <1>8, <1>9 DEF RenamedInv

-----------------------------------------------------------------------------
(* The renaming is right at every step.                                      *)

LEMMA QuietRenames ==
  ASSUME RenamedInv, UNCHANGED <<prog, phis, args, operand, erased, keys, stacks, calls>>,
         Started /\ Started', phase' # "assert_failed"
  PROVE  RenamedInv'
<1>1. Left' = Left /\ Filled' = Filled /\ Passed' = Passed
  BY DEF Left, Filled, Passed
<1>2. calls' # <<>> => Top' = Top
  BY DEF Top
<1>3. StacksOk' /\ PlainStacks'
  BY <1>2 DEF RenamedInv, StacksOk, PlainStacks, PlaceOf
<1>q. QED
  BY <1>1, <1>3 DEF RenamedInv, ErasedOk

LEMMA RenamedStep ==
  ASSUME WalkInv, WalkInv', StoredFirst(prog), RenamedInv, [Next]_vars
  PROVE  RenamedInv'
<1>0. ASSUME ~Started' PROVE RenamedInv'
  <2>1. (WalkInv /\ ~Started => RenamedInv)'
    BY NothingYet, PTL
  <2>q. QED
    BY <1>0, <2>1
<1>1. CASE RunDominators
  BY <1>0, <1>1 DEF RunDominators, Started
<1>2. ASSUME NEW v \in Var, NextVar(v) PROVE RenamedInv'
  BY <1>0, <1>2 DEF NextVar, Started
<1>3. ASSUME NEW b \in Block, InsertPhis(b) PROVE RenamedInv'
  BY <1>0, <1>3 DEF InsertPhis, Started
<1>4. ASSUME NEW c \in Block, Descend(c) PROVE RenamedInv'
  BY <1>4, DescendRenames
<1>5. CASE RemoveAlloca
  BY <1>5, QuietRenames DEF RemoveAlloca, passvars, Started
<1>6. CASE Execute \/ UNCHANGED vars
  <2>1. UNCHANGED <<prog, passvars, phase>>
    BY <1>6 DEF Execute, ExecInstr, ExecBranch, vars
  <2>2. UNCHANGED <<prog, phis, args, operand, erased, keys, stacks, calls, phase>>
    BY <2>1 DEF passvars
  <2>3. Started <=> Started'
    BY <2>2 DEF Started
  <2>q. QED
    BY <1>0, <2>2, <2>3, QuietRenames DEF RenamedInv
<1>q. QED
  BY <1>1, <1>2, <1>3, <1>4, <1>5, <1>6, ReNameRenames, PushPhisRenames, ReNameLoadRenames, ReNameStoreRenames,
     ReNameOtherRenames, FillPhisRenames, ReturnRenames DEF Next, Pass

LEMMA ProgramKept == [Next]_vars => prog' = prog
BY DEF Next, Pass, Execute, vars, RunDominators, NextVar, InsertPhis, ReName, PushPhis, ReNameLoad, ReNameStore,
       ReNameOther, FillPhis, Descend, Return, RemoveAlloca, ExecInstr, ExecBranch

\* The inductive invariant of the renaming, for a function that stores its variables first.
THEOREM RenamedInvariance == Spec => [](StoredFirst(prog) => RenamedInv)
<1> DEFINE Inv == WalkInv /\ (StoredFirst(prog) => RenamedInv)
<1>1. Init => Inv
  <2>1. Init => ~Started
    BY DEF Init, Started
  <2>q. QED
    BY <2>1, WalkInit, NothingYet
<1>2. Inv /\ [Next]_vars => Inv'
  <2> SUFFICES ASSUME Inv, [Next]_vars PROVE Inv'
    OBVIOUS
  <2>1. WalkInv' /\ prog' = prog
    BY WalkStep, ProgramKept
  <2>2. ASSUME StoredFirst(prog)' PROVE RenamedInv'
    <3>1. StoredFirst(prog)
      BY <2>1, <2>2
    <3>q. QED
      BY <2>1, <3>1, RenamedStep
  <2>q. QED
    BY <2>1, <2>2
<1>q. QED
  BY <1>1, <1>2, PTL DEF Spec

\* A value that an operand is at any time is the argument it was, a constant or a phi.
LEMMA Serves ==
  ASSUME WalkInv, StoredFirst(prog), RenamedInv
  PROVE  StacksServe
<1>1. IsProgram(prog) /\ Instrs = Placed(prog)
  BY ProgramsAssumption, SameNames DEF WalkInv, TypeInv
<1>2. phase # "assert_failed"
  BY DEF RenamedInv
<1>3. ASSUME NEW v \in Var, NEW w \in Range(stacks[v]), NEW i \in Instrs PROVE w # <<"load", i[1], i[2]>>
  <2>1. DOMAIN stacks[v] = 1 .. Len(stacks[v])
    BY DEF WalkInv, TypeInv
  <2>2. IsPlain(w)
    BY <2>1 DEF RenamedInv, PlainStacks, Range
  <2>q. QED
    BY <2>2 DEF IsPlain
<1>4. ASSUME NEW i \in Instrs PROVE operand[i[1]][i[2]] # Garbage
  <2> DEFINE a == prog.code[i[1]][i[2]].arg
             l == <<a[2], a[3]>>
             v == prog.code[l[1]][l[2]].var
  <2>1. operand[i[1]][i[2]] = IF a[1] = "load" /\ l \in Passed THEN Newest(prog, phis, operand, l, v) ELSE a
    BY <1>1 DEF RenamedInv, OperandsOk, OperandAt
  <2>2. a # Garbage
    <3>1. i[1] \in Block /\ i[2] \in 1 .. Len(prog.code[i[1]])
      BY <1>1, Code
    <3>2. DOMAIN prog.code[i[1]] = 1 .. Len(prog.code[i[1]])
      BY <1>1, <3>1, Code
    <3>3. prog.code[i[1]][i[2]].op = "load" => a = NoVar
      BY <1>1, <3>1, <3>2 DEF IsProgram
    <3>4. a[1] = "load" \/ a = NoVar \/ a \in {"const"} \X Const
      BY <1>1, <3>3, Arguments
    <3> HIDE DEF a
    <3>q. QED
      BY <3>4 DEF Garbage, NoVar
  <2>3. ASSUME a[1] = "load", l \in Passed PROVE Newest(prog, phis, operand, l, v) # Garbage
    <3>1. l \in Placed(prog) /\ prog.code[l[1]][l[2]].op = "load"
      BY <1>1, <2>3, Arguments
    <3>2. l \in Places(prog) /\ Closed(prog, Passed, l)
      BY <2>3, WalkIsClosed
    <3> HIDE DEF l
    <3>3. v \in Var /\ DefsAbove(prog, phis, l, v) # {}
      BY <1>1, <3>1, StoredAbove
    <3>4. PlainAt(prog, Newest(prog, phis, operand, l, v), l[1])
      <4> HIDE DEF v
      <4>q. QED
        BY <1>1, <3>2, <3>3, NewestPlain DEF RenamedInv
    <3>q. QED
      BY <3>4, PlainValues
  <2>q. QED
    BY <2>1, <2>2, <2>3
<1>q. QED
  BY <1>2, <1>3, <1>4 DEF StacksServe

\* If the entry block stores each variable before it is used, the assertion of step 6
\* holds, and what replaces a load is a value that was pushed, never one of back() on an
\* empty vector, never a load: for every function of any size.
THEOREM Renaming == Spec => [](StoredFirst(prog) => StacksRight)
<1>1. WalkInv /\ (StoredFirst(prog) => RenamedInv) => (StoredFirst(prog) => StacksRight)
  BY StacksMatch, Serves DEF StacksRight
<1>q. QED
  BY <1>1, WalkInvariance, RenamedInvariance, PTL

-----------------------------------------------------------------------------
(* The function runs as it did before the pass: memory holds what the newest  *)
(* values of the variables stand for.                                        *)

LEMMA DoneSets ==
  ASSUME WalkInv, phase = "done"
  PROVE  /\ Filled = Reachable(prog.succ) /\ Left = Reachable(prog.succ)
         /\ Passed = {i \in Placed(prog) : i[1] \in Reachable(prog.succ)}
         /\ \A i \in Places(prog) : Closed(prog, Passed, i)
<1>1. Started /\ calls = <<>>
  BY DEF Started, WalkInv, CallsInv
<1>2. Pending(prog, <<>>) = {} /\ Len(<<>>) = 0
  BY DEF Pending
<1>3. Seen(prog, <<>>) = Reachable(prog.succ)
  BY <1>2 DEF Seen
<1>4. /\ FilledBy(prog, <<>>) = Reachable(prog.succ) /\ LeftBy(prog, <<>>) = Reachable(prog.succ)
      /\ PassedBy(prog, <<>>) = {i \in Placed(prog) : i[1] \in Reachable(prog.succ)}
  BY <1>2, <1>3 DEF FilledBy, LeftBy, PassedBy
<1>5. /\ Filled = Reachable(prog.succ) /\ Left = Reachable(prog.succ)
      /\ Passed = {i \in Placed(prog) : i[1] \in Reachable(prog.succ)}
  BY <1>1, <1>4 DEF Filled, Left, Passed
<1>6. ASSUME NEW i \in Places(prog), NEW s \in Placed(prog), Above(prog, s, i) PROVE s \in Passed
  <2>1. IsProgram(prog) /\ s \in Block \X Nat
    BY ProgramsAssumption, Code DEF WalkInv, TypeInv
  <2>2. s \in Places(prog)
    BY <1>6, <2>1, AboveIsReached
  <2>q. QED
    BY <1>5, <2>2 DEF Places
<1>q. QED
  BY <1>5, <1>6 DEF Closed

\* The newest value behind an instruction, or behind the phis (n = 0).
LEMMA NewestNext ==
  ASSUME NEW p, IsProgram(p), NEW ph, NEW o, NEW b \in Reachable(p.succ), b \in Block, NEW n \in Nat, NEW v
  PROVE  /\ <<b, n>> \in Defs(p, ph, v) => Newest(p, ph, o, <<b, n + 1>>, v) = ValueOf(o, <<b, n>>, v)
         /\ <<b, n>> \notin Defs(p, ph, v) =>
              /\ DefsAbove(p, ph, <<b, n + 1>>, v) = DefsAbove(p, ph, <<b, n>>, v)
              /\ Newest(p, ph, o, <<b, n + 1>>, v) = Newest(p, ph, o, <<b, n>>, v)
<1> DEFINE i == <<b, n>>
           j == <<b, n + 1>>
<1>1. ASSUME i \in Defs(p, ph, v) PROVE Latest(p, ph, j, v) = i
  <2>1. DefsAbove(p, ph, j, v) = DefsAbove(p, ph, i, v) \cup {i}
    BY <1>1, NextPlace
  <2>2. j \in Places(p) /\ i \in DefsAbove(p, ph, j, v)
    BY <2>1 DEF Places
  <2>3. \A t \in DefsAbove(p, ph, j, v) : t = i \/ Above(p, t, i)
    BY <2>1 DEF DefsAbove
  <2> HIDE DEF i, j
  <2>q. QED
    BY <2>2, <2>3, LatestIsUnique
<1>2. i \notin Defs(p, ph, v) => DefsAbove(p, ph, j, v) = DefsAbove(p, ph, i, v)
  BY NextPlace
<1>q. QED
  BY <1>1, <1>2 DEF Newest, Latest

\* A value that a block strictly above s gives is not a phi of s.
LEMMA NotOfHead ==
  ASSUME NEW p, IsProgram(p), NEW s \in Reachable(p.succ), NEW d, d # s, Dominates(p.succ, d, s),
         NEW w, PlainAt(p, w, d), NEW x
  PROVE  w # <<"phi", s, x>>
<1> SUFFICES ASSUME w = <<"phi", s, x>> PROVE FALSE
  OBVIOUS
<1>1. w \notin {"const"} \X Const
  OBVIOUS
<1>2. Dominates(p.succ, s, d)
  <2>1. PICK y \in Block : \E z \in Var : w = <<"phi", y, z>> /\ Dominates(p.succ, y, d)
    BY <1>1 DEF PlainAt
  <2>2. y = s
    BY <2>1
  <2>q. QED
    BY <2>1, <2>2
<1>q. QED
  BY <1>2, Code, DominatesAntisymmetric

LoadOf(l) == <<"load", l[1], l[2]>>

\* Eval, if e are the values computed.
ValueIn(e, w) == IF w[1] = "const" THEN w ELSE IF w \in DOMAIN e THEN e[w] ELSE Uninit

LEMMA EvalIs == \A w : Eval(w) = ValueIn(env, w)
BY DEF Eval, ValueIn

\* A load above i has given the newest value of its variable, and memory holds the
\* newest values at i.
LoadsKept(p, ph, o, i, e) ==
  \A l \in Placed(p) : p.code[l[1]][l[2]].op = "load" /\ Above(p, l, i) =>
    /\ LoadOf(l) \in DOMAIN e
    /\ e[LoadOf(l)] = ValueIn(e, Newest(p, ph, o, l, p.code[l[1]][l[2]].var))

MemoryKept(p, ph, o, i, m, e) ==
  \A v \in Var : DefsAbove(p, ph, i, v) # {} => m[v] = ValueIn(e, Newest(p, ph, o, i, v))

ExecInv ==
  /\ at \in Places(prog) /\ at[2] \in 1 .. Len(prog.code[at[1]]) + 1 /\ DOMAIN mem = Var
  /\ phase # "done" => at = <<Entry, 1>> /\ env = <<>> /\ mem = [v \in Var |-> Uninit]
  /\ phase = "done" => LoadsKept(prog, phis, operand, at, env) /\ MemoryKept(prog, phis, operand, at, mem, env)

LEMMA NotRunYet ==
  IsProgram(prog) /\ at = <<Entry, 1>> /\ env = <<>> /\ mem = [v \in Var |-> Uninit] => ExecInv
<1> SUFFICES ASSUME IsProgram(prog), at = <<Entry, 1>>, env = <<>>, mem = [v \in Var |-> Uninit]
             PROVE  ExecInv
  OBVIOUS
<1>1. Entry \in Block /\ Len(prog.code[Entry]) \in Nat /\ Entry \in Reachable(prog.succ)
  BY BlockAssumption, Code, ReachableStep
<1>2. at \in Places(prog) /\ at[2] \in 1 .. Len(prog.code[at[1]]) + 1
  BY <1>1 DEF Places
<1>3. LoadsKept(prog, phis, operand, at, env)
  <2> SUFFICES ASSUME NEW l \in Placed(prog), Above(prog, l, at) PROVE FALSE
    BY DEF LoadsKept
  <2>1. l[1] \in Block /\ l[2] \in 1 .. Len(prog.code[l[1]]) /\ Len(prog.code[l[1]]) \in Nat /\ IsSucc(prog.succ)
    BY Code
  <2>2. CASE l[1] = Entry
    BY <2>1, <2>2 DEF Above
  <2>3. CASE l[1] # Entry
    BY <2>1, <2>3, EntryDominates DEF Above
  <2>q. QED
    BY <2>2, <2>3
<1>4. ASSUME NEW v \in Var, DefsAbove(prog, phis, at, v) # {}
      PROVE  mem[v] = ValueIn(env, Newest(prog, phis, operand, at, v))
  <2>1. 0 + 1 = 1 /\ 0 \in Nat /\ at = <<Entry, 0 + 1>>
    OBVIOUS
  <2>2. <<Entry, 0>> \in Defs(prog, phis, v)
    <3> SUFFICES ASSUME <<Entry, 0>> \notin Defs(prog, phis, v) PROVE FALSE
      OBVIOUS
    <3>1. DefsAbove(prog, phis, <<Entry, 0 + 1>>, v) = DefsAbove(prog, phis, <<Entry, 0>>, v)
      BY <1>1, <2>1, NewestNext
    <3>q. QED
      BY <1>4, <2>1, <3>1, HeadOfEntry
  <2>3. Newest(prog, phis, operand, <<Entry, 0 + 1>>, v) = ValueOf(operand, <<Entry, 0>>, v)
    BY <1>1, <2>1, <2>2, NewestNext
  <2>4. Newest(prog, phis, operand, at, v) = <<"phi", Entry, v>>
    BY <2>1, <2>3 DEF ValueOf
  <2>5. ValueIn(env, <<"phi", Entry, v>>) = Uninit
    BY DEF ValueIn
  <2>q. QED
    BY <2>4, <2>5
<1>q. QED
  BY <1>2, <1>3, <1>4 DEF ExecInv, MemoryKept

\* An instruction at which the execution is uses the value it used before the pass.
LEMMA ArgIsOperand ==
  ASSUME WalkInv, StoredFirst(prog), RenamedInv, ExecInv, phase = "done",
         at \in Placed(prog), prog.code[at[1]][at[2]].op # "load"
  PROVE  ValueIn(env, prog.code[at[1]][at[2]].arg) = ValueIn(env, operand[at[1]][at[2]])
<1> DEFINE a == prog.code[at[1]][at[2]].arg
           l == <<a[2], a[3]>>
<1>1. IsProgram(prog)
  BY ProgramsAssumption DEF WalkInv, TypeInv
<1>2. operand[at[1]][at[2]] = IF a[1] = "load" /\ l \in Passed
                              THEN Newest(prog, phis, operand, l, prog.code[l[1]][l[2]].var) ELSE a
  BY DEF RenamedInv, OperandsOk, OperandAt
<1>3. CASE a[1] = "load"
  <2>1. /\ a = LoadOf(l) /\ l \in Placed(prog) /\ Above(prog, l, at)
        /\ prog.code[l[1]][l[2]].op = "load"
    BY <1>1, <1>3, Arguments DEF LoadOf
  <2>2. l \in Passed
    BY <2>1, DoneSets DEF Closed, ExecInv
  <2> HIDE DEF a, l
  <2>3. LoadOf(l) \in DOMAIN env /\ env[LoadOf(l)] = ValueIn(env, Newest(prog, phis, operand, l, prog.code[l[1]][l[2]].var))
    BY <2>1 DEF ExecInv, LoadsKept
  <2>4. ValueIn(env, a) = env[LoadOf(l)]
    BY <1>3, <2>1, <2>3 DEF ValueIn
  <2>q. QED
    BY <1>2, <1>3, <2>2, <2>3, <2>4 DEF a
<1>4. CASE a[1] # "load"
  BY <1>2, <1>4
<1>q. QED
  BY <1>3, <1>4

LEMMA ValueKept ==
  ASSUME NEW e, NEW e2, NEW w, w \in DOMAIN e2 <=> w \in DOMAIN e, w \in DOMAIN e => e2[w] = e[w]
  PROVE  ValueIn(e2, w) = ValueIn(e, w)
BY DEF ValueIn

\* What is above the next instruction has been loaded, for all loads but the one executed.
LEMMA ExecInstrStep ==
  ASSUME WalkInv, StoredFirst(prog), RenamedInv, ExecInv, ExecInstr
  PROVE  ExecInv'
<1> DEFINE b == at[1]
           n == at[2]
           i == <<b, n>>
           j == <<b, n + 1>>
           V(l) == prog.code[l[1]][l[2]].var
           N(k, v) == Newest(prog, phis, operand, k, v)
<1>1. /\ phase = "done" /\ n <= Len(prog.code[b]) /\ at' = j
      /\ UNCHANGED <<prog, phis, operand, phase>>
  BY DEF ExecInstr, passvars
<1>2. IsProgram(prog) /\ at \in Places(prog) /\ n \in 1 .. Len(prog.code[b]) + 1
  BY ProgramsAssumption DEF WalkInv, TypeInv, ExecInv
<1>3. /\ at = i /\ b \in Reachable(prog.succ) /\ n \in Nat /\ b \in Block
      /\ n \in 1 .. Len(prog.code[b]) /\ Len(prog.code[b]) \in Nat /\ i \in Placed(prog)
  <2>1. at = i /\ b \in Reachable(prog.succ) /\ n \in Nat
    BY <1>2 DEF Places
  <2>2. b \in Block
    BY <1>2, <2>1, Code, ReachableStep
  <2>3. Len(prog.code[b]) \in Nat
    BY <1>2, <2>2, Code
  <2>4. n \in 1 .. Len(prog.code[b])
    BY <1>1, <1>2, <2>1, <2>3
  <2>q. QED
    BY <1>2, <2>1, <2>2, <2>3, <2>4, Code
<1>4. j \in Places(prog) /\ n + 1 \in 1 .. Len(prog.code[b]) + 1 /\ i \in Places(prog)
  BY <1>3 DEF Places
<1>5. /\ LoadsKept(prog, phis, operand, i, env) /\ MemoryKept(prog, phis, operand, i, mem, env)
      /\ DOMAIN mem = Var
  BY <1>1, <1>3 DEF ExecInv
<1>6. \A l \in Placed(prog) : Above(prog, l, j) => Above(prog, l, i) \/ l = i
  <2> SUFFICES ASSUME NEW l \in Placed(prog), Above(prog, l, j) PROVE Above(prog, l, i) \/ l = i
    OBVIOUS
  <2>1. l = <<l[1], l[2]>> /\ l[2] \in Nat
    BY <1>2, Code
  <2>q. QED
    BY <1>3, <2>1 DEF Above
<1>7. ASSUME NEW k \in Places(prog), NEW v \in Var, DefsAbove(prog, phis, k, v) # {}
      PROVE  PlainAt(prog, N(k, v), k[1])
  BY <1>1, <1>2, <1>7, DoneSets, NewestPlain DEF RenamedInv
<1>8. ASSUME NEW l \in Placed(prog), prog.code[l[1]][l[2]].op = "load"
      PROVE  l \in Places(prog) /\ V(l) \in Var /\ DefsAbove(prog, phis, l, V(l)) # {}
  BY <1>2, <1>8, StoredAbove
<1>9. \A v \in Var : /\ i \in Defs(prog, phis, v) => N(j, v) = ValueOf(operand, i, v)
                     /\ i \notin Defs(prog, phis, v) =>
                          DefsAbove(prog, phis, j, v) = DefsAbove(prog, phis, i, v) /\ N(j, v) = N(i, v)
  BY <1>2, <1>3, NewestNext
<1>10. \A v \in Var : i \in Defs(prog, phis, v) <=> prog.code[b][n].op = "store" /\ prog.code[b][n].var = v
  BY <1>2, <1>3, DefAt
<1>11. At(at) = prog.code[b][n] /\ prog.code[b][n].op \in {"load", "store", "out"}
       /\ (prog.code[b][n].op # "out" => prog.code[b][n].var \in Var)
  BY <1>2, <1>3, Code DEF At
<1> HIDE DEF b, n, V
<1>12. CASE prog.code[b][n].op = "load"
  <2> DEFINE v == prog.code[b][n].var
             K == <<"load", b, n>>
  <2>1. Bind(K, mem[v]) /\ mem' = mem
    BY <1>11, <1>12 DEF ExecInstr, b, n
  <2>2. env' = [w \in DOMAIN env \cup {K} |-> IF w = K THEN mem[v] ELSE env[w]]
    BY <2>1 DEF Bind
  <2>3. ASSUME NEW k \in Places(prog), NEW x \in Var, DefsAbove(prog, phis, k, x) # {}
        PROVE  ValueIn(env', N(k, x)) = ValueIn(env, N(k, x))
    <3> DEFINE w == N(k, x)
    <3>1. w # K
      BY <1>7, <2>3, PlainValues
    <3> HIDE DEF w, K
    <3>2. (w \in DOMAIN env' <=> w \in DOMAIN env) /\ (w \in DOMAIN env => env'[w] = env[w])
      BY <2>2, <3>1
    <3>3. ValueIn(env', w) = ValueIn(env, w)
      BY <3>2, ValueKept
    <3>q. QED
      BY <3>3 DEF w
  <2>4. MemoryKept(prog, phis, operand, j, mem, env')
    <3> SUFFICES ASSUME NEW x \in Var, DefsAbove(prog, phis, j, x) # {} PROVE mem[x] = ValueIn(env', N(j, x))
      BY DEF MemoryKept
    <3>1. DefsAbove(prog, phis, i, x) # {} /\ N(j, x) = N(i, x)
      <4>1. i \notin Defs(prog, phis, x)
        BY <1>10, <1>12
      <4>q. QED
        BY <1>9, <4>1
    <3>2. mem[x] = ValueIn(env, N(i, x))
      BY <1>5, <3>1 DEF MemoryKept
    <3>3. ValueIn(env', N(i, x)) = ValueIn(env, N(i, x))
      BY <1>4, <2>3, <3>1
    <3>q. QED
      BY <3>1, <3>2, <3>3
  <2>5. LoadsKept(prog, phis, operand, j, env')
    <3> SUFFICES ASSUME NEW l \in Placed(prog), prog.code[l[1]][l[2]].op = "load", Above(prog, l, j)
                 PROVE  LoadOf(l) \in DOMAIN env' /\ env'[LoadOf(l)] = ValueIn(env', N(l, V(l)))
      BY DEF LoadsKept, V
    <3>1. l \in Places(prog) /\ V(l) \in Var /\ DefsAbove(prog, phis, l, V(l)) # {} /\ l = <<l[1], l[2]>>
      BY <1>2, <1>8, Code
    <3>2. ValueIn(env', N(l, V(l))) = ValueIn(env, N(l, V(l)))
      <4> DEFINE y == V(l)
      <4> HIDE DEF y
      <4>1. y \in Var /\ DefsAbove(prog, phis, l, y) # {}
        BY <3>1 DEF y
      <4>2. ValueIn(env', N(l, y)) = ValueIn(env, N(l, y))
        BY <2>3, <3>1, <4>1
      <4>q. QED
        BY <4>2 DEF y
    <3>3. CASE l = i
      <4>1. LoadOf(l) = K /\ V(l) = v
        BY <3>3 DEF LoadOf, V
      <4>2. mem[v] = ValueIn(env, N(i, v))
        BY <1>5, <3>1, <3>3, <4>1 DEF MemoryKept
      <4>q. QED
        BY <2>2, <3>2, <3>3, <4>1, <4>2
    <3>4. CASE l # i
      <4>1. LoadOf(l) \in DOMAIN env /\ env[LoadOf(l)] = ValueIn(env, N(l, V(l)))
        BY <1>5, <1>6, <3>4 DEF LoadsKept, V
      <4>2. LoadOf(l) # K
        BY <3>1, <3>4 DEF LoadOf
      <4>q. QED
        BY <2>2, <3>2, <4>1, <4>2
    <3>q. QED
      BY <3>3, <3>4
  <2>q. QED
    BY <1>1, <1>3, <1>4, <1>5, <2>1, <2>4, <2>5 DEF ExecInv
<1>13. CASE prog.code[b][n].op # "load"
  <2>1. env' = env
    BY <1>11, <1>13 DEF ExecInstr
  <2>3. LoadsKept(prog, phis, operand, j, env)
    <3> SUFFICES ASSUME NEW l \in Placed(prog), prog.code[l[1]][l[2]].op = "load", Above(prog, l, j)
                 PROVE  LoadOf(l) \in DOMAIN env /\ env[LoadOf(l)] = ValueIn(env, N(l, V(l)))
      BY DEF LoadsKept, V
    <3>1. l # i
      BY <1>13
    <3>q. QED
      BY <1>5, <1>6, <3>1 DEF LoadsKept, V
  <2>4. MemoryKept(prog, phis, operand, j, mem', env) /\ DOMAIN mem' = Var
    <3>1. CASE prog.code[b][n].op = "store"
      <4> DEFINE v == prog.code[b][n].var
      <4>1. mem' = [mem EXCEPT ![v] = ValueIn(env, prog.code[b][n].arg)]
        BY <1>11, <3>1, EvalIs DEF ExecInstr
      <4>2. ValueIn(env, prog.code[b][n].arg) = ValueIn(env, operand[b][n])
        BY <1>1, <1>3, <1>13, ArgIsOperand DEF b, n
      <4> HIDE DEF v
      <4>3. ASSUME NEW x \in Var, DefsAbove(prog, phis, j, x) # {} PROVE mem'[x] = ValueIn(env, N(j, x))
        <5>1. CASE x = v
          <6>1. i \in Defs(prog, phis, x)
            BY <1>10, <3>1, <5>1 DEF v
          <6>2. N(j, x) = ValueOf(operand, i, x)
            BY <1>9, <6>1
          <6>3. ValueOf(operand, i, x) = operand[b][n]
            BY <1>3 DEF ValueOf
          <6>q. QED
            BY <1>5, <4>1, <4>2, <5>1, <6>2, <6>3
        <5>2. CASE x # v
          <6>1. i \notin Defs(prog, phis, x)
            BY <1>10, <5>2 DEF v
          <6>2. DefsAbove(prog, phis, i, x) # {} /\ N(j, x) = N(i, x)
            BY <1>9, <4>3, <6>1
          <6>3. mem[x] = ValueIn(env, N(i, x))
            BY <1>5, <6>2 DEF MemoryKept
          <6>q. QED
            BY <1>5, <4>1, <5>2, <6>2, <6>3
        <5>q. QED
          BY <5>1, <5>2
      <4>q. QED
        BY <1>5, <4>1, <4>3 DEF MemoryKept
    <3>2. CASE prog.code[b][n].op = "out"
      <4>1. mem' = mem
        BY <1>11, <3>2 DEF ExecInstr
      <4>2. ASSUME NEW x \in Var, DefsAbove(prog, phis, j, x) # {} PROVE mem[x] = ValueIn(env, N(j, x))
        <5>0. i \notin Defs(prog, phis, x)
          BY <1>10, <3>2
        <5>1. DefsAbove(prog, phis, i, x) # {} /\ N(j, x) = N(i, x)
          BY <1>9, <4>2, <5>0
        <5>q. QED
          BY <1>5, <5>1 DEF MemoryKept
      <4>q. QED
        BY <1>5, <4>1, <4>2 DEF MemoryKept
    <3>q. QED
      BY <1>11, <1>13, <3>1, <3>2
  <2>q. QED
    BY <1>1, <1>3, <1>4, <2>1, <2>3, <2>4 DEF ExecInv
<1>q. QED
  BY <1>12, <1>13

\* The phis of a block take the newest values at the end of the block the edge comes from.
LEMMA ExecBranchStep ==
  ASSUME WalkInv, StoredFirst(prog), RenamedInv, ExecInv, NEW s \in Block, ExecBranch(s)
  PROVE  ExecInv'
<1> DEFINE b == at[1]
           e == EndOf(prog, b)
           j == <<s, 1>>
           V(l) == prog.code[l[1]][l[2]].var
           N(k, v) == Newest(prog, phis, operand, k, v)
           phi(v) == <<"phi", s, v>>
           from(v) == {a \in Range(args[s][v]) : a[1] = b}
           new(v) == IF from(v) = {} THEN Uninit ELSE Eval((CHOOSE a \in from(v) : TRUE)[2])
<1>1. /\ phase = "done" /\ at[2] > Len(prog.code[b]) /\ at' = j /\ s \in Succs(prog.succ, b)
      /\ UNCHANGED <<prog, phis, operand, phase, mem>>
      /\ env' = [w \in DOMAIN env \cup {phi(v) : v \in phis[s]} |->
                   IF \E v \in phis[s] : w = phi(v) THEN new(w[3]) ELSE env[w]]
  BY DEF ExecBranch, passvars
<1>2. /\ IsProgram(prog) /\ IsSucc(prog.succ) /\ at \in Places(prog)
      /\ at[2] \in 1 .. Len(prog.code[b]) + 1 /\ DOMAIN mem = Var
  BY ProgramsAssumption, Code DEF WalkInv, TypeInv, ExecInv
<1>3. b \in Reachable(prog.succ) /\ b \in Block /\ Len(prog.code[b]) \in Nat /\ at = e /\ e \in Places(prog)
  <2>1. b \in Reachable(prog.succ) /\ at = <<at[1], at[2]>>
    BY <1>2 DEF Places
  <2>2. b \in Block /\ Len(prog.code[b]) \in Nat
    BY <1>2, <2>1, Code, ReachableStep
  <2>3. at[2] = Len(prog.code[b]) + 1
    BY <1>1, <1>2, <2>2
  <2>q. QED
    BY <1>2, <2>1, <2>2, <2>3 DEF EndOf
<1>4. /\ s \in Reachable(prog.succ) /\ j \in Places(prog) /\ 1 \in 1 .. Len(prog.code[s]) + 1
      /\ b \in Preds(prog.succ, s)
  <2>1. s \in Reachable(prog.succ) /\ Len(prog.code[s]) \in Nat
    BY <1>1, <1>2, <1>3, Code, ReachableStep
  <2>q. QED
    BY <1>1, <1>3, <2>1 DEF Places, Preds
<1>5. LoadsKept(prog, phis, operand, e, env) /\ MemoryKept(prog, phis, operand, e, mem, env)
  BY <1>1, <1>3 DEF ExecInv
<1>6. ASSUME NEW k \in Places(prog), NEW v \in Var, DefsAbove(prog, phis, k, v) # {}
      PROVE  PlainAt(prog, N(k, v), k[1])
  BY <1>1, <1>2, <1>6, DoneSets, NewestPlain DEF RenamedInv
<1>7. ASSUME NEW v \in phis[s]
      PROVE  /\ v \in Var /\ DefsAbove(prog, phis, e, v) # {}
             /\ env'[phi(v)] = ValueIn(env, N(e, v)) /\ phi(v) \in DOMAIN env'
  <2>1. v \in Var /\ StoredIn(prog, v) # {}
    BY DEF WalkInv, TypeInv, PhiInv
  <2>2. DefsAbove(prog, phis, e, v) # {}
    BY <1>2, <1>3, <2>1, StoredAtEnd
  <2>3. Range(args[s][v]) = {<<q, N(EndOf(prog, q), v)>> : q \in Preds(prog.succ, s) \cap Filled}
    BY <2>1 DEF RenamedInv, ArgsOk
  <2>4. b \in Filled
    BY <1>1, <1>3, DoneSets
  <2>5. from(v) = {<<b, N(e, v)>>}
    <3>1. <<b, N(e, v)>> \in Range(args[s][v])
      BY <1>4, <2>3, <2>4
    <3>2. \A a \in Range(args[s][v]) : a[1] = b => a = <<b, N(e, v)>>
      BY <2>3
    <3> HIDE DEF N, e
    <3>q. QED
      BY <3>1, <3>2
  <2>6. new(v) = Eval(N(e, v))
    <3> DEFINE c == CHOOSE a \in from(v) : TRUE
    <3>1. from(v) # {} /\ c \in from(v)
      BY <2>5
    <3>2. new(v) = Eval(c[2])
      BY <3>1
    <3> HIDE DEF N, e, from, c, new
    <3>3. c = <<b, N(e, v)>>
      BY <2>5, <3>1
    <3>4. c[2] = N(e, v)
      BY <3>3
    <3>q. QED
      BY <3>2, <3>4
  <2>7. phi(v)[3] = v /\ phi(v) \in DOMAIN env'
    BY <1>1
  <2> HIDE DEF new, N, e
  <2>8. env'[phi(v)] = new(v)
    BY <1>1, <2>7
  <2>q. QED
    BY <2>1, <2>2, <2>6, <2>7, <2>8, EvalIs
<1>8. ASSUME NEW w, \A x : w # phi(x)
      PROVE  /\ w \in DOMAIN env' <=> w \in DOMAIN env
             /\ w \in DOMAIN env => env'[w] = env[w]
             /\ ValueIn(env', w) = ValueIn(env, w)
  <2>1. (w \in DOMAIN env' <=> w \in DOMAIN env) /\ (w \in DOMAIN env => env'[w] = env[w])
    <3> HIDE DEF new, phi
    <3>q. QED
      BY <1>1, <1>8
  <2>q. QED
    BY <2>1, ValueKept
<1>9. LoadsKept(prog, phis, operand, j, env')
  <2> SUFFICES ASSUME NEW l \in Placed(prog), prog.code[l[1]][l[2]].op = "load", Above(prog, l, j)
               PROVE  LoadOf(l) \in DOMAIN env' /\ env'[LoadOf(l)] = ValueIn(env', N(l, V(l)))
    BY DEF LoadsKept
  <2>1. l \in Places(prog) /\ V(l) \in Var /\ DefsAbove(prog, phis, l, V(l)) # {}
    BY <1>2, StoredAbove
  <2>2. l \in Block \X Nat /\ l[2] \in 1 .. Len(prog.code[l[1]]) /\ Len(prog.code[l[1]]) \in Nat
    BY <1>2, Code
  <2>3. l[1] # s
    BY <2>2 DEF Above
  <2>4. Dominates(prog.succ, l[1], s)
    BY <2>3 DEF Above
  <2>5. Dominates(prog.succ, l[1], b)
    BY <1>1, <1>2, <1>3, <2>3, <2>4, DominatesPred
  <2>6. Above(prog, l, e)
    BY <1>2, <1>3, <2>2, <2>5, AboveEnd
  <2>7. LoadOf(l) \in DOMAIN env /\ env[LoadOf(l)] = ValueIn(env, N(l, V(l)))
    BY <1>5, <2>6 DEF LoadsKept
  <2>8. \A x : LoadOf(l) # phi(x)
    BY DEF LoadOf
  <2> DEFINE y == V(l)
             w == N(l, y)
  <2>9. \A x : w # phi(x)
    <3> HIDE DEF y
    <3>1. PlainAt(prog, N(l, y), l[1])
      BY <1>6, <2>1 DEF y
    <3>q. QED
      BY <1>2, <1>4, <2>3, <2>4, <3>1, NotOfHead
  <2> HIDE DEF w
  <2>10. ValueIn(env', w) = ValueIn(env, w)
    BY <1>8, <2>9
  <2>11. LoadOf(l) \in DOMAIN env' /\ env'[LoadOf(l)] = env[LoadOf(l)]
    BY <1>8, <2>7, <2>8
  <2>q. QED
    BY <2>7, <2>10, <2>11 DEF w
<1>10. ASSUME NEW v \in Var, DefsAbove(prog, phis, j, v) # {} PROVE mem[v] = ValueIn(env', N(j, v))
  <2>1. CASE v \in phis[s]
    <3>1. <<s, 0>> \in Defs(prog, phis, v) /\ 0 \in Nat /\ 0 + 1 = 1
      BY <1>2, <2>1, DefsOfBlock
    <3>2. Newest(prog, phis, operand, <<s, 0 + 1>>, v) = ValueOf(operand, <<s, 0>>, v)
      BY <1>2, <1>4, <3>1, NewestNext
    <3>3. N(j, v) = phi(v)
      BY <3>1, <3>2 DEF ValueOf
    <3>4. mem[v] = ValueIn(env, N(e, v))
      BY <1>5, <1>7, <2>1 DEF MemoryKept
    <3>5. ValueIn(env', phi(v)) = env'[phi(v)]
      BY <1>7, <2>1 DEF ValueIn
    <3>q. QED
      BY <1>7, <2>1, <3>3, <3>4, <3>5
  <2>2. CASE v \notin phis[s]
    <3>1. ClosedPhis(prog, phis, v)
      <4>1. phase # "run" /\ todo = {} /\ work.list = {}
        BY <1>1 DEF WalkInv, PhiInv, Started
      <4>2. Closing(prog, phis, work, v)
        BY <4>1 DEF WalkInv, PhiInv
      <4>q. QED
        BY <4>1, <4>2 DEF Closing, ClosedPhis
    <3>2. DefsAbove(prog, phis, j, v) = DefsAbove(prog, phis, e, v)
      BY <1>1, <1>2, <1>3, <2>2, <3>1, HeadWithoutPhi
    <3>3. N(j, v) = N(e, v)
      BY <3>2 DEF Newest, Latest
    <3>4. mem[v] = ValueIn(env, N(e, v))
      BY <1>5, <1>10, <3>2 DEF MemoryKept
    <3> DEFINE d == Latest(prog, phis, j, v)
    <3>5. d \in DefsAbove(prog, phis, j, v) /\ N(j, v) = ValueOf(operand, d, v)
      BY <1>2, <1>4, <1>10, LatestExists DEF Newest
    <3> HIDE DEF d
    <3>6. d \in Defs(prog, phis, v) /\ Above(prog, d, j) /\ d \in Block \X Nat /\ d \in Places(prog)
      <4>1. d \in Defs(prog, phis, v) /\ Above(prog, d, j)
        BY <3>5 DEF DefsAbove
      <4>2. d \in Places(prog)
        BY <1>2, <1>4, <3>5, HeightRises
      <4>q. QED
        BY <1>2, <4>1, <4>2, ReachableStep DEF Places
    <3>7. d[1] # s
      <4> SUFFICES ASSUME d[1] = s PROVE FALSE
        OBVIOUS
      <4>1. d = <<s, 0>>
        BY <3>6 DEF Above
      <4>q. QED
        BY <1>2, <2>2, <3>6, <4>1, DefsOfBlock
    <3>8. Dominates(prog.succ, d[1], s)
      BY <3>6, <3>7 DEF Above
    <3> DEFINE w == ValueOf(operand, d, v)
    <3>9. PlainAt(prog, w, d[1])
      <4>1. CASE d[2] = 0
        BY <1>2, <3>6, <4>1, DominatesItself DEF ValueOf, PlainAt
      <4>2. CASE d[2] # 0
        <5>1. d \in Passed /\ prog.code[d[1]][d[2]].op = "store"
          BY <1>1, <1>2, <1>4, <3>5, <4>2, DefIsPassed, DoneSets
        <5>q. QED
          BY <4>2, <5>1 DEF ValueOf, RenamedInv, FormsOk
      <4>q. QED
        BY <4>1, <4>2
    <3>10. \A x : w # phi(x)
      BY <1>2, <1>4, <3>7, <3>8, <3>9, NotOfHead
    <3> HIDE DEF w
    <3>11. ValueIn(env', w) = ValueIn(env, w)
      BY <1>8, <3>10
    <3>q. QED
      BY <3>3, <3>4, <3>5, <3>11 DEF w
  <2>q. QED
    BY <2>1, <2>2
<1>q. QED
  BY <1>1, <1>2, <1>4, <1>9, <1>10 DEF ExecInv, MemoryKept

LEMMA ExecInit == Init => ExecInv
<1> SUFFICES ASSUME Init PROVE ExecInv
  OBVIOUS
<1>1. IsProgram(prog)
  BY ProgramsAssumption DEF Init
<1>q. QED
  BY <1>1, NotRunYet DEF Init

LEMMA ExecStep ==
  ASSUME WalkInv, WalkInv', StoredFirst(prog), RenamedInv, ExecInv, [Next]_vars
  PROVE  ExecInv'
<1>1. CASE Execute
  BY <1>1, ExecInstrStep, ExecBranchStep DEF Execute
<1>2. CASE UNCHANGED vars
  BY <1>2 DEF vars, passvars, execvars, ExecInv
<1>3. CASE Pass
  <2>1. prog' = prog /\ UNCHANGED execvars /\ phase # "done"
    BY <1>3 DEF Pass, RunDominators, NextVar, InsertPhis, ReName, PushPhis, ReNameLoad, ReNameStore,
                ReNameOther, FillPhis, Descend, Return, RemoveAlloca, InReName
  <2>2. at' = <<Entry, 1>> /\ env' = <<>> /\ mem' = [v \in Var |-> Uninit]
    BY <2>1 DEF ExecInv, execvars
  <2>3. IsProgram(prog')
    BY ProgramsAssumption DEF WalkInv, TypeInv
  <2>4. (IsProgram(prog) /\ at = <<Entry, 1>> /\ env = <<>> /\ mem = [v \in Var |-> Uninit] => ExecInv)'
    BY NotRunYet, PTL
  <2>q. QED
    BY <2>2, <2>3, <2>4
<1>q. QED
  BY <1>1, <1>2, <1>3 DEF Next

-----------------------------------------------------------------------------
(* What the pass leaves.                                                     *)

\* A sequence whose entries differ has as many entries as it has values.
LEMMA CountDistinct ==
  ASSUME NEW n \in Nat, NEW f, \A i, j \in 1 .. n : f[i] = f[j] => i = j
  PROVE  Cardinality({f[i] : i \in 1 .. n}) = n
<1> DEFINE S == {f[i] : i \in 1 .. n}
           g == [i \in 1 .. n |-> f[i]]
<1>1. g \in Bijection(1 .. n, S)
  BY DEF Bijection, Injection, Surjection, IsInjective
<1>2. ExistsBijection(1 .. n, S)
  BY <1>1 DEF ExistsBijection
<1> HIDE DEF S
<1>3. Cardinality(S) = n
  BY <1>2, FS_CountingElements
<1>q. QED
  BY <1>3 DEF S

LEMMA Completed ==
  ASSUME WalkInv, RenamedInv
  PROVE  PhiComplete
<1> SUFFICES ASSUME phase = "done", NEW b \in Reachable(prog.succ), NEW v \in phis[b]
             PROVE  LET from == {args[b][v][m][1] : m \in DOMAIN args[b][v]} IN
                    /\ from = Preds(prog.succ, b) \cap Reachable(prog.succ)
                    /\ Len(args[b][v]) = Cardinality(from)
  BY DEF PhiComplete, Finished
<1> DEFINE x == args[b][v]
           f == [m \in 1 .. Len(x) |-> x[m][1]]
           from == {x[m][1] : m \in DOMAIN x}
           N(q) == Newest(prog, phis, operand, EndOf(prog, q), v)
           P == Preds(prog.succ, b) \cap Reachable(prog.succ)
<1>1. b \in Block /\ v \in Var /\ x \in Seq(Block \X ValuesOf(prog))
  <2>1. IsSucc(prog.succ) /\ TypeInv
    BY ProgramsAssumption, Code DEF WalkInv, TypeInv
  <2>2. b \in Block
    BY <2>1, ReachableStep
  <2>q. QED
    BY <2>1, <2>2 DEF TypeInv
<1>2. DOMAIN x = 1 .. Len(x) /\ Len(x) \in Nat
  BY <1>1
<1>3. /\ Range(x) = {<<q, N(q)>> : q \in P}
      /\ \A m, n \in 1 .. Len(x) : x[m][1] = x[n][1] => m = n
  BY <1>1, DoneSets DEF RenamedInv, ArgsOk
<1> HIDE DEF x, N, P
<1>4. from = P
  <2>1. from = {y[1] : y \in Range(x)}
    BY DEF Range
  <2>2. \A y \in Range(x) : y[1] \in P
    BY <1>3
  <2>3. ASSUME NEW q \in P PROVE q \in from
    <3>1. <<q, N(q)>> \in Range(x) /\ <<q, N(q)>>[1] = q
      BY <1>3
    <3> HIDE DEF from
    <3>q. QED
      BY <2>1, <3>1
  <2> HIDE DEF from
  <2>q. QED
    BY <2>1, <2>2, <2>3
<1>5. from = {f[i] : i \in 1 .. Len(x)}
  BY <1>2
<1>6. \A i, j \in 1 .. Len(x) : f[i] = f[j] => i = j
  BY <1>3
<1> HIDE DEF f, from
<1>7. Len(x) = Cardinality(from)
  <2> DEFINE n == Len(x)
  <2> HIDE DEF n
  <2>1. n \in Nat /\ \A i, j \in 1 .. n : f[i] = f[j] => i = j
    BY <1>2, <1>6 DEF n
  <2>2. Cardinality({f[i] : i \in 1 .. n}) = n
    BY ONLY <2>1, CountDistinct
  <2>q. QED
    BY <1>5, <2>2 DEF n
<1>q. QED
  BY <1>4, <1>7 DEF from, x, P

LEMMA NoneIsLeft ==
  ASSUME WalkInv, StoredFirst(prog), RenamedInv
  PROVE  NoneLeft
<1> SUFFICES ASSUME phase = "done", NEW i \in Instrs, At(i).op # "out" PROVE i \in erased
  BY DEF NoneLeft, Finished
<1>1. i \in Placed(prog) /\ prog.code[i[1]][i[2]].op # "out"
  BY SameNames DEF At
<1>2. i[1] \in Left
  BY <1>1, DoneSets DEF StoredFirst
<1>q. QED
  BY <1>1, <1>2 DEF RenamedInv, ErasedOk

LEMMA OutputIsSame ==
  ASSUME WalkInv, StoredFirst(prog), RenamedInv, ExecInv
  PROVE  SameOutput
<1> SUFFICES ASSUME phase = "done", at \in Instrs, At(at).op = "out"
             PROVE  Eval(operand[at[1]][at[2]]) = Eval(At(at).arg)
  BY DEF SameOutput, Finished
<1>1. at \in Placed(prog) /\ prog.code[at[1]][at[2]].op # "load"
  BY SameNames DEF At
<1>q. QED
  BY <1>1, ArgIsOperand, EvalIs DEF At

\* If the entry block stores each variable before it is used, the pass promotes the
\* variables, for every function of any size: no load or store is left, the phis have
\* one operand for each reachable predecessor, and on whatever path the function is run
\* every use gets the value it got before the pass.
THEOREM Promotion == Spec => [](StoredFirst(prog) => Promoted)
<1> DEFINE Inv == WalkInv /\ (StoredFirst(prog) => RenamedInv)
           All == Inv /\ (StoredFirst(prog) => ExecInv)
<1>1. Init => (StoredFirst(prog) => ExecInv)
  BY ExecInit
<1>2. Inv /\ Inv' /\ (StoredFirst(prog) => ExecInv) /\ [Next]_vars => (StoredFirst(prog) => ExecInv)'
  <2> SUFFICES ASSUME Inv, Inv', StoredFirst(prog) => ExecInv, [Next]_vars, StoredFirst(prog)' PROVE ExecInv'
    OBVIOUS
  <2>1. prog' = prog
    BY ProgramKept
  <2>2. StoredFirst(prog)
    BY <2>1
  <2>q. QED
    BY <2>2, ExecStep
<1>3. All => (StoredFirst(prog) => Promoted)
  BY Completed, NoneIsLeft, OutputIsSame DEF Promoted
<1>4. Spec => []Inv
  BY WalkInvariance, RenamedInvariance, PTL
<1> HIDE DEF Inv
<1>5. Spec => [](StoredFirst(prog) => ExecInv)
  BY <1>1, <1>2, <1>4, PTL DEF Spec
<1>q. QED
  BY <1>3, <1>4, <1>5, PTL

-----------------------------------------------------------------------------
=============================================================================
