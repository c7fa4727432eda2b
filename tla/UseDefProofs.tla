---------------------------- MODULE UseDefProofs ----------------------------
(* The invariants of UseDef, for any values and any number of operands, and  *)
(* that it implements DefUse.                                                *)
EXTENDS UseDef, TLAPS

Operands == [User -> [ArgNo -> Val \cup {Null}]]
UseLists == [Val -> Bag]

\* The number of an operand is a natural number.
LEMMA ArgNoNat == ArgNo \subseteq Nat
BY MaxOpsAssumption DEF ArgNo

\* Setting one operand leaves all the others.
LEMMA SetEntry ==
  ASSUME NEW ops \in Operands, NEW u \in User, NEW i \in ArgNo, NEW v \in Val,
         NEW new, new = [ops EXCEPT ![u][i] = v]
  PROVE  /\ new \in Operands
         /\ \A w \in User, j \in ArgNo :
              new[w][j] = IF w = u /\ j = i THEN v ELSE ops[w][j]
BY DEF Operands

\* Taking one use off a bag of uses.
LEMMA TakeUse ==
  ASSUME NEW bag \in Bag, NEW u \in User, NEW i \in ArgNo, bag[u][i] > 0,
         NEW new, new = [bag EXCEPT ![u][i] = @ - 1]
  PROVE  /\ new \in Bag
         /\ \A w \in User, j \in ArgNo :
              new[w][j] = IF w = u /\ j = i THEN bag[w][j] - 1 ELSE bag[w][j]
<1>1. bag[u] \in [ArgNo -> Nat] /\ bag[u][i] \in Nat /\ bag[u][i] - 1 \in Nat
  BY DEF Bag
<1>2. QED
  BY <1>1 DEF Bag

\* Counting a use up changes one entry of one list.
LEMMA AddUseEntry ==
  ASSUME NEW us \in UseLists, NEW v \in Val, NEW u \in User, NEW i \in ArgNo,
         NEW new, new = AddUse(us, v, u, i)
  PROVE  /\ new \in UseLists
         /\ \A x \in Val, w \in User, j \in ArgNo :
              new[x][w][j] = IF x = v /\ w = u /\ j = i THEN us[x][w][j] + 1 ELSE us[x][w][j]
<1>1. new = [us EXCEPT ![v][u][i] = @ + 1]
  BY DEF AddUse
<1>2. QED
  BY <1>1 DEF UseLists, Bag

\* So does erasing one.
LEMMA EraseUseEntry ==
  ASSUME NEW us \in UseLists, NEW v \in Val, NEW u \in User, NEW i \in ArgNo,
         us[v][u][i] > 0,
         NEW new, new = [us EXCEPT ![v][u][i] = @ - 1]
  PROVE  /\ new \in UseLists
         /\ \A x \in Val, w \in User, j \in ArgNo :
              new[x][w][j] = IF x = v /\ w = u /\ j = i THEN us[x][w][j] - 1 ELSE us[x][w][j]
<1>1. us[v][u][i] - 1 \in Nat
  BY DEF UseLists, Bag
<1>2. QED
  BY <1>1 DEF UseLists, Bag

-----------------------------------------------------------------------------
(* One lemma for each action: it preserves the inductive invariant.         *)

LEMMA CreateStep ==
  ASSUME IInv, NEW u \in User, NEW n \in 0 .. MaxOps, Create(u, n)
  PROVE  IInv'
<1> USE DEF IInv, Create, jobvars
<1>1. TypeOK'
  BY DEF TypeOK, States, Pcs
<1>2. \A v \in Val, w \in User, i \in ArgNo : Has(w, i, v)' <=> Has(w, i, v)
  BY UserAssumption DEF TypeOK, Has, FreshInv
<1>3. ListInv'
  BY <1>2 DEF ListInv, Expected
<1>4. WalkInv' /\ PendingInv' /\ RemoveInv'
  BY DEF WalkInv, PendingInv, RemoveInv, Walks
<1>5. FreshInv'
  BY DEF TypeOK, FreshInv
<1>6. NoErasedOperand'
  BY <1>2, UserAssumption DEF NoErasedOperand, TypeOK
<1>7. QED
  BY <1>1, <1>3, <1>4, <1>5, <1>6

\* An operand that was not set is set.
NowHas(u, i, v) ==
  /\ \A x \in Val : ~Has(u, i, x)
  /\ \A w \in User, j \in ArgNo, x \in Val :
       Has(w, j, x)' <=> Has(w, j, x) \/ (w = u /\ j = i /\ x = v)

\* Setting an operand that was not set, and listing the use.
LEMMA SetFresh ==
  ASSUME IInv, pc = "idle", NEW u \in User, NEW i \in ArgNo, NEW v \in Val,
         \A x \in Val : ~Has(u, i, x),
         state[u] = "live", Usable(v),
         num_ops' \in [User -> 0 .. MaxOps],
         \A w \in User, j \in ArgNo :
           j < num_ops'[w] <=> j < num_ops[w] \/ (w = u /\ j = i),
         operands' = [operands EXCEPT ![u][i] = v],
         uses' = AddUse(uses, v, u, i),
         UNCHANGED <<state, pc, jobvars>>
  PROVE  IInv' /\ NowHas(u, i, v)
<1>1. operands \in Operands /\ uses \in UseLists
  BY DEF IInv, TypeOK, Operands, UseLists
<1>2. /\ operands' \in Operands
      /\ \A w \in User, j \in ArgNo :
           operands'[w][j] = IF w = u /\ j = i THEN v ELSE operands[w][j]
  BY <1>1, SetEntry DEF Operands
<1>3. /\ uses' \in UseLists
      /\ \A x \in Val, w \in User, j \in ArgNo :
           uses'[x][w][j] = IF x = v /\ w = u /\ j = i
                                  THEN uses[x][w][j] + 1 ELSE uses[x][w][j]
  BY <1>1, AddUseEntry DEF UseLists, Bag
<1>4. TypeOK'
  BY <1>2, <1>3 DEF IInv, TypeOK, Operands, UseLists, jobvars
<1>5. ASSUME NEW w \in User, NEW j \in ArgNo, NEW x \in Val
      PROVE  Has(w, j, x)' <=> IF w = u /\ j = i THEN x = v ELSE Has(w, j, x)
  BY <1>2 DEF Has
<1>6. ListInv'
  <2> SUFFICES ASSUME NEW x \in Val, NEW w \in User, NEW j \in ArgNo
               PROVE  uses'[x][w][j] = IF Has(w, j, x)' THEN 1 ELSE 0
    BY DEF ListInv, Expected
  <2>1. uses[x][w][j] = IF Has(w, j, x) THEN 1 ELSE 0
    BY DEF IInv, ListInv, Expected
  <2>2. QED
    BY <1>3, <1>5, <2>1
<1>7. WalkInv' /\ PendingInv' /\ RemoveInv'
  BY DEF WalkInv, PendingInv, RemoveInv, Walks
<1>8. FreshInv'
  BY <1>2 DEF IInv, FreshInv
<1>9. NoErasedOperand'
  BY <1>5, UserAssumption DEF IInv, NoErasedOperand, Usable
<1>10. NowHas(u, i, v)
  BY <1>5 DEF NowHas
<1>11. QED
  BY <1>4, <1>6, <1>7, <1>8, <1>9, <1>10 DEF IInv

LEMMA SetOperandStep ==
  ASSUME IInv, NEW u \in User, NEW i \in ArgNo, NEW v \in Val, SetOperand(u, i, v)
  PROVE  IInv' /\ NowHas(u, i, v)
<1>1. \A x \in Val : ~Has(u, i, x)
  BY UserAssumption DEF SetOperand, Has
<1>2. /\ num_ops' \in [User -> 0 .. MaxOps]
      /\ \A w \in User, j \in ArgNo : j < num_ops'[w] <=> j < num_ops[w] \/ (w = u /\ j = i)
  BY DEF SetOperand, IInv, TypeOK
<1>3. QED
  BY <1>1, <1>2, SetFresh DEF SetOperand

LEMMA AddOperandStep ==
  ASSUME IInv, NEW u \in User, NEW v \in Val, AddOperand(u, v)
  PROVE  IInv' /\ num_ops[u] \in ArgNo /\ NowHas(u, num_ops[u], v)
<1> DEFINE i == num_ops[u]
<1>1. i \in ArgNo /\ num_ops \in [User -> 0 .. MaxOps]
  BY MaxOpsAssumption DEF AddOperand, IInv, TypeOK, ArgNo
<1>2. \A x \in Val : ~Has(u, i, x)
  BY <1>1, ArgNoNat DEF Has
<1>3. /\ num_ops' \in [User -> 0 .. MaxOps]
      /\ \A w \in User : num_ops'[w] = IF w = u THEN num_ops[w] + 1 ELSE num_ops[w]
  BY <1>1, MaxOpsAssumption DEF AddOperand
<1>4. \A w \in User, j \in ArgNo : j < num_ops'[w] <=> j < num_ops[w] \/ (w = u /\ j = i)
  BY <1>1, <1>3, ArgNoNat
<1>5. /\ pc = "idle" /\ state[u] = "live" /\ Usable(v)
      /\ operands' = [operands EXCEPT ![u][i] = v]
      /\ uses' = AddUse(uses, v, u, i)
      /\ UNCHANGED <<state, pc, jobvars>>
  BY DEF AddOperand
<1> HIDE DEF i
<1>6. IInv' /\ NowHas(u, i, v)
  BY <1>1, <1>2, <1>3, <1>4, <1>5, SetFresh
<1>7. QED
  BY <1>1, <1>6 DEF i

\* A walk begins with all the uses of its value.
LEMMA WalkBegins ==
  ASSUME IInv, pc = "idle", NEW v \in Val, NEW w \in Val, Usable(v), Usable(w), v # w,
         pc' \in Walks, val' = v, new_val' = w, pending' = uses[v], pred' \in SUBSET User,
         UNCHANGED <<irvars, user, arg>>
  PROVE  IInv'
<1>1. TypeOK'
  BY DEF IInv, TypeOK, Pcs, Walks, irvars
<1>2. ASSUME NEW u \in User, NEW i \in ArgNo, NEW x \in Val
      PROVE  /\ Has(u, i, x)' <=> Has(u, i, x)
             /\ uses[x][u][i] = IF Has(u, i, x) THEN 1 ELSE 0
  BY DEF Has, IInv, ListInv, Expected, irvars
<1>3. ListInv'
  BY <1>2 DEF ListInv, Expected, Walks, irvars
<1>4. WalkInv' /\ RemoveInv'
  BY DEF WalkInv, RemoveInv, Usable, Walks, irvars
<1>5. PendingInv'
  <2> SUFFICES ASSUME NEW u \in User, NEW i \in ArgNo
               PROVE  pending'[u][i] = IF Has(u, i, v) THEN 1 ELSE 0
    BY <1>2 DEF PendingInv, Has, irvars
  <2>1. pending' = uses[v]
    OBVIOUS
  <2>2. QED
    BY <1>2, <2>1
<1>6. FreshInv' /\ NoErasedOperand'
  BY <1>2, UserAssumption DEF IInv, FreshInv, NoErasedOperand, irvars
<1>7. QED
  BY <1>1, <1>3, <1>4, <1>5, <1>6 DEF IInv

LEMMA ReplaceAllStep ==
  ASSUME IInv, NEW v \in Val, NEW w \in Val, ReplaceAllUseWith(v, w)
  PROVE  IInv'
<1>1. pc' \in Walks /\ pred' \in SUBSET User
  BY DEF ReplaceAllUseWith, IInv, TypeOK, Walks
<1>2. QED
  BY <1>1, WalkBegins DEF ReplaceAllUseWith

LEMMA ReplaceWhenStep ==
  ASSUME IInv, NEW v \in Val, NEW w \in Val, NEW S \in SUBSET User,
         ReplaceUseWithWhen(v, w, S)
  PROVE  IInv'
<1>1. pc' \in Walks /\ pred' \in SUBSET User
  BY DEF ReplaceUseWithWhen, Walks
<1>2. QED
  BY <1>1, WalkBegins DEF ReplaceUseWithWhen

\* An iteration of either walk gives one slot of val to new_val.
LEMMA Moved ==
  ASSUME IInv, pc \in Walks,
         NEW u \in User, NEW i \in ArgNo, pending[u][i] > 0,
         operands' = [operands EXCEPT ![u][i] = new_val],
         pending' = [pending EXCEPT ![u][i] = @ - 1],
         UNCHANGED <<state, num_ops, pc, val, new_val, pred, user, arg>>
  PROVE  /\ val \in Val /\ new_val \in Val /\ val # new_val /\ Has(u, i, val)
         /\ operands' \in Operands
         /\ \A w \in User, j \in ArgNo :
              /\ operands'[w][j] = IF w = u /\ j = i THEN new_val ELSE operands[w][j]
              /\ pending'[w][j] = IF w = u /\ j = i THEN 0 ELSE pending[w][j]
         /\ \A w \in User, j \in ArgNo, v \in Val :
              Has(w, j, v)' <=> IF w = u /\ j = i THEN v = new_val ELSE Has(w, j, v)
         /\ pending' \in Bag
         /\ WalkInv' /\ PendingInv' /\ RemoveInv' /\ FreshInv' /\ NoErasedOperand'
<1>1. val \in Val /\ new_val \in Val /\ val # new_val /\ Usable(new_val)
  BY DEF IInv, WalkInv
<1>2. operands \in Operands /\ pending \in Bag /\ num_ops \in [User -> 0 .. MaxOps]
  BY DEF IInv, TypeOK, Operands
<1>3. pending[u][i] = 1 /\ Has(u, i, val)
  <2>1. pending[u][i] \in {0, 1} /\ (pending[u][i] = 1 => Has(u, i, val))
    BY DEF IInv, PendingInv
  <2>2. QED
    BY <2>1
<1>4. /\ operands' \in Operands
      /\ \A w \in User, j \in ArgNo :
           operands'[w][j] = IF w = u /\ j = i THEN new_val ELSE operands[w][j]
  BY <1>1, <1>2, SetEntry DEF Operands
<1>5. ASSUME NEW w \in User, NEW j \in ArgNo, NEW v \in Val
      PROVE  Has(w, j, v)' <=> IF w = u /\ j = i THEN v = new_val ELSE Has(w, j, v)
  BY <1>3, <1>4 DEF Has
<1>6. /\ pending' \in Bag
      /\ \A w \in User, j \in ArgNo :
           pending'[w][j] = IF w = u /\ j = i THEN 0 ELSE pending[w][j]
  <2>1. /\ pending' \in Bag
        /\ \A w \in User, j \in ArgNo :
             pending'[w][j] = IF w = u /\ j = i THEN pending[w][j] - 1
                                  ELSE pending[w][j]
    BY <1>2, TakeUse DEF Bag
  <2>2. QED
    BY <1>3, <2>1
<1>7. WalkInv' /\ RemoveInv'
  BY <1>1 DEF WalkInv, RemoveInv, Usable, Walks
<1>8. PendingInv'
  <2> SUFFICES ASSUME NEW w \in User, NEW j \in ArgNo
               PROVE  /\ pending'[w][j] \in {0, 1}
                      /\ pending'[w][j] = 1 => Has(w, j, val)'
                      /\ Has(w, j, val)' /\ Selected(w) => pending'[w][j] = 1
    BY DEF PendingInv, Has, Selected
  <2>1. /\ pending[w][j] \in {0, 1}
        /\ pending[w][j] = 1 => Has(w, j, val)
        /\ Has(w, j, val) /\ Selected(w) => pending[w][j] = 1
    BY DEF IInv, PendingInv
  <2>2. CASE w = u /\ j = i
    <3>1. ~Has(w, j, val)'
      BY <1>1, <1>5, <2>2 DEF Has
    <3>2. pending'[w][j] = 0
      BY <1>6, <2>2
    <3>3. QED
      BY <3>1, <3>2
  <2>3. CASE ~(w = u /\ j = i)
    <3>1. Has(w, j, val)' <=> Has(w, j, val)
      BY <1>1, <1>5, <2>3 DEF Has
    <3>2. pending'[w][j] = pending[w][j]
      BY <1>6, <2>3
    <3>3. QED
      BY <2>1, <3>1, <3>2
  <2>4. QED
    BY <2>2, <2>3
<1>9. FreshInv'
  BY <1>3, <1>4 DEF IInv, FreshInv, Has
<1>10. NoErasedOperand'
  BY <1>1, <1>5, UserAssumption DEF IInv, NoErasedOperand, Usable
<1>11. QED
  BY <1>1, <1>3, <1>4, <1>5, <1>6, <1>7, <1>8, <1>9, <1>10

LEMMA VisitUseStep ==
  ASSUME IInv, NEW u \in User, NEW i \in ArgNo, VisitUse(u, i)
  PROVE  IInv'
<1>0. val \in Val /\ new_val \in Val /\ val # new_val
  BY Moved DEF VisitUse, Walks
<1>1. /\ Has(u, i, val)
      /\ operands' \in Operands
      /\ \A w \in User, j \in ArgNo, v \in Val :
           Has(w, j, v)' <=> IF w = u /\ j = i THEN v = new_val ELSE Has(w, j, v)
      /\ pending' \in Bag
      /\ WalkInv' /\ PendingInv' /\ RemoveInv' /\ FreshInv' /\ NoErasedOperand'
  BY Moved DEF VisitUse, Walks
<1> DEFINE added == AddUse(uses, new_val, u, i)
<1>2. uses \in UseLists /\ new_val \in Val
  BY <1>0 DEF IInv, TypeOK, UseLists
<1>3. /\ added \in UseLists
      /\ \A v \in Val, w \in User, j \in ArgNo :
           added[v][w][j] = IF v = new_val /\ w = u /\ j = i
                                  THEN uses[v][w][j] + 1 ELSE uses[v][w][j]
  BY <1>2, AddUseEntry DEF UseLists, Bag
<1>4. uses' = added
  BY DEF VisitUse
<1> HIDE DEF added
<1>5. TypeOK'
  BY <1>1, <1>3, <1>4 DEF VisitUse, IInv, TypeOK, Operands, UseLists
<1>6. ListInv'
  <2> SUFFICES ASSUME NEW v \in Val, NEW w \in User, NEW j \in ArgNo, v # val
               PROVE  uses'[v][w][j] = IF Has(w, j, v)' THEN 1 ELSE 0
    BY DEF VisitUse, ListInv, Expected
  <2>1. uses[v][w][j] = IF Has(w, j, v) THEN 1 ELSE 0
    BY DEF VisitUse, IInv, ListInv, Expected
  <2>2. ~Has(u, i, v)
    BY <1>1 DEF Has
  <2>3. QED
    BY <1>0, <1>1, <1>3, <1>4, <2>1, <2>2
<1>7. QED
  BY <1>1, <1>5, <1>6 DEF IInv

LEMMA MoveUseStep ==
  ASSUME IInv, NEW u \in User, NEW i \in ArgNo, MoveUse(u, i)
  PROVE  IInv'
<1>0. val \in Val /\ new_val \in Val /\ val # new_val
  BY Moved DEF MoveUse, Walks
<1>1. /\ Has(u, i, val)
      /\ operands' \in Operands
      /\ \A w \in User, j \in ArgNo, v \in Val :
           Has(w, j, v)' <=> IF w = u /\ j = i THEN v = new_val ELSE Has(w, j, v)
      /\ pending' \in Bag
      /\ WalkInv' /\ PendingInv' /\ RemoveInv' /\ FreshInv' /\ NoErasedOperand'
  BY Moved DEF MoveUse, Walks
<1> DEFINE added == AddUse(uses, new_val, u, i)
<1>2. uses \in UseLists /\ new_val \in Val /\ uses' = [added EXCEPT ![val][u][i] = @ - 1]
  BY <1>0 DEF MoveUse, IInv, TypeOK, UseLists
<1>3. ASSUME NEW v \in Val, NEW w \in User, NEW j \in ArgNo
      PROVE  uses[v][w][j] = IF Has(w, j, v) THEN 1 ELSE 0
  BY DEF MoveUse, IInv, ListInv, Expected
<1>4. /\ added \in UseLists
      /\ \A v \in Val, w \in User, j \in ArgNo :
           added[v][w][j] = IF v = new_val /\ w = u /\ j = i
                                  THEN uses[v][w][j] + 1 ELSE uses[v][w][j]
  BY <1>2, AddUseEntry DEF UseLists, Bag
<1> HIDE DEF added
<1>5. added[val][u][i] > 0
  BY <1>0, <1>1, <1>3, <1>4
<1>6. /\ uses' \in UseLists
      /\ \A v \in Val, w \in User, j \in ArgNo :
           uses'[v][w][j] = IF v = val /\ w = u /\ j = i
                                  THEN added[v][w][j] - 1 ELSE added[v][w][j]
  BY <1>0, <1>2, <1>4, <1>5, EraseUseEntry DEF UseLists, Bag
<1>7. TypeOK'
  BY <1>1, <1>6 DEF MoveUse, IInv, TypeOK, Operands, UseLists
<1>8. ListInv'
  <2> SUFFICES ASSUME NEW v \in Val, NEW w \in User, NEW j \in ArgNo
               PROVE  uses'[v][w][j] = IF Has(w, j, v)' THEN 1 ELSE 0
    <3>1. \A v \in Val, w \in User, j \in ArgNo : Expected(v, w, j)' <=> Has(w, j, v)'
      BY DEF MoveUse, Expected
    <3>2. QED
      BY <3>1 DEF ListInv
  <2>1. Has(u, i, v) <=> v = val
    BY <1>1 DEF Has
  <2>2. QED
    BY <1>0, <1>1, <1>3, <1>4, <1>6, <2>1
<1>9. QED
  BY <1>1, <1>7, <1>8 DEF IInv

LEMMA SkipUseStep ==
  ASSUME IInv, NEW u \in User, NEW i \in ArgNo, SkipUse(u, i)
  PROVE  IInv'
<1>0. pc = "replace when"
  BY DEF SkipUse
<1>1. pending \in Bag /\ pending[u][i] > 0
  BY DEF SkipUse, IInv, TypeOK
<1>2. /\ pending' \in Bag
      /\ \A w \in User, j \in ArgNo :
           pending'[w][j] = IF w = u /\ j = i THEN pending[w][j] - 1
                                ELSE pending[w][j]
  <2>1. pending' = [pending EXCEPT ![u][i] = @ - 1]
    BY DEF SkipUse
  <2>2. QED
    BY <1>1, <2>1, TakeUse DEF Bag
<1>3. TypeOK'
  BY <1>2 DEF SkipUse, irvars, IInv, TypeOK
<1>4. \A v \in Val, w \in User, j \in ArgNo : Has(w, j, v)' <=> Has(w, j, v)
  BY DEF SkipUse, irvars, Has
<1>5. ListInv'
  BY <1>0, <1>4 DEF SkipUse, irvars, IInv, ListInv, Expected
<1>6. PendingInv'
  <2> SUFFICES ASSUME NEW w \in User, NEW j \in ArgNo
               PROVE  /\ pending'[w][j] \in {0, 1}
                      /\ pending'[w][j] = 1 => Has(w, j, val)
                      /\ Has(w, j, val) /\ Selected(w) => pending'[w][j] = 1
    BY DEF PendingInv, SkipUse, irvars, Has, Selected
  <2>1. /\ pending[w][j] \in {0, 1}
        /\ pending[w][j] = 1 => Has(w, j, val)
        /\ Has(w, j, val) /\ Selected(w) => pending[w][j] = 1
    BY <1>0 DEF IInv, PendingInv, Walks
  <2>2. ~Selected(u)
    BY DEF SkipUse, Selected
  <2>3. CASE w = u /\ j = i
    BY <1>1, <1>2, <2>1, <2>2, <2>3
  <2>4. CASE ~(w = u /\ j = i)
    BY <1>2, <2>1, <2>4
  <2>5. QED
    BY <2>3, <2>4
<1>7. WalkInv' /\ RemoveInv'
  BY <1>0 DEF SkipUse, irvars, IInv, WalkInv, RemoveInv, Usable
<1>8. FreshInv' /\ NoErasedOperand'
  BY <1>4, UserAssumption DEF SkipUse, irvars, IInv, FreshInv, NoErasedOperand
<1>9. QED
  BY <1>3, <1>5, <1>6, <1>7, <1>8 DEF IInv

\* Nothing is left to visit: only a use by a selected user could still be missing.
LEMMA WalkOver ==
  ASSUME IInv, pc \in Walks, pending = NoUses, NEW u \in User, NEW i \in ArgNo, Selected(u)
  PROVE  ~Has(u, i, val)
<1>1. pending[u][i] = 0
  BY DEF NoUses
<1>2. Has(u, i, val) => pending[u][i] = 1
  BY DEF IInv, PendingInv
<1>3. QED
  BY <1>1, <1>2

\* The locals of an operation that returns have their types.
LEMMA Returned ==
  ASSUME Return
  PROVE  /\ pc' = "idle" /\ pc' \in Pcs
         /\ val' \in Val \cup {Null} /\ new_val' \in Val \cup {Null}
         /\ pred' \in SUBSET User /\ pending' \in Bag
         /\ user' \in User \cup {Null} /\ arg' \in 0 .. MaxOps
BY MaxOpsAssumption DEF Return, Pcs, Bag, NoUses

LEMMA EndReplaceAllStep ==
  ASSUME IInv, EndReplaceAll
  PROVE  IInv'
<1>1. val \in Val /\ pc \in Walks /\ pending = NoUses
  BY DEF EndReplaceAll, IInv, WalkInv, Walks
<1>2. uses' = [uses EXCEPT ![val] = NoUses] /\ uses \in UseLists /\ NoUses \in Bag
  BY DEF EndReplaceAll, IInv, TypeOK, UseLists, NoUses, Bag
<1>3. uses' \in UseLists /\ uses'[val] = NoUses /\ \A v \in Val : v # val => uses'[v] = uses[v]
  BY <1>1, <1>2 DEF UseLists
<1>4. TypeOK'
  BY <1>3, Returned DEF EndReplaceAll, IInv, TypeOK, UseLists
<1>5. ASSUME NEW v \in Val, NEW u \in User, NEW i \in ArgNo
      PROVE  (Has(u, i, v)' <=> Has(u, i, v)) /\ (Expected(v, u, i)' <=> Has(u, i, v))
  BY Returned DEF EndReplaceAll, Has, Expected
<1>6. ListInv'
  <2> SUFFICES ASSUME NEW v \in Val, NEW u \in User, NEW i \in ArgNo
               PROVE  uses'[v][u][i] = IF Has(u, i, v) THEN 1 ELSE 0
    BY <1>5 DEF ListInv
  <2>1. CASE v = val
    <3>1. ~Has(u, i, v)
      BY <1>1, <2>1, WalkOver DEF EndReplaceAll, Selected
    <3>2. uses'[v][u][i] = 0
      BY <1>3, <2>1 DEF NoUses
    <3>3. QED
      BY <3>1, <3>2
  <2>2. CASE v # val
    <3>1. uses[v][u][i] = IF Has(u, i, v) THEN 1 ELSE 0
      BY <2>2 DEF EndReplaceAll, IInv, ListInv, Expected
    <3>2. QED
      BY <1>3, <2>2, <3>1
  <2>3. QED
    BY <2>1, <2>2
<1>7. WalkInv' /\ PendingInv' /\ RemoveInv'
  BY Returned DEF EndReplaceAll, WalkInv, PendingInv, RemoveInv, Walks
<1>8. FreshInv' /\ NoErasedOperand'
  BY <1>5, UserAssumption DEF EndReplaceAll, IInv, FreshInv, NoErasedOperand
<1>9. QED
  BY <1>4, <1>6, <1>7, <1>8 DEF IInv

LEMMA EndReplaceWhenStep ==
  ASSUME IInv, EndReplaceWhen
  PROVE  IInv'
<1> USE DEF EndReplaceWhen, irvars
<1>1. TypeOK'
  BY Returned DEF IInv, TypeOK
<1>2. \A v \in Val, u \in User, i \in ArgNo : Has(u, i, v)' <=> Has(u, i, v)
  BY DEF Has
<1>3. ListInv'
  BY <1>2, Returned DEF IInv, ListInv, Expected
<1>4. WalkInv' /\ PendingInv' /\ RemoveInv'
  BY Returned DEF WalkInv, PendingInv, RemoveInv, Walks
<1>5. FreshInv' /\ NoErasedOperand'
  BY <1>2, UserAssumption DEF IInv, FreshInv, NoErasedOperand
<1>6. QED
  BY <1>1, <1>3, <1>4, <1>5 DEF IInv

LEMMA RemoveUseOfOpsStep ==
  ASSUME IInv, NEW u \in User, RemoveUseOfOps(u)
  PROVE  IInv'
<1>0. /\ pc = "idle" /\ pc' = "remove uses" /\ user' = u /\ state[u] = "live"
      /\ UNCHANGED <<state, num_ops, operands, uses, val, new_val, pred, pending>>
  BY DEF RemoveUseOfOps, irvars
<1>1. TypeOK'
  <2>1. arg' \in 0 .. MaxOps
    <3>1. arg' = 0
      BY DEF RemoveUseOfOps
    <3>2. QED
      BY <3>1, MaxOpsAssumption
  <2>2. QED
    BY <1>0, <2>1 DEF IInv, TypeOK, Pcs
<1>2. \A v \in Val, w \in User, i \in ArgNo : Has(w, i, v)' <=> Has(w, i, v)
  BY <1>0 DEF Has
<1>3. ListInv'
  <2>1. \A j \in ArgNo : ~(j < arg')
    <3>1. arg' = 0
      BY DEF RemoveUseOfOps
    <3>2. QED
      BY <3>1, ArgNoNat
  <2>2. \A v \in Val, w \in User, i \in ArgNo :
          /\ Expected(v, w, i)' <=> Has(w, i, v)
          /\ Expected(v, w, i) <=> Has(w, i, v)
    BY <1>0, <1>2, <2>1 DEF Expected
  <2>3. QED
    BY <1>0, <2>2 DEF IInv, ListInv
<1>4. WalkInv' /\ PendingInv'
  BY <1>0 DEF WalkInv, PendingInv, Walks
<1>5. RemoveInv'
  <2>1. arg' <= num_ops[u]
    <3>1. arg' = 0 /\ num_ops[u] \in 0 .. MaxOps
      BY DEF RemoveUseOfOps, IInv, TypeOK
    <3>2. QED
      BY <3>1, MaxOpsAssumption
  <2>2. \A i \in ArgNo : i < num_ops[u] => operands[u][i] # Null
    BY DEF RemoveUseOfOps
  <2>3. QED
    BY <1>0, <2>1, <2>2 DEF RemoveInv
<1>6. FreshInv' /\ NoErasedOperand'
  BY <1>0, <1>2, UserAssumption DEF IInv, FreshInv, NoErasedOperand
<1>7. QED
  BY <1>1, <1>3, <1>4, <1>5, <1>6 DEF IInv

LEMMA RemoveUseStep ==
  ASSUME IInv, RemoveUse
  PROVE  IInv'
<1>1. /\ user \in User /\ arg \in ArgNo /\ arg < num_ops[user] /\ num_ops[user] \in Nat
      /\ arg + 1 \in 0 .. MaxOps
  <2>1. user \in User /\ arg < num_ops[user]
    BY DEF RemoveUse, IInv, RemoveInv
  <2>2. arg \in 0 .. MaxOps /\ num_ops[user] \in 0 .. MaxOps
    BY <2>1 DEF IInv, TypeOK
  <2>3. QED
    BY <2>1, <2>2, MaxOpsAssumption DEF ArgNo
<1> DEFINE op == operands[user][arg]
<1>2. op \in Val
  <2>1. op # Null
    BY <1>1 DEF RemoveUse, IInv, RemoveInv
  <2>2. op \in Val \cup {Null}
    BY <1>1 DEF IInv, TypeOK
  <2>3. QED
    BY <2>1, <2>2
<1>3. uses \in UseLists /\ uses' = [uses EXCEPT ![op][user] = [i \in ArgNo |-> 0]]
  BY DEF RemoveUse, IInv, TypeOK, UseLists
<1>4. /\ \A i \in ArgNo : i < num_ops[user] => operands[user][i] # Null
      /\ state[user] = "live"
  BY DEF RemoveUse, IInv, RemoveInv
<1> HIDE DEF op
<1>5. /\ uses' \in UseLists
      /\ \A v \in Val, u \in User, i \in ArgNo :
           uses'[v][u][i] = IF v = op /\ u = user THEN 0 ELSE uses[v][u][i]
  BY <1>1, <1>2, <1>3 DEF UseLists, Bag
<1>6. TypeOK'
  BY <1>1, <1>5 DEF RemoveUse, IInv, TypeOK, UseLists
<1>7. ASSUME NEW v \in Val, NEW u \in User, NEW i \in ArgNo
      PROVE  /\ Has(u, i, v)' <=> Has(u, i, v)
             /\ Expected(v, u, i)' <=> Expected(v, u, i) /\ ~(u = user /\ v = op)
  <2>1. Has(u, i, v)' <=> Has(u, i, v)
    BY DEF RemoveUse, Has
  <2>2. \A j \in ArgNo : j < arg + 1 <=> j < arg \/ j = arg
    BY <1>1, ArgNoNat
  <2>3. arg' = arg + 1 /\ operands' = operands
    BY DEF RemoveUse
  <2>4. (\E j \in ArgNo : j < arg' /\ operands'[u][j] = v)
          <=> (\E j \in ArgNo : j < arg /\ operands[u][j] = v) \/ operands[u][arg] = v
    BY <1>1, <2>2, <2>3
  <2>5. QED
    BY <2>1, <2>4 DEF RemoveUse, Expected, op
<1>8. ListInv'
  <2> SUFFICES ASSUME NEW v \in Val, NEW u \in User, NEW i \in ArgNo
               PROVE  uses'[v][u][i] = IF Expected(v, u, i)' THEN 1 ELSE 0
    BY DEF ListInv
  <2>1. uses[v][u][i] = IF Expected(v, u, i) THEN 1 ELSE 0
    BY DEF RemoveUse, IInv, ListInv
  <2>2. QED
    BY <1>5, <1>7, <2>1
<1>9. WalkInv' /\ PendingInv'
  BY DEF RemoveUse, WalkInv, PendingInv, Walks
<1>10. RemoveInv'
  <2>1. arg + 1 <= num_ops[user]
    BY <1>1, ArgNoNat
  <2>2. QED
    BY <1>1, <1>4, <2>1 DEF RemoveUse, RemoveInv
<1>11. FreshInv' /\ NoErasedOperand'
  BY <1>7, UserAssumption DEF RemoveUse, IInv, FreshInv, NoErasedOperand
<1>12. QED
  BY <1>6, <1>8, <1>9, <1>10, <1>11 DEF IInv

LEMMA EndRemoveStep ==
  ASSUME IInv, EndRemove
  PROVE  IInv'
<1> USE DEF EndRemove
<1>1. TypeOK'
  BY Returned DEF IInv, TypeOK, States
<1>2. user \in User /\ state[user] = "live" /\ state \in [User -> States]
  BY DEF IInv, RemoveInv, TypeOK
<1>3. ASSUME NEW v \in Val, NEW u \in User, NEW i \in ArgNo
      PROVE  Has(u, i, v)' <=> u # user /\ Has(u, i, v)
  BY <1>2 DEF Has
<1>4. ListInv'
  <2> SUFFICES ASSUME NEW v \in Val, NEW u \in User, NEW i \in ArgNo
               PROVE  uses[v][u][i] = IF Has(u, i, v)' THEN 1 ELSE 0
    BY Returned DEF ListInv, Expected
  <2>1. uses[v][u][i] = IF Expected(v, u, i) THEN 1 ELSE 0
    BY DEF IInv, ListInv
  <2>2. u = user => ~Expected(v, u, i)
    BY DEF Expected, Has
  <2>3. u # user => (Expected(v, u, i) <=> Has(u, i, v))
    BY DEF Expected
  <2>4. QED
    BY <1>3, <2>1, <2>2, <2>3
<1>5. WalkInv' /\ PendingInv' /\ RemoveInv'
  BY Returned DEF WalkInv, PendingInv, RemoveInv, Walks
<1>6. FreshInv'
  BY <1>2 DEF IInv, FreshInv
<1>7. NoErasedOperand'
  BY <1>2, <1>3, UserAssumption DEF IInv, NoErasedOperand
<1>8. QED
  BY <1>1, <1>4, <1>5, <1>6, <1>7 DEF IInv

LEMMA EraseStep ==
  ASSUME IInv, NEW u \in User, Erase(u)
  PROVE  IInv'
<1> USE DEF Erase, jobvars
<1>1. TypeOK'
  BY DEF IInv, TypeOK, States
<1>2. state \in [User -> States] /\ state[u] = "detached"
  BY DEF IInv, TypeOK
<1>3. \A v \in Val, w \in User, i \in ArgNo : Has(w, i, v)' <=> Has(w, i, v)
  BY <1>2 DEF Has
<1>4. ListInv'
  BY <1>3 DEF IInv, ListInv, Expected
<1>5. WalkInv' /\ PendingInv' /\ RemoveInv'
  BY DEF WalkInv, PendingInv, RemoveInv, Walks
<1>6. FreshInv'
  BY <1>2 DEF IInv, FreshInv
<1>7. NoErasedOperand'
  <2> SUFFICES ASSUME NEW w \in User, NEW x \in User, NEW i \in ArgNo, state'[x] = "erased"
               PROVE  ~Has(w, i, x)
    BY <1>3, UserAssumption DEF NoErasedOperand
  <2>1. CASE x = u
    <3>1. uses[u][w][i] = 0
      BY DEF NoUses
    <3>2. uses[u][w][i] = IF Has(w, i, u) THEN 1 ELSE 0
      BY UserAssumption DEF IInv, ListInv, Expected
    <3>3. QED
      BY <2>1, <3>1, <3>2
  <2>2. CASE x # u
    BY <1>2, <2>2 DEF IInv, NoErasedOperand
  <2>3. QED
    BY <2>1, <2>2
<1>8. QED
  BY <1>1, <1>4, <1>5, <1>6, <1>7 DEF IInv

-----------------------------------------------------------------------------
(* The theorems.                                                            *)

LEMMA InitInv == Init => IInv
<1> SUFFICES ASSUME Init PROVE IInv
  OBVIOUS
<1>1. TypeOK
  BY MaxOpsAssumption DEF Init, TypeOK, States, Pcs, Bag, NoUses
<1>2. \A u \in User, i \in ArgNo, v \in Val : ~Has(u, i, v)
  BY DEF Init, Has
<1>3. ListInv
  BY <1>2 DEF Init, NoUses, ListInv, Expected
<1>4. WalkInv /\ PendingInv /\ RemoveInv /\ FreshInv
  BY DEF Init, WalkInv, PendingInv, RemoveInv, FreshInv, Walks
<1>5. NoErasedOperand
  BY <1>2, UserAssumption DEF NoErasedOperand
<1>6. QED
  BY <1>1, <1>3, <1>4, <1>5 DEF IInv

LEMMA Stutter == IInv /\ UNCHANGED vars => IInv'
<1> SUFFICES ASSUME IInv, UNCHANGED vars PROVE IInv'
  OBVIOUS
<1> USE DEF vars
<1>1. TypeOK'
  BY DEF IInv, TypeOK
<1>2. ListInv'
  <2>1. \A v \in Val, u \in User, i \in ArgNo : Expected(v, u, i)' <=> Expected(v, u, i)
    BY DEF Expected, Has
  <2>2. QED
    BY <2>1 DEF IInv, ListInv
<1>3. PendingInv'
  <2>1. \A u \in User, i \in ArgNo :
          (Has(u, i, val)' <=> Has(u, i, val)) /\ (Selected(u)' <=> Selected(u))
    BY DEF Has, Selected
  <2>2. QED
    BY <2>1 DEF IInv, PendingInv
<1>4. WalkInv' /\ RemoveInv' /\ FreshInv' /\ NoErasedOperand'
  BY DEF IInv, WalkInv, RemoveInv, FreshInv, NoErasedOperand, Usable, Has
<1>5. QED
  BY <1>1, <1>2, <1>3, <1>4 DEF IInv

\* The use lists follow the operands through every operation, between any two
\* iterations of its loop.
THEOREM Invariance == Spec => []IInv
<1>1. IInv /\ [Next]_vars => IInv'
  <2> SUFFICES ASSUME IInv, [Next]_vars PROVE IInv'
    OBVIOUS
  <2>1. ASSUME NEW u \in User, NEW n \in 0 .. MaxOps, Create(u, n) PROVE IInv'
    BY <2>1, CreateStep
  <2>2. ASSUME NEW u \in User, NEW i \in ArgNo, NEW v \in Val, SetOperand(u, i, v) PROVE IInv'
    BY <2>2, SetOperandStep
  <2>3. ASSUME NEW u \in User, NEW v \in Val, AddOperand(u, v) PROVE IInv'
    BY <2>3, AddOperandStep
  <2>4. ASSUME NEW v \in Val, NEW w \in Val, ReplaceAllUseWith(v, w) PROVE IInv'
    BY <2>4, ReplaceAllStep
  <2>5. ASSUME NEW u \in User, NEW i \in ArgNo,
               VisitUse(u, i) \/ SkipUse(u, i) \/ MoveUse(u, i)
        PROVE  IInv'
    BY <2>5, VisitUseStep, SkipUseStep, MoveUseStep
  <2>6. ASSUME NEW v \in Val, NEW w \in Val, NEW S \in SUBSET User,
               ReplaceUseWithWhen(v, w, S)
        PROVE  IInv'
    BY <2>6, ReplaceWhenStep
  <2>7. ASSUME NEW u \in User, RemoveUseOfOps(u) \/ Erase(u) PROVE IInv'
    BY <2>7, RemoveUseOfOpsStep, EraseStep
  <2>8. CASE EndReplaceAll \/ EndReplaceWhen \/ RemoveUse \/ EndRemove
    BY <2>8, EndReplaceAllStep, EndReplaceWhenStep, RemoveUseStep, EndRemoveStep
  <2>9. CASE UNCHANGED vars
    BY <2>9, Stutter
  <2>10. QED
    BY <2>1, <2>2, <2>3, <2>4, <2>5, <2>6, <2>7, <2>8, <2>9 DEF Next
<1>2. QED
  BY InitInv, <1>1, PTL DEF Spec

\* The state stays what the C++ types allow: no count of a use goes below zero and no
\* operand number beyond the operands.
THEOREM Typing == Spec => []TypeOK
<1>1. IInv => TypeOK
  BY DEF IInv
<1>2. QED
  BY Invariance, <1>1, PTL

\* After any sequence of set_operand, add_operand, replacements and removals every use
\* list has each use of its value once and nothing else.
THEOREM ListsExact == Spec => []UsesExact
<1>1. IInv => UsesExact
  BY DEF IInv, ListInv, Expected, UsesExact
<1>2. QED
  BY Invariance, <1>1, PTL

\* Erasing an instruction whose use list is empty leaves no operand pointing to it.
THEOREM NothingDangles == Spec => []NoErasedOperand
<1>1. IInv => NoErasedOperand
  BY DEF IInv
<1>2. QED
  BY Invariance, <1>1, PTL

-----------------------------------------------------------------------------
(* UseDef implements DefUse.                                                *)

Triple == User \X ArgNo \X Val
Edge(u, i, v) == Holds(u) /\ i < num_ops[u] /\ Current(u, i) = v

\* A set of edges is known by its members.
LEMMA Extensional ==
  ASSUME NEW P \in SUBSET Triple, NEW Q \in SUBSET Triple,
         \A u \in User, i \in ArgNo, v \in Val : <<u, i, v>> \in P <=> <<u, i, v>> \in Q
  PROVE  P = Q
BY DEF Triple

LEMMA EdgeMember ==
  /\ Edges \in SUBSET Triple
  /\ \A u \in User, i \in ArgNo, v \in Val : <<u, i, v>> \in Edges <=> Edge(u, i, v)
BY DEF Edges, Edge, Triple

LEMMA EdgeMemberNext ==
  /\ Edges' \in SUBSET Triple
  /\ \A u \in User, i \in ArgNo, v \in Val : <<u, i, v>> \in Edges' <=> Edge(u, i, v)'
BY DEF Edges, Edge, Triple

\* The edges do not change in a step that changes none.
LEMMA SameEdges ==
  ASSUME \A u \in User, i \in ArgNo, v \in Val : Edge(u, i, v)' <=> Edge(u, i, v)
  PROVE  [D!Next]_Edges
<1>1. Edges' = Edges
  BY EdgeMember, EdgeMemberNext, Extensional
<1>2. QED
  BY <1>1

\* One edge more, at an operand that had none, is a use.
LEMMA UseEdge ==
  ASSUME NEW u \in User, NEW i \in ArgNo, NEW v \in Val,
         \A x \in Val : ~Edge(u, i, x),
         \A w \in User, j \in ArgNo, x \in Val :
           Edge(w, j, x)' <=> Edge(w, j, x) \/ (w = u /\ j = i /\ x = v)
  PROVE  D!Next
<1>1. Edges \cup {<<u, i, v>>} \in SUBSET Triple
  BY EdgeMember DEF Triple
<1>2. \A w \in User, j \in ArgNo, x \in Val :
        <<w, j, x>> \in Edges' <=> <<w, j, x>> \in Edges \cup {<<u, i, v>>}
  BY EdgeMember, EdgeMemberNext
<1>3. Edges' = Edges \cup {<<u, i, v>>}
  BY <1>1, <1>2, EdgeMemberNext, Extensional
<1>4. \A e \in Edges : <<e[1], e[2]>> # <<u, i>>
  <2> SUFFICES ASSUME NEW e \in Edges PROVE <<e[1], e[2]>> # <<u, i>>
    OBVIOUS
  <2>1. PICK w \in User, j \in ArgNo, x \in Val : e = <<w, j, x>>
    BY EdgeMember DEF Triple
  <2>2. Edge(w, j, x)
    BY <2>1, EdgeMember
  <2>3. e[1] = w /\ e[2] = j
    BY <2>1
  <2>4. QED
    BY <2>2, <2>3
<1>5. QED
  BY <1>3, <1>4 DEF D!Next, D!Use

\* The edges to v of the users in S become edges to w.
LEMMA ReplaceEdges ==
  ASSUME NEW v \in Val, NEW w \in Val, NEW S \in SUBSET User,
         \A u \in User, i \in ArgNo, x \in Val :
           Edge(u, i, x)' <=>
             \E y \in Val : Edge(u, i, y) /\ x = IF y = v /\ u \in S THEN w ELSE y
  PROVE  D!Next
<1> DEFINE Moving == {D!Replaced(e, v, w, S) : e \in Edges}
<1>1. ASSUME NEW u \in User, NEW i \in ArgNo, NEW y \in Val
      PROVE  D!Replaced(<<u, i, y>>, v, w, S) = <<u, i, IF y = v /\ u \in S THEN w ELSE y>>
  BY DEF D!Replaced
<1>2. Moving \in SUBSET Triple
  <2> SUFFICES ASSUME NEW e \in Edges PROVE D!Replaced(e, v, w, S) \in Triple
    OBVIOUS
  <2>1. PICK u \in User, i \in ArgNo, y \in Val : e = <<u, i, y>>
    BY EdgeMember DEF Triple
  <2>2. QED
    BY <1>1, <2>1 DEF Triple
<1>3. ASSUME NEW u \in User, NEW i \in ArgNo, NEW x \in Val
      PROVE  <<u, i, x>> \in Edges' <=> <<u, i, x>> \in Moving
  <2>1. ASSUME <<u, i, x>> \in Edges' PROVE <<u, i, x>> \in Moving
    <3>1. PICK y \in Val : Edge(u, i, y) /\ x = IF y = v /\ u \in S THEN w ELSE y
      BY <2>1, EdgeMemberNext
    <3>2. <<u, i, y>> \in Edges /\ <<u, i, x>> = D!Replaced(<<u, i, y>>, v, w, S)
      BY <1>1, <3>1, EdgeMember
    <3>3. QED
      BY <3>2
  <2>2. ASSUME <<u, i, x>> \in Moving PROVE <<u, i, x>> \in Edges'
    <3>1. PICK e \in Edges : <<u, i, x>> = D!Replaced(e, v, w, S)
      BY <2>2
    <3>2. PICK a \in User, b \in ArgNo, y \in Val : e = <<a, b, y>>
      BY EdgeMember DEF Triple
    <3>3. <<u, i, x>> = <<a, b, IF y = v /\ a \in S THEN w ELSE y>>
      BY <1>1, <3>1, <3>2
    <3>4. a = u /\ b = i /\ x = IF y = v /\ u \in S THEN w ELSE y
      BY <3>3
    <3>5. Edge(u, i, y)
      BY <3>2, <3>4, EdgeMember
    <3>6. QED
      BY <3>4, <3>5, EdgeMemberNext
  <2>3. QED
    BY <2>1, <2>2
<1> HIDE DEF Moving
<1>4. Edges' = Moving
  BY <1>2, <1>3, EdgeMemberNext, Extensional
<1>5. QED
  BY <1>4 DEF D!Next, D!Replace, Moving

\* All edges of one user go.
LEMMA DropEdges ==
  ASSUME NEW u \in User,
         \A w \in User, i \in ArgNo, v \in Val : Edge(w, i, v)' <=> Edge(w, i, v) /\ w # u
  PROVE  D!Next
<1> DEFINE Rest == {e \in Edges : e[1] # u}
<1>1. Rest \in SUBSET Triple
  BY EdgeMember
<1>2. \A w \in User, i \in ArgNo, v \in Val : <<w, i, v>> \in Edges' <=> <<w, i, v>> \in Rest
  BY EdgeMember, EdgeMemberNext
<1> HIDE DEF Rest
<1>3. Edges' = Rest
  BY <1>1, <1>2, EdgeMemberNext, Extensional
<1>4. QED
  BY <1>3 DEF D!Next, D!Drop, Rest

\* A step that leaves every current operand as it is changes no edge.
LEMMA SameCurrent ==
  ASSUME num_ops' = num_ops,
         \A u \in User : Holds(u)' <=> Holds(u),
         \A u \in User, i \in ArgNo : Holds(u) => Current(u, i)' = Current(u, i)
  PROVE  [D!Next]_Edges
<1>1. \A u \in User, i \in ArgNo, v \in Val : Edge(u, i, v)' <=> Edge(u, i, v)
  BY DEF Edge
<1>2. QED
  BY <1>1, SameEdges

\* Between the operations the edges are the operands.
LEMMA IdleEdges ==
  /\ pc = "idle" => \A u \in User, i \in ArgNo, v \in Val : Edge(u, i, v) <=> Has(u, i, v)
  /\ pc' = "idle" => \A u \in User, i \in ArgNo, v \in Val : Edge(u, i, v)' <=> Has(u, i, v)'
BY DEF Edge, Holds, Current, Has, Walks

LEMMA CreateEdges ==
  ASSUME IInv, NEW u \in User, NEW n \in 0 .. MaxOps, Create(u, n)
  PROVE  [D!Next]_Edges
<1>1. \A w \in User, i \in ArgNo, v \in Val : Has(w, i, v)' <=> Has(w, i, v)
  BY UserAssumption DEF Create, IInv, TypeOK, Has, FreshInv
<1>2. pc = "idle" /\ pc' = "idle"
  BY DEF Create
<1>3. QED
  BY <1>1, <1>2, IdleEdges, SameEdges

LEMMA NowHasEdges ==
  ASSUME NEW u \in User, NEW i \in ArgNo, NEW v \in Val, NowHas(u, i, v),
         pc = "idle", pc' = "idle"
  PROVE  [D!Next]_Edges
<1>1. /\ \A x \in Val : ~Edge(u, i, x)
      /\ \A w \in User, j \in ArgNo, x \in Val :
           Edge(w, j, x)' <=> Edge(w, j, x) \/ (w = u /\ j = i /\ x = v)
  BY IdleEdges DEF NowHas
<1>2. QED
  BY <1>1, UseEdge

\* A walk that begins changes the edges it is going to change.
LEMMA WalkEdges ==
  ASSUME IInv, pc = "idle", NEW v \in Val, NEW w \in Val, NEW S \in SUBSET User,
         pc' \in Walks, new_val' = w, pending' = uses[v],
         \A u \in User : Selected(u)' <=> u \in S,
         UNCHANGED irvars
  PROVE  [D!Next]_Edges
<1>1. \A u \in User : (Holds(u)' <=> state[u] = "live") /\ (Holds(u) <=> state[u] = "live")
  BY DEF Holds, Walks, irvars
<1>2. ASSUME NEW u \in User, NEW i \in ArgNo
      PROVE  Current(u, i)' = IF Has(u, i, v) /\ u \in S THEN w ELSE operands[u][i]
  <2>1. uses[v][u][i] = IF Has(u, i, v) THEN 1 ELSE 0
    BY DEF IInv, ListInv, Expected
  <2>2. pending'[u][i] > 0 <=> Has(u, i, v)
    BY <2>1
  <2>3. QED
    BY <2>2 DEF Current, irvars
<1>3. ASSUME NEW u \in User, NEW i \in ArgNo, NEW x \in Val
      PROVE  Edge(u, i, x)' <=>
               \E y \in Val : Edge(u, i, y) /\ x = IF y = v /\ u \in S THEN w ELSE y
  <2>1. Edge(u, i, x)' <=> /\ state[u] = "live" /\ i < num_ops[u]
                           /\ x = IF Has(u, i, v) /\ u \in S THEN w ELSE operands[u][i]
    BY <1>1, <1>2 DEF Edge, irvars
  <2>2. \A y \in Val : Edge(u, i, y) <=> Has(u, i, y)
    BY IdleEdges
  <2>3. QED
    BY <2>1, <2>2 DEF Has
<1>4. QED
  BY <1>3, ReplaceEdges

LEMMA ReplaceAllEdges ==
  ASSUME IInv, NEW v \in Val, NEW w \in Val, ReplaceAllUseWith(v, w)
  PROVE  [D!Next]_Edges
<1>1. pc = "idle" /\ pc' \in Walks /\ \A u \in User : Selected(u)' <=> u \in User
  BY DEF ReplaceAllUseWith, Walks, Selected
<1>2. new_val' = w /\ pending' = uses[v] /\ UNCHANGED irvars
  BY DEF ReplaceAllUseWith
<1>3. QED
  BY <1>1, <1>2, WalkEdges

LEMMA ReplaceWhenEdges ==
  ASSUME IInv, NEW v \in Val, NEW w \in Val, NEW S \in SUBSET User,
         ReplaceUseWithWhen(v, w, S)
  PROVE  [D!Next]_Edges
<1>1. pc = "idle" /\ pc' \in Walks /\ \A u \in User : Selected(u)' <=> u \in S
  BY DEF ReplaceUseWithWhen, Walks, Selected
<1>2. new_val' = w /\ pending' = uses[v] /\ UNCHANGED irvars
  BY DEF ReplaceUseWithWhen
<1>3. QED
  BY <1>1, <1>2, WalkEdges

\* An iteration of a walk does what the edges show already.
LEMMA MovedEdges ==
  ASSUME IInv, pc \in Walks,
         NEW u \in User, NEW i \in ArgNo, pending[u][i] > 0, Selected(u),
         operands' = [operands EXCEPT ![u][i] = new_val],
         pending' = [pending EXCEPT ![u][i] = @ - 1],
         UNCHANGED <<state, num_ops, pc, val, new_val, pred, user, arg>>
  PROVE  [D!Next]_Edges
<1>1. \A w \in User, j \in ArgNo :
        /\ operands'[w][j] = IF w = u /\ j = i THEN new_val ELSE operands[w][j]
        /\ pending'[w][j] = IF w = u /\ j = i THEN 0 ELSE pending[w][j]
  BY Moved DEF IInv, TypeOK, Bag
<1>2. \A w \in User : (Holds(w)' <=> Holds(w)) /\ (Selected(w)' <=> Selected(w))
  BY DEF Holds, Selected
<1>3. ASSUME NEW w \in User, NEW j \in ArgNo
      PROVE  Current(w, j)' = Current(w, j)
  <2>1. CASE w = u /\ j = i
    <3>1. ~(pending'[w][j] > 0) /\ operands'[w][j] = new_val
      BY <1>1, <2>1
    <3>2. QED
      BY <2>1, <3>1 DEF Current
  <2>2. CASE ~(w = u /\ j = i)
    <3>1. pending'[w][j] = pending[w][j] /\ operands'[w][j] = operands[w][j]
      BY <1>1, <2>2
    <3>2. QED
      BY <1>2, <3>1 DEF Current
  <2>3. QED
    BY <2>1, <2>2
<1>4. QED
  BY <1>2, <1>3, SameCurrent

LEMMA SkipUseEdges ==
  ASSUME IInv, NEW u \in User, NEW i \in ArgNo, SkipUse(u, i)
  PROVE  [D!Next]_Edges
<1>1. ~Selected(u) /\ UNCHANGED <<irvars, pc, new_val, pred, user>>
  BY DEF SkipUse, Selected
<1>2. \A w \in User, j \in ArgNo : ~(w = u /\ j = i) => pending'[w][j] = pending[w][j]
  BY DEF SkipUse, IInv, TypeOK, Bag
<1>3. \A w \in User : (Holds(w)' <=> Holds(w)) /\ (Selected(w)' <=> Selected(w))
  BY <1>1 DEF Holds, Selected, irvars
<1>4. \A w \in User, j \in ArgNo : Current(w, j)' = Current(w, j)
  BY <1>1, <1>2, <1>3 DEF Current, irvars
<1>5. QED
  BY <1>1, <1>3, <1>4, SameCurrent DEF irvars

\* When a walk is over the edges are the operands again.
LEMMA WalkOverEdges ==
  ASSUME pc \in Walks, pending = NoUses, Return, UNCHANGED <<state, num_ops, operands>>
  PROVE  [D!Next]_Edges
<1>1. \A u \in User : Holds(u)' <=> Holds(u)
  BY DEF Return, Holds, Walks
<1>2. \A u \in User, i \in ArgNo : ~(pending[u][i] > 0)
  BY DEF NoUses
<1>3. \A u \in User, i \in ArgNo : Current(u, i)' = Current(u, i)
  BY <1>2 DEF Return, Current, Walks
<1>4. QED
  BY <1>1, <1>3, SameCurrent

LEMMA RemoveUseOfOpsEdges ==
  ASSUME NEW u \in User, RemoveUseOfOps(u)
  PROVE  [D!Next]_Edges
<1>1. /\ pc = "idle" /\ pc' = "remove uses" /\ user' = u
      /\ UNCHANGED <<state, num_ops, operands>>
  BY DEF RemoveUseOfOps, irvars
<1>2. \A w \in User, i \in ArgNo, v \in Val : Edge(w, i, v)' <=> Edge(w, i, v) /\ w # u
  BY <1>1 DEF Edge, Holds, Current, Walks
<1>3. QED
  BY <1>2, DropEdges

LEMMA RemoveEdges ==
  ASSUME IInv, RemoveUse \/ EndRemove
  PROVE  [D!Next]_Edges
<1>1. pc = "remove uses" /\ pc' \in {"remove uses", "idle"} /\ UNCHANGED <<num_ops, operands>>
  BY DEF RemoveUse, EndRemove, Return
<1>2. \A u \in User : Holds(u)' <=> Holds(u)
  <2>1. CASE RemoveUse
    BY <2>1 DEF RemoveUse, Holds
  <2>2. CASE EndRemove
    BY <1>1, <2>2 DEF EndRemove, Return, Holds, IInv, TypeOK
  <2>3. QED
    BY <2>1, <2>2
<1>3. \A u \in User, i \in ArgNo : Current(u, i)' = Current(u, i)
  BY <1>1 DEF Current, Walks
<1>4. QED
  BY <1>1, <1>2, <1>3, SameCurrent

LEMMA EraseEdges ==
  ASSUME IInv, NEW u \in User, Erase(u)
  PROVE  [D!Next]_Edges
<1>1. \A w \in User : Holds(w)' <=> Holds(w)
  BY DEF Erase, Holds, IInv, TypeOK, jobvars
<1>2. \A w \in User, i \in ArgNo : Current(w, i)' = Current(w, i)
  BY DEF Erase, Current, Selected, jobvars
<1>3. QED
  BY <1>1, <1>2, SameCurrent DEF Erase

\* Walking the use lists replaces a value in exactly the operands that have it: for
\* all values, users and numbers of operands UseDef implements the specification in
\* which the uses of a value change at once and no list is kept.
THEOREM Refinement == Spec => ImplementsDefUse
<1>1. Init => D!Init
  BY DEF Init, D!Init, Edges, Holds
<1>2. IInv /\ [Next]_vars => [D!Next]_Edges
  <2> SUFFICES ASSUME IInv, [Next]_vars PROVE [D!Next]_Edges
    OBVIOUS
  <2>1. ASSUME NEW u \in User, NEW n \in 0 .. MaxOps, Create(u, n) PROVE [D!Next]_Edges
    BY <2>1, CreateEdges
  <2>2. ASSUME NEW u \in User, NEW i \in ArgNo, NEW v \in Val, SetOperand(u, i, v)
        PROVE  [D!Next]_Edges
    <3>1. NowHas(u, i, v)
      BY <2>2, SetOperandStep
    <3>2. pc = "idle" /\ pc' = "idle"
      BY <2>2 DEF SetOperand
    <3>3. QED
      BY <3>1, <3>2, NowHasEdges
  <2>3. ASSUME NEW u \in User, NEW v \in Val, AddOperand(u, v) PROVE [D!Next]_Edges
    <3>1. num_ops[u] \in ArgNo /\ NowHas(u, num_ops[u], v)
      BY <2>3, AddOperandStep
    <3>2. pc = "idle" /\ pc' = "idle"
      BY <2>3 DEF AddOperand
    <3>3. QED
      BY <3>1, <3>2, NowHasEdges
  <2>4. ASSUME NEW v \in Val, NEW w \in Val, ReplaceAllUseWith(v, w) PROVE [D!Next]_Edges
    BY <2>4, ReplaceAllEdges
  <2>5. ASSUME NEW u \in User, NEW i \in ArgNo,
               VisitUse(u, i) \/ SkipUse(u, i) \/ MoveUse(u, i)
        PROVE  [D!Next]_Edges
    <3>1. CASE VisitUse(u, i)
      BY <3>1, MovedEdges DEF VisitUse, Walks, Selected
    <3>2. CASE SkipUse(u, i)
      BY <3>2, SkipUseEdges
    <3>3. CASE MoveUse(u, i)
      BY <3>3, MovedEdges DEF MoveUse, Walks, Selected
    <3>4. QED
      BY <2>5, <3>1, <3>2, <3>3
  <2>6. ASSUME NEW v \in Val, NEW w \in Val, NEW S \in SUBSET User,
               ReplaceUseWithWhen(v, w, S)
        PROVE  [D!Next]_Edges
    BY <2>6, ReplaceWhenEdges
  <2>7. ASSUME NEW u \in User, RemoveUseOfOps(u) \/ Erase(u) PROVE [D!Next]_Edges
    BY <2>7, RemoveUseOfOpsEdges, EraseEdges
  <2>8. CASE EndReplaceAll \/ EndReplaceWhen
    BY <2>8, WalkOverEdges DEF EndReplaceAll, EndReplaceWhen, Walks, irvars
  <2>9. CASE RemoveUse \/ EndRemove
    BY <2>9, RemoveEdges
  <2>10. CASE UNCHANGED vars
    BY <2>10 DEF vars, Edges, Holds, Current, Selected
  <2>11. QED
    BY <2>1, <2>2, <2>3, <2>4, <2>5, <2>6, <2>7, <2>8, <2>9, <2>10 DEF Next
<1>3. QED
  BY Invariance, <1>1, <1>2, PTL DEF Spec, ImplementsDefUse, D!Spec
=============================================================================
