----------------------------- MODULE GVNProofs ------------------------------
(* What value numbering does, for every module: each instruction founds a    *)
(* class of its own, and the pass returns only when no function has a body.  *)
EXTENDS GVN, TLAPS

\* The functions behind the current one are declarations, and the partition
\* holds the instructions of the current one that have been handed over.
Progress ==
  /\ pc = "start" => n = 1
  /\ pc # "start" => body = Eliminated[m]
  /\ pc \in {"functions", "returned"} => \A f \in 1 .. n - 1 : f \in DOMAIN body => body[f] = <<>>
  /\ pc = "returned" => n > Len(body)
  /\ pc \in {"block", "crashed"} => n \in DOMAIN body /\ next <= Len(body[n]) + 1

IInv == TypeOK /\ Progress /\ OwnClasses

\* What the assumptions say of the bodies the pass works on.
LEMMA Bodies ==
  ASSUME NEW mod \in Given
  PROVE  /\ mod.body \in Seq(Seq(Instr)) /\ Eliminated[mod] \in Seq(Seq(Instr))
         /\ mod.op \in [Instr -> Ops] /\ mod.operands \in [Instr -> Seq(Instr \cup Values)]
         /\ DOMAIN Eliminated[mod] = DOMAIN mod.body
         /\ \A f \in DOMAIN mod.body :
              /\ Eliminated[mod][f] = <<>> <=> mod.body[f] = <<>>
              /\ \A j, k \in DOMAIN Eliminated[mod][f] : Eliminated[mod][f][j] = Eliminated[mod][f][k] => j = k
         /\ \A x \in Instr : mod.op[x] = "add" => mod.operands[x][1] \in Instr \cup Values
                                                  /\ mod.operands[x][2] \in Instr \cup Values
         /\ \A x \in Instr : mod.op[x] = "store" => mod.operands[x][1] \in Instr \cup Values
PROOF
  <1>1. mod \in Module
    BY DEF Given, WellFormed
  <1>2. mod.body \in Seq(Seq(Instr)) /\ mod.op \in [Instr -> Ops]
        /\ mod.operands \in [Instr -> Seq(Instr \cup Values)]
    BY <1>1 DEF Module
  <1>3. Eliminated[mod] \in Seq(Seq(Instr)) /\ Len(Eliminated[mod]) = Len(mod.body)
    BY DEF Given, KeepsBodies
  <1>4. DOMAIN Eliminated[mod] = DOMAIN mod.body
    BY <1>2, <1>3
  <1>5. \A f \in DOMAIN mod.body :
          /\ Eliminated[mod][f] = <<>> <=> mod.body[f] = <<>>
          /\ \A j, k \in DOMAIN Eliminated[mod][f] : Eliminated[mod][f][j] = Eliminated[mod][f][k] => j = k
    BY DEF Given, KeepsBodies
  <1>6. ASSUME NEW x \in Instr, mod.op[x] \in {"add", "store"}
        PROVE  mod.operands[x][1] \in Instr \cup Values /\ mod.operands[x][2] \in Instr \cup Values
    <2>1. Len(mod.operands[x]) = 2
      BY <1>6 DEF Given, WellFormed
    <2>2. mod.operands[x] \in Seq(Instr \cup Values)
      BY <1>2
    <2>q. QED BY <2>1, <2>2
  <1>q. QED BY <1>2, <1>3, <1>4, <1>5, <1>6

\* The expressions that valueExpr makes are variables and sums of variables.
LEMMA NewExpression ==
  ASSUME TypeOK, NEW x \in Instr, NEW at \in Nat, ValueExpr(x, at) # nullptr
  PROVE  ValueExpr(x, at) = <<at, ValueExpr(x, at)[2]>> /\ ValueExpr(x, at)[2] \in Terms
PROOF
  <1>1. m \in Given
    BY DEF TypeOK
  <1>2. CASE m.op[x] = "add"
    <2>1. m.operands[x][1] \in Instr \cup Values /\ m.operands[x][2] \in Instr \cup Values
      BY <1>1, <1>2, Bodies
    <2>2. ValueExpr(x, at) = <<at, Binary("add", Variable(m.operands[x][1]), Variable(m.operands[x][2]))>>
      BY <1>2 DEF ValueExpr
    <2>q. QED BY <2>1, <2>2 DEF Terms
  <1>3. CASE m.op[x] = "alloca"
    BY <1>3 DEF ValueExpr, Terms
  <1>4. CASE m.op[x] = "store"
    <2>1. m.operands[x][1] \in Instr \cup Values
      BY <1>1, <1>4, Bodies
    <2>q. QED BY <2>1, <1>4 DEF ValueExpr, Terms
  <1>5. CASE m.op[x] \notin {"add", "alloca", "store"}
    BY <1>5 DEF ValueExpr
  <1>q. QED BY <1>2, <1>3, <1>4, <1>5

\* None of them is a sum of phis.
LEMMA NoPhiSum ==
  ASSUME NEW e \in Terms
  PROVE  ~IsPhiSum(e)
PROOF BY DEF IsPhiSum, Variable, Binary, Terms

\* A new expression is at a new address, so no class contains it.
LEMMA FoundsClass ==
  ASSUME IInv, pc = "block", next <= Len(body[n]), ValueExpr(X, made + 1) # nullptr
  PROVE  /\ X \in Instr
         /\ Remove(p, X) = p
         /\ ClassesWith(Remove(p, X), ValueExpr(X, made + 1)) = {}
         /\ Placed(p, X, ValueExpr(X, made + 1)) = Found(p, X, ValueExpr(X, made + 1))
PROOF
  <1>1. /\ m \in Given /\ body = Eliminated[m] /\ n \in DOMAIN body /\ next \in Nat \ {0} /\ made \in Nat
        /\ DOMAIN p = 1 .. next - 1
        /\ \A k \in DOMAIN p : p[k].leader = body[n][k] /\ p[k].members = {body[n][k]}
        /\ p \in [DOMAIN p -> CongruenceClass]
    BY DEF IInv, TypeOK, Progress, OwnClasses
  <1>2. body \in Seq(Seq(Instr)) /\ body[n] \in Seq(Instr) /\ next \in DOMAIN body[n]
    <2>1. body \in Seq(Seq(Instr))
      BY <1>1, Bodies
    <2>2. body[n] \in Seq(Instr)
      BY <2>1, <1>1
    <2>3. ASSUME NEW s \in Seq(Instr), next <= Len(s)
          PROVE  next \in DOMAIN s
      BY <1>1, <2>3
    <2>q. QED BY <2>1, <2>2, <2>3
  <1>3. X \in Instr
    BY <1>2 DEF X
  <1>4. \A k \in DOMAIN p : body[n][k] # X
    <2>1. \A j, k \in DOMAIN body[n] : body[n][j] = body[n][k] => j = k
      <3>1. n \in DOMAIN m.body
        BY <1>1, Bodies
      <3>2. \A j, k \in DOMAIN Eliminated[m][n] : Eliminated[m][n][j] = Eliminated[m][n][k] => j = k
        BY <3>1, <1>1, Bodies, Zenon
      <3>q. QED BY <3>2, <1>1, Zenon
    <2>2. DOMAIN p \subseteq DOMAIN body[n] /\ \A k \in DOMAIN p : k # next
      BY <1>1, <1>2
    <2>q. QED BY <1>2, <2>1, <2>2 DEF X
  <1>5. Remove(p, X) = p
    <2>1. \A k \in DOMAIN p : [p[k] EXCEPT !.members = @ \ {X}] = p[k]
      BY <1>1, <1>4 DEF CongruenceClass
    <2>q. QED BY <2>1, <1>1 DEF Remove
  <1>6. \A k \in DOMAIN p : ~Contains(p[k], ValueExpr(X, made + 1))
    <2>1. ValueExpr(X, made + 1) = <<made + 1, ValueExpr(X, made + 1)[2]>>
      BY <1>1, <1>3, NewExpression DEF IInv
    <2>2. \A k \in DOMAIN p : p[k].value_expr[1] \in 1 .. made
      BY <1>1 DEF CongruenceClass
    <2>3. made + 1 \notin 1 .. made
      BY <1>1
    <2>q. QED BY <2>1, <2>2, <2>3 DEF Contains
  <1>q. QED BY <1>3, <1>5, <1>6 DEF ClassesWith, Placed

\* What handing an instruction over does to the partition: a class is added,
\* and at most the expression of another one changes.
LEMMA NewPartition ==
  ASSUME IInv, pc = "block", next <= Len(body[n]), NEW ve, ve = ValueExpr(X, made + 1), ve # nullptr,
         NEW new, new = Describe(Placed(p, X, ve), X, <<made + 2, ve[2]>>)
  PROVE  /\ new \in [1 .. next -> [index : Nat \ {0}, leader : Instr, members : SUBSET Instr,
                                  value_expr : (1 .. made + 2) \X Terms]]
         /\ \A k \in 1 .. next : new[k].index = k /\ new[k].leader = body[n][k] /\ new[k].members = {body[n][k]}
PROOF
  <1>1. X \in Instr /\ X = body[n][next] /\ ve = <<made + 1, ve[2]>> /\ ve[2] \in Terms /\ made \in Nat
    BY FoundsClass, NewExpression DEF X, IInv, TypeOK
  <1>2. /\ DOMAIN p = 1 .. next - 1 /\ next_value_number = next /\ next \in Nat \ {0}
        /\ \A k \in DOMAIN p : p[k].leader = body[n][k] /\ p[k].members = {body[n][k]} /\ p[k].index = k
        /\ p \in [DOMAIN p -> CongruenceClass]
    BY DEF IInv, TypeOK, OwnClasses
  <1> DEFINE Wider == [index : Nat \ {0}, leader : Instr, members : SUBSET Instr,
                       value_expr : (1 .. made + 2) \X Terms]
             placed == Found(p, X, ve)
             Right(c, k) == c.index = k /\ c.leader = body[n][k] /\ c.members = {body[n][k]} /\ c \in Wider
  <1>3. DOMAIN placed = 1 .. next
    BY <1>2 DEF Found
  <1>4. \A k \in 1 .. next : Right(placed[k], k)
    <2>1. Right(Class(next, X, ve), next)
      BY <1>1, <1>2 DEF Class
    <2>2. ASSUME NEW k \in DOMAIN p
          PROVE  Right(p[k], k)
      <3>1. p[k] \in CongruenceClass
        BY <1>2
      <3>2. p[k] \in Wider
        BY <3>1, <1>1 DEF CongruenceClass
      <3>q. QED BY <3>2, <1>2
    <2>3. placed[next] = Class(next, X, ve) /\ \A k \in DOMAIN p : placed[k] = p[k]
      BY <1>2 DEF Found
    <2>q. QED BY <2>1, <2>2, <2>3, <1>2
  <1>5. ASSUME NEW c, NEW k, Right(c, k)
        PROVE  Right([c EXCEPT !.value_expr = <<made + 2, ve[2]>>], k)
    BY <1>1, <1>5
  <1>6. /\ DOMAIN new = DOMAIN placed
        /\ \A k \in DOMAIN placed : \/ new[k] = placed[k]
                                    \/ new[k] = [placed[k] EXCEPT !.value_expr = <<made + 2, ve[2]>>]
    BY FoundsClass DEF Describe
  <1>9. new = [k \in DOMAIN new |-> new[k]]
    BY FoundsClass DEF Describe, Found
  <1> HIDE DEF Right, placed
  <1>7. ASSUME NEW k \in 1 .. next
        PROVE  Right(new[k], k)
    <2>1. Right(placed[k], k) /\ k \in DOMAIN placed
      BY <1>3, <1>4
    <2>2. Right([placed[k] EXCEPT !.value_expr = <<made + 2, ve[2]>>], k)
      BY <2>1, <1>5
    <2>q. QED BY <2>1, <2>2, <1>6
  <1>8. DOMAIN new = 1 .. next
    BY <1>3, <1>6
  <1>q. QED BY <1>7, <1>8, <1>9 DEF Right

-----------------------------------------------------------------------------

LEMMA Initial == Init => IInv
PROOF
  <1> SUFFICES ASSUME Init PROVE IInv
    OBVIOUS
  <1>1. m \in Given /\ body = m.body /\ n = 1 /\ next = 1 /\ p = << >> /\ next_value_number = 1
        /\ made = 0 /\ pc = "start"
    BY DEF Init
  <1>2. TypeOK
    <2>1. p \in [DOMAIN p -> CongruenceClass] /\ DOMAIN p = {}
      BY <1>1
    <2>q. QED BY <1>1, <2>1 DEF TypeOK
  <1>3. Progress /\ OwnClasses
    BY <1>1 DEF Progress, OwnClasses
  <1>q. QED BY <1>2, <1>3 DEF IInv

\* A step that leaves the partition alone leaves its type alone.
LEMMA SamePartition ==
  ASSUME TypeOK, p' = p, made' = made
  PROVE  /\ p' \in [DOMAIN p' -> CongruenceClass']
         /\ \A k \in DOMAIN p' : p'[k].index = k /\ ~IsPhiSum(p'[k].value_expr[2])
PROOF BY DEF TypeOK, CongruenceClass, IsPhiSum

LEMMA Step == IInv /\ [Next]_vars => IInv'
PROOF
  <1> SUFFICES ASSUME IInv, [Next]_vars PROVE IInv'
    OBVIOUS
  <1> USE DEF IInv
  <1>0. m \in Given /\ n \in Nat \ {0} /\ next \in Nat \ {0} /\ made \in Nat /\ next_value_number \in Nat \ {0}
        /\ body \in {m.body, Eliminated[m]} /\ body \in Seq(Seq(Instr))
    <2>1. m \in Given /\ body \in {m.body, Eliminated[m]}
      BY DEF TypeOK
    <2>2. m.body \in Seq(Seq(Instr)) /\ Eliminated[m] \in Seq(Seq(Instr))
      BY <2>1, Bodies, Zenon
    <2>3. body \in Seq(Seq(Instr))
      BY <2>1, <2>2, Zenon
    <2>q. QED BY <2>1, <2>3 DEF TypeOK
  <1>1. CASE RunPasses
    <2>1. pc = "start" /\ body' = Eliminated[m] /\ pc' = "functions"
          /\ UNCHANGED <<m, n, next, p, next_value_number, made>>
      BY <1>1 DEF RunPasses
    <2>2. n = 1
      BY <2>1 DEF Progress
    <2>3. TypeOK'
      BY <2>1, <1>0, SamePartition DEF TypeOK
    <2>4. Progress' /\ OwnClasses'
      BY <2>1, <2>2 DEF Progress, OwnClasses
    <2>q. QED BY <2>3, <2>4
  <1>2. CASE SkipDeclaration
    <2>1. /\ pc = "functions" /\ body[n] = <<>> /\ n' = n + 1
          /\ UNCHANGED <<m, body, next, p, next_value_number, made, pc>>
      BY <1>2 DEF SkipDeclaration
    <2>2. TypeOK'
      BY <2>1, <1>0, SamePartition DEF TypeOK
    <2>3. ASSUME NEW f \in 1 .. n' - 1, f \in DOMAIN body
          PROVE  body[f] = <<>>
      BY <2>1, <2>3, <1>0 DEF Progress
    <2>4. Progress' /\ OwnClasses'
      BY <2>1, <2>3, <1>0 DEF Progress, OwnClasses
    <2>q. QED BY <2>2, <2>4
  <1>3. CASE InitPerFunction
    <2>1. /\ pc = "functions" /\ n <= Len(body) /\ next_value_number' = 1 /\ p' = << >> /\ next' = 1
          /\ pc' = "block" /\ UNCHANGED <<m, body, n, made>>
      BY <1>3 DEF InitPerFunction
    <2>2. p' \in [DOMAIN p' -> CongruenceClass'] /\ DOMAIN p' = {}
      BY <2>1
    <2>3. TypeOK'
      BY <2>1, <2>2, <1>0 DEF TypeOK
    <2>4. n \in DOMAIN body /\ body[n] \in Seq(Instr)
      BY <2>1, <1>0
    <2>5. Progress'
      BY <2>1, <2>4, <1>0 DEF Progress
    <2>6. OwnClasses'
      BY <2>1, <2>2 DEF OwnClasses
    <2>q. QED BY <2>3, <2>5, <2>6
  <1>4. CASE TransferFunction
    <2> DEFINE ve == ValueExpr(X, made + 1)
    <2>1. /\ pc = "block" /\ next <= Len(body[n]) /\ ve # nullptr
          /\ p' = Describe(Placed(p, X, ve), X, <<made + 2, ve[2]>>)
          /\ next_value_number' = next_value_number + (IF ClassesWith(Remove(p, X), ve) = {} THEN 1 ELSE 0)
          /\ made' = made + 2 /\ next' = next + 1
          /\ UNCHANGED <<m, body, n, pc>>
      BY <1>4 DEF TransferFunction
    <2>2. next_value_number' = next + 1
      BY <2>1, <1>0, FoundsClass DEF OwnClasses
    <2> HIDE DEF ve
    <2>3. /\ p' \in [1 .. next -> [index : Nat \ {0}, leader : Instr, members : SUBSET Instr,
                                  value_expr : (1 .. made + 2) \X Terms]]
          /\ \A k \in 1 .. next : p'[k].index = k /\ p'[k].leader = body[n][k] /\ p'[k].members = {body[n][k]}
      BY <2>1, NewPartition DEF ve
    <2>4. CongruenceClass' = [index : Nat \ {0}, leader : Instr, members : SUBSET Instr,
                              value_expr : (1 .. made + 2) \X Terms]
      BY <2>1 DEF CongruenceClass, Terms, Variable, Binary
    <2>5. DOMAIN p' = 1 .. next /\ p' \in [DOMAIN p' -> CongruenceClass']
      BY <2>3, <2>4
    <2>6. \A k \in DOMAIN p' : ~IsPhiSum(p'[k].value_expr[2])
      <3>1. \A k \in DOMAIN p' : p'[k].value_expr[2] \in Terms
        BY <2>3
      <3>q. QED BY <3>1, NoPhiSum
    <2>7. next' \in Nat \ {0} /\ next_value_number' \in Nat \ {0} /\ made' \in Nat
      BY <2>1, <2>2, <1>0
    <2>8. TypeOK'
      BY <2>1, <2>3, <2>5, <2>6, <2>7, <1>0 DEF TypeOK
    <2>9. Progress'
      BY <2>1, <1>0 DEF Progress
    <2>10. OwnClasses'
      <3>1. next' - 1 = next
        BY <2>1, <1>0
      <3>q. QED BY <2>1, <2>2, <2>3, <2>5, <3>1 DEF OwnClasses
    <2>q. QED BY <2>8, <2>9, <2>10
  <1>5. CASE Crash
    BY <1>5, <1>0, SamePartition DEF Crash, TypeOK, Progress, OwnClasses
  <1>6. CASE Return
    BY <1>6, <1>0, SamePartition DEF Return, TypeOK, Progress, OwnClasses
  <1>7. CASE UNCHANGED vars
    BY <1>7, <1>0, SamePartition DEF vars, TypeOK, Progress, OwnClasses
  <1>q. QED BY <1>1, <1>2, <1>3, <1>4, <1>5, <1>6, <1>7 DEF Next

\* The inductive invariant: what lies behind the pass, and that the classes are
\* those of the instructions handed over, one each.
THEOREM Invariance == Spec => []IInv
PROOF BY Initial, Step, PTL DEF Spec

\* The type invariant of the partition, its numbers and its expressions, for
\* every module.
THEOREM Typing == Spec => []TypeOK
PROOF
  <1>1. IInv => TypeOK
    BY DEF IInv
  <1>q. QED BY <1>1, Invariance, PTL

\* No two instructions are ever put into one class, however equal their expressions
\* are: contains() compares the addresses of expressions (GVN.cpp:357-376), each made
\* for one instruction, where the comments and the tests of GVN expect equal
\* instructions in one class.
THEOREM NothingCongruent == Spec => []OwnClasses
PROOF
  <1>1. IInv => OwnClasses
    BY DEF IInv
  <1>q. QED BY <1>1, Invariance, PTL

\* The pass returns only for a module without function bodies (GVN::run).
THEOREM ReturnsOnlyForDeclarations == Spec => []ReturnsWithoutBodies
PROOF
  <1>1. IInv => ReturnsWithoutBodies
    <2> SUFFICES ASSUME IInv, pc = "returned", NEW f \in DOMAIN m.body PROVE m.body[f] = <<>>
      BY DEF ReturnsWithoutBodies
    <2>1. m \in Given /\ body = Eliminated[m] /\ n > Len(body) /\ n \in Nat
          /\ \A g \in 1 .. n - 1 : g \in DOMAIN body => body[g] = <<>>
      BY DEF IInv, TypeOK, Progress
    <2>2. body \in Seq(Seq(Instr)) /\ f \in DOMAIN body
      BY <2>1, Bodies
    <2>3. f \in 1 .. n - 1
      BY <2>1, <2>2
    <2>4. Eliminated[m][f] = <<>>
      BY <2>1, <2>2, <2>3
    <2>q. QED BY <2>1, <2>4, Bodies
  <1>q. QED BY <1>1, Invariance, PTL

=============================================================================
