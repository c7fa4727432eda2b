-------------------------------- MODULE GVN ---------------------------------
(* Global value numbering as far as it gets.  GVN::run has the purity        *)
(* analysis and dead code elimination made and then hands the instructions   *)
(* of each function, in order, to transferFunction, which keeps a partition  *)
(* of them into congruence classes.  valueExpr makes an expression of an     *)
(* add, alloca or store and returns nullptr for everything else, and         *)
(* valuePhiFunc follows the pointer without a test.                          *)
EXTENDS Naturals, Sequences, FiniteSets

CONSTANTS Instr,       \* the instructions of a module
          Values,      \* constants, globals and arguments
          Modules,     \* the modules the pass may be given
          Eliminated,  \* the bodies that dead code elimination leaves of a module
          nullptr      \* no expression

Ops == {"add", "alloca", "store", "load", "call", "ret"}

\* A module: for each function the instructions of its blocks in order, empty
\* for a declaration; the opcode and the operands of every instruction.
Module == [body : Seq(Seq(Instr)), op : [Instr -> Ops], operands : [Instr -> Seq(Instr \cup Values)]]

\* An add and a store have two operands.
WellFormed(mod) == mod \in Module /\ \A x \in Instr : mod.op[x] \in {"add", "store"} => Len(mod.operands[x]) = 2

\* No function loses its body to dead code elimination, and no instruction is left
\* in two places.
KeepsBodies(mod) ==
  /\ Eliminated[mod] \in Seq(Seq(Instr)) /\ Len(Eliminated[mod]) = Len(mod.body)
  /\ \A f \in DOMAIN mod.body :
       /\ Eliminated[mod][f] = <<>> <=> mod.body[f] = <<>>
       /\ \A j, k \in DOMAIN Eliminated[mod][f] : Eliminated[mod][f][j] = Eliminated[mod][f][k] => j = k

\* The modules the pass is given: what the builder and dead code elimination leave.
Given == {mod \in Modules : WellFormed(mod) /\ KeepsBodies(mod)}

VARIABLES m,                   \* the module
          body,                \* the instructions of its functions
          n, next,             \* function and position in its body
          p,                   \* the partition: classes by their index_
          next_value_number,
          made,                \* expressions made so far; the last one's address
          pc

vars == <<m, body, n, next, p, next_value_number, made, pc>>

-----------------------------------------------------------------------------
(* Expressions and classes *)

Range(s) == {s[k] : k \in DOMAIN s}

Variable(v)      == [type |-> "e_var", of |-> v]
Binary(op, l, r) == [type |-> "e_bin", op |-> op, lhs |-> l, rhs |-> r]

\* the expressions that can be made: a variable, or an operator on two of them
Terms == {Variable(v) : v \in Instr \cup Values}
         \cup {Binary("add", Variable(v), Variable(w)) : v \in Instr \cup Values, w \in Instr \cup Values}

\* a new object each time: pointers to two expressions differ, however equal they are
CongruenceClass == [index : Nat \ {0}, leader : Instr, members : SUBSET Instr, value_expr : (1 .. made) \X Terms]

Class(index, leader, expr) ==
  [index |-> index, leader |-> leader, members |-> {leader}, value_expr |-> expr]

\* valueExpr(): an expression at an address of its own, or nullptr
ValueExpr(x, at) ==
  CASE m.op[x] = "add"    -> <<at, Binary("add", Variable(m.operands[x][1]), Variable(m.operands[x][2]))>>
    [] m.op[x] = "alloca" -> <<at, Variable(x)>>
    [] m.op[x] = "store"  -> <<at, Variable(m.operands[x][1])>>
    [] OTHER              -> nullptr

\* valuePhiFunc() looks for a sum of two phis.  valueExpr makes no phi, so the
\* search for the values along the edges is never entered.
IsPhiSum(e) == e.type = "e_bin" /\ e.op = "add" /\ e.lhs.type = "e_phi" /\ e.rhs.type = "e_phi"

\* getClassOf(): the indices of the classes that contain a value
ClassesOf(partition, v) == {k \in DOMAIN partition : v \in partition[k].members}

\* CongruenceClass::contains() compares the pointers
Contains(class, expr) == class.value_expr # nullptr /\ class.value_expr = expr

ClassesWith(partition, expr) == {k \in DOMAIN partition : Contains(partition[k], expr)}

-----------------------------------------------------------------------------
(* transferFunction(): x leaves its class; it joins the class of its expression or founds one;
   the first operand of an add gives its class the expression of the sum *)

Remove(partition, x) ==
  [k \in DOMAIN partition |-> [partition[k] EXCEPT !.members = @ \ {x}]]

Join(partition, x, expr) ==
  [k \in DOMAIN partition |->
     IF k \in ClassesWith(partition, expr)
     THEN [partition[k] EXCEPT !.members = @ \cup {x}, !.value_expr = expr] ELSE partition[k]]

Found(partition, x, expr) ==
  [k \in DOMAIN partition \cup {next_value_number} |->
     IF k = next_value_number THEN Class(k, x, expr) ELSE partition[k]]

Placed(partition, x, expr) ==
  IF ClassesWith(Remove(partition, x), expr) # {} THEN Join(Remove(partition, x), x, expr)
  ELSE Found(Remove(partition, x), x, expr)

Describe(partition, x, expr) ==
  LET op1 == m.operands[x][1]
      op2 == m.operands[x][2]
  IN IF m.op[x] # "add" \/ ClassesOf(partition, op1) = {} \/ ClassesOf(partition, op2) = {} THEN partition
     ELSE [k \in DOMAIN partition |->
             IF k \in ClassesOf(partition, op1) THEN [partition[k] EXCEPT !.value_expr = expr]
             ELSE partition[k]]

-----------------------------------------------------------------------------
(* The pass *)

Init ==
  /\ m \in Given
  /\ body = m.body
  /\ n = 1 /\ next = 1
  /\ p = << >> /\ next_value_number = 1 /\ made = 0
  /\ pc = "start"

RunPasses ==
  /\ pc = "start"
  /\ body' = Eliminated[m]
  /\ pc' = "functions"
  /\ UNCHANGED <<m, n, next, p, next_value_number, made>>

SkipDeclaration ==
  /\ pc = "functions" /\ n <= Len(body) /\ body[n] = <<>>
  /\ n' = n + 1
  /\ UNCHANGED <<m, body, next, p, next_value_number, made, pc>>

\* initPerFunction(), and the first block begins with the empty partition of pin_
InitPerFunction ==
  /\ pc = "functions" /\ n <= Len(body) /\ body[n] # <<>>
  /\ next_value_number' = 1
  /\ p' = << >>
  /\ next' = 1
  /\ pc' = "block"
  /\ UNCHANGED <<m, body, n, made>>

X == body[n][next]

TransferFunction ==
  /\ pc = "block" /\ next <= Len(body[n])
  /\ LET ve == ValueExpr(X, made + 1)
     IN /\ ve # nullptr
        /\ p' = Describe(Placed(p, X, ve), X, <<made + 2, ve[2]>>)
        /\ next_value_number' =
             next_value_number + (IF ClassesWith(Remove(p, X), ve) = {} THEN 1 ELSE 0)
  /\ made' = made + 2
  /\ next' = next + 1
  /\ UNCHANGED <<m, body, n, pc>>

\* valuePhiFunc() reads the type of the expression at nullptr
Crash ==
  /\ pc = "block" /\ next <= Len(body[n]) /\ ValueExpr(X, made + 1) = nullptr
  /\ pc' = "crashed"
  /\ UNCHANGED <<m, body, n, next, p, next_value_number, made>>

\* The second run of dead code elimination has nothing to do without bodies.
Return ==
  /\ pc = "functions" /\ n > Len(body)
  /\ pc' = "returned"
  /\ UNCHANGED <<m, body, n, next, p, next_value_number, made>>

Next == RunPasses \/ SkipDeclaration \/ InitPerFunction \/ TransferFunction \/ Crash \/ Return

Spec == Init /\ [][Next]_vars /\ WF_vars(Next)

-----------------------------------------------------------------------------
(* Properties *)

TypeOK ==
  /\ m \in Given /\ body \in {m.body, Eliminated[m]}
  /\ n \in Nat \ {0} /\ next \in Nat \ {0} /\ made \in Nat
  /\ next_value_number \in Nat \ {0}
  /\ p \in [DOMAIN p -> CongruenceClass]
  /\ \A k \in DOMAIN p : p[k].index = k /\ ~IsPhiSum(p[k].value_expr[2])
  /\ pc \in {"start", "functions", "block", "crashed", "returned"}

\* No class ever has two members: the k-th instruction of a function leads class k
\* and is its only member.  This is what the code does, and the opposite of what it
\* is for: its comments (GVN.cpp:193-201, 357-376) and the expectations of its tests
\* (tests/4-ir-opt/testcases/GVN) put equal instructions into one class.
OwnClasses ==
  pc \in {"block", "crashed"} =>
    /\ next_value_number = next
    /\ DOMAIN p = 1 .. next - 1
    /\ \A k \in DOMAIN p : p[k].leader = body[n][k] /\ p[k].members = {body[n][k]}

\* The pass returns only for a module in which no function has a body: any
\* other one ends it at the first instruction that is no add, alloca or store.
ReturnsWithoutBodies ==
  pc = "returned" => \A f \in DOMAIN m.body : m.body[f] = <<>>

\* GVN.cpp:602: the pass goes on to replace the members of the classes and to
\* run dead code elimination again.
GoesOn == pc # "crashed"

=============================================================================
