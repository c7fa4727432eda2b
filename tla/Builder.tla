------------------------------ MODULE Builder -------------------------------
(***************************************************************************)
(* CminusfBuilder (src/cminusfc/cminusf_builder.cpp): the visitor that     *)
(* turns the syntax tree into basic blocks.  A visit that calls accept on  *)
(* a child and goes on afterwards is split there: todo is the stack of     *)
(* what is left to do, the top first, and a task carries the locals of its *)
(* visit.                                                                  *)
(*                                                                         *)
(* The nodes of simple, additive and multiplicative expressions treat      *)
(* their operands alike and are one kind, "binary"; where they have one    *)
(* operand they pass it on and are left out.  A type is a sequence, with   *)
(* pointers and arrays in front: Ptr(Arr(I32)).                            *)
(***************************************************************************)
EXTENDS Integers, Sequences, SequencesExt, Functions, TLC

CONSTANTS Programs,  \* the syntax trees the builder may be run on
          Nodes      \* the nodes of these trees

VARIABLES prog,           \* the declarations of the program
          todo,           \* what is left of the visits in progress
          tmp_val,        \* the value of the expression visited last
          require_lvalue, \* the next variable is wanted as an address
          scope,          \* the bindings of names, innermost scope last
          cur_fun,        \* the function being built
          insert,         \* the block instructions are appended to
          blocks          \* all basic blocks, in the order of their creation

vars == <<prog, todo, tmp_val, require_lvalue, scope, cur_fun, insert, blocks>>

-----------------------------------------------------------------------------
(* Syntax trees.  A node has its kind and its children; a child that may   *)
(* be left out is None then.                                               *)

None == [k |-> "none"]

Relops == {"<=", "<", ">", ">=", "==", "!="}
Binops == Relops \cup {"+", "-", "*", "/"}

ExpressionKinds == {"num", "var", "assign", "binary", "call"}
StatementKinds  == {"compound-stmt", "expression-stmt", "selection-stmt", "iteration-stmt", "return-stmt"}

Expression  == {n \in Nodes : n.k \in ExpressionKinds}
Statement   == {n \in Nodes : n.k \in StatementKinds}
Variable    == {n \in Nodes : n.k = "var-declaration"}
Declaration == {n \in Nodes : n.k \in {"var-declaration", "fun-declaration"}}

\* Names have letters only, so that no declaration can hide this function of the run time.
IsName(id) == id # "neg_idx_except"

IsNode(n) ==
  /\ n.k \in ExpressionKinds \cup StatementKinds \cup {"var-declaration", "fun-declaration"}
  /\ n.k = "var" => (n.index = None \/ n.index \in Expression)
  /\ n.k = "assign" => n.var \in Expression /\ n.var.k = "var" /\ n.e \in Expression
  /\ n.k = "binary" => n.op \in Binops /\ n.l \in Expression /\ n.r \in Expression
  /\ n.k = "call" => n.args \in Seq(Expression)
  /\ n.k \in {"expression-stmt", "return-stmt"} => (n.e = None \/ n.e \in Expression)
  /\ n.k = "compound-stmt" => n.decls \in Seq(Variable) /\ n.stmts \in Seq(Statement)
  /\ n.k = "selection-stmt" => /\ n.e \in Expression /\ n.then \in Statement
                              /\ (n.else = None \/ n.else \in Statement)
  /\ n.k = "iteration-stmt" => n.e \in Expression /\ n.body \in Statement
  /\ n.k = "fun-declaration" => /\ n.body \in Statement /\ n.body.k = "compound-stmt"
                               /\ n.params \in Seq({p \in Range(n.params) : IsName(p.id)})
  /\ n.k \in {"var-declaration", "fun-declaration"} => IsName(n.id)

ASSUME NodesAssumption == \A n \in Nodes : IsNode(n)
ASSUME ProgramsAssumption == Programs \subseteq Seq(Declaration)

-----------------------------------------------------------------------------
(* Types, values and blocks.                                               *)

I32 == <<"i32">>    Float == <<"float">>    Void == <<"void">>
Bit == <<"i1">>     Label == <<"label">>
Ptr(t) == <<"ptr">> \o t
Arr(t) == <<"arr">> \o t

IsIntegerType(t) == t \in {I32, Bit}
IsPointerType(t) == Head(t) = "ptr"

\* A value has a type, what it stands for, and for a function its signature.
Value(t, ref)          == [ty |-> t, ref |-> ref]
Const(t)               == Value(t, <<"const", t>>)
Fun(id, ret, params)   == [ty |-> <<"fun">>, ref |-> <<"fun", id>>, ret |-> ret, params |-> params]
BlockRef(b)            == Value(Label, <<"block", b>>)

Runtime == [input          |-> Fun("input", I32, <<>>),
            output         |-> Fun("output", Void, <<I32>>),
            outputFloat    |-> Fun("outputFloat", Void, <<Float>>),
            neg_idx_except |-> Fun("neg_idx_except", Void, <<>>)]

NewBlock(fun) == [fun |-> fun, code |-> <<>>, pre |-> <<>>, succ |-> <<>>]

\* The terminator of b, as get_terminator sees it: the last instruction only.
Terminated(bs, b) == bs[b].code # <<>> /\ Last(bs[b].code).op \in {"ret", "br"}

\* Appending instruction i to block c.at; c.v is then the value of the instruction.
Emit(c, i) ==
  [bs |-> [c.bs EXCEPT ![c.at].code = Append(@, i)],
   at |-> c.at,
   v  |-> Value(i.ty, <<"inst", c.at, Len(c.bs[c.at].code) + 1>>)]

Gen(c, op, t, args) == Emit(c, [op |-> op, ty |-> t, args |-> args])

Here == [bs |-> blocks, at |-> insert, v |-> tmp_val]

At(c, b)     == [c EXCEPT !.at = b]
Created(c)   == [c EXCEPT !.bs = Append(@, NewBlock(cur_fun.ref[2]))]
Link(c, b)   == [c EXCEPT !.bs[b].pre = Append(@, c.at), !.bs[c.at].succ = Append(@, b)]
Br(c, b)     == Gen(Link(c, b), "br", Void, <<BlockRef(b)>>)
BrUnlessTerminated(c, b) == IF Terminated(c.bs, c.at) THEN c ELSE Br(c, b)

\* The predecessors are told in the order true, false, the successors the other way.
CondBr(c, cond, b1, b2) ==
  Gen([c EXCEPT !.bs[b1].pre = Append(@, c.at), !.bs[b2].pre = Append(@, c.at),
                !.bs[c.at].succ = @ \o <<b2, b1>>],
      "br", Void, <<cond, BlockRef(b1), BlockRef(b2)>>)

\* Function::remove, by way of erase_from_parent: the neighbours of b forget it.
Without(q, b) == SelectSeq(q, LAMBDA m : m # b)
Forget(bs, n, b) ==
  [bs[n] EXCEPT !.pre  = IF n \in Range(bs[b].succ) THEN Without(@, b) ELSE @,
                !.succ = IF n \in Range(bs[b].pre)  THEN Without(@, b) ELSE @]
Removed(c, b) ==
  [c EXCEPT !.bs = [n \in DOMAIN c.bs |->
     IF n = b THEN [c.bs[n] EXCEPT !.fun = "removed"] ELSE Forget(c.bs, n, b)]]

Convert(c, v, t) == IF t = I32 THEN Gen(c, "fptosi", I32, <<v>>) ELSE Gen(c, "sitofp", Float, <<v>>)

\* A value used as a condition is compared with zero of its type.
NonZero(c, v) == IF IsIntegerType(v.ty) THEN Gen(c, "icmp_ne0", Bit, <<v>>)
                                        ELSE Gen(c, "fcmp_ne0", Bit, <<v>>)

\* The return at the end of a function, and after a negative index.
DefaultRet(c) == IF cur_fun.ret = Void THEN Gen(c, "ret", Void, <<>>)
                                       ELSE Gen(c, "ret", Void, <<Const(cur_fun.ret)>>)

-----------------------------------------------------------------------------
(* Scope.                                                                  *)

\* push: map::insert does not overwrite.
Bind(sc, id, v) ==
  [sc EXCEPT ![Len(sc)] = [x \in DOMAIN @ \cup {id} |-> IF x \in DOMAIN @ THEN @[x] ELSE v]]

Find(sc, id) ==
  LET levels == {n \in DOMAIN sc : id \in DOMAIN sc[n]}
  IN IF levels = {} THEN None ELSE sc[Max(levels)][id]

-----------------------------------------------------------------------------
(* The visitor.                                                            *)

Visit(n) == [do |-> n.k, node |-> n]

Init == /\ prog \in Programs
        /\ todo = [n \in DOMAIN prog |-> Visit(prog[n])]
        /\ tmp_val = None
        /\ require_lvalue = FALSE
        /\ scope = <<Runtime>>
        /\ cur_fun = None
        /\ insert = 0
        /\ blocks = <<>>

Task     == Head(todo)
Doing(t) == todo # <<>> /\ Task.do = t
Then(ts) == todo' = ts \o Tail(todo)

\* The blocks, the insert point and tmp_val after c.
Built(c) == blocks' = c.bs /\ insert' = c.at /\ tmp_val' = c.v

\* The same where tmp_val stays.
BuiltOnly(c) == blocks' = c.bs /\ insert' = c.at /\ UNCHANGED tmp_val

ElementType(d) == IF d.ty = "int" THEN I32 ELSE Float
VarType(d)     == IF d.array THEN Arr(ElementType(d)) ELSE ElementType(d)
ParamType(d)   == IF d.array THEN Ptr(ElementType(d)) ELSE ElementType(d)
Alloca(c, t, d) == Gen(c, "alloca", Ptr(t), <<Value(t, <<"decl", d>>)>>)

VarDeclaration ==
  /\ Doing("var-declaration")
  /\ LET d == Task.node
         c == Alloca(Here, VarType(d), d.decl)
     IN IF Len(scope) = 1
        THEN /\ scope' = Bind(scope, d.id, Value(Ptr(VarType(d)), <<"global", d.decl>>))
             /\ UNCHANGED <<blocks, insert, tmp_val>>
        ELSE /\ scope' = Bind(scope, d.id, c.v)
             /\ BuiltOnly(c)
  /\ Then(<<>>)
  /\ UNCHANGED <<prog, require_lvalue, cur_fun>>

\* Mutant of FunDeclaration: void is taken for float, as it is for variables.
FunDeclarationAsVariable ==
  /\ Doing("fun-declaration")
  /\ LET d    == Task.node
         ret  == IF d.ret = "int" THEN I32 ELSE Float
         fun  == Fun(d.id, ret, [n \in DOMAIN d.params |-> ParamType(d.params[n])])
         b    == Len(blocks) + 1
         c0   == [bs |-> Append(blocks, NewBlock(d.id)), at |-> b, v |-> tmp_val]
     IN /\ cur_fun' = fun
        /\ scope' = Append(Bind(scope, d.id, fun), <<>>)
        /\ BuiltOnly(c0)
        /\ Then(<<[do |-> "parameters", node |-> d, done |-> 0], Visit(d.body), [do |-> "end-of-function"]>>)
  /\ UNCHANGED <<prog, require_lvalue>>

\* The parameters get a scope of their own, around that of the body.
FunDeclaration ==
  /\ Doing("fun-declaration")
  /\ LET d    == Task.node
         ret  == IF d.ret = "void" THEN Void ELSE IF d.ret = "int" THEN I32 ELSE Float
         fun  == Fun(d.id, ret, [n \in DOMAIN d.params |-> ParamType(d.params[n])])
         b    == Len(blocks) + 1
         c0   == [bs |-> Append(blocks, NewBlock(d.id)), at |-> b, v |-> tmp_val]
     IN /\ cur_fun' = fun
        /\ scope' = Append(Bind(scope, d.id, fun), <<>>)
        /\ BuiltOnly(c0)
        /\ Then(<<[do |-> "parameters", node |-> d, done |-> 0], Visit(d.body), [do |-> "end-of-function"]>>)
  /\ UNCHANGED <<prog, require_lvalue>>

\* The next argument gets a variable of its own.
Parameter ==
  /\ Doing("parameters")
  /\ LET n == Task.done + 1
         p == Task.node.params[n]
         c == Alloca(Here, ParamType(p), p.decl)
     IN IF Task.done = Len(Task.node.params) THEN Then(<<>>) /\ UNCHANGED <<scope, blocks, insert, tmp_val>>
        ELSE /\ BuiltOnly(Gen(c, "store", Void, <<Value(ParamType(p), <<"arg", n>>), c.v>>))
             /\ scope' = Bind(scope, p.id, c.v)
             /\ Then(<<[Task EXCEPT !.done = n]>>)
  /\ UNCHANGED <<prog, require_lvalue, cur_fun>>

\* Mutant of EndFunction: the scope of the body is left here as well.
EndFunctionTwice ==
  /\ Doing("end-of-function")
  /\ scope' = Front(Front(scope))
  /\ BuiltOnly(IF Terminated(blocks, insert) THEN Here ELSE DefaultRet(Here))
  /\ Then(<<>>)
  /\ UNCHANGED <<prog, require_lvalue, cur_fun>>

EndFunction ==
  /\ Doing("end-of-function")
  /\ scope' = Front(scope)
  /\ BuiltOnly(IF Terminated(blocks, insert) THEN Here ELSE DefaultRet(Here))
  /\ Then(<<>>)
  /\ UNCHANGED <<prog, require_lvalue, cur_fun>>

\* pre_enter_scope is never set, so that every compound statement enters a scope.
CompoundStmt ==
  /\ Doing("compound-stmt")
  /\ scope' = Append(scope, <<>>)
  /\ Then([n \in DOMAIN Task.node.decls |-> Visit(Task.node.decls[n])]
          \o <<[do |-> "statement-list", rest |-> Task.node.stmts], [do |-> "end-of-compound"]>>)
  /\ UNCHANGED <<prog, tmp_val, require_lvalue, cur_fun, insert, blocks>>

NextStatement ==
  /\ Doing("statement-list")
  /\ IF Task.rest = <<>> THEN Then(<<>>)
     ELSE Then(<<Visit(Head(Task.rest)), [do |-> "after-statement", rest |-> Tail(Task.rest)]>>)
  /\ UNCHANGED <<prog, tmp_val, require_lvalue, scope, cur_fun, insert, blocks>>

\* Mutant of AfterStatement: what follows a return is visited.
AfterStatementGoesOn ==
  /\ Doing("after-statement")
  /\ Then(<<[do |-> "statement-list", rest |-> Task.rest]>>)
  /\ UNCHANGED <<prog, tmp_val, require_lvalue, scope, cur_fun, insert, blocks>>

\* What follows a statement that terminates the block is not visited.
AfterStatement ==
  /\ Doing("after-statement")
  /\ IF Terminated(blocks, insert) THEN Then(<<>>)
     ELSE Then(<<[do |-> "statement-list", rest |-> Task.rest]>>)
  /\ UNCHANGED <<prog, tmp_val, require_lvalue, scope, cur_fun, insert, blocks>>

\* Mutant of EndCompound: the scope is only left at the end of the statements.
EndCompoundUnlessReturn ==
  /\ Doing("end-of-compound")
  /\ scope' = IF Terminated(blocks, insert) THEN scope ELSE Front(scope)
  /\ Then(<<>>)
  /\ UNCHANGED <<prog, tmp_val, require_lvalue, cur_fun, insert, blocks>>

EndCompound ==
  /\ Doing("end-of-compound")
  /\ scope' = Front(scope)
  /\ Then(<<>>)
  /\ UNCHANGED <<prog, tmp_val, require_lvalue, cur_fun, insert, blocks>>

ExpressionStmt ==
  /\ Doing("expression-stmt")
  /\ Then(IF Task.node.e = None THEN <<>> ELSE <<Visit(Task.node.e)>>)
  /\ UNCHANGED <<prog, tmp_val, require_lvalue, scope, cur_fun, insert, blocks>>

SelectionStmt ==
  /\ Doing("selection-stmt")
  /\ Then(<<Visit(Task.node.e), [do |-> "if", node |-> Task.node]>>)
  /\ UNCHANGED <<prog, tmp_val, require_lvalue, scope, cur_fun, insert, blocks>>

\* trueBB, falseBB and contBB are created and branched to.
SelectionBranch ==
  /\ Doing("if")
  /\ LET trueBB == Len(blocks) + 1   falseBB == Len(blocks) + 2   contBB == Len(blocks) + 3
         hasElse == Task.node.else # None
         c == NonZero(Created(Created(Created(Here))), tmp_val)
     IN /\ BuiltOnly(At(CondBr(c, c.v, trueBB, IF hasElse THEN falseBB ELSE contBB), trueBB))
        /\ Then(<<Visit(Task.node.then),
                  [do |-> "end-of-if", node |-> Task.node, falseBB |-> falseBB, contBB |-> contBB]>>)
  /\ UNCHANGED <<prog, require_lvalue, scope, cur_fun>>

EndIf ==
  /\ Doing("end-of-if")
  /\ LET c == BrUnlessTerminated(Here, Task.contBB)
     IN IF Task.node.else = None
        THEN /\ BuiltOnly(At(Removed(c, Task.falseBB), Task.contBB))
             /\ Then(<<>>)
        ELSE /\ BuiltOnly(At(c, Task.falseBB))
             /\ Then(<<Visit(Task.node.else), [do |-> "end-of-else", contBB |-> Task.contBB]>>)
  /\ UNCHANGED <<prog, require_lvalue, scope, cur_fun>>

EndElse ==
  /\ Doing("end-of-else")
  /\ BuiltOnly(At(BrUnlessTerminated(Here, Task.contBB), Task.contBB))
  /\ Then(<<>>)
  /\ UNCHANGED <<prog, require_lvalue, scope, cur_fun>>

IterationStmt ==
  /\ Doing("iteration-stmt")
  /\ LET exprBB == Len(blocks) + 1
     IN /\ BuiltOnly(At(BrUnlessTerminated(Created(Here), exprBB), exprBB))
        /\ Then(<<Visit(Task.node.e), [do |-> "while", node |-> Task.node, exprBB |-> exprBB]>>)
  /\ UNCHANGED <<prog, require_lvalue, scope, cur_fun>>

IterationBranch ==
  /\ Doing("while")
  /\ LET trueBB == Len(blocks) + 1   contBB == Len(blocks) + 2
         c == NonZero(Created(Created(Here)), tmp_val)
     IN /\ BuiltOnly(At(CondBr(c, c.v, trueBB, contBB), trueBB))
        /\ Then(<<Visit(Task.node.body),
                  [do |-> "end-of-while", exprBB |-> Task.exprBB, contBB |-> contBB]>>)
  /\ UNCHANGED <<prog, require_lvalue, scope, cur_fun>>

\* Mutant of EndWhile: the body goes on behind the loop.
EndWhileOnce ==
  /\ Doing("end-of-while")
  /\ BuiltOnly(At(BrUnlessTerminated(Here, Task.contBB), Task.contBB))
  /\ Then(<<>>)
  /\ UNCHANGED <<prog, require_lvalue, scope, cur_fun>>

EndWhile ==
  /\ Doing("end-of-while")
  /\ BuiltOnly(At(BrUnlessTerminated(Here, Task.exprBB), Task.contBB))
  /\ Then(<<>>)
  /\ UNCHANGED <<prog, require_lvalue, scope, cur_fun>>

ReturnStmt ==
  /\ Doing("return-stmt")
  /\ IF Task.node.e = None
     THEN BuiltOnly(Gen(Here, "ret", Void, <<>>)) /\ Then(<<>>)
     ELSE Then(<<Visit(Task.node.e), [do |-> "return-value"]>>) /\ UNCHANGED <<blocks, insert, tmp_val>>
  /\ UNCHANGED <<prog, require_lvalue, scope, cur_fun>>

ReturnValue ==
  /\ Doing("return-value")
  /\ LET c == IF tmp_val.ty = cur_fun.ret THEN Here ELSE Convert(Here, tmp_val, cur_fun.ret)
     IN Built([Gen(c, "ret", Void, <<c.v>>) EXCEPT !.v = c.v])
  /\ Then(<<>>)
  /\ UNCHANGED <<prog, require_lvalue, scope, cur_fun>>

-----------------------------------------------------------------------------
(* Expressions.                                                            *)

Num ==
  /\ Doing("num")
  /\ tmp_val' = Const(ElementType(Task.node))
  /\ Then(<<>>)
  /\ UNCHANGED <<prog, require_lvalue, scope, cur_fun, insert, blocks>>

\* A variable without index: its address, its value, or the start of an array.
\* The one check the builder makes of a program is the assertion that a name is bound.
Var ==
  /\ Doing("var") /\ Task.node.index = None
  /\ Find(scope, Task.node.id) # None
  /\ LET v == Find(scope, Task.node.id) IN
       Built(IF require_lvalue THEN [Here EXCEPT !.v = v]
             ELSE IF Head(Tail(v.ty)) = "arr" THEN Gen(Here, "gep", Ptr(Tail(Tail(v.ty))), <<v, Const(I32)>>)
             ELSE Gen(Here, "load", Tail(v.ty), <<v>>))
  /\ require_lvalue' = FALSE
  /\ Then(<<>>)
  /\ UNCHANGED <<prog, scope, cur_fun>>

\* Mutant of IndexedVar: the index is visited with the request for an address.
IndexedVarAsksOn ==
  /\ Doing("var") /\ Task.node.index # None
  /\ Find(scope, Task.node.id) # None
  /\ Then(<<Visit(Task.node.index),
            [do |-> "element", var |-> Find(scope, Task.node.id), lvalue |-> require_lvalue]>>)
  /\ UNCHANGED <<prog, tmp_val, require_lvalue, scope, cur_fun, insert, blocks>>

\* With an index: the request for an address is kept and does not reach the index.
IndexedVar ==
  /\ Doing("var") /\ Task.node.index # None
  /\ Find(scope, Task.node.id) # None
  /\ Then(<<Visit(Task.node.index),
            [do |-> "element", var |-> Find(scope, Task.node.id), lvalue |-> require_lvalue]>>)
  /\ require_lvalue' = FALSE
  /\ UNCHANGED <<prog, tmp_val, scope, cur_fun, insert, blocks>>

\* A negative index is reported in exceptBB; the access goes on in contBB.
Element ==
  /\ Doing("element")
  /\ LET exceptBB == Len(blocks) + 1   contBB == Len(blocks) + 2
         var  == Task.var
         c1   == Created(Created(Here))
         c2   == IF tmp_val.ty = Float THEN Convert(c1, tmp_val, I32) ELSE c1
         val  == c2.v
         c3   == Gen(c2, "icmp_lt0", Bit, <<val>>)
         c4   == At(CondBr(c3, c3.v, exceptBB, contBB), exceptBB)
         c5   == DefaultRet(Gen(c4, "call", Void, <<Find(scope, "neg_idx_except")>>))
         c6   == At(c5, contBB)
         kind == Head(Tail(var.ty))
         load == Gen(c6, "load", Tail(var.ty), <<var>>)
         ptr  == CASE kind = "ptr" -> Gen(load, "gep", load.v.ty, <<load.v, val>>)
                   [] kind = "arr" -> Gen(c6, "gep", Ptr(Tail(Tail(var.ty))), <<var, val>>)
                   [] OTHER        -> Gen(c6, "gep", var.ty, <<var, val>>)
     IN Built(IF Task.lvalue THEN ptr ELSE Gen(ptr, "load", Tail(ptr.v.ty), <<ptr.v>>))
  /\ Then(<<>>)
  /\ require_lvalue' = IF Task.lvalue THEN FALSE ELSE require_lvalue
  /\ UNCHANGED <<prog, scope, cur_fun>>

AssignExpression ==
  /\ Doing("assign")
  /\ Then(<<Visit(Task.node.e), [do |-> "assign-to", node |-> Task.node]>>)
  /\ UNCHANGED <<prog, tmp_val, require_lvalue, scope, cur_fun, insert, blocks>>

AssignTo ==
  /\ Doing("assign-to")
  /\ require_lvalue' = TRUE
  /\ Then(<<Visit(Task.node.var), [do |-> "store", result |-> tmp_val]>>)
  /\ UNCHANGED <<prog, tmp_val, scope, cur_fun, insert, blocks>>

AssignStore ==
  /\ Doing("store")
  /\ LET addr == tmp_val
         c    == IF Tail(addr.ty) = Task.result.ty THEN [Here EXCEPT !.v = Task.result]
                 ELSE Convert(Here, Task.result, IF Task.result.ty = I32 THEN Float ELSE I32)
     IN Built([Gen(c, "store", Void, <<c.v, addr>>) EXCEPT !.v = c.v])
  /\ Then(<<>>)
  /\ UNCHANGED <<prog, require_lvalue, scope, cur_fun>>

Binary ==
  /\ Doing("binary")
  /\ Then(<<Visit(Task.node.l), [do |-> "right-operand", node |-> Task.node]>>)
  /\ UNCHANGED <<prog, tmp_val, require_lvalue, scope, cur_fun, insert, blocks>>

RightOperand ==
  /\ Doing("right-operand")
  /\ Then(<<Visit(Task.node.r), [do |-> "operate", op |-> Task.node.op, l_val |-> tmp_val]>>)
  /\ UNCHANGED <<prog, tmp_val, require_lvalue, scope, cur_fun, insert, blocks>>

\* Operands of different types are promoted to float; a comparison is an int.
Operate ==
  /\ Doing("operate")
  /\ LET l == Task.l_val   r == tmp_val
         is_int == l.ty = r.ty /\ IsIntegerType(l.ty)
         cl == IF l.ty # r.ty /\ IsIntegerType(l.ty) THEN Convert(Here, l, Float) ELSE [Here EXCEPT !.v = l]
         cr == IF l.ty # r.ty /\ ~IsIntegerType(l.ty) THEN Convert(cl, r, Float) ELSE [cl EXCEPT !.v = r]
         c  == Gen(cr, Task.op, IF Task.op \in Relops THEN Bit ELSE IF is_int THEN I32 ELSE Float,
                   <<cl.v, cr.v>>)
     IN Built(IF Task.op \in Relops THEN Gen(c, "zext", I32, <<c.v>>) ELSE c)
  /\ Then(<<>>)
  /\ UNCHANGED <<prog, require_lvalue, scope, cur_fun>>

CallExpression ==
  /\ Doing("call")
  /\ Then(<<[do |-> "args", fun |-> Find(scope, Task.node.id), rest |-> Task.node.args, done |-> <<>>]>>)
  /\ UNCHANGED <<prog, tmp_val, require_lvalue, scope, cur_fun, insert, blocks>>

NextArg ==
  /\ Doing("args") /\ Task.rest # <<>>
  /\ Then(<<Visit(Head(Task.rest)), [Task EXCEPT !.do = "arg"]>>)
  /\ UNCHANGED <<prog, tmp_val, require_lvalue, scope, cur_fun, insert, blocks>>

\* An argument is converted to the type of its parameter, unless it is a pointer.
Arg ==
  /\ Doing("arg")
  /\ LET param == Task.fun.params[Len(Task.done) + 1]
         c     == IF ~IsPointerType(tmp_val.ty) /\ param # tmp_val.ty
                  THEN Convert(Here, tmp_val, IF IsIntegerType(tmp_val.ty) THEN Float ELSE I32)
                  ELSE Here
     IN /\ Built(c)
        /\ Then(<<[Task EXCEPT !.do = "args", !.rest = Tail(@), !.done = Append(@, c.v)]>>)
  /\ UNCHANGED <<prog, require_lvalue, scope, cur_fun>>

MakeCall ==
  /\ Doing("args") /\ Task.rest = <<>>
  /\ Built(Gen(Here, "call", Task.fun.ret, <<Task.fun>> \o Task.done))
  /\ Then(<<>>)
  /\ UNCHANGED <<prog, require_lvalue, scope, cur_fun>>

Next == \/ VarDeclaration \/ FunDeclaration \/ Parameter \/ EndFunction
        \/ CompoundStmt \/ NextStatement \/ AfterStatement \/ EndCompound \/ ExpressionStmt
        \/ SelectionStmt \/ SelectionBranch \/ EndIf \/ EndElse
        \/ IterationStmt \/ IterationBranch \/ EndWhile \/ ReturnStmt \/ ReturnValue
        \/ Num \/ Var \/ IndexedVar \/ Element \/ AssignExpression \/ AssignTo \/ AssignStore
        \/ Binary \/ RightOperand \/ Operate \/ CallExpression \/ NextArg \/ Arg \/ MakeCall

Spec == Init /\ [][Next]_vars

-----------------------------------------------------------------------------
(* Properties.                                                             *)

\* Type invariant: todo, scope and blocks have their shapes, the insert point is one
\* of the blocks, and the scope of the program is never left.
TypeOK ==
  /\ \A n \in DOMAIN todo : "do" \in DOMAIN todo[n]
  /\ tmp_val = None \/ Len(tmp_val.ty) > 0
  /\ require_lvalue \in BOOLEAN
  /\ \A n \in DOMAIN scope : \A id \in DOMAIN scope[n] : Len(scope[n][id].ty) > 0
  /\ Len(scope) >= 1
  /\ insert \in 0 .. Len(blocks)
  /\ \A b \in DOMAIN blocks : Range(blocks[b].pre \o blocks[b].succ) \subseteq DOMAIN blocks

\* The scopes entered are those of the function and of the compound statements whose
\* visit has not ended, however the statements in them were cut short by a return;
\* and a request for an address is only there while an assignment waits for it.
ScopesMatch ==
  /\ Len(scope) = 1 + Cardinality({n \in DOMAIN todo : todo[n].do \in {"end-of-function", "end-of-compound"}})
  /\ require_lvalue => Doing("var") /\ Len(todo) > 1 /\ todo[2].do = "store"

Code(b)    == blocks[b].code
InUse      == {b \in DOMAIN blocks : blocks[b].fun # "removed"}
Targets(i) == {i.args[n].ref[2] : n \in {m \in DOMAIN i.args : i.args[m].ty = Label}}
Count(q, x) == Cardinality({n \in DOMAIN q : q[n] = x})

\* Nothing is ever appended to a block behind its terminator, whatever returns the
\* statements in progress have met; the lists of predecessors and successors tell
\* exactly the edges of the branches; and in the end every block that is left has a
\* terminator and branches only to blocks of its own function.
WellFormed ==
  /\ \A b \in DOMAIN blocks : \A n \in 1 .. Len(Code(b)) - 1 : Code(b)[n].op \notin {"ret", "br"}
  /\ \A b, c \in DOMAIN blocks :
       /\ Count(blocks[b].succ, c) = Count(blocks[c].pre, b)
       /\ c \in Range(blocks[b].succ) <=> Terminated(blocks, b) /\ c \in Targets(Last(Code(b)))
  /\ todo = <<>> =>
       \A b \in InUse : /\ Terminated(blocks, b)
                        /\ \A c \in Targets(Last(Code(b))) : blocks[c].fun = blocks[b].fun

\* The declaration of function id in program p.
Signature(p, id) == p[CHOOSE n \in DOMAIN p : p[n].k = "fun-declaration" /\ p[n].id = id]

\* What the instruction set asks of the types of an instruction's operands, in function d.
RightTypes(i, d) ==
  LET ty(n) == i.args[n].ty
      ret   == IF d.ret = "void" THEN <<>> ELSE IF d.ret = "int" THEN <<I32>> ELSE <<Float>>
  IN CASE i.op = "alloca"   -> TRUE
       [] i.op = "store"    -> ty(2) = Ptr(ty(1))
       [] i.op = "load"     -> ty(1) = Ptr(i.ty)
       [] i.op = "gep"      -> ty(2) = I32 /\ (ty(1) = i.ty \/ ty(1) = Ptr(Arr(Tail(i.ty))))
       [] i.op = "icmp_ne0" -> IsIntegerType(ty(1))
       [] i.op = "fcmp_ne0" -> ty(1) = Float
       [] i.op = "icmp_lt0" -> ty(1) = I32
       [] i.op = "zext"     -> ty(1) = Bit
       [] i.op = "fptosi"   -> ty(1) = Float
       [] i.op = "sitofp"   -> ty(1) = I32
       [] i.op = "br"       -> Len(i.args) = 3 => ty(1) = Bit
       [] i.op = "ret"      -> [n \in DOMAIN i.args |-> ty(n)] = ret
       [] i.op = "call"     -> [n \in 1 .. Len(i.args) - 1 |-> ty(n + 1)] = i.args[1].params
       [] OTHER             -> /\ ty(1) = ty(2) /\ ty(1) \in {I32, Float}
                               /\ i.ty = (IF i.op \in Relops THEN Bit ELSE ty(1))

\* Every instruction gets operands of the types the instruction set asks for: each
\* of the five conversions the language has is made where it is needed, and a
\* request for an address never reaches the index or another operand.
TypesAgree ==
  \A b \in InUse : \A n \in DOMAIN Code(b) : RightTypes(Code(b)[n], Signature(prog, blocks[b].fun))

-----------------------------------------------------------------------------
(* What the builder takes for granted of its programs.                     *)

Numbers == {I32, Float}

IsFunction(v) == v # None /\ v.ty = <<"fun">>
IsVariable(v) == v # None /\ v.ty # <<"fun">>

\* The types the value of an expression may have: an array without index is a pointer.
TypesOf(sc, e) ==
  IF e.k = "var" /\ e.index = None /\ Tail(Find(sc, e.id).ty) \notin Numbers
  THEN {Ptr(Tail(Tail(Find(sc, e.id).ty)))}
  ELSE IF e.k = "call" /\ Find(sc, e.id).ret = Void THEN {Void} ELSE Numbers

IsNumber(sc, e) == TypesOf(sc, e) \subseteq Numbers

\* A number is converted where it has to be, a pointer is not.
Accepted(param)    == IF param \in Numbers THEN Numbers ELSE {param}
Fits(sc, e, param) == TypesOf(sc, e) \subseteq Accepted(param)

LegalVisit(sc, ret, n) ==
  /\ n.k = "var"    => IsVariable(Find(sc, n.id)) /\ (n.index # None => IsNumber(sc, n.index))
  /\ n.k = "assign" => IsNumber(sc, n.e) /\ IsNumber(sc, n.var)
  /\ n.k = "binary" => IsNumber(sc, n.l) /\ IsNumber(sc, n.r)
  /\ n.k = "call"   => LET fun == Find(sc, n.id)
                       IN /\ IsFunction(fun) /\ Len(n.args) = Len(fun.params)
                          /\ \A m \in DOMAIN n.args : Fits(sc, n.args[m], fun.params[m])
  /\ n.k \in {"selection-stmt", "iteration-stmt"} => IsNumber(sc, n.e)
  /\ n.k = "return-stmt" => IF ret = Void THEN n.e = None ELSE n.e # None /\ IsNumber(sc, n.e)

\* The program means something: no function is declared twice, and every name is bound
\* where it is used, a variable's to a variable and a function's to a function whose
\* parameters the arguments fit; operands, conditions and what is assigned or returned
\* are numbers.  The builder asserts that the name of a variable is bound and checks
\* nothing else.  That it finds a program to be so says that it binds and forgets names
\* as the blocks of the program do.
Legal ==
  /\ \A m, n \in DOMAIN prog :
       prog[m].k = "fun-declaration" /\ prog[n].k = "fun-declaration" /\ prog[m].id = prog[n].id => m = n
  /\ todo # <<>> /\ Task.do \in ExpressionKinds \cup StatementKinds => LegalVisit(scope, cur_fun.ret, Task.node)
=============================================================================
