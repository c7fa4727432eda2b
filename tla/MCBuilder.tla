----------------------------- MODULE MCBuilder ------------------------------
(* Two families of programs: statements nested in each other around returns, *)
(* and expressions of mixed types in every position they can have.           *)
EXTENDS Meaning

Num_(ty)          == [k |-> "num", ty |-> ty]
V(id)             == [k |-> "var", id |-> id, index |-> None]
At_(id, e)        == [k |-> "var", id |-> id, index |-> e]
Set_(var, e)      == [k |-> "assign", var |-> var, e |-> e]
Bin(op, l, r)     == [k |-> "binary", op |-> op, l |-> l, r |-> r]
Call_(id, args)   == [k |-> "call", id |-> id, args |-> args]
Do(e)             == [k |-> "expression-stmt", e |-> e]
Block_(ds, ss)    == [k |-> "compound-stmt", decls |-> ds, stmts |-> ss]
If(e, s)          == [k |-> "selection-stmt", e |-> e, then |-> s, else |-> None]
IfElse(e, s1, s2) == [k |-> "selection-stmt", e |-> e, then |-> s1, else |-> s2]
While(e, s)       == [k |-> "iteration-stmt", e |-> e, body |-> s]
Ret(e)            == [k |-> "return-stmt", e |-> e]
Decl(id, ty, array, decl) ==
  [k |-> "var-declaration", id |-> id, ty |-> ty, array |-> array, decl |-> decl]
Param(id, ty, array, decl) == [id |-> id, ty |-> ty, array |-> array, decl |-> decl]
Define(id, ret, params, body) ==
  [k |-> "fun-declaration", id |-> id, ret |-> ret, params |-> params, body |-> body]

-----------------------------------------------------------------------------
\* int u;  T f(void) { s; output(u); }  where an inner block may declare u again, twice

Out   == Do(Call_("output", <<V("u")>>))
Atoms(ret) == {Do(Set_(V("u"), Num_("int"))), Ret(IF ret = "void" THEN None ELSE V("u")),
               Block_(<<Decl("u", "float", FALSE, "inner u"), Decl("u", "int", FALSE, "second u")>>,
                      <<Do(Set_(V("u"), Num_("int")))>>)}
Nested(S, T) == {If(V("u"), s) : s \in S} \cup {While(V("u"), s) : s \in S}
                \cup {IfElse(V("u"), s, t) : s \in S, t \in T}
Level1(ret)  == Atoms(ret) \cup Nested(Atoms(ret), Atoms(ret))
                \cup {Block_(<<>>, <<s, t>>) : s \in Atoms(ret), t \in Atoms(ret)}

StatementPrograms ==
  {<<Decl("u", "int", FALSE, "u"), Define("f", ret, <<>>, Block_(<<>>, <<s, Out>>))>> :
     ret \in {"int"}, s \in Level1("int") \cup Nested(Level1("int"), Atoms("int"))}
  \cup
  {<<Decl("u", "int", FALSE, "u"), Define("f", "void", <<>>, Block_(<<>>, <<s, Out, Do(None)>>))>> :
     s \in Level1("void")}

-----------------------------------------------------------------------------
\* int ga[..]; float h; int p(int x, float y, int z[], float w[]) { return y; }
\* float f(int a, float b, int c[], float d[]) { int k[..]; float m; s; }

Ints   == {V("a"), At_("c", V("b")), At_("k", Num_("int"))}
Floats == {V("b"), At_("d", V("a")), V("h")}
Arrays == {"c", "k", "ga"}
Exprs  == Ints \cup Floats
          \cup {Bin(op, l, r) : op \in {"<", "+"}, l \in {V("a"), V("b")}, r \in {V("a"), V("b")}}
          \cup {Set_(V("a"), V("b")), At_("d", At_("c", V("h"))), At_("ga", Set_(V("m"), V("a")))}
Pairs  == {<<l, r>> \in Exprs \X Exprs : l \in Ints \cup {V("h"), Set_(V("a"), V("b"))}}

Expressions ==
  {Set_(V(id), e) : id \in {"a", "m"}, e \in Exprs}
  \cup {Set_(At_(id, i), e) : id \in {"c", "d", "k"}, i \in {V("a"), V("b"), At_("c", V("b"))}, e \in Exprs}
  \cup {Bin(op, q[1], q[2]) : op \in {"*", "=="}, q \in Pairs}
  \cup {Call_("p", <<q[1], q[2], V(z), V("d")>>) : z \in Arrays, q \in {<<V("a"), V("b")>>}}
  \cup {Call_("p", <<q[1], q[2], V("k"), V("d")>>) : q \in Pairs}
  \cup {Call_("input", <<>>)}

ExpressionProgram(ret, s) ==
  <<Decl("ga", "int", TRUE, "ga"), Decl("h", "float", FALSE, "h"),
    Define("p", "int", <<Param("x", "int", FALSE, "x"), Param("y", "float", FALSE, "y"),
                         Param("z", "int", TRUE, "z"), Param("w", "float", TRUE, "w")>>,
           Block_(<<>>, <<Ret(V("y"))>>)),
    Define("f", ret, <<Param("a", "int", FALSE, "a"), Param("b", "float", FALSE, "b"),
                       Param("c", "int", TRUE, "c"), Param("d", "float", TRUE, "d")>>,
           Block_(<<Decl("k", "int", TRUE, "k"), Decl("m", "float", FALSE, "m")>>, <<s>>))>>

ExpressionPrograms ==
  {ExpressionProgram("float", Ret(e)) : e \in Expressions}
  \cup {ExpressionProgram("int", Ret(e)) : e \in Exprs}
  \cup {ExpressionProgram("void", While(e, Do(e))) : e \in Exprs}
  \cup {ExpressionProgram("void", If(e, Ret(None))) : e \in Exprs}

\* x[a] = (a = b), where the two sides may not change places.
OrderPrograms ==
  {ExpressionProgram("float", Ret(Set_(At_(id, V("a")), Set_(V("a"), V("b"))))) : id \in {"c", "d", "k"}}

MCPrograms == StatementPrograms \cup ExpressionPrograms

\* The nodes of the trees, by their height, which is at most 12.
ChildrenOf(n) ==
  CASE n.k = "var"             -> {n.index}
    [] n.k = "assign"          -> {n.var, n.e}
    [] n.k = "binary"          -> {n.l, n.r}
    [] n.k = "call"            -> Range(n.args)
    [] n.k \in {"expression-stmt", "return-stmt"} -> {n.e}
    [] n.k = "compound-stmt"   -> Range(n.decls) \cup Range(n.stmts)
    [] n.k = "selection-stmt"  -> {n.e, n.then, n.else}
    [] n.k = "iteration-stmt"  -> {n.e, n.body}
    [] n.k = "fun-declaration" -> {n.body}
    [] OTHER                   -> {}

MCNodes ==
  LET down[d \in 0 .. 12] == IF d = 0 THEN UNION {Range(p) : p \in MCPrograms}
                             ELSE UNION {ChildrenOf(n) : n \in down[d - 1]} \ {None}
  IN UNION {down[d] : d \in 0 .. 12}
=============================================================================
