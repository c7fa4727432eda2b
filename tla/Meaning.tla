------------------------------ MODULE Meaning -------------------------------
(***************************************************************************)
(* What a function does along one path, according to its syntax tree and   *)
(* according to the blocks the builder has made of it: the sequence of its *)
(* stores, calls, tests and its return.  A path is given by the outcomes   *)
(* of its tests.  A value is the term it is computed by; a conversion      *)
(* leaves its operand as it is, and a load is marked with the number of    *)
(* stores and calls before it.                                             *)
(*                                                                         *)
(* The meaning of the tree follows Documentations/common/cminusf.md: the   *)
(* parameters of a function are in the scope of its body (line 83).  Which *)
(* of the two sides of an assignment comes first (line 136) is a parameter *)
(* of it, first.                                                           *)
(***************************************************************************)
EXTENDS Builder

CONSTANT Tests  \* bound: the number of tests a path is followed through

Outcomes == [1 .. Tests -> BOOLEAN]

Start(outcomes, ret, first) == [ev |-> <<>>, ch |-> outcomes, stop |-> FALSE, ret |-> ret, first |-> first]

Event(s, e) == IF s.stop THEN s ELSE [s EXCEPT !.ev = Append(@, e)]
Return(s, v) == [Event(s, <<"ret", v>>) EXCEPT !.stop = TRUE]

\* A test takes the next outcome; without one the path ends here.
Test(s, v) ==
  IF s.stop \/ s.ch = <<>> THEN [s |-> [s EXCEPT !.stop = TRUE], taken |-> FALSE]
  ELSE [s |-> [Event(s, <<"test", v>>) EXCEPT !.ch = Tail(@)], taken |-> Head(s.ch)]

\* The number of events that may have changed what a load reads.
Writes(s) == Len(SelectSeq(s.ev, LAMBDA e : e[1] \in {"store", "call"}))

Default(ret) == IF ret = "void" THEN <<>> ELSE <<(<<"const", ElementType([ty |-> ret])>>)>>

-----------------------------------------------------------------------------
(* By the syntax tree.  env maps a name to its declaration.                *)

RECURSIVE Address(_, _, _), Eval(_, _, _), Exec(_, _, _)

Address(var, env, s) ==
  LET d == env[var.id]
      i == Eval(var.index, env, s)
      t == Test(i.s, <<"lt0", i.v>>)
      base == IF d.pointer THEN <<"load", <<"decl", d.decl>>, Writes(t.s)>> ELSE <<"decl", d.decl>>
  IN IF var.index = None THEN [s |-> s, v |-> <<"decl", d.decl>>]
     ELSE [s |-> IF t.taken THEN Return(Event(t.s, <<"call", "neg_idx_except", <<>>>>), Default(s.ret))
                 ELSE t.s,
           v |-> <<"elem", base, i.v>>]

Eval(e, env, s) ==
  CASE e.k = "num" -> [s |-> s, v |-> <<"const", ElementType(e)>>]
    [] e.k = "var" ->
         LET a == Address(e, env, s)
         IN IF e.index = None /\ env[e.id].array
            THEN [a EXCEPT !.v = <<"elem", @, <<"const", I32>>>>]
            ELSE [a EXCEPT !.v = <<"load", @, Writes(a.s)>>]
    [] e.k = "assign" ->
         IF s.first = "address"
         THEN LET a == Address(e.var, env, s)   v == Eval(e.e, env, a.s)
              IN [s |-> Event(v.s, <<"store", a.v, v.v>>), v |-> v.v]
         ELSE LET v == Eval(e.e, env, s)   a == Address(e.var, env, v.s)
              IN [s |-> Event(a.s, <<"store", a.v, v.v>>), v |-> v.v]
    [] e.k = "binary" ->
         LET l == Eval(e.l, env, s)   r == Eval(e.r, env, l.s) IN [s |-> r.s, v |-> <<e.op, l.v, r.v>>]
    [] e.k = "call" ->
         LET arg(acc, x) == LET a == Eval(x, env, acc.s) IN [s |-> a.s, args |-> Append(acc.args, a.v)]
             all == FoldLeft(arg, [s |-> s, args |-> <<>>], e.args)
             res == Event(all.s, <<"call", e.id, all.args>>)
         IN [s |-> res, v |-> <<"result", Len(res.ev)>>]

\* The names of one scope with declarations ds added, the first of a name counts.
Declared(names, ds, isParam) ==
  LET add(acc, d) == acc @@ d.id :> [decl |-> d.decl, pointer |-> isParam /\ d.array,
                                     array |-> ~isParam /\ d.array]
  IN FoldLeft(add, names, ds)

Exec(st, env, s) ==
  IF s.stop THEN s ELSE
  CASE st.k = "expression-stmt" -> IF st.e = None THEN s ELSE Eval(st.e, env, s).s
    [] st.k = "compound-stmt" ->
         LET inner == Declared(<<>>, st.decls, FALSE) @@ env
             step(acc, x) == Exec(x, inner, acc)
         IN FoldLeft(step, s, st.stmts)
    [] st.k = "selection-stmt" ->
         LET c == Eval(st.e, env, s)   t == Test(c.s, <<"ne0", c.v>>)
         IN IF t.taken THEN Exec(st.then, env, t.s)
            ELSE IF st.else = None THEN t.s ELSE Exec(st.else, env, t.s)
    [] st.k = "iteration-stmt" ->
         LET c == Eval(st.e, env, s)   t == Test(c.s, <<"ne0", c.v>>)
         IN IF t.taken THEN Exec(st, env, Exec(st.body, env, t.s)) ELSE t.s
    [] st.k = "return-stmt" ->
         LET v == Eval(st.e, env, s)
         IN IF st.e = None THEN Return(s, <<>>) ELSE Return(v.s, <<v.v>>)

\* The function declared at position n of the program.
TreeTrace(n, outcomes, first) ==
  LET f       == prog[n]
      globals == SelectSeq(SubSeq(prog, 1, n - 1), LAMBDA d : d.k = "var-declaration")
      own     == Declared(Declared(<<>>, f.params, TRUE), f.body.decls, FALSE)
      env     == own @@ Declared(<<>>, globals, FALSE)
      enter(s, m) == Event(s, <<"store", <<"decl", f.params[m].decl>>, <<"arg", m>>>>)
      s0      == FoldLeftDomain(enter, Start(outcomes, f.ret, first), f.params)
      step(s, st) == Exec(st, env, s)
  IN Return(FoldLeft(step, s0, f.body.stmts), Default(f.ret)).ev

-----------------------------------------------------------------------------
(* By the blocks.  vals maps an instruction to the term of its value.      *)

Term(v, vals) ==
  CASE v.ref[1] = "global" -> <<"decl", v.ref[2]>>
    [] v.ref[1] = "inst"   -> IF Tail(v.ref) \in DOMAIN vals THEN vals[Tail(v.ref)] ELSE <<"undefined">>
    [] v.ref[1] = "fun"    -> v.ref[2]
    [] OTHER               -> v.ref

RECURSIVE RunBlock(_, _, _, _)
RunBlock(b, n, vals, s) ==
  IF s.stop THEN s
  ELSE IF n > Len(Code(b)) THEN Return(s, <<"no terminator">>)
  ELSE LET i    == Code(b)[n]
           t(m) == Term(i.args[m], vals)
           Go(v, next) == RunBlock(b, n + 1, (<<b, n>> :> v) @@ vals, next)
       IN CASE i.op = "store" -> Go(<<>>, Event(s, <<"store", t(2), t(1)>>))
            [] i.op = "load"  -> Go(<<"load", t(1), Writes(s)>>, s)
            [] i.op = "gep"   -> Go(<<"elem", t(1), t(2)>>, s)
            [] i.op \in {"alloca", "fptosi", "sitofp", "zext"} -> Go(t(1), s)
            [] i.op \in {"icmp_ne0", "fcmp_ne0"} -> Go(<<"ne0", t(1)>>, s)
            [] i.op = "icmp_lt0" -> Go(<<"lt0", t(1)>>, s)
            [] i.op = "call" -> LET next == Event(s, <<"call", t(1), [m \in 1 .. Len(i.args) - 1 |-> t(m + 1)]>>)
                                IN Go(<<"result", Len(next.ev)>>, next)
            [] i.op = "ret" -> Return(s, [m \in DOMAIN i.args |-> t(m)])
            [] i.op = "br"  -> IF Len(i.args) = 1 THEN RunBlock(i.args[1].ref[2], 1, vals, s)
                               ELSE LET c == Test(s, t(1))
                                    IN RunBlock(i.args[IF c.taken THEN 2 ELSE 3].ref[2], 1, vals, c.s)
            [] OTHER -> Go(<<i.op, t(1), t(2)>>, s)

BlockTrace(n, outcomes) ==
  LET own == {b \in InUse : blocks[b].fun = prog[n].id}
  IN RunBlock(CHOOSE b \in own : \A c \in own : b <= c, 1, <<>>, Start(outcomes, prog[n].ret, "none")).ev

Functions == {n \in DOMAIN prog : prog[n].k = "fun-declaration"}

-----------------------------------------------------------------------------

\* Along every path the blocks do what the syntax tree says, in the same order, with
\* the same values, to the variables the names stand for by static scoping.  Either
\* side of an assignment may come first, but the same one in the whole program.
SameBehaviour ==
  todo = <<>> => \E first \in {"address", "value"} :
                   \A n \in Functions : \A o \in Outcomes : BlockTrace(n, o) = TreeTrace(n, o, first)

\* cminusf.md:136: the variable's address is found first, its index evaluated with
\* it, and the right side of an assignment then.
AddressFirst ==
  todo = <<>> => \A n \in Functions : \A o \in Outcomes : BlockTrace(n, o) = TreeTrace(n, o, "address")
=============================================================================
