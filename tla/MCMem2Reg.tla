------------------------------ MODULE MCMem2Reg -----------------------------
(* Functions with the shapes the builder gives to if and while, in which the *)
(* entry block stores every variable.                                        *)
EXTENDS Mem2Reg, TLC

CONSTANTS e, p, q, r, s, t, u, v

MCConst == {1, 2, 3}

Load(w)        == [op |-> "load", var |-> w, arg |-> <<"none">>]
Store(w, val)  == [op |-> "store", var |-> w, arg |-> val]
Out(val)       == [op |-> "out", var |-> NoVar, arg |-> val]
C(c)           == <<"const", c>>
L(b, n)        == <<"load", b, n>>

Nothing        == <<>>
Assign(b, c)   == <<Store(u, C(c))>>
Copy(b)        == <<Load(v), Store(u, L(b, 1))>>
Swap(b)        == <<Load(u), Load(v), Store(u, L(b, 2)), Store(v, L(b, 1))>>
Use(b)         == <<Load(u), Out(L(b, 1))>>
Enter          == <<Store(u, C(1)), Store(v, C(2))>>
Menu(b)        == {Nothing, Assign(b, 3), Copy(b), Swap(b), Use(b)}

\* if (..) p else q; r
Diamond == [succ |-> (e :> <<p, q>> @@ p :> <<r>> @@ q :> <<r>> @@ r :> <<>> @@ s :> <<>> @@ t :> <<>>),
            body |-> {p, q}, last |-> r]
\* while (p) q; r
Loop    == [succ |-> (e :> <<p>> @@ p :> <<q, r>> @@ q :> <<p>> @@ r :> <<>> @@ s :> <<>> @@ t :> <<>>),
            body |-> {p, q}, last |-> r]
\* while (p) { q; if (..) s; t } r
LoopIf  == [succ |-> (e :> <<p>> @@ p :> <<q, r>> @@ q :> <<s, t>> @@ s :> <<t>> @@ t :> <<p>> @@ r :> <<>>),
            body |-> {q, s, t}, last |-> r]

MCPrograms ==
  UNION {{[succ |-> g.succ,
           code |-> [b \in Block |-> IF b = e THEN Enter
                                     ELSE IF b = g.last THEN Use(b)
                                     ELSE IF b \in g.body THEN f[b] ELSE Nothing]] :
            f \in {h \in [g.body -> UNION {Menu(b) : b \in g.body}] :
                     \A b \in g.body : h[b] \in Menu(b)}} :
         g \in {Diamond, Loop, LoopIf}}

\* if (..) { int v; v = 3; use v } else u = 2; use u -- v belongs to the block p
ScopedPrograms ==
  {[succ |-> Diamond.succ,
    code |-> [b \in Block |-> CASE b = e -> <<Store(u, C(1))>>
                                 [] b = p -> <<Store(v, C(3)), Load(v), Out(L(p, 2))>>
                                 [] b = q -> <<Store(u, C(2))>>
                                 [] b = r -> Use(r)
                                 [] OTHER -> Nothing]]}
=============================================================================
