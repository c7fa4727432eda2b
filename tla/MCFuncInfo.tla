----------------------------- MODULE MCFuncInfo -----------------------------
(* FuncInfo on every module of a small shape that the front end can build. *)
EXTENDS FuncInfo

CONSTANTS f1, f2, f3, f4, i1, i2, i3

MCFuncSeq == <<f1, f2, f3, f4>>

Rank(f) == CHOOSE n \in 1 .. Len(MCFuncSeq) : MCFuncSeq[n] = f

\* What an instruction can do: a call of a function, or an access to memory.
Acts == {[op |-> "call",  callee |-> g,  addr |-> <<"global">>] : g \in {f1, f2, f3}}
        \cup {[op |-> "store", callee |-> f1, addr |-> <<"gep", "alloca">>],
              [op |-> "load",  callee |-> f1, addr |-> <<"gep", "global">>]}

\* Only the first function may be a declaration, only the last one is main; a
\* function calls itself and functions declared before it; bodies are generated
\* in order.
MCPrograms ==
  {p \in {[sig    |-> s,
           parent |-> par,
           op     |-> [i \in Inst |-> a[i].op],
           callee |-> [i \in Inst |-> a[i].callee],
           addr   |-> [i \in Inst |-> a[i].addr]] :
             s   \in {[f \in Func |-> IF f = f1 THEN s1
                                      ELSE IF f = f4 THEN "main" ELSE "scalar"]
                        : s1 \in {"declaration", "array", "scalar"}},
             par \in [Inst -> Func],
             a   \in [Inst -> Acts]} :
     /\ Rank(p.parent[i1]) <= Rank(p.parent[i2])
     /\ Rank(p.parent[i2]) <= Rank(p.parent[i3])
     /\ \A i \in Inst : /\ p.sig[p.parent[i]] # "declaration"
                        /\ p.op[i] = "call" => Rank(p.callee[i]) <= Rank(p.parent[i])}
=============================================================================
