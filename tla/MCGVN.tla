------------------------------- MODULE MCGVN --------------------------------
(* Every function of up to three instructions and a return, beside a         *)
(* declaration, with an integer argument a and a global variable g.          *)
EXTENDS GVN

CONSTANTS i1, i2, i3, i4, a, g

MCInstr  == {i1, i2, i3, i4}
MCValues == {a, g}
Order    == <<i1, i2, i3, i4>>

Earlier(k) == {Order[j] : j \in 1 .. k - 1}
Choices(k) ==
  LET V == {a} \cup Earlier(k)
      P == {g} \cup Earlier(k)
  IN {<<"add", <<v, w>>>> : v \in V, w \in V} \cup {<<"store", <<v, q>>>> : v \in V, q \in P}
     \cup {<<"load", <<q>>>> : q \in P} \cup {<<"alloca", <<>>>>, <<"call", <<>>>>}

Typed(c) ==
  LET IntOp(v) == v = a \/ \E k \in 1 .. 3 : Order[k] = v /\ c[k][1] \in {"add", "load", "call"}
      PtrOp(v) == v = g \/ \E k \in 1 .. 3 : Order[k] = v /\ c[k][1] = "alloca"
  IN \A k \in DOMAIN c : CASE c[k][1] = "add"   -> IntOp(c[k][2][1]) /\ IntOp(c[k][2][2])
                           [] c[k][1] = "store" -> IntOp(c[k][2][1]) /\ PtrOp(c[k][2][2])
                           [] c[k][1] = "load"  -> PtrOp(c[k][2][1])
                           [] c[k][1] = "ret"   -> IntOp(c[k][2][1])
                           [] OTHER             -> TRUE

Codes == {c \in {<<c1, c2, c3, <<"ret", <<v>>>>>> : c1 \in Choices(1), c2 \in Choices(2), c3 \in Choices(3),
                                                    v \in {a} \cup Earlier(4)} : Typed(c)}
Position == [x \in MCInstr |-> CHOOSE k \in 1 .. 4 : Order[k] = x]
Mod(bodies, c) == [body |-> bodies, op |-> [x \in MCInstr |-> c[Position[x]][1]],
                   operands |-> [x \in MCInstr |-> c[Position[x]][2]]]

MCModules == {Mod(<< <<>>, Order >>, c) : c \in Codes}
             \cup {Mod(<< <<>>, <<>> >>, c) : c \in {CHOOSE c \in Codes : TRUE}}
\* what DeadCode does: stores, calls, returns and what they need stay
Needed(mod) == {x \in MCInstr : \A S \in SUBSET MCInstr :
                  /\ {y \in MCInstr : mod.op[y] \in {"store", "call", "ret"}} \subseteq S
                  /\ \A y \in S : Range(mod.operands[y]) \cap MCInstr \subseteq S
                  => x \in S}
MCEliminated == [mod \in MCModules |->
  [f \in DOMAIN mod.body |-> LET Left(x) == x \in Needed(mod) IN SelectSeq(mod.body[f], Left)]]
=============================================================================
