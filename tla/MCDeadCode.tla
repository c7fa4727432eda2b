----------------------------- MODULE MCDeadCode -----------------------------
(* DeadCode on a main that calls f2, an f2 of three instructions with every  *)
(* operand graph of at most one operand each, and an f1 of one instruction.  *)
EXTENDS DeadCode, TLC

CONSTANTS f1, f2, main, a, b1, b2, b3, m

MCFuncSeq == <<f1, f2, main>>

CallF1 == [op |-> "call",  callee |-> f1]
CallF2 == [op |-> "call",  callee |-> f2]
Store  == [op |-> "store", callee |-> f1]
Load   == [op |-> "load",  callee |-> f1]
Phi    == [op |-> "value", callee |-> f1]
Ret    == [op |-> "ret",   callee |-> f1]

B == {b1, b2, b3}
Rank(i) == CASE i = b1 -> 1 [] i = b2 -> 2 [] i = b3 -> 3

\* What the body of f2 may be: a store has no value, and only a phi has an
\* operand that does not precede it.
Bodies ==
  {b \in {[kind |-> (b1 :> k1 @@ b2 :> k2 @@ b3 :> k3), ops |-> ops] :
             k1 \in {Load, Phi, CallF1, Store}, k2 \in {Phi, CallF1, Load},
             k3 \in {Ret, CallF2, Phi}, ops \in [B -> {{}} \cup {{i} : i \in B}]} :
     \A i \in B : \A d \in b.ops[i] : /\ b.kind[d] \notin {Store, Ret}
                                     /\ (b.kind[i] = Phi \/ Rank(d) < Rank(i))}

MCPrograms ==
  {[sig    |-> (f1 :> "scalar" @@ f2 :> "scalar" @@ main :> "main"),
    parent |-> (a :> f1 @@ b1 :> f2 @@ b2 :> f2 @@ b3 :> f2 @@ m :> main),
    op     |-> (a :> ka @@ m :> "call" @@ [i \in B |-> b.kind[i].op]),
    callee |-> (a :> f1 @@ m :> f2 @@ [i \in B |-> b.kind[i].callee]),
    addr   |-> (b1 :> <<"gep", "alloca">> @@ [i \in Inst |-> <<"global">>]),
    ops    |-> (a :> {} @@ m :> {} @@ b.ops)] :
      ka \in {"store", "load", "value"}, b \in Bodies}
=============================================================================
