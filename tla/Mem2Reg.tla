------------------------------ MODULE Mem2Reg -------------------------------
(***************************************************************************)
(* The pass Mem2Reg (src/optimization/Mem2Reg.cpp) on one function: phis   *)
(* are inserted at the iterated dominance frontiers of the stores, a walk  *)
(* over the dominator tree replaces loads by the value on top of the stack *)
(* of their variable and fills in the phis, and the variables' allocas are *)
(* erased.  The results of the pass Dominators, which Mem2Reg runs first,  *)
(* are taken from their definitions (module Dominance); module Dominators  *)
(* shows that the pass computes them.                                      *)
(*                                                                         *)
(* A value is a tuple: <<"const", c>>, <<"load", b, n>> for the load at    *)
(* position n of block b, <<"phi", b, v>> for the phi of variable v at the *)
(* head of b, or Garbage, what back() of an empty vector yields.           *)
(*                                                                         *)
(* When the pass is done, the function as it was and as it is now are run  *)
(* side by side along any path (Execute): this part is not code, it is     *)
(* what the result is compared with.                                       *)
(***************************************************************************)
EXTENDS Dominance, FiniteSets

CONSTANTS Var,       \* the scalar variables, each an alloca of the function
          Const,     \* the constants the function stores
          Programs   \* the functions the pass may be run on

ASSUME BlockAssumption == IsFiniteSet(Block) /\ Entry \in Block

VARIABLES prog,     \* the function before the pass
          df, tree, \* dominance frontiers and dominator tree
          todo,     \* the variables generate_phi has still to treat
          work,     \* the current variable and its work list
          phis,     \* phis[b]: the variables with a phi in b
          args,     \* args[b][v]: the operand pairs of that phi
          operand,  \* operand[b][n]: the value the n-th instruction of b uses now
          erased,   \* the instructions erased from their block
          keys,     \* the keys of var_val_stack
          stacks,   \* the vectors of var_val_stack
          calls,    \* the calls of re_name in progress
          phase,    \* where run() is
          at,       \* execution: the next instruction
          mem,      \* execution: the memory of the function before the pass
          env       \* execution: the values computed

passvars == <<df, tree, todo, work, phis, args, operand, erased, keys, stacks, calls>>
execvars == <<at, mem, env>>
vars     == <<prog, passvars, phase, execvars>>

Garbage == <<"garbage">>
Uninit  == <<"uninit">>
NoVar   == <<"none">>

\* The instruction at i = <<block, position>> is executed before that at j on every
\* path to j.
Above(p, i, j) == IF i[1] = j[1] THEN i[2] < j[2] ELSE Dominates(p.succ, i[1], j[1])

\* p.succ are the successor lists; p.code[b] is the code of b without its
\* terminator: loads and stores of variables, and uses of values ("out").  A load
\* whose result is used is executed before.
IsProgram(p) ==
  /\ p.succ \in [Block -> Seq(Block)]
  /\ p.code \in [Block -> Seq([op : {"load", "store", "out"}, var : Var \cup {NoVar},
                               arg : ({"const"} \X Const) \cup ({"load"} \X Block \X Nat) \cup {NoVar}])]
  /\ \A b \in Block : \A n \in DOMAIN p.code[b] : LET i == p.code[b][n]   a == i.arg IN
       /\ i.op # "out" => i.var \in Var
       /\ i.op = "load" <=> a = NoVar
       /\ a[1] = "load" => /\ a[3] \in DOMAIN p.code[a[2]] /\ p.code[a[2]][a[3]].op = "load"
                          /\ Above(p, <<a[2], a[3]>>, <<b, n>>)

ASSUME ProgramsAssumption == \A p \in Programs : IsProgram(p)

Instrs == UNION {{b} \X DOMAIN prog.code[b] : b \in Block}
At(i)  == prog.code[i[1]][i[2]]

Stores(v) == {b \in Block : \E i \in Instrs : i[1] = b /\ At(i).op = "store" /\ At(i).var = v}

Init == /\ prog \in Programs
        /\ df = [b \in Block |-> {}] /\ tree = [b \in Block |-> {}]
        /\ todo = {}
        /\ work = [var |-> NoVar, list |-> {}]
        /\ phis = [b \in Block |-> {}]
        /\ args = [b \in Block |-> [v \in Var |-> <<>>]]
        /\ operand = [b \in Block |-> [n \in 1 .. Len(prog.code[b]) |-> prog.code[b][n].arg]]
        /\ erased = {}
        /\ keys = {}
        /\ stacks = [v \in Var |-> <<>>]
        /\ calls = <<>>
        /\ phase = "run"
        /\ at = <<Entry, 1>>
        /\ mem = [v \in Var |-> Uninit]
        /\ env = <<>>

-----------------------------------------------------------------------------
(* run and generate_phi                                                    *)

\* dominators_->run(), and the first step of generate_phi: the stored variables.
RunDominators ==
  /\ phase = "run"
  /\ LET reached == Reachable(prog.succ) IN
       /\ df' = [b \in Block |-> IF b \in reached THEN Frontier(prog.succ, b) ELSE {}]
       /\ tree' = [b \in Block |-> {c \in reached \ {Entry} : ImmediateDom(prog.succ, c) = b}]
  /\ todo' = {v \in Var : Stores(v) # {}}
  /\ phase' = "phi"
  /\ UNCHANGED <<prog, work, phis, args, operand, erased, keys, stacks, calls, execvars>>

\* The next variable of the second step, with the blocks that store it.
NextVar(v) ==
  /\ phase = "phi"
  /\ work.list = {}
  /\ v \in todo
  /\ todo' = todo \ {v}
  /\ work' = [var |-> v, list |-> Stores(v)]
  /\ UNCHANGED <<prog, df, tree, phis, args, operand, erased, keys, stacks, calls, phase, execvars>>

\* Mutant: the work list is not extended with the blocks that got a phi.
InsertPhisOnce(b) ==
  /\ phase = "phi"
  /\ b \in work.list
  /\ phis' = [d \in Block |-> phis[d] \cup (IF d \in df[b] THEN {work.var} ELSE {})]
  /\ work' = [work EXCEPT !.list = @ \ {b}]
  /\ UNCHANGED <<prog, df, tree, todo, args, operand, erased, keys, stacks, calls, phase, execvars>>

\* Mutant: the work list is extended without looking for a phi that is there.
InsertPhisAgain(b) ==
  /\ phase = "phi"
  /\ b \in work.list
  /\ phis' = [d \in Block |-> phis[d] \cup (IF d \in df[b] THEN {work.var} ELSE {})]
  /\ work' = [work EXCEPT !.list = (@ \ {b}) \cup df[b]]
  /\ UNCHANGED <<prog, df, tree, todo, args, operand, erased, keys, stacks, calls, phase, execvars>>

\* One entry of the work list: a phi in each block of its frontier without one.
InsertPhis(b) ==
  /\ phase = "phi"
  /\ b \in work.list
  /\ LET new == {d \in df[b] : work.var \notin phis[d]} IN
       /\ phis' = [d \in Block |-> IF d \in new THEN phis[d] \cup {work.var} ELSE phis[d]]
       /\ work' = [work EXCEPT !.list = (@ \ {b}) \cup new]
  /\ UNCHANGED <<prog, df, tree, todo, args, operand, erased, keys, stacks, calls, phase, execvars>>

-----------------------------------------------------------------------------
(* re_name                                                                 *)

\* Mutant: re_name starts in front of the first instruction.
CallInFront(b) == [block |-> b, step |-> "phis", pos |-> 0, kids |-> tree[b], wait_delete |-> {}]

Call(b) == [block |-> b, step |-> "phis", pos |-> 1, kids |-> tree[b], wait_delete |-> {}]

Top == calls[Len(calls)]

SetTop(c) == calls' = [calls EXCEPT ![Len(calls)] = c]

ReName ==
  /\ phase = "phi"
  /\ todo = {} /\ work.list = {}
  /\ calls' = <<Call(Entry)>>
  /\ phase' = "rename"
  /\ UNCHANGED <<prog, df, tree, todo, work, phis, args, operand, erased, keys, stacks, execvars>>

InReName(step) == phase = "rename" /\ calls # <<>> /\ Top.step = step

Push(v, val) == stacks' = [stacks EXCEPT ![v] = Append(@, val)] /\ keys' = keys \cup {v}

Back(v) == IF stacks[v] = <<>> THEN Garbage ELSE stacks[v][Len(stacks[v])]

\* Mutant: step 3 passes over the phis of a variable that has a stack already.
PushPhisNewKeys ==
  /\ InReName("phis")
  /\ LET b == Top.block IN
       /\ stacks' = [v \in Var |-> IF v \in phis[b] \ keys THEN Append(stacks[v], <<"phi", b, v>>)
                                                           ELSE stacks[v]]
       /\ keys' = keys \cup phis[b]
  /\ SetTop([Top EXCEPT !.step = "instr"])
  /\ UNCHANGED <<prog, df, tree, todo, work, phis, args, operand, erased, phase, execvars>>

\* Step 3: each phi is the newest value of its variable.
PushPhis ==
  /\ InReName("phis")
  /\ LET b == Top.block IN
       /\ stacks' = [v \in Var |-> IF v \in phis[b] THEN Append(stacks[v], <<"phi", b, v>>)
                                                    ELSE stacks[v]]
       /\ keys' = keys \cup phis[b]
  /\ SetTop([Top EXCEPT !.step = "instr"])
  /\ UNCHANGED <<prog, df, tree, todo, work, phis, args, operand, erased, phase, execvars>>

\* Value::replace_all_use_with: every operand that is val becomes new.
ReplaceAllUseWith(val, new) ==
  LET subst(w) == IF w = val THEN new ELSE w IN
    /\ operand' = [b \in Block |-> [n \in DOMAIN operand[b] |-> subst(operand[b][n])]]
    /\ args' = [b \in Block |-> [v \in Var |->
                  [m \in DOMAIN args[b][v] |-> <<args[b][v][m][1], subst(args[b][v][m][2])>>]]]

\* Step 4: a load of a variable that has a stack is replaced wherever it is used.
ReNameLoad ==
  /\ InReName("instr")
  /\ Top.pos <= Len(prog.code[Top.block])
  /\ LET i == <<Top.block, Top.pos>>
         l_val == At(i).var
     IN /\ At(i).op = "load"
        /\ IF l_val \in keys
           THEN /\ ReplaceAllUseWith(<<"load", Top.block, Top.pos>>, Back(l_val))
                /\ SetTop([Top EXCEPT !.pos = @ + 1, !.wait_delete = @ \cup {i}])
           ELSE /\ SetTop([Top EXCEPT !.pos = @ + 1])
                /\ UNCHANGED <<operand, args>>
  /\ UNCHANGED <<prog, df, tree, todo, work, phis, erased, keys, stacks, phase, execvars>>

\* Mutant: a store is not put on wait_delete.
ReNameStoreKept ==
  /\ InReName("instr")
  /\ Top.pos <= Len(prog.code[Top.block])
  /\ LET i == <<Top.block, Top.pos>> IN
       /\ At(i).op = "store"
       /\ Push(At(i).var, operand[Top.block][Top.pos])
       /\ SetTop([Top EXCEPT !.pos = @ + 1])
  /\ UNCHANGED <<prog, df, tree, todo, work, phis, args, operand, erased, phase, execvars>>

\* Step 5: a stored value is the newest value of its variable.
ReNameStore ==
  /\ InReName("instr")
  /\ Top.pos <= Len(prog.code[Top.block])
  /\ LET i == <<Top.block, Top.pos>> IN
       /\ At(i).op = "store"
       /\ Push(At(i).var, operand[Top.block][Top.pos])
       /\ SetTop([Top EXCEPT !.pos = @ + 1, !.wait_delete = @ \cup {i}])
  /\ UNCHANGED <<prog, df, tree, todo, work, phis, args, operand, erased, phase, execvars>>

\* Any other instruction is passed over.
ReNameOther ==
  /\ InReName("instr")
  /\ Top.pos <= Len(prog.code[Top.block])
  /\ At(<<Top.block, Top.pos>>).op = "out"
  /\ SetTop([Top EXCEPT !.pos = @ + 1])
  /\ UNCHANGED <<prog, df, tree, todo, work, phis, args, operand, erased, keys, stacks, phase, execvars>>

\* Mutant: step 6 looks at the first successor only.
FillPhisOfFirst ==
  /\ InReName("instr")
  /\ Top.pos > Len(prog.code[Top.block])
  /\ LET b    == Top.block
         fill == IF prog.succ[b] = <<>> THEN {}
                 ELSE {Head(prog.succ[b])} \X (phis[Head(prog.succ[b])] \cap keys)
     IN args' = [s \in Block |-> [v \in Var |->
                   IF <<s, v>> \in fill THEN Append(args[s][v], <<b, Back(v)>>) ELSE args[s][v]]]
  /\ SetTop([Top EXCEPT !.step = "kids"])
  /\ UNCHANGED <<prog, df, tree, todo, work, phis, operand, erased, keys, stacks, phase, execvars>>

\* Step 6: the phis of the successors get the newest values; a variable that has
\* a stack must have a value on it.
FillPhis ==
  /\ InReName("instr")
  /\ Top.pos > Len(prog.code[Top.block])
  /\ LET b     == Top.block
         fill  == {t \in Succs(prog.succ, b) \X Var : t[2] \in phis[t[1]] \cap keys}
     IN IF \E t \in fill : stacks[t[2]] = <<>>
        THEN phase' = "assert_failed" /\ UNCHANGED <<args, calls>>
        ELSE /\ args' = [s \in Block |-> [v \in Var |->
                           IF <<s, v>> \in fill THEN Append(args[s][v], <<b, Back(v)>>)
                                                ELSE args[s][v]]]
             /\ SetTop([Top EXCEPT !.step = "kids"])
             /\ UNCHANGED phase
  /\ UNCHANGED <<prog, df, tree, todo, work, phis, operand, erased, keys, stacks, execvars>>

\* Step 7: the recursive call for a child, in the order of a set of pointers.
Descend(c) ==
  /\ InReName("kids")
  /\ c \in Top.kids
  /\ calls' = Append([calls EXCEPT ![Len(calls)].kids = @ \ {c}], Call(c))
  /\ UNCHANGED <<prog, df, tree, todo, work, phis, args, operand, erased, keys, stacks, phase, execvars>>

\* How many values the call for b has pushed for v.
Pushed(b, v) == Cardinality(phis[b] \cap {v})
                + Cardinality({n \in 1 .. Len(prog.code[b]) :
                                 prog.code[b][n].op = "store" /\ prog.code[b][n].var = v})

\* Mutant: step 8 empties the stacks of the variables of the block.
ReturnClears ==
  /\ InReName("kids")
  /\ Top.kids = {}
  /\ stacks' = [v \in Var |-> IF Pushed(Top.block, v) > 0 THEN <<>> ELSE stacks[v]]
  /\ erased' = erased \cup Top.wait_delete
  /\ calls' = SubSeq(calls, 1, Len(calls) - 1)
  /\ UNCHANGED <<prog, df, tree, todo, work, phis, args, operand, keys, phase, execvars>>

\* Step 8: pop what was pushed, erase the replaced instructions, and return.
Return ==
  /\ InReName("kids")
  /\ Top.kids = {}
  /\ stacks' = [v \in Var |-> SubSeq(stacks[v], 1, Len(stacks[v]) - Pushed(Top.block, v))]
  /\ erased' = erased \cup Top.wait_delete
  /\ calls' = SubSeq(calls, 1, Len(calls) - 1)
  /\ UNCHANGED <<prog, df, tree, todo, work, phis, args, operand, keys, phase, execvars>>

\* remove_alloca: whatever still refers to a variable now refers to freed memory.
RemoveAlloca ==
  /\ phase = "rename"
  /\ calls = <<>>
  /\ phase' = "done"
  /\ UNCHANGED <<prog, passvars, execvars>>

Pass == \/ RunDominators \/ (\E v \in Var : NextVar(v)) \/ (\E b \in Block : InsertPhis(b))
        \/ ReName \/ PushPhis \/ ReNameLoad \/ ReNameStore \/ ReNameOther \/ FillPhis
        \/ (\E b \in Block : Descend(b)) \/ Return \/ RemoveAlloca

-----------------------------------------------------------------------------
(* Execution of the function before and after the pass, side by side.       *)

\* The value of an operand; a phi not computed on this path, or whose operand
\* for the edge taken is missing, is undefined.
Eval(val) == IF val[1] = "const" THEN val
             ELSE IF val \in DOMAIN env THEN env[val] ELSE Uninit

Bind(val, res) == env' = [w \in DOMAIN env \cup {val} |-> IF w = val THEN res ELSE env[w]]

ExecInstr ==
  /\ phase = "done"
  /\ at[2] <= Len(prog.code[at[1]])
  /\ at' = <<at[1], at[2] + 1>>
  /\ CASE At(at).op = "load"  -> Bind(<<"load", at[1], at[2]>>, mem[At(at).var]) /\ UNCHANGED mem
       [] At(at).op = "store" -> mem' = [mem EXCEPT ![At(at).var] = Eval(At(at).arg)] /\ UNCHANGED env
       [] At(at).op = "out"   -> UNCHANGED <<mem, env>>
  /\ UNCHANGED <<prog, passvars, phase>>

\* Take the edge to s: its phis are evaluated together.
ExecBranch(s) ==
  /\ phase = "done"
  /\ at[2] > Len(prog.code[at[1]])
  /\ s \in Succs(prog.succ, at[1])
  /\ LET phi(v)  == <<"phi", s, v>>
         from(v) == {a \in Range(args[s][v]) : a[1] = at[1]}
         new(v)  == IF from(v) = {} THEN Uninit ELSE Eval((CHOOSE a \in from(v) : TRUE)[2])
     IN env' = [w \in DOMAIN env \cup {phi(v) : v \in phis[s]} |->
                  IF \E v \in phis[s] : w = phi(v) THEN new(w[3]) ELSE env[w]]
  /\ at' = <<s, 1>>
  /\ UNCHANGED <<prog, passvars, phase, mem>>

Execute == ExecInstr \/ \E s \in Block : ExecBranch(s)

Next == Pass \/ Execute

Spec == Init /\ [][Next]_vars /\ WF_vars(Pass)

-----------------------------------------------------------------------------
(* Properties                                                              *)

Values == ({"const"} \X Const) \cup {<<"load", i[1], i[2]>> : i \in Instrs}
          \cup ({"phi"} \X Block \X Var) \cup {Garbage, NoVar}

\* Type invariant: every operand, phi argument and stack entry is a value of the
\* function, and each call of re_name is at an instruction of its block.
TypeOK ==
  /\ phase \in {"run", "phi", "rename", "assert_failed", "done"}
  /\ todo \subseteq Var /\ work.var \in Var \cup {NoVar} /\ work.list \subseteq Block
  /\ phis \in [Block -> SUBSET Var]
  /\ \A b \in Block, v \in Var : Range(args[b][v]) \subseteq Block \X Values
  /\ \A i \in Instrs : operand[i[1]][i[2]] \in Values
  /\ erased \subseteq Instrs /\ keys \subseteq Var
  /\ \A v \in Var : Range(stacks[v]) \subseteq Values
  /\ \A c \in Range(calls) : c.pos \in 1 .. Len(prog.code[c.block]) + 1

Finished == phase = "done"

\* A value is always there when re_name reads the newest one: no load is replaced
\* by what back() of an empty vector returns, and the assertion of step 6 holds.  It
\* is never the result of a load, which could be the load that is replaced: then
\* replace_all_use_with would append to the list it walks, and never end.
StacksServe ==
  /\ phase # "assert_failed"
  /\ \A v \in Var : Range(stacks[v]) \cap {<<"load", i[1], i[2]>> : i \in Instrs} = {}
  /\ \A i \in Instrs : operand[i[1]][i[2]] # Garbage

\* Where v gets a value: at the head of a block with a phi, and at a store.
Sites(v) == ({b \in Block : v \in phis[b]} \X {0})
            \cup {i \in Instrs : At(i).op = "store" /\ At(i).var = v}

\* The stack of a variable holds a value for each phi and store of it that the calls
\* of re_name in progress have passed, and no other, so that a block sees the values
\* of its dominators only.
StacksMatchCalls ==
  \A v \in Var :
    Len(stacks[v]) = Cardinality({s \in Sites(v) : \E c \in Range(calls) :
                                    c.block = s[1] /\ c.step # "phis" /\ s[2] < c.pos})

\* The stacks are right at every step: what a block reads is there, and it is what
\* the blocks above it in the dominator tree have pushed, nothing of its siblings.
StacksRight == StacksServe /\ StacksMatchCalls

\* After the pass a phi has one operand for each predecessor of its block that
\* is reachable, and no other.
PhiComplete ==
  Finished => \A b \in Reachable(prog.succ) : \A v \in phis[b] :
    LET from == {args[b][v][m][1] : m \in DOMAIN args[b][v]} IN
      /\ from = Preds(prog.succ, b) \cap Reachable(prog.succ)
      /\ Len(args[b][v]) = Cardinality(from)

\* After the pass no instruction refers to an alloca that remove_alloca erased
\* (the comment at Mem2Reg.cpp:176 promises as much).
NoneLeft == Finished => \A i \in Instrs : At(i).op # "out" => i \in erased

\* After the pass every use gets the value it got before: whatever path is taken,
\* phis and renamed operands stand for the contents of memory.
SameOutput ==
  Finished /\ at \in Instrs /\ At(at).op = "out" =>
    Eval(operand[at[1]][at[2]]) = Eval(At(at).arg)

\* The variables are promoted: nothing of their memory is left, their phis are
\* complete, and no use can tell the difference.
Promoted == PhiComplete /\ NoneLeft /\ SameOutput

\* The pass comes to its end.
Terminates == <>(phase \in {"done", "assert_failed"})
=============================================================================
