------------------------------ MODULE DeadCode ------------------------------
(***************************************************************************)
(* The pass DeadCode (include/optimization/DeadCode.h) together with the   *)
(* FuncInfo it owns.  After the purity analysis each function is marked    *)
(* from its critical instructions along operands and swept of what is not  *)
(* marked, in rounds that are repeated until a round erases nothing.       *)
(*                                                                         *)
(* Use lists are those of Value: users[d] for an instruction d, uses[f] of *)
(* FuncInfo for a function f.  The pass is run MaxRuns times, as GVN::run  *)
(* does with the one DeadCode object it owns (GVN.cpp:607-651).            *)
(***************************************************************************)
EXTENDS Integers, Sequences

CONSTANTS Func, Inst, FuncSeq, Programs, MaxRuns

VARIABLES prog, live, uses, is_pure, worklist, pc, k, now, pending, runs,
          users,      \* users[d]: the instructions that have d as an operand
          marked,     \* the marked instructions of the current function
          work_list,  \* the marked instructions whose operands are not visited
          wait_del,   \* the instructions sweep has collected
          todo,       \* those of them the current loop of sweep has to visit
          phase,      \* where run() is
          n,          \* position of the current function in FuncSeq
          round,      \* iterations of the do-while loop in this run
          changed     \* some sweep of this round erased something

FI == INSTANCE FuncInfo

fivars  == <<is_pure, worklist, pc, k, now, pending, runs>>
dcvars  == <<marked, work_list, wait_del, todo, phase, n, round, changed>>
vars    == <<prog, live, uses, fivars, users, dcvars>>

\* What FuncInfo asks of its constants.
ASSUME FuncSeqAssumption ==
  /\ FuncSeq \in Seq(Func)
  /\ \A f \in Func : \E m \in 1 .. Len(FuncSeq) : FuncSeq[m] = f
  /\ \A l, m \in 1 .. Len(FuncSeq) : FuncSeq[l] = FuncSeq[m] => l = m

ASSUME MaxRunsAssumption == MaxRuns \in Nat

ASSUME ProgramsAssumption == \A p \in Programs : FI!IsProgram(p)

\* prog.ops[i]: the operands of i that are instructions, all of its own function.
ASSUME OperandsAssumption ==
  \A p \in Programs :
    /\ p.ops \in [Inst -> SUBSET Inst]
    /\ \A i \in Inst : \A d \in p.ops[i] : p.parent[d] = p.parent[i]

\* Bound: rounds are counted up to RoundCap, one more than are ever needed.
RoundCap == 3

Phases == {"func_info", "mark", "propagate", "remove_uses", "erase", "finished"}

Init == /\ FI!Init
        /\ users = [d \in Inst |-> {i \in Inst : d \in prog.ops[i]}]
        /\ marked = {} /\ work_list = {} /\ wait_del = {} /\ todo = {}
        /\ phase = "func_info"
        /\ n = 1
        /\ round = 0
        /\ changed = FALSE

Body(f) == {i \in live : prog.parent[i] = f}

\* Mutant: only calls of declared functions are kept.
IsCriticalDeclared(i) == \/ prog.op[i] \in {"br", "ret", "store"}
                         \/ prog.op[i] = "call" /\ prog.sig[prog.callee[i]] = "declaration"

IsCritical(i) == \/ prog.op[i] \in {"br", "ret", "store"}
                 \/ prog.op[i] = "call" /\ ~is_pure[prog.callee[i]]

-----------------------------------------------------------------------------

RunFuncInfo ==
  /\ phase = "func_info"
  /\ FI!Run
  /\ UNCHANGED <<users, dcvars>>

\* Mutant: changed is set to false before the loop only.
BeginRoundKeepsChanged ==
  /\ \/ phase = "func_info" /\ pc = "done"
     \/ phase = "mark" /\ n = Len(FuncSeq) + 1 /\ changed
  /\ phase' = "mark"
  /\ n' = 1
  /\ round' = IF round < RoundCap THEN round + 1 ELSE RoundCap
  /\ UNCHANGED <<prog, live, uses, fivars, users, marked, work_list, wait_del, todo, changed>>

\* The head of the do-while loop.
BeginRound ==
  /\ \/ phase = "func_info" /\ pc = "done"
     \/ phase = "mark" /\ n = Len(FuncSeq) + 1 /\ changed
  /\ phase' = "mark"
  /\ n' = 1
  /\ round' = IF round < RoundCap THEN round + 1 ELSE RoundCap
  /\ changed' = FALSE
  /\ UNCHANGED <<prog, live, uses, fivars, users, marked, work_list, wait_del, todo>>

\* mark(Function *): forget the last function, mark the critical instructions.
MarkCritical ==
  /\ phase = "mark"
  /\ n <= Len(FuncSeq)
  /\ marked' = {i \in Body(FuncSeq[n]) : IsCritical(i)}
  /\ work_list' = marked'
  /\ phase' = "propagate"
  /\ UNCHANGED <<prog, live, uses, fivars, users, wait_del, todo, n, round, changed>>

\* Mutant: operands are marked but not queued.
MarkNoPush(i) ==
  /\ phase = "propagate"
  /\ i \in work_list
  /\ marked' = marked \cup {d \in prog.ops[i] : prog.parent[d] = prog.parent[i]}
  /\ work_list' = work_list \ {i}
  /\ UNCHANGED <<prog, live, uses, fivars, users, wait_del, todo, phase, n, round, changed>>

\* mark(Instruction *) for an instruction taken from the work list.
Mark(i) ==
  /\ phase = "propagate"
  /\ i \in work_list
  /\ LET new == {d \in prog.ops[i] : d \notin marked /\ prog.parent[d] = prog.parent[i]} IN
       /\ marked' = marked \cup new
       /\ work_list' = (work_list \ {i}) \cup new
  /\ UNCHANGED <<prog, live, uses, fivars, users, wait_del, todo, phase, n, round, changed>>

\* Mutant: sweep collects only the unmarked instructions nothing uses.
CollectUnused ==
  /\ phase = "propagate"
  /\ work_list = {}
  /\ wait_del' = {i \in Body(FuncSeq[n]) \ marked : users[i] = {}}
  /\ todo' = wait_del'
  /\ phase' = "remove_uses"
  /\ UNCHANGED <<prog, live, uses, fivars, users, marked, work_list, n, round, changed>>

\* The first loop of sweep: collect what is not marked.
CollectUnmarked ==
  /\ phase = "propagate"
  /\ work_list = {}
  /\ wait_del' = Body(FuncSeq[n]) \ marked
  /\ todo' = wait_del'
  /\ phase' = "remove_uses"
  /\ UNCHANGED <<prog, live, uses, fivars, users, marked, work_list, n, round, changed>>

\* Mutant: the use lists of instructions are not updated.
RemoveUseOfFunctions(i) ==
  /\ phase = "remove_uses"
  /\ i \in todo
  /\ uses' = [f \in Func |-> uses[f] \ {i}]
  /\ todo' = todo \ {i}
  /\ UNCHANGED <<prog, live, fivars, users, marked, work_list, wait_del, phase, n, round, changed>>

\* Mutant: operand 0 of a call, the function, is forgotten.
RemoveUseOfInstructions(i) ==
  /\ phase = "remove_uses"
  /\ i \in todo
  /\ users' = [d \in Inst |-> users[d] \ {i}]
  /\ todo' = todo \ {i}
  /\ UNCHANGED <<prog, live, uses, fivars, marked, work_list, wait_del, phase, n, round, changed>>

\* The second loop of sweep, in the order of an unordered_set.
RemoveUseOfOps(i) ==
  /\ phase = "remove_uses"
  /\ i \in todo
  /\ users' = [d \in Inst |-> users[d] \ {i}]
  /\ uses' = [f \in Func |-> uses[f] \ {i}]
  /\ todo' = todo \ {i}
  /\ UNCHANGED <<prog, live, fivars, marked, work_list, wait_del, phase, n, round, changed>>

BeginErase ==
  /\ phase = "remove_uses"
  /\ todo = {}
  /\ todo' = wait_del
  /\ phase' = "erase"
  /\ UNCHANGED <<prog, live, uses, fivars, users, marked, work_list, wait_del, n, round, changed>>

\* The third loop of sweep.
Erase(i) ==
  /\ phase = "erase"
  /\ i \in todo
  /\ live' = live \ {i}
  /\ todo' = todo \ {i}
  /\ UNCHANGED <<prog, uses, fivars, users, marked, work_list, wait_del, phase, n, round, changed>>

\* Mutant: the loop over the functions advances twice.
EndSweepSkips ==
  /\ phase = "erase"
  /\ todo = {}
  /\ changed' = (changed \/ wait_del # {})
  /\ n' = n + 2
  /\ phase' = "mark"
  /\ UNCHANGED <<prog, live, uses, fivars, users, marked, work_list, wait_del, todo, round>>

EndSweep ==
  /\ phase = "erase"
  /\ todo = {}
  /\ changed' = (changed \/ wait_del # {})
  /\ n' = n + 1
  /\ phase' = "mark"
  /\ UNCHANGED <<prog, live, uses, fivars, users, marked, work_list, wait_del, todo, round>>

EndRun ==
  /\ phase = "mark"
  /\ n = Len(FuncSeq) + 1
  /\ ~changed
  /\ phase' = "finished"
  /\ UNCHANGED <<prog, live, uses, fivars, users, marked, work_list, wait_del, todo, n, round, changed>>

\* DeadCode::run is called again and calls func_info->run() first.
RunAgain ==
  /\ phase = "finished"
  /\ runs < MaxRuns
  /\ phase' = "func_info"
  /\ round' = 0
  /\ pc' = "mark"
  /\ k' = 1
  /\ runs' = runs + 1
  /\ UNCHANGED <<prog, live, uses, is_pure, worklist, now, pending, users,
                 marked, work_list, wait_del, todo, n, changed>>

Next == \/ RunFuncInfo \/ BeginRound \/ MarkCritical \/ CollectUnmarked
        \/ BeginErase \/ EndSweep \/ EndRun \/ RunAgain
        \/ \E i \in Inst : Mark(i) \/ RemoveUseOfOps(i) \/ Erase(i)

Spec == Init /\ [][Next]_vars /\ WF_vars(Next)

-----------------------------------------------------------------------------
(* What makes the pass right.                                              *)

TypeOK ==
  /\ FI!TypeOK
  /\ users \in [Inst -> SUBSET Inst]
  /\ marked \in SUBSET Inst
  /\ work_list \in SUBSET marked
  /\ wait_del \in SUBSET Inst
  /\ todo \in SUBSET wait_del
  /\ phase \in Phases
  /\ n \in 1 .. Len(FuncSeq) + 1
  /\ round \in Nat
  /\ changed \in BOOLEAN

\* The instructions that sweep has cut loose and not yet erased.
Detached == CASE phase = "remove_uses" -> wait_del \ todo
              [] phase = "erase"       -> todo
              [] OTHER                 -> {}

\* At every step a use list names exactly the instructions still in the code
\* that have the value as an operand: no use by an erased instruction is left
\* behind, erasing never meets an instruction that is still used, and what stays
\* in the code never has an operand that is erased.
UseListsAgree ==
  /\ \A d \in live : users[d] = {i \in live \ Detached : d \in prog.ops[i]}
  /\ \A d \in Inst \ live : users[d] = {}
  /\ \A i \in live : i \notin wait_del => prog.ops[i] \cap (Inst \ live) = {}

\* The least set that holds the critical instructions of f and is closed under
\* operands: what f needs.
Needed(f) ==
  {i \in Body(f) : \A S \in SUBSET Body(f) :
      /\ {j \in Body(f) : IsCritical(j)} \subseteq S
      /\ \A j \in S : prog.ops[j] \cap Body(f) \subseteq S
      => i \in S}

\* The functions that write memory they do not own, or reach one that does, in
\* the program as it was before the pass: declarations (input, output, ...) do.
Writes(f) == \/ prog.sig[f] = "declaration"
             \/ \E i \in Inst : /\ prog.parent[i] = f /\ prog.op[i] = "store"
                                /\ ~FI!IsLocal(i)

Writers ==
  {f \in Func : \A S \in SUBSET Func :
     /\ \A g \in Func : Writes(g) => g \in S
     /\ \A i \in Inst : prog.op[i] = "call" /\ prog.callee[i] \in S => prog.parent[i] \in S
     => f \in S}

\* However often the pass runs, it never erases a store, a terminator, or a call
\* through which memory or the outside world would have been written, although
\* each run judges purity on what the runs before it have left.
EffectsKept ==
  \A i \in Inst \ live : /\ prog.op[i] \notin {"store", "br", "ret"}
                         /\ prog.op[i] = "call" => prog.callee[i] \notin Writers

\* When run() ends, every function holds exactly what it needs, under the
\* purity results the run used: no dead chain, not even a cycle of phis, is left
\* and nothing needed is gone, least of all an effect.  The first round does all
\* of it: the second, which follows when the first has erased something, erases
\* nothing.
ExactlyNeeded ==
  /\ phase = "finished" => \A f \in Func : Body(f) = Needed(f)
  /\ EffectsKept
  /\ round <= 2

\* run() returns each time it is called.
Terminates == (phase = "func_info") ~> (phase = "finished")

\* The pass respects what FuncInfo assumes of those around it: between two
\* analyses instructions only disappear, cut off from the use lists first, and an
\* analysis starts on use lists that match the code.
ImplementsFuncInfo == FI!Spec
=============================================================================
