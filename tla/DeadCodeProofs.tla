--------------------------- MODULE DeadCodeProofs ---------------------------
(* Dead code elimination, for every module: its steps are steps of FuncInfo, *)
(* the use lists are exact, no effect is lost, and each run leaves exactly   *)
(* what is needed.  What FuncInfo keeps is taken from its own proofs.        *)
EXTENDS DeadCode, TLAPS

FP == INSTANCE FuncInfoProofs

-----------------------------------------------------------------------------
(* FuncInfo under its two names: the definitions agree.                     *)

LEMMA SameProgram == \A p : FI!IsProgram(p) <=> FP!IsProgram(p)
BY DEF FI!IsProgram, FP!IsProgram, FI!Sig, FP!Sig, FI!Op, FP!Op

LEMMA SameType == FI!TypeOK <=> FP!TypeOK
BY DEF FI!TypeOK, FP!TypeOK, FI!IsProgram, FP!IsProgram, FI!Sig, FP!Sig, FI!Op, FP!Op

LEMMA SameInvariant == FI!IInv <=> FP!IInv
<1> USE DEF FI!TriviallyImpure, FP!TriviallyImpure, FI!IsSideEffectInst, FP!IsSideEffectInst,
            FI!IsLocal, FP!IsLocal, FI!GetFirstAddr, FP!GetFirstAddr, FI!Range, FP!Range,
            FI!Calls, FP!Calls, FI!ImpureSet, FP!ImpureSet, FI!Closed, FP!Closed
<1>1. FI!TypeOK <=> FP!TypeOK
  BY SameType
<1>2. FI!UsesAreCalls <=> FP!UsesAreCalls
  BY DEF FI!UsesAreCalls, FP!UsesAreCalls
<1>3. FI!QueueInv <=> FP!QueueInv
  BY DEF FI!QueueInv, FP!QueueInv, FI!QueuedOnce, FP!QueuedOnce
<1>4. FI!MarkInv <=> FP!MarkInv
  BY DEF FI!MarkInv, FP!MarkInv
<1>5. FI!PropagateInv <=> FP!PropagateInv
  BY DEF FI!PropagateInv, FP!PropagateInv, FI!Precise, FP!Precise, FI!Impure, FP!Impure
<1>6. FI!DoneInv <=> FP!DoneInv
  BY DEF FI!DoneInv, FP!DoneInv
<1>q. QED
  BY <1>1, <1>2, <1>3, <1>4, <1>5, <1>6 DEF FI!IInv, FP!IInv

LEMMA SameNext == [FI!Next]_FI!vars <=> [FP!Next]_FP!vars
<1> USE DEF FI!irvars, FP!irvars, FI!fivars, FP!fivars
<1>1. FI!TrivialMark <=> FP!TrivialMark
  BY DEF FI!TrivialMark, FP!TrivialMark, FI!TriviallyImpure, FP!TriviallyImpure,
         FI!IsSideEffectInst, FP!IsSideEffectInst, FI!IsLocal, FP!IsLocal, FI!GetFirstAddr, FP!GetFirstAddr
<1>2. FI!Run <=> FP!Run
  BY <1>1 DEF FI!Run, FP!Run, FI!EndMark, FP!EndMark, FI!Pop, FP!Pop, FI!ProcessUse, FP!ProcessUse,
              FI!EndProcess, FP!EndProcess, FI!Finish, FP!Finish
<1>3. FI!Between <=> FP!Between
  BY DEF FI!Between, FP!Between, FI!RunAgain, FP!RunAgain, FI!Calls, FP!Calls,
         FI!RemoveUses, FP!RemoveUses, FI!EraseInst, FP!EraseInst
<1>q. QED
  BY <1>2, <1>3 DEF FI!Next, FP!Next, FI!vars, FP!vars

\* What FuncInfoProofs shows of a step of FuncInfo.
LEMMA FuncInfoStep ==
  ASSUME FI!IInv, [FI!Next]_FI!vars
  PROVE  FI!IInv' /\ FI!TypeOK'
<1>1. FP!IInv /\ [FP!Next]_FP!vars
  BY SameInvariant, SameNext
<1>2. FP!TypeOK'
  BY <1>1, FP!TypeStep, FuncSeqAssumption, MaxRunsAssumption, ProgramsAssumption, SameProgram DEF FP!IInv
<1>3. FP!IInv'
  BY <1>1, <1>2, FP!InvStep, FuncSeqAssumption, MaxRunsAssumption, ProgramsAssumption, SameProgram
<1>4. (FI!IInv <=> FP!IInv)' /\ (FI!TypeOK <=> FP!TypeOK)'
  BY SameInvariant, SameType, PTL
<1>q. QED
  BY <1>2, <1>3, <1>4
-----------------------------------------------------------------------------
(* The inductive invariant.                                                 *)

Sweeping  == phase \in {"remove_uses", "erase"}
AtWork    == phase \in {"propagate", "remove_uses", "erase"}
Current   == FuncSeq[n]
Attached  == live \ Detached
Critical(S) == {i \in S : IsCritical(i)}

\* Where the pass is: the purity analysis is done before anything is marked.
PhaseInv ==
  /\ phase # "func_info" => pc = "done"
  /\ AtWork => n \in 1 .. Len(FuncSeq)
  /\ prog.ops \in [Inst -> SUBSET Inst]
  /\ \A i \in Inst : \A d \in prog.ops[i] : prog.parent[d] = prog.parent[i]

\* The use lists, and the operands of what is in the code: only what is about
\* to be erased may have lost one.
UsesInv ==
  /\ \A f \in Func : uses[f] = {i \in Attached : prog.op[i] = "call" /\ prog.callee[i] = f}
  /\ \A d \in Inst : users[d] = {i \in Attached : d \in prog.ops[i]}
  /\ \A i \in live : i \in wait_del \/ prog.ops[i] \subseteq live
  /\ phase # "erase" => \A i \in live : prog.ops[i] \subseteq live

\* What sweep has collected: uncritical instructions of the current function that
\* nothing else needs, erased as far as the last loop has got.
SweepInv ==
  /\ ~Sweeping => wait_del \cap live = {} /\ todo = {}
  /\ phase = "remove_uses" => wait_del \subseteq live
  /\ phase = "erase" => wait_del \cap live = todo
  /\ Sweeping => /\ \A i \in wait_del : prog.parent[i] = Current /\ ~IsCritical(i)
                 /\ \A i \in live \ wait_del : prog.ops[i] \cap wait_del = {}
                 /\ Body(Current) = marked \cup (wait_del \cap live)
                 /\ marked \cap wait_del = {}

\* The marked instructions are the critical ones and what these lead to, and the
\* operands of all that are not on the work list are marked.
MarkedInv ==
  AtWork =>
    /\ Critical(Body(Current)) \subseteq marked
    /\ marked \subseteq Body(Current)
    /\ \A i \in marked : i \in work_list \/ prog.ops[i] \subseteq marked
    /\ \A S \in SUBSET marked :
         /\ Critical(marked) \subseteq S
         /\ \A i \in S : prog.ops[i] \cap marked \subseteq S
         => marked \subseteq S
    /\ Sweeping => work_list = {}

Tidy(f) == Body(f) = Needed(f)

\* The functions before the current one are tidy; in the second round all are,
\* and nothing is collected any more.
RoundInv ==
  /\ round \in 0 .. 2
  /\ phase = "func_info" => round = 0
  /\ phase # "func_info" => round \in {1, 2}
  /\ phase = "mark" \/ AtWork => \A l \in 1 .. n - 1 : Tidy(FuncSeq[l])
  /\ phase = "finished" => \A f \in Func : Tidy(f)
  /\ round = 2 => ~changed /\ (\A f \in Func : Tidy(f)) /\ (Sweeping => wait_del = {})

IInv == TypeOK /\ FI!IInv /\ PhaseInv /\ UsesInv /\ SweepInv /\ MarkedInv /\ EffectsKept /\ RoundInv

-----------------------------------------------------------------------------
(* Every step is a step of FuncInfo or leaves its variables alone.          *)

LEMMA RunKeepsCode ==
  ASSUME FI!Run
  PROVE  prog' = prog /\ live' = live /\ uses' = uses
BY DEF FI!Run, FI!TrivialMark, FI!EndMark, FI!Pop, FI!ProcessUse, FI!EndProcess, FI!Finish, FI!irvars

LEMMA StepSimulation ==
  ASSUME IInv, [Next]_vars
  PROVE  [FI!Next]_FI!vars
<1> USE DEF FI!vars, FI!fivars, fivars, dcvars
<1>1. CASE RunFuncInfo
  BY <1>1 DEF RunFuncInfo, FI!Next
<1>2. CASE BeginRound \/ MarkCritical \/ CollectUnmarked \/ BeginErase \/ EndSweep \/ EndRun
           \/ \E i \in Inst : Mark(i)
  BY <1>2 DEF BeginRound, MarkCritical, CollectUnmarked, BeginErase, EndSweep, EndRun, Mark
<1>3. CASE RunAgain
  <2>1. pc = "done" /\ Attached = live
    BY <1>3 DEF RunAgain, IInv, PhaseInv, Attached, Detached
  <2>2. \A f \in Func : uses[f] = FI!Calls(f)
    BY <2>1 DEF IInv, UsesInv, FI!Calls
  <2>3. FI!RunAgain
    BY <1>3, <2>1, <2>2 DEF RunAgain, FI!RunAgain, FI!irvars
  <2>q. QED
    BY <2>3 DEF FI!Next, FI!Between
<1>4. ASSUME NEW i \in Inst, RemoveUseOfOps(i)
      PROVE  FI!Next
  <2>1. pc = "done" /\ i \in live
    BY <1>4 DEF RemoveUseOfOps, IInv, TypeOK, PhaseInv, SweepInv
  <2>2. FI!RemoveUses(i)
    BY <1>4, <2>1 DEF RemoveUseOfOps, FI!RemoveUses
  <2>q. QED
    BY <2>2 DEF FI!Next, FI!Between
<1>5. ASSUME NEW i \in Inst, Erase(i)
      PROVE  FI!Next
  <2>1. pc = "done" /\ i \in live /\ i \in Detached
    BY <1>5 DEF Erase, IInv, PhaseInv, SweepInv, Detached
  <2>2. \A f \in Func : i \notin uses[f]
    BY <2>1 DEF IInv, UsesInv, Attached
  <2>3. FI!EraseInst(i)
    BY <1>5, <2>1, <2>2 DEF Erase, FI!EraseInst
  <2>q. QED
    BY <2>3 DEF FI!Next, FI!Between
<1>6. CASE UNCHANGED vars
  BY <1>6 DEF vars
<1>q. QED
  BY <1>1, <1>2, <1>3, <1>4, <1>5, <1>6 DEF Next

-----------------------------------------------------------------------------
(* Initially.                                                               *)

LEMMA InvInit == Init => IInv
<1> SUFFICES ASSUME Init PROVE IInv
  OBVIOUS
<1>1. FI!Init
  BY DEF Init
<1>2. FI!Init <=> FP!Init
  BY DEF FI!Init, FP!Init, FI!Calls, FP!Calls
<1>3. FP!IInv
  BY <1>1, <1>2, FP!InvInit, FuncSeqAssumption, MaxRunsAssumption, ProgramsAssumption, SameProgram
<1>4. FI!IInv /\ FI!TypeOK
  BY <1>3, SameInvariant DEF FI!IInv
<1>5. prog \in Programs /\ live = Inst /\ phase = "func_info" /\ round = 0 /\ n = 1 /\ ~changed
      /\ marked = {} /\ work_list = {} /\ wait_del = {} /\ todo = {}
  BY <1>1 DEF Init, FI!Init
<1>6. TypeOK
  <2>1. n \in 1 .. Len(FuncSeq) + 1
    BY <1>5, FuncSeqAssumption
  <2>2. users \in [Inst -> SUBSET Inst] /\ changed \in BOOLEAN
    BY DEF Init
  <2>q. QED
    BY <1>4, <1>5, <2>1, <2>2 DEF TypeOK, Phases
<1>7. PhaseInv
  BY <1>5, OperandsAssumption DEF PhaseInv, AtWork
<1>8. UsesInv
  <2>1. Attached = Inst
    BY <1>5 DEF Attached, Detached
  <2>q. QED
    BY <1>1, <1>5, <1>7, <2>1 DEF UsesInv, Init, FI!Init, FI!Calls, PhaseInv
<1>9. SweepInv /\ MarkedInv /\ EffectsKept /\ RoundInv
  BY <1>5 DEF SweepInv, MarkedInv, EffectsKept, RoundInv, Sweeping, AtWork
<1>q. QED
  BY <1>4, <1>6, <1>7, <1>8, <1>9 DEF IInv

-----------------------------------------------------------------------------
(* The types, and where the pass is.                                        *)

LEMMA TypeStep ==
  ASSUME IInv, [Next]_vars, FI!TypeOK'
  PROVE  TypeOK'
<1>1. TypeOK /\ Len(FuncSeq) \in Nat
  BY FuncSeqAssumption DEF IInv
<1> USE <1>1 DEF TypeOK, Phases
<1>2. CASE RunFuncInfo \/ EndRun \/ RunAgain \/ UNCHANGED vars
  <2>1. UNCHANGED <<users, marked, work_list, wait_del, todo, n, changed>> /\ round' \in {0, round}
    BY <1>2 DEF RunFuncInfo, EndRun, RunAgain, vars, dcvars
  <2>2. phase' \in {phase, "finished", "func_info"}
    BY <1>2 DEF RunFuncInfo, EndRun, RunAgain, vars, dcvars
  <2>q. QED
    BY <2>1, <2>2
<1>3. CASE MarkCritical
  BY <1>3 DEF MarkCritical, Body, FI!TypeOK
<1>4. CASE CollectUnmarked
  BY <1>4 DEF CollectUnmarked, Body, FI!TypeOK
<1>5. CASE BeginErase
  BY <1>5 DEF BeginErase
<1>6. CASE EndSweep
  <2>1. n + 1 \in 1 .. Len(FuncSeq) + 1
    BY <1>6 DEF EndSweep, IInv, PhaseInv, AtWork
  <2>q. QED
    BY <1>6, <2>1 DEF EndSweep
<1>7. ASSUME NEW i \in Inst, Mark(i)
      PROVE  TypeOK'
  <2>1. prog.ops[i] \subseteq Inst
    BY DEF IInv, PhaseInv
  <2>q. QED
    BY <1>7, <2>1 DEF Mark
<1>8. ASSUME NEW i \in Inst, RemoveUseOfOps(i) \/ Erase(i)
      PROVE  TypeOK'
  <2>1. /\ users' \in [Inst -> SUBSET Inst] /\ todo' \in SUBSET wait_del
        /\ UNCHANGED <<marked, work_list, wait_del, phase, n, round, changed>>
    BY <1>8 DEF RemoveUseOfOps, Erase
  <2>q. QED
    BY <2>1
<1>9. CASE BeginRound
  <2>1. UNCHANGED <<users, marked, work_list, wait_del, todo>> /\ phase' = "mark" /\ n' = 1
    BY <1>9 DEF BeginRound
  <2>2. round' = (IF round < RoundCap THEN round + 1 ELSE RoundCap) /\ changed' = FALSE
    BY <1>9 DEF BeginRound
  <2>3. round' \in Nat
    BY <2>2 DEF RoundCap
  <2>4. changed' \in BOOLEAN
    BY <2>2
  <2>q. QED
    BY <2>1, <2>3, <2>4
<1>q. QED
  BY <1>2, <1>3, <1>4, <1>5, <1>6, <1>7, <1>8, <1>9 DEF Next

LEMMA PhaseStep ==
  ASSUME IInv, [Next]_vars
  PROVE  PhaseInv'
<1>1. PhaseInv /\ n \in 1 .. Len(FuncSeq) + 1 /\ Len(FuncSeq) \in Nat
  BY FuncSeqAssumption DEF IInv, TypeOK
<1> USE <1>1 DEF PhaseInv, AtWork
<1>2. CASE RunFuncInfo
  BY <1>2, RunKeepsCode DEF RunFuncInfo, dcvars
<1>3. CASE BeginRound \/ MarkCritical \/ CollectUnmarked \/ BeginErase \/ EndSweep \/ EndRun
           \/ RunAgain \/ UNCHANGED vars
  BY <1>3 DEF BeginRound, MarkCritical, CollectUnmarked, BeginErase, EndSweep, EndRun, RunAgain,
              vars, dcvars, fivars
<1>4. ASSUME NEW i \in Inst, Mark(i) \/ RemoveUseOfOps(i) \/ Erase(i)
      PROVE  PhaseInv'
  BY <1>4 DEF Mark, RemoveUseOfOps, Erase, fivars
<1>q. QED
  BY <1>2, <1>3, <1>4 DEF Next

-----------------------------------------------------------------------------
(* Use lists and sweeping, one lemma for each action that disturbs them.    *)

\* The invariant of the two parts, and what they are proved from.
CodeInv == UsesInv /\ SweepInv

\* Nothing they speak of changes: the code, the lists, and what is collected.
LEMMA SameCode ==
  ASSUME IInv, UNCHANGED <<prog, live, uses, users, wait_del, todo>>,
         ~Sweeping, ~Sweeping'
  PROVE  CodeInv'
<1>1. Detached = {} /\ Detached' = {}
  BY DEF Sweeping, Detached
<1>2. UsesInv'
  BY <1>1 DEF IInv, UsesInv, Attached, Sweeping
<1>3. SweepInv'
  BY DEF IInv, SweepInv, Sweeping
<1>q. QED
  BY <1>2, <1>3 DEF CodeInv

LEMMA CollectCode ==
  ASSUME IInv, CollectUnmarked
  PROVE  CodeInv'
<1>1. /\ phase = "propagate" /\ phase' = "remove_uses" /\ work_list = {} /\ Current' = Current
      /\ UNCHANGED <<prog, live, uses, users, marked, is_pure>>
      /\ wait_del' = Body(Current) \ marked /\ todo' = wait_del'
  BY DEF CollectUnmarked, Current, fivars
<1>2. Detached = {} /\ Detached' = {}
  BY <1>1 DEF Detached
<1>3. UsesInv'
  BY <1>1, <1>2 DEF IInv, UsesInv, Attached
<1>4. \A i \in marked : prog.ops[i] \subseteq marked
  BY <1>1 DEF IInv, MarkedInv, AtWork
<1>5. ASSUME NEW i \in live \ wait_del'
      PROVE  prog.ops[i] \cap wait_del' = {}
  <2>1. CASE i \in Body(Current)
    BY <1>1, <1>4, <2>1
  <2>2. CASE i \notin Body(Current)
    <3>1. i \in Inst /\ prog.parent[i] # Current
      BY <2>2 DEF Body, IInv, FI!IInv, FI!TypeOK
    <3>2. \A d \in prog.ops[i] : prog.parent[d] # Current
      BY <3>1 DEF IInv, PhaseInv
    <3>q. QED
      BY <1>1, <3>2 DEF Body
  <2>q. QED
    BY <2>1, <2>2
<1>6. \A i \in Body(Current) \ marked : ~IsCritical(i) /\ prog.parent[i] = Current
  BY <1>1 DEF IInv, MarkedInv, AtWork, Critical, Body
<1>7. \A i : IsCritical(i)' <=> IsCritical(i)
  BY <1>1 DEF IsCritical
<1>8. Body(Current)' = Body(Current) /\ marked \subseteq Body(Current) /\ Body(Current) \subseteq live
  BY <1>1 DEF Body, IInv, MarkedInv, AtWork
<1>9. SweepInv'
  BY <1>1, <1>5, <1>6, <1>7, <1>8 DEF SweepInv, Sweeping
<1>q. QED
  BY <1>3, <1>9 DEF CodeInv

LEMMA RemoveUseCode ==
  ASSUME IInv, NEW i \in Inst, RemoveUseOfOps(i)
  PROVE  CodeInv'
<1>1. /\ phase = "remove_uses" /\ phase' = "remove_uses" /\ i \in todo /\ todo' = todo \ {i}
      /\ UNCHANGED <<prog, live, marked, wait_del, is_pure>> /\ Current' = Current
      /\ users' = [d \in Inst |-> users[d] \ {i}]
      /\ uses' = [f \in Func |-> uses[f] \ {i}]
  BY DEF RemoveUseOfOps, fivars, Current
<1>2. Attached' = Attached \ {i}
  BY <1>1 DEF Attached, Detached, IInv, TypeOK
<1>3. UsesInv'
  <2>1. \A f \in Func : uses'[f] = {j \in Attached' : prog.op[j] = "call" /\ prog.callee[j] = f}
    BY <1>1, <1>2 DEF IInv, UsesInv
  <2>2. \A d \in Inst : users'[d] = {j \in Attached' : d \in prog.ops[j]}
    BY <1>1, <1>2 DEF IInv, UsesInv
  <2>q. QED
    BY <1>1, <2>1, <2>2 DEF IInv, UsesInv
<1>4. SweepInv'
  BY <1>1 DEF IInv, SweepInv, Sweeping, IsCritical, Body
<1>q. QED
  BY <1>3, <1>4 DEF CodeInv

LEMMA BeginEraseCode ==
  ASSUME IInv, BeginErase
  PROVE  CodeInv'
<1>1. /\ phase = "remove_uses" /\ phase' = "erase" /\ todo = {} /\ todo' = wait_del
      /\ UNCHANGED <<prog, live, uses, users, marked, wait_del, is_pure>> /\ Current' = Current
  BY DEF BeginErase, fivars, Current
<1>2. Attached' = Attached
  BY <1>1 DEF Attached, Detached
<1>3. UsesInv'
  BY <1>1, <1>2 DEF IInv, UsesInv
<1>4. SweepInv'
  BY <1>1 DEF IInv, SweepInv, Sweeping, IsCritical, Body
<1>q. QED
  BY <1>3, <1>4 DEF CodeInv

LEMMA EraseCode ==
  ASSUME IInv, NEW i \in Inst, Erase(i)
  PROVE  CodeInv'
<1>1. /\ phase = "erase" /\ phase' = "erase" /\ i \in todo /\ todo' = todo \ {i}
      /\ live' = live \ {i} /\ i \in wait_del
      /\ UNCHANGED <<prog, uses, users, marked, wait_del, is_pure>> /\ Current' = Current
  BY DEF Erase, fivars, Current, IInv, TypeOK
<1>2. Attached' = Attached
  BY <1>1 DEF Attached, Detached
<1>3. \A j \in live' : j \in wait_del \/ prog.ops[j] \subseteq live'
  BY <1>1 DEF IInv, UsesInv, SweepInv, Sweeping
<1>4. UsesInv'
  BY <1>1, <1>2, <1>3 DEF IInv, UsesInv
<1>5. Body(Current)' = marked \cup (wait_del \cap live')
  BY <1>1 DEF IInv, SweepInv, Sweeping, Body
<1>6. SweepInv'
  BY <1>1, <1>5 DEF IInv, SweepInv, Sweeping, IsCritical
<1>q. QED
  BY <1>4, <1>6 DEF CodeInv

LEMMA EndSweepCode ==
  ASSUME IInv, EndSweep
  PROVE  CodeInv'
<1>1. /\ phase = "erase" /\ phase' = "mark" /\ todo = {}
      /\ UNCHANGED <<prog, live, uses, users, wait_del, todo>>
  BY DEF EndSweep
<1>2. Attached' = Attached
  BY <1>1 DEF Attached, Detached
<1>3. wait_del \cap live = {}
  BY <1>1 DEF IInv, SweepInv
<1>4. UsesInv'
  BY <1>1, <1>2, <1>3 DEF IInv, UsesInv
<1>5. SweepInv'
  BY <1>1, <1>3 DEF SweepInv, Sweeping
<1>q. QED
  BY <1>4, <1>5 DEF CodeInv

LEMMA CodeStep ==
  ASSUME IInv, [Next]_vars
  PROVE  CodeInv'
<1>1. CASE RunFuncInfo
  BY <1>1, RunKeepsCode, SameCode DEF RunFuncInfo, dcvars, Sweeping
<1>2. CASE BeginRound \/ MarkCritical \/ EndRun \/ RunAgain
  BY <1>2, SameCode DEF BeginRound, MarkCritical, EndRun, RunAgain, Sweeping
<1>3. ASSUME NEW i \in Inst, Mark(i)
      PROVE  CodeInv'
  BY <1>3, SameCode DEF Mark, Sweeping
<1>4. CASE UNCHANGED vars
  <2>1. UNCHANGED <<prog, live, uses, users, is_pure, marked, wait_del, todo, phase>> /\ Current' = Current
    BY <1>4 DEF vars, dcvars, fivars, Current
  <2>2. UsesInv'
    BY <2>1 DEF IInv, UsesInv, Attached, Detached
  <2>3. SweepInv'
    BY <2>1 DEF IInv, SweepInv, Sweeping, IsCritical, Body
  <2>q. QED
    BY <2>2, <2>3 DEF CodeInv
<1>q. QED
  BY <1>1, <1>2, <1>3, <1>4, CollectCode, RemoveUseCode, BeginEraseCode, EraseCode, EndSweepCode DEF Next

-----------------------------------------------------------------------------
(* No effect is lost.                                                       *)

\* A function that wrote in the program as it was is impure still, whatever has
\* been erased: what is impure and wrote is closed under calls.
LEMMA WritersImpure ==
  ASSUME IInv, pc = "done"
  PROVE  Writers \subseteq FI!ImpureSet
<1> DEFINE S == Writers \cap FI!ImpureSet
<1>1. FI!Closed(FI!ImpureSet)
  BY DEF IInv, FI!IInv, FI!DoneInv
<1>2. EffectsKept /\ prog.parent \in [Inst -> Func]
  BY DEF IInv, FI!IInv, FI!TypeOK, FI!IsProgram
<1>3. \A g \in Func : Writes(g) => g \in Writers
  BY DEF Writers
<1>4. \A i \in Inst : prog.op[i] = "call" /\ prog.callee[i] \in Writers => prog.parent[i] \in Writers
  BY <1>2 DEF Writers
<1>5. ASSUME NEW g \in Func, Writes(g)
      PROVE  g \in S
  <2>1. FI!TriviallyImpure(g)
    <3>1. CASE prog.sig[g] = "declaration"
      BY <3>1 DEF FI!TriviallyImpure
    <3>2. ASSUME NEW i \in Inst, prog.parent[i] = g, prog.op[i] = "store", ~FI!IsLocal(i)
          PROVE  FI!TriviallyImpure(g)
      <4>1. i \in live
        BY <1>2, <3>2 DEF EffectsKept
      <4>q. QED
        BY <3>2, <4>1 DEF FI!TriviallyImpure, FI!IsSideEffectInst
    <3>q. QED
      BY <1>5, <3>1, <3>2 DEF Writes
  <2>q. QED
    BY <1>1, <1>3, <1>5, <2>1 DEF FI!Closed
<1>6. ASSUME NEW i \in Inst, prog.op[i] = "call", prog.callee[i] \in S
      PROVE  prog.parent[i] \in S
  <2>1. i \in live
    BY <1>2, <1>6 DEF EffectsKept
  <2>q. QED
    BY <1>1, <1>4, <1>6, <2>1 DEF FI!Closed
<1>7. S \in SUBSET Func
  BY DEF Writers
<1> HIDE DEF S
<1>8. Writers \subseteq S
  BY <1>5, <1>6, <1>7 DEF Writers
<1>q. QED
  BY <1>8 DEF S

LEMMA EffectsStep ==
  ASSUME IInv, [Next]_vars
  PROVE  EffectsKept'
<1>1. CASE prog' = prog /\ live' = live
  BY <1>1 DEF IInv, EffectsKept, Writers, Writes, FI!IsLocal
<1>2. ASSUME NEW i \in Inst, Erase(i)
      PROVE  EffectsKept'
  <2>1. /\ phase = "erase" /\ i \in wait_del /\ prog' = prog /\ live' = live \ {i}
    BY <1>2 DEF Erase, IInv, TypeOK
  <2>2. ~IsCritical(i) /\ pc = "done"
    BY <2>1 DEF IInv, SweepInv, PhaseInv, Sweeping
  <2>3. prog.op[i] = "call" => prog.callee[i] \notin Writers
    BY <2>2, WritersImpure DEF IsCritical, FI!ImpureSet
  <2>4. Writers' = Writers
    BY <2>1 DEF Writers, Writes, FI!IsLocal
  <2>q. QED
    BY <2>1, <2>2, <2>3, <2>4 DEF IInv, EffectsKept, IsCritical
<1>3. CASE RunFuncInfo
  BY <1>1, <1>3, RunKeepsCode DEF RunFuncInfo
<1>4. CASE BeginRound \/ MarkCritical \/ CollectUnmarked \/ BeginErase \/ EndSweep \/ EndRun
           \/ RunAgain \/ UNCHANGED vars
  BY <1>1, <1>4 DEF BeginRound, MarkCritical, CollectUnmarked, BeginErase, EndSweep, EndRun, RunAgain, vars
<1>5. ASSUME NEW i \in Inst, Mark(i) \/ RemoveUseOfOps(i)
      PROVE  EffectsKept'
  BY <1>1, <1>5 DEF Mark, RemoveUseOfOps
<1>q. QED
  BY <1>2, <1>3, <1>4, <1>5 DEF Next

-----------------------------------------------------------------------------
(* Marking, and what the rounds leave.                                      *)

\* While the module and the purity of its functions stay, so do needs.
LEMMA SameNeeds ==
  ASSUME prog' = prog, live' = live, is_pure' = is_pure
  PROVE  /\ \A i : IsCritical(i)' <=> IsCritical(i)
         /\ \A f : Body(f)' = Body(f)
         /\ \A f : Tidy(f)' <=> Tidy(f)
<1>1. \A i : IsCritical(i)' <=> IsCritical(i)
  BY DEF IsCritical
<1>2. \A f : Body(f)' = Body(f)
  BY DEF Body
<1>q. QED
  BY <1>1, <1>2 DEF Tidy, Needed

LEMMA MarkStep ==
  ASSUME IInv, NEW i \in Inst, Mark(i)
  PROVE  MarkedInv'
<1> DEFINE new == prog.ops[i] \ marked
<1>1. /\ phase = "propagate" /\ phase' = "propagate" /\ i \in work_list /\ i \in marked
      /\ UNCHANGED <<prog, live, is_pure>> /\ Current' = Current
  BY DEF Mark, fivars, Current, IInv, TypeOK
<1>2. /\ Critical(Body(Current)) \subseteq marked /\ marked \subseteq Body(Current)
      /\ \A j \in marked : j \in work_list \/ prog.ops[j] \subseteq marked
      /\ \A S \in SUBSET marked :
           /\ Critical(marked) \subseteq S
           /\ \A j \in S : prog.ops[j] \cap marked \subseteq S
           => marked \subseteq S
  BY <1>1 DEF IInv, MarkedInv, AtWork
<1>3. /\ prog.ops[i] \subseteq Inst /\ \A d \in prog.ops[i] : prog.parent[d] = prog.parent[i]
      /\ i \in live /\ prog.parent[i] = Current
  BY <1>1, <1>2 DEF IInv, PhaseInv, Body
<1>4. prog.ops[i] \subseteq Body(Current)
  BY <1>1, <1>3 DEF IInv, UsesInv, Body
<1>5. marked' = marked \cup new /\ work_list' = (work_list \ {i}) \cup new
  BY <1>3 DEF Mark
<1>6. \A S : Critical(S)' = Critical(S)
  BY <1>1, SameNeeds DEF Critical
<1>7. Body(Current)' = Body(Current)
  BY <1>1 DEF Body
<1>8. \A j \in marked' : j \in work_list' \/ prog.ops[j] \subseteq marked'
  BY <1>2, <1>5
<1>9. ASSUME NEW S \in SUBSET marked', Critical(marked') \subseteq S,
             \A j \in S : prog.ops[j] \cap marked' \subseteq S
      PROVE  marked' \subseteq S
  <2>1. S \cap marked \in SUBSET marked /\ Critical(marked) \subseteq S \cap marked
    BY <1>5, <1>9 DEF Critical
  <2>2. \A j \in S \cap marked : prog.ops[j] \cap marked \subseteq S \cap marked
    BY <1>5, <1>9
  <2>3. marked \subseteq S
    BY <1>2, <2>1, <2>2
  <2>4. new \subseteq S
    BY <1>1, <1>5, <1>9, <2>3
  <2>q. QED
    BY <1>5, <2>3, <2>4
<1>10. Critical(Body(Current))' \subseteq marked' /\ marked' \subseteq Body(Current)'
  BY <1>2, <1>4, <1>5, <1>6, <1>7
<1>11. \A S \in SUBSET marked' :
         /\ Critical(marked)' \subseteq S
         /\ \A j \in S : prog'.ops[j] \cap marked' \subseteq S
         => marked' \subseteq S
  <2>1. Critical(marked)' = Critical(marked')
    BY <1>1, SameNeeds DEF Critical
  <2>q. QED
    BY <1>1, <1>9, <2>1
<1>12. ~Sweeping'
  BY <1>1 DEF Sweeping
<1>q. QED
  BY <1>1, <1>8, <1>10, <1>11, <1>12 DEF MarkedInv

LEMMA EraseMarked ==
  ASSUME IInv, NEW i \in Inst, Erase(i)
  PROVE  MarkedInv'
<1>1. /\ phase = "erase" /\ phase' = "erase" /\ i \in wait_del /\ live' = live \ {i}
      /\ UNCHANGED <<prog, marked, work_list, is_pure>> /\ Current' = Current
  BY DEF Erase, fivars, Current, IInv, TypeOK
<1>2. /\ i \notin marked /\ MarkedInv
      /\ AtWork /\ AtWork' /\ Sweeping /\ Sweeping'
  BY <1>1 DEF IInv, SweepInv, Sweeping, AtWork
<1>3. Body(Current)' = Body(Current) \ {i}
  BY <1>1 DEF Body
<1>4. \A j : IsCritical(j)' <=> IsCritical(j)
  BY <1>1 DEF IsCritical
<1>5. Critical(Body(Current))' \subseteq Critical(Body(Current)) /\ Critical(marked)' = Critical(marked)
  BY <1>1, <1>3, <1>4 DEF Critical
<1>6. Critical(Body(Current))' \subseteq marked' /\ marked' \subseteq Body(Current)'
  BY <1>1, <1>2, <1>3, <1>5 DEF MarkedInv
<1>7. \A j \in marked' : j \in work_list' \/ prog'.ops[j] \subseteq marked'
  BY <1>1, <1>2 DEF MarkedInv
<1>8. \A S \in SUBSET marked' :
        /\ Critical(marked)' \subseteq S
        /\ \A j \in S : prog'.ops[j] \cap marked' \subseteq S
        => marked' \subseteq S
  BY <1>1, <1>2, <1>5 DEF MarkedInv
<1>9. work_list' = {}
  BY <1>1, <1>2 DEF MarkedInv
<1>q. QED
  BY <1>6, <1>7, <1>8, <1>9 DEF MarkedInv

LEMMA MarkedStep ==
  ASSUME IInv, [Next]_vars
  PROVE  MarkedInv'
<1>1. CASE RunFuncInfo \/ BeginRound \/ EndSweep \/ EndRun \/ RunAgain
  BY <1>1 DEF RunFuncInfo, BeginRound, EndSweep, EndRun, RunAgain, dcvars, MarkedInv, AtWork
<1>2. CASE MarkCritical
  <2>1. /\ phase' = "propagate" /\ marked' = Critical(Body(Current)) /\ work_list' = marked'
        /\ UNCHANGED <<prog, live, is_pure>> /\ Current' = Current
    BY <1>2 DEF MarkCritical, fivars, Current, Critical
  <2>2. \A j : IsCritical(j)' <=> IsCritical(j)
    BY <2>1 DEF IsCritical
  <2>3. Critical(Body(Current))' = marked' /\ marked' \subseteq Body(Current)' /\ Critical(marked)' = marked'
    BY <2>1, <2>2 DEF Critical, Body
  <2>q. QED
    BY <2>1, <2>3 DEF MarkedInv, Sweeping
<1>3. CASE CollectUnmarked \/ BeginErase \/ UNCHANGED vars \/ \E i \in Inst : RemoveUseOfOps(i)
  <2>1. UNCHANGED <<prog, live, is_pure, marked, work_list>> /\ Current' = Current
        /\ (AtWork' => AtWork)
    BY <1>3 DEF CollectUnmarked, BeginErase, RemoveUseOfOps, vars, dcvars, fivars, Current, AtWork
  <2>2. \A j : IsCritical(j)' <=> IsCritical(j)
    BY <2>1 DEF IsCritical
  <2>3. Critical(Body(Current))' = Critical(Body(Current)) /\ Critical(marked)' = Critical(marked)
        /\ Body(Current)' = Body(Current)
    BY <2>1, <2>2 DEF Critical, Body
  <2>4. Sweeping' => work_list' = {}
    BY <1>3 DEF CollectUnmarked, BeginErase, RemoveUseOfOps, vars, dcvars, IInv, MarkedInv, Sweeping, AtWork
  <2>q. QED
    BY <2>1, <2>3, <2>4 DEF IInv, MarkedInv
<1>q. QED
  BY <1>1, <1>2, <1>3, MarkStep, EraseMarked DEF Next

\* When everything has been marked, what is marked is what is needed.
LEMMA NeededIsMarked ==
  ASSUME IInv, AtWork, work_list = {}
  PROVE  Needed(Current) \subseteq marked
<1>1. /\ Critical(Body(Current)) \subseteq marked /\ marked \subseteq Body(Current)
      /\ \A i \in marked : prog.ops[i] \subseteq marked
  BY DEF IInv, MarkedInv
<1>2. {j \in Body(Current) : IsCritical(j)} \subseteq marked
  BY <1>1 DEF Critical
<1>q. QED
  BY <1>1, <1>2 DEF Needed

\* When the current function has been swept, it is tidy.
LEMMA SweptIsTidy ==
  ASSUME IInv, phase = "erase", todo = {}
  PROVE  Tidy(Current)
<1>1. Body(Current) = marked /\ MarkedInv /\ AtWork
  BY DEF IInv, SweepInv, Sweeping, AtWork
<1>2. \A S \in SUBSET marked :
        /\ Critical(marked) \subseteq S
        /\ \A i \in S : prog.ops[i] \cap marked \subseteq S
        => marked \subseteq S
  BY <1>1 DEF MarkedInv
<1>q. QED
  BY <1>1, <1>2 DEF Tidy, Needed, Critical

LEMMA RoundStep ==
  ASSUME IInv, [Next]_vars
  PROVE  RoundInv'
<1>1. /\ RoundInv /\ n \in 1 .. Len(FuncSeq) + 1 /\ Len(FuncSeq) \in Nat
      /\ \A f \in Func : \E l \in 1 .. Len(FuncSeq) : FuncSeq[l] = f
      /\ \A l \in 1 .. Len(FuncSeq) : FuncSeq[l] \in Func
      /\ \A l, m \in 1 .. Len(FuncSeq) : FuncSeq[l] = FuncSeq[m] => l = m
  BY FuncSeqAssumption DEF IInv, TypeOK
<1>2. CASE RunFuncInfo
  BY <1>1, <1>2 DEF RunFuncInfo, dcvars, RoundInv, AtWork
<1>3. CASE BeginRound
  <2>1. /\ UNCHANGED <<prog, live, is_pure>> /\ phase' = "mark" /\ n' = 1 /\ ~changed'
        /\ round' = IF round < 3 THEN round + 1 ELSE 3
    BY <1>3 DEF BeginRound, fivars, RoundCap
  <2>2. CASE phase = "func_info"
    BY <1>1, <2>1, <2>2 DEF RoundInv, AtWork, Sweeping
  <2>3. CASE phase = "mark" /\ n = Len(FuncSeq) + 1 /\ changed
    <3>1. round = 1 /\ \A l \in 1 .. Len(FuncSeq) : Tidy(FuncSeq[l])
      BY <1>1, <2>3 DEF RoundInv
    <3>2. round' = 2 /\ \A f \in Func : Tidy(f)'
      BY <1>1, <2>1, <3>1, SameNeeds
    <3>q. QED
      BY <1>1, <2>1, <3>2 DEF RoundInv, AtWork, Sweeping
  <2>q. QED
    BY <1>3, <2>2, <2>3 DEF BeginRound
<1>4. CASE MarkCritical \/ BeginErase \/ UNCHANGED vars \/ \E i \in Inst : Mark(i) \/ RemoveUseOfOps(i)
  <2>1. /\ UNCHANGED <<prog, live, is_pure, n, round, changed, wait_del>>
        /\ phase' = "mark" \/ AtWork' => phase = "mark" \/ AtWork
        /\ phase' \in {"func_info", "finished"} => phase = phase'
        /\ phase = "func_info" => phase' = "func_info"
        /\ Sweeping' => Sweeping
    BY <1>4 DEF MarkCritical, BeginErase, Mark, RemoveUseOfOps, vars, dcvars, fivars, AtWork, Sweeping
  <2>q. QED
    BY <1>1, <2>1, SameNeeds DEF RoundInv
<1>5. CASE CollectUnmarked
  <2>1. /\ UNCHANGED <<prog, live, is_pure, n, round, changed>> /\ phase = "propagate" /\ work_list = {}
        /\ phase' = "remove_uses" /\ wait_del' = Body(Current) \ marked
    BY <1>5 DEF CollectUnmarked, fivars, Current
  <2>2. Current \in Func
    BY <1>1, <2>1 DEF IInv, PhaseInv, AtWork, Current
  <2>3. round = 2 => wait_del' = {}
    BY <1>1, <2>1, <2>2, NeededIsMarked DEF RoundInv, Tidy, AtWork
  <2>q. QED
    BY <1>1, <2>1, <2>3, SameNeeds DEF RoundInv, AtWork
<1>6. ASSUME NEW i \in Inst, Erase(i)
      PROVE  RoundInv'
  <2>1. /\ UNCHANGED <<prog, is_pure, n, round, changed, wait_del>> /\ phase = "erase" /\ phase' = "erase"
        /\ i \in wait_del /\ live' = live \ {i}
    BY <1>6 DEF Erase, fivars, IInv, TypeOK
  <2>2. round = 1 /\ n \in 1 .. Len(FuncSeq) /\ prog.parent[i] = Current
    BY <1>1, <2>1 DEF RoundInv, Sweeping, IInv, PhaseInv, SweepInv, AtWork
  <2>3. ASSUME NEW l \in 1 .. n - 1
        PROVE  Tidy(FuncSeq[l])'
    <3>1. Tidy(FuncSeq[l])
      BY <1>1, <2>1 DEF RoundInv, AtWork
    <3>2. FuncSeq[l] # Current
      BY <1>1, <2>2 DEF Current
    <3>3. Body(FuncSeq[l])' = Body(FuncSeq[l])
      BY <2>1, <2>2, <3>2 DEF Body
    <3>4. \A j : IsCritical(j)' <=> IsCritical(j)
      BY <2>1 DEF IsCritical
    <3>q. QED
      BY <2>1, <3>1, <3>3, <3>4 DEF Tidy, Needed
  <2>q. QED
    BY <2>1, <2>2, <2>3 DEF RoundInv, AtWork
<1>7. CASE EndSweep
  <2>1. /\ UNCHANGED <<prog, live, is_pure, round, wait_del>> /\ phase = "erase" /\ phase' = "mark" /\ todo = {}
        /\ n' = n + 1 /\ changed' = (changed \/ wait_del # {})
    BY <1>7 DEF EndSweep, fivars
  <2>2. \A l \in 1 .. n' - 1 : Tidy(FuncSeq[l])
    BY <1>1, <2>1, SweptIsTidy DEF RoundInv, AtWork, Current
  <2>3. round = 2 => ~changed' /\ \A f \in Func : Tidy(f)
    BY <1>1, <2>1 DEF RoundInv, Sweeping
  <2>q. QED
    BY <1>1, <2>1, <2>2, <2>3, SameNeeds DEF RoundInv, AtWork, Sweeping
<1>8. CASE EndRun
  <2>1. /\ UNCHANGED <<prog, live, is_pure, n, round, changed>> /\ phase = "mark" /\ phase' = "finished"
        /\ n = Len(FuncSeq) + 1
    BY <1>8 DEF EndRun, fivars
  <2>2. \A f \in Func : Tidy(f)
    BY <1>1, <2>1 DEF RoundInv
  <2>q. QED
    BY <1>1, <2>1, <2>2, SameNeeds DEF RoundInv, AtWork, Sweeping
<1>9. CASE RunAgain
  BY <1>9 DEF RunAgain, RoundInv, AtWork
<1>q. QED
  BY <1>2, <1>3, <1>4, <1>5, <1>6, <1>7, <1>8, <1>9 DEF Next

-----------------------------------------------------------------------------
(* The theorems.                                                            *)

\* The invariant is inductive.
THEOREM Invariance == Spec => []IInv
<1>1. IInv /\ [Next]_vars => IInv'
  <2> SUFFICES ASSUME IInv, [Next]_vars PROVE IInv'
    OBVIOUS
  <2>1. [FI!Next]_FI!vars /\ FI!IInv
    BY StepSimulation DEF IInv
  <2>2. FI!IInv' /\ FI!TypeOK'
    BY <2>1, FuncInfoStep
  <2>3. UsesInv' /\ SweepInv'
    BY CodeStep DEF CodeInv
  <2>q. QED
    BY <2>2, <2>3, TypeStep, PhaseStep, MarkedStep, EffectsStep, RoundStep DEF IInv
<1>q. QED
  BY <1>1, InvInit, PTL DEF Spec

\* Every variable keeps its type; what is to be visited was collected.
THEOREM Typing == Spec => []TypeOK
<1>1. IInv => TypeOK
  BY DEF IInv
<1>q. QED
  BY <1>1, Invariance, PTL

\* At every step a use list names exactly the instructions in the code that have
\* the value as an operand, and only those (remove_use_of_ops, erase).
THEOREM ListsExact == Spec => []UseListsAgree
<1>1. IInv => UseListsAgree
  <2> SUFFICES ASSUME IInv PROVE UseListsAgree
    OBVIOUS
  <2>1. live \subseteq Inst /\ Attached \subseteq live
    BY DEF IInv, FI!IInv, FI!TypeOK, Attached
  <2>2. \A i \in Attached : prog.ops[i] \subseteq live
    BY DEF IInv, UsesInv, SweepInv, Attached, Detached
  <2>3. \A d \in Inst \ live : users[d] = {}
    BY <2>2 DEF IInv, UsesInv
  <2>4. \A d \in live : users[d] = {i \in live \ Detached : d \in prog.ops[i]}
    BY <2>1 DEF IInv, UsesInv, Attached
  <2>5. \A i \in live : i \notin wait_del => prog.ops[i] \cap (Inst \ live) = {}
    BY DEF IInv, UsesInv
  <2>q. QED
    BY <2>3, <2>4, <2>5 DEF UseListsAgree
<1>q. QED
  BY <1>1, Invariance, PTL

\* A run ends with exactly what is needed in every function, has not erased an
\* effect of the program, and takes at most two rounds.
THEOREM NeededIsLeft == Spec => []ExactlyNeeded
<1>1. IInv => ExactlyNeeded
  BY DEF IInv, RoundInv, Tidy, ExactlyNeeded
<1>q. QED
  BY <1>1, Invariance, PTL

\* The pass is a legal environment of FuncInfo: the safety part of
\* ImplementsFuncInfo, so that what is proved of FuncInfo holds within it.
THEOREM Refinement == Spec => FI!Init /\ [][FI!Next]_FI!vars
<1>1. Init => FI!Init
  BY DEF Init
<1>2. IInv /\ [Next]_vars => [FI!Next]_FI!vars
  BY StepSimulation
<1>q. QED
  BY <1>1, <1>2, Invariance, PTL DEF Spec
=============================================================================
