------------------------------ MODULE FuncInfo ------------------------------
(***************************************************************************)
(* The pass FuncInfo (include/optimization/FuncInfo.h): which functions of *)
(* the module are pure.  Every function is first marked from its own       *)
(* signature and instructions; the impure ones are queued, and impurity is *)
(* then carried from callee to caller along the use lists of the           *)
(* functions.                                                              *)
(*                                                                         *)
(* The map is_pure outlives a run: DeadCode keeps one FuncInfo and calls   *)
(* run() again each time it is run itself, after other passes have erased  *)
(* instructions (RemoveUses and EraseInst).                                *)
(***************************************************************************)
EXTENDS Integers, Sequences, Functions

CONSTANTS Func,     \* the functions of the module
          Inst,     \* the instructions of their bodies
          FuncSeq,  \* m_->get_functions(), in order of declaration
          Programs, \* the modules the pass may be run on
          MaxRuns   \* bound: how often run() is called

ASSUME FuncSeqAssumption ==
  /\ FuncSeq \in Seq(Func)
  /\ \A f \in Func : \E n \in 1 .. Len(FuncSeq) : FuncSeq[n] = f
  /\ \A m, n \in 1 .. Len(FuncSeq) : FuncSeq[m] = FuncSeq[n] => m = n

ASSUME MaxRunsAssumption == MaxRuns \in Nat

Sig == {"declaration", "main", "array", "scalar"}
Op  == {"call", "load", "store", "br", "ret", "value"}

\* prog.callee is read for calls only, prog.addr for loads and stores only.
IsProgram(p) == /\ p.sig \in [Func -> Sig]
                /\ p.parent \in [Inst -> Func]
                /\ p.op \in [Inst -> Op]
                /\ p.callee \in [Inst -> Func]

ASSUME ProgramsAssumption == \A p \in Programs : IsProgram(p)

VARIABLES prog,      \* what never changes: signatures and instructions
          live,      \* the instructions still in their basic block
          uses,      \* uses[f]: the use list of f (the calls of it), in no order
          is_pure,   \* the result map
          worklist,  \* the queue of impure functions
          pc,        \* "mark", "work", "process" or "done"
          k,         \* position of the first loop in FuncSeq
          now,       \* the function being processed
          pending,   \* the uses of now that process has still to visit
          runs       \* calls of run() so far

irvars == <<prog, live, uses>>
fivars == <<is_pure, worklist, pc, k, now, pending, runs>>
vars   == <<prog, live, uses, is_pure, worklist, pc, k, now, pending, runs>>

-----------------------------------------------------------------------------
(* The module under analysis.                                              *)

Calls(f) == {i \in live : prog.op[i] = "call" /\ prog.callee[i] = f}

\* The value an address is computed from.  An address is the chain of opcodes that
\* compute it, each of them followed by its first operand that is a pointer: an
\* alloca or a load ends the search, everything else is looked through as long as
\* there is such an operand.
GetFirstAddr(a) ==
  LET Ends(n) == a[n] \in {"alloca", "load"} \/ n = Len(a)
  IN a[CHOOSE n \in 1 .. Len(a) : Ends(n) /\ \A m \in 1 .. n - 1 : ~Ends(m)]

IsLocal(i) == GetFirstAddr(prog.addr[i]) = "alloca"

IsSideEffectInst(i) == prog.op[i] \in {"load", "store"} /\ ~IsLocal(i)

\* trivial_mark finds the function impure.
TriviallyImpure(f) ==
  \/ prog.sig[f] \in {"declaration", "main", "array"}
  \/ \E i \in live : prog.parent[i] = f /\ IsSideEffectInst(i)

Init == /\ prog \in Programs
        /\ live = Inst
        /\ uses = [f \in Func |-> Calls(f)]
        /\ is_pure = [f \in Func |-> FALSE]
        /\ worklist = <<>>
        /\ pc = "mark"
        /\ k = 1
        /\ now = CHOOSE f \in Func : TRUE
        /\ pending = {}
        /\ runs = 1

-----------------------------------------------------------------------------
(* run(), one iteration of a loop at a time.                               *)

\* Mutant: an entry is never set back to pure, so that a later run keeps old results.
TrivialMarkKeepsStale ==
  /\ pc = "mark"
  /\ k <= Len(FuncSeq)
  /\ LET f == FuncSeq[k]
         impure == TriviallyImpure(f) \/ (runs > 1 /\ ~is_pure[f])
     IN /\ is_pure' = [is_pure EXCEPT ![f] = ~impure]
        /\ worklist' = IF impure THEN Append(worklist, f) ELSE worklist
  /\ k' = k + 1
  /\ UNCHANGED <<irvars, pc, now, pending, runs>>

\* One iteration of the first loop: trivial_mark, and push_back if impure.
TrivialMark ==
  /\ pc = "mark"
  /\ k <= Len(FuncSeq)
  /\ LET f == FuncSeq[k] IN
       /\ is_pure' = [is_pure EXCEPT ![f] = ~TriviallyImpure(f)]
       /\ worklist' = IF TriviallyImpure(f) THEN Append(worklist, f) ELSE worklist
  /\ k' = k + 1
  /\ UNCHANGED <<irvars, pc, now, pending, runs>>

\* Mutant: the iterator is advanced once more when the loop ends.
EndMarkTooFar ==
  /\ pc = "mark"
  /\ k = Len(FuncSeq) + 1
  /\ pc' = "work"
  /\ k' = k + 1
  /\ UNCHANGED <<irvars, is_pure, worklist, now, pending, runs>>

EndMark ==
  /\ pc = "mark"
  /\ k = Len(FuncSeq) + 1
  /\ pc' = "work"
  /\ UNCHANGED <<irvars, is_pure, worklist, k, now, pending, runs>>

\* Mutant: front() without pop_front().
PopKeepsFront ==
  /\ pc = "work"
  /\ worklist # <<>>
  /\ now' = Head(worklist)
  /\ pending' = uses[Head(worklist)]
  /\ pc' = "process"
  /\ UNCHANGED <<irvars, is_pure, worklist, k, runs>>

Pop ==
  /\ pc = "work"
  /\ worklist # <<>>
  /\ now' = Head(worklist)
  /\ worklist' = Tail(worklist)
  /\ pending' = uses[Head(worklist)]
  /\ pc' = "process"
  /\ UNCHANGED <<irvars, is_pure, k, runs>>

\* Mutant: the caller is marked but not queued.
ProcessUseNoPush(i) ==
  /\ pc = "process"
  /\ i \in pending
  /\ pending' = pending \ {i}
  /\ is_pure' = [is_pure EXCEPT ![prog.parent[i]] = FALSE]
  /\ UNCHANGED <<irvars, worklist, pc, k, now, runs>>

\* Mutant: the caller is queued whether or not it was pure.
ProcessUseAlwaysPush(i) ==
  /\ pc = "process"
  /\ i \in pending
  /\ pending' = pending \ {i}
  /\ is_pure' = [is_pure EXCEPT ![prog.parent[i]] = FALSE]
  /\ worklist' = Append(worklist, prog.parent[i])
  /\ UNCHANGED <<irvars, pc, k, now, runs>>

\* One iteration of the loop of process(now) over the uses of now.
ProcessUse(i) ==
  /\ pc = "process"
  /\ i \in pending
  /\ pending' = pending \ {i}
  /\ LET caller == prog.parent[i] IN
       /\ is_pure' = [is_pure EXCEPT ![caller] = FALSE]
       /\ worklist' = IF is_pure[caller] THEN Append(worklist, caller) ELSE worklist
  /\ UNCHANGED <<irvars, pc, k, now, runs>>

EndProcess ==
  /\ pc = "process"
  /\ pending = {}
  /\ pc' = "work"
  /\ UNCHANGED <<irvars, is_pure, worklist, k, now, pending, runs>>

Finish ==
  /\ pc = "work"
  /\ worklist = <<>>
  /\ pc' = "done"
  /\ UNCHANGED <<irvars, is_pure, worklist, k, now, pending, runs>>

Run == \/ TrivialMark \/ EndMark
       \/ Pop \/ (\E i \in Inst : ProcessUse(i)) \/ EndProcess
       \/ Finish

-----------------------------------------------------------------------------
(* Between two calls of run().                                             *)

\* remove_use_of_ops of an instruction that is about to be erased.
RemoveUses(i) ==
  /\ pc = "done"
  /\ i \in live
  /\ uses' = [f \in Func |-> uses[f] \ {i}]
  /\ UNCHANGED <<prog, live, fivars>>

EraseInst(i) ==
  /\ pc = "done"
  /\ i \in live
  /\ \A f \in Func : i \notin uses[f]
  /\ live' = live \ {i}
  /\ UNCHANGED <<prog, uses, fivars>>

\* Mutant: the first loop is skipped when the results are there already.
RunAgainUnmarked ==
  /\ pc = "done"
  /\ runs < MaxRuns
  /\ \A f \in Func : uses[f] = Calls(f)
  /\ pc' = "work"
  /\ k' = 1
  /\ runs' = runs + 1
  /\ UNCHANGED <<irvars, is_pure, worklist, now, pending>>

\* run() is called again; is_pure still holds the results of the last run.
RunAgain ==
  /\ pc = "done"
  /\ runs < MaxRuns
  /\ \A f \in Func : uses[f] = Calls(f)
  /\ pc' = "mark"
  /\ k' = 1
  /\ runs' = runs + 1
  /\ UNCHANGED <<irvars, is_pure, worklist, now, pending>>

Between == RunAgain \/ \E i \in Inst : RemoveUses(i) \/ EraseInst(i)

Next == Run \/ Between

Spec == Init /\ [][Next]_vars /\ WF_vars(Run)

-----------------------------------------------------------------------------
(* What makes the result right.                                            *)

ImpureSet == {f \in Func : ~is_pure[f]}

\* S holds every function that is impure by itself and is closed under "calls".
Closed(S) ==
  /\ \A f \in Func : TriviallyImpure(f) => f \in S
  /\ \A i \in live : prog.op[i] = "call" /\ prog.callee[i] \in S => prog.parent[i] \in S

\* The functions that have, or reach through calls, an effect: the least closed set.
Impure == {f \in Func : \A S \in SUBSET Func : Closed(S) => f \in S}

TypeOK ==
  /\ IsProgram(prog)
  /\ live \in SUBSET Inst
  /\ uses \in [Func -> SUBSET Inst]
  /\ is_pure \in [Func -> BOOLEAN]
  /\ worklist \in Seq(Func)
  /\ pc \in {"mark", "work", "process", "done"}
  /\ k \in 1 .. Len(FuncSeq) + 1
  /\ pc = "process" => now \in Func
  /\ pending \in SUBSET Inst
  /\ runs \in Nat

\* Once run() has returned, no function that has an effect or reaches one
\* through any chain of calls is reported pure; erasing instructions later
\* cannot make a reported result wrong.
Sound == pc = "done" => Impure \subseteq ImpureSet

\* While run() propagates, every function it has made impure really has or
\* reaches an effect: neither a stale entry of is_pure from an earlier run nor
\* a use of an erased call makes a function impure.
Precise == pc \in {"work", "process"} => ImpureSet \subseteq Impure

\* A function is queued at most once per run: the queue holds only impure
\* functions, each of them once, and never the one being processed, so that
\* process() is called at most once for each function.
QueuedOnce ==
  /\ \A m, n \in 1 .. Len(worklist) : worklist[m] = worklist[n] => m = n
  /\ pc = "process" => now \notin Range(worklist)

\* The use lists a run walks list exactly the calls still in the code.
UsesAreCalls ==
  pc # "done" => \A f \in Func : uses[f] = Calls(f)

\* The queue holds impure functions; in the first loop they are those marked so far.
QueueInv ==
  /\ QueuedOnce
  /\ \A f \in Range(worklist) : ~is_pure[f]
  /\ pc = "mark" => \A f \in Range(worklist) : \E n \in 1 .. k - 1 : FuncSeq[n] = f
  /\ pc = "done" => worklist = <<>>

\* The functions already marked are classified, and queued if impure.
MarkInv ==
  pc = "mark" =>
    \A n \in 1 .. k - 1 :
      /\ is_pure[FuncSeq[n]] <=> ~TriviallyImpure(FuncSeq[n])
      /\ ~is_pure[FuncSeq[n]] => FuncSeq[n] \in Range(worklist)

\* An impure function waits in the queue, or each of its callers is impure too
\* or about to be visited.
PropagateInv ==
  pc \in {"work", "process"} =>
    /\ Precise
    /\ \A f \in Func : TriviallyImpure(f) => ~is_pure[f]
    /\ \A f \in ImpureSet :
         \/ f \in Range(worklist)
         \/ \A i \in uses[f] : \/ ~is_pure[prog.parent[i]]
                               \/ (pc = "process" /\ f = now /\ i \in pending)
    /\ pc = "process" => ~is_pure[now] /\ pending \subseteq uses[now]

DoneInv == pc = "done" => Closed(ImpureSet)

\* The inductive invariant.
IInv == TypeOK /\ UsesAreCalls /\ QueueInv /\ MarkInv /\ PropagateInv /\ DoneInv

\* Every call of run() returns, whatever recursion the call graph has.
Terminates == (pc = "mark") ~> (pc = "done")

-----------------------------------------------------------------------------
(* FuncInfo implements Purity.  While the functions are being marked, the  *)
(* entries of is_pure that are not yet overwritten do not count.           *)

Marked == IF pc = "mark" THEN {FuncSeq[n] : n \in 1 .. k - 1} ELSE Func

P == INSTANCE Purity WITH
       seeds   <- {f \in Func : TriviallyImpure(f)},
       callers <- [f \in Func |-> {prog.parent[i] : i \in Calls(f)}],
       impure  <- {f \in Marked : ~is_pure[f]},
       final   <- pc = "done"

\* Every step of the analysis is a justified discovery, it ends only when
\* nothing is left to discover, and it ends: the abstract specification.
ImplementsPurity == P!Spec
=============================================================================
