--------------------------- MODULE FuncInfoProofs ---------------------------
(* The invariants of FuncInfo, for every module and every order of work.   *)
EXTENDS FuncInfo, TLAPS

\* Appending to a queue adds exactly the appended element to its members, and
\* keeps the members distinct if the element is new.
LEMMA AppendMembers ==
  ASSUME NEW s \in Seq(Func), NEW f \in Func
  PROVE  /\ Append(s, f) \in Seq(Func)
         /\ Range(Append(s, f)) = Range(s) \cup {f}
         /\ ( /\ f \notin Range(s)
              /\ \A m, n \in 1 .. Len(s) : s[m] = s[n] => m = n )
            => \A m, n \in 1 .. Len(Append(s, f)) :
                 Append(s, f)[m] = Append(s, f)[n] => m = n
<1> DEFINE t == Append(s, f)
<1>1. /\ t \in Seq(Func) /\ Len(s) \in Nat /\ Len(t) = Len(s) + 1 /\ t[Len(s) + 1] = f
      /\ DOMAIN s = 1 .. Len(s) /\ DOMAIN t = 1 .. Len(s) + 1
  OBVIOUS
<1>2. \A n \in 1 .. Len(s) : t[n] = s[n]
  OBVIOUS
<1> HIDE DEF t
<1> USE DEF Range
<1>3. Range(t) = Range(s) \cup {f}
  <2>1. Range(t) \subseteq Range(s) \cup {f}
    <3>1. SUFFICES ASSUME NEW n \in 1 .. Len(s) + 1 PROVE t[n] \in Range(s) \cup {f}
      BY <1>1
    <3>2. n = Len(s) + 1 \/ n \in 1 .. Len(s)
      BY <1>1
    <3>3. QED
      BY <1>1, <1>2, <3>2
  <2>2. Range(s) \cup {f} \subseteq Range(t)
    <3>1. ASSUME NEW n \in 1 .. Len(s) PROVE s[n] \in Range(t)
      BY <1>1, <1>2, <3>1
    <3>2. f \in Range(t)
      BY <1>1
    <3>3. QED
      BY <1>1, <3>1, <3>2
  <2>3. QED
    BY <2>1, <2>2
<1>4. ASSUME f \notin Range(s), \A m, n \in 1 .. Len(s) : s[m] = s[n] => m = n,
             NEW m \in 1 .. Len(t), NEW n \in 1 .. Len(t), t[m] = t[n]
      PROVE  m = n
  <2>1. \A j \in 1 .. Len(s) : t[j] # f
    BY <1>1, <1>2, <1>4
  <2>2. CASE m \in 1 .. Len(s) /\ n \in 1 .. Len(s)
    BY <1>2, <1>4, <2>2
  <2>3. CASE m = Len(s) + 1 \/ n = Len(s) + 1
    BY <1>1, <1>4, <2>1, <2>3
  <2>4. QED
    BY <1>1, <2>2, <2>3
<1>5. QED
  BY <1>1, <1>3, <1>4 DEF t

\* Popping a queue of distinct members removes exactly its head.
LEMMA TailMembers ==
  ASSUME NEW s \in Seq(Func), s # <<>>
  PROVE  /\ Head(s) \in Func
         /\ Tail(s) \in Seq(Func)
         /\ Range(s) = Range(Tail(s)) \cup {Head(s)}
         /\ (\A m, n \in 1 .. Len(s) : s[m] = s[n] => m = n)
            => /\ Head(s) \notin Range(Tail(s))
               /\ \A m, n \in 1 .. Len(Tail(s)) : Tail(s)[m] = Tail(s)[n] => m = n
<1> USE DEF Range
<1>1. Head(s) \in Func /\ Tail(s) \in Seq(Func) /\ Len(Tail(s)) = Len(s) - 1
      /\ Len(s) \in Nat \ {0} /\ Head(s) = s[1]
  OBVIOUS
<1>2. /\ \A n \in 1 .. Len(Tail(s)) : Tail(s)[n] = s[n + 1]
      /\ DOMAIN Tail(s) = 1 .. Len(Tail(s)) /\ DOMAIN s = 1 .. Len(s)
  OBVIOUS
<1>3. Range(s) \subseteq Range(Tail(s)) \cup {Head(s)}
  <2>1. SUFFICES ASSUME NEW n \in 1 .. Len(s), n # 1
                 PROVE  s[n] \in Range(Tail(s))
    BY <1>1
  <2>2. n - 1 \in 1 .. Len(Tail(s)) /\ Tail(s)[n - 1] = s[n]
    BY <1>1, <1>2, <2>1
  <2>3. QED
    BY <1>2, <2>2
<1>4. Range(Tail(s)) \cup {Head(s)} \subseteq Range(s)
  BY <1>1, <1>2
<1>5. ASSUME \A m, n \in 1 .. Len(s) : s[m] = s[n] => m = n
      PROVE  /\ Head(s) \notin Range(Tail(s))
             /\ \A m, n \in 1 .. Len(Tail(s)) : Tail(s)[m] = Tail(s)[n] => m = n
  BY <1>1, <1>2, <1>5
<1>6. QED
  BY <1>1, <1>3, <1>4, <1>5

-----------------------------------------------------------------------------
\* Initially each variable has its type.
LEMMA TypeInit == Init => TypeOK
<1> SUFFICES ASSUME Init PROVE TypeOK
  OBVIOUS
<1>1. IsProgram(prog)
  BY ProgramsAssumption DEF Init
<1>2. Len(FuncSeq) \in Nat
  BY FuncSeqAssumption
<1>3. QED
  BY <1>1, <1>2 DEF Init, TypeOK, Calls

\* Each step keeps the types.
LEMMA TypeStep == TypeOK /\ [Next]_vars => TypeOK'
<1> SUFFICES ASSUME TypeOK, [Next]_vars PROVE TypeOK'
  OBVIOUS
<1> USE DEF TypeOK, irvars, fivars
<1>1. CASE TrivialMark
  <2>1. k \in 1 .. Len(FuncSeq) /\ FuncSeq[k] \in Func
    BY <1>1, FuncSeqAssumption DEF TrivialMark
  <2>2. worklist' \in Seq(Func)
    BY <1>1, <2>1, AppendMembers DEF TrivialMark
  <2>3. is_pure' \in [Func -> BOOLEAN]
    <3>1. (~TriviallyImpure(FuncSeq[k])) \in BOOLEAN
      OBVIOUS
    <3>2. QED
      BY <1>1, <2>1, <3>1 DEF TrivialMark
  <2>4. k' \in 1 .. Len(FuncSeq) + 1
    BY <1>1, <2>1 DEF TrivialMark
  <2>5. QED
    BY <1>1, <2>2, <2>3, <2>4 DEF TrivialMark, IsProgram
<1>2. CASE EndMark
  BY <1>2 DEF EndMark, IsProgram
<1>3. CASE Pop
  BY <1>3, TailMembers DEF Pop, IsProgram
<1>4. ASSUME NEW i \in Inst, ProcessUse(i) PROVE TypeOK'
  <2>1. prog.parent[i] \in Func
    BY DEF IsProgram
  <2>2. Append(worklist, prog.parent[i]) \in Seq(Func)
    BY <2>1
  <2>3. QED
    BY <1>4, <2>1, <2>2 DEF ProcessUse, IsProgram
<1>5. CASE EndProcess
  BY <1>5 DEF EndProcess, IsProgram
<1>6. CASE Finish
  BY <1>6 DEF Finish, IsProgram
<1>7. ASSUME NEW i \in Inst, RemoveUses(i) PROVE TypeOK'
  BY <1>7 DEF RemoveUses, IsProgram
<1>8. ASSUME NEW i \in Inst, EraseInst(i) PROVE TypeOK'
  BY <1>8 DEF EraseInst, IsProgram
<1>9. CASE RunAgain
  <2>1. 1 \in 1 .. Len(FuncSeq) + 1
    BY FuncSeqAssumption
  <2>2. QED
    BY <1>9, <2>1 DEF RunAgain, IsProgram
<1>10. CASE UNCHANGED vars
  BY <1>10 DEF vars, IsProgram
<1>11. QED
  BY <1>1, <1>2, <1>3, <1>4, <1>5, <1>6, <1>7, <1>8, <1>9, <1>10
     DEF Next, Run, Between

(* Every variable keeps its type: the queue holds functions, and while a    *)
(* function is processed the pending uses are instructions of the module.   *)
THEOREM Typing == Spec => []TypeOK
BY TypeInit, TypeStep, PTL DEF Spec

-----------------------------------------------------------------------------
(* The invariant, one lemma for each part of run().                         *)

\* Marking the next function keeps what is known of the functions before it.
LEMMA TrivialMarkStep ==
  ASSUME IInv, TypeOK', TrivialMark
  PROVE  IInv'
<1> DEFINE f == FuncSeq[k]
<1>1. /\ k \in 1 .. Len(FuncSeq) /\ f \in Func /\ Len(FuncSeq) \in Nat
      /\ \A n \in 1 .. k - 1 : FuncSeq[n] \in Func /\ FuncSeq[n] # f
  <2>1. k \in 1 .. Len(FuncSeq) /\ FuncSeq \in Seq(Func) /\ Len(FuncSeq) \in Nat
    BY FuncSeqAssumption DEF TrivialMark, IInv, TypeOK
  <2>2. \A n \in 1 .. k - 1 : n \in 1 .. Len(FuncSeq) /\ n # k
    BY <2>1
  <2>3. QED
    BY <2>1, <2>2, FuncSeqAssumption
<1>2. /\ pc = "mark" /\ pc' = "mark" /\ k' = k + 1 /\ k \in Nat
      /\ prog' = prog /\ live' = live /\ uses' = uses
      /\ worklist \in Seq(Func) /\ is_pure \in [Func -> BOOLEAN]
  BY <1>1 DEF TrivialMark, IInv, TypeOK, irvars
<1>3. \A g \in Func : TriviallyImpure(g)' <=> TriviallyImpure(g)
  BY <1>2 DEF TriviallyImpure, IsSideEffectInst, IsLocal
<1>4. f \notin Range(worklist)
  BY <1>1, <1>2 DEF IInv, QueueInv
<1>5. /\ is_pure'[f] <=> ~TriviallyImpure(f)
      /\ \A g \in Func : g # f => is_pure'[g] = is_pure[g]
      /\ worklist' = IF TriviallyImpure(f) THEN Append(worklist, f) ELSE worklist
  BY <1>1, <1>2 DEF TrivialMark
<1> HIDE DEF f
<1>6. /\ Range(worklist') = IF TriviallyImpure(f) THEN Range(worklist) \cup {f}
                            ELSE Range(worklist)
      /\ \A m, n \in 1 .. Len(worklist') : worklist'[m] = worklist'[n] => m = n
  <2>1. \A m, n \in 1 .. Len(worklist) : worklist[m] = worklist[n] => m = n
    BY DEF IInv, QueueInv, QueuedOnce
  <2>2. QED
    <3>1. CASE TriviallyImpure(f)
      BY <1>1, <1>2, <1>4, <1>5, <2>1, <3>1, AppendMembers
    <3>2. CASE ~TriviallyImpure(f)
      BY <1>5, <2>1, <3>2
    <3>3. QED
      BY <3>1, <3>2
<1>7. UsesAreCalls'
  BY <1>2 DEF IInv, UsesAreCalls, Calls
<1>8. QueueInv'
  <2>1. QueuedOnce'
    BY <1>2, <1>6 DEF QueuedOnce
  <2>2. \A g \in Range(worklist) : g \in Func /\ g # f /\ ~is_pure[g]
    BY <1>2, <1>4 DEF IInv, QueueInv, Range
  <2>3. \A g \in Range(worklist') : ~is_pure'[g]
    BY <1>1, <1>5, <1>6, <2>2
  <2>4. \A g \in Range(worklist') : \E n \in 1 .. k : FuncSeq[n] = g
    <3>1. \A g \in Range(worklist) : \E n \in 1 .. k - 1 : FuncSeq[n] = g
      BY <1>2 DEF IInv, QueueInv
    <3>2. FuncSeq[k] = f /\ k \in 1 .. k /\ (1 .. k - 1) \subseteq (1 .. k)
      BY <1>1 DEF f
    <3>3. QED
      BY <1>6, <3>1, <3>2
  <2>5. QED
    BY <1>2, <2>1, <2>3, <2>4 DEF QueueInv
<1>9. MarkInv'
  <2>1. SUFFICES ASSUME NEW n \in 1 .. k
                 PROVE  /\ is_pure'[FuncSeq[n]] <=> ~TriviallyImpure(FuncSeq[n])
                        /\ ~is_pure'[FuncSeq[n]] => FuncSeq[n] \in Range(worklist')
    <3>1. \A n \in 1 .. k' - 1 : n \in 1 .. k /\ FuncSeq[n] \in Func
      BY <1>1, <1>2 DEF f
    <3>2. QED
      BY <1>3, <2>1, <3>1 DEF MarkInv
  <2>2. CASE n = k
    BY <1>5, <1>6, <2>2 DEF f
  <2>3. CASE n # k
    <3>1. n \in 1 .. k - 1
      BY <1>1, <2>3
    <3>2. QED
      BY <1>1, <1>2, <1>5, <1>6, <3>1 DEF IInv, MarkInv
  <2>4. QED
    BY <2>2, <2>3
<1>10. PropagateInv' /\ DoneInv'
  BY <1>2 DEF PropagateInv, DoneInv
<1>11. QED
  BY <1>7, <1>8, <1>9, <1>10 DEF IInv

\* When all functions are marked, the impure ones are those impure by themselves,
\* and all of them are queued.
LEMMA EndMarkStep ==
  ASSUME IInv, TypeOK', EndMark
  PROVE  IInv'
<1>1. /\ pc = "mark" /\ pc' = "work" /\ k = Len(FuncSeq) + 1
      /\ prog' = prog /\ live' = live /\ uses' = uses
      /\ is_pure' = is_pure /\ worklist' = worklist
  BY DEF EndMark, irvars
<1>2. \A f \in Func : /\ ~is_pure[f] => TriviallyImpure(f)
                      /\ TriviallyImpure(f) => ~is_pure[f]
                      /\ ~is_pure[f] => f \in Range(worklist)
  <2>1. \A f \in Func : \E n \in 1 .. k - 1 : FuncSeq[n] = f
    BY <1>1, FuncSeqAssumption
  <2>2. QED
    BY <1>1, <2>1 DEF IInv, MarkInv
<1>3. /\ \A f \in Func : TriviallyImpure(f)' <=> TriviallyImpure(f)
      /\ Impure' = Impure /\ ImpureSet' = ImpureSet
  BY <1>1 DEF TriviallyImpure, IsSideEffectInst, IsLocal, Impure, Closed, ImpureSet
<1>4. ImpureSet \subseteq Impure
  <2>1. SUFFICES ASSUME NEW f \in Func, ~is_pure[f], NEW S \in SUBSET Func, Closed(S)
                 PROVE  f \in S
    BY DEF ImpureSet, Impure
  <2>2. TriviallyImpure(f)
    BY <1>2, <2>1
  <2>3. QED
    BY <2>1, <2>2 DEF Closed
<1>5. UsesAreCalls'
  BY <1>1 DEF IInv, UsesAreCalls, Calls
<1>6. QueueInv' /\ MarkInv' /\ DoneInv'
  BY <1>1 DEF IInv, QueueInv, QueuedOnce, MarkInv, DoneInv
<1>7. PropagateInv'
  <2>1. Precise'
    BY <1>3, <1>4 DEF Precise
  <2>2. \A f \in Func : TriviallyImpure(f)' => ~is_pure'[f]
    BY <1>1, <1>2, <1>3
  <2>3. \A f \in ImpureSet' : f \in Range(worklist')
    BY <1>1, <1>2 DEF ImpureSet
  <2>4. QED
    BY <1>1, <2>1, <2>2, <2>3 DEF PropagateInv
<1>8. QED
  BY <1>5, <1>6, <1>7 DEF IInv

\* The function popped from the queue becomes the one whose uses are pending.
LEMMA PopStep ==
  ASSUME IInv, TypeOK', Pop
  PROVE  IInv'
<1>1. /\ pc = "work" /\ pc' = "process" /\ worklist # <<>> /\ now' = Head(worklist)
      /\ worklist' = Tail(worklist) /\ pending' = uses[Head(worklist)]
      /\ prog' = prog /\ live' = live /\ uses' = uses /\ is_pure' = is_pure
      /\ worklist \in Seq(Func)
  BY DEF Pop, IInv, TypeOK, irvars
<1>2. /\ now' \in Func /\ Range(worklist) = Range(worklist') \cup {now'}
      /\ now' \notin Range(worklist')
      /\ \A m, n \in 1 .. Len(worklist') : worklist'[m] = worklist'[n] => m = n
  <2>1. \A m, n \in 1 .. Len(worklist) : worklist[m] = worklist[n] => m = n
    BY DEF IInv, QueueInv, QueuedOnce
  <2>2. /\ Head(worklist) \in Func
        /\ Range(worklist) = Range(Tail(worklist)) \cup {Head(worklist)}
        /\ Head(worklist) \notin Range(Tail(worklist))
        /\ \A m, n \in 1 .. Len(Tail(worklist)) :
             Tail(worklist)[m] = Tail(worklist)[n] => m = n
    BY <1>1, <2>1, TailMembers
  <2>3. QED
    BY <1>1, <2>2
<1>3. /\ \A f \in Func : TriviallyImpure(f)' <=> TriviallyImpure(f)
      /\ Impure' = Impure /\ ImpureSet' = ImpureSet
  BY <1>1 DEF TriviallyImpure, IsSideEffectInst, IsLocal, Impure, Closed, ImpureSet
<1>4. UsesAreCalls'
  BY <1>1 DEF IInv, UsesAreCalls, Calls
<1>5. QueueInv' /\ MarkInv' /\ DoneInv'
  BY <1>1, <1>2 DEF IInv, QueueInv, QueuedOnce, MarkInv, DoneInv
<1>6. PropagateInv'
  BY <1>1, <1>2, <1>3 DEF IInv, QueueInv, PropagateInv, Precise, ImpureSet
<1>7. QED
  BY <1>4, <1>5, <1>6 DEF IInv

\* A visited caller becomes impure and is queued, if it was not impure before.
LEMMA ProcessUseStep ==
  ASSUME IInv, TypeOK', NEW u \in Inst, ProcessUse(u)
  PROVE  IInv'
<1> DEFINE caller == prog.parent[u]
<1>1. /\ pc = "process" /\ pc' = "process" /\ u \in pending /\ pending' = pending \ {u}
      /\ prog' = prog /\ live' = live /\ uses' = uses /\ now' = now
      /\ worklist \in Seq(Func) /\ is_pure \in [Func -> BOOLEAN]
      /\ caller \in Func /\ now \in Func
  BY DEF ProcessUse, IInv, TypeOK, IsProgram, irvars
<1>2. /\ ~is_pure'[caller]
      /\ \A g \in Func : g # caller => is_pure'[g] = is_pure[g]
      /\ worklist' = IF is_pure[caller] THEN Append(worklist, caller) ELSE worklist
      /\ \A g \in Func : ~is_pure[g] => ~is_pure'[g]
  BY <1>1 DEF ProcessUse
<1>3. /\ ~is_pure[now] /\ pending \subseteq uses[now] /\ uses[now] = Calls(now)
      /\ Precise /\ \A f \in Func : TriviallyImpure(f) => ~is_pure[f]
      /\ \A m, n \in 1 .. Len(worklist) : worklist[m] = worklist[n] => m = n
      /\ \A f \in Range(worklist) : ~is_pure[f]
      /\ now \notin Range(worklist)
  BY <1>1 DEF IInv, PropagateInv, UsesAreCalls, QueueInv, QueuedOnce
<1>4. u \in live /\ prog.op[u] = "call" /\ prog.callee[u] = now
  BY <1>1, <1>3 DEF Calls
<1>5. caller \in Impure
  <2>1. now \in Impure
    BY <1>1, <1>3 DEF Precise, ImpureSet
  <2>2. QED
    BY <1>1, <1>4, <2>1 DEF Impure, Closed
<1> HIDE DEF caller
<1>6. /\ \A f \in Func : TriviallyImpure(f)' <=> TriviallyImpure(f)
      /\ Impure' = Impure
  BY <1>1 DEF TriviallyImpure, IsSideEffectInst, IsLocal, Impure, Closed
<1>7. Precise'
  <2>1. \A f \in Func : ~is_pure'[f] => f = caller \/ ~is_pure[f]
    BY <1>2
  <2>2. QED
    BY <1>1, <1>3, <1>5, <1>6, <2>1 DEF Precise, ImpureSet
<1>8. /\ Range(worklist') = IF is_pure[caller] THEN Range(worklist) \cup {caller}
                            ELSE Range(worklist)
      /\ \A m, n \in 1 .. Len(worklist') : worklist'[m] = worklist'[n] => m = n
  <2>1. CASE is_pure[caller]
    <3>1. caller \notin Range(worklist)
      BY <1>3, <2>1
    <3>2. QED
      BY <1>1, <1>2, <1>3, <2>1, <3>1, AppendMembers
  <2>2. CASE ~is_pure[caller]
    BY <1>2, <1>3, <2>2
  <2>3. QED
    BY <2>1, <2>2
<1>9. UsesAreCalls'
  BY <1>1 DEF IInv, UsesAreCalls, Calls
<1>10. QueueInv'
  <2>1. \A g \in Range(worklist) : g \in Func
    BY <1>1 DEF Range
  <2>2. \A g \in Range(worklist') : ~is_pure'[g]
    BY <1>1, <1>2, <1>3, <1>8, <2>1
  <2>3. now \notin Range(worklist')
    BY <1>3, <1>8
  <2>4. QED
    BY <1>1, <1>8, <2>2, <2>3 DEF QueueInv, QueuedOnce
<1>11. MarkInv' /\ DoneInv'
  BY <1>1 DEF MarkInv, DoneInv
<1>12. PropagateInv'
  <2>1. \A f \in Func : TriviallyImpure(f)' => ~is_pure'[f]
    BY <1>2, <1>3, <1>6
  <2>2. ASSUME NEW f \in ImpureSet', f \notin Range(worklist'),
               NEW i \in uses[f], ~(f = now /\ i \in pending')
        PROVE  ~is_pure'[prog.parent[i]]
    <3>1. f \in Func /\ f \in ImpureSet /\ f \notin Range(worklist) /\ prog.parent[i] \in Func
      <4>1. f \in Func /\ ~is_pure'[f]
        BY <2>2 DEF ImpureSet
      <4>2. f # caller \/ ~is_pure[caller]
        BY <1>8, <2>2
      <4>3. ~is_pure[f]
        BY <1>2, <4>1, <4>2
      <4>4. i \in Inst
        BY <2>2, <4>1 DEF IInv, TypeOK
      <4>5. QED
        BY <1>8, <2>2, <4>1, <4>3, <4>4 DEF ImpureSet, IInv, TypeOK, IsProgram
    <3>2. CASE f = now /\ i = u
      BY <1>2, <3>2 DEF caller
    <3>3. CASE ~(f = now /\ i = u)
      <4>1. ~(pc = "process" /\ f = now /\ i \in pending)
        BY <1>1, <2>2, <3>3
      <4>2. ~is_pure[prog.parent[i]]
        BY <1>1, <2>2, <3>1, <4>1 DEF IInv, PropagateInv
      <4>3. QED
        BY <1>2, <3>1, <4>2
    <3>4. QED
      BY <3>2, <3>3
  <2>3. ~is_pure'[now] /\ pending' \subseteq uses[now]
    BY <1>1, <1>2, <1>3
  <2>4. QED
    BY <1>1, <1>7, <2>1, <2>2, <2>3 DEF PropagateInv
<1>13. QED
  BY <1>9, <1>10, <1>11, <1>12 DEF IInv

\* When no use is pending, every caller of the processed function is impure.
LEMMA EndProcessStep ==
  ASSUME IInv, TypeOK', EndProcess
  PROVE  IInv'
<1>1. /\ pc = "process" /\ pc' = "work" /\ pending = {} /\ prog' = prog
      /\ live' = live /\ uses' = uses /\ is_pure' = is_pure /\ worklist' = worklist
  BY DEF EndProcess, irvars
<1>2. /\ \A f \in Func : TriviallyImpure(f)' <=> TriviallyImpure(f)
      /\ Impure' = Impure /\ ImpureSet' = ImpureSet
  BY <1>1 DEF TriviallyImpure, IsSideEffectInst, IsLocal, Impure, Closed, ImpureSet
<1>3. UsesAreCalls' /\ QueueInv' /\ MarkInv' /\ DoneInv'
  BY <1>1 DEF IInv, UsesAreCalls, Calls, QueueInv, QueuedOnce, MarkInv, DoneInv
<1>4. PropagateInv'
  BY <1>1, <1>2 DEF IInv, PropagateInv, Precise
<1>5. QED
  BY <1>3, <1>4 DEF IInv

\* With an empty queue the impure functions are closed under "calls".
LEMMA FinishStep ==
  ASSUME IInv, TypeOK', Finish
  PROVE  IInv'
<1>1. /\ pc = "work" /\ pc' = "done" /\ worklist = <<>> /\ prog' = prog
      /\ live' = live /\ uses' = uses /\ is_pure' = is_pure /\ worklist' = worklist
  BY DEF Finish, irvars
<1>2. Range(worklist) = {}
  BY <1>1 DEF Range
<1>3. Closed(ImpureSet)
  <2>1. \A f \in Func : TriviallyImpure(f) => f \in ImpureSet
    BY <1>1 DEF IInv, PropagateInv, ImpureSet
  <2>2. ASSUME NEW i \in live, prog.op[i] = "call", prog.callee[i] \in ImpureSet
        PROVE  prog.parent[i] \in ImpureSet
    <3>1. i \in uses[prog.callee[i]] /\ prog.parent[i] \in Func
      BY <1>1, <2>2 DEF IInv, UsesAreCalls, Calls, ImpureSet, TypeOK, IsProgram
    <3>2. QED
      BY <1>1, <1>2, <2>2, <3>1 DEF IInv, PropagateInv, ImpureSet
  <2>3. QED
    BY <2>1, <2>2 DEF Closed
<1>4. Closed(ImpureSet)'
  BY <1>1, <1>3 DEF Closed, ImpureSet, TriviallyImpure, IsSideEffectInst, IsLocal
<1>5. UsesAreCalls' /\ MarkInv' /\ PropagateInv' /\ DoneInv'
  BY <1>1, <1>4 DEF UsesAreCalls, MarkInv, PropagateInv, DoneInv
<1>6. QueueInv'
  BY <1>1, <1>2 DEF IInv, QueueInv, QueuedOnce
<1>7. QED
  BY <1>5, <1>6 DEF IInv

\* Erasing instructions removes effects and calls, so a closed set stays closed;
\* running again starts from an empty queue.
LEMMA BetweenStep ==
  ASSUME IInv, TypeOK', Between
  PROVE  IInv'
<1>1. /\ pc = "done" /\ prog' = prog /\ live' \subseteq live
      /\ is_pure' = is_pure /\ worklist' = worklist /\ worklist = <<>>
      /\ Closed(ImpureSet)
  BY DEF Between, RunAgain, RemoveUses, EraseInst, irvars, fivars, IInv, DoneInv, QueueInv
<1>2. Range(worklist) = {}
  BY <1>1 DEF Range
<1>3. pc' = "done" \/ (pc' = "mark" /\ k' = 1 /\ \A f \in Func : uses'[f] = Calls(f)')
  BY DEF Between, RunAgain, RemoveUses, EraseInst, irvars, fivars, Calls
<1>4. Closed(ImpureSet)'
  BY <1>1 DEF Closed, ImpureSet, TriviallyImpure, IsSideEffectInst, IsLocal
<1>5. UsesAreCalls'
  BY <1>3 DEF UsesAreCalls
<1>6. QueueInv'
  BY <1>1, <1>2, <1>3 DEF QueueInv, QueuedOnce
<1>7. MarkInv' /\ PropagateInv' /\ DoneInv'
  BY <1>3, <1>4 DEF MarkInv, PropagateInv, DoneInv
<1>8. QED
  BY <1>5, <1>6, <1>7 DEF IInv

\* Initially the use lists are the calls and nothing is queued.
LEMMA InvInit == Init => IInv
<1> SUFFICES ASSUME Init PROVE IInv
  OBVIOUS
<1>1. TypeOK
  BY ProgramsAssumption, FuncSeqAssumption DEF Init, TypeOK, Calls
<1>2. UsesAreCalls /\ PropagateInv /\ DoneInv
  BY DEF Init, UsesAreCalls, PropagateInv, DoneInv
<1>3. QueueInv /\ MarkInv
  BY DEF Init, QueueInv, QueuedOnce, MarkInv, Range
<1>4. QED
  BY <1>1, <1>2, <1>3 DEF IInv

\* Each step keeps the invariant.
LEMMA InvStep == IInv /\ TypeOK' /\ [Next]_vars => IInv'
<1> SUFFICES ASSUME IInv, TypeOK', [Next]_vars PROVE IInv'
  OBVIOUS
<1>1. CASE Run
  BY <1>1, TrivialMarkStep, EndMarkStep, PopStep, ProcessUseStep, EndProcessStep, FinishStep
     DEF Run
<1>2. CASE Between
  BY <1>2, BetweenStep
<1>3. CASE UNCHANGED vars
  <2>1. /\ \A f \in Func : TriviallyImpure(f)' <=> TriviallyImpure(f)
        /\ Impure' = Impure /\ ImpureSet' = ImpureSet
    BY <1>3 DEF vars, TriviallyImpure, IsSideEffectInst, IsLocal, Impure, Closed, ImpureSet
  <2>2. UsesAreCalls' /\ QueueInv' /\ MarkInv'
    BY <1>3 DEF vars, IInv, UsesAreCalls, Calls, QueueInv, QueuedOnce, MarkInv,
                TriviallyImpure, IsSideEffectInst, IsLocal
  <2>3. PropagateInv'
    BY <1>3, <2>1 DEF vars, IInv, PropagateInv, Precise
  <2>4. DoneInv'
    BY <1>3 DEF vars, IInv, DoneInv, Closed, ImpureSet, TriviallyImpure, IsSideEffectInst,
                IsLocal
  <2>5. QED
    BY <2>2, <2>3, <2>4 DEF IInv
<1>4. QED
  BY <1>1, <1>2, <1>3 DEF Next

\* The invariant is inductive.
THEOREM Invariance == Spec => []IInv
BY InvInit, InvStep, Typing, PTL DEF Spec

-----------------------------------------------------------------------------
(* What a reader of is_pure may rely on.                                    *)

\* A function that has, or reaches through any chain of calls, an effect on
\* memory it does not own is never reported pure.
THEOREM Soundness == Spec => []Sound
<1>1. IInv => Sound
  BY DEF IInv, DoneInv, Sound, Impure, ImpureSet
<1>2. QED
  BY <1>1, Invariance, PTL

\* A function made impure has or reaches such an effect: nothing is left over
\* from an earlier run, no erased call counts.
THEOREM Precision == Spec => []Precise
<1>1. IInv => Precise
  BY DEF IInv, PropagateInv, Precise
<1>2. QED
  BY <1>1, Invariance, PTL

\* Each function is processed at most once in a run.
THEOREM EachQueuedOnce == Spec => []QueuedOnce
<1>1. IInv => QueuedOnce
  BY DEF IInv, QueueInv
<1>2. QED
  BY <1>1, Invariance, PTL

-----------------------------------------------------------------------------
(* FuncInfo implements the safety part of Purity.                           *)

Seeds    == {f \in Func : TriviallyImpure(f)}
Callers  == [f \in Func |-> {prog.parent[i] : i \in Calls(f)}]
Found    == {f \in Marked : ~is_pure[f]}

\* Unless an instruction is erased, the abstract module does not change.
LEMMA SameModule ==
  ASSUME prog' = prog, live' = live
  PROVE  Seeds' = Seeds /\ Callers' = Callers
BY DEF Seeds, Callers, Calls, TriviallyImpure, IsSideEffectInst, IsLocal

\* Each step of the pass is a step of Purity or leaves its variables alone.
LEMMA StepSimulation ==
  ASSUME IInv, IInv', Next
  PROVE  P!Next \/ UNCHANGED <<Seeds, Callers, Found, pc = "done">>
<1> USE DEF P!Next
<1>1. CASE TrivialMark
  <2> DEFINE f == FuncSeq[k]
  <2>1. /\ pc = "mark" /\ pc' = "mark" /\ k' = k + 1 /\ prog' = prog /\ live' = live
        /\ k \in 1 .. Len(FuncSeq) /\ f \in Func /\ is_pure \in [Func -> BOOLEAN]
        /\ Len(FuncSeq) \in Nat
    <3>1. k \in 1 .. Len(FuncSeq) + 1 /\ is_pure \in [Func -> BOOLEAN]
      BY DEF IInv, TypeOK
    <3>2. /\ pc = "mark" /\ pc' = "mark" /\ k' = k + 1 /\ prog' = prog /\ live' = live
          /\ k <= Len(FuncSeq)
      BY <1>1 DEF TrivialMark, irvars
    <3>3. FuncSeq \in Seq(Func) /\ Len(FuncSeq) \in Nat
      BY FuncSeqAssumption
    <3>4. k \in 1 .. Len(FuncSeq)
      BY <3>1, <3>2, <3>3
    <3>5. FuncSeq[k] \in Func
      BY <3>3, <3>4
    <3>q. QED
      BY <3>1, <3>2, <3>3, <3>4, <3>5
  <2>2. \A n \in 1 .. k - 1 : FuncSeq[n] \in Func /\ FuncSeq[n] # f
    <3>1. \A n \in 1 .. k - 1 : n \in 1 .. Len(FuncSeq) /\ n # k
      BY <2>1
    <3>2. QED
      BY <2>1, <3>1, FuncSeqAssumption
  <2>3. /\ is_pure'[f] <=> ~TriviallyImpure(f)
        /\ \A g \in Func : g # f => is_pure'[g] = is_pure[g]
    BY <1>1, <2>1 DEF TrivialMark
  <2>4. Marked' = Marked \cup {f} /\ f \notin Marked /\ Marked \subseteq Func
    <3>1. \A n : n \in 1 .. k' - 1 <=> n \in 1 .. k - 1 \/ n = k
      BY <2>1
    <3>2. QED
      BY <2>1, <2>2, <3>1 DEF Marked
  <2> HIDE DEF f
  <2>5. Found' = IF TriviallyImpure(f) THEN Found \cup {f} ELSE Found
    BY <2>1, <2>3, <2>4 DEF Found
  <2>6. Seeds' = Seeds /\ Callers' = Callers
    BY <2>1, SameModule
  <2>7. CASE ~TriviallyImpure(f)
    BY <2>1, <2>5, <2>6, <2>7
  <2>8. CASE TriviallyImpure(f)
    <3>1. f \in P!Discoverable
      BY <2>1, <2>4, <2>8 DEF P!Discoverable
    <3>2. P!Discover
      BY <2>1, <2>5, <2>6, <2>8, <3>1 DEF P!Discover, Found, Seeds, Callers
    <3>3. QED
      BY <3>2
  <2>9. QED
    BY <2>7, <2>8
<1>2. CASE EndMark \/ Pop \/ EndProcess
  <2>1. prog' = prog /\ live' = live /\ is_pure' = is_pure /\ pc # "done" /\ pc' # "done"
    BY <1>2 DEF EndMark, Pop, EndProcess, irvars
  <2>2. Marked' = Marked
    <3>1. CASE EndMark
      <4>1. k = Len(FuncSeq) + 1 /\ pc = "mark" /\ pc' = "work"
        BY <3>1 DEF EndMark
      <4>2. {FuncSeq[n] : n \in 1 .. k - 1} = Func
        <5>1. k - 1 = Len(FuncSeq)
          BY <4>1, FuncSeqAssumption
        <5>2. \A n \in 1 .. Len(FuncSeq) : FuncSeq[n] \in Func
          BY FuncSeqAssumption
        <5>3. QED
          BY <5>1, <5>2, FuncSeqAssumption
      <4>3. QED
        BY <4>1, <4>2 DEF Marked
    <3>2. CASE Pop \/ EndProcess
      BY <3>2 DEF Pop, EndProcess, Marked
    <3>3. QED
      BY <1>2, <3>1, <3>2
  <2>3. QED
    BY <2>1, <2>2, SameModule DEF Found
<1>3. ASSUME NEW u \in Inst, ProcessUse(u)
      PROVE  P!Next \/ UNCHANGED <<Seeds, Callers, Found, pc = "done">>
  <2> DEFINE caller == prog.parent[u]
  <2>1. /\ pc = "process" /\ pc' = "process" /\ u \in pending /\ prog' = prog
        /\ live' = live /\ is_pure' = [is_pure EXCEPT ![caller] = FALSE]
        /\ is_pure \in [Func -> BOOLEAN] /\ caller \in Func /\ now \in Func
    BY <1>3 DEF ProcessUse, irvars, IInv, TypeOK, IsProgram
  <2>2. u \in Calls(now) /\ ~is_pure[now]
    BY <2>1 DEF IInv, PropagateInv, UsesAreCalls
  <2>3. Marked = Func /\ Marked' = Func
    BY <2>1 DEF Marked
  <2>4. caller \in {prog.parent[i] : i \in Calls(now)}
    BY <2>2
  <2>5. now \in {f \in Marked : ~is_pure[f]}
    BY <2>1, <2>2, <2>3
  <2> HIDE DEF caller
  <2>6. Found' = Found \cup {caller}
    BY <2>1, <2>3 DEF Found
  <2>7. Seeds' = Seeds /\ Callers' = Callers
    BY <2>1, SameModule
  <2>8. CASE caller \in Found
    BY <2>1, <2>6, <2>7, <2>8
  <2>9. CASE caller \notin Found
    <3>1. caller \in P!Discoverable
      BY <2>1, <2>4, <2>5, <2>9 DEF P!Discoverable, Found
    <3>2. P!Discover
      BY <2>1, <2>6, <2>7, <3>1 DEF P!Discover, Found, Seeds, Callers
    <3>3. QED
      BY <3>2
  <2>10. QED
    BY <2>8, <2>9
<1>4. CASE Finish
  <2>1. /\ pc = "work" /\ pc' = "done" /\ prog' = prog /\ live' = live
        /\ is_pure' = is_pure /\ Closed(ImpureSet)'
    BY <1>4 DEF Finish, irvars, IInv, DoneInv
  <2>2. Closed(ImpureSet)
    BY <2>1 DEF Closed, ImpureSet, TriviallyImpure, IsSideEffectInst, IsLocal
  <2>3. Marked = Func /\ Marked' = Func
    BY <2>1 DEF Marked
  <2>4. P!Discoverable = {}
    BY <2>2, <2>3 DEF P!Discoverable, Closed, ImpureSet, Calls
  <2>5. Seeds' = Seeds /\ Callers' = Callers /\ Found' = Found
    BY <2>1, <2>3, SameModule DEF Found
  <2>6. QED
    BY <2>1, <2>4, <2>5 DEF P!Conclude, Seeds, Callers, Found
<1>5. ASSUME NEW i \in Inst, RemoveUses(i)
      PROVE  UNCHANGED <<Seeds, Callers, Found, pc = "done">>
  <2>1. prog' = prog /\ live' = live /\ is_pure' = is_pure /\ pc' = pc /\ k' = k
    BY <1>5 DEF RemoveUses, fivars
  <2>2. QED
    BY <2>1, SameModule DEF Found, Marked
<1>6. ASSUME NEW i \in Inst, EraseInst(i)
      PROVE  P!Next
  <2>1. /\ prog' = prog /\ live' \subseteq live /\ is_pure' = is_pure
        /\ pc = "done" /\ pc' = "done"
    BY <1>6 DEF EraseInst, fivars
  <2>2. Found' = Found
    BY <2>1 DEF Found, Marked
  <2>3. Seeds' \subseteq Seeds
    BY <2>1 DEF Seeds, TriviallyImpure, IsSideEffectInst, IsLocal
  <2>4. \A f \in Func : {prog.parent[j] : j \in Calls(f)}' \subseteq {prog.parent[j] : j \in Calls(f)}
    BY <2>1 DEF Calls
  <2>5. \A f \in Func : {prog.parent[j] : j \in Calls(f)}' \subseteq Func
    BY <2>1 DEF Calls, IInv, TypeOK, IsProgram
  <2>6. QED
    BY <2>1, <2>2, <2>3, <2>4, <2>5 DEF P!Erase, Seeds, Found
<1>7. CASE RunAgain
  <2>1. /\ prog' = prog /\ live' = live /\ pc = "done" /\ pc' = "mark" /\ k' = 1
    BY <1>7 DEF RunAgain, irvars
  <2>2. Found' = {}
    BY <2>1 DEF Found, Marked
  <2>3. QED
    BY <2>1, <2>2, SameModule DEF P!Again, Seeds, Callers, Found
<1>8. QED
  BY <1>1, <1>2, <1>3, <1>4, <1>5, <1>6, <1>7 DEF Next, Run, Between

\* Every behaviour of the pass, whatever the order of its worklist and of the
\* use lists, is a behaviour of the order-free analysis: it discovers impure
\* functions one at a time, each for a reason, and ends only when none is left.
THEOREM Refinement == Spec => P!Init /\ [][P!Next]_(P!vars)
<1>1. Init => P!Init
  <2> SUFFICES ASSUME Init PROVE P!Init
    OBVIOUS
  <2>1. IsProgram(prog) /\ pc = "mark" /\ k = 1 /\ live = Inst
    BY ProgramsAssumption DEF Init
  <2>2. Found = {}
    BY <2>1 DEF Found, Marked
  <2>3. Callers \in [Func -> SUBSET Func]
    BY <2>1 DEF Callers, Calls, IsProgram
  <2>4. QED
    BY <2>1, <2>2, <2>3 DEF P!Init, Found, Callers
<1>2. IInv /\ IInv' /\ [Next]_vars => [P!Next]_(P!vars)
  <2>1. CASE Next
    BY <2>1, StepSimulation DEF P!vars, Seeds, Callers, Found
  <2>2. CASE UNCHANGED vars
    <3>1. prog' = prog /\ live' = live /\ is_pure' = is_pure /\ pc' = pc /\ k' = k
      BY <2>2 DEF vars
    <3>2. UNCHANGED <<Seeds, Callers, Found, pc = "done">>
      BY <3>1, SameModule DEF Found, Marked
    <3>3. QED
      BY <3>2 DEF P!vars, Seeds, Callers, Found
  <2>3. QED
    BY <2>1, <2>2
<1>3. QED
  BY <1>1, <1>2, Invariance, PTL DEF Spec
=============================================================================
