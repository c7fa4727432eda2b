------------------------------- MODULE Purity -------------------------------
(***************************************************************************)
(* What an analysis of function purity promises, with no worklist and no   *)
(* order: the set of impure functions grows from nothing by justified      *)
(* discoveries only, and it may be declared final once nothing is left to  *)
(* discover.  Between two analyses other passes may erase instructions, so *)
(* that the seeds and the call relation shrink.                            *)
(***************************************************************************)
CONSTANT Func

VARIABLES seeds,    \* the functions that are impure by themselves
          callers,  \* callers[f]: the functions that contain a call of f
          impure,   \* the functions found impure so far
          final     \* the analysis has ended and impure may be consulted

vars == <<seeds, callers, impure, final>>

Discoverable == {f \in Func \ impure :
                    f \in seeds \/ \E g \in impure : f \in callers[g]}

Init == /\ seeds \in SUBSET Func
        /\ callers \in [Func -> SUBSET Func]
        /\ impure = {}
        /\ final = FALSE

Discover == /\ ~final
            /\ \E f \in Discoverable : impure' = impure \cup {f}
            /\ UNCHANGED <<seeds, callers, final>>

Conclude == /\ ~final
            /\ Discoverable = {}
            /\ final' = TRUE
            /\ UNCHANGED <<seeds, callers, impure>>

\* Another pass erases instructions: effects and calls can only disappear.
Erase == /\ final
         /\ seeds' \in SUBSET seeds
         /\ callers' \in [Func -> SUBSET Func]
         /\ \A f \in Func : callers'[f] \subseteq callers[f]
         /\ UNCHANGED <<impure, final>>

Again == /\ final
         /\ impure' = {}
         /\ final' = FALSE
         /\ UNCHANGED <<seeds, callers>>

Next == Discover \/ Conclude \/ Erase \/ Again

Spec == Init /\ [][Next]_vars /\ WF_vars(Discover \/ Conclude)
=============================================================================
