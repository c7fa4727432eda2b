------------------------------- MODULE UseDef -------------------------------
(***************************************************************************)
(* Operands and use lists (src/lightir/User.cpp, Value.cpp): every value   *)
(* keeps the list of its uses, each a user and the number of an operand,   *)
(* and the passes replace and erase values by walking these lists only.    *)
(*                                                                         *)
(* A use list is a bag, since nothing depends on its order: uses[v][u][i]  *)
(* is how often the use of v as operand i of u is listed.  The loops over  *)
(* a list or over the operands of a user take one step per iteration.      *)
(***************************************************************************)
EXTENDS Integers

CONSTANTS User,     \* the values that have operands: the instructions
          Val,      \* all values
          Null,     \* nullptr
          MaxOps    \* bound: the number of operands

ASSUME UserAssumption == User \subseteq Val /\ Null \notin Val
ASSUME MaxOpsAssumption == MaxOps \in Nat

ArgNo == 0 .. MaxOps - 1

VARIABLES state,     \* whether the user exists, has given up its operands, is erased
          num_ops,   \* num_ops_
          operands,  \* operands_
          uses,      \* use_list_
          pc,        \* "idle", or the operation in progress
          val,       \* the value whose list it walks
          new_val,   \* what it puts in its place
          pred,      \* the users that replace_use_with_when is to change
          pending,   \* the uses the walk has still to visit, as a bag
          user,      \* the user whose operands remove_use_of_ops walks
          arg        \* the next of them

irvars  == <<state, num_ops, operands, uses>>
jobvars == <<val, new_val, pred, pending, user, arg>>
vars    == <<state, num_ops, operands, uses, pc, val, new_val, pred, pending, user, arg>>

States == {"none", "live", "detached", "erased"}
Pcs    == {"idle", "replace all", "replace when", "remove uses"}

Bag    == [User -> [ArgNo -> Nat]]
NoUses == [u \in User |-> [i \in ArgNo |-> 0]]

Init == /\ state = [u \in User |-> "none"]
        /\ num_ops = [u \in User |-> 0]
        /\ operands = [u \in User |-> [i \in ArgNo |-> Null]]
        /\ uses = [v \in Val |-> NoUses]
        /\ pc = "idle"
        /\ val = Null /\ new_val = Null
        /\ pred = {}
        /\ pending = NoUses
        /\ user = Null
        /\ arg = 0

\* A value that may become an operand: not one that is not made yet or given up.
Usable(v) == v \in User => state[v] = "live"

\* An operation returns: its locals are gone.
Return == /\ pc' = "idle"
          /\ val' = Null /\ new_val' = Null /\ pred' = {} /\ pending' = NoUses
          /\ user' = Null /\ arg' = 0

AddUse(us, v, u, i) == [us EXCEPT ![v][u][i] = @ + 1]

-----------------------------------------------------------------------------
(* Making users.                                                           *)

\* The constructor User(ty, name, n).
Create(u, n) ==
  /\ pc = "idle"
  /\ state[u] = "none"
  /\ state' = [state EXCEPT ![u] = "live"]
  /\ num_ops' = [num_ops EXCEPT ![u] = n]
  /\ UNCHANGED <<operands, uses, pc, jobvars>>

\* Mutant of SetOperand: the use is listed with the number of operands.
SetOperandNumOps(u, i, v) ==
  /\ pc = "idle"
  /\ state[u] = "live" /\ i < num_ops[u] /\ operands[u][i] = Null
  /\ Usable(v)
  /\ operands' = [operands EXCEPT ![u][i] = v]
  /\ uses' = AddUse(uses, v, u, num_ops[u] - 1)
  /\ UNCHANGED <<state, num_ops, pc, jobvars>>

\* set_operand as the constructors of the instructions call it: once for each operand.
SetOperand(u, i, v) ==
  /\ pc = "idle"
  /\ state[u] = "live" /\ i < num_ops[u] /\ operands[u][i] = Null
  /\ Usable(v)
  /\ operands' = [operands EXCEPT ![u][i] = v]
  /\ uses' = AddUse(uses, v, u, i)
  /\ UNCHANGED <<state, num_ops, pc, jobvars>>

\* Mutant of AddOperand: num_ops_ is counted up by add_operand and by add_use.
AddOperandTwice(u, v) ==
  /\ pc = "idle"
  /\ state[u] = "live" /\ num_ops[u] < MaxOps
  /\ Usable(v)
  /\ operands' = [operands EXCEPT ![u][num_ops[u]] = v]
  /\ uses' = AddUse(uses, v, u, num_ops[u])
  /\ num_ops' = [num_ops EXCEPT ![u] = @ + 2]
  /\ UNCHANGED <<state, pc, jobvars>>

\* add_operand, by which phis grow.
AddOperand(u, v) ==
  /\ pc = "idle"
  /\ state[u] = "live" /\ num_ops[u] < MaxOps
  /\ Usable(v)
  /\ operands' = [operands EXCEPT ![u][num_ops[u]] = v]
  /\ uses' = AddUse(uses, v, u, num_ops[u])
  /\ num_ops' = [num_ops EXCEPT ![u] = @ + 1]
  /\ UNCHANGED <<state, pc, jobvars>>

-----------------------------------------------------------------------------
(* Replacing a value.  No caller replaces a value by itself.               *)

ReplaceAllUseWith(v, w) ==
  /\ pc = "idle"
  /\ Usable(v) /\ Usable(w) /\ v # w
  /\ pc' = "replace all"
  /\ val' = v /\ new_val' = w /\ pending' = uses[v]
  /\ UNCHANGED <<irvars, pred, user, arg>>

\* One iteration: set_operand, which adds to the list of the new value.
VisitUse(u, i) ==
  /\ pc = "replace all"
  /\ pending[u][i] > 0
  /\ operands' = [operands EXCEPT ![u][i] = new_val]
  /\ uses' = AddUse(uses, new_val, u, i)
  /\ pending' = [pending EXCEPT ![u][i] = @ - 1]
  /\ UNCHANGED <<state, num_ops, pc, val, new_val, pred, user, arg>>

\* use_list_.clear()
EndReplaceAll ==
  /\ pc = "replace all"
  /\ pending = NoUses
  /\ uses' = [uses EXCEPT ![val] = NoUses]
  /\ Return
  /\ UNCHANGED <<state, num_ops, operands>>

ReplaceUseWithWhen(v, w, S) ==
  /\ pc = "idle"
  /\ Usable(v) /\ Usable(w) /\ v # w
  /\ pc' = "replace when"
  /\ val' = v /\ new_val' = w /\ pred' = S /\ pending' = uses[v]
  /\ UNCHANGED <<irvars, user, arg>>

\* An iteration on a use whose user does not satisfy pred.
SkipUse(u, i) ==
  /\ pc = "replace when"
  /\ pending[u][i] > 0 /\ u \notin pred
  /\ pending' = [pending EXCEPT ![u][i] = @ - 1]
  /\ UNCHANGED <<irvars, pc, val, new_val, pred, user, arg>>

\* Mutant of MoveUse: the use stays in the list of the old value.
MoveUseKept(u, i) ==
  /\ pc = "replace when"
  /\ pending[u][i] > 0 /\ u \in pred
  /\ operands' = [operands EXCEPT ![u][i] = new_val]
  /\ uses' = AddUse(uses, new_val, u, i)
  /\ pending' = [pending EXCEPT ![u][i] = @ - 1]
  /\ UNCHANGED <<state, num_ops, pc, val, new_val, pred, user, arg>>

\* An iteration on one whose user does: set_operand, and the use is erased.
MoveUse(u, i) ==
  /\ pc = "replace when"
  /\ pending[u][i] > 0 /\ u \in pred
  /\ operands' = [operands EXCEPT ![u][i] = new_val]
  /\ uses' = [AddUse(uses, new_val, u, i) EXCEPT ![val][u][i] = @ - 1]
  /\ pending' = [pending EXCEPT ![u][i] = @ - 1]
  /\ UNCHANGED <<state, num_ops, pc, val, new_val, pred, user, arg>>

EndReplaceWhen ==
  /\ pc = "replace when"
  /\ pending = NoUses
  /\ Return
  /\ UNCHANGED irvars

-----------------------------------------------------------------------------
(* Erasing a user.                                                         *)

\* remove_use_of_ops, called on users whose operands are all set.
RemoveUseOfOps(u) ==
  /\ pc = "idle"
  /\ state[u] = "live"
  /\ \A i \in ArgNo : i < num_ops[u] => operands[u][i] # Null
  /\ pc' = "remove uses"
  /\ user' = u /\ arg' = 0
  /\ UNCHANGED <<irvars, val, new_val, pred, pending>>

\* Mutant of RemoveUse: the uses by other users go as well.
RemoveUseClears ==
  /\ pc = "remove uses"
  /\ arg < num_ops[user]
  /\ uses' = [uses EXCEPT ![operands[user][arg]] = NoUses]
  /\ arg' = arg + 1
  /\ UNCHANGED <<state, num_ops, operands, pc, val, new_val, pred, pending, user>>

\* op->remove_use(this): every use by this user, by whatever operand.
RemoveUse ==
  /\ pc = "remove uses"
  /\ arg < num_ops[user]
  /\ uses' = [uses EXCEPT ![operands[user][arg]][user] = [i \in ArgNo |-> 0]]
  /\ arg' = arg + 1
  /\ UNCHANGED <<state, num_ops, operands, pc, val, new_val, pred, pending, user>>

EndRemove ==
  /\ pc = "remove uses"
  /\ arg = num_ops[user]
  /\ state' = [state EXCEPT ![user] = "detached"]
  /\ Return
  /\ UNCHANGED <<num_ops, operands, uses>>

\* The end of erase_instr, and of sweep: the user, whose operands are given up, leaves
\* its block and its memory is given back.  It is right only if nothing uses the value.
Erase(u) ==
  /\ pc = "idle"
  /\ state[u] = "detached"
  /\ uses[u] = NoUses
  /\ state' = [state EXCEPT ![u] = "erased"]
  /\ UNCHANGED <<num_ops, operands, uses, pc, jobvars>>

Next ==
  \/ \E u \in User, n \in 0 .. MaxOps : Create(u, n)
  \/ \E u \in User, i \in ArgNo, v \in Val : SetOperand(u, i, v)
  \/ \E u \in User, v \in Val : AddOperand(u, v)
  \/ \E v, w \in Val : ReplaceAllUseWith(v, w)
  \/ \E u \in User, i \in ArgNo : VisitUse(u, i) \/ SkipUse(u, i) \/ MoveUse(u, i)
  \/ \E v, w \in Val, S \in SUBSET User : ReplaceUseWithWhen(v, w, S)
  \/ \E u \in User : RemoveUseOfOps(u) \/ Erase(u)
  \/ EndReplaceAll \/ EndReplaceWhen \/ RemoveUse \/ EndRemove

Spec == Init /\ [][Next]_vars

-----------------------------------------------------------------------------
(* Properties.                                                             *)

TypeOK ==
  /\ state \in [User -> States]
  /\ num_ops \in [User -> 0 .. MaxOps]
  /\ operands \in [User -> [ArgNo -> Val \cup {Null}]]
  /\ uses \in [Val -> Bag]
  /\ pc \in Pcs
  /\ val \in Val \cup {Null} /\ new_val \in Val \cup {Null}
  /\ pred \in SUBSET User
  /\ pending \in Bag
  /\ user \in User \cup {Null}
  /\ arg \in 0 .. MaxOps

\* The operand of u at position i is v, and u has not given it up.
Has(u, i, v) == state[u] = "live" /\ i < num_ops[u] /\ operands[u][i] = v

\* Between the operations a list has every use of its value exactly once, and no
\* other: also of a value that one user has twice, after any replacements.
UsesExact ==
  pc = "idle" => \A v \in Val, u \in User, i \in ArgNo :
                   uses[v][u][i] = IF Has(u, i, v) THEN 1 ELSE 0

\* A value that is erased because its list is empty is an operand of nothing that is
\* still in the code.
NoErasedOperand ==
  \A u, w \in User, i \in ArgNo : state[w] = "erased" => ~Has(u, i, w)

\* The uses that should be listed: those of the operands, but for the values whose
\* uses by user are removed already.
Expected(v, u, i) ==
  /\ Has(u, i, v)
  /\ ~ (pc = "remove uses" /\ u = user /\ \E j \in ArgNo : j < arg /\ operands[u][j] = v)

\* The list that replace_all_use_with is walking is not looked at before it is cleared.
ListInv ==
  \A v \in Val, u \in User, i \in ArgNo :
    (pc = "replace all" => v # val) =>
      uses[v][u][i] = IF Expected(v, u, i) THEN 1 ELSE 0

Walks == {"replace all", "replace when"}

\* A walk changes the uses by u.
Selected(u) == pc = "replace all" \/ u \in pred

\* A walk replaces one value by another, which may be an operand.
WalkInv ==
  pc \in Walks => val \in Val /\ new_val \in Val /\ val # new_val /\ Usable(new_val)

\* What a walk has still to visit is what still has the old value.
PendingInv ==
  pc \in Walks =>
    \A u \in User, i \in ArgNo :
      /\ pending[u][i] \in {0, 1}
      /\ pending[u][i] = 1 => Has(u, i, val)
      /\ Has(u, i, val) /\ Selected(u) => pending[u][i] = 1

\* A user gives up its operands when all of them are set.
RemoveInv ==
  pc = "remove uses" =>
    /\ user \in User /\ state[user] = "live" /\ arg <= num_ops[user]
    /\ \A i \in ArgNo : i < num_ops[user] => operands[user][i] # Null

\* A user that is not made yet has no operands.
FreshInv == \A u \in User, i \in ArgNo : state[u] = "none" => operands[u][i] = Null

\* The inductive invariant.
IInv == /\ TypeOK
        /\ ListInv /\ WalkInv /\ PendingInv /\ RemoveInv
        /\ FreshInv /\ NoErasedOperand

-----------------------------------------------------------------------------
(* UseDef implements DefUse.  A replacement counts as done for all uses    *)
(* when its walk begins, since the walk will visit them; the operands of   *)
(* a user count as dropped when remove_use_of_ops begins.                  *)

Current(u, i) == IF pc \in Walks /\ pending[u][i] > 0 /\ Selected(u)
                 THEN new_val ELSE operands[u][i]

Holds(u) == state[u] = "live" /\ ~ (pc = "remove uses" /\ user = u)

Edges == {e \in User \X ArgNo \X Val :
            Holds(e[1]) /\ e[2] < num_ops[e[1]] /\ Current(e[1], e[2]) = e[3]}

D == INSTANCE DefUse WITH edges <- Edges

\* Walking the use list replaces a value in exactly the operands that have it, all of
\* them and no others, however the lists came to be: the abstract specification.
ImplementsDefUse == D!Spec
=============================================================================
