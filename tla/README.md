# Verification of the cminus-f compiler

The compiler translates cminus-f to LLVM IR: `flex` and `bison` parse the source, `AST` turns the
parse tree into an abstract syntax tree, `CminusfBuilder` visits it and builds basic blocks, and
the options `-mem2reg` and `-gvn` run passes over them. This directory models the parts that hold
the program's logic in TLA+, checks them with TLC on small instances and proves theorems about
them with TLAPS.

Paths below are relative to `src/`; `X.cpp` of a pass is `src/optimization/X.cpp`, `X.h`
is `include/optimization/X.h`.

## Inventory

| component | state it keeps | operations | modelled by |
|---|---|---|---|
| `CminusfBuilder`, `Scope` (`src/cminusfc/cminusf_builder.cpp`) | `tmp_val`, `require_lvalue`, `cur_fun`, the insert point, the stack of scopes | one `visit` per kind of node | `Builder`, `Meaning` |
| `FuncInfo` (`FuncInfo.h`) | `is_pure`, `worklist`; both outlive a run | `run`, `trivial_mark`, `process` | `FuncInfo`, `Purity` |
| `DeadCode` (`DeadCode.h`) | `marked`, `work_list`, its `FuncInfo` | `run`, `mark`, `sweep` | `DeadCode` |
| `Dominators` (`Dominators.cpp`) | post-order numbers, `idom_`, frontiers, tree | `run` and its five steps | `Dominators`, `Dominance` |
| `Mem2Reg` (`Mem2Reg.cpp`) | `var_val_stack`, phis | `generate_phi`, `re_name`, `remove_alloca` | `Mem2Reg` |
| `Value`, `User` (`src/lightir`) | operands and use lists | `set_operand`, `replace_all_use_with`, `remove_use_of_ops`, ... | `UseDef`, `DefUse`; what the passes do with them in `DeadCode`, `Mem2Reg`, `Emission` |
| `BasicBlock`, `BranchInst`, `Function` | instructions, predecessor and successor lists, `seq_cnt_` | append, erase, branch, remove a block, `set_instr_name`, `print` | `Emission`; parts in `Builder`, `Mem2Reg` |
| `Instruction` and its classes | operands, type | the `create` of each class, `print` | `Emission`, `Builder` |
| `Module`, `Type`, `Constant` | tables of types and constants | look up or create | `Interning`; `Builder` compares types by structure |
| `GVN` (`GVN.cpp`) | partitions of values into congruence classes | `valueExpr`, `valuePhiFunc`, `transferFunction`, ... | `GVN` |
| parser (`src/parser/syntax_analyzer.y`), parse tree (`src/common/syntax_tree.c`) | the parser's stack, nodes on the heap, `gt->root` | shift, reduce, `node`, `del_syntax_tree` | `Grammar`, `Syntax` |
| `AST`, `ASTPrinter` (`src/common/ast.cpp`) | the abstract syntax, `depth` | `transform_node_iter`, one `visit` per class | `AST`, `Syntax` |
| driver, pass manager | the passes to run | parse, build, run passes, name, print | order of steps in `Syntax`, `Emission` |
| logging, options and files, `io.c` | | | not modelled |

How they interact. The parser builds a parse tree on the heap, the constructor of `AST` turns it into
the abstract syntax and frees it, and the builder visits the result. The builder is the only producer of IR; its blocks, with their lists of
predecessors and successors, are what `Dominators` walks. `Mem2Reg` owns a `Dominators` and
rewrites the operands through the use lists. `GVN` owns a `FuncInfo` and a `DeadCode`, which owns
a second `FuncInfo` and is run twice; all three read the use lists of functions and instructions,
and `DeadCode` changes them. Everything runs in one thread, so the hard behaviour is not
concurrency but

* state that survives: global variables of the builder that nested visits overwrite, maps and
  queues of a pass that is run again after the IR has changed;
* the order in which recursive visits and work lists meet graphs with loops, recursion and
  unreachable blocks;
* structures that have to agree at every step while one of them is rewritten: operands and
  use lists, terminators and predecessor lists, renaming stacks and the dominator tree;
* loops that end only if a fixpoint is reached;
* names, types and constants that have to stay unique while they are handed out over several
  rounds, and comparisons by address that rely on it;
* what goes on after an error that nobody looks at.

What makes each component right: the builder's blocks are well formed and typed and do what the
syntax tree says; purity is never claimed of a function with effects and never denied without
reason; dead code elimination erases exactly what is not needed and leaves no dangling use; the
dominator pass computes what paths define; promotion to registers changes no value any path
computes; the abstract syntax says what the source says; the text printed has one definition for
each use and one object for each type.

## Modules

**Builder, Meaning.** `Builder` is the visitor. C++ recursion is a stack, `todo`: a visit that
calls `accept` on a child and goes on afterwards is split at the call, and the task that waits on
the stack carries the locals of the visit (`trueBB`, `l_val`, `expr_result`, ...). So each action
is the stretch of one `visit` between two calls of `accept`; `tmp_val`, `require_lvalue` and
`cur_fun` are the globals of the source. A type is a sequence such as `Ptr(Arr(I32))`, which stands
for the interned `Type*`; a value has a type and a reference to what it is. `blocks` holds the code
of each block with its lists of predecessors and successors as `BranchInst::create_br`,
`create_cond_br` and `Function::remove` keep them. Left out: values of constants, lengths of arrays,
names. The three kinds of binary expression treat operands alike and are one kind of node. A step for each
parameter of a function (`Parameter`) stands for the loop that stores the arguments. `Nodes` are
the nodes of the syntax trees; `NodesAssumption` gives each kind the members `ast.hpp` declares for it.
`Meaning` says what a function does along a path, once by the syntax tree (`TreeTrace`) and once by
the blocks (`BlockTrace`): the sequence of stores, calls, tests and the return, where each value is
the term that computes it. Loads carry the number of stores and calls before them, so that moving a load over
one would be noticed. The scopes of `TreeTrace` are those of `cminusf.md:83`, one for the parameters and the body of a
function. The order of the two sides of an assignment is a parameter of it: `AddressFirst` asks for the order of
`cminusf.md:136`, `SameBehaviour` for one order, whichever, throughout a program.

**Purity, FuncInfo.** `FuncInfo` is the analysis, one loop iteration per step, with `is_pure` and
`worklist` surviving a run. Between two runs `RemoveUses` and `EraseInst` stand for what
`DeadCode::sweep` does to the code: the use lists shrink first, then the instruction goes.
`Purity` is the abstract analysis: justified discoveries in any order, final once nothing is left to
discover. `FuncInfo` implements it (`ImplementsPurity`, theorem `Refinement`).

**DeadCode** composes the pass with its own instance of `FuncInfo` over the same program.
`unordered_set` and work-list orders are left open. `ImplementsFuncInfo` checks that the pass is a
legal environment of `FuncInfo`: every step it makes is a step of that specification.

**Dominance, Dominators.** `Dominance` defines dominators, immediate dominators and frontiers by
paths. `Dominators` is the pass, with the recursive search as an explicit stack and each `while`
iteration as a step, null pointers included: `idom_` and `dom_frontier_` answer for null as
`operator[]` of a map does.

**Mem2Reg** takes the dominator tree and frontiers from `Dominance`, which is what `Dominators` is
checked to compute, and models the insertion of phis, `re_name` step by step with its stacks, and
the removal of allocas. A second phase, `Execute`, is not code: it runs the function before and
after the pass side by side along every path and compares what they output.

**UseDef, DefUse.** `UseDef` is the operand and use-list layer under all passes: `operands` and
`num_ops` of each user, `uses[v][u][i]` for the number of times the use of `v` as operand `i` of `u`
is in the `use_list_` of `v`. A list is a bag because nothing depends on its order. The loops of
`replace_all_use_with`, `replace_use_with_when` and `remove_use_of_ops` take a step per iteration;
`pending` is what a walk has still to visit, so the moments at which list and operands disagree are
states. Actions keep to what the callers do: constructors set each operand once, no value is
replaced by itself, operands are all set before they are given up, what is erased has an empty list.
`remove_operands` has no caller and no action. `DefUse` has no lists, only the edges from operands
to values, and replaces a value in all selected users at once; `UseDef` implements it
(`ImplementsDefUse`, theorem `Refinement`).

**Grammar, AST, Syntax.** `Grammar` has the rules of `syntax_analyzer.y` as data and computes the
states bison makes of them; it is external how bison does that, but it decides what the program does:
a state with one complete rule reduces it whatever the next token is (bison's default reductions), and
a token that can be shifted is shifted, which settles the dangling `else`. `AST` has the classes of
`ast.hpp` with the class and the nullness each member is to have, `transform_node_iter` by kind of
node, and what each `visit` of `ASTPrinter` does in order: the members it visits and where it adds to the depth
and takes from it, by hand and on some ways only. `Syntax` runs them: one step per shift or
reduction, then the constructor of `AST` (or the `std::out_of_range` of `stoi`, or the unset pointer,
after a syntax error inside a declaration), then one step per visit of the printer and per change of its depth, with its
recursion as a list of things to do. Names and numerals are symbols; `Number` is what `stoi` and `stof`
make of the numerals.

**GVN** is value numbering as far as it can get. `valueExpr` has no expression for most instructions,
and `valuePhiFunc` dereferences the null pointer it is given for the first of them, at the latest for the
`ret` or `br` at the end of the first block. `TransferFunction` is one instruction of
`detectEquivalences`; a pointer to an expression is an address and what is there, since
`CongruenceClass::contains` compares addresses. The second half of the file - `replace_cc_members`,
`getVN`, the comparisons of partitions and expressions, the constant folder, the dumps - lies behind
that point and has no model. `DeadCode` and `FuncInfo` nevertheless model the second run of dead code
elimination at the end of `GVN::run`, as it is written. The modules are those `Given`: an add and a store have two
operands, and dead code elimination empties no body and leaves each instruction in one place. There is no passing run of `GVN`: TLC
shows the crash (`gvn_crash`), and what holds before it is proved for every module.

**Interning, Emission.** `Interning` has the tables of types and constants: a module is a record of
objects, in the order they were made, and of tables from keys to places in it, so that a place stands for an
address. `Emission` is the life of a function: the builder creates blocks and instructions with the
types their constructors ask for, passes insert empty phis, give them pairs, replace the uses of loads and
erase, and between any two of these steps the module may be named and printed (`PassManager::run` does
so behind each pass with `-emit`, the driver once more at the end), unless a phi still waits for its first pair: then the
pass has not ended, and `PhiInst::print` would read an operand that is not there. What a program has - kinds of
instructions, literals, global variables - is chosen with it; a global array is initialised with the zero of its element
type, as the builder does. The text is kept as what it shows
of names and types: for each line what it defines and what it uses. One function is modelled, and
what the passes do is any sequence of their edits, not a particular pass.

`MC*` modules give the instances. `FuncInfoProofs`, `DeadCodeProofs`, `UseDefProofs`, `GVNProofs`, `DominanceProofs`,
`DominatorsProofs`, `Mem2RegProofs` and `BuilderProofs` hold the proofs.

## Runs

| run | instance | what it shows |
|---|---|---|
| `func_info` | 4 functions, 3 instructions, every program of that shape, 2 runs with any instructions erased in between | `Sound`, `Precise`, `QueuedOnce`; implements `Purity`; ends |
| `dead_code` | 3 functions, 5 instructions, every operand graph of one operand each, 2 runs | exactly the needed code stays, no effect is lost, use lists are exact at every step, one round is enough, ends |
| `dominators` | every graph of 4 reachable blocks, both orders of predecessors | the results are those of the definitions, assertions hold, the climbs keep dominators, ends |
| `dominators_unreachable` | the graph of an `if` whose inner branches return | the frontier loop does not end |
| `mem2reg` | 6 blocks in the shapes of `if`, `while` and `if` in `while`, 2 variables, five bodies per block | outputs are the same along every path, nothing is left to load or store, stacks and phis are right, ends |
| `mem2reg_scope` | a variable of one branch only | the assertion at `Mem2Reg.cpp:133` fails |
| `use_def` | 2 instructions of up to 2 operands and a constant, every order of operations | between operations the lists are exact, nothing erased is used; a replacement changes the right operands; implements `DefUse` |
| `builder` | 670 programs: statements nested two deep around returns and shadowing, expressions of mixed types in every position | blocks are well formed and typed and do what the tree says along paths of up to four tests, in one order of the sides of an assignment; scopes match, names are bound where they are used |
| `builder_order` | assignments with effects in the index and on the right side | the right side comes first, not the address as `cminusf.md:136` says |
| `syntax` | 334 texts: 7 programs that use every rule of the grammar, each also with any one token lost, doubled, or one too many at the end | the abstract syntax written out is what was read, casts are right, the tree is freed once, the printer goes in order and comes back to depth 0, the root is set just if what was read is a list of whole declarations |
| `gvn_crash` | every body of three instructions and a return, beside a declaration | the pass does not get to what `GVN.cpp:602` says it does last |
| `emission` | a parameter, up to two blocks, two instructions beside `ret` and `br`, of five mixes of kinds, an integer or a floating literal, a scalar or an array as a global variable, any passes and prints | types and constants are unique, each text is readable |

Why the bounds are enough. A chain of three calls is the shortest that has a caller of a caller
whose callee is queued late; three instructions allow mutual recursion with an effect outside of
it. Five instructions give dead chains, cycles of phis and calls whose callee becomes pure only in
the second run. Four blocks contain all loops, nested loops, irreducible cycles and joins of three;
the graphs are a superset of what the builder makes of four blocks. For promotion, a loop with a
join inside is the smallest graph whose frontiers have to be iterated, and two variables allow the
swap that breaks naive phi handling. Two levels of nesting let a terminated block meet each kind of
enclosing statement, on either branch, and four tests go through a loop twice with a branch in it.
The texts of `syntax` contain every rule of the grammar at least once, lists of no element up to lists of three, and every
place where an `else`, a bracket or an `=` decides how to go on. Three instructions before the return of `gvn_crash` are enough for an add that
follows an equal add: not even then does the pass come through. Two blocks and two
instructions, with phis inserted between prints, give values that are named in different rounds, erased between
rounds, and phis with one of two predecessors missing; two lengths of arrays tell array types apart. For use lists, two users and a third value allow a user that uses itself, one that uses a value
twice, a value with two users, and a replacement of one user by the other. `MaxOps` bounds the operands.
`RoundCap` caps the counter of rounds in `DeadCode` one above the bound that is checked;
`MaxRuns` bounds the calls of `run`. `MaxBlocks`, `MaxInsts`
and `MaxGlobals` bound what the builder creates in `Emission`; rounds of naming are not bounded.

Fairness. The specification of a pass has weak fairness of its next-state relation (`FuncInfo`: of a
run, not of the calls between runs; `Mem2Reg`: of the pass, not of `Execute`), and no more: the compiler is a single thread that goes on as long as it has
a step to make. No choice is assumed to be made fairly; termination holds for every order.
`CHECK_DEADLOCK FALSE` stands in every configuration, since every pass ends and then stops. `Syntax`, `Emission`, `UseDef` and `Builder` have safety properties only and no fairness.

## Proofs

`FuncInfoProofs` proves, for every set of functions, every program and every number of runs, from
the assumptions `FuncSeqAssumption` (each function is listed once), `MaxRunsAssumption` and
`ProgramsAssumption`:

* `Typing`: `TypeOK` is invariant;
* `Invariance`: the inductive invariant `IInv`. `Sound` says something only when a run has ended, and
  is not inductive. `IInv` adds what holds on the way: the queue holds impure functions once each
  (`QueueInv`); while functions are marked, those marked so far are classified by their own
  instructions, whatever an earlier run has left in the map (`MarkInv`); while impurity is
  carried to callers, each impure function is either queued or all its callers are impure or about to be
  visited (`PropagateInv`), so that an empty queue means that the impure set is closed (`DoneInv`);
  use lists are the calls in the code whenever a run walks them (`UsesAreCalls`);
* `Soundness`, `Precision`, `EachQueuedOnce`: the three safety properties of the run `func_info`, from it;
* `Refinement`: the initial states and all steps are those of `Purity`.

`UseDefProofs` proves, for all sets of values and users and any number of operands, from
`UserAssumption` (users are values, the null pointer is not) and `MaxOpsAssumption`:

* `Invariance`: the inductive invariant `IInv`. `UsesExact` holds only between operations; `IInv` says
  what holds in the middle of one. `ListInv` has the uses each list should hold: those of the
  operands, less what `remove_use_of_ops` has removed so far, and nothing is said of the list that
  `replace_all_use_with` walks, which is out of date until it is cleared. `PendingInv` has the
  reason why clearing it is right: what is still to visit is exactly what still has the old value.
  `RemoveInv` and `FreshInv` say that operands are there when their uses are removed or numbered;
* `Typing`, `ListsExact`, `NothingDangles`: the invariants of the run `use_def`, from it;
* `Refinement`: a replacement takes effect on the edges when its walk begins; each iteration then is a
  stutter, since `Current` shows the new value wherever a visit is pending.

One lemma per action shows that it preserves `IInv`, and one that it is a step of `DefUse` or a
stutter; the lemmas in front of them (`SetEntry`, `AddUseEntry`, `EraseUseEntry`, `TakeUse`) say which
entry an update changes.

`DeadCodeProofs` proves, for every module, any set of functions and any number of runs, from the assumptions
of `FuncInfo` (stated again in `DeadCode`, under the same names) and `OperandsAssumption` (an instruction's operands are
instructions of its own function):

* `Invariance`: the inductive invariant `IInv`. It includes that of `FuncInfo`, which is not proved again:
  `StepSimulation` shows that every step of the pass is a step of `FuncInfo` or leaves its variables alone, and the
  step lemmas of `FuncInfoProofs`, taken by `INSTANCE`, do the rest (the lemmas `Same...` say that the
  definitions under the two names of the instances agree). `UsesInv` has the use lists less what `sweep` has
  detached; `SweepInv` what it has collected and that nothing outside needs it; `MarkedInv` that the marked set
  is the least closed one - each closed part of it that has the critical instructions is all of it - which
  marking keeps from one instruction to the next; `RoundInv` that functions swept are tidy and that in the
  second round all are, so that nothing is collected then;
* `Typing`, `ListsExact`, `NeededIsLeft`: the invariants of the run `dead_code`, from it. That no effect is lost
  needs both passes at once: `WritersImpure` shows that the functions that wrote before anything was
  erased are impure in each later analysis, since the impure set is closed under the calls that are left, and no
  call of a writer has been erased so far;
* `Refinement`: the safety part of `ImplementsFuncInfo`.

`GVNProofs` proves, for all modules that are `Given` (adds and stores have two operands, dead code elimination
empties no body and leaves each instruction in one place), without any assumption:

* `Invariance`: the inductive invariant `IInv`. An expression has the address of its making, and the
  next one is above all of them, so a new expression is in no class (`FoundsClass`); each class holds
  one instruction and its expression, each instruction before `next` has one class (`Right`, by
  `NewPartition` for a step of the transfer function); functions before the current one have no body;
* `Typing`, `NothingCongruent`, `ReturnsOnlyForDeclarations`, from it: that no two instructions ever share a class, and that the
  pass returns only for modules without function bodies, is the opposite of what the pass is for (see Findings).

`DominanceProofs` has the theory of dominance that the next two modules need, from `Dominance` alone and for any set
of blocks: reachability is closed and inductive, dominance is a partial order whose dominators of one block
are a chain (for finitely many blocks), an edge into `b` comes from a block that all strict dominators of `b` dominate, each reachable
block but the entry has one immediate dominator, and a walk over idoms arrives.

`DominatorsProofs` proves, for every graph, with unreachable blocks or without, from `EntryAssumption` (the entry is
a block, the null pointer is not) and `GraphsAssumption` (the graphs are as the builder links them: the lists of
predecessors and successors show the same edges, and nothing branches to the entry):

* `Invariance`: the inductive invariant `IInv`, one part per phase of the pass. `SearchInv`: a block is numbered
  above all that the search reached from it, unless it was still open then, so that numbers are in post order
  (`NumberInv`). `IdomInv`: candidate idoms rise in the numbering, and each dominator of a block dominates its
  idom, at any moment of the iteration; this is the part of `ClimbsMeet` that is not inductive by itself. `PassInv`
  and `MergeInv`: in a pass that has changed nothing so far, each block gone through is settled - its idom is
  on the climb from each predecessor -, so that the fixpoint has the immediate dominators: a settled idom
  dominates its block, and keeps all that do. `WalkInv` and `FrontierInv`: what a walk has passed and what is still in
  front of the runner, so that each pair of a frontier is entered by some walk and no other is;
* `Typing`, `NoClimbAstray`, `Correctness`: the invariants of the run `dominators`, from it. The tree is all there because
  the uppermost block that it missed would be the child of a block it has. For a graph on which the pass
  hangs (`dominators_unreachable`) `Correctness` says nothing of the frontiers, as they are never finished.

TLC has checked `IInv` on all 3977 graphs of four blocks, unreachable ones included, before it was proved.

`Mem2RegProofs` proves, for every function, from `BlockAssumption` (the blocks are finitely many and the entry is one) and
`ProgramsAssumption` (an instruction is a store or load of a variable or an output; the operand of a store or an output
is a constant or the value of a load that dominates it):

* `WalkInvariance`, `Typing`, `StacksAreThePath`: what holds of any function. Phis are at joins and,
  when all are inserted, closed under frontiers (`PhiInv`); the open calls of `re_name` are a path of
  the dominator tree (`CallsInv`); a stack is as high as there are phis and stores in what the open calls
  have passed (`HeightInv`), which is `StacksMatchCalls`;
* `RenamedInvariance`, `Renaming`, `Promotion`: what holds of functions that satisfy `StoredFirst`: every access of a variable
  is reachable, and the entry block stores the variable, ahead of the access if that is in the entry block too. A
  hypothesis of this kind is needed: `mem2reg_scope` shows a function without it whose assertion fails. All
  functions of the run `mem2reg` satisfy it. The definitions of a variable above a place (in its dominators, or before it in its block)
  are in one order, so that one is the newest (`Latest`). `RenamedInv` says that each stack
  is the sequence of their values, the operand of each load passed is the newest value at the load, and a phi
  has from each predecessor renamed so far the newest value at its end.
  `ExecInv` is the invariant of the execution beside: memory has the value of the newest
  definition, and each load above has in its register the value of the newest definition
  at the load. It is kept along an edge because a block with two definitions that meet in it has a
  phi: this is where `PhiInv` is needed.

`BuilderProofs` proves, for all programs, from `NodesAssumption` and `ProgramsAssumption` (a program is a sequence
of declarations):

* `Invariance`: the inductive invariant `IInv`. `WellFormed` does not say where the builder may append, and nothing
  of what the visits on the stack are going to do. `Tasks` has the shape of the stack: behind the task of a statement
  comes one of the `Guards`, which ask whether the block has a terminator before anything else, behind that of an
  expression also what takes its value, and behind all in a function its end. `ScopeInv` counts the scopes by the tasks
  that leave one. `BlockInv` has the blocks: `Graph` is what holds of them at any time; `Building` says that
  all other blocks that have no terminator are empty and among those that some task is going to fill, once
  (`Disjoint`); `Plan` that nothing branches to the false block of an `if` without `else`, the one that `EndIf`
  removes, and that a loop returns to a block that stays. Its last part is the heart: a terminated
  block is met only by tasks that ask for it, so that nothing is appended behind a terminator, although
  most visits never look;
* `ScopesMatching`, `BlocksWellFormed`: two invariants of the run `builder`, from it;
* `TypesInvariance`: for a program that stays `Legal`, the inductive invariant `TypeInv`. `TypesAgree` is about the code that is
  already there and nothing in it says what the next instruction will be given. `ScopeTyped` has the types
  that a name may be bound to, in every scope, and that the run-time function for negative indices is never hidden;
  `TaskTyped` the types of the locals each waiting visit has kept; `TasksTyped` that the value a visit will leave in `tmp_val`
  (`Given`) is one that the visit behind it can take (`Wanted`), where `require_lvalue` decides between a number and its address;
  `ValueTyped` that `tmp_val` is one when its taker is next; `RightBlocks` is `TypesAgree` for every block;
* `TypesAgreeing`, `Typing`: `TypesAgree` and `TypeOK`, from both invariants.

The hypothesis `[]Legal` is needed since the builder checks only that the name of a variable is bound
(`assert` at `cminusf_builder.cpp:405`): a function that is not bound gives a null pointer, and an array where
a number belongs is used as if it were one. `Legal` says that no function is declared twice and that, at
each visit, the names of the expression are bound to a variable or a function as they are used, calls have the arguments the function has
parameters for, and operands, indices, conditions and returned values are numbers. It refers to the scopes and the return type the builder keeps,
so it fails when the builder forgets a name too early as well as for a wrong program; that it holds of all programs of the run `builder` is
checked there. Names are made of letters (`IsName`, `lexical_analyzer.l:35`), so that none can be `neg_idx_except`.

The lemmas in front follow the operators of the model: what `Emit`, `Link`, `CondBr` and `Removed` do to a graph, and what
replacing the first task by others does to the shape of the stack and to the blocks to be filled. One lemma for each action follows.
An `IsSeq` is a sequence of whatever elements, since types are no part of `IInv`. TLC has checked `IInv` and `TypeInv` on the programs
of the run before they were proved.

`Impure` is defined as the least closed set, as the intersection of all closed sets, so that no
induction over call chains is needed: soundness uses that the marked set is closed, precision that
each discovery is in every closed set.

Induction over numbers is not needed either: where a proof takes the least or greatest of a set of numbers
(`LeastNumber`, `GreatestNumber`), it exists since the order of the natural numbers is well founded.

Only model-checked: termination (liveness is beyond the prover); that programs are `Legal`, which is a
matter of the programs; that `GVN` crashes for every body, of which the proofs have only that it does not return; everything about `Emission`, so far; and for good `SameBehaviour` and all of `Syntax`, since `Meaning`,
`Grammar` and `AST` follow trees and rules by RECURSIVE operators.

## Findings

Four disagreements between the code and what is written about it or asserted in it, each shown by
a run that TLC ends with a counterexample: `dominators_unreachable`, `mem2reg_scope`, `builder_order` and `gvn_crash`.
PROJECT.json quotes the lines. Others are part of the models, which follow the code, and have no run of their own:

* `FuncInfo.h:12` names writers and their callers as impure; `is_side_effect_inst` counts loads of
  globals and parameters too (`IsSideEffectInst`).
* The comments of `GVN.cpp:193-201` and `357-376` and the tests under `tests/4-ir-opt/testcases/GVN` have equal instructions in
  one class. `contains` compares pointers to expressions and each instruction gets an expression of its own, so no
  two ever share a class, with or without the crash: `NothingCongruent` proves it for every module.
* `cminusf.md:83` gives parameters the scope of the body; the builder enters a scope for each
  (`FunDeclaration`, `CompoundStmt`), so that a local variable may hide a parameter, which is then no
  program of `cminusf.md` and not among those of the run `builder`.
* `cminusf.md:60` allows `void` for functions only; the parser accepts it for variables and parameters, and
  the transformation makes them `float` (`VarType`).
* `parse` does not look at the result of `yyparse`. After a syntax error behind a complete
  declaration bison has reduced the declarations before it to a program, and the compiler compiles
  that; an error inside a declaration, the first one or a later one, takes all in front of it along, and the
  compiler follows `gt->root`, which `malloc` has not set (`SyntaxError`, `FollowUnset`, `RootSet`).
* `re_name` does not reach code behind an `if` whose branches both return, while `remove_alloca` erases
  the allocas it uses (`Mem2Reg.cpp:142`); with a join there the dominator analysis hangs before (`dominators_unreachable`), so
  `mem2reg` has graphs without such code.

## Plan

In this order, the most important behaviour first:

1. done: `FuncInfo` with `Purity` and proofs, `DeadCode`, `Dominators`, `Mem2Reg`, `Builder`.
2. done: `UseDef` with `DefUse` and proofs.
3. done: `GVN` with proofs; `Grammar`, `AST`, `Syntax`; `Interning`, `Emission`.
4. done: proofs of `DeadCode`, building on `FuncInfoProofs`.
5. done: proofs of `Dominators` and `Mem2Reg`, on the theory of `DominanceProofs`.
6. done: proofs of `Builder`, with the shape of the tasks left to do as the invariant, and of the types it builds.
7. Proofs of the unique types and constants (`Canonical`) of `Emission`.

## Not modelled

* Logging, options and files: no state a property could be about.
* The regular expressions, comments and position counters of the lexer; `lex.yy.c`, which is generated (and
  from an older version of the lexer: the build makes its own).
* The spelling of types, constants and comparisons in the text.
* The part of `GVN.cpp` that cannot be reached, and functions nothing calls: `remove_operands`, `delete_instr`,
  `print_syntax_tree`, `ConstantArray`, constants of type `i1` (only the constant folder of `GVN.cpp` asks for them), `Type::get_size`, the base classes' `accept`.
* Names longer than 30 characters, which `strncpy` in `syntax_tree.c:10` leaves without an end.
* The C library behind `io.c`.
