------------------------------ MODULE Emission ------------------------------
(***************************************************************************)
(* A function of the intermediate representation from its creation to the  *)
(* text given to clang (src/lightir: Function.cpp, BasicBlock.cpp,         *)
(* Instruction.cpp, IRprinter.cpp; Module::set_print_name and print).  The *)
(* builder creates blocks and instructions; then passes insert phis,       *)
(* replace operands and erase instructions, and PassManager names and      *)
(* prints the module behind each of them, so that names are given in       *)
(* several rounds.                                                         *)
(*                                                                         *)
(* Literals and global variables come first here, then the blocks, which   *)
(* are filled in turn: nothing that follows depends on the order in which  *)
(* they came about, only on their order in the function.                   *)
(*                                                                         *)
(* An operand is <<table, place>>: a value of the function, a constant of  *)
(* the module, a global variable or a function called.  Names are unique   *)
(* per function in the text, and one function is modelled.                 *)
(***************************************************************************)
EXTENDS Interning, SequencesExt

CONSTANTS Params,      \* the kinds of the parameters: "int" or "int[]"
          Programs,    \* what a program has: kinds of instructions, literals and global variables
          Lengths,     \* the lengths of arrays
          MaxBlocks,   \* bounds on what is created
          MaxInsts,    \* besides ret and br
          MaxGlobals

ASSUME BoundsAssumption == MaxBlocks \in Nat /\ MaxInsts \in Nat /\ MaxGlobals \in Nat

VARIABLES program,  \* what the program has
          built,    \* the builder has ended
          m,        \* types and constants of the module
          globals,  \* its global variables
          vals,     \* arguments, blocks and instructions ever created
          body,     \* the blocks of the function, each with its instructions
          pre_bbs,  \* the predecessors of each block
          seq_cnt,  \* how many names the function has given
          text      \* what was printed last, if nothing has changed since

vars == <<program, built, m, globals, vals, body, pre_bbs, seq_cnt, text>>

-----------------------------------------------------------------------------
(* Values.                                                                 *)

Unnamed == <<>>
NoText  == <<>>

Val(i) == <<"val", i>>
Const(c) == <<"const", c>>

NewValue(kind, ty, name, op, ops) ==
  [kind |-> kind, ty |-> ty, name |-> name, op |-> op, ops |-> ops]

\* input and output, which the builder declares first.
Callees == <<[ret |-> INT32, args |-> <<>>], [ret |-> VOID, args |-> <<INT32>>]>>

\* get_type of an operand.
TypeOf(o) == CASE o[1] = "val"    -> vals[o[2]].ty
               [] o[1] = "const"  -> m.consts[o[2]].ty
               [] o[1] = "global" -> globals[o[2]].ty
               [] o[1] = "fun"    -> m.function_map[<<Callees[o[2]].ret, Callees[o[2]].args>>]

Insts(n)   == body[n].insts
InBody     == UNION {Range(Insts(n)) : n \in DOMAIN body}
Blocks     == {body[n].bb : n \in DOMAIN body}
IsVoid(i)  == vals[i].op \in {"ret", "br", "store"} \/ (vals[i].op = "call" /\ vals[i].ty = VOID)
UsersOf(i) == {u \in InBody : Val(i) \in Range(vals[u].ops)}

\* The values of the function an instruction may be given.
Usable     == {i \in DOMAIN vals : vals[i].kind = "arg" \/ (i \in InBody /\ ~IsVoid(i))}
OfType(ty) == {Val(i) : i \in {j \in Usable : vals[j].ty = ty}}
Literals(cache) == {Const(cache[v]) : v \in DOMAIN cache}
Integer    == OfType(INT32) \cup Literals(m.cached_int)
Pointers   == {Val(i) : i \in {j \in Usable : IsPointerType(m, vals[j].ty)}}
              \cup {<<"global", g>> : g \in DOMAIN globals}

-----------------------------------------------------------------------------
(* Creating.                                                               *)

ParamType(mod, p) == IF p = "int" THEN INT32 ELSE mod.pointer_map[INT32]

\* The module of CminusfBuilder, with the function and its arguments.
Init ==
  LET m1   == FoldLeft(LAMBDA mod, c : GetFunctionType(mod, c.ret, c.args),
                       GetPointerType(NewModule, INT32), Callees)
      args == [a \in DOMAIN Params |-> ParamType(m1, Params[a])]
  IN /\ program \in Programs
     /\ built = FALSE
     /\ m = GetFunctionType(m1, INT32, args)
     /\ globals = <<>>
     /\ vals = [a \in DOMAIN args |-> NewValue("arg", args[a], Unnamed, "arg", <<>>)]
     /\ body = <<>>
     /\ pre_bbs = Empty
     /\ seq_cnt = 0
     /\ text = NoText

Created(kind) == Len(SelectSeq(vals, LAMBDA v : v.kind = kind))
Building == ~built /\ UNCHANGED <<program, built>>
Passes   == built /\ UNCHANGED <<program, built>>

\* A global variable, of a length unless it is no array, is initialised with the zero
\* of the type of its elements.
CreateGlobal ==
  /\ Building /\ body = <<>> /\ Len(globals) < MaxGlobals
  /\ \E kind \in program.globals :
       LET m1 == IF kind.length = 0 THEN m ELSE GetArrayType(m, kind.of, kind.length)
           ty == IF kind.length = 0 THEN kind.of ELSE m1.array_map[<<kind.of, kind.length>>]
           m2 == GetPointerType(GetZero(m1, kind.of), ty)
       IN /\ m' = m2
          /\ globals' = Append(globals, [ty |-> m2.pointer_map[ty], init |-> Const(m2.cached_zero[kind.of])])
  /\ text' = NoText
  /\ UNCHANGED <<vals, body, pre_bbs, seq_cnt>>

\* A literal of the program: ConstantInt::get and ConstantFP::get.
GetConstant ==
  /\ Building /\ body = <<>>
  /\ m' \in {GetInt(m, v) : v \in program.ints} \cup {GetFP(m, v) : v \in program.floats}
  /\ m' # m
  /\ text' = NoText
  /\ UNCHANGED <<globals, vals, body, pre_bbs, seq_cnt>>

\* The first block of a function is called entry, the others have no name yet.
CreateBlock ==
  /\ Building /\ Created("inst") = 0 /\ Created("block") < MaxBlocks
  /\ LET name == IF Created("block") = 0 THEN <<"label_entry">> ELSE Unnamed
         bb   == Len(vals) + 1
     IN /\ vals' = Append(vals, NewValue("block", LABEL, name, "block", <<>>))
        /\ body' = Append(body, [bb |-> bb, insts |-> <<>>])
        /\ pre_bbs' = (bb :> <<>>) @@ pre_bbs
  /\ text' = NoText
  /\ UNCHANGED <<m, globals, seq_cnt>>

\* What a constructor makes: the module after it asked for its types, and the
\* instruction.
Made(mod, op, ty, ops) == [m |-> mod, op |-> op, ty |-> ty, ops |-> ops]

Binary == {Made(m, "add", INT32, <<x, y>>) : x \in Integer, y \in Integer}
Cmp    == LET m1 == GetInt(m, 0)
          IN {Made(m1, "icmp", INT1, <<x, Const(m1.cached_int[0])>>) : x \in OfType(INT32)}
Zext   == {Made(m, "zext", INT32, <<x>>) : x \in OfType(INT1)}
SiToFp == {Made(m, "sitofp", FLOAT, <<x>>) : x \in Integer}
FpToSi == {Made(m, "fptosi", INT32, <<x>>) : x \in OfType(FLOAT) \cup Literals(m.cached_float)}
Load   == {Made(m, "load", GetPointerElementType(m, TypeOf(p)), <<p>>) : p \in Pointers}
Store  == {Made(m, "store", VOID, <<x, p>>) :
             <<x, p>> \in {xp \in Integer \X Pointers : GetPointerElementType(m, TypeOf(xp[2])) = INT32}}

Alloca ==
  LET made(mod, ty) == LET m1 == GetPointerType(mod, ty) IN Made(m1, "alloca", m1.pointer_map[ty], <<>>)
      array(n)      == LET m1 == GetArrayType(m, INT32, n) IN made(m1, m1.array_map[<<INT32, n>>])
  IN {made(m, INT32), made(m, m.pointer_map[INT32])} \cup {array(n) : n \in Lengths}

\* The type of an element: an array is left behind by the second index.
Gep ==
  LET pointee(p) == GetPointerElementType(m, TypeOf(p))
      elem(p) == IF IsArrayType(m, pointee(p)) THEN m.types[pointee(p)].of ELSE pointee(p)
      made(p) ==
        LET m1   == GetPointerType(GetInt(m, 0), elem(p))
            zero == Const(m1.cached_int[0])
        IN Made(m1, "getelementptr", m1.pointer_map[elem(p)],
                IF IsArrayType(m, pointee(p)) THEN <<p, zero, zero>> ELSE <<p, zero>>)
  IN {made(p) : p \in {q \in Pointers : IsValidElementType(m, pointee(q))}}

Call ==
  {Made(m, "call", INT32, << <<"fun", 1>> >>)}
  \cup {Made(m, "call", VOID, << <<"fun", 2>>, x >>) : x \in Integer}

Creatable ==
  {c \in Binary \cup Cmp \cup Zext \cup SiToFp \cup FpToSi \cup Load \cup Store \cup Alloca \cup Gep \cup Call :
     c.op \in program.insts}

Terminators == {"ret", "br"}
InstsMade   == Len(SelectSeq(vals, LAMBDA v : v.kind = "inst" /\ v.op \notin Terminators))

Open(n)    == Insts(n) = <<>> \/ vals[Last(Insts(n))].op \notin Terminators
OpenBlocks == {n \in DOMAIN body : Open(n)}
Insert     == {n \in OpenBlocks : \A k \in OpenBlocks : n <= k}

PushBack(n)  == Append(Insts(n), Len(vals) + 1)
PushFront(n) == <<Len(vals) + 1>> \o Insts(n)

\* The instruction becomes a value of the function, and block n has the given list with it.
AddInst(n, made, insts) ==
  /\ made.op \in Terminators \/ InstsMade < MaxInsts
  /\ m' = made.m
  /\ vals' = Append(vals, NewValue("inst", made.ty, Unnamed, made.op, made.ops))
  /\ body' = [body EXCEPT ![n].insts = insts]
  /\ text' = NoText
  /\ UNCHANGED <<globals, seq_cnt>>

CreateInst ==
  /\ Building
  /\ \E n \in Insert, made \in Creatable : AddInst(n, made, PushBack(n))
  /\ UNCHANGED pre_bbs

CreateRet ==
  /\ Building
  /\ \E n \in Insert, x \in OfType(INT32) : AddInst(n, Made(m, "ret", VOID, <<x>>), PushBack(n))
  /\ UNCHANGED pre_bbs

CreateBr ==
  /\ Building
  /\ \E n \in Insert, to \in Blocks :
    /\ AddInst(n, Made(m, "br", VOID, <<Val(to)>>), PushBack(n))
    /\ pre_bbs' = [pre_bbs EXCEPT ![to] = Append(@, body[n].bb)]

CreateCondBr ==
  /\ Building
  /\ \E n \in Insert, cond \in OfType(INT1), to1, to2 \in Blocks :
    /\ to1 # to2
    /\ AddInst(n, Made(m, "br", VOID, <<cond, Val(to1), Val(to2)>>), PushBack(n))
    /\ pre_bbs' = [pre_bbs EXCEPT ![to1] = Append(@, body[n].bb), ![to2] = Append(@, body[n].bb)]

\* The builder takes back a block it did not need: it is empty and no branch names it.
RemoveBlock ==
  /\ Building
  /\ \E n \in DOMAIN body \ {1} :
       /\ Insts(n) = <<>> /\ UsersOf(body[n].bb) = {}
       /\ body' = RemoveAt(body, n)
  /\ text' = NoText
  /\ UNCHANGED <<m, globals, vals, pre_bbs, seq_cnt>>

\* Every block the builder leaves has a terminator.
EndBuild ==
  /\ ~built /\ OpenBlocks = {}
  /\ built' = TRUE
  /\ UNCHANGED <<program, m, globals, vals, body, pre_bbs, seq_cnt, text>>

-----------------------------------------------------------------------------
(* Passes.                                                                 *)

\* Mem2Reg puts a phi without operands in front of a block of several predecessors.
InsertPhi ==
  /\ Passes
  /\ \E n \in DOMAIN body :
       /\ Len(pre_bbs[body[n].bb]) > 1
       /\ AddInst(n, Made(m, "phi", INT32, <<>>), PushFront(n))
  /\ UNCHANGED pre_bbs

BlockOf(i) == body[CHOOSE n \in DOMAIN body : i \in Range(Insts(n))].bb

\* Renaming then gives it a pair for each predecessor that has a value.
AddPhiPairOperand ==
  /\ Passes
  /\ \E i \in InBody, x \in Integer :
    /\ vals[i].op = "phi"
    /\ \E p \in Range(pre_bbs[BlockOf(i)]) :
         /\ Val(p) \notin Range(vals[i].ops)
         /\ vals' = [vals EXCEPT ![i].ops = @ \o <<x, Val(p)>>]
    /\ text' = NoText
    /\ UNCHANGED <<m, globals, body, pre_bbs, seq_cnt>>

\* The value of a load becomes the value stored last: replace_all_use_with.
ReplaceLoad ==
  /\ Passes
  /\ \E i \in InBody, x \in Integer :
    /\ vals[i].op = "load" /\ vals[i].ty = INT32 /\ x # Val(i)
    /\ UsersOf(i) # {}
    /\ vals' = [u \in DOMAIN vals |->
                 [vals[u] EXCEPT !.ops = [k \in DOMAIN @ |-> IF @[k] = Val(i) THEN x ELSE @[k]]]]
    /\ text' = NoText
    /\ UNCHANGED <<m, globals, body, pre_bbs, seq_cnt>>

\* An instruction nothing uses is erased; the value is in no block any longer.
EraseInst ==
  /\ Passes
  /\ \E i \in InBody :
    /\ UsersOf(i) = {} /\ vals[i].op \notin {"ret", "br"}
    /\ body' = [n \in DOMAIN body |-> [body[n] EXCEPT !.insts = SelectSeq(@, LAMBDA j : j # i)]]
    /\ vals' = [vals EXCEPT ![i].ops = <<>>]
    /\ text' = NoText
    /\ UNCHANGED <<m, globals, pre_bbs, seq_cnt>>

-----------------------------------------------------------------------------
(* Naming and printing.                                                    *)

\* The order in which set_instr_name meets the values that have names.
NamedValues ==
  [a \in DOMAIN Params |-> a]
  \o FlattenSeq([n \in DOMAIN body |-> <<body[n].bb>> \o SelectSeq(Insts(n), LAMBDA i : ~IsVoid(i))])

Prefix(i) == CASE vals[i].kind = "arg" -> "arg" [] vals[i].kind = "block" -> "label" [] OTHER -> "op"

\* set_name leaves a name alone.
Fresh == SelectSeq(NamedValues, LAMBDA i : vals[i].name = Unnamed)

Number(i) == CHOOSE k \in DOMAIN Fresh : Fresh[k] = i

\* Mutant of SetInstrName: the numbers begin at nought in every round.
SetInstrNameFromNought ==
  /\ vals' = [i \in DOMAIN vals |->
                IF i \notin Range(Fresh) THEN vals[i]
                ELSE [vals[i] EXCEPT !.name = <<Prefix(i), Number(i) - 1>>]]
  /\ seq_cnt' = seq_cnt + Len(Fresh)

\* Mutant of SetInstrName: seq_cnt counts the last round only.
SetInstrNameForgets ==
  /\ vals' = [i \in DOMAIN vals |->
                IF i \notin Range(Fresh) THEN vals[i]
                ELSE [vals[i] EXCEPT !.name = <<Prefix(i), seq_cnt + Number(i) - 1>>]]
  /\ seq_cnt' = Len(Fresh)

\* A number is seq_cnt and how many names were given before in this round.
SetInstrName ==
  /\ vals' = [i \in DOMAIN vals |->
                IF i \notin Range(Fresh) THEN vals[i]
                ELSE [vals[i] EXCEPT !.name = <<Prefix(i), seq_cnt + Number(i) - 1>>]]
  /\ seq_cnt' = seq_cnt + Len(Fresh)

\* print_as_op gives the name of a local value; constants and globals need none.
PrintAsOp(o, ty) == [name |-> IF o[1] = "val" THEN vals[o[2]].name ELSE <<"other">>, ty |-> ty]

Typed(ops)        == [k \in DOMAIN ops |-> PrintAsOp(ops[k], TypeOf(ops[k]))]
Line(i, ty, uses) == [op |-> vals[i].op, def |-> IF IsVoid(i) THEN Unnamed ELSE vals[i].name,
                      ty |-> ty, uses |-> uses, preds |-> <<>>]

\* The second operand is written without a type where is_eq_type finds that of the
\* first, which then holds for both.
PrintOperands(i) ==
  LET ops == vals[i].ops   ty == TypeOf(ops[1])
  IN <<PrintAsOp(ops[1], ty), PrintAsOp(ops[2], IF TypeOf(ops[2]) = ty THEN ty ELSE TypeOf(ops[2]))>>

PrintBinary(i) == Line(i, TypeOf(vals[i].ops[1]), PrintOperands(i))
PrintCmp(i)    == Line(i, INT1, PrintOperands(i))
PrintCall(i)   == Line(i, Callees[vals[i].ops[1][2]].ret, Typed(Tail(vals[i].ops)))
PrintBranch(i) == Line(i, VOID, Typed(vals[i].ops))
PrintRet(i)    == Line(i, VOID, Typed(vals[i].ops))
PrintGep(i)    == Line(i, GetPointerElementType(m, TypeOf(vals[i].ops[1])), Typed(vals[i].ops))
PrintStore(i)  == Line(i, VOID, Typed(vals[i].ops))
PrintLoad(i)   == Line(i, GetPointerElementType(m, TypeOf(vals[i].ops[1])), Typed(vals[i].ops))
PrintAlloca(i) == Line(i, GetPointerElementType(m, vals[i].ty), <<>>)
PrintZext(i)   == Line(i, vals[i].ty, Typed(vals[i].ops))
PrintFpToSi(i) == Line(i, vals[i].ty, Typed(vals[i].ops))
PrintSiToFp(i) == Line(i, vals[i].ty, Typed(vals[i].ops))

\* A phi has the type of its first value; it names the predecessors it has a pair
\* for, and with undef those it has none for.
PrintPhi(i) ==
  LET ops   == vals[i].ops
      n     == Len(ops) \div 2
      pre   == pre_bbs[BlockOf(i)]
      undef == IF n < Len(pre) THEN SelectSeq(pre, LAMBDA b : Val(b) \notin Range(ops)) ELSE <<>>
  IN [Line(i, TypeOf(ops[1]), [k \in 1 .. n |-> PrintAsOp(ops[2 * k - 1], TypeOf(ops[1]))])
      EXCEPT !.preds = [k \in 1 .. n |-> vals[ops[2 * k][2]].name]
                       \o [k \in DOMAIN undef |-> vals[undef[k]].name]]

PrintInst(i) ==
  CASE vals[i].op = "add"    -> PrintBinary(i)
    [] vals[i].op = "icmp"   -> PrintCmp(i)
    [] vals[i].op = "call"   -> PrintCall(i)
    [] vals[i].op = "br"     -> PrintBranch(i)
    [] vals[i].op = "ret"    -> PrintRet(i)
    [] vals[i].op = "store"  -> PrintStore(i)
    [] vals[i].op = "load"   -> PrintLoad(i)
    [] vals[i].op = "alloca" -> PrintAlloca(i)
    [] vals[i].op = "zext"   -> PrintZext(i)
    [] vals[i].op = "fptosi" -> PrintFpToSi(i)
    [] vals[i].op = "sitofp" -> PrintSiToFp(i)
    [] vals[i].op = "phi"    -> PrintPhi(i)
    [] OTHER                 -> PrintGep(i)

PrintBlock(n) ==
  [label |-> vals[body[n].bb].name,
   preds |-> [k \in DOMAIN pre_bbs[body[n].bb] |-> vals[pre_bbs[body[n].bb][k]].name],
   insts |-> [k \in DOMAIN Insts(n) |-> PrintInst(Insts(n)[k])]]

PrintArg(a) == [name |-> vals[a].name, ty |-> vals[a].ty]

\* A function without blocks is declared, with the types of its arguments only.
PrintFunction ==
  [args   |-> IF body = <<>> THEN <<>> ELSE [a \in DOMAIN Params |-> PrintArg(a)],
   blocks |-> [n \in DOMAIN body |-> PrintBlock(n)]]

\* A pass has ended: renaming has come to every phi.
PassEnded == \A i \in InBody : vals[i].op = "phi" => vals[i].ops # <<>>

\* PassManager names the module before it prints; print names it again.
SetPrintName ==
  /\ Passes /\ PassEnded
  /\ SetInstrName
  /\ text' = NoText
  /\ UNCHANGED <<m, globals, body, pre_bbs>>

PrintModule ==
  /\ Passes /\ PassEnded
  /\ SetInstrName
  /\ UNCHANGED <<m, globals, body, pre_bbs>>
  /\ text' = PrintFunction'

Next == \/ CreateGlobal \/ GetConstant \/ CreateBlock \/ CreateInst \/ CreateRet \/ CreateBr
        \/ CreateCondBr \/ RemoveBlock \/ EndBuild
        \/ InsertPhi \/ AddPhiPairOperand \/ ReplaceLoad \/ EraseInst
        \/ SetPrintName \/ PrintModule

Spec == Init /\ [][Next]_vars

-----------------------------------------------------------------------------
(* Properties.                                                             *)

\* Type invariant: what is in a block was created and is in one place of it only,
\* types and constants named by values and tables exist, the types are ones their
\* constructors take the parts of, and every number in a name is one that
\* set_instr_name has counted.
TypeOK ==
  /\ \A t \in Range(m.types) :
       /\ t.id = "array" => IsValidElementType(m, t.of)
       /\ t.id = "function" => /\ IsValidReturnType(m, t.ret)
                              /\ \A ty \in Range(t.args) : IsValidArgumentType(m, ty)
  /\ \A i \in DOMAIN vals :
       /\ vals[i].kind \in {"arg", "block", "inst"} /\ vals[i].ty \in DOMAIN m.types
       /\ Len(vals[i].name) = 2 => vals[i].name[2] < seq_cnt
  /\ \A c \in DOMAIN m.consts : m.consts[c].ty \in DOMAIN m.types
  /\ IsInjective(FlattenSeq([n \in DOMAIN body |-> <<body[n].bb>> \o Insts(n)]))
  /\ InBody \cup Blocks \subseteq DOMAIN vals

\* Types of one structure are one object and so are equal constants, whatever order
\* they were asked for in and however their parts came about: comparing addresses,
\* as is_eq_type and the passes do, is comparing types and constants.
Canonical ==
  /\ IsInjective(Shown(m))
  /\ IsInjective(m.consts)

\* What a reader of the text takes a line to define, and of what type.
Defined(line) ==
  [name |-> line.def,
   ty   |-> CASE line.op = "alloca" -> m.pointer_map[line.ty]
              [] line.op = "getelementptr" ->
                   m.pointer_map[IF Len(line.uses) = 3 THEN m.types[line.ty].of ELSE line.ty]
              [] OTHER -> line.ty]

\* What an instruction asks of the types written for its operands.
WellTyped(line) ==
  LET ty(k) == line.uses[k].ty
  IN CASE line.op \in {"add", "phi"} -> \A k \in DOMAIN line.uses : ty(k) = line.ty
       [] line.op = "icmp"   -> ty(1) = ty(2)
       [] line.op = "store"  -> ty(2) = m.pointer_map[ty(1)]
       [] line.op \in {"load", "getelementptr"} -> ty(1) = m.pointer_map[line.ty]
       [] line.op = "br"     -> Len(line.uses) = 3 => ty(1) = INT1
       [] line.op = "call"   -> <<line.ty, [k \in DOMAIN line.uses |-> ty(k)]>> \in {<<c.ret, c.args>> : c \in Range(Callees)}
       [] OTHER              -> TRUE

\* The text is one clang can read: every name used in it is given to exactly one
\* argument, block or instruction of the text, whichever round of naming it got it
\* in, and used with the type it was given; an operation is written with one type
\* for both operands; and a phi has one entry for each predecessor of its block.
TextReadable ==
  text # NoText =>
    LET lines == FlattenSeq([b \in DOMAIN text.blocks |-> text.blocks[b].insts])
        given == text.args \o [b \in DOMAIN text.blocks |-> [name |-> text.blocks[b].label, ty |-> LABEL]]
                 \o SelectSeq([k \in DOMAIN lines |-> Defined(lines[k])], LAMBDA d : d.name # Unnamed)
    IN /\ IsInjective([k \in DOMAIN given |-> given[k].name])
       /\ \A k \in DOMAIN lines :
            /\ \A u \in Range(lines[k].uses) : u.name = <<"other">> \/ u \in Range(given)
            /\ WellTyped(lines[k])
       /\ \A b \in DOMAIN text.blocks : \A i \in Range(text.blocks[b].insts) :
            i.op = "phi" => /\ IsInjective(i.preds)
                            /\ Range(i.preds) = Range(text.blocks[b].preds)
=============================================================================
