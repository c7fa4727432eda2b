-------------------------------- MODULE AST ---------------------------------
(* The abstract syntax: its classes, the constructor that makes it of the    *)
(* parse tree, and what ASTPrinter shows of a node.  A heap maps the nodes of*)
(* a parse tree to their names and children.  A pointer to a node is a       *)
(* sequence of at most one node, nullptr the empty one, so that pointers and *)
(* vectors read alike.                                                       *)
EXTENDS Grammar

CONSTANTS Number,       \* what std::stoi and std::stof make of a numeral
          OutOfRange    \* their result when the value does not fit: they throw

nullptr == <<>>

-----------------------------------------------------------------------------
(* Classes *)

Declarations == {"var-declaration", "fun-declaration"}
Statements   == {"compound-stmt", "expression-stmt", "selection-stmt", "iteration-stmt", "return-stmt"}
Expressions  == {"assign-expression", "simple-expression"}
Factors      == Expressions \cup {"var", "call", "num"}

One(class)  == [class |-> class, lengths |-> {1}]
Opt(class)  == [class |-> class, lengths |-> {0, 1}]
Many(class) == [class |-> class, lengths |-> Nat]

\* the class each member points to, and whether it may be null
DeclarationMembers ==
  "program"            :> [declarations |-> Many(Declarations)]
  @@ "num"             :> << >>
  @@ "var-declaration" :> [num |-> Opt({"num"})]
  @@ "fun-declaration" :> [params |-> Many({"param"}), compound_stmt |-> One({"compound-stmt"})]
  @@ "param"           :> << >>

StatementMembers ==
  "compound-stmt"      :> [local_declarations |-> Many({"var-declaration"}),
                           statement_list |-> Many(Statements)]
  @@ "expression-stmt" :> [expression |-> Opt(Expressions)]
  @@ "selection-stmt"  :> [expression |-> One(Expressions), if_statement |-> One(Statements),
                           else_statement |-> Opt(Statements)]
  @@ "iteration-stmt"  :> [expression |-> One(Expressions), statement |-> One(Statements)]
  @@ "return-stmt"     :> [expression |-> Opt(Expressions)]

ExpressionMembers ==
  "assign-expression"      :> [var |-> One({"var"}), expression |-> One(Expressions)]
  @@ "simple-expression"   :> [additive_expression_l |-> One({"additive-expression"}),
                               additive_expression_r |-> Opt({"additive-expression"})]
  @@ "var"                 :> [expression |-> Opt(Expressions)]
  @@ "additive-expression" :> [additive_expression |-> Opt({"additive-expression"}),
                               term |-> One({"term"})]
  @@ "term"                :> [term |-> Opt({"term"}), factor |-> One(Factors)]
  @@ "call"                :> [args |-> Many(Expressions)]

Members == DeclarationMembers @@ StatementMembers @@ ExpressionMembers

\* the operators behind the enumerators RelOp, AddOp and MulOp
Sign == "OP_LE" :> "<=" @@ "OP_LT" :> "<" @@ "OP_GT" :> ">" @@ "OP_GE" :> ">=" @@ "OP_EQ" :> "=="
        @@ "OP_NEQ" :> "!=" @@ "OP_PLUS" :> "+" @@ "OP_MINUS" :> "-" @@ "OP_MUL" :> "*" @@ "OP_DIV" :> "/"

-----------------------------------------------------------------------------
(* AST::transform_node_iter *)

Name(h, n)     == h[n].name
Child(h, n, i) == h[n].children[i]

\* the children a loop over a left-recursive list pushes on its stack, in the
\* order they leave it, after the innermost node of the list
RECURSIVE Popped(_, _, _)
Popped(h, list, width) ==
  IF Len(h[list].children) = width
  THEN Append(Popped(h, Child(h, list, 1), width), Child(h, list, width))
  ELSE <<list>>

Elements(h, list, width)  == Tail(Popped(h, list, width))

\* Mutant: the innermost node itself is pushed, not its child.
NonEmptyOfLists(h, list, width) == <<Popped(h, list, width)[1]>> \o Elements(h, list, width)

NonEmpty(h, list, width) == <<Child(h, Popped(h, list, width)[1], 1)>> \o Elements(h, list, width)

TypeName(h, n) == Name(h, Child(h, Child(h, n, 1), 1))

\* there are two cases for variables and parameters, so void counts as float
VarType(h, n) == IF TypeName(h, n) = "int" THEN "TYPE_INT" ELSE "TYPE_FLOAT"
FunType(h, n) == CASE TypeName(h, n) = "int"   -> "TYPE_INT"
                   [] TypeName(h, n) = "float" -> "TYPE_FLOAT"
                   [] OTHER                    -> "TYPE_VOID"

RelOp == "<=" :> "OP_LE" @@ "<" :> "OP_LT" @@ ">" :> "OP_GT" @@ ">=" :> "OP_GE" @@ "==" :> "OP_EQ"
         @@ "!=" :> "OP_NEQ"
AddOp == "+" :> "OP_PLUS" @@ "-" :> "OP_MINUS"
MulOp == "*" :> "OP_MUL" @@ "/" :> "OP_DIV"

Num(type, numeral) == [kind |-> "num", type |-> type, val |-> Number[numeral]]

RECURSIVE Transform(_, _)
TransformAll(h, ns) == [i \in DOMAIN ns |-> Transform(h, ns[i])]

VarDeclaration(h, n) ==
  [kind |-> "var-declaration", type |-> VarType(h, n), id |-> Name(h, Child(h, n, 2)),
   num |-> IF Len(h[n].children) = 6 THEN <<Num("TYPE_INT", Name(h, Child(h, n, 4)))>> ELSE nullptr]

FunDeclaration(h, n) ==
  LET list == Child(h, Child(h, n, 4), 1)   \* a param-list, or the leaf void
  IN [kind |-> "fun-declaration", type |-> FunType(h, n), id |-> Name(h, Child(h, n, 2)),
      params |-> IF h[list].children = <<>> THEN <<>> ELSE TransformAll(h, NonEmpty(h, list, 3)),
      compound_stmt |-> <<Transform(h, Child(h, n, 6))>>]

TransformDeclaration(h, n) ==
  CASE Name(h, n) = "program" ->
         [kind |-> "program", declarations |-> TransformAll(h, NonEmpty(h, Child(h, n, 1), 2))]
    [] Name(h, n) = "declaration" -> Transform(h, Child(h, n, 1))
    [] Name(h, n) = "var-declaration" -> VarDeclaration(h, n)
    [] Name(h, n) = "fun-declaration" -> FunDeclaration(h, n)
    [] Name(h, n) = "param" ->
         [kind |-> "param", type |-> VarType(h, n), id |-> Name(h, Child(h, n, 2)),
          isarray |-> Len(h[n].children) > 2]

TransformStatement(h, n) ==
  LET width  == Len(h[n].children)
      Of(i)  == <<Transform(h, Child(h, n, i))>>
  IN CASE Name(h, n) = "compound-stmt" ->
            [kind |-> "compound-stmt",
             local_declarations |-> TransformAll(h, Elements(h, Child(h, n, 2), 2)),
             statement_list     |-> TransformAll(h, Elements(h, Child(h, n, 3), 2))]
       [] Name(h, n) = "statement" -> Transform(h, Child(h, n, 1))
       [] Name(h, n) = "expression-stmt" ->
            [kind |-> "expression-stmt", expression |-> IF width = 2 THEN Of(1) ELSE nullptr]
       [] Name(h, n) = "selection-stmt" ->
            [kind |-> "selection-stmt", expression |-> Of(3), if_statement |-> Of(5),
             else_statement |-> IF width = 7 THEN Of(7) ELSE nullptr]
       [] Name(h, n) = "iteration-stmt" ->
            [kind |-> "iteration-stmt", expression |-> Of(3), statement |-> Of(5)]
       [] Name(h, n) = "return-stmt" ->
            [kind |-> "return-stmt", expression |-> IF width = 3 THEN Of(2) ELSE nullptr]

\* left operand, operator and right operand, or the right operand alone
TransformExpression(h, n) ==
  LET width  == Len(h[n].children)
      binary == width = 3
      Of(i)  == <<Transform(h, Child(h, n, i))>>
      op(table) == IF binary THEN table[Name(h, Child(h, Child(h, n, 2), 1))] ELSE "none"
      first  == IF binary THEN Of(1) ELSE nullptr
      last   == Of(width)
  IN CASE Name(h, n) = "expression" ->
            IF binary THEN [kind |-> "assign-expression", var |-> Of(1), expression |-> Of(3)]
            ELSE Transform(h, Child(h, n, 1))
       [] Name(h, n) = "var" ->
            [kind |-> "var", id |-> Name(h, Child(h, n, 1)),
             expression |-> IF width = 4 THEN Of(3) ELSE nullptr]
       [] Name(h, n) = "simple-expression" ->
            [kind |-> "simple-expression", additive_expression_l |-> Of(1), op |-> op(RelOp),
             additive_expression_r |-> IF binary THEN Of(3) ELSE nullptr]
       [] Name(h, n) = "additive-expression" ->
            [kind |-> "additive-expression", additive_expression |-> first, op |-> op(AddOp), term |-> last]
       [] Name(h, n) = "term" -> [kind |-> "term", term |-> first, op |-> op(MulOp), factor |-> last]

TransformFactor(h, n) ==
  LET inner == Child(h, n, IF Len(h[n].children) = 3 THEN 2 ELSE 1)
      numeral == Name(h, Child(h, inner, 1))
  IN CASE Name(h, inner) \in {"expression", "var", "call"} -> Transform(h, inner)
       [] Name(h, inner) = "integer"      -> Num("TYPE_INT", numeral)
       [] Name(h, inner) = "float-number" -> Num("TYPE_FLOAT", numeral)

TransformCall(h, n) ==
  LET list == Child(h, Child(h, n, 3), 1)   \* an arg-list, or the leaf epsilon
  IN [kind |-> "call", id |-> Name(h, Child(h, n, 1)),
      args |-> IF Name(h, list) = "arg-list" THEN TransformAll(h, NonEmpty(h, list, 3)) ELSE <<>>]

Transform(h, n) ==
  CASE Name(h, n) \in Declarations \cup {"program", "declaration", "param"} -> TransformDeclaration(h, n)
    [] Name(h, n) \in Statements \cup {"statement"} -> TransformStatement(h, n)
    [] Name(h, n) \in {"expression", "var", "simple-expression", "additive-expression", "term"} ->
         TransformExpression(h, n)
    [] Name(h, n) = "factor" -> TransformFactor(h, n)
    [] Name(h, n) = "call"   -> TransformCall(h, n)
    [] OTHER                 -> [kind |-> "transform failure"]   \* abort(); CastsSound says never

-----------------------------------------------------------------------------
(* ASTPrinter: what a visit does after it has printed the node's own line.   *)
(* depth is one member for all visits, and each of them calls add_depth and  *)
(* remove_depth itself, around its children and in some only if it has any.  *)

Visiting(nodes) == [i \in DOMAIN nodes |-> [task |-> "accept", node |-> nodes[i]]]
AddDepth        == <<[task |-> "add_depth"]>>
RemoveDepth     == <<[task |-> "remove_depth"]>>

Deeper(nodes) == AddDepth \o Visiting(nodes) \o RemoveDepth
Guarded(ptr)  == IF ptr # nullptr THEN Deeper(ptr) ELSE <<>>

\* Mutant: the visit of an array leaves early, before remove_depth.
VisitDeclarationLeavesOpen(n) ==
  CASE n.kind = "program"         -> Deeper(n.declarations)
    [] n.kind = "var-declaration" -> IF n.num # nullptr THEN AddDepth \o Visiting(n.num) ELSE <<>>
    [] n.kind = "fun-declaration" -> Deeper(n.params \o n.compound_stmt)
    [] n.kind = "compound-stmt"   -> Deeper(n.local_declarations \o n.statement_list)
    [] OTHER                      -> <<>>

VisitDeclaration(n) ==
  CASE n.kind = "program"         -> Deeper(n.declarations)
    [] n.kind = "var-declaration" -> Guarded(n.num)
    [] n.kind = "fun-declaration" -> Deeper(n.params \o n.compound_stmt)
    [] n.kind = "compound-stmt"   -> Deeper(n.local_declarations \o n.statement_list)
    [] OTHER                      -> <<>>   \* num and param

VisitStatement(n) ==
  CASE n.kind = "selection-stmt" -> Deeper(n.expression \o n.if_statement \o n.else_statement)
    [] n.kind = "iteration-stmt" -> Deeper(n.expression \o n.statement)
    [] n.kind = "return-stmt"    -> Guarded(n.expression)
    [] OTHER                     -> Deeper(n.expression)

\* Mutant: the right operand is shown first.
VisitExpressionRightFirst(n) ==
  CASE n.kind = "assign-expression"   -> Deeper(n.var \o n.expression)
    [] n.kind = "simple-expression"   -> Deeper(n.additive_expression_r \o n.additive_expression_l)
    [] n.kind = "additive-expression" -> Deeper(n.additive_expression \o n.term)
    [] n.kind = "var"                 -> Guarded(n.expression)
    [] n.kind = "term"                -> Deeper(n.term \o n.factor)
    [] n.kind = "call"                -> Deeper(n.args)

VisitExpression(n) ==
  CASE n.kind = "assign-expression"   -> Deeper(n.var \o n.expression)
    [] n.kind = "simple-expression"   -> Deeper(n.additive_expression_l \o n.additive_expression_r)
    [] n.kind = "additive-expression" -> Deeper(n.additive_expression \o n.term)
    [] n.kind = "var"                 -> Guarded(n.expression)
    [] n.kind = "term"                -> Deeper(n.term \o n.factor)
    [] n.kind = "call"                -> Deeper(n.args)

\* virtual dispatch of accept()
Accept(n) == CASE n.kind \in Statements \ {"compound-stmt"} -> VisitStatement(n)
               [] n.kind \in DOMAIN ExpressionMembers -> VisitExpression(n)
               [] OTHER -> VisitDeclaration(n)

\* what the visit prints of the node itself
Shown(n) == CASE n.kind = "num" -> n.val
              [] "id" \in DOMAIN n -> n.id
              [] "op" \in DOMAIN n /\ n.op # "none" -> Sign[n.op]
              [] OTHER -> n.kind

=============================================================================
