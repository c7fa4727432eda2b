------------------------------- MODULE Syntax -------------------------------
(* From tokens to the abstract syntax: the parser and the parse tree it      *)
(* builds on the heap, the constructor of AST, which transforms the tree and *)
(* frees it, and ASTPrinter, which walks the result.  yyparse() reports a    *)
(* syntax error and returns, and parse() returns the tree either way.        *)
EXTENDS AST, FiniteSets, SequencesExt

CONSTANTS Texts,          \* the programs, as sequences of lexemes
          Identifiers, Integers, Floats   \* the lexemes of the tokens that have many

VARIABLES text, pos,      \* the program and where the lexer is in it
          stack,          \* the parser's states, each with its node
          heap,           \* the parse tree's nodes, by their address
          root,           \* gt->root
          ast,            \* AST::root
          freed,          \* the nodes given to free(), in order
          todo,           \* what the running visits of the printer have yet to do
          depth, shown,   \* ASTPrinter::depth and the lines printed
          pc

vars == <<text, pos, stack, heap, root, ast, freed, todo, depth, shown, pc>>

Unset == 0    \* malloc() leaves gt->root as it is

-----------------------------------------------------------------------------
(* Lexer *)

Lexeme(i) == IF i > Len(text) THEN "$end" ELSE text[i]
Token(lexeme) == CASE lexeme \in Identifiers -> "IDENTIFIER"
                   [] lexeme \in Integers    -> "INTEGER"
                   [] lexeme \in Floats      -> "FLOATPOINT"
                   [] OTHER                  -> lexeme

-----------------------------------------------------------------------------
(* Parser *)

NewSyntaxTreeNode(name) == [name |-> name, children |-> <<>>]
SyntaxTreeAddChild(parent, child) == [parent EXCEPT !.children = Append(@, child)]

\* node(): the heap with a node of that name and children added
Node(h, name, children) ==
  IF children = <<>>
  THEN h \o <<NewSyntaxTreeNode("epsilon"), SyntaxTreeAddChild(NewSyntaxTreeNode(name), Len(h) + 1)>>
  ELSE Append(h, FoldLeft(SyntaxTreeAddChild, NewSyntaxTreeNode(name), children))

Top == Last(stack).state
Lookahead == Token(Lexeme(pos))

Init ==
  /\ text \in Texts /\ pos = 1
  /\ stack = <<[state |-> StartState, node |-> Unset]>>
  /\ heap = <<>> /\ root = Unset
  /\ ast = nullptr /\ freed = <<>>
  /\ todo = <<>> /\ depth = 0 /\ shown = <<>>
  /\ pc = "parsing"

\* pass_node() makes the leaf.  A shift is preferred to a reduction.
Shift ==
  /\ pc = "parsing"
  /\ Lookahead # "$end" /\ Goto(Top, Lookahead) # {}
  /\ heap' = Append(heap, NewSyntaxTreeNode(Lexeme(pos)))
  /\ stack' = Append(stack, [state |-> Goto(Top, Lookahead), node |-> Len(heap')])
  /\ pos' = pos + 1
  /\ UNCHANGED <<text, root, ast, freed, todo, depth, shown, pc>>

Below(rhs) == SubSeq(stack, 1, Len(stack) - Len(rhs))

\* Mutant: a complete rule is reduced although the lookahead can be read.
ReducibleFirst ==
  LET complete == Complete(Top)
  IN IF Cardinality(complete) = 1 THEN complete
     ELSE {r \in complete : Goto(Goto(Last(Below(r[2])).state, r[1]), Lookahead) # {}}

\* Mutant: bison makes no default reductions.
ReducibleOnDemand ==
  IF Goto(Top, Lookahead) # {} THEN {}
  ELSE {r \in Complete(Top) : Goto(Goto(Last(Below(r[2])).state, r[1]), Lookahead) # {}}

\* The rule to reduce: the only one that is complete, whatever the lookahead
\* is, or else the one after which the lookahead can be read.
Reducible ==
  LET complete == Complete(Top)
  IN IF Goto(Top, Lookahead) # {} THEN {}
     ELSE IF Cardinality(complete) = 1 THEN complete
     ELSE {r \in complete : Goto(Goto(Last(Below(r[2])).state, r[1]), Lookahead) # {}}

Reduce ==
  /\ pc = "parsing"
  /\ \E r \in Reducible :
       /\ heap' = Node(heap, r[1], [i \in DOMAIN r[2] |-> stack[Len(Below(r[2])) + i].node])
       /\ stack' = Append(Below(r[2]), [state |-> Goto(Last(Below(r[2])).state, r[1]), node |-> Len(heap')])
       /\ root' = IF r[1] = "program" THEN Len(heap') ELSE root
  /\ UNCHANGED <<text, pos, ast, freed, todo, depth, shown, pc>>

EndOfInput ==
  /\ pc = "parsing" /\ Lookahead = "$end" /\ Goto(Top, "$end") # {}
  /\ pc' = "accepted"
  /\ UNCHANGED <<text, pos, stack, heap, root, ast, freed, todo, depth, shown>>

\* yyerror() prints; what yyparse() returns is not looked at
SyntaxError ==
  /\ pc = "parsing" /\ Goto(Top, Lookahead) = {} /\ Reducible = {}
  /\ pc' = "rejected"
  /\ UNCHANGED <<text, pos, stack, heap, root, ast, freed, todo, depth, shown>>

-----------------------------------------------------------------------------
(* The constructor of AST *)

\* del_syntax_tree_node(n, 1): the nodes in the order they are freed
RECURSIVE Deleted(_, _)

\* Mutant: the children are left alone.
DeletedRootOnly(h, n) == <<n>>

Deleted(h, n) ==
  FoldLeft(LAMBDA order, child : order \o Deleted(h, child), <<>>, h[n].children) \o <<n>>

Throws == \E n \in ToSet(Deleted(heap, root)) :
            Name(heap, n) \in DOMAIN Number /\ Number[Name(heap, n)] = OutOfRange

BuildAST ==
  /\ pc \in {"accepted", "rejected"} /\ root # Unset
  /\ IF Throws
     THEN pc' = "terminated" /\ UNCHANGED <<ast, freed>>
     ELSE /\ ast' = <<Transform(heap, root)>>
          /\ freed' = freed \o Deleted(heap, root)
          /\ pc' = "built"
  /\ UNCHANGED <<text, pos, stack, heap, root, todo, depth, shown>>

\* the transformation follows a pointer that was never written
FollowUnset ==
  /\ pc = "rejected" /\ root = Unset
  /\ pc' = "undefined"
  /\ UNCHANGED <<text, pos, stack, heap, root, ast, freed, todo, depth, shown>>

-----------------------------------------------------------------------------
(* ASTPrinter *)

RunVisitor ==
  /\ pc = "built"
  /\ todo' = Visiting(ast)
  /\ pc' = "printing"
  /\ UNCHANGED <<text, pos, stack, heap, root, ast, freed, depth, shown>>

Visit ==
  /\ pc = "printing" /\ todo # <<>> /\ Head(todo).task = "accept"
  /\ LET n == Head(todo).node
     IN /\ shown' = Append(shown, [depth |-> depth, what |-> Shown(n)])
        /\ todo' = Accept(n) \o Tail(todo)
  /\ UNCHANGED <<text, pos, stack, heap, root, ast, freed, depth, pc>>

MoveDepth ==
  /\ pc = "printing" /\ todo # <<>> /\ Head(todo).task # "accept"
  /\ depth' = IF Head(todo).task = "add_depth" THEN depth + 2 ELSE depth - 2
  /\ todo' = Tail(todo)
  /\ UNCHANGED <<text, pos, stack, heap, root, ast, freed, shown, pc>>

EndPrinting ==
  /\ pc = "printing" /\ todo = <<>>
  /\ pc' = "done"
  /\ UNCHANGED <<text, pos, stack, heap, root, ast, freed, todo, depth, shown>>

Parse == Shift \/ Reduce \/ EndOfInput \/ SyntaxError
Construct == BuildAST \/ FollowUnset
Show == RunVisitor \/ Visit \/ MoveDepth \/ EndPrinting

Next == Parse \/ Construct \/ Show

Spec == Init /\ [][Next]_vars

-----------------------------------------------------------------------------
(* The source text of a syntax tree, by its classes and not by the grammar *)

RECURSIVE Source(_)
Sources(nodes) == FoldLeft(LAMBDA s, n : s \o Source(n), <<>>, nodes)
Listed(nodes)  == IF nodes = <<>> THEN <<>>
                  ELSE FoldLeft(LAMBDA s, n : s \o <<",">> \o Source(n), Source(Head(nodes)), Tail(nodes))
Bracketed(nodes) == IF nodes = <<>> THEN <<>> ELSE <<"[">> \o Sources(nodes) \o <<"]">>
Infix(left, op, right) == IF op = "none" THEN Sources(left \o right)
                          ELSE Sources(left) \o <<Sign[op]>> \o Sources(right)
Spelt(type) == CASE type = "TYPE_INT" -> "int" [] type = "TYPE_FLOAT" -> "float" [] OTHER -> "void"
Grouped(n)  == IF n.kind \in Expressions THEN <<"(">> \o Source(n) \o <<")">> ELSE Source(n)

Source(n) ==
  CASE n.kind = "program" -> Sources(n.declarations)
    [] n.kind = "num" -> <<n.val>>
    [] n.kind = "var-declaration" -> <<Spelt(n.type), n.id>> \o Bracketed(n.num) \o <<";">>
    [] n.kind = "fun-declaration" ->
         <<Spelt(n.type), n.id, "(">> \o (IF n.params = <<>> THEN <<"void">> ELSE Listed(n.params))
         \o <<")">> \o Sources(n.compound_stmt)
    [] n.kind = "param" -> <<Spelt(n.type), n.id>> \o (IF n.isarray THEN <<"[", "]">> ELSE <<>>)
    [] n.kind = "compound-stmt" -> <<"{">> \o Sources(n.local_declarations \o n.statement_list) \o <<"}">>
    [] n.kind = "expression-stmt" -> Sources(n.expression) \o <<";">>
    [] n.kind = "selection-stmt" ->
         <<"if", "(">> \o Sources(n.expression) \o <<")">> \o Sources(n.if_statement)
         \o (IF n.else_statement = nullptr THEN <<>> ELSE <<"else">> \o Sources(n.else_statement))
    [] n.kind = "iteration-stmt" -> <<"while", "(">> \o Sources(n.expression) \o <<")">> \o Sources(n.statement)
    [] n.kind = "return-stmt" -> <<"return">> \o Sources(n.expression) \o <<";">>
    [] n.kind = "assign-expression" -> Sources(n.var) \o <<"=">> \o Sources(n.expression)
    [] n.kind = "simple-expression" -> Infix(n.additive_expression_l, n.op, n.additive_expression_r)
    [] n.kind = "additive-expression" -> Infix(n.additive_expression, n.op, n.term)
    [] n.kind = "term" -> IF n.op = "none" THEN Grouped(n.factor[1])
                          ELSE Infix(n.term, n.op, <<>>) \o Grouped(n.factor[1])
    [] n.kind = "var" -> <<n.id>> \o Bracketed(n.expression)
    [] n.kind = "call" -> <<n.id, "(">> \o Listed(n.args) \o <<")">>

-----------------------------------------------------------------------------
(* Properties *)

RECURSIVE Nodes(_)
Nodes(n) == {n} \cup (IF n.kind \notin DOMAIN Members THEN {}
                       ELSE UNION {UNION {Nodes(n[m][i]) : i \in DOMAIN n[m]} : m \in DOMAIN Members[n.kind]})

ReadSoFar == SubSeq(text, 1, pos - 1)
Value(lexeme) == IF lexeme \in DOMAIN Number THEN Number[lexeme] ELSE lexeme

\* A statement that an else would belong to, were it to follow
RECURSIVE EndsOpen(_)
EndsOpen(s) ==
  CASE s.kind = "selection-stmt" -> s.else_statement = nullptr \/ EndsOpen(s.else_statement[1])
    [] s.kind = "iteration-stmt" -> EndsOpen(s.statement[1])
    [] OTHER                     -> FALSE

\* The abstract syntax says what the source said: written out again it gives
\* every token that was read, in order, with numerals converted and a void
\* variable or parameter declared float (ast.cpp:56), and each else belongs to
\* the nearest if.  After a syntax error it is the program that ended before
\* the offending token.
Faithful ==
  ast # nullptr =>
    LET s == Source(ast[1])
    IN /\ Len(s) = Len(ReadSoFar)
       /\ \A i \in DOMAIN s : s[i] = Value(text[i]) \/ (s[i] = "float" /\ text[i] = "void")
       /\ \A n \in Nodes(ast[1]) : n.kind = "selection-stmt" /\ n.else_statement # nullptr
                                  => ~EndsOpen(n.if_statement[1])

\* Every static_cast of the transformation is one to the class the node has,
\* and every pointer that is followed without a test is not null (ast.hpp:88-214).
CastsSound ==
  ast # nullptr =>
    \A n \in Nodes(ast[1]) : n.kind \in DOMAIN Members /\ \A m \in DOMAIN Members[n.kind] :
      /\ Len(n[m]) \in Members[n.kind][m].lengths
      /\ \A i \in DOMAIN n[m] : n[m][i].kind \in Members[n.kind][m].class

\* del_syntax_tree frees every node it can reach once, after the
\* transformation; an accepted program leaves no node behind.
FreedOnce ==
  /\ freed # <<>> => ast # nullptr
  /\ IsInjective(freed)
  /\ ast # nullptr /\ pos > Len(text) => ToSet(freed) = DOMAIN heap

\* The indents of the lines for n and what is below it, in the order of the visits.
RECURSIVE Indents(_, _)
Indents(n, indent) ==
  FoldLeft(LAMBDA all, t : all \o Indents(t.node, indent + 2), <<indent>>,
           SelectSeq(Accept(n), LAMBDA t : t.task = "accept"))

\* The printer shows names and numbers in the order of the source, each once; and
\* each line is indented by its distance from the root, since the depth that a
\* visit leaves behind is the one it found (ast.cpp:518-737).
PrintedInOrder ==
  LET Words(s) == SelectSeq(s, LAMBDA w : w \in Identifiers \cup Range(Number))
      printed  == Words([i \in DOMAIN shown |-> shown[i].what])
      read     == Words([i \in 1 .. pos - 1 |-> Value(text[i])])
  IN /\ IsPrefix(printed, read)
     /\ pc = "done" => /\ printed = read
                       /\ [i \in DOMAIN shown |-> shown[i].depth] = Indents(ast[1], 0)
                       /\ depth = 0

\* gt->root is written, and what follows has a tree to follow, just if the text that
\* was read before the end or the error is a list of whole declarations: one that is
\* cut short takes the declarations in front of it along (syntax_analyzer.y:105, 358).
RootSet ==
  LET Count(lexeme) == Len(SelectSeq(ReadSoFar, LAMBDA l : l = lexeme))
      whole == ReadSoFar # <<>> /\ Last(ReadSoFar) \in {";", "}"} /\ Count("{") = Count("}")
  IN pc # "parsing" => (root # Unset <=> whole)

=============================================================================
