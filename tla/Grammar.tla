------------------------------ MODULE Grammar -------------------------------
(* The rules of syntax_analyzer.y as data, and the automaton bison builds of *)
(* them.  A terminal is written as its lexeme, or by its token name when it  *)
(* has many lexemes.  An item <<lhs, rhs, dot>> is a rule of which dot       *)
(* symbols have been read; a state is named by its kernel items.             *)
EXTENDS Sequences, Naturals, TLC

DeclarationRules ==
  "program"              :> {<<"declaration-list">>}
  @@ "declaration-list"  :> {<<"declaration-list", "declaration">>, <<"declaration">>}
  @@ "declaration"       :> {<<"var-declaration">>, <<"fun-declaration">>}
  @@ "var-declaration"   :> {<<"type-specifier", "IDENTIFIER", ";">>,
                             <<"type-specifier", "IDENTIFIER", "[", "INTEGER", "]", ";">>}
  @@ "type-specifier"    :> {<<"int">>, <<"float">>, <<"void">>}
  @@ "fun-declaration"   :> {<<"type-specifier", "IDENTIFIER", "(", "params", ")", "compound-stmt">>}
  @@ "params"            :> {<<"param-list">>, <<"void">>}
  @@ "param-list"        :> {<<"param-list", ",", "param">>, <<"param">>}
  @@ "param"             :> {<<"type-specifier", "IDENTIFIER">>,
                             <<"type-specifier", "IDENTIFIER", "[", "]">>}
  @@ "compound-stmt"     :> {<<"{", "local-declarations", "statement-list", "}">>}
  @@ "local-declarations" :> {<<"local-declarations", "var-declaration">>, <<>>}

StatementRules ==
  "statement-list"       :> {<<"statement-list", "statement">>, <<>>}
  @@ "statement"         :> {<<"expression-stmt">>, <<"compound-stmt">>, <<"selection-stmt">>,
                             <<"iteration-stmt">>, <<"return-stmt">>}
  @@ "expression-stmt"   :> {<<"expression", ";">>, <<";">>}
  @@ "selection-stmt"    :> {<<"if", "(", "expression", ")", "statement">>,
                             <<"if", "(", "expression", ")", "statement", "else", "statement">>}
  @@ "iteration-stmt"    :> {<<"while", "(", "expression", ")", "statement">>}
  @@ "return-stmt"       :> {<<"return", ";">>, <<"return", "expression", ";">>}

Relops == {"<=", "<", ">", ">=", "==", "!="}
Addops == {"+", "-"}
Mulops == {"*", "/"}

ExpressionRules ==
  "expression"           :> {<<"var", "=", "expression">>, <<"simple-expression">>}
  @@ "var"               :> {<<"IDENTIFIER">>, <<"IDENTIFIER", "[", "expression", "]">>}
  @@ "simple-expression" :> {<<"additive-expression", "relop", "additive-expression">>,
                             <<"additive-expression">>}
  @@ "relop"             :> {<<op>> : op \in Relops}
  @@ "additive-expression" :> {<<"additive-expression", "addop", "term">>, <<"term">>}
  @@ "addop"             :> {<<op>> : op \in Addops}
  @@ "term"              :> {<<"term", "mulop", "factor">>, <<"factor">>}
  @@ "mulop"             :> {<<op>> : op \in Mulops}
  @@ "factor"            :> {<<"(", "expression", ")">>, <<"var">>, <<"call">>, <<"integer">>,
                             <<"float-number">>}
  @@ "integer"           :> {<<"INTEGER">>}
  @@ "float-number"      :> {<<"FLOATPOINT">>}   \* float in the source; the lexeme has the name here
  @@ "call"              :> {<<"IDENTIFIER", "(", "args", ")">>}
  @@ "args"              :> {<<"arg-list">>, <<>>}
  @@ "arg-list"          :> {<<"arg-list", ",", "expression">>, <<"expression">>}

Rules == DeclarationRules @@ StatementRules @@ ExpressionRules

NonTerminals == DOMAIN Rules

-----------------------------------------------------------------------------
(* The automaton *)

RECURSIVE Leftmost(_)
Leftmost(S) ==
  LET more == S \cup ({rhs[1] : rhs \in UNION {Rules[s] : s \in S} \ {<<>>}} \cap NonTerminals)
  IN IF more = S THEN S ELSE Leftmost(more)

Predicted == [s \in NonTerminals |->
                UNION {{<<l, rhs, 0>> : rhs \in Rules[l]} : l \in Leftmost({s})}]

StartState == {<<"$accept", <<"program", "$end">>, 0>>}

AfterDot(K) == {i[2][i[3] + 1] : i \in {i \in K : i[3] < Len(i[2])}}
Closure(K) == K \cup UNION {Predicted[s] : s \in AfterDot(K) \cap NonTerminals}

\* where the automaton goes on reading s; no state when s cannot be read here
Goto(K, s) ==
  {<<i[1], i[2], i[3] + 1>> : i \in {i \in Closure(K) : i[3] < Len(i[2]) /\ i[2][i[3] + 1] = s}}

\* the rules that have been read to their end
Complete(K) == {<<i[1], i[2]>> : i \in {i \in Closure(K) : i[3] = Len(i[2])}}

=============================================================================
