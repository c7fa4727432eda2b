----------------------------- MODULE BuilderProofs ---------------------------
(* IR generation, for every program: the scopes are left as they are entered, *)
(* and the blocks are well formed, whatever is nested in what and wherever    *)
(* the statements return.                                                     *)
EXTENDS Builder, FiniteSetTheorems, SequenceTheorems, TLAPS

-----------------------------------------------------------------------------
(* The tasks left to do.                                                     *)

\* A sequence of whatever elements.
IsSeq(s) == Len(s) \in Nat /\ s = [n \in 1 .. Len(s) |-> s[n]]

EndKinds  == {"end-of-function", "end-of-compound"}
DeclKinds == {"var-declaration", "fun-declaration"}

\* What is done when a statement is done: the first thing each of them does is to look
\* whether the block has a terminator.
Guards == {"after-statement", "end-of-if", "end-of-else", "end-of-while", "end-of-function"}

\* What takes the value of an expression.
Takers == {"if", "while", "return-value", "assign-to", "store", "right-operand", "operate", "element", "arg"}

StatementTasks  == StatementKinds \cup {"if", "while", "return-value", "end-of-if", "end-of-else",
                                        "end-of-while", "end-of-compound"}
ExpressionTasks == ExpressionKinds \cup {"element", "assign-to", "store", "right-operand", "operate", "args", "arg"}
OtherTasks      == DeclKinds \cup {"parameters", "statement-list", "after-statement", "end-of-function"}

IsTask(t) ==
  /\ "do" \in DOMAIN t
  /\ t.do \in StatementTasks \cup ExpressionTasks \cup OtherTasks
  /\ t.do \in ExpressionKinds \cup StatementKinds \cup DeclKinds => t.node \in Nodes /\ t.node.k = t.do
  /\ t.do \in {"if", "end-of-if"} => t.node \in Nodes /\ t.node.k = "selection-stmt"
  /\ t.do = "while" => t.node \in Nodes /\ t.node.k = "iteration-stmt"
  /\ t.do \in {"statement-list", "after-statement"} => t.rest \in Seq(Statement)
  /\ t.do = "assign-to" => t.node \in Nodes /\ t.node.k = "assign"
  /\ t.do = "right-operand" => t.node \in Nodes /\ t.node.k = "binary"
  /\ t.do = "operate" => t.op \in Binops
  /\ t.do \in {"args", "arg"} => "rest" \in DOMAIN t /\ t.rest \in Seq(Expression)
  /\ t.do = "arg" => t.rest # <<>>

\* What comes behind a task.
MayFollow(d, e) ==
  /\ d \in StatementTasks => e \in Guards
  /\ d \in ExpressionTasks => e \in Guards \cup Takers
  /\ d \in {"statement-list", "after-statement"} => e = "end-of-compound"
  /\ d = "parameters" => e = "compound-stmt"

\* A task of a function has the end of the function behind it, and behind that there
\* are declarations only.
Tasks(q) ==
  /\ IsSeq(q)
  /\ \A n \in 1 .. Len(q) :
       /\ IsTask(q[n])
       /\ q[n].do \notin DeclKinds => \E m \in n .. Len(q) : q[m].do = "end-of-function"
       /\ q[n].do \in {"fun-declaration", "end-of-function"} =>
            \A m \in n + 1 .. Len(q) : q[m].do \in DeclKinds
  /\ \A n \in 1 .. Len(q) - 1 : MayFollow(q[n].do, q[n + 1].do)

\* Visits of compound statements and functions that have not ended.
Ends(q) == Cardinality({n \in DOMAIN q : q[n].do \in EndKinds})

\* The builder is in a function.
InFunction(q) == \E n \in DOMAIN q : q[n].do = "end-of-function"

ScopeInv ==
  /\ IsSeq(scope)
  /\ Len(scope) = 1 + Ends(todo)
  /\ require_lvalue \in BOOLEAN
  /\ require_lvalue => Doing("var") /\ Len(todo) > 1 /\ todo[2].do = "store"

-----------------------------------------------------------------------------
(* The blocks.                                                               *)

Terminators == {"ret", "br"}

IsBlock(b) == /\ b = [fun |-> b.fun, code |-> b.code, pre |-> b.pre, succ |-> b.succ]
              /\ IsSeq(b.code) /\ b.pre \in Seq(Nat) /\ b.succ \in Seq(Nat)

IsBlocks(bs) == IsSeq(bs) /\ \A b \in 1 .. Len(bs) : IsBlock(bs[b])

Sealed(bs)   == \A b \in 1 .. Len(bs) : \A n \in 1 .. Len(bs[b].code) - 1 : bs[b].code[n].op \notin Terminators
Counted(bs)  == \A b, c \in 1 .. Len(bs) : Count(bs[b].succ, c) = Count(bs[c].pre, b)
Branching(bs) == \A b \in 1 .. Len(bs) :
  Range(bs[b].succ) = IF Terminated(bs, b) THEN Targets(Last(bs[b].code)) ELSE {}
Linked(bs)   == \A b \in 1 .. Len(bs) : Range(bs[b].pre) \cup Range(bs[b].succ) \subseteq 1 .. Len(bs)

\* Branches stay in their function.
Homely(bs) == \A b \in 1 .. Len(bs) : bs[b].fun # "removed" =>
                \A c \in Range(bs[b].succ) : bs[c].fun = bs[b].fun

Graph(bs) == IsBlocks(bs) /\ Sealed(bs) /\ Counted(bs) /\ Branching(bs) /\ Linked(bs) /\ Homely(bs)

\* The blocks of open are the only ones that have no terminator yet.
Complete(bs, open) == \A b \in 1 .. Len(bs) : bs[b].fun # "removed" /\ ~Terminated(bs, b) => b \in open

\* The builder appends to block at of function f and has still to fill the blocks of W.
Building(bs, at, W, f) ==
  /\ Graph(bs)
  /\ at \in 1 .. Len(bs) /\ bs[at].fun = f
  /\ at \notin W /\ W \subseteq 1 .. Len(bs)
  /\ \A b \in W : bs[b].code = <<>> /\ bs[b].fun = f
  /\ Complete(bs, W \cup {at})

\* The blocks a task will fill, the one it may find to be needless, and the one a loop
\* goes back to.
Fills(t)  == IF t.do = "end-of-if" THEN {t.falseBB, t.contBB}
             ELSE IF t.do \in {"end-of-else", "end-of-while"} THEN {t.contBB} ELSE {}
Spares(t) == IF t.do = "end-of-if" /\ t.node.else = None THEN {t.falseBB} ELSE {}
Heads(t)  == IF t.do \in {"while", "end-of-while"} THEN {t.exprBB} ELSE {}

ToFill(q)    == UNION {Fills(q[n]) : n \in 1 .. Len(q)}
Needless(q)  == UNION {Spares(q[n]) : n \in 1 .. Len(q)}
LoopHeads(q) == UNION {Heads(q[n]) : n \in 1 .. Len(q)}

\* Each block is to be filled once.
Disjoint(q) ==
  /\ \A n \in 1 .. Len(q) : q[n].do = "end-of-if" => q[n].falseBB # q[n].contBB
  /\ \A m, n \in 1 .. Len(q) : m # n => Fills(q[m]) \cap Fills(q[n]) = {}

\* Nothing branches to a block that may be needless, and a loop goes back to a block
\* that is there.
Plan(q, bs, f) ==
  /\ Disjoint(q)
  /\ \A b \in Needless(q) : bs[b].pre = <<>>
  /\ \A b \in LoopHeads(q) : b \in (1 .. Len(bs)) \ ToFill(q) /\ bs[b].fun = f

\* In a function, and outside of one.  Whatever finds its block with a terminator looks
\* for that first.
InBody(q, bs, at, fun) ==
  /\ Building(bs, at, ToFill(q), fun.ref[2])
  /\ Plan(q, bs, fun.ref[2])
  /\ fun.ret \in {I32, Float, Void}
  /\ Terminated(bs, at) => q[1].do \in Guards \cup {"end-of-compound"}

Blocks(q, bs, at, fun) == IF InFunction(q) THEN InBody(q, bs, at, fun) ELSE Graph(bs) /\ Complete(bs, {})

BlockInv == Blocks(todo, blocks, insert, cur_fun)

IInv == Tasks(todo) /\ ScopeInv /\ BlockInv

-----------------------------------------------------------------------------
(* Sequences of whatever elements.                                           *)

LEMMA SeqIn ==
  ASSUME NEW s, IsSeq(s), NEW S, \A n \in 1 .. Len(s) : s[n] \in S
  PROVE  s \in Seq(S)
<1>1. s \in [1 .. Len(s) -> S] /\ Len(s) \in Nat
  BY DEF IsSeq
<1>q. QED
  BY <1>1, SeqDef

LEMMA SeqRange ==
  ASSUME NEW s, IsSeq(s)
  PROVE  s \in Seq({s[n] : n \in 1 .. Len(s)})
BY SeqIn

LEMMA SeqIs ==
  ASSUME NEW S, NEW s \in Seq(S)
  PROVE  IsSeq(s) /\ \A n \in 1 .. Len(s) : s[n] \in S
BY LenProperties, ElementOfSeq DEF IsSeq

LEMMA FunctionSeq ==
  ASSUME NEW s, NEW n \in Nat, s = [k \in 1 .. n |-> s[k]]
  PROVE  IsSeq(s) /\ Len(s) = n
<1>1. s \in Seq({s[k] : k \in 1 .. n})
  <2>1. s \in [1 .. n -> {s[k] : k \in 1 .. n}]
    OBVIOUS
  <2>q. QED
    BY <2>1, SeqDef
<1>2. Len(s) = n
  <2>1. DOMAIN s = 1 .. Len(s) /\ Len(s) \in Nat
    BY <1>1, LenProperties
  <2>2. DOMAIN s = 1 .. n
    OBVIOUS
  <2>q. QED
    BY <2>1, <2>2
<1>q. QED
  BY <1>2 DEF IsSeq

LEMMA NotEmpty ==
  ASSUME NEW s, IsSeq(s)
  PROVE  s # <<>> <=> Len(s) >= 1
<1>1. s # <<>> => Len(s) \in Nat \ {0}
  BY SeqRange, EmptySeq
<1>2. Len(<<>>) = 0
  BY EmptySeq
<1>q. QED
  BY <1>1, <1>2

LEMMA AppendSeq ==
  ASSUME NEW s, IsSeq(s), NEW x
  PROVE  /\ IsSeq(Append(s, x)) /\ Len(Append(s, x)) = Len(s) + 1
         /\ \A n \in 1 .. Len(s) : Append(s, x)[n] = s[n]
         /\ Append(s, x)[Len(s) + 1] = x
         /\ Append(s, x) # <<>>
<1> DEFINE S == {s[n] : n \in 1 .. Len(s)} \cup {x}
<1>1. s \in Seq(S) /\ x \in S
  BY SeqIn
<1> HIDE DEF S
<1>2. /\ Append(s, x) \in Seq(S) /\ Len(Append(s, x)) = Len(s) + 1
      /\ \A n \in 1 .. Len(s) : Append(s, x)[n] = s[n]
      /\ Append(s, x)[Len(s) + 1] = x
  BY <1>1, AppendProperties
<1>3. IsSeq(Append(s, x)) /\ Len(s) \in Nat
  BY <1>2, SeqIs DEF IsSeq
<1>q. QED
  BY <1>2, <1>3, NotEmpty

LEMMA TailSeq ==
  ASSUME NEW s, IsSeq(s), s # <<>>
  PROVE  /\ IsSeq(Tail(s)) /\ Len(s) \in Nat \ {0} /\ Len(Tail(s)) = Len(s) - 1
         /\ \A n \in 1 .. Len(s) - 1 : Tail(s)[n] = s[n + 1]
<1>1. s \in Seq({s[n] : n \in 1 .. Len(s)})
  BY SeqRange
<1> DEFINE S == {s[n] : n \in 1 .. Len(s)}
<1> HIDE DEF S
<1>2. Tail(s) \in Seq(S) /\ Len(Tail(s)) = Len(s) - 1 /\ \A n \in 1 .. Len(Tail(s)) : Tail(s)[n] = s[n + 1]
  BY <1>1, HeadTailProperties DEF S
<1>3. Len(s) \in Nat /\ Len(s) >= 1
  BY NotEmpty DEF IsSeq
<1>4. IsSeq(Tail(s))
  BY <1>2, SeqIs
<1>q. QED
  BY <1>2, <1>3, <1>4

LEMMA FrontSeq ==
  ASSUME NEW s, IsSeq(s), s # <<>>
  PROVE  IsSeq(Front(s)) /\ Len(Front(s)) = Len(s) - 1
<1>1. Len(s) \in Nat /\ Len(s) >= 1
  BY NotEmpty DEF IsSeq
<1> DEFINE S == {s[n] : n \in 1 .. Len(s)}
<1>2. \A n \in 1 .. Len(s) - 1 : s[n] \in S
  BY <1>1
<1> HIDE DEF S
<1>3. Front(s) \in Seq(S) /\ Len(Front(s)) = IF 1 <= Len(s) - 1 THEN (Len(s) - 1) - 1 + 1 ELSE 0
  BY <1>1, <1>2, SubSeqProperties DEF Front
<1>4. IsSeq(Front(s))
  BY <1>3, SeqIs
<1>5. Len(Front(s)) = Len(s) - 1
  <2> DEFINE k == Len(Front(s))
             l == Len(s)
  <2>1. l \in Nat /\ l >= 1 /\ k = IF 1 <= l - 1 THEN (l - 1) - 1 + 1 ELSE 0
    BY <1>1, <1>3
  <2> HIDE DEF k, l
  <2>2. k = l - 1
    BY <2>1
  <2>q. QED
    BY <2>2 DEF k, l
<1>q. QED
  BY <1>4, <1>5

LEMMA ConcatSeq ==
  ASSUME NEW s, IsSeq(s), NEW t, IsSeq(t)
  PROVE  /\ IsSeq(s \o t) /\ Len(s \o t) = Len(s) + Len(t)
         /\ \A n \in 1 .. Len(s) : (s \o t)[n] = s[n]
         /\ \A n \in 1 .. Len(t) : (s \o t)[Len(s) + n] = t[n]
<1> DEFINE S == {s[n] : n \in 1 .. Len(s)} \cup {t[n] : n \in 1 .. Len(t)}
<1>1. s \in Seq(S) /\ t \in Seq(S)
  BY SeqIn
<1> HIDE DEF S
<1>2. /\ s \o t \in Seq(S) /\ Len(s \o t) = Len(s) + Len(t)
      /\ \A n \in 1 .. Len(s) + Len(t) : (s \o t)[n] = IF n <= Len(s) THEN s[n] ELSE t[n - Len(s)]
  BY <1>1, ConcatProperties
<1>3. Len(s) \in Nat /\ Len(t) \in Nat
  BY DEF IsSeq
<1>4. IsSeq(s \o t)
  BY <1>2, SeqIs
<1>q. QED
  BY <1>2, <1>3, <1>4

LEMMA SeqExtensional ==
  ASSUME NEW s, IsSeq(s), NEW t, IsSeq(t), Len(s) = Len(t), \A n \in 1 .. Len(s) : s[n] = t[n]
  PROVE  s = t
BY DEF IsSeq

LEMMA UnitSeq ==
  ASSUME NEW a
  PROVE  IsSeq(<<a>>) /\ Len(<<a>>) = 1 /\ <<a>>[1] = a
<1> DEFINE u == <<a>>
<1>1. u = [k \in 1 .. 1 |-> u[k]] /\ u[1] = a
  OBVIOUS
<1> HIDE DEF u
<1>2. IsSeq(u) /\ Len(u) = 1
  BY <1>1, FunctionSeq
<1>q. QED
  BY <1>1, <1>2 DEF u

LEMMA ConsSeq ==
  ASSUME NEW a, NEW s, IsSeq(s)
  PROVE  /\ IsSeq(<<a>> \o s) /\ Len(<<a>> \o s) = Len(s) + 1
         /\ (<<a>> \o s)[1] = a
         /\ \A n \in 1 .. Len(s) : (<<a>> \o s)[n + 1] = s[n]
<1>1. IsSeq(<<a>>) /\ Len(<<a>>) = 1 /\ <<a>>[1] = a
  BY UnitSeq
<1>2. Len(s) \in Nat
  BY DEF IsSeq
<1> DEFINE u == <<a>>
<1> HIDE DEF u
<1>3. /\ IsSeq(u \o s) /\ Len(u \o s) = Len(u) + Len(s)
      /\ \A n \in 1 .. Len(u) : (u \o s)[n] = u[n]
      /\ \A n \in 1 .. Len(s) : (u \o s)[Len(u) + n] = s[n]
  BY <1>1, ConcatSeq DEF u
<1>q. QED
  BY <1>1, <1>2, <1>3 DEF u

LEMMA ConsTwo ==
  ASSUME NEW a, NEW b, NEW s, IsSeq(s)
  PROVE  <<a, b>> \o s = <<a>> \o (<<b>> \o s)
<1> DEFINE t == <<b>> \o s
           u == <<a>> \o t
           v == <<a, b>>
           w == v \o s
<1>1. /\ IsSeq(t) /\ Len(t) = Len(s) + 1 /\ t[1] = b
      /\ \A n \in 1 .. Len(s) : t[n + 1] = s[n]
  BY ConsSeq
<1> HIDE DEF t
<1>2. /\ IsSeq(u) /\ Len(u) = Len(t) + 1 /\ u[1] = a
      /\ \A n \in 1 .. Len(t) : u[n + 1] = t[n]
  BY <1>1, ConsSeq
<1>9. v = [k \in 1 .. 2 |-> v[k]] /\ v[1] = a /\ v[2] = b
  OBVIOUS
<1> HIDE DEF v
<1>10. IsSeq(v)
  BY <1>9, FunctionSeq
<1>3. IsSeq(v) /\ Len(v) = 2 /\ v[1] = a /\ v[2] = b
  BY <1>9, FunctionSeq
<1>4. /\ IsSeq(w) /\ Len(w) = 2 + Len(s)
      /\ \A n \in 1 .. 2 : w[n] = v[n]
      /\ \A n \in 1 .. Len(s) : w[2 + n] = s[n]
  <2>1. /\ IsSeq(w) /\ Len(w) = Len(v) + Len(s)
        /\ \A n \in 1 .. Len(v) : w[n] = v[n]
        /\ \A n \in 1 .. Len(s) : w[Len(v) + n] = s[n]
    BY <1>10, ConcatSeq
  <2>q. QED
    BY <1>3, <2>1
<1>5. Len(s) \in Nat
  BY DEF IsSeq
<1> HIDE DEF u, w
<1>6. ASSUME NEW n \in 1 .. Len(w) PROVE w[n] = u[n]
  <2>1. CASE n = 1
    BY <1>2, <1>3, <1>4, <2>1
  <2>2. CASE n = 2
    <3>1. u[1 + 1] = t[1]
      BY <1>1, <1>2, <1>5
    <3>q. QED
      BY <1>1, <1>3, <1>4, <2>2, <3>1
  <2>3. CASE n >= 3
    <3>1. n - 2 \in 1 .. Len(s) /\ n - 1 \in 1 .. Len(t)
      BY <1>1, <1>4, <1>5, <1>6, <2>3
    <3>2. w[2 + (n - 2)] = s[n - 2] /\ u[(n - 1) + 1] = t[n - 1] /\ t[(n - 2) + 1] = s[n - 2]
      BY <1>1, <1>2, <1>4, <3>1
    <3>q. QED
      BY <1>4, <1>5, <1>6, <3>2
  <2>q. QED
    BY <1>4, <1>5, <1>6, <2>1, <2>2, <2>3
<1>7. Len(u) = Len(w)
  BY <1>1, <1>2, <1>4, <1>5
<1>8. w = u
  BY <1>2, <1>4, <1>6, <1>7, SeqExtensional
<1>q. QED
  BY <1>8 DEF t, u, v, w

-----------------------------------------------------------------------------
(* The first task and the others.                                            *)

LEMMA TailOfCons ==
  ASSUME NEW a, NEW q, IsSeq(q)
  PROVE  LET r == <<a>> \o q
         IN IsSeq(r) /\ r # <<>> /\ r[1] = a /\ Tail(r) = q /\ Len(r) = Len(q) + 1
<1> DEFINE r == <<a>> \o q
<1>1. /\ IsSeq(r) /\ Len(r) = Len(q) + 1 /\ r[1] = a
      /\ \A n \in 1 .. Len(q) : r[n + 1] = q[n]
  BY ConsSeq
<1>2. Len(q) \in Nat
  BY DEF IsSeq
<1> HIDE DEF r
<1>3. r # <<>>
  BY <1>1, <1>2, NotEmpty
<1>4. IsSeq(Tail(r)) /\ Len(Tail(r)) = Len(q) /\ \A n \in 1 .. Len(q) : Tail(r)[n] = q[n]
  <2>1. /\ IsSeq(Tail(r)) /\ Len(Tail(r)) = Len(r) - 1
        /\ \A n \in 1 .. Len(r) - 1 : Tail(r)[n] = r[n + 1]
    BY <1>1, <1>3, TailSeq
  <2>2. Len(r) - 1 = Len(q)
    BY <1>1, <1>2
  <2>q. QED
    BY <1>1, <2>1, <2>2
<1>5. Tail(r) = q
  BY <1>4, SeqExtensional
<1>q. QED
  BY <1>1, <1>3, <1>5 DEF r

\* What holds of an element holds of the first or of one of the others.
LEMMA FirstOrLater ==
  ASSUME NEW q, IsSeq(q), q # <<>>
  PROVE  /\ Len(q) \in Nat \ {0} /\ IsSeq(Tail(q)) /\ Len(Tail(q)) = Len(q) - 1
         /\ 1 \in 1 .. Len(q)
         /\ \A n \in 1 .. Len(q) - 1 : n + 1 \in 1 .. Len(q) /\ Tail(q)[n] = q[n + 1]
         /\ \A n \in 1 .. Len(q) : n = 1 \/ (n - 1 \in 1 .. Len(q) - 1 /\ Tail(q)[n - 1] = q[n])
<1>1. /\ IsSeq(Tail(q)) /\ Len(q) \in Nat \ {0} /\ Len(Tail(q)) = Len(q) - 1
      /\ \A n \in 1 .. Len(q) - 1 : Tail(q)[n] = q[n + 1]
  BY TailSeq
<1>2. ASSUME NEW n \in 1 .. Len(q), n # 1
      PROVE  n - 1 \in 1 .. Len(q) - 1 /\ Tail(q)[n - 1] = q[n]
  <2>1. n - 1 \in 1 .. Len(q) - 1 /\ (n - 1) + 1 = n
    BY <1>1, <1>2
  <2>q. QED
    BY <1>1, <2>1
<1>q. QED
  BY <1>1, <1>2

\* The ends in what is behind the first k tasks.
LEMMA EndsBehind ==
  ASSUME NEW q, IsSeq(q), NEW r, IsSeq(r), NEW k \in Nat, Len(q) = Len(r) + k,
         \A n \in 1 .. Len(r) : q[n + k] = r[n]
  PROVE  LET C == {n \in 1 .. Len(q) : n > k /\ q[n].do \in EndKinds}
         IN IsFiniteSet(C) /\ Cardinality(C) = Ends(r) /\ Ends(r) \in Nat
<1> DEFINE B == {n \in 1 .. Len(r) : r[n].do \in EndKinds}
           C == {n \in 1 .. Len(q) : n > k /\ q[n].do \in EndKinds}
<1>1. Len(q) \in Nat /\ Len(r) \in Nat /\ DOMAIN r = 1 .. Len(r)
  BY DEF IsSeq
<1>2. Ends(r) = Cardinality(B)
  BY <1>1 DEF Ends
<1>3. IsFiniteSet(B) /\ IsFiniteSet(C)
  <2>1. IsFiniteSet(1 .. Len(q)) /\ IsFiniteSet(1 .. Len(r))
    BY <1>1, FS_Interval
  <2>q. QED
    BY <2>1, FS_Subset
<1> DEFINE g == [n \in B |-> n + k]
<1>4. g \in Bijection(B, C)
  <2>1. \A n \in B : n + k \in C
    BY <1>1
  <2>2. \A m, n \in B : g[m] = g[n] => m = n
    BY <1>1
  <2>3. \A c \in C : \E n \in B : g[n] = c
    <3>1. TAKE c \in C
    <3>2. c - k \in 1 .. Len(r) /\ (c - k) + k = c
      BY <1>1
    <3>3. c - k \in B
      BY <3>2
    <3>q. QED
      BY <3>2, <3>3
  <2>4. g \in [B -> C]
    BY <2>1
  <2> HIDE DEF g, B, C
  <2>q. QED
    BY <2>2, <2>3, <2>4 DEF Bijection, Injection, Surjection, IsInjective
<1>5. ExistsBijection(B, C)
  BY <1>4 DEF ExistsBijection
<1> HIDE DEF B, C, g
<1>6. Cardinality(B) = Cardinality(C) /\ Cardinality(B) \in Nat
  BY <1>3, <1>5, FS_Bijection, FS_CardinalityType
<1>q. QED
  BY <1>2, <1>3, <1>6 DEF C

LEMMA EndsFirst ==
  ASSUME NEW q, IsSeq(q), q # <<>>
  PROVE  /\ Ends(Tail(q)) \in Nat
         /\ Ends(q) = Ends(Tail(q)) + (IF q[1].do \in EndKinds THEN 1 ELSE 0)
<1> DEFINE r == Tail(q)
           A == {n \in 1 .. Len(q) : q[n].do \in EndKinds}
           C == {n \in 1 .. Len(q) : n > 1 /\ q[n].do \in EndKinds}
<1>1. /\ Len(q) \in Nat \ {0} /\ IsSeq(r) /\ Len(r) = Len(q) - 1
      /\ \A n \in 1 .. Len(q) - 1 : r[n] = q[n + 1]
  BY FirstOrLater
<1>2. Ends(q) = Cardinality(A)
  BY <1>1 DEF Ends, IsSeq
<1>3. Len(q) = Len(r) + 1 /\ \A n \in 1 .. Len(r) : q[n + 1] = r[n]
  BY <1>1
<1> HIDE DEF r
<1>4. IsFiniteSet(C) /\ Cardinality(C) = Ends(r) /\ Ends(r) \in Nat
  BY <1>1, <1>3, EndsBehind
<1>5. CASE q[1].do \in EndKinds
  <2>1. A = C \cup {1} /\ 1 \notin C
    BY <1>1, <1>5
  <2> HIDE DEF A, C
  <2>2. Cardinality(A) = Cardinality(C) + 1
    BY <1>4, <2>1, FS_AddElement
  <2>q. QED
    BY <1>2, <1>4, <1>5, <2>2 DEF r
<1>6. CASE q[1].do \notin EndKinds
  <2>1. A = C
    BY <1>1, <1>6
  <2> HIDE DEF A, C
  <2>2. Ends(q) = Ends(r) + 0
    BY <1>2, <1>4, <2>1
  <2>q. QED
    BY <1>4, <1>6, <2>2 DEF r
<1>q. QED
  BY <1>5, <1>6

LEMMA InFunctionFirst ==
  ASSUME NEW q, IsSeq(q), q # <<>>
  PROVE  InFunction(q) <=> q[1].do = "end-of-function" \/ InFunction(Tail(q))
<1> DEFINE r == Tail(q)
<1>1. /\ Len(q) \in Nat \ {0} /\ IsSeq(r) /\ Len(r) = Len(q) - 1 /\ 1 \in 1 .. Len(q)
      /\ \A n \in 1 .. Len(q) - 1 : n + 1 \in 1 .. Len(q) /\ r[n] = q[n + 1]
      /\ \A n \in 1 .. Len(q) : n = 1 \/ (n - 1 \in 1 .. Len(q) - 1 /\ r[n - 1] = q[n])
  BY FirstOrLater
<1>2. DOMAIN q = 1 .. Len(q) /\ DOMAIN r = 1 .. Len(q) - 1
  BY <1>1 DEF IsSeq
<1> HIDE DEF r
<1>q. QED
  BY <1>1, <1>2 DEF InFunction, r

LEMMA PlanFirst ==
  ASSUME NEW q, IsSeq(q), q # <<>>
  PROVE  /\ ToFill(q) = Fills(q[1]) \cup ToFill(Tail(q))
         /\ Needless(q) = Spares(q[1]) \cup Needless(Tail(q))
         /\ LoopHeads(q) = Heads(q[1]) \cup LoopHeads(Tail(q))
         /\ Disjoint(q) <=> /\ Disjoint(Tail(q))
                            /\ q[1].do = "end-of-if" => q[1].falseBB # q[1].contBB
                            /\ Fills(q[1]) \cap ToFill(Tail(q)) = {}
<1> DEFINE r == Tail(q)
<1>1. /\ Len(q) \in Nat \ {0} /\ IsSeq(r) /\ Len(r) = Len(q) - 1 /\ 1 \in 1 .. Len(q)
      /\ \A n \in 1 .. Len(q) - 1 : n + 1 \in 1 .. Len(q) /\ r[n] = q[n + 1]
      /\ \A n \in 1 .. Len(q) : n = 1 \/ (n - 1 \in 1 .. Len(q) - 1 /\ r[n - 1] = q[n])
  BY FirstOrLater
<1> HIDE DEF r
<1>2. ToFill(q) = Fills(q[1]) \cup ToFill(r)
  BY <1>1 DEF ToFill
<1>3. Needless(q) = Spares(q[1]) \cup Needless(r)
  BY <1>1 DEF Needless
<1>4. LoopHeads(q) = Heads(q[1]) \cup LoopHeads(r)
  BY <1>1 DEF LoopHeads
<1>5. Disjoint(q) <=> /\ Disjoint(r)
                      /\ q[1].do = "end-of-if" => q[1].falseBB # q[1].contBB
                      /\ Fills(q[1]) \cap ToFill(r) = {}
  <2> DEFINE L(s) == \A n \in 1 .. Len(s) : s[n].do = "end-of-if" => s[n].falseBB # s[n].contBB
             P(s) == \A m, n \in 1 .. Len(s) : m # n => Fills(s[m]) \cap Fills(s[n]) = {}
  <2>1. L(q) <=> L(r) /\ (q[1].do = "end-of-if" => q[1].falseBB # q[1].contBB)
    <3>1. ASSUME L(q) PROVE L(r) /\ (q[1].do = "end-of-if" => q[1].falseBB # q[1].contBB)
      <4>1. ASSUME NEW n \in 1 .. Len(r) PROVE r[n].do = "end-of-if" => r[n].falseBB # r[n].contBB
        <5>1. n + 1 \in 1 .. Len(q) /\ r[n] = q[n + 1]
          BY <1>1
        <5>q. QED
          BY <3>1, <5>1
      <4>q. QED
        BY <1>1, <3>1, <4>1
    <3>2. ASSUME L(r), q[1].do = "end-of-if" => q[1].falseBB # q[1].contBB PROVE L(q)
      <4>1. ASSUME NEW n \in 1 .. Len(q) PROVE q[n].do = "end-of-if" => q[n].falseBB # q[n].contBB
        <5>1. n # 1 => n - 1 \in 1 .. Len(r) /\ r[n - 1] = q[n]
          BY <1>1
        <5>q. QED
          BY <3>2, <5>1
      <4>q. QED
        BY <4>1
    <3> HIDE DEF L
    <3>q. QED
      BY <3>1, <3>2
  <2>2. P(q) <=> P(r) /\ \A n \in 1 .. Len(r) : Fills(q[1]) \cap Fills(r[n]) = {}
    <3>1. ASSUME P(q) PROVE P(r) /\ \A n \in 1 .. Len(r) : Fills(q[1]) \cap Fills(r[n]) = {}
      <4>1. \A m, n \in 1 .. Len(r) : m # n => Fills(r[m]) \cap Fills(r[n]) = {}
        <5>1. TAKE m, n \in 1 .. Len(r)
        <5>2. m + 1 \in 1 .. Len(q) /\ n + 1 \in 1 .. Len(q) /\ (m # n => m + 1 # n + 1)
          BY <1>1
        <5>q. QED
          BY <1>1, <3>1, <5>2
      <4>2. \A n \in 1 .. Len(r) : Fills(q[1]) \cap Fills(r[n]) = {}
        <5>1. TAKE n \in 1 .. Len(r)
        <5>2. n + 1 \in 1 .. Len(q) /\ n + 1 # 1
          BY <1>1
        <5>q. QED
          BY <1>1, <3>1, <5>2
      <4>q. QED
        BY <4>1, <4>2
    <3>2. ASSUME P(r), \A n \in 1 .. Len(r) : Fills(q[1]) \cap Fills(r[n]) = {} PROVE P(q)
      <4>1. TAKE m, n \in 1 .. Len(q)
      <4>2. m # 1 => m - 1 \in 1 .. Len(r) /\ r[m - 1] = q[m]
        BY <1>1
      <4>3. n # 1 => n - 1 \in 1 .. Len(r) /\ r[n - 1] = q[n]
        BY <1>1
      <4>4. m # n => m - 1 # n - 1
        BY <1>1
      <4>q. QED
        BY <3>2, <4>2, <4>3, <4>4
    <3> HIDE DEF P
    <3>q. QED
      BY <3>1, <3>2
  <2>3. (Fills(q[1]) \cap ToFill(r) = {}) <=> \A n \in 1 .. Len(r) : Fills(q[1]) \cap Fills(r[n]) = {}
    BY DEF ToFill
  <2>4. (Disjoint(q) <=> L(q) /\ P(q)) /\ (Disjoint(r) <=> L(r) /\ P(r))
    BY DEF Disjoint
  <2> HIDE DEF L, P
  <2>q. QED
    BY <2>1, <2>2, <2>3, <2>4
<1>q. QED
  BY <1>2, <1>3, <1>4, <1>5 DEF r

LEMMA InFunctionEnds ==
  ASSUME NEW q, IsSeq(q)
  PROVE  /\ InFunction(q) <=> \E n \in 1 .. Len(q) : q[n].do = "end-of-function"
         /\ Ends(q) = 0 => ~InFunction(q)
         /\ (\A n \in 1 .. Len(q) : q[n].do \notin EndKinds) => Ends(q) = 0
<1> DEFINE A == {n \in 1 .. Len(q) : q[n].do \in EndKinds}
<1>1. DOMAIN q = 1 .. Len(q) /\ Len(q) \in Nat
  BY DEF IsSeq
<1>2. Ends(q) = Cardinality(A)
  BY <1>1 DEF Ends
<1>3. IsFiniteSet(A)
  <2>1. IsFiniteSet(1 .. Len(q))
    BY <1>1, FS_Interval
  <2>q. QED
    BY <2>1, FS_Subset
<1>4. Ends(q) = 0 <=> A = {}
  BY <1>2, <1>3, FS_EmptySet
<1>5. InFunction(q) <=> \E n \in 1 .. Len(q) : q[n].do = "end-of-function"
  BY <1>1 DEF InFunction
<1>6. Ends(q) = 0 => ~InFunction(q)
  BY <1>4, <1>5 DEF EndKinds
<1>7. (\A n \in 1 .. Len(q) : q[n].do \notin EndKinds) => Ends(q) = 0
  BY <1>4
<1>q. QED
  BY <1>5, <1>6, <1>7

\* A task of a function that is not its end.
Inner(t) == t.do \notin DeclKinds \cup {"end-of-function"}

\* A task that has nothing to do with blocks that are to be filled or gone back to.
Light(t) == t.do \notin {"end-of-if", "end-of-else", "end-of-while", "while"}

SamePlan(q, r) ==
  ToFill(r) = ToFill(q) /\ Needless(r) = Needless(q) /\ LoopHeads(r) = LoopHeads(q) /\ (Disjoint(q) => Disjoint(r))

LEMMA LightPlan ==
  ASSUME NEW t, Light(t)
  PROVE  Fills(t) = {} /\ Spares(t) = {} /\ Heads(t) = {} /\ t.do # "end-of-if"
BY DEF Light, Fills, Spares, Heads

\* What is left when the first task is done.
LEMMA TasksTail ==
  ASSUME NEW q, Tasks(q), q # <<>>
  PROVE  LET r == Tail(q)
         IN /\ IsSeq(q) /\ Tasks(r) /\ IsTask(q[1]) /\ IsSeq(r)
            /\ Inner(q[1]) => InFunction(q) /\ InFunction(r) /\ r # <<>> /\ MayFollow(q[1].do, r[1].do)
            /\ q[1].do \in {"fun-declaration", "end-of-function"} =>
                 ~InFunction(r) /\ \A m \in 1 .. Len(r) : r[m].do \in DeclKinds
<1> DEFINE r == Tail(q)
<1>1. IsSeq(q)
  BY DEF Tasks
<1>2. /\ Len(q) \in Nat \ {0} /\ IsSeq(r) /\ Len(r) = Len(q) - 1 /\ 1 \in 1 .. Len(q)
      /\ \A n \in 1 .. Len(q) - 1 : n + 1 \in 1 .. Len(q) /\ r[n] = q[n + 1]
      /\ \A n \in 1 .. Len(q) : n = 1 \/ (n - 1 \in 1 .. Len(q) - 1 /\ r[n - 1] = q[n])
  BY <1>1, FirstOrLater
<1> HIDE DEF r
<1>9. Len(r) = Len(q) - 1
  BY <1>2
<1>10. Len(q) \in Nat
  BY <1>2
<1>3. ASSUME NEW n \in 1 .. Len(r)
      PROVE  /\ IsTask(r[n])
             /\ r[n].do \notin DeclKinds => \E m \in n .. Len(r) : r[m].do = "end-of-function"
             /\ r[n].do \in {"fun-declaration", "end-of-function"} =>
                  \A m \in n + 1 .. Len(r) : r[m].do \in DeclKinds
  <2>1. n + 1 \in 1 .. Len(q) /\ r[n] = q[n + 1]
    BY <1>2
  <2>2. ASSUME r[n].do \notin DeclKinds
        PROVE  \E m \in n .. Len(r) : r[m].do = "end-of-function"
    <3>1. PICK m \in n + 1 .. Len(q) : q[m].do = "end-of-function"
      BY <2>1, <2>2 DEF Tasks
    <3>2. m \in 1 .. Len(q) /\ m # 1 /\ m - 1 \in n .. Len(r)
      BY <1>9, <1>10
    <3>3. r[m - 1] = q[m]
      BY <1>2, <3>2
    <3>q. QED
      BY <3>1, <3>2, <3>3
  <2>3. ASSUME r[n].do \in {"fun-declaration", "end-of-function"}, NEW m \in n + 1 .. Len(r)
        PROVE  r[m].do \in DeclKinds
    <3>1. m \in 1 .. Len(q) - 1 /\ m + 1 \in (n + 1) + 1 .. Len(q)
      BY <1>2
    <3>2. r[m] = q[m + 1]
      BY <1>2, <3>1
    <3>q. QED
      BY <2>1, <2>3, <3>1, <3>2 DEF Tasks
  <2>q. QED
    BY <2>1, <2>2, <2>3 DEF Tasks
<1>4. ASSUME NEW n \in 1 .. Len(r) - 1
      PROVE  MayFollow(r[n].do, r[n + 1].do)
  <2>1. n + 1 \in 1 .. Len(q) - 1 /\ n \in 1 .. Len(q) - 1 /\ r[n] = q[n + 1] /\ r[n + 1] = q[(n + 1) + 1]
    BY <1>2
  <2>q. QED
    BY <2>1 DEF Tasks
<1>5. Tasks(r)
  BY <1>2, <1>3, <1>4 DEF Tasks
<1>6. IsTask(q[1])
  BY <1>2 DEF Tasks
<1>7. ASSUME Inner(q[1])
      PROVE  InFunction(q) /\ InFunction(r) /\ r # <<>> /\ MayFollow(q[1].do, r[1].do)
  <2>1. PICK m \in 1 .. Len(q) : q[m].do = "end-of-function"
    BY <1>2, <1>7 DEF Tasks, Inner
  <2>2. m # 1 /\ m - 1 \in 1 .. Len(r) /\ r[m - 1] = q[m]
    BY <1>2, <1>7, <2>1 DEF Inner
  <2>3. InFunction(q)
    BY <1>1, <2>1, InFunctionEnds
  <2>4. InFunction(r)
    BY <1>2, <2>1, <2>2, InFunctionEnds
  <2>5. Len(r) >= 1 /\ r[1] = q[1 + 1] /\ 1 \in 1 .. Len(q) - 1
    BY <1>2, <2>2
  <2>6. r # <<>>
    BY <1>2, <2>5, NotEmpty
  <2>7. MayFollow(q[1].do, q[1 + 1].do)
    BY <2>5 DEF Tasks
  <2>q. QED
    BY <2>3, <2>4, <2>5, <2>6, <2>7
<1>8. ASSUME q[1].do \in {"fun-declaration", "end-of-function"}
      PROVE  ~InFunction(r) /\ \A m \in 1 .. Len(r) : r[m].do \in DeclKinds
  <2>1. ASSUME NEW m \in 1 .. Len(r)
        PROVE  r[m].do \in DeclKinds
    <3>1. m \in 1 .. Len(q) - 1 /\ m + 1 \in 1 + 1 .. Len(q) /\ r[m] = q[m + 1]
      BY <1>2
    <3>q. QED
      BY <1>2, <1>8, <3>1 DEF Tasks
  <2>2. ~InFunction(r)
    BY <1>2, <2>1, InFunctionEnds DEF DeclKinds
  <2>q. QED
    BY <2>1, <2>2
<1>q. QED
  BY <1>1, <1>2, <1>5, <1>6, <1>7, <1>8 DEF r

\* One more task in front.
LEMMA TasksCons ==
  ASSUME NEW q, Tasks(q), NEW t, IsTask(t),
         Inner(t) => InFunction(q) /\ MayFollow(t.do, q[1].do),
         t.do \in {"fun-declaration", "end-of-function"} => \A m \in 1 .. Len(q) : q[m].do \in DeclKinds
  PROVE  Tasks(<<t>> \o q)
<1> DEFINE p == <<t>> \o q
<1>1. IsSeq(q)
  BY DEF Tasks
<1>2. IsSeq(p) /\ p # <<>> /\ p[1] = t /\ Tail(p) = q /\ Len(p) = Len(q) + 1
  BY <1>1, TailOfCons
<1> HIDE DEF p
<1>8. Len(p) = Len(q) + 1
  BY <1>2
<1>3. /\ Len(p) \in Nat \ {0}
      /\ \A n \in 1 .. Len(p) - 1 : n + 1 \in 1 .. Len(p) /\ q[n] = p[n + 1]
      /\ \A n \in 1 .. Len(p) : n = 1 \/ (n - 1 \in 1 .. Len(p) - 1 /\ q[n - 1] = p[n])
  BY <1>2, FirstOrLater
<1>4. Len(q) \in Nat
  BY <1>1 DEF IsSeq
<1>5. ASSUME NEW n \in 1 .. Len(p)
      PROVE  /\ IsTask(p[n])
             /\ p[n].do \notin DeclKinds => \E m \in n .. Len(p) : p[m].do = "end-of-function"
             /\ p[n].do \in {"fun-declaration", "end-of-function"} =>
                  \A m \in n + 1 .. Len(p) : p[m].do \in DeclKinds
  <2>1. CASE n = 1
    <3>1. ASSUME t.do \notin DeclKinds
          PROVE  \E m \in 1 .. Len(p) : p[m].do = "end-of-function"
      <4>1. CASE t.do = "end-of-function"
        BY <1>2, <2>1, <4>1
      <4>2. CASE t.do # "end-of-function"
        <5>1. PICK m \in 1 .. Len(q) : q[m].do = "end-of-function"
          BY <1>1, <3>1, <4>2, InFunctionEnds DEF Inner
        <5>2. m \in 1 .. Len(p) - 1
          BY <1>8, <1>4
        <5>q. QED
          BY <1>3, <5>1, <5>2
      <4>q. QED
        BY <4>1, <4>2
    <3>2. ASSUME t.do \in {"fun-declaration", "end-of-function"}, NEW m \in 1 + 1 .. Len(p)
          PROVE  p[m].do \in DeclKinds
      <4>1. m \in 1 .. Len(p) /\ m # 1 /\ m - 1 \in 1 .. Len(q)
        BY <1>4, <1>8
      <4>2. q[m - 1] = p[m]
        BY <1>3, <4>1
      <4>q. QED
        BY <3>2, <4>1, <4>2
    <3>q. QED
      BY <1>2, <2>1, <3>1, <3>2
  <2>2. CASE n # 1
    <3>5. n - 1 \in 1 .. Len(q) /\ n - 1 \in Int
      BY <1>4, <1>8, <2>2
    <3>1. n - 1 \in 1 .. Len(q) /\ q[n - 1] = p[n] /\ n - 1 \in Int
      BY <1>3, <2>2, <3>5
    <3>2. ASSUME p[n].do \notin DeclKinds
          PROVE  \E m \in n .. Len(p) : p[m].do = "end-of-function"
      <4>1. PICK m \in n - 1 .. Len(q) : q[m].do = "end-of-function"
        BY <3>1, <3>2 DEF Tasks
      <4>2. m \in 1 .. Len(p) - 1 /\ m + 1 \in n .. Len(p)
        BY <1>4, <1>8, <2>2
      <4>q. QED
        BY <1>3, <4>1, <4>2
    <3>3. ASSUME p[n].do \in {"fun-declaration", "end-of-function"}, NEW m \in n + 1 .. Len(p)
          PROVE  p[m].do \in DeclKinds
      <4>1. m \in 1 .. Len(p) /\ m # 1 /\ m - 1 \in (n - 1) + 1 .. Len(q)
        BY <1>4, <1>8, <2>2
      <4>2. q[m - 1] = p[m]
        BY <1>3, <4>1
      <4>3. q[m - 1].do \in DeclKinds
        BY <3>1, <3>3, <4>1 DEF Tasks
      <4>q. QED
        BY <4>2, <4>3
    <3>4. IsTask(p[n])
      BY <3>1 DEF Tasks
    <3>q. QED
      BY <3>2, <3>3, <3>4
  <2>q. QED
    BY <2>1, <2>2
<1>6. ASSUME NEW n \in 1 .. Len(p) - 1
      PROVE  MayFollow(p[n].do, p[n + 1].do)
  <2>1. CASE n = 1
    <3>1. q[1] = p[n + 1] /\ p[n] = t
      BY <1>2, <1>3, <2>1
    <3>2. CASE Inner(t)
      BY <3>1, <3>2
    <3>3. CASE ~Inner(t)
      BY <3>1, <3>3 DEF Inner, MayFollow, DeclKinds, StatementTasks, ExpressionTasks, StatementKinds, ExpressionKinds
    <3>q. QED
      BY <3>2, <3>3
  <2>2. CASE n # 1
    <3>1. /\ n - 1 \in 1 .. Len(q) - 1 /\ n \in 1 .. Len(p) /\ (n - 1) + 1 = n
          /\ n - 1 \in 1 .. Len(p) - 1 /\ n \in 1 .. Len(p) - 1
      BY <1>4, <1>8, <2>2
    <3>2. q[n - 1] = p[n] /\ q[n] = p[n + 1]
      BY <1>3, <2>2, <3>1
    <3>3. MayFollow(q[n - 1].do, q[(n - 1) + 1].do)
      BY <3>1 DEF Tasks
    <3>q. QED
      BY <3>1, <3>2, <3>3
  <2>q. QED
    BY <2>1, <2>2
<1>7. Tasks(p)
  BY <1>2, <1>5, <1>6 DEF Tasks
<1>q. QED
  BY <1>7 DEF p

-----------------------------------------------------------------------------
(* What an action does to the tasks.                                         *)

\* A task that neither ends anything nor has to do with blocks that are to be filled.
Plain(t) == IsTask(t) /\ Inner(t) /\ Light(t) /\ t.do # "end-of-compound"

\* Tasks are replaced by others that have the same ends and the same plan.
Moved(q, p) == Tasks(p) /\ p # <<>> /\ InFunction(p) /\ Ends(p) = Ends(q) /\ SamePlan(q, p)

LEMMA Follows ==
  ASSUME NEW d, NEW e
  PROVE  /\ d \in StatementTasks => (MayFollow(d, e) <=> e \in Guards)
         /\ d \in ExpressionTasks => (MayFollow(d, e) <=> e \in Guards \cup Takers)
         /\ d \in {"statement-list", "after-statement"} => (MayFollow(d, e) <=> e = "end-of-compound")
         /\ d = "parameters" => (MayFollow(d, e) <=> e = "compound-stmt")
BY DEF MayFollow, StatementTasks, ExpressionTasks, StatementKinds, ExpressionKinds

LEMMA PopTask ==
  ASSUME NEW q, Tasks(q), q # <<>>, Inner(q[1])
  PROVE  LET r == Tail(q)
         IN /\ Tasks(r) /\ IsSeq(r) /\ r # <<>> /\ InFunction(q) /\ InFunction(r)
            /\ IsTask(q[1]) /\ MayFollow(q[1].do, r[1].do) /\ Ends(r) \in Nat
            /\ Ends(q) = Ends(r) + (IF q[1].do = "end-of-compound" THEN 1 ELSE 0)
            /\ Light(q[1]) => SamePlan(q, r)
<1> DEFINE r == Tail(q)
<1>1. /\ IsSeq(q) /\ Tasks(r) /\ IsTask(q[1]) /\ IsSeq(r)
      /\ InFunction(q) /\ InFunction(r) /\ r # <<>> /\ MayFollow(q[1].do, r[1].do)
  BY TasksTail
<1>2. Ends(r) \in Nat /\ Ends(q) = Ends(r) + (IF q[1].do \in EndKinds THEN 1 ELSE 0)
  BY <1>1, EndsFirst
<1>3. q[1].do \in EndKinds <=> q[1].do = "end-of-compound"
  BY DEF Inner, EndKinds
<1>4. ASSUME Light(q[1])
      PROVE  SamePlan(q, r)
  <2>1. /\ ToFill(q) = Fills(q[1]) \cup ToFill(r)
        /\ Needless(q) = Spares(q[1]) \cup Needless(r)
        /\ LoopHeads(q) = Heads(q[1]) \cup LoopHeads(r)
        /\ Disjoint(q) => Disjoint(r)
    BY <1>1, PlanFirst
  <2>2. Fills(q[1]) = {} /\ Spares(q[1]) = {} /\ Heads(q[1]) = {}
    BY <1>4, LightPlan
  <2>q. QED
    BY <2>1, <2>2 DEF SamePlan
<1>q. QED
  BY <1>1, <1>2, <1>3, <1>4

LEMMA PushTask ==
  ASSUME NEW r, Tasks(r), InFunction(r), NEW t, IsTask(t), Inner(t), t.do # "end-of-compound",
         MayFollow(t.do, r[1].do)
  PROVE  LET q == <<t>> \o r
         IN /\ Tasks(q) /\ IsSeq(q) /\ q # <<>> /\ InFunction(q) /\ q[1] = t /\ Tail(q) = r /\ Len(q) = Len(r) + 1
            /\ Ends(q) = Ends(r)
            /\ Light(t) => SamePlan(r, q)
<1> DEFINE q == <<t>> \o r
<1>1. Tasks(q)
  <2>1. t.do \notin {"fun-declaration", "end-of-function"}
    BY DEF Inner, DeclKinds
  <2>q. QED
    BY <2>1, TasksCons
<1>2. IsSeq(r)
  BY DEF Tasks
<1>3. IsSeq(q) /\ q # <<>> /\ q[1] = t /\ Tail(q) = r /\ Len(q) = Len(r) + 1
  BY <1>2, TailOfCons
<1> HIDE DEF q
<1>4. InFunction(q)
  BY <1>3, InFunctionFirst
<1>5. Ends(q) = Ends(r)
  <2>1. t.do \notin EndKinds
    BY DEF Inner, EndKinds
  <2>2. Ends(r) \in Nat
    BY <1>3, EndsFirst
  <2>3. Ends(q) = Ends(r) + 0
    BY <1>3, <2>1, EndsFirst
  <2>q. QED
    BY <2>2, <2>3
<1>6. ASSUME Light(t)
      PROVE  SamePlan(r, q)
  <2>1. /\ ToFill(q) = Fills(t) \cup ToFill(r)
        /\ Needless(q) = Spares(t) \cup Needless(r)
        /\ LoopHeads(q) = Heads(t) \cup LoopHeads(r)
        /\ Disjoint(q) <=> /\ Disjoint(r)
                           /\ t.do = "end-of-if" => t.falseBB # t.contBB
                           /\ Fills(t) \cap ToFill(r) = {}
    BY <1>3, PlanFirst
  <2>2. Fills(t) = {} /\ Spares(t) = {} /\ Heads(t) = {} /\ t.do # "end-of-if"
    BY <1>6, LightPlan
  <2>q. QED
    BY <2>1, <2>2 DEF SamePlan
<1>q. QED
  BY <1>1, <1>3, <1>4, <1>5, <1>6 DEF q

\* The first task is done and leaves nothing to do.
LEMMA MovedOn ==
  ASSUME NEW q, Tasks(q), q # <<>>, Plain(q[1])
  PROVE  Moved(q, Tail(q)) /\ InFunction(q) /\ MayFollow(q[1].do, Tail(q)[1].do)
<1>1. Inner(q[1]) /\ Light(q[1]) /\ q[1].do # "end-of-compound"
  BY DEF Plain
<1> DEFINE r == Tail(q)
<1>2. /\ Tasks(r) /\ r # <<>> /\ InFunction(q) /\ InFunction(r)
      /\ MayFollow(q[1].do, r[1].do) /\ SamePlan(q, r)
  BY <1>1, PopTask
<1>3. Ends(r) \in Nat /\ Ends(q) = Ends(r) + 0
  BY <1>1, PopTask
<1> HIDE DEF r
<1>4. Ends(r) = Ends(q)
  BY <1>3
<1>q. QED
  BY <1>2, <1>4 DEF Moved, r

LEMMA MovedOne ==
  ASSUME NEW q, Tasks(q), q # <<>>, Plain(q[1]), NEW a, Plain(a), MayFollow(a.do, Tail(q)[1].do)
  PROVE  LET p == <<a>> \o Tail(q)
         IN Moved(q, p) /\ p[1] = a /\ Tail(p) = Tail(q)
<1> DEFINE r == Tail(q)
           p == <<a>> \o r
<1>1. Moved(q, r)
  BY MovedOn
<1> HIDE DEF r
<1>2. /\ Tasks(p) /\ p # <<>> /\ InFunction(p) /\ p[1] = a /\ Tail(p) = r
      /\ Ends(p) = Ends(r) /\ SamePlan(r, p)
  <2>1. Tasks(r) /\ InFunction(r) /\ IsTask(a) /\ Inner(a) /\ Light(a) /\ a.do # "end-of-compound"
    BY <1>1 DEF Plain, Moved
  <2>2. MayFollow(a.do, r[1].do)
    BY DEF r
  <2>q. QED
    BY <2>1, <2>2, PushTask
<1> HIDE DEF p
<1>3. Moved(q, p)
  BY <1>1, <1>2 DEF Moved, SamePlan
<1>q. QED
  BY <1>2, <1>3 DEF p, r

LEMMA MovedTwo ==
  ASSUME NEW q, Tasks(q), q # <<>>, Plain(q[1]), NEW a, Plain(a), NEW b, Plain(b),
         MayFollow(a.do, b.do), MayFollow(b.do, Tail(q)[1].do),
         NEW p, p = <<a, b>> \o Tail(q)
  PROVE  Moved(q, p) /\ p[1] = a /\ Len(p) > 1 /\ p[2] = b
<1> DEFINE r == Tail(q)
           s == <<b>> \o r
<1>1. Moved(q, s) /\ s[1] = b
  BY MovedOne
<1>2. IsSeq(r)
  BY PopTask DEF Plain
<1>3. p = <<a>> \o s
  BY <1>2, ConsTwo
<1> HIDE DEF r, s
<1>4. /\ Tasks(p) /\ IsSeq(p) /\ p # <<>> /\ InFunction(p) /\ p[1] = a /\ Tail(p) = s /\ Len(p) = Len(s) + 1
      /\ Ends(p) = Ends(s) /\ SamePlan(s, p)
  <2>1. Tasks(s) /\ InFunction(s) /\ IsTask(a) /\ Inner(a) /\ Light(a) /\ a.do # "end-of-compound"
    BY <1>1 DEF Plain, Moved
  <2>2. MayFollow(a.do, s[1].do)
    BY <1>1
  <2>q. QED
    BY <1>3, <2>1, <2>2, PushTask
<1>5. Moved(q, p)
  BY <1>1, <1>4 DEF Moved, SamePlan
<1>6. Len(p) > 1 /\ p[2] = b
  <2>1. IsSeq(s) /\ s # <<>>
    BY <1>1 DEF Moved, Tasks
  <2>2. Len(s) \in Nat /\ Len(s) >= 1
    BY <2>1, NotEmpty DEF IsSeq
  <2>3. s[1] = p[1 + 1]
    <3>1. 1 \in 1 .. Len(p) - 1
      BY <1>4, <2>2
    <3>2. \A n \in 1 .. Len(p) - 1 : Tail(p)[n] = p[n + 1]
      BY <1>4, FirstOrLater
    <3>q. QED
      BY <1>4, <3>1, <3>2
  <2>q. QED
    BY <1>1, <1>4, <2>2, <2>3
<1>q. QED
  BY <1>4, <1>5, <1>6

-----------------------------------------------------------------------------
(* The tasks an action leaves, one action after the other.                   *)

LEMMA VisitPlain ==
  ASSUME NEW n, n \in Expression \/ n \in Statement
  PROVE  /\ Plain(Visit(n)) /\ Visit(n).do = n.k
         /\ n \in Expression => n.k \in ExpressionKinds
         /\ n \in Statement => n.k \in StatementKinds
<1>1. n \in Nodes /\ n.k \in ExpressionKinds \cup StatementKinds
  BY DEF Expression, Statement
<1>2. "do" \in DOMAIN Visit(n) /\ Visit(n).do = n.k /\ Visit(n).node = n
  BY DEF Visit
<1>3. n.k \in StatementTasks \cup ExpressionTasks
  BY <1>1 DEF StatementTasks, ExpressionTasks
<1>4. /\ n.k \notin {"if", "end-of-if", "while", "statement-list", "after-statement", "assign-to", "right-operand",
                     "operate", "args", "arg", "end-of-else", "end-of-while", "end-of-compound", "end-of-function"}
      /\ n.k \notin DeclKinds
  BY <1>1 DEF ExpressionKinds, StatementKinds, DeclKinds
<1> DEFINE v == Visit(n)
<1> HIDE DEF v
<1>5. IsTask(v)
  BY <1>1, <1>2, <1>3, <1>4 DEF IsTask, v
<1>6. Plain(v)
  BY <1>2, <1>4, <1>5 DEF Plain, Inner, Light, v
<1>q. QED
  BY <1>2, <1>6 DEF Expression, Statement, v

LEMMA VisitDeclaration ==
  ASSUME NEW n \in Declaration
  PROVE  IsTask(Visit(n)) /\ Visit(n).do = n.k /\ n.k \in DeclKinds
<1>1. n \in Nodes /\ n.k \in DeclKinds
  BY DEF Declaration, DeclKinds
<1>2. "do" \in DOMAIN Visit(n) /\ Visit(n).do = n.k /\ Visit(n).node = n
  BY DEF Visit
<1> DEFINE v == Visit(n)
<1> HIDE DEF v
<1>3. IsTask(v)
  BY <1>1, <1>2 DEF IsTask, v, OtherTasks, DeclKinds
<1>q. QED
  BY <1>1, <1>2, <1>3 DEF v

\* What Then makes of the tasks.
LEMMA Thens ==
  ASSUME NEW q, IsSeq(q), q # <<>>
  PROVE  <<>> \o Tail(q) = Tail(q) /\ Head(q) = q[1]
<1> DEFINE r == Tail(q)
           e == <<>>
           w == e \o r
<1>1. IsSeq(r)
  BY TailSeq
<1>2. IsSeq(e) /\ Len(e) = 0
  BY EmptySeq, SeqIs
<1> HIDE DEF r, e
<1>3. /\ IsSeq(w) /\ Len(w) = Len(e) + Len(r)
      /\ \A n \in 1 .. Len(r) : w[Len(e) + n] = r[n]
  BY <1>1, <1>2, ConcatSeq
<1> HIDE DEF w
<1>4. Len(w) = Len(r) /\ \A n \in 1 .. Len(r) : w[n] = r[n]
  BY <1>1, <1>2, <1>3 DEF IsSeq
<1>5. w = r
  BY <1>1, <1>3, <1>4, SeqExtensional
<1>6. Head(q) = q[1]
  BY SeqRange, HeadTailProperties
<1>q. QED
  BY <1>5, <1>6 DEF r, e, w

\* What is common to all actions: the task at hand is the first one.
LEMMA FirstTask ==
  ASSUME Tasks(todo), NEW t, Doing(t)
  PROVE  /\ todo # <<>> /\ IsSeq(todo) /\ Task = todo[1] /\ Task.do = t /\ IsTask(Task)
         /\ Then(<<>>) => todo' = Tail(todo)
<1>1. todo # <<>> /\ Task.do = t /\ IsSeq(todo)
  BY DEF Doing, Tasks
<1>2. Task = todo[1] /\ (Then(<<>>) => todo' = Tail(todo))
  BY <1>1, Thens DEF Task, Then
<1>3. IsTask(todo[1])
  BY <1>1, TasksTail
<1>q. QED
  BY <1>1, <1>2, <1>3

\* The task at hand is a plain one.
Facing(t) == /\ Tasks(todo) /\ todo # <<>> /\ InFunction(todo)
             /\ Task = todo[1] /\ Task.do = t /\ IsTask(Task) /\ Plain(Task)
             /\ MayFollow(t, Tail(todo)[1].do)

LEMMA PlainTask ==
  ASSUME Tasks(todo), NEW t, Doing(t),
         t \in (StatementTasks \cup ExpressionTasks \cup {"parameters", "statement-list", "after-statement"})
               \ {"end-of-if", "end-of-else", "end-of-while", "while", "end-of-compound"}
  PROVE  Facing(t)
<1>1. todo # <<>> /\ Task = todo[1] /\ Task.do = t /\ IsTask(Task)
  BY FirstTask
<1>2. Plain(todo[1])
  <2>1. t \notin DeclKinds \cup {"end-of-function"}
    BY DEF DeclKinds, StatementTasks, ExpressionTasks, StatementKinds, ExpressionKinds
  <2>q. QED
    BY <1>1, <2>1 DEF Plain, Inner, Light
<1>3. InFunction(todo) /\ MayFollow(t, Tail(todo)[1].do)
  BY <1>1, <1>2, MovedOn
<1>q. QED
  BY <1>1, <1>2, <1>3 DEF Facing

LEMMA ReplacedByNone ==
  ASSUME NEW t, Facing(t), Then(<<>>)
  PROVE  Moved(todo, todo') /\ todo' = Tail(todo)
<1>1. todo' = Tail(todo)
  BY Thens DEF Then, Facing, Tasks
<1>q. QED
  BY <1>1, MovedOn DEF Facing

LEMMA ReplacedByOne ==
  ASSUME NEW t, Facing(t), NEW a, Plain(a), MayFollow(a.do, Tail(todo)[1].do), Then(<<a>>)
  PROVE  Moved(todo, todo') /\ todo'[1] = a
<1>1. todo' = <<a>> \o Tail(todo)
  BY DEF Then
<1>q. QED
  BY <1>1, MovedOne DEF Facing

LEMMA ReplacedByTwo ==
  ASSUME NEW t, Facing(t), NEW a, NEW b, Plain(a), Plain(b), MayFollow(a.do, b.do), MayFollow(b.do, Tail(todo)[1].do),
         Then(<<a, b>>)
  PROVE  Moved(todo, todo') /\ todo'[1] = a /\ Len(todo') > 1 /\ todo'[2] = b
<1>1. todo' = <<a, b>> \o Tail(todo)
  BY DEF Then
<1>2. Tasks(todo) /\ todo # <<>> /\ Plain(todo[1])
  BY DEF Facing
<1>3. Moved(todo, todo')
  BY <1>1, <1>2, MovedTwo
<1>4. todo'[1] = a
  BY <1>1, <1>2, MovedTwo
<1>5. todo'[2] = b
  BY <1>1, <1>2, MovedTwo
<1>6. Len(todo') > 1
  BY <1>1, <1>2, MovedTwo
<1>q. QED
  BY <1>3, <1>4, <1>5, <1>6

\* The tasks the actions leave behind, other than visits.
LEMMA PlainTasks ==
  /\ \A n \in Nodes : n.k = "selection-stmt" => Plain([do |-> "if", node |-> n])
  /\ \A n \in Nodes : n.k = "assign" => Plain([do |-> "assign-to", node |-> n])
  /\ \A n \in Nodes : n.k = "binary" => Plain([do |-> "right-operand", node |-> n])
  /\ \A o \in Binops : \A v : Plain([do |-> "operate", op |-> o, l_val |-> v])
  /\ \A v : Plain([do |-> "store", result |-> v])
  /\ Plain([do |-> "return-value"])
  /\ \A v, l : Plain([do |-> "element", var |-> v, lvalue |-> l])
  /\ \A f, s : \A es \in Seq(Expression) : Plain([do |-> "args", fun |-> f, rest |-> es, done |-> s])
  /\ \A ss \in Seq(Statement) :
       Plain([do |-> "statement-list", rest |-> ss]) /\ Plain([do |-> "after-statement", rest |-> ss])
<1>1. ASSUME NEW n \in Nodes, n.k = "selection-stmt"
      PROVE  Plain([do |-> "if", node |-> n])
  BY <1>1 DEF Plain, Inner, Light, IsTask, DeclKinds, StatementTasks, ExpressionTasks, OtherTasks, StatementKinds, ExpressionKinds
<1>2. ASSUME NEW n \in Nodes, n.k = "assign"
      PROVE  Plain([do |-> "assign-to", node |-> n])
  BY <1>2 DEF Plain, Inner, Light, IsTask, DeclKinds, StatementTasks, ExpressionTasks, OtherTasks, StatementKinds, ExpressionKinds
<1>3. ASSUME NEW n \in Nodes, n.k = "binary"
      PROVE  Plain([do |-> "right-operand", node |-> n])
  BY <1>3 DEF Plain, Inner, Light, IsTask, DeclKinds, StatementTasks, ExpressionTasks, OtherTasks, StatementKinds, ExpressionKinds
<1>4. ASSUME NEW o \in Binops, NEW v
      PROVE  Plain([do |-> "operate", op |-> o, l_val |-> v])
  BY <1>4 DEF Plain, Inner, Light, IsTask, DeclKinds, StatementTasks, ExpressionTasks, OtherTasks, StatementKinds, ExpressionKinds
<1>5. ASSUME NEW v
      PROVE  Plain([do |-> "store", result |-> v])
  BY <1>5 DEF Plain, Inner, Light, IsTask, DeclKinds, StatementTasks, ExpressionTasks, OtherTasks, StatementKinds, ExpressionKinds
<1>6. Plain([do |-> "return-value"])
  BY DEF Plain, Inner, Light, IsTask, DeclKinds, StatementTasks, ExpressionTasks, OtherTasks, StatementKinds, ExpressionKinds
<1>7. ASSUME NEW v, NEW l
      PROVE  Plain([do |-> "element", var |-> v, lvalue |-> l])
  BY <1>7 DEF Plain, Inner, Light, IsTask, DeclKinds, StatementTasks, ExpressionTasks, OtherTasks, StatementKinds, ExpressionKinds
<1>8. ASSUME NEW f, NEW s, NEW es \in Seq(Expression)
      PROVE  Plain([do |-> "args", fun |-> f, rest |-> es, done |-> s])
  BY <1>8 DEF Plain, Inner, Light, IsTask, DeclKinds, StatementTasks, ExpressionTasks, OtherTasks, StatementKinds, ExpressionKinds
<1>9. ASSUME NEW ss \in Seq(Statement)
      PROVE  Plain([do |-> "statement-list", rest |-> ss])
  BY <1>9 DEF Plain, Inner, Light, IsTask, DeclKinds, StatementTasks, ExpressionTasks, OtherTasks, StatementKinds, ExpressionKinds
<1>10. ASSUME NEW ss \in Seq(Statement)
      PROVE  Plain([do |-> "after-statement", rest |-> ss])
  BY <1>10 DEF Plain, Inner, Light, IsTask, DeclKinds, StatementTasks, ExpressionTasks, OtherTasks, StatementKinds, ExpressionKinds
<1>q. QED
  BY <1>1, <1>2, <1>3, <1>4, <1>5, <1>6, <1>7, <1>8, <1>9, <1>10

\* The actions that leave the ends and the plan as they are.
PlainNext == \/ Parameter \/ NextStatement \/ AfterStatement \/ ExpressionStmt \/ SelectionStmt
             \/ ReturnStmt \/ ReturnValue \/ Num \/ Var \/ IndexedVar \/ Element
             \/ AssignExpression \/ AssignTo \/ AssignStore \/ Binary \/ RightOperand \/ Operate
             \/ CallExpression \/ NextArg \/ Arg \/ MakeCall

LEMMA FirstOfSeq ==
  ASSUME NEW S, NEW s \in Seq(S), s # <<>>
  PROVE  Head(s) \in S /\ Tail(s) \in Seq(S)
BY HeadTailProperties

\* What the tasks say of the nodes that are still to be visited.
LEMMA Children ==
  ASSUME NEW t, IsTask(t)
  PROVE  /\ t.do = "statement-list" /\ t.rest # <<>> => Head(t.rest) \in Statement /\ Tail(t.rest) \in Seq(Statement)
         /\ t.do \in {"statement-list", "after-statement"} => t.rest \in Seq(Statement)
         /\ t.do \in {"expression-stmt", "return-stmt"} /\ t.node.e # None => t.node.e \in Expression
         /\ t.do \in {"selection-stmt", "assign", "iteration-stmt"} => t.node \in Nodes /\ t.node.e \in Expression /\ t.node.k = t.do
         /\ t.do = "var" /\ t.node.index # None => t.node.index \in Expression
         /\ t.do = "assign-to" => t.node.var \in Expression /\ t.node.var.k = "var"
         /\ t.do = "binary" => t.node \in Nodes /\ t.node.k = "binary" /\ t.node.l \in Expression
         /\ t.do = "right-operand" => t.node.op \in Binops /\ t.node.r \in Expression
         /\ t.do = "call" => t.node.args \in Seq(Expression)
         /\ t.do \in {"args", "arg"} /\ t.rest # <<>> => Head(t.rest) \in Expression /\ Tail(t.rest) \in Seq(Expression)
<1>1. t.do \in ExpressionKinds \cup StatementKinds => t.node \in Nodes /\ t.node.k = t.do /\ IsNode(t.node)
  BY NodesAssumption DEF IsTask
<1>2. t.do = "statement-list" /\ t.rest # <<>> => Head(t.rest) \in Statement /\ Tail(t.rest) \in Seq(Statement)
  BY FirstOfSeq DEF IsTask
<1>3. t.do \in {"statement-list", "after-statement"} => t.rest \in Seq(Statement)
  BY DEF IsTask
<1>4. t.do \in {"expression-stmt", "return-stmt"} /\ t.node.e # None => t.node.e \in Expression
  BY <1>1 DEF IsNode, StatementKinds
<1>5. t.do \in {"selection-stmt", "assign", "iteration-stmt"} =>
        t.node \in Nodes /\ t.node.e \in Expression /\ t.node.k = t.do
  BY <1>1 DEF IsNode, StatementKinds, ExpressionKinds
<1>6. t.do = "var" /\ t.node.index # None => t.node.index \in Expression
  BY <1>1 DEF IsNode, ExpressionKinds
<1>7. t.do = "assign-to" => t.node.var \in Expression /\ t.node.var.k = "var"
  BY NodesAssumption DEF IsTask, IsNode
<1>8. t.do = "binary" => t.node \in Nodes /\ t.node.k = "binary" /\ t.node.l \in Expression
  BY <1>1 DEF IsNode, ExpressionKinds
<1>9. t.do = "right-operand" => t.node.op \in Binops /\ t.node.r \in Expression
  BY NodesAssumption DEF IsTask, IsNode
<1>10. t.do = "call" => t.node.args \in Seq(Expression)
  BY <1>1 DEF IsNode, ExpressionKinds
<1>11. t.do \in {"args", "arg"} /\ t.rest # <<>> => Head(t.rest) \in Expression /\ Tail(t.rest) \in Seq(Expression)
  BY FirstOfSeq DEF IsTask
<1>q. QED
  BY <1>2, <1>3, <1>4, <1>5, <1>6, <1>7, <1>8, <1>9, <1>10, <1>11

\* What may come behind a task may come behind the one that takes its place.
LEMMA Chains ==
  /\ \A x : \A d \in {"expression-stmt", "selection-stmt", "return-stmt", "return-value"} :
       MayFollow(d, x) => /\ x \in Guards /\ MayFollow("if", x) /\ MayFollow("return-value", x)
                          /\ \A k \in ExpressionKinds : MayFollow(k, x)
  /\ \A x : \A d \in {"var", "assign", "assign-to", "binary", "right-operand", "call", "args", "arg"} :
       MayFollow(d, x) => /\ MayFollow("element", x) /\ MayFollow("assign-to", x) /\ MayFollow("store", x)
                          /\ MayFollow("right-operand", x) /\ MayFollow("operate", x)
                          /\ MayFollow("args", x) /\ MayFollow("arg", x)
  /\ \A x : \A d \in {"statement-list", "after-statement"} :
       MayFollow(d, x) => /\ x = "end-of-compound"
                          /\ MayFollow("statement-list", x) /\ MayFollow("after-statement", x)
  /\ \A k \in ExpressionKinds :
       \A e \in {"if", "while", "return-value", "element", "assign-to", "store", "right-operand", "operate", "arg"} :
         MayFollow(k, e)
  /\ \A k \in StatementKinds : MayFollow(k, "after-statement")
<1>1. ASSUME NEW d \in {"expression-stmt", "selection-stmt", "return-stmt", "return-value"}, NEW x, MayFollow(d, x)
      PROVE  /\ x \in Guards /\ MayFollow("if", x) /\ MayFollow("return-value", x)
             /\ \A k \in ExpressionKinds : MayFollow(k, x)
  <2>1. x \in Guards
    BY <1>1, Follows DEF StatementTasks, StatementKinds
  <2>2. MayFollow("if", x) /\ MayFollow("return-value", x)
    BY <2>1, Follows DEF StatementTasks
  <2>3. \A k \in ExpressionKinds : MayFollow(k, x)
    BY <2>1, Follows DEF ExpressionTasks
  <2>q. QED
    BY <2>1, <2>2, <2>3
<1>2. ASSUME NEW d \in {"var", "assign", "assign-to", "binary", "right-operand", "call", "args", "arg"}, NEW x,
             MayFollow(d, x)
      PROVE  /\ MayFollow("element", x) /\ MayFollow("assign-to", x) /\ MayFollow("store", x)
             /\ MayFollow("right-operand", x) /\ MayFollow("operate", x)
             /\ MayFollow("args", x) /\ MayFollow("arg", x)
  <2>1. x \in Guards \cup Takers
    BY <1>2, Follows DEF ExpressionTasks, ExpressionKinds
  <2>q. QED
    BY <2>1, Follows DEF ExpressionTasks
<1>3. ASSUME NEW d \in {"statement-list", "after-statement"}, NEW x, MayFollow(d, x)
      PROVE  /\ x = "end-of-compound"
             /\ MayFollow("statement-list", x) /\ MayFollow("after-statement", x)
  BY <1>3, Follows
<1>4. ASSUME NEW k \in ExpressionKinds,
             NEW e \in {"if", "while", "return-value", "element", "assign-to", "store", "right-operand", "operate", "arg"}
      PROVE  MayFollow(k, e)
  <2>1. e \in Takers
    BY DEF Takers
  <2>q. QED
    BY <2>1, Follows DEF ExpressionTasks
<1>5. ASSUME NEW k \in StatementKinds PROVE MayFollow(k, "after-statement")
  <2>1. "after-statement" \in Guards
    BY DEF Guards
  <2>q. QED
    BY <2>1, Follows DEF StatementTasks
<1>q. QED
  BY <1>1, <1>2, <1>3, <1>4, <1>5

LEMMA PlainSteps ==
  ASSUME Tasks(todo)
  PROVE  /\ PlainNext => todo # <<>> /\ InFunction(todo) /\ Moved(todo, todo') /\ Light(todo[1])
         /\ AssignTo => todo'[1].do = "var" /\ Len(todo') > 1 /\ todo'[2].do = "store"
         /\ AfterStatement /\ Terminated(blocks, insert) => todo'[1].do = "end-of-compound"
         /\ ReturnValue => todo'[1].do \in Guards
         /\ ReturnStmt /\ Task.node.e = None => todo'[1].do \in Guards
<1> DEFINE Done == todo # <<>> /\ InFunction(todo) /\ Moved(todo, todo') /\ Light(todo[1])
           x == Tail(todo)[1].do
<1>1. ASSUME Parameter
      PROVE  Done
  <2>1. Facing("parameters")
    <3>1. Doing("parameters")
      BY <1>1 DEF Parameter
    <3>q. QED
      BY <3>1, PlainTask DEF StatementTasks, ExpressionTasks, StatementKinds, ExpressionKinds
  <2>2. todo # <<>> /\ InFunction(todo) /\ Light(todo[1]) /\ MayFollow("parameters", x)
    BY <2>1 DEF Facing, Plain
  <2>3. CASE Task.done = Len(Task.node.params)
    <3>2. Then(<<>>)
      BY <1>1, <2>3 DEF Parameter
    <3>q. QED
      BY <2>1, <2>2, <3>2, ReplacedByNone
  <2>4. CASE Task.done # Len(Task.node.params)
    <3> DEFINE a == [Task EXCEPT !.done = Task.done + 1]
    <3>1. "do" \in DOMAIN Task
      BY <2>1 DEF Facing, IsTask
    <3>2. "do" \in DOMAIN a /\ a.do = "parameters"
      BY <2>1, <3>1 DEF Facing
    <3>5. Then(<<a>>)
      BY <1>1, <2>4 DEF Parameter
    <3> HIDE DEF a
    <3>3. Plain(a)
      BY <3>2, <2>1 DEF Facing, Plain, Inner, Light, IsTask, DeclKinds, StatementTasks, ExpressionTasks, StatementKinds, ExpressionKinds, OtherTasks
    <3>4. MayFollow(a.do, x)
      BY <2>2, <3>2
    <3>q. QED
      BY <2>1, <2>2, <3>3, <3>4, <3>5, ReplacedByOne
  <2>q. QED
    BY <2>3, <2>4
<1>2. ASSUME NextStatement
      PROVE  Done
  <2>1. Facing("statement-list")
    <3>1. Doing("statement-list")
      BY <1>2 DEF NextStatement
    <3>q. QED
      BY <3>1, PlainTask DEF StatementTasks, ExpressionTasks, StatementKinds, ExpressionKinds
  <2>2. todo # <<>> /\ InFunction(todo) /\ Light(todo[1]) /\ MayFollow("statement-list", x)
    BY <2>1 DEF Facing, Plain
  <2>3. CASE Task.rest = <<>>
    <3>2. Then(<<>>)
      BY <1>2, <2>3 DEF NextStatement
    <3>q. QED
      BY <2>1, <2>2, <3>2, ReplacedByNone
  <2>4. CASE Task.rest # <<>>
    <3> DEFINE a == Visit(Head(Task.rest))
               b == [do |-> "after-statement", rest |-> Tail(Task.rest)]
    <3>2. Plain(a) /\ Plain(b)
      BY <2>1, <1>2, <2>4, Children, VisitPlain, PlainTasks DEF Facing
    <3>3. MayFollow(a.do, b.do) /\ MayFollow(b.do, x)
      <4>1. a.do \in StatementKinds /\ b.do = "after-statement"
        BY <2>1, <1>2, <2>4, Children, VisitPlain DEF Facing
      <4>q. QED
        BY <2>2, <4>1, Chains
    <3>4. Then(<<a, b>>)
      BY <1>2, <2>4 DEF NextStatement
    <3> HIDE DEF a, b
    <3>q. QED
      BY <2>1, <2>2, <3>2, <3>3, <3>4, ReplacedByTwo
  <2>q. QED
    BY <2>3, <2>4
<1>3. ASSUME AfterStatement
      PROVE  Done /\ (Terminated(blocks, insert) => todo'[1].do = "end-of-compound")
  <2>1. Facing("after-statement")
    <3>1. Doing("after-statement")
      BY <1>3 DEF AfterStatement
    <3>q. QED
      BY <3>1, PlainTask DEF StatementTasks, ExpressionTasks, StatementKinds, ExpressionKinds
  <2>2. todo # <<>> /\ InFunction(todo) /\ Light(todo[1]) /\ MayFollow("after-statement", x)
    BY <2>1 DEF Facing, Plain
  <2>3. CASE Terminated(blocks, insert)
    <3>2. Then(<<>>)
      BY <1>3, <2>3 DEF AfterStatement
    <3>q. QED
      BY <2>1, <2>2, <3>2, ReplacedByNone, Chains
  <2>4. CASE ~Terminated(blocks, insert)
    <3> DEFINE a == [do |-> "statement-list", rest |-> Task.rest]
    <3>2. Plain(a)
      BY <2>1, <1>3, <2>4, Children, VisitPlain, PlainTasks DEF Facing
    <3>3. MayFollow(a.do, x)
      <4>1. a.do = "statement-list"
        BY <2>1, <1>3, <2>4, Children, VisitPlain DEF Facing
      <4>q. QED
        BY <2>2, <4>1, Chains
    <3>4. Then(<<a>>)
      BY <1>3, <2>4 DEF AfterStatement
    <3> HIDE DEF a
    <3>q. QED
      BY <2>1, <2>2, <2>4, <3>2, <3>3, <3>4, ReplacedByOne
  <2>q. QED
    BY <2>3, <2>4
<1>4. ASSUME ExpressionStmt
      PROVE  Done
  <2>1. Facing("expression-stmt")
    <3>1. Doing("expression-stmt")
      BY <1>4 DEF ExpressionStmt
    <3>q. QED
      BY <3>1, PlainTask DEF StatementTasks, ExpressionTasks, StatementKinds, ExpressionKinds
  <2>2. todo # <<>> /\ InFunction(todo) /\ Light(todo[1]) /\ MayFollow("expression-stmt", x)
    BY <2>1 DEF Facing, Plain
  <2>3. CASE Task.node.e = None
    <3>2. Then(<<>>)
      BY <1>4, <2>3 DEF ExpressionStmt, Then
    <3>q. QED
      BY <2>1, <2>2, <3>2, ReplacedByNone
  <2>4. CASE Task.node.e # None
    <3> DEFINE a == Visit(Task.node.e)
    <3>2. Plain(a)
      BY <2>1, <1>4, <2>4, Children, VisitPlain, PlainTasks DEF Facing
    <3>3. MayFollow(a.do, x)
      <4>1. a.do \in ExpressionKinds
        BY <2>1, <1>4, <2>4, Children, VisitPlain DEF Facing
      <4>q. QED
        BY <2>2, <4>1, Chains
    <3>4. Then(<<a>>)
      BY <1>4, <2>4 DEF ExpressionStmt, Then
    <3> HIDE DEF a
    <3>q. QED
      BY <2>1, <2>2, <3>2, <3>3, <3>4, ReplacedByOne
  <2>q. QED
    BY <2>3, <2>4
<1>5. ASSUME SelectionStmt
      PROVE  Done
  <2>1. Facing("selection-stmt")
    <3>1. Doing("selection-stmt")
      BY <1>5 DEF SelectionStmt
    <3>q. QED
      BY <3>1, PlainTask DEF StatementTasks, ExpressionTasks, StatementKinds, ExpressionKinds
  <2>2. todo # <<>> /\ InFunction(todo) /\ Light(todo[1]) /\ MayFollow("selection-stmt", x)
    BY <2>1 DEF Facing, Plain
  <2> DEFINE a == Visit(Task.node.e)
             b == [do |-> "if", node |-> Task.node]
  <2>3. Plain(a) /\ Plain(b)
    BY <2>1, <1>5, Children, VisitPlain, PlainTasks DEF Facing
  <2>4. MayFollow(a.do, b.do) /\ MayFollow(b.do, x)
    <3>1. a.do \in ExpressionKinds /\ b.do = "if"
      BY <2>1, <1>5, Children, VisitPlain DEF Facing
    <3>q. QED
      BY <2>2, <3>1, Chains
  <2>5. Then(<<a, b>>)
    BY <1>5 DEF SelectionStmt
  <2> HIDE DEF a, b
  <2>q. QED
    BY <2>1, <2>2, <2>3, <2>4, <2>5, ReplacedByTwo
<1>6. ASSUME ReturnStmt
      PROVE  Done /\ (Task.node.e = None => todo'[1].do \in Guards)
  <2>1. Facing("return-stmt")
    <3>1. Doing("return-stmt")
      BY <1>6 DEF ReturnStmt
    <3>q. QED
      BY <3>1, PlainTask DEF StatementTasks, ExpressionTasks, StatementKinds, ExpressionKinds
  <2>2. todo # <<>> /\ InFunction(todo) /\ Light(todo[1]) /\ MayFollow("return-stmt", x)
    BY <2>1 DEF Facing, Plain
  <2>3. CASE Task.node.e = None
    <3>2. Then(<<>>)
      BY <1>6, <2>3 DEF ReturnStmt
    <3>q. QED
      BY <2>1, <2>2, <3>2, ReplacedByNone, Chains
  <2>4. CASE Task.node.e # None
    <3> DEFINE a == Visit(Task.node.e)
               b == [do |-> "return-value"]
    <3>2. Plain(a) /\ Plain(b)
      BY <2>1, <1>6, <2>4, Children, VisitPlain, PlainTasks DEF Facing
    <3>3. MayFollow(a.do, b.do) /\ MayFollow(b.do, x)
      <4>1. a.do \in ExpressionKinds /\ b.do = "return-value"
        BY <2>1, <1>6, <2>4, Children, VisitPlain DEF Facing
      <4>q. QED
        BY <2>2, <4>1, Chains
    <3>4. Then(<<a, b>>)
      BY <1>6, <2>4 DEF ReturnStmt
    <3> HIDE DEF a, b
    <3>q. QED
      BY <2>1, <2>2, <2>4, <3>2, <3>3, <3>4, ReplacedByTwo
  <2>q. QED
    BY <2>3, <2>4
<1>7. ASSUME ReturnValue
      PROVE  Done /\ todo'[1].do \in Guards
  <2>1. Facing("return-value")
    <3>1. Doing("return-value")
      BY <1>7 DEF ReturnValue
    <3>q. QED
      BY <3>1, PlainTask DEF StatementTasks, ExpressionTasks, StatementKinds, ExpressionKinds
  <2>2. todo # <<>> /\ InFunction(todo) /\ Light(todo[1]) /\ MayFollow("return-value", x)
    BY <2>1 DEF Facing, Plain
  <2>3. Then(<<>>)
    BY <1>7 DEF ReturnValue
  <2>q. QED
    BY <2>1, <2>2, <2>3, ReplacedByNone, Chains
<1>8. ASSUME Num
      PROVE  Done
  <2>1. Facing("num")
    <3>1. Doing("num")
      BY <1>8 DEF Num
    <3>q. QED
      BY <3>1, PlainTask DEF StatementTasks, ExpressionTasks, StatementKinds, ExpressionKinds
  <2>2. todo # <<>> /\ InFunction(todo) /\ Light(todo[1]) /\ MayFollow("num", x)
    BY <2>1 DEF Facing, Plain
  <2>3. Then(<<>>)
    BY <1>8 DEF Num
  <2>q. QED
    BY <2>1, <2>2, <2>3, ReplacedByNone
<1>9. ASSUME Var
      PROVE  Done
  <2>1. Facing("var")
    <3>1. Doing("var")
      BY <1>9 DEF Var
    <3>q. QED
      BY <3>1, PlainTask DEF StatementTasks, ExpressionTasks, StatementKinds, ExpressionKinds
  <2>2. todo # <<>> /\ InFunction(todo) /\ Light(todo[1]) /\ MayFollow("var", x)
    BY <2>1 DEF Facing, Plain
  <2>3. Then(<<>>)
    BY <1>9 DEF Var
  <2>q. QED
    BY <2>1, <2>2, <2>3, ReplacedByNone
<1>10. ASSUME IndexedVar
      PROVE  Done
  <2>1. Facing("var")
    <3>1. Doing("var")
      BY <1>10 DEF IndexedVar
    <3>q. QED
      BY <3>1, PlainTask DEF StatementTasks, ExpressionTasks, StatementKinds, ExpressionKinds
  <2>2. todo # <<>> /\ InFunction(todo) /\ Light(todo[1]) /\ MayFollow("var", x)
    BY <2>1 DEF Facing, Plain
  <2> DEFINE a == Visit(Task.node.index)
             b == [do |-> "element", var |-> Find(scope, Task.node.id), lvalue |-> require_lvalue]
  <2>3. Plain(a) /\ Plain(b)
    BY <2>1, <1>10, Children, VisitPlain, PlainTasks DEF Facing, IndexedVar
  <2>4. MayFollow(a.do, b.do) /\ MayFollow(b.do, x)
    <3>1. a.do \in ExpressionKinds /\ b.do = "element"
      BY <2>1, <1>10, Children, VisitPlain DEF Facing, IndexedVar
    <3>q. QED
      BY <2>2, <3>1, Chains
  <2>5. Then(<<a, b>>)
    BY <1>10 DEF IndexedVar
  <2> HIDE DEF a, b
  <2>q. QED
    BY <2>1, <2>2, <2>3, <2>4, <2>5, ReplacedByTwo
<1>11. ASSUME Element
      PROVE  Done
  <2>1. Facing("element")
    <3>1. Doing("element")
      BY <1>11 DEF Element
    <3>q. QED
      BY <3>1, PlainTask DEF StatementTasks, ExpressionTasks, StatementKinds, ExpressionKinds
  <2>2. todo # <<>> /\ InFunction(todo) /\ Light(todo[1]) /\ MayFollow("element", x)
    BY <2>1 DEF Facing, Plain
  <2>3. Then(<<>>)
    BY <1>11 DEF Element
  <2>q. QED
    BY <2>1, <2>2, <2>3, ReplacedByNone
<1>12. ASSUME AssignExpression
      PROVE  Done
  <2>1. Facing("assign")
    <3>1. Doing("assign")
      BY <1>12 DEF AssignExpression
    <3>q. QED
      BY <3>1, PlainTask DEF StatementTasks, ExpressionTasks, StatementKinds, ExpressionKinds
  <2>2. todo # <<>> /\ InFunction(todo) /\ Light(todo[1]) /\ MayFollow("assign", x)
    BY <2>1 DEF Facing, Plain
  <2> DEFINE a == Visit(Task.node.e)
             b == [do |-> "assign-to", node |-> Task.node]
  <2>3. Plain(a) /\ Plain(b)
    BY <2>1, <1>12, Children, VisitPlain, PlainTasks DEF Facing
  <2>4. MayFollow(a.do, b.do) /\ MayFollow(b.do, x)
    <3>1. a.do \in ExpressionKinds /\ b.do = "assign-to"
      BY <2>1, <1>12, Children, VisitPlain DEF Facing
    <3>q. QED
      BY <2>2, <3>1, Chains
  <2>5. Then(<<a, b>>)
    BY <1>12 DEF AssignExpression
  <2> HIDE DEF a, b
  <2>q. QED
    BY <2>1, <2>2, <2>3, <2>4, <2>5, ReplacedByTwo
<1>13. ASSUME AssignTo
      PROVE  Done /\ todo'[1].do = "var" /\ Len(todo') > 1 /\ todo'[2].do = "store"
  <2>1. Facing("assign-to")
    <3>1. Doing("assign-to")
      BY <1>13 DEF AssignTo
    <3>q. QED
      BY <3>1, PlainTask DEF StatementTasks, ExpressionTasks, StatementKinds, ExpressionKinds
  <2>2. todo # <<>> /\ InFunction(todo) /\ Light(todo[1]) /\ MayFollow("assign-to", x)
    BY <2>1 DEF Facing, Plain
  <2> DEFINE a == Visit(Task.node.var)
             b == [do |-> "store", result |-> tmp_val]
  <2>3. Plain(a) /\ Plain(b)
    BY <2>1, <1>13, Children, VisitPlain, PlainTasks DEF Facing
  <2>4. MayFollow(a.do, b.do) /\ MayFollow(b.do, x)
    <3>1. a.do \in ExpressionKinds /\ b.do = "store"
      BY <2>1, <1>13, Children, VisitPlain DEF Facing
    <3>q. QED
      BY <2>2, <3>1, Chains
  <2>5. Then(<<a, b>>)
    BY <1>13 DEF AssignTo
  <2>6. a.do = "var" /\ b.do = "store"
    BY <2>1, Children DEF Facing, Visit
  <2> HIDE DEF a, b
  <2>q. QED
    BY <2>1, <2>2, <2>3, <2>4, <2>5, <2>6, ReplacedByTwo
<1>14. ASSUME AssignStore
      PROVE  Done
  <2>1. Facing("store")
    <3>1. Doing("store")
      BY <1>14 DEF AssignStore
    <3>q. QED
      BY <3>1, PlainTask DEF StatementTasks, ExpressionTasks, StatementKinds, ExpressionKinds
  <2>2. todo # <<>> /\ InFunction(todo) /\ Light(todo[1]) /\ MayFollow("store", x)
    BY <2>1 DEF Facing, Plain
  <2>3. Then(<<>>)
    BY <1>14 DEF AssignStore
  <2>q. QED
    BY <2>1, <2>2, <2>3, ReplacedByNone
<1>15. ASSUME Binary
      PROVE  Done
  <2>1. Facing("binary")
    <3>1. Doing("binary")
      BY <1>15 DEF Binary
    <3>q. QED
      BY <3>1, PlainTask DEF StatementTasks, ExpressionTasks, StatementKinds, ExpressionKinds
  <2>2. todo # <<>> /\ InFunction(todo) /\ Light(todo[1]) /\ MayFollow("binary", x)
    BY <2>1 DEF Facing, Plain
  <2> DEFINE a == Visit(Task.node.l)
             b == [do |-> "right-operand", node |-> Task.node]
  <2>3. Plain(a) /\ Plain(b)
    BY <2>1, <1>15, Children, VisitPlain, PlainTasks DEF Facing
  <2>4. MayFollow(a.do, b.do) /\ MayFollow(b.do, x)
    <3>1. a.do \in ExpressionKinds /\ b.do = "right-operand"
      BY <2>1, <1>15, Children, VisitPlain DEF Facing
    <3>q. QED
      BY <2>2, <3>1, Chains
  <2>5. Then(<<a, b>>)
    BY <1>15 DEF Binary
  <2> HIDE DEF a, b
  <2>q. QED
    BY <2>1, <2>2, <2>3, <2>4, <2>5, ReplacedByTwo
<1>16. ASSUME RightOperand
      PROVE  Done
  <2>1. Facing("right-operand")
    <3>1. Doing("right-operand")
      BY <1>16 DEF RightOperand
    <3>q. QED
      BY <3>1, PlainTask DEF StatementTasks, ExpressionTasks, StatementKinds, ExpressionKinds
  <2>2. todo # <<>> /\ InFunction(todo) /\ Light(todo[1]) /\ MayFollow("right-operand", x)
    BY <2>1 DEF Facing, Plain
  <2> DEFINE a == Visit(Task.node.r)
             b == [do |-> "operate", op |-> Task.node.op, l_val |-> tmp_val]
  <2>3. Plain(a) /\ Plain(b)
    BY <2>1, <1>16, Children, VisitPlain, PlainTasks DEF Facing
  <2>4. MayFollow(a.do, b.do) /\ MayFollow(b.do, x)
    <3>1. a.do \in ExpressionKinds /\ b.do = "operate"
      BY <2>1, <1>16, Children, VisitPlain DEF Facing
    <3>q. QED
      BY <2>2, <3>1, Chains
  <2>5. Then(<<a, b>>)
    BY <1>16 DEF RightOperand
  <2> HIDE DEF a, b
  <2>q. QED
    BY <2>1, <2>2, <2>3, <2>4, <2>5, ReplacedByTwo
<1>17. ASSUME Operate
      PROVE  Done
  <2>1. Facing("operate")
    <3>1. Doing("operate")
      BY <1>17 DEF Operate
    <3>q. QED
      BY <3>1, PlainTask DEF StatementTasks, ExpressionTasks, StatementKinds, ExpressionKinds
  <2>2. todo # <<>> /\ InFunction(todo) /\ Light(todo[1]) /\ MayFollow("operate", x)
    BY <2>1 DEF Facing, Plain
  <2>3. Then(<<>>)
    BY <1>17 DEF Operate
  <2>q. QED
    BY <2>1, <2>2, <2>3, ReplacedByNone
<1>18. ASSUME CallExpression
      PROVE  Done
  <2>1. Facing("call")
    <3>1. Doing("call")
      BY <1>18 DEF CallExpression
    <3>q. QED
      BY <3>1, PlainTask DEF StatementTasks, ExpressionTasks, StatementKinds, ExpressionKinds
  <2>2. todo # <<>> /\ InFunction(todo) /\ Light(todo[1]) /\ MayFollow("call", x)
    BY <2>1 DEF Facing, Plain
  <2> DEFINE a == [do |-> "args", fun |-> Find(scope, Task.node.id), rest |-> Task.node.args, done |-> <<>>]
  <2>3. Plain(a)
    BY <2>1, <1>18, Children, VisitPlain, PlainTasks DEF Facing
  <2>4. MayFollow(a.do, x)
    <3>1. a.do = "args"
      BY <2>1, <1>18, Children, VisitPlain DEF Facing
    <3>q. QED
      BY <2>2, <3>1, Chains
  <2>5. Then(<<a>>)
    BY <1>18 DEF CallExpression
  <2> HIDE DEF a
  <2>q. QED
    BY <2>1, <2>2, <2>3, <2>4, <2>5, ReplacedByOne
<1>19. ASSUME NextArg
      PROVE  Done
  <2>1. Facing("args")
    <3>1. Doing("args")
      BY <1>19 DEF NextArg
    <3>q. QED
      BY <3>1, PlainTask DEF StatementTasks, ExpressionTasks, StatementKinds, ExpressionKinds
  <2>2. todo # <<>> /\ InFunction(todo) /\ Light(todo[1]) /\ MayFollow("args", x)
    BY <2>1 DEF Facing, Plain
  <2> DEFINE a == Visit(Head(Task.rest))
             b == [Task EXCEPT !.do = "arg"]
  <2>3. /\ "do" \in DOMAIN Task /\ "rest" \in DOMAIN Task /\ Task.rest \in Seq(Expression) /\ Task.rest # <<>>
        /\ Head(Task.rest) \in Expression
    <3>1. Task.rest # <<>>
      BY <1>19 DEF NextArg
    <3>q. QED
      BY <2>1, <3>1, Children DEF Facing, IsTask
  <2>4. "do" \in DOMAIN b /\ b.do = "arg" /\ "rest" \in DOMAIN b /\ b.rest = Task.rest
    BY <2>3
  <2>5. Then(<<a, b>>)
    BY <1>19 DEF NextArg
  <2>6. Plain(a) /\ a.do \in ExpressionKinds
    BY <2>3, VisitPlain
  <2> HIDE DEF a, b
  <2>7. Plain(b)
    BY <2>3, <2>4 DEF Plain, Inner, Light, IsTask, DeclKinds, StatementTasks, ExpressionTasks, StatementKinds, ExpressionKinds, OtherTasks
  <2>8. MayFollow(a.do, b.do) /\ MayFollow(b.do, x)
    BY <2>2, <2>4, <2>6, Chains
  <2>q. QED
    BY <2>1, <2>2, <2>5, <2>6, <2>7, <2>8, ReplacedByTwo
<1>20. ASSUME Arg
      PROVE  Done
  <2>1. Facing("arg")
    <3>1. Doing("arg")
      BY <1>20 DEF Arg
    <3>q. QED
      BY <3>1, PlainTask DEF StatementTasks, ExpressionTasks, StatementKinds, ExpressionKinds
  <2>2. todo # <<>> /\ InFunction(todo) /\ Light(todo[1]) /\ MayFollow("arg", x)
    BY <2>1 DEF Facing, Plain
  <2>3. \E v : Then(<<[Task EXCEPT !.do = "args", !.rest = Tail(@), !.done = Append(@, v)]>>)
    BY <1>20 DEF Arg
  <2>4. PICK v : Then(<<[Task EXCEPT !.do = "args", !.rest = Tail(@), !.done = Append(@, v)]>>)
    BY <2>3
  <2> DEFINE a == [Task EXCEPT !.do = "args", !.rest = Tail(@), !.done = Append(@, v)]
  <2>5. "do" \in DOMAIN Task /\ "rest" \in DOMAIN Task /\ Task.rest # <<>>
    BY <2>1 DEF Facing, IsTask
  <2>6. "do" \in DOMAIN a /\ a.do = "args" /\ "rest" \in DOMAIN a /\ a.rest = Tail(Task.rest)
    BY <2>5
  <2>7. Then(<<a>>)
    BY <2>4
  <2> HIDE DEF a
  <2>8. a.rest \in Seq(Expression)
    BY <2>1, <2>5, <2>6, Children DEF Facing
  <2>9. Plain(a)
    BY <2>6, <2>8 DEF Plain, Inner, Light, IsTask, DeclKinds, StatementTasks, ExpressionTasks, StatementKinds, ExpressionKinds, OtherTasks
  <2>10. MayFollow(a.do, x)
    BY <2>2, <2>6, Chains
  <2>q. QED
    BY <2>1, <2>2, <2>7, <2>9, <2>10, ReplacedByOne
<1>21. ASSUME MakeCall
      PROVE  Done
  <2>1. Facing("args")
    <3>1. Doing("args")
      BY <1>21 DEF MakeCall
    <3>q. QED
      BY <3>1, PlainTask DEF StatementTasks, ExpressionTasks, StatementKinds, ExpressionKinds
  <2>2. todo # <<>> /\ InFunction(todo) /\ Light(todo[1]) /\ MayFollow("args", x)
    BY <2>1 DEF Facing, Plain
  <2>3. Then(<<>>)
    BY <1>21 DEF MakeCall
  <2>q. QED
    BY <2>1, <2>2, <2>3, ReplacedByNone
<1>q. QED
  BY <1>1, <1>2, <1>3, <1>4, <1>5, <1>6, <1>7, <1>8, <1>9, <1>10, <1>11, <1>12, <1>13, <1>14, <1>15, <1>16, <1>17, <1>18, <1>19, <1>20, <1>21 DEF PlainNext

-----------------------------------------------------------------------------
(* The tasks of the other actions.                                           *)

LEMMA ConcatAgain ==
  ASSUME NEW s, IsSeq(s), NEW t, IsSeq(t), NEW u, IsSeq(u)
  PROVE  (s \o t) \o u = s \o (t \o u)
<1> DEFINE S == {s[n] : n \in 1 .. Len(s)} \cup {t[n] : n \in 1 .. Len(t)} \cup {u[n] : n \in 1 .. Len(u)}
<1>1. s \in Seq(S) /\ t \in Seq(S) /\ u \in Seq(S)
  BY SeqIn
<1> HIDE DEF S
<1>q. QED
  BY <1>1, ConcatAssociative

Put(a, s)      == <<a>> \o s
Three(a, b, c) == <<a, b, c>>

LEMMA ConsThree ==
  ASSUME NEW a, NEW b, NEW c, NEW s, IsSeq(s)
  PROVE  Three(a, b, c) \o s = Put(a, Put(b, Put(c, s)))
<1> DEFINE t == <<b, c>>
           v == <<a>>
           w == <<a, b, c>>
<1>1. t = [k \in 1 .. 2 |-> t[k]] /\ w = [k \in 1 .. 3 |-> w[k]]
  OBVIOUS
<1>2. w[1] = a /\ w[2] = t[1] /\ w[3] = t[2]
  OBVIOUS
<1>3. IsSeq(v) /\ Len(v) = 1 /\ v[1] = a
  BY UnitSeq
<1>4. t \o s = <<b>> \o (<<c>> \o s)
  BY ConsTwo
<1> HIDE DEF t, v, w
<1>5. IsSeq(t) /\ Len(t) = 2 /\ IsSeq(w) /\ Len(w) = 3
  BY <1>1, FunctionSeq
<1>10. IsSeq(v) /\ IsSeq(t)
  BY <1>3, <1>5
<1>6. /\ IsSeq(v \o t) /\ Len(v \o t) = 3
      /\ \A n \in 1 .. 1 : (v \o t)[n] = v[n]
      /\ \A n \in 1 .. 2 : (v \o t)[1 + n] = t[n]
  <2>1. /\ IsSeq(v \o t) /\ Len(v \o t) = Len(v) + Len(t)
        /\ \A n \in 1 .. Len(v) : (v \o t)[n] = v[n]
        /\ \A n \in 1 .. Len(t) : (v \o t)[Len(v) + n] = t[n]
    BY <1>10, ConcatSeq
  <2>q. QED
    BY <1>3, <1>5, <2>1
<1>7. (v \o t)[1] = a /\ (v \o t)[2] = t[1] /\ (v \o t)[3] = t[2]
  <2>1. 1 + 1 = 2 /\ 1 + 2 = 3 /\ 1 \in 1 .. 2 /\ 2 \in 1 .. 2 /\ 1 \in 1 .. 1
    OBVIOUS
  <2>q. QED
    BY <1>3, <1>6, <2>1
<1>8. v \o t = w
  <2>1. \A n \in 1 .. 3 : n = 1 \/ n = 2 \/ n = 3
    OBVIOUS
  <2>2. \A n \in 1 .. 3 : (v \o t)[n] = w[n]
    BY <1>2, <1>7, <2>1
  <2>q. QED
    BY <1>5, <1>6, <2>2, SeqExtensional
<1>9. (v \o t) \o s = v \o (t \o s)
  BY SMTT(30), <1>10, ConcatAgain
<1>q. QED
  BY <1>4, <1>8, <1>9 DEF v, w, Put, Three

\* Outside of the functions.
LEMMA OnlyDeclarations ==
  ASSUME NEW q, IsSeq(q), \A n \in 1 .. Len(q) : q[n].do \in DeclKinds
  PROVE  /\ ToFill(q) = {} /\ Needless(q) = {} /\ LoopHeads(q) = {} /\ Disjoint(q)
         /\ ~InFunction(q) /\ Ends(q) = 0
<1>1. \A n \in 1 .. Len(q) : Fills(q[n]) = {} /\ Spares(q[n]) = {} /\ Heads(q[n]) = {} /\ q[n].do # "end-of-if"
  <2>1. \A n \in 1 .. Len(q) : Light(q[n])
    BY DEF DeclKinds, Light
  <2>q. QED
    BY <2>1, LightPlan
<1>2. ToFill(q) = {} /\ Needless(q) = {} /\ LoopHeads(q) = {} /\ Disjoint(q)
  BY <1>1 DEF ToFill, Needless, LoopHeads, Disjoint
<1>3. \A n \in 1 .. Len(q) : q[n].do \notin EndKinds
  BY DEF DeclKinds, EndKinds
<1>q. QED
  BY <1>2, <1>3, InFunctionEnds

\* A declaration is done.
LEMMA PopDeclaration ==
  ASSUME NEW q, Tasks(q), q # <<>>, q[1].do = "var-declaration"
  PROVE  LET r == Tail(q)
         IN Tasks(r) /\ Ends(r) = Ends(q) /\ SamePlan(q, r) /\ (InFunction(q) <=> InFunction(r)) /\ Light(q[1])
<1> DEFINE r == Tail(q)
<1>1. IsSeq(q) /\ Tasks(r)
  BY TasksTail
<1>2. Light(q[1]) /\ q[1].do # "end-of-function" /\ q[1].do \notin EndKinds
  BY DEF Light, EndKinds
<1>3. Ends(r) \in Nat /\ Ends(q) = Ends(r) + 0
  BY <1>1, <1>2, EndsFirst
<1>4. SamePlan(q, r)
  <2>1. /\ ToFill(q) = Fills(q[1]) \cup ToFill(r)
        /\ Needless(q) = Spares(q[1]) \cup Needless(r)
        /\ LoopHeads(q) = Heads(q[1]) \cup LoopHeads(r)
        /\ Disjoint(q) => Disjoint(r)
    BY <1>1, PlanFirst
  <2>2. Fills(q[1]) = {} /\ Spares(q[1]) = {} /\ Heads(q[1]) = {}
    BY <1>2, LightPlan
  <2>q. QED
    BY <2>1, <2>2 DEF SamePlan
<1>5. InFunction(q) <=> InFunction(r)
  BY <1>1, <1>2, InFunctionFirst
<1> HIDE DEF r
<1>6. Ends(r) = Ends(q)
  BY <1>3
<1>q. QED
  BY <1>1, <1>2, <1>4, <1>5, <1>6 DEF r

\* The end of a function is done.
LEMMA PopFunction ==
  ASSUME NEW q, Tasks(q), q # <<>>, q[1].do = "end-of-function"
  PROVE  LET r == Tail(q)
         IN Tasks(r) /\ Ends(r) = 0 /\ Ends(q) = 1 /\ InFunction(q) /\ ~InFunction(r) /\ ToFill(q) = {}
<1> DEFINE r == Tail(q)
<1>1. IsSeq(q) /\ Tasks(r) /\ \A m \in 1 .. Len(r) : r[m].do \in DeclKinds
  BY TasksTail
<1>2. Ends(r) = 0 /\ ~InFunction(r) /\ ToFill(r) = {}
  BY <1>1, OnlyDeclarations DEF Tasks
<1>3. q[1].do \in EndKinds /\ Light(q[1])
  BY DEF EndKinds, Light
<1>4. Ends(q) = Ends(r) + 1
  BY <1>1, <1>3, EndsFirst
<1>5. InFunction(q)
  BY <1>1, InFunctionFirst
<1>6. ToFill(q) = {}
  BY <1>1, <1>2, <1>3, PlanFirst, LightPlan
<1> HIDE DEF r
<1>7. Ends(q) = 1
  BY <1>2, <1>4
<1>q. QED
  BY <1>1, <1>2, <1>5, <1>6, <1>7 DEF r

\* A function is entered.
LEMMA PushFunction ==
  ASSUME NEW q, Tasks(q), q # <<>>, q[1].do = "fun-declaration", NEW a, NEW b, NEW c,
         Plain(a), a.do = "parameters", Plain(b), b.do = "compound-stmt",
         IsTask(c), c.do = "end-of-function",
         NEW p, p = <<a, b, c>> \o Tail(q)
  PROVE  /\ ~InFunction(q) /\ Ends(q) = 0
         /\ Tasks(p) /\ InFunction(p) /\ Ends(p) = 1
         /\ ToFill(p) = {} /\ Needless(p) = {} /\ LoopHeads(p) = {} /\ Disjoint(p)
<1>14. p = <<a>> \o (<<b>> \o (<<c>> \o Tail(q)))
  <2>1. IsSeq(Tail(q))
    BY TasksTail
  <2>2. <<a, b, c>> = Three(a, b, c)
    BY DEF Three
  <2>3. p = Three(a, b, c) \o Tail(q)
    BY <2>2
  <2> DEFINE r == Tail(q)
  <2>4. IsSeq(r) /\ p = Three(a, b, c) \o r
    BY <2>1, <2>3
  <2> HIDE DEF r
  <2>5. Three(a, b, c) \o r = Put(a, Put(b, Put(c, r)))
    BY ONLY <2>4, ConsThree
  <2>6. p = Put(a, Put(b, Put(c, r)))
    BY ONLY <2>4, <2>5
  <2>q. QED
    BY <2>6 DEF Put, r
<1> DEFINE r == Tail(q)
           s == <<c>> \o r
           t == <<b>> \o s
<1>1. IsSeq(q) /\ Tasks(r) /\ IsSeq(r) /\ \A m \in 1 .. Len(r) : r[m].do \in DeclKinds
  BY TasksTail
<1>2. Ends(r) = 0 /\ ~InFunction(r) /\ ToFill(r) = {} /\ Needless(r) = {} /\ LoopHeads(r) = {} /\ Disjoint(r)
  BY <1>1, OnlyDeclarations
<1>3. ~InFunction(q) /\ Ends(q) = 0
  <2>1. q[1].do \notin EndKinds /\ q[1].do # "end-of-function"
    BY DEF EndKinds
  <2>2. Ends(q) = Ends(r) + 0
    BY <1>1, <2>1, EndsFirst
  <2>3. ~InFunction(q)
    BY <1>1, <1>2, <2>1, InFunctionFirst
  <2> HIDE DEF r
  <2>q. QED
    BY <1>2, <2>2, <2>3
<1>4. p = <<a>> \o t
  BY <1>14
<1> HIDE DEF r
<1>5. Light(c) /\ ~Inner(c) /\ c.do \in EndKinds
  BY DEF Light, Inner, EndKinds
<1>6. Tasks(s)
  BY <1>1, <1>5, TasksCons
<1>7. IsSeq(s) /\ s # <<>> /\ s[1] = c /\ Tail(s) = r
  BY <1>1, TailOfCons
<1> HIDE DEF s
<1>8. InFunction(s)
  BY <1>7, InFunctionFirst
<1>9. Ends(s) = 1
  <2>1. Ends(s) = Ends(r) + 1
    BY <1>5, <1>7, EndsFirst
  <2>q. QED
    BY <1>2, <2>1
<1>10. ToFill(s) = {} /\ Needless(s) = {} /\ LoopHeads(s) = {} /\ Disjoint(s)
  <2>1. Fills(c) = {} /\ Spares(c) = {} /\ Heads(c) = {} /\ c.do # "end-of-if"
    BY <1>5, LightPlan
  <2>2. /\ ToFill(s) = Fills(c) \cup ToFill(r)
        /\ Needless(s) = Spares(c) \cup Needless(r)
        /\ LoopHeads(s) = Heads(c) \cup LoopHeads(r)
        /\ Disjoint(s) <=> /\ Disjoint(r)
                           /\ c.do = "end-of-if" => c.falseBB # c.contBB
                           /\ Fills(c) \cap ToFill(r) = {}
    BY <1>7, PlanFirst
  <2>q. QED
    BY <1>2, <2>1, <2>2
<1>11. MayFollow(b.do, s[1].do) /\ MayFollow(a.do, b.do)
  BY <1>7, Follows DEF StatementTasks, StatementKinds, Guards
<1>12. Tasks(t) /\ InFunction(t) /\ t[1] = b /\ Ends(t) = Ends(s) /\ SamePlan(s, t)
  <2>1. IsTask(b) /\ Inner(b) /\ Light(b) /\ b.do # "end-of-compound"
    BY DEF Plain
  <2>q. QED
    BY <1>6, <1>8, <1>11, <2>1, PushTask
<1> HIDE DEF t
<1>13. Tasks(p) /\ InFunction(p) /\ Ends(p) = Ends(t) /\ SamePlan(t, p)
  <2>1. IsTask(a) /\ Inner(a) /\ Light(a) /\ a.do # "end-of-compound"
    BY DEF Plain
  <2>2. MayFollow(a.do, t[1].do)
    BY <1>11, <1>12
  <2>q. QED
    BY ZenonT(40), <1>4, <1>12, <2>1, <2>2, PushTask
<1>q. QED
  BY <1>3, <1>9, <1>10, <1>12, <1>13 DEF SamePlan

\* Declarations come in front of a task of a compound statement.
LEMMA PushDeclarations ==
  ASSUME NEW q, Tasks(q), NEW s, IsSeq(s),
         \A n \in 1 .. Len(s) : IsTask(s[n]) /\ s[n].do = "var-declaration",
         InFunction(q)
  PROVE  LET p == s \o q
         IN Tasks(p) /\ p # <<>> /\ InFunction(p) /\ Ends(p) = Ends(q) /\ SamePlan(q, p)
<1> DEFINE p == s \o q
           k == Len(s)
           l == Len(q)
           m == Len(p)
<1>1. IsSeq(q) /\ k \in Nat /\ l \in Nat
  BY DEF Tasks, IsSeq
<1>2. /\ IsSeq(p) /\ m = k + l
      /\ \A n \in 1 .. k : p[n] = s[n]
      /\ \A n \in 1 .. l : p[k + n] = q[n]
  BY <1>1, ConcatSeq
<1> HIDE DEF p
<1>3. m = k + l
  BY <1>2
<1>4. ASSUME NEW n \in 1 .. m
      PROVE  \/ n \in 1 .. k /\ IsTask(p[n]) /\ p[n].do = "var-declaration"
             \/ n - k \in 1 .. l /\ p[n] = q[n - k]
  <2>1. CASE n \in 1 .. k
    BY <1>2, <2>1
  <2>2. CASE n \notin 1 .. k
    <3>1. n - k \in 1 .. l /\ n = k + (n - k)
      BY <1>1, <1>3, <2>2
    <3>q. QED
      BY <1>2, <3>1
  <2>q. QED
    BY <2>1, <2>2
<1>5. \A n \in 1 .. l : k + n \in 1 .. m /\ q[n] = p[k + n]
  <2>1. TAKE n \in 1 .. l
  <2>2. k + n \in 1 .. m
    BY <1>1, <1>3
  <2>q. QED
    BY <1>2, <2>2
<1>6. PICK e \in 1 .. l : q[e].do = "end-of-function"
  BY <1>1, InFunctionEnds
<1>7. InFunction(p)
  BY <1>2, <1>5, <1>6, InFunctionEnds
<1>8. p # <<>>
  <2>1. m >= 1
    BY <1>1, <1>3
  <2>q. QED
    BY <1>2, <2>1, NotEmpty
<1>9. Tasks(p)
  <2>1. ASSUME NEW n \in 1 .. m
        PROVE  /\ IsTask(p[n])
               /\ p[n].do \notin DeclKinds => \E i \in n .. m : p[i].do = "end-of-function"
               /\ p[n].do \in {"fun-declaration", "end-of-function"} => \A i \in n + 1 .. m : p[i].do \in DeclKinds
    <3>1. CASE p[n].do = "var-declaration" /\ IsTask(p[n])
      BY <3>1 DEF DeclKinds
    <3>2. CASE n - k \in 1 .. l /\ p[n] = q[n - k]
      <4>1. ASSUME p[n].do \notin DeclKinds
            PROVE  \E i \in n .. m : p[i].do = "end-of-function"
        <5>1. PICK i \in n - k .. l : q[i].do = "end-of-function"
          BY <3>2, <4>1 DEF Tasks
        <5>2. i \in 1 .. l /\ k + i \in n .. m
          BY <1>1, <1>3, <3>2
        <5>q. QED
          BY <1>5, <5>1, <5>2
      <4>2. ASSUME p[n].do \in {"fun-declaration", "end-of-function"}, NEW i \in n + 1 .. m
            PROVE  p[i].do \in DeclKinds
        <5>1. i \in 1 .. m /\ i \notin 1 .. k /\ i - k \in (n - k) + 1 .. l
          BY <1>1, <1>3, <3>2
        <5>2. p[i] = q[i - k]
          BY <1>4, <5>1
        <5>3. q[i - k].do \in DeclKinds
          BY <3>2, <4>2, <5>1 DEF Tasks
        <5>q. QED
          BY <5>2, <5>3
      <4>3. IsTask(p[n])
        BY <3>2 DEF Tasks
      <4>q. QED
        BY <4>1, <4>2, <4>3
    <3>q. QED
      BY <1>4, <3>1, <3>2
  <2>2. ASSUME NEW n \in 1 .. m - 1
        PROVE  MayFollow(p[n].do, p[n + 1].do)
    <3>1. n \in 1 .. m /\ n + 1 \in 1 .. m
      BY <1>1, <1>3
    <3>2. CASE p[n].do = "var-declaration"
      BY <3>2 DEF MayFollow, StatementTasks, ExpressionTasks, StatementKinds, ExpressionKinds
    <3>3. CASE n - k \in 1 .. l /\ p[n] = q[n - k]
      <4>1. n - k \in 1 .. l - 1 /\ (n - k) + 1 \in 1 .. l /\ k + ((n - k) + 1) = n + 1
        BY <1>1, <1>3, <3>3
      <4>2. p[n + 1] = q[(n - k) + 1]
        BY <1>5, <4>1
      <4>3. MayFollow(q[n - k].do, q[(n - k) + 1].do)
        BY <4>1 DEF Tasks
      <4>q. QED
        BY <3>3, <4>2, <4>3
    <3>q. QED
      BY <1>4, <3>1, <3>2, <3>3
  <2>q. QED
    BY <1>2, <2>1, <2>2 DEF Tasks
<1>10. Ends(p) = Ends(q)
  <2> DEFINE C == {n \in 1 .. m : n > k /\ p[n].do \in EndKinds}
  <2>1. /\ \A n \in 1 .. l : p[n + k] = q[n]
        /\ m = l + k
    <3>1. \A n \in 1 .. l : n + k = k + n
      BY <1>1
    <3>2. m = l + k
      BY <1>1, <1>3
    <3>q. QED
      BY <1>2, <3>1, <3>2
  <2>2. Cardinality(C) = Ends(q)
    BY ZenonT(40), <1>1, <1>2, <2>1, EndsBehind
  <2>3. C = {n \in 1 .. m : p[n].do \in EndKinds}
    <3>1. ASSUME NEW n \in 1 .. m, p[n].do \in EndKinds
          PROVE  n > k
      <4>1. p[n].do # "var-declaration"
        BY <3>1 DEF EndKinds
      <4>2. n - k \in 1 .. l
        BY <1>4, <4>1
      <4>q. QED
        BY <1>1, <4>2
    <3>q. QED
      BY <3>1
  <2>4. DOMAIN p = 1 .. m
    BY <1>2 DEF IsSeq
  <2> HIDE DEF C
  <2>q. QED
    BY <2>2, <2>3, <2>4 DEF Ends
<1>11. SamePlan(q, p)
  <2>1. \A n \in 1 .. m : \/ Fills(p[n]) = {} /\ Spares(p[n]) = {} /\ Heads(p[n]) = {} /\ p[n].do # "end-of-if"
                                /\ n \in 1 .. k
                          \/ n - k \in 1 .. l /\ p[n] = q[n - k]
    <3>1. TAKE n \in 1 .. m
    <3>2. p[n].do = "var-declaration" => Light(p[n])
      BY DEF Light
    <3>q. QED
      BY <1>4, <3>2, LightPlan
  <2>2. ToFill(p) = ToFill(q)
    BY <1>5, <2>1 DEF ToFill
  <2>3. Needless(p) = Needless(q)
    BY <1>5, <2>1 DEF Needless
  <2>4. LoopHeads(p) = LoopHeads(q)
    BY <1>5, <2>1 DEF LoopHeads
  <2>5. ASSUME Disjoint(q)
        PROVE  Disjoint(p)
    <3>1. ASSUME NEW n \in 1 .. m, p[n].do = "end-of-if"
          PROVE  p[n].falseBB # p[n].contBB
      BY <2>1, <2>5, <3>1 DEF Disjoint
    <3>2. ASSUME NEW i \in 1 .. m, NEW n \in 1 .. m, i # n
          PROVE  Fills(p[i]) \cap Fills(p[n]) = {}
      <4>1. CASE Fills(p[i]) = {} \/ Fills(p[n]) = {}
        BY <4>1
      <4>2. CASE i - k \in 1 .. l /\ p[i] = q[i - k] /\ n - k \in 1 .. l /\ p[n] = q[n - k]
        <5>1. i - k # n - k
          BY <1>1, <3>2
        <5>q. QED
          BY <2>5, <4>2, <5>1 DEF Disjoint
      <4>q. QED
        BY <2>1, <4>1, <4>2
    <3>q. QED
      BY <3>1, <3>2 DEF Disjoint
  <2>q. QED
    BY <2>2, <2>3, <2>4, <2>5 DEF SamePlan
<1>q. QED
  BY <1>7, <1>8, <1>9, <1>10, <1>11 DEF p

\* A compound statement is entered.
Pair(a, b)         == <<a, b>>
Instead(s, v, q)   == (s \o v) \o Tail(q)

LEMMA PushCompound ==
  ASSUME NEW q, Tasks(q), q # <<>>, q[1].do = "compound-stmt", NEW s, IsSeq(s),
         \A n \in 1 .. Len(s) : IsTask(s[n]) /\ s[n].do = "var-declaration",
         NEW b, Plain(b), b.do = "statement-list", NEW c, IsTask(c), c.do = "end-of-compound",
         NEW v, v = Pair(b, c), NEW p, p = Instead(s, v, q)
  PROVE  Tasks(p) /\ p # <<>> /\ InFunction(q) /\ InFunction(p) /\ Ends(p) = Ends(q) + 1 /\ SamePlan(q, p)
<1> DEFINE r == Tail(q)
<1>1. Inner(q[1]) /\ Light(q[1]) /\ q[1].do # "end-of-compound"
  BY DEF Inner, Light, DeclKinds
<1>2. /\ Tasks(r) /\ IsSeq(r) /\ r # <<>> /\ InFunction(q) /\ InFunction(r)
      /\ MayFollow("compound-stmt", r[1].do) /\ Ends(r) \in Nat /\ SamePlan(q, r)
  BY <1>1, PopTask
<1>3. Ends(q) = Ends(r) + 0
  BY <1>1, PopTask
<1>0. v = <<b, c>>
  BY DEF Pair
<1>4. v = [k \in 1 .. 2 |-> v[k]]
  BY <1>0
<1>5. IsSeq(v)
  BY <1>4, FunctionSeq
<1>6. p = (s \o v) \o r
  BY DEF Instead
<1>7. IsSeq(r)
  BY <1>2
<1> HIDE DEF r
<1>8. p = s \o (v \o r)
  <2>1. IsSeq(s) /\ IsSeq(v) /\ IsSeq(r)
    BY <1>5, <1>7
  <2>2. (s \o v) \o r = s \o (v \o r)
    BY ONLY <2>1, ConcatAgain
  <2>q. QED
    BY <1>6, <2>2
<1>9. Tasks(<<c>> \o r) /\ IsSeq(<<c>> \o r)
  <2>1. Inner(c) => InFunction(r) /\ MayFollow(c.do, r[1].do)
    BY <1>2, Follows DEF StatementTasks, StatementKinds
  <2>2. c.do \notin {"fun-declaration", "end-of-function"}
    OBVIOUS
  <2>3. Tasks(<<c>> \o r)
    BY <1>2, <2>1, <2>2, TasksCons
  <2>q. QED
    BY <2>3 DEF Tasks
<1> DEFINE t == <<c>> \o r
<1>10. IsSeq(t) /\ t # <<>> /\ t[1] = c /\ Tail(t) = r
  BY <1>7, TailOfCons
<1>11. Tasks(t)
  BY <1>9
<1> HIDE DEF t
<1>12. InFunction(t)
  BY <1>2, <1>10, InFunctionFirst
<1>13. Ends(t) = Ends(r) + 1
  BY <1>10, EndsFirst DEF EndKinds
<1>14. SamePlan(r, t)
  <2>1. Light(c)
    BY DEF Light
  <2>2. Fills(c) = {} /\ Spares(c) = {} /\ Heads(c) = {} /\ c.do # "end-of-if"
    BY <2>1, LightPlan
  <2>3. /\ ToFill(t) = Fills(c) \cup ToFill(r)
        /\ Needless(t) = Spares(c) \cup Needless(r)
        /\ LoopHeads(t) = Heads(c) \cup LoopHeads(r)
        /\ Disjoint(t) <=> /\ Disjoint(r)
                           /\ c.do = "end-of-if" => c.falseBB # c.contBB
                           /\ Fills(c) \cap ToFill(r) = {}
    BY <1>10, PlanFirst
  <2>q. QED
    BY <2>2, <2>3 DEF SamePlan
<1> DEFINE u == <<b>> \o t
<1>15. Tasks(u) /\ InFunction(u) /\ Ends(u) = Ends(t) /\ SamePlan(t, u)
  <2>1. IsTask(b) /\ Inner(b) /\ Light(b) /\ b.do # "end-of-compound"
    BY DEF Plain
  <2>2. MayFollow(b.do, t[1].do)
    BY <1>10, Follows
  <2>q. QED
    BY <1>11, <1>12, <2>1, <2>2, PushTask
<1>16. u = v \o r
  <2> DEFINE w == v \o r
  <2>1. w = <<b>> \o (<<c>> \o r)
    BY <1>0, <1>7, ConsTwo
  <2>q. QED
    BY <2>1 DEF t
<1> HIDE DEF u
<1>17. p = s \o u
  BY <1>8, <1>16
<1>18. Tasks(p) /\ p # <<>> /\ InFunction(p) /\ Ends(p) = Ends(u) /\ SamePlan(u, p)
  BY <1>15, <1>17, PushDeclarations
<1>19. SamePlan(q, p)
  BY <1>2, <1>14, <1>15, <1>18 DEF SamePlan
<1>20. Ends(p) = Ends(q) + 1
  <2>1. Ends(r) \in Nat
    BY <1>2
  <2>2. Ends(p) = Ends(r) + 1
    BY <1>13, <1>15, <1>18
  <2>q. QED
    BY ONLY <1>3, <2>1, <2>2
<1>q. QED
  BY <1>2, <1>18, <1>19, <1>20

\* A visit and a task that has to do with blocks take the place of the first task.
Hung(b, r, p) ==
  /\ InFunction(p) /\ Ends(p) = Ends(r)
  /\ ToFill(p) = Fills(b) \cup ToFill(r)
  /\ Needless(p) = Spares(b) \cup Needless(r)
  /\ LoopHeads(p) = Heads(b) \cup LoopHeads(r)
  /\ Disjoint(p) <=> /\ Disjoint(r)
                     /\ b.do = "end-of-if" => b.falseBB # b.contBB
                     /\ Fills(b) \cap ToFill(r) = {}

LEMMA PushBranch ==
  ASSUME NEW r, Tasks(r), InFunction(r), NEW a, Plain(a), NEW b, IsTask(b), Inner(b), b.do # "end-of-compound",
         MayFollow(a.do, b.do), MayFollow(b.do, r[1].do), NEW p, p = Pair(a, b) \o r
  PROVE  Tasks(p) /\ Hung(b, r, p)
<1> DEFINE s == <<b>> \o r
<1>1. IsSeq(r)
  BY DEF Tasks
<1>2. p = <<a>> \o s
  <2>1. p = <<a, b>> \o r
    BY DEF Pair
  <2>2. <<a, b>> \o r = <<a>> \o s
    BY ONLY <1>1, ConsTwo DEF s
  <2>q. QED
    BY <2>1, <2>2
<1>3. /\ Tasks(s) /\ IsSeq(s) /\ s # <<>> /\ InFunction(s) /\ s[1] = b /\ Tail(s) = r /\ Ends(s) = Ends(r)
  BY PushTask
<1> HIDE DEF s
<1>4. /\ ToFill(s) = Fills(b) \cup ToFill(r)
      /\ Needless(s) = Spares(b) \cup Needless(r)
      /\ LoopHeads(s) = Heads(b) \cup LoopHeads(r)
      /\ Disjoint(s) <=> /\ Disjoint(r)
                         /\ b.do = "end-of-if" => b.falseBB # b.contBB
                         /\ Fills(b) \cap ToFill(r) = {}
  BY <1>3, PlanFirst
<1>5. Light(a) /\ IsTask(a) /\ Inner(a) /\ a.do # "end-of-compound" /\ MayFollow(a.do, s[1].do)
  BY <1>3 DEF Plain
<1>6. /\ Tasks(p) /\ IsSeq(p) /\ p # <<>> /\ InFunction(p) /\ p[1] = a /\ Tail(p) = s /\ Ends(p) = Ends(s)
  BY <1>2, <1>3, <1>5, PushTask
<1>7. /\ ToFill(p) = Fills(a) \cup ToFill(s)
      /\ Needless(p) = Spares(a) \cup Needless(s)
      /\ LoopHeads(p) = Heads(a) \cup LoopHeads(s)
      /\ Disjoint(p) <=> /\ Disjoint(s)
                         /\ a.do = "end-of-if" => a.falseBB # a.contBB
                         /\ Fills(a) \cap ToFill(s) = {}
  BY <1>6, PlanFirst
<1>8. Fills(a) = {} /\ Spares(a) = {} /\ Heads(a) = {} /\ a.do # "end-of-if"
  BY <1>5, LightPlan
<1>q. QED
  BY <1>3, <1>4, <1>6, <1>7, <1>8 DEF Hung

-----------------------------------------------------------------------------
(* The edges of the blocks.                                                  *)

LEMMA CountIn ==
  ASSUME NEW q, IsSeq(q), NEW x
  PROVE  /\ Count(q, x) \in Nat
         /\ Count(q, x) = 0 <=> x \notin Range(q)
<1> DEFINE A == {n \in 1 .. Len(q) : q[n] = x}
<1>1. DOMAIN q = 1 .. Len(q) /\ Len(q) \in Nat
  BY DEF IsSeq
<1>2. Count(q, x) = Cardinality(A)
  BY <1>1 DEF Count
<1>3. IsFiniteSet(A)
  <2>1. IsFiniteSet(1 .. Len(q))
    BY <1>1, FS_Interval
  <2>q. QED
    BY <2>1, FS_Subset
<1>4. Cardinality(A) \in Nat /\ (Cardinality(A) = 0 <=> A = {})
  BY <1>3, FS_EmptySet, FS_CardinalityType
<1>5. A = {} <=> x \notin Range(q)
  BY <1>1 DEF Range
<1> HIDE DEF A
<1>q. QED
  BY <1>2, <1>4, <1>5

LEMMA CountAppend ==
  ASSUME NEW q, IsSeq(q), NEW x, NEW y
  PROVE  Count(Append(q, y), x) = Count(q, x) + (IF x = y THEN 1 ELSE 0)
<1> DEFINE p == Append(q, y)
           k == Len(q)
           A == {n \in 1 .. k : q[n] = x}
           B == {n \in 1 .. k + 1 : p[n] = x}
<1>1. DOMAIN q = 1 .. k /\ k \in Nat
  BY DEF IsSeq
<1>2. IsSeq(p) /\ Len(p) = k + 1 /\ (\A n \in 1 .. k : p[n] = q[n]) /\ p[k + 1] = y
  BY AppendSeq
<1> HIDE DEF p
<1>3. DOMAIN p = 1 .. k + 1
  BY <1>2 DEF IsSeq
<1>4. Count(q, x) = Cardinality(A) /\ Count(p, x) = Cardinality(B)
  BY <1>1, <1>3 DEF Count
<1>5. IsFiniteSet(A)
  <2>1. IsFiniteSet(1 .. k)
    BY <1>1, FS_Interval
  <2>q. QED
    BY <2>1, FS_Subset
<1>6. CASE x = y
  <2>1. B = A \cup {k + 1} /\ k + 1 \notin A
    BY <1>1, <1>2, <1>6
  <2> HIDE DEF A, B
  <2>2. Cardinality(B) = Cardinality(A) + 1
    BY <1>5, <2>1, FS_AddElement
  <2>q. QED
    BY <1>4, <1>6, <2>2 DEF p
<1>7. CASE x # y
  <2>1. B = A
    BY <1>1, <1>2, <1>7
  <2> HIDE DEF A, B
  <2>2. Count(q, x) \in Nat
    BY CountIn
  <2>3. Count(p, x) = Count(q, x)
    BY <1>4, <2>1
  <2>4. Count(p, x) = Count(q, x) + 0
    BY <2>2, <2>3
  <2>q. QED
    BY <1>7, <2>4 DEF p
<1>q. QED
  BY <1>6, <1>7

LEMMA EmptyIs ==
  /\ IsSeq(<<>>) /\ Len(<<>>) = 0 /\ Range(<<>>) = {}
  /\ \A x : Count(<<>>, x) = 0
<1>1. IsSeq(<<>>) /\ Len(<<>>) = 0
  BY EmptySeq, SeqIs
<1>2. Range(<<>>) = {}
  <2> DEFINE e == <<>>
  <2>1. DOMAIN e = 1 .. Len(e) /\ Len(e) = 0
    BY <1>1 DEF IsSeq
  <2> HIDE DEF e
  <2>2. DOMAIN e = {}
    BY <2>1
  <2>3. Range(e) = {}
    BY <2>2 DEF Range
  <2>q. QED
    BY <2>3 DEF e
<1>3. \A x : Count(<<>>, x) = 0
  BY <1>1, <1>2, CountIn
<1>q. QED
  BY <1>1, <1>2, <1>3

\* A block without a terminator has no branches, and nothing is behind a terminator.
LEMMA AtTheEnd ==
  ASSUME NEW bs, Graph(bs), NEW b \in 1 .. Len(bs), ~Terminated(bs, b)
  PROVE  /\ bs[b].succ = <<>>
         /\ \A n \in 1 .. Len(bs[b].code) : bs[b].code[n].op \notin Terminators
<1>1. IsBlock(bs[b]) /\ IsSeq(bs[b].code) /\ bs[b].succ \in Seq(Nat)
  BY DEF Graph, IsBlocks, IsBlock
<1>2. bs[b].succ = <<>>
  <2>1. Range(bs[b].succ) = {}
    BY DEF Graph, Branching
  <2> DEFINE s == bs[b].succ
  <2>2. IsSeq(s)
    BY <1>1, SeqIs
  <2>3. Range(s) = {}
    BY <2>1
  <2> HIDE DEF s
  <2>4. Len(s) >= 1 => s[1] \in Range(s)
    BY <2>2 DEF Range, IsSeq
  <2>5. s = <<>>
    BY <2>2, <2>3, <2>4, NotEmpty
  <2>q. QED
    BY <2>5 DEF s
<1>3. ASSUME NEW n \in 1 .. Len(bs[b].code)
      PROVE  bs[b].code[n].op \notin Terminators
  <2> DEFINE s == bs[b].code
             k == Len(s)
  <2>1. k \in Nat
    BY <1>1 DEF IsSeq
  <2>2. CASE n = k
    <3>1. s # <<>>
      BY <1>1, <2>1, <2>2, NotEmpty
    <3>q. QED
      BY <2>2, <3>1 DEF Terminated, Last, Terminators
  <2>3. CASE n # k
    <3>1. n \in 1 .. k - 1
      BY <2>1, <2>3
    <3>q. QED
      BY <3>1 DEF Graph, Sealed
  <2>q. QED
    BY <2>2, <2>3
<1>q. QED
  BY <1>2, <1>3

\* An instruction is appended to block at, and goes to the blocks of ts.
LEMMA Extended ==
  ASSUME NEW bs, Graph(bs), NEW at \in 1 .. Len(bs), ~Terminated(bs, at),
         NEW bs2, IsBlocks(bs2), Len(bs2) = Len(bs), NEW i, NEW ts, IsSeq(ts),
         bs2[at].code = Append(bs[at].code, i), bs2[at].succ = ts,
         \A b \in 1 .. Len(bs) : bs2[b].fun = bs[b].fun,
         \A b \in 1 .. Len(bs) : b # at => bs2[b].code = bs[b].code /\ bs2[b].succ = bs[b].succ,
         \A b, c \in 1 .. Len(bs) :
           Count(bs2[c].pre, b) = IF b = at THEN Count(ts, c) ELSE Count(bs[c].pre, b),
         Range(ts) = IF i.op \in Terminators THEN Targets(i) ELSE {},
         \A c \in Range(ts) : c \in 1 .. Len(bs) /\ bs[c].fun = bs[at].fun,
         \A c \in 1 .. Len(bs) : Range(bs2[c].pre) \subseteq 1 .. Len(bs)
  PROVE  /\ Graph(bs2)
         /\ Terminated(bs2, at) <=> i.op \in Terminators
         /\ \A b \in 1 .. Len(bs) : b # at => (Terminated(bs2, b) <=> Terminated(bs, b))
<1> DEFINE s == bs[at].code
           k == Len(s)
<1>1. IsSeq(s)
  BY DEF Graph, IsBlocks, IsBlock
<1>2. k \in Nat
  BY <1>1 DEF IsSeq
<1>3. \A n \in 1 .. k : s[n].op \notin Terminators
  BY AtTheEnd
<1>4. bs2[at].code = Append(s, i)
  OBVIOUS
<1> HIDE DEF s
<1>5. /\ Len(bs2[at].code) = k + 1 /\ bs2[at].code[k + 1] = i /\ bs2[at].code # <<>>
      /\ \A n \in 1 .. k : bs2[at].code[n] = s[n]
  BY <1>1, <1>4, AppendSeq
<1>6. Last(bs2[at].code) = i
  BY <1>5 DEF Last
<1>7. Terminated(bs2, at) <=> i.op \in Terminators
  BY <1>5, <1>6 DEF Terminated, Terminators
<1>8. \A b \in 1 .. Len(bs) : b # at => (Terminated(bs2, b) <=> Terminated(bs, b))
  BY DEF Terminated
<1>9. Sealed(bs2)
  <2>1. ASSUME NEW b \in 1 .. Len(bs2), NEW n \in 1 .. Len(bs2[b].code) - 1
        PROVE  bs2[b].code[n].op \notin Terminators
    <3>1. CASE b = at
      <4>1. Len(bs2[at].code) = k + 1
        BY <1>5
      <4>2. n \in 1 .. k
        BY <1>2, <3>1, <4>1
      <4>q. QED
        BY <1>3, <1>5, <3>1, <4>2
    <3>2. CASE b # at
      BY <3>2 DEF Graph, Sealed
    <3>q. QED
      BY <3>1, <3>2
  <2>q. QED
    BY <2>1 DEF Sealed
<1>10. Counted(bs2)
  <2>1. ASSUME NEW b \in 1 .. Len(bs2), NEW c \in 1 .. Len(bs2)
        PROVE  Count(bs2[b].succ, c) = Count(bs2[c].pre, b)
    <3>1. CASE b = at
      BY <3>1
    <3>2. CASE b # at
      BY <3>2 DEF Graph, Counted
    <3>q. QED
      BY <3>1, <3>2
  <2>q. QED
    BY <2>1 DEF Counted
<1>11. Branching(bs2)
  <2>1. ASSUME NEW b \in 1 .. Len(bs2)
        PROVE  Range(bs2[b].succ) = IF Terminated(bs2, b) THEN Targets(Last(bs2[b].code)) ELSE {}
    <3>1. CASE b = at
      BY <1>6, <1>7, <3>1
    <3>2. CASE b # at
      BY <1>8, <3>2 DEF Graph, Branching
    <3>q. QED
      BY <3>1, <3>2
  <2>q. QED
    BY <2>1 DEF Branching
<1>12. Linked(bs2)
  <2>1. ASSUME NEW b \in 1 .. Len(bs2)
        PROVE  Range(bs2[b].pre) \cup Range(bs2[b].succ) \subseteq 1 .. Len(bs2)
    <3>1. CASE b = at
      BY <3>1
    <3>2. CASE b # at
      BY <3>2 DEF Graph, Linked
    <3>q. QED
      BY <3>1, <3>2
  <2>q. QED
    BY <2>1 DEF Linked
<1>13. Homely(bs2)
  <2>1. ASSUME NEW b \in 1 .. Len(bs2), bs2[b].fun # "removed", NEW c \in Range(bs2[b].succ)
        PROVE  bs2[c].fun = bs2[b].fun
    <3>1. CASE b = at
      BY <3>1
    <3>2. CASE b # at
      <4>1. c \in Range(bs[b].succ) /\ bs[b].fun # "removed"
        BY <2>1, <3>2
      <4>2. c \in 1 .. Len(bs) /\ bs[c].fun = bs[b].fun
        BY <4>1 DEF Graph, Linked, Homely
      <4>q. QED
        BY <4>2
    <3>q. QED
      BY <3>1, <3>2
  <2>q. QED
    BY <2>1 DEF Homely
<1>q. QED
  BY <1>7, <1>8, <1>9, <1>10, <1>11, <1>12, <1>13 DEF Graph

-----------------------------------------------------------------------------
(* What the builder does to the blocks.                                      *)

\* Blocks are added, and those that are there keep their function and, outside of X,
\* their predecessors.
Kept(bs, bs2, X) ==
  /\ Len(bs) \in Nat /\ Len(bs2) \in Nat /\ Len(bs) <= Len(bs2)
  /\ \A b \in 1 .. Len(bs) : bs2[b].fun = bs[b].fun /\ (b \notin X => bs2[b].pre = bs[b].pre)

LEMMA KeptTwice ==
  ASSUME NEW a, NEW b, NEW c, NEW X, NEW Y, Kept(a, b, X), Kept(b, c, Y)
  PROVE  Kept(a, c, X \cup Y)
BY DEF Kept

\* Block at gets instruction i, which goes to the blocks of ts.
Appended(bs, at, bs2, i, ts) ==
  /\ IsBlocks(bs2) /\ Len(bs2) = Len(bs) /\ IsSeq(ts)
  /\ bs2[at].code = Append(bs[at].code, i) /\ bs2[at].succ = ts
  /\ \A b \in 1 .. Len(bs) : bs2[b].fun = bs[b].fun
  /\ \A b \in 1 .. Len(bs) : b # at => bs2[b].code = bs[b].code /\ bs2[b].succ = bs[b].succ
  /\ \A b, c \in 1 .. Len(bs) :
       Count(bs2[c].pre, b) = IF b = at THEN Count(ts, c) ELSE Count(bs[c].pre, b)
  /\ Range(ts) = IF i.op \in Terminators THEN Targets(i) ELSE {}
  /\ \A c \in Range(ts) : c \in 1 .. Len(bs) /\ bs[c].fun = bs[at].fun
  /\ \A c \in 1 .. Len(bs) : Range(bs2[c].pre) \subseteq 1 .. Len(bs)

\* The block the builder appends to gets an instruction.
LEMMA Filled ==
  ASSUME NEW bs, NEW at, NEW W, NEW f, Building(bs, at, W, f), ~Terminated(bs, at),
         NEW bs2, NEW i, NEW ts, Appended(bs, at, bs2, i, ts)
  PROVE  /\ Building(bs2, at, W, f)
         /\ Terminated(bs2, at) <=> i.op \in Terminators
<1>6. IsBlocks(bs2)
  BY DEF Appended
<1>7. Len(bs2) = Len(bs)
  BY DEF Appended
<1>8. IsSeq(ts)
  BY DEF Appended
<1>9. bs2[at].code = Append(bs[at].code, i)
  BY DEF Appended
<1>10. bs2[at].succ = ts
  BY DEF Appended
<1>11. \A b \in 1 .. Len(bs) : bs2[b].fun = bs[b].fun
  BY DEF Appended
<1>12. \A b \in 1 .. Len(bs) : b # at => bs2[b].code = bs[b].code /\ bs2[b].succ = bs[b].succ
  BY DEF Appended
<1>13. \A b, c \in 1 .. Len(bs) :
         Count(bs2[c].pre, b) = IF b = at THEN Count(ts, c) ELSE Count(bs[c].pre, b)
  BY DEF Appended
<1>14. Range(ts) = IF i.op \in Terminators THEN Targets(i) ELSE {}
  BY DEF Appended
<1>15. \A c \in Range(ts) : c \in 1 .. Len(bs) /\ bs[c].fun = bs[at].fun
  BY DEF Appended
<1>16. \A c \in 1 .. Len(bs) : Range(bs2[c].pre) \subseteq 1 .. Len(bs)
  BY DEF Appended
<1>1. Graph(bs) /\ at \in 1 .. Len(bs)
  BY DEF Building
<1>2. /\ Graph(bs2)
      /\ Terminated(bs2, at) <=> i.op \in Terminators
      /\ \A b \in 1 .. Len(bs) : b # at => (Terminated(bs2, b) <=> Terminated(bs, b))
  BY <1>1, <1>6, <1>7, <1>8, <1>9, <1>10, <1>11, <1>12, <1>13, <1>14, <1>15, <1>16, Extended
<1>3. at \in 1 .. Len(bs2) /\ bs2[at].fun = f /\ at \notin W /\ W \subseteq 1 .. Len(bs2)
  BY <1>1, <1>7, <1>11 DEF Building
<1>4. \A b \in W : bs2[b].code = <<>> /\ bs2[b].fun = f
  <2>1. ASSUME NEW b \in W
        PROVE  bs2[b].code = <<>> /\ bs2[b].fun = f
    <3>1. b \in 1 .. Len(bs) /\ b # at /\ bs[b].code = <<>> /\ bs[b].fun = f
      BY <2>1 DEF Building
    <3>q. QED
      BY <1>11, <1>12, <3>1
  <2>q. QED
    BY <2>1
<1>5. Complete(bs2, W \cup {at})
  <2>1. ASSUME NEW b \in 1 .. Len(bs2), bs2[b].fun # "removed", ~Terminated(bs2, b)
        PROVE  b \in W \cup {at}
    <3>1. CASE b # at
      <4>1. bs[b].fun # "removed" /\ ~Terminated(bs, b) /\ b \in 1 .. Len(bs)
        BY <1>2, <1>7, <1>11, <2>1, <3>1
      <4>q. QED
        BY <4>1 DEF Building, Complete
    <3>q. QED
      BY <3>1
  <2>q. QED
    BY <2>1 DEF Complete
<1>q. QED
  BY <1>2, <1>3, <1>4, <1>5 DEF Building

\* Blocks one of which is changed.
Change(bs, at, x) == [bs EXCEPT ![at] = x]

LEMMA Changed ==
  ASSUME NEW bs, IsBlocks(bs), NEW bs2, NEW at \in 1 .. Len(bs), NEW x, IsBlock(x),
         bs2 = Change(bs, at, x)
  PROVE  /\ IsBlocks(bs2) /\ Len(bs2) = Len(bs)
         /\ bs2[at] = x
         /\ \A b \in 1 .. Len(bs) : b # at => bs2[b] = bs[b]
<1>1. IsSeq(bs) /\ Len(bs) \in Nat /\ DOMAIN bs = 1 .. Len(bs)
  BY DEF IsBlocks, IsSeq
<1>2. bs2[at] = x /\ \A b \in 1 .. Len(bs) : b # at => bs2[b] = bs[b]
  BY <1>1 DEF Change
<1> DEFINE n == Len(bs)
<1>3. bs2 = [k \in 1 .. n |-> bs2[k]] /\ n \in Nat
  BY <1>1 DEF Change
<1> HIDE DEF n
<1>4. IsSeq(bs2) /\ Len(bs2) = n
  BY <1>3, FunctionSeq
<1>5. Len(bs2) = Len(bs)
  BY <1>4 DEF n
<1>6. ASSUME NEW b \in 1 .. Len(bs2)
      PROVE  IsBlock(bs2[b])
  BY <1>2, <1>5 DEF IsBlocks
<1>q. QED
  BY <1>2, <1>4, <1>5, <1>6 DEF IsBlocks

\* One field of one block is changed.
AddPre(bs, b, m)  == [bs EXCEPT ![b].pre = Append(bs[b].pre, m)]
SetSucc(bs, b, s) == [bs EXCEPT ![b].succ = s]
AddCode(bs, b, i) == [bs EXCEPT ![b].code = Append(bs[b].code, i)]
SetFun(bs, b, f)  == [bs EXCEPT ![b].fun = f]

LEMMA Generated ==
  ASSUME NEW bs, NEW at, NEW W, NEW f, Building(bs, at, W, f), ~Terminated(bs, at),
         NEW i, i.op \in Terminators => Targets(i) = {},
         NEW bs2, bs2 = AddCode(bs, at, i)
  PROVE  /\ Building(bs2, at, W, f) /\ Kept(bs, bs2, {}) /\ Len(bs2) = Len(bs)
         /\ Terminated(bs2, at) <=> i.op \in Terminators
<1> DEFINE x == [bs[at] EXCEPT !.code = Append(bs[at].code, i)]
<1>1. Graph(bs) /\ at \in 1 .. Len(bs) /\ IsBlocks(bs) /\ IsSeq(bs) /\ IsBlock(bs[at])
  BY DEF Building, Graph, IsBlocks
<1>2. IsSeq(Append(bs[at].code, i))
  BY <1>1, AppendSeq DEF IsBlock
<1>3. x = [fun |-> bs[at].fun, code |-> Append(bs[at].code, i), pre |-> bs[at].pre, succ |-> bs[at].succ]
  <2> DEFINE r == bs[at]
  <2>1. r = [fun |-> r.fun, code |-> r.code, pre |-> r.pre, succ |-> r.succ]
    BY <1>1 DEF IsBlock
  <2>2. x = [r EXCEPT !.code = Append(r.code, i)]
    OBVIOUS
  <2> HIDE DEF r, x
  <2>3. x = [fun |-> r.fun, code |-> Append(r.code, i), pre |-> r.pre, succ |-> r.succ]
    BY <2>1, <2>2
  <2>q. QED
    BY <2>3 DEF r
<1>4. /\ IsBlock(x) /\ x.fun = bs[at].fun /\ x.pre = bs[at].pre /\ x.succ = bs[at].succ
      /\ x.code = Append(bs[at].code, i)
  BY <1>1, <1>2, <1>3 DEF IsBlock
<1>5. bs2 = Change(bs, at, x)
  BY <1>1 DEF Change, AddCode
<1> HIDE DEF x
<1>6. /\ IsBlocks(bs2) /\ Len(bs2) = Len(bs)
      /\ bs2[at] = x
      /\ \A b \in 1 .. Len(bs) : b # at => bs2[b] = bs[b]
  <2>1. IsBlocks(bs)
    BY <1>1
  <2>2. at \in 1 .. Len(bs)
    BY <1>1
  <2>3. IsBlock(x)
    BY <1>4
  <2>q. QED
    BY ONLY <2>1, <2>2, <2>3, <1>5, Changed
<1>7. bs[at].succ = <<>>
  BY <1>1, AtTheEnd
<1> DEFINE ts == <<>>
<1>8. IsSeq(ts) /\ Range(ts) = {} /\ \A c : Count(ts, c) = 0
  BY EmptyIs
<1>9. \A b \in 1 .. Len(bs) : bs2[b].fun = bs[b].fun /\ bs2[b].pre = bs[b].pre
  BY <1>4, <1>6
<1>10. bs2[at].code = Append(bs[at].code, i) /\ bs2[at].succ = ts
  BY <1>4, <1>6, <1>7
<1> HIDE DEF ts
<1>11. \A b, c \in 1 .. Len(bs) :
         Count(bs2[c].pre, b) = IF b = at THEN Count(ts, c) ELSE Count(bs[c].pre, b)
  <2>1. ASSUME NEW c \in 1 .. Len(bs)
        PROVE  Count(bs[c].pre, at) = 0
    <3>1. Count(bs[at].succ, c) = Count(bs[c].pre, at)
      BY <1>1 DEF Graph, Counted
    <3>q. QED
      BY <1>7, <3>1, EmptyIs
  <2>q. QED
    BY <1>8, <1>9, <2>1
<1>12. \A c \in 1 .. Len(bs) : Range(bs2[c].pre) \subseteq 1 .. Len(bs)
  BY <1>1, <1>9 DEF Graph, Linked
<1>13. \A b \in 1 .. Len(bs) : b # at => bs2[b].code = bs[b].code /\ bs2[b].succ = bs[b].succ
  BY <1>6
<1>14. Building(bs2, at, W, f) /\ (Terminated(bs2, at) <=> i.op \in Terminators)
  <2>1. Range(ts) = IF i.op \in Terminators THEN Targets(i) ELSE {}
    BY <1>8
  <2>2. Appended(bs, at, bs2, i, ts)
    BY <1>6, <1>8, <1>9, <1>10, <1>11, <1>12, <1>13, <2>1 DEF Appended
  <2>q. QED
    BY <2>2, Filled
<1>15. Kept(bs, bs2, {})
  <2>1. Len(bs) \in Nat
    BY <1>1 DEF IsSeq
  <2>q. QED
    BY <1>6, <1>9, <2>1 DEF Kept
<1>q. QED
  BY <1>6, <1>14, <1>15

LEMMA WithPre ==
  ASSUME NEW bs, IsBlocks(bs), NEW b \in 1 .. Len(bs), NEW m \in Nat
  PROVE  LET bs2 == AddPre(bs, b, m)
         IN /\ IsBlocks(bs2) /\ Len(bs2) = Len(bs)
            /\ \A n \in 1 .. Len(bs) :
                 /\ bs2[n].fun = bs[n].fun /\ bs2[n].code = bs[n].code /\ bs2[n].succ = bs[n].succ
                 /\ bs2[n].pre = IF n = b THEN Append(bs[n].pre, m) ELSE bs[n].pre
<1> DEFINE r == bs[b]
           x == [r EXCEPT !.pre = Append(r.pre, m)]
           bs2 == AddPre(bs, b, m)
<1>1. IsBlock(r) /\ IsSeq(bs) /\ DOMAIN bs = 1 .. Len(bs)
  BY DEF IsBlocks, IsSeq
<1>2. r = [fun |-> r.fun, code |-> r.code, pre |-> r.pre, succ |-> r.succ]
  BY <1>1 DEF IsBlock
<1>3. bs2 = Change(bs, b, x)
  BY <1>1 DEF AddPre, Change
<1> HIDE DEF r, bs2
<1>4. x = [fun |-> r.fun, code |-> r.code, pre |-> Append(r.pre, m), succ |-> r.succ]
  BY SMTT(30), <1>2
<1> HIDE DEF x
<1>5. x.fun = r.fun /\ x.code = r.code /\ x.pre = Append(r.pre, m) /\ x.succ = r.succ
  BY <1>4
<1>6. Append(r.pre, m) \in Seq(Nat)
  BY <1>1, AppendProperties DEF IsBlock
<1>7. IsBlock(x)
  BY <1>1, <1>4, <1>5, <1>6 DEF IsBlock
<1>8. /\ IsBlocks(bs2) /\ Len(bs2) = Len(bs)
      /\ bs2[b] = x
      /\ \A n \in 1 .. Len(bs) : n # b => bs2[n] = bs[n]
  BY ONLY IsBlocks(bs), b \in 1 .. Len(bs), <1>3, <1>7, Changed
<1>q. QED
  BY <1>5, <1>8 DEF r, bs2

LEMMA WithSucc ==
  ASSUME NEW bs, IsBlocks(bs), NEW b \in 1 .. Len(bs), NEW s, s \in Seq(Nat)
  PROVE  LET bs2 == SetSucc(bs, b, s)
         IN /\ IsBlocks(bs2) /\ Len(bs2) = Len(bs)
            /\ \A n \in 1 .. Len(bs) :
                 /\ bs2[n].fun = bs[n].fun /\ bs2[n].code = bs[n].code /\ bs2[n].pre = bs[n].pre
                 /\ bs2[n].succ = IF n = b THEN s ELSE bs[n].succ
<1> DEFINE r == bs[b]
           x == [r EXCEPT !.succ = s]
           bs2 == SetSucc(bs, b, s)
<1>1. IsBlock(r) /\ IsSeq(bs) /\ DOMAIN bs = 1 .. Len(bs)
  BY DEF IsBlocks, IsSeq
<1>2. r = [fun |-> r.fun, code |-> r.code, pre |-> r.pre, succ |-> r.succ]
  BY <1>1 DEF IsBlock
<1>3. bs2 = Change(bs, b, x)
  BY <1>1 DEF SetSucc, Change
<1> HIDE DEF r, bs2
<1>4. x = [fun |-> r.fun, code |-> r.code, pre |-> r.pre, succ |-> s]
  BY <1>2
<1> HIDE DEF x
<1>5. x.fun = r.fun /\ x.code = r.code /\ x.pre = r.pre /\ x.succ = s
  BY <1>4
<1>7. IsBlock(x)
  BY <1>1, <1>4, <1>5 DEF IsBlock
<1>8. /\ IsBlocks(bs2) /\ Len(bs2) = Len(bs)
      /\ bs2[b] = x
      /\ \A n \in 1 .. Len(bs) : n # b => bs2[n] = bs[n]
  <2>1. IsBlocks(bs)
    OBVIOUS
  <2>2. b \in 1 .. Len(bs)
    OBVIOUS
  <2>q. QED
    BY ONLY <1>3, <1>7, <2>1, <2>2, Changed
<1>q. QED
  BY <1>5, <1>8 DEF r, bs2

LEMMA WithCode ==
  ASSUME NEW bs, IsBlocks(bs), NEW b \in 1 .. Len(bs), NEW i
  PROVE  LET bs2 == AddCode(bs, b, i)
         IN /\ IsBlocks(bs2) /\ Len(bs2) = Len(bs)
            /\ \A n \in 1 .. Len(bs) :
                 /\ bs2[n].fun = bs[n].fun /\ bs2[n].pre = bs[n].pre /\ bs2[n].succ = bs[n].succ
                 /\ bs2[n].code = IF n = b THEN Append(bs[n].code, i) ELSE bs[n].code
<1> DEFINE r == bs[b]
           x == [r EXCEPT !.code = Append(r.code, i)]
           bs2 == AddCode(bs, b, i)
<1>1. IsBlock(r) /\ IsSeq(bs) /\ DOMAIN bs = 1 .. Len(bs)
  BY DEF IsBlocks, IsSeq
<1>2. r = [fun |-> r.fun, code |-> r.code, pre |-> r.pre, succ |-> r.succ]
  BY <1>1 DEF IsBlock
<1>3. bs2 = Change(bs, b, x)
  BY <1>1 DEF AddCode, Change
<1> HIDE DEF r, bs2
<1>4. x = [fun |-> r.fun, code |-> Append(r.code, i), pre |-> r.pre, succ |-> r.succ]
  <2> DEFINE p == Append(r.code, i)
  <2>1. x = [r EXCEPT !.code = p]
    OBVIOUS
  <2> HIDE DEF p, x
  <2>2. x = [fun |-> r.fun, code |-> p, pre |-> r.pre, succ |-> r.succ]
    BY <1>2, <2>1
  <2>q. QED
    BY <2>2 DEF p
<1> HIDE DEF x
<1>5. x.fun = r.fun /\ x.code = Append(r.code, i) /\ x.pre = r.pre /\ x.succ = r.succ
  BY <1>4
<1>6. IsSeq(Append(r.code, i))
  BY <1>1, AppendSeq DEF IsBlock
<1>7. IsBlock(x)
  BY <1>1, <1>4, <1>5, <1>6 DEF IsBlock
<1>8. /\ IsBlocks(bs2) /\ Len(bs2) = Len(bs)
      /\ bs2[b] = x
      /\ \A n \in 1 .. Len(bs) : n # b => bs2[n] = bs[n]
  BY ONLY IsBlocks(bs), b \in 1 .. Len(bs), <1>3, <1>7, Changed
<1>q. QED
  BY <1>5, <1>8 DEF r, bs2

LEMMA WithFun ==
  ASSUME NEW bs, IsBlocks(bs), NEW b \in 1 .. Len(bs), NEW f
  PROVE  LET bs2 == SetFun(bs, b, f)
         IN /\ IsBlocks(bs2) /\ Len(bs2) = Len(bs)
            /\ \A n \in 1 .. Len(bs) :
                 /\ bs2[n].code = bs[n].code /\ bs2[n].pre = bs[n].pre /\ bs2[n].succ = bs[n].succ
                 /\ bs2[n].fun = IF n = b THEN f ELSE bs[n].fun
<1> DEFINE r == bs[b]
           x == [r EXCEPT !.fun = f]
           bs2 == SetFun(bs, b, f)
<1>1. IsBlock(r) /\ IsSeq(bs) /\ DOMAIN bs = 1 .. Len(bs)
  BY DEF IsBlocks, IsSeq
<1>2. r = [fun |-> r.fun, code |-> r.code, pre |-> r.pre, succ |-> r.succ]
  BY <1>1 DEF IsBlock
<1>3. bs2 = Change(bs, b, x)
  BY <1>1 DEF SetFun, Change
<1> HIDE DEF r, bs2
<1>4. x = [fun |-> f, code |-> r.code, pre |-> r.pre, succ |-> r.succ]
  BY <1>2
<1> HIDE DEF x
<1>5. x.fun = f /\ x.code = r.code /\ x.pre = r.pre /\ x.succ = r.succ
  BY <1>4
<1>7. IsBlock(x)
  BY <1>1, <1>4, <1>5 DEF IsBlock
<1>8. /\ IsBlocks(bs2) /\ Len(bs2) = Len(bs)
      /\ bs2[b] = x
      /\ \A n \in 1 .. Len(bs) : n # b => bs2[n] = bs[n]
  BY ONLY IsBlocks(bs), b \in 1 .. Len(bs), <1>3, <1>7, Changed
<1>q. QED
  BY <1>5, <1>8 DEF r, bs2

\* The blocks of T are told that block at goes to them.
Told(bs, bs1, T, at) ==
  /\ IsBlocks(bs1) /\ Len(bs1) = Len(bs)
  /\ \A n \in 1 .. Len(bs) :
       /\ bs1[n].fun = bs[n].fun /\ bs1[n].code = bs[n].code /\ bs1[n].succ = bs[n].succ
       /\ bs1[n].pre = IF n \in T THEN Append(bs[n].pre, at) ELSE bs[n].pre

LEMMA WentTo ==
  ASSUME NEW bs, NEW at, NEW W, NEW f, Building(bs, at, W, f), ~Terminated(bs, at),
         NEW T, \A c \in T : c \in 1 .. Len(bs) /\ bs[c].fun = f,
         NEW ts \in Seq(Nat), Range(ts) = T, \A c : Count(ts, c) = IF c \in T THEN 1 ELSE 0,
         NEW i, i.op = "br", Targets(i) = T,
         NEW bs1, Told(bs, bs1, T, at),
         NEW bs2, bs2 = AddCode(SetSucc(bs1, at, ts), at, i)
  PROVE  /\ Building(bs2, at, W, f) /\ Kept(bs, bs2, T) /\ Len(bs2) = Len(bs)
         /\ Terminated(bs2, at)
<1>1. Graph(bs) /\ at \in 1 .. Len(bs) /\ IsBlocks(bs) /\ IsSeq(bs) /\ bs[at].fun = f
  BY DEF Building, Graph, IsBlocks
<1>2. IsBlocks(bs1) /\ Len(bs1) = Len(bs) /\ at \in 1 .. Len(bs1)
  BY <1>1 DEF Told
<1> DEFINE bs3 == SetSucc(bs1, at, ts)
<1>3. /\ IsBlocks(bs3) /\ Len(bs3) = Len(bs)
      /\ \A n \in 1 .. Len(bs) :
           /\ bs3[n].fun = bs1[n].fun /\ bs3[n].code = bs1[n].code /\ bs3[n].pre = bs1[n].pre
           /\ bs3[n].succ = IF n = at THEN ts ELSE bs1[n].succ
  BY <1>2, WithSucc
<1>4. bs2 = AddCode(bs3, at, i)
  OBVIOUS
<1> HIDE DEF bs3
<1>5. /\ IsBlocks(bs2) /\ Len(bs2) = Len(bs)
      /\ \A n \in 1 .. Len(bs) :
           /\ bs2[n].fun = bs3[n].fun /\ bs2[n].pre = bs3[n].pre /\ bs2[n].succ = bs3[n].succ
           /\ bs2[n].code = IF n = at THEN Append(bs3[n].code, i) ELSE bs3[n].code
  <2>1. at \in 1 .. Len(bs3)
    BY <1>1, <1>3
  <2>q. QED
    BY <1>3, <1>4, <2>1, WithCode
<1>6. \A n \in 1 .. Len(bs) :
        /\ bs2[n].fun = bs[n].fun
        /\ bs2[n].code = IF n = at THEN Append(bs[n].code, i) ELSE bs[n].code
        /\ bs2[n].succ = IF n = at THEN ts ELSE bs[n].succ
        /\ bs2[n].pre = IF n \in T THEN Append(bs[n].pre, at) ELSE bs[n].pre
  BY <1>3, <1>5 DEF Told
<1>7. \A c \in 1 .. Len(bs) : IsSeq(bs[c].pre)
  BY <1>1, SeqIs DEF IsBlocks, IsBlock
<1>8. ASSUME NEW b \in 1 .. Len(bs), NEW c \in 1 .. Len(bs)
      PROVE  Count(bs2[c].pre, b) = IF b = at THEN Count(ts, c) ELSE Count(bs[c].pre, b)
  <2>1. Count(bs[c].pre, b) \in Nat
    BY <1>7, CountIn
  <2>2. Count(bs[c].pre, at) = 0
    <3>1. Count(bs[at].succ, c) = Count(bs[c].pre, at)
      BY <1>1 DEF Graph, Counted
    <3>q. QED
      BY <1>1, <3>1, AtTheEnd, EmptyIs
  <2>3. CASE c \in T
    <3>1. Count(bs2[c].pre, b) = Count(bs[c].pre, b) + (IF b = at THEN 1 ELSE 0)
      BY <1>6, <1>7, <2>3, CountAppend
    <3>q. QED
      BY <2>1, <2>2, <2>3, <3>1
  <2>4. CASE c \notin T
    BY <1>6, <2>2, <2>4
  <2>q. QED
    BY <2>3, <2>4
<1>9. ASSUME NEW c \in 1 .. Len(bs)
      PROVE  Range(bs2[c].pre) \subseteq 1 .. Len(bs)
  <2>1. Range(bs[c].pre) \subseteq 1 .. Len(bs)
    BY <1>1 DEF Graph, Linked
  <2>2. CASE c \in T
    <3> DEFINE s == bs[c].pre
               p == Append(s, at)
    <3>1. IsSeq(s) /\ Range(s) \subseteq 1 .. Len(bs)
      BY <1>7, <2>1
    <3> HIDE DEF s
    <3>2. IsSeq(p) /\ Len(p) = Len(s) + 1 /\ (\A n \in 1 .. Len(s) : p[n] = s[n]) /\ p[Len(s) + 1] = at
      BY <3>1, AppendSeq
    <3>3. Len(s) \in Nat
      BY <3>1 DEF IsSeq
    <3> HIDE DEF p
    <3>4. Len(p) = Len(s) + 1
      BY <3>2
    <3>5. ASSUME NEW n \in 1 .. Len(p) PROVE p[n] \in 1 .. Len(bs)
      <4>1. CASE n = Len(s) + 1
        BY <1>1, <3>2, <4>1
      <4>2. CASE n # Len(s) + 1
        <5>1. n \in 1 .. Len(s)
          BY <3>3, <3>4, <4>2
        <5>2. s[n] \in Range(s)
          BY <3>1, <5>1 DEF Range, IsSeq
        <5>q. QED
          BY <3>1, <3>2, <5>1, <5>2
      <4>q. QED
        BY <4>1, <4>2
    <3>6. Range(p) \subseteq 1 .. Len(bs)
      BY <3>2, <3>5 DEF Range, IsSeq
    <3>7. bs2[c].pre = p
      BY <1>6, <2>2 DEF p, s
    <3>q. QED
      BY <3>6, <3>7
  <2>3. CASE c \notin T
    BY <1>6, <2>1, <2>3
  <2>q. QED
    BY <2>2, <2>3
<1>10. IsSeq(ts) /\ i.op \in Terminators
  BY SeqIs DEF Terminators
<1>11. Appended(bs, at, bs2, i, ts)
  <2>1. IsBlocks(bs2) /\ Len(bs2) = Len(bs) /\ IsSeq(ts)
    BY <1>5, <1>10
  <2>2. bs2[at].code = Append(bs[at].code, i) /\ bs2[at].succ = ts
    BY <1>1, <1>6
  <2>3. \A b \in 1 .. Len(bs) : bs2[b].fun = bs[b].fun
    BY <1>6
  <2>4. \A b \in 1 .. Len(bs) : b # at => bs2[b].code = bs[b].code /\ bs2[b].succ = bs[b].succ
    BY <1>6
  <2>5. Range(ts) = IF i.op \in Terminators THEN Targets(i) ELSE {}
    BY <1>10
  <2>6. \A c \in Range(ts) : c \in 1 .. Len(bs) /\ bs[c].fun = bs[at].fun
    BY <1>1
  <2>q. QED
    BY <1>8, <1>9, <2>1, <2>2, <2>3, <2>4, <2>5, <2>6 DEF Appended
<1>12. Building(bs2, at, W, f) /\ (Terminated(bs2, at) <=> i.op \in Terminators)
  BY <1>11, Filled
<1>13. Kept(bs, bs2, T)
  <2>1. Len(bs) \in Nat
    BY <1>1 DEF IsSeq
  <2>q. QED
    BY <1>5, <1>6, <2>1 DEF Kept
<1>q. QED
  BY <1>5, <1>10, <1>12, <1>13

\* The lists of successors of the two kinds of branches.
LEMMA OneTarget ==
  ASSUME NEW b \in Nat
  PROVE  LET ts == Append(<<>>, b)
         IN ts \in Seq(Nat) /\ Range(ts) = {b} /\ \A c : Count(ts, c) = IF c \in {b} THEN 1 ELSE 0
<1> DEFINE e == <<>>
           ts == Append(e, b)
<1>1. e \in Seq(Nat) /\ IsSeq(e) /\ Len(e) = 0 /\ \A c : Count(e, c) = 0
  BY EmptyIs, EmptySeq
<1> HIDE DEF e
<1>2. ts \in Seq(Nat)
  BY <1>1, AppendProperties
<1>3. IsSeq(ts) /\ Len(ts) = 0 + 1 /\ ts[0 + 1] = b
  BY <1>1, AppendSeq
<1>4. \A c : Count(ts, c) = Count(e, c) + (IF c = b THEN 1 ELSE 0)
  BY ZenonT(40), <1>1, CountAppend
<1> HIDE DEF ts
<1>5. DOMAIN ts = 1 .. 1 /\ ts[1] = b
  BY <1>3 DEF IsSeq
<1>6. Range(ts) = {b}
  BY <1>5 DEF Range
<1>7. \A c : Count(ts, c) = IF c \in {b} THEN 1 ELSE 0
  BY <1>1, <1>4
<1>q. QED
  BY <1>2, <1>6, <1>7 DEF e, ts

LEMMA TwoTargets ==
  ASSUME NEW b \in Nat, NEW d \in Nat, b # d
  PROVE  LET ts == <<b, d>>
         IN ts \in Seq(Nat) /\ Range(ts) = {b, d} /\ \A c : Count(ts, c) = IF c \in {b, d} THEN 1 ELSE 0
<1> DEFINE ts == <<b, d>>
           u == <<b>>
           v == Append(u, d)
<1>1. IsSeq(u) /\ Len(u) = 1 /\ u[1] = b
  BY UnitSeq
<1>2. DOMAIN u = 1 .. 1
  BY <1>1 DEF IsSeq
<1> HIDE DEF u
<1>3. IsSeq(v) /\ Len(v) = 1 + 1 /\ (\A n \in 1 .. 1 : v[n] = u[n]) /\ v[1 + 1] = d
  <2>1. IsSeq(u)
    BY <1>1
  <2>2. Len(u) = 1
    BY <1>1
  <2>3. /\ IsSeq(v) /\ Len(v) = Len(u) + 1 /\ (\A n \in 1 .. Len(u) : v[n] = u[n])
        /\ v[Len(u) + 1] = d
    BY <2>1, AppendSeq
  <2>q. QED
    BY <2>2, <2>3
<1>4. \A c : Count(v, c) = Count(u, c) + (IF c = d THEN 1 ELSE 0)
  BY <1>1, CountAppend
<1> HIDE DEF v
<1>5. v[1] = b /\ v[2] = d /\ DOMAIN v = 1 .. 2 /\ Len(v) = 2
  BY <1>1, <1>3 DEF IsSeq
<1>6. ts = v
  <2>1. ts = [k \in 1 .. 2 |-> ts[k]] /\ ts[1] = b /\ ts[2] = d
    OBVIOUS
  <2> HIDE DEF ts
  <2>2. IsSeq(ts) /\ Len(ts) = 2
    BY <2>1, FunctionSeq
  <2>q. QED
    BY <1>3, <1>5, <2>1, <2>2, SeqExtensional
<1>7. \A c : Count(u, c) = IF c = b THEN 1 ELSE 0
  <2>1. ASSUME NEW c
        PROVE  Count(u, c) = IF c = b THEN 1 ELSE 0
    <3>1. CASE c = b
      <4>1. {n \in DOMAIN u : u[n] = c} = {1}
        BY <1>1, <1>2, <3>1
      <4>q. QED
        BY <3>1, <4>1, FS_Singleton DEF Count
    <3>2. CASE c # b
      <4>1. c \notin Range(u)
        BY <1>1, <1>2, <3>2 DEF Range
      <4>q. QED
        BY <1>1, <3>2, <4>1, CountIn
    <3>q. QED
      BY <3>1, <3>2
  <2>q. QED
    BY <2>1
<1>8. \A c : Count(v, c) = IF c \in {b, d} THEN 1 ELSE 0
  BY <1>4, <1>7
<1>9. Range(v) = {b, d}
  BY <1>5 DEF Range
<1>10. v \in Seq(Nat)
  BY <1>3, <1>5, SeqIn
<1>q. QED
  BY <1>6, <1>8, <1>9, <1>10

LEMMA EmptyConcat ==
  ASSUME NEW s, IsSeq(s)
  PROVE  <<>> \o s = s
<1> DEFINE e == <<>>
           t == e \o s
<1>1. IsSeq(e) /\ Len(e) = 0
  BY EmptyIs
<1> HIDE DEF e
<1>2. IsSeq(t) /\ Len(t) = 0 + Len(s) /\ \A n \in 1 .. Len(s) : t[0 + n] = s[n]
  BY <1>1, ConcatSeq
<1>3. Len(s) \in Nat
  BY DEF IsSeq
<1> HIDE DEF t
<1>4. Len(t) = Len(s)
  BY <1>2, <1>3
<1>5. \A n \in 1 .. Len(s) : t[n] = s[n]
  BY <1>2
<1>6. t = s
  BY <1>2, <1>4, <1>5, SeqExtensional
<1>q. QED
  BY <1>6 DEF t, e

\* A branch to block b, and one to b or d.
OneWay(i, b)     == Targets(i) = {b}
TwoWays(i, b, d) == Targets(i) = {b, d}

Joined(bs, b, at, i)    == AddCode(SetSucc(AddPre(bs, b, at), at, Append(<<>>, b)), at, i)
Forked(bs, b, d, at, i) == AddCode(SetSucc(AddPre(AddPre(bs, b, at), d, at), at, <<d, b>>), at, i)

LEMMA GoneTo ==
  ASSUME NEW bs, NEW at, NEW W, NEW f, Building(bs, at, W, f), ~Terminated(bs, at),
         NEW b \in 1 .. Len(bs), bs[b].fun = f,
         NEW i, i.op = "br", OneWay(i, b),
         NEW bs2, bs2 = Joined(bs, b, at, i)
  PROVE  /\ Building(bs2, at, W, f) /\ Kept(bs, bs2, {b}) /\ Len(bs2) = Len(bs)
         /\ Terminated(bs2, at)
<1> DEFINE bs1 == AddPre(bs, b, at)
           ts == Append(<<>>, b)
<1>1. IsBlocks(bs) /\ at \in Nat /\ Len(bs) \in Nat
  BY DEF Building, Graph, IsBlocks, IsSeq
<1>2. Told(bs, bs1, {b}, at)
  BY <1>1, WithPre DEF Told
<1>3. b \in Nat
  BY <1>1
<1>4. ts \in Seq(Nat) /\ Range(ts) = {b} /\ \A c : Count(ts, c) = IF c \in {b} THEN 1 ELSE 0
  BY <1>3, OneTarget
<1>5. bs2 = AddCode(SetSucc(bs1, at, ts), at, i)
  BY DEF Joined
<1>6. \A c \in {b} : c \in 1 .. Len(bs) /\ bs[c].fun = f
  OBVIOUS
<1> HIDE DEF bs1, ts
<1>7. ts \in Seq(Nat)
  BY <1>4
<1>8. Range(ts) = {b}
  BY <1>4
<1>9. \A c : Count(ts, c) = IF c \in {b} THEN 1 ELSE 0
  BY <1>4
<1> DEFINE T == {b}
<1>10. \A c \in T : c \in 1 .. Len(bs) /\ bs[c].fun = f
  BY <1>6
<1>12. Range(ts) = T
  BY <1>8
<1>13. \A c : Count(ts, c) = IF c \in T THEN 1 ELSE 0
  BY <1>9
<1>14. Targets(i) = T
  BY DEF OneWay
<1>15. Told(bs, bs1, T, at)
  BY <1>2
<1>16. Building(bs, at, W, f)
  OBVIOUS
<1>17. ~Terminated(bs, at)
  OBVIOUS
<1>18. i.op = "br"
  OBVIOUS
<1> HIDE DEF T
<1>11. /\ Building(bs2, at, W, f) /\ Kept(bs, bs2, T) /\ Len(bs2) = Len(bs)
       /\ Terminated(bs2, at)
  BY ONLY <1>5, <1>7, <1>10, <1>12, <1>13, <1>14, <1>15, <1>16, <1>17, <1>18, WentTo, SMTT(60)
<1>q. QED
  BY <1>11 DEF T

LEMMA ForkedTo ==
  ASSUME NEW bs, NEW at, NEW W, NEW f, Building(bs, at, W, f), ~Terminated(bs, at),
         NEW b \in 1 .. Len(bs), bs[b].fun = f, NEW d \in 1 .. Len(bs), bs[d].fun = f, b # d,
         NEW i, i.op = "br", TwoWays(i, b, d),
         NEW bs2, bs2 = Forked(bs, b, d, at, i)
  PROVE  /\ Building(bs2, at, W, f) /\ Kept(bs, bs2, {b, d}) /\ Len(bs2) = Len(bs)
         /\ Terminated(bs2, at)
<1> DEFINE bs0 == AddPre(bs, b, at)
           bs1 == AddPre(bs0, d, at)
           ts == <<d, b>>
<1>1. IsBlocks(bs) /\ at \in Nat /\ Len(bs) \in Nat
  BY DEF Building, Graph, IsBlocks, IsSeq
<1>2. Told(bs, bs0, {b}, at)
  BY <1>1, WithPre DEF Told
<1>3. IsBlocks(bs0) /\ d \in 1 .. Len(bs0)
  BY <1>2 DEF Told
<1>7. Told(bs0, bs1, {d}, at)
  <2> HIDE DEF bs0
  <2>q. QED
    BY <1>1, <1>3, WithPre DEF Told
<1> HIDE DEF bs0
<1>8. Told(bs, bs1, {b, d}, at)
  <2> HIDE DEF bs1
  <2>q. QED
    BY <1>2, <1>7 DEF Told
<1>9. b \in Nat /\ d \in Nat
  BY <1>1
<1>4. ts \in Seq(Nat) /\ Range(ts) = {b, d} /\ \A c : Count(ts, c) = IF c \in {b, d} THEN 1 ELSE 0
  BY <1>9, TwoTargets
<1>5. bs2 = AddCode(SetSucc(bs1, at, ts), at, i)
  BY DEF bs0, Forked
<1>6. \A c \in {b, d} : c \in 1 .. Len(bs) /\ bs[c].fun = f
  OBVIOUS
<1> HIDE DEF bs1, ts
<1>10. Targets(i) = {b, d}
  BY DEF TwoWays
<1>q. QED
  BY <1>8, <1>4, <1>5, <1>6, <1>10, WentTo

\* A block is created.
Grown(bs, f) == Append(bs, NewBlock(f))

LEMMA AddedBlock ==
  ASSUME NEW bs, Graph(bs), NEW f, NEW bs2, bs2 = Grown(bs, f)
  PROVE  LET n == Len(bs) + 1
         IN /\ Graph(bs2) /\ Len(bs) \in Nat /\ Len(bs2) = n
            /\ \A b \in 1 .. Len(bs) : bs2[b] = bs[b] /\ (Terminated(bs2, b) <=> Terminated(bs, b))
            /\ ~Terminated(bs2, n)
            /\ bs2[n].fun = f /\ bs2[n].code = <<>> /\ bs2[n].pre = <<>>
<1> DEFINE k == Len(bs)
<1>1. Graph(bs) /\ IsBlocks(bs) /\ IsSeq(bs) /\ k \in Nat
  BY DEF Graph, IsBlocks, IsSeq
<1>2. /\ IsSeq(bs2) /\ Len(bs2) = k + 1
      /\ \A n \in 1 .. k : bs2[n] = bs[n]
      /\ bs2[k + 1] = NewBlock(f)
  BY <1>1, AppendSeq DEF Grown
<1> HIDE DEF k
<1>3. /\ IsBlock(NewBlock(f)) /\ NewBlock(f).fun = f /\ NewBlock(f).code = <<>>
      /\ NewBlock(f).pre = <<>> /\ NewBlock(f).succ = <<>>
  <2>1. <<>> \in Seq(Nat)
    BY EmptySeq
  <2>q. QED
    BY <2>1, EmptyIs DEF NewBlock, IsBlock
<1>4. Len(bs2) = k + 1
  BY <1>2
<1>5. \A n \in 1 .. Len(bs2) : n \in 1 .. k \/ n = k + 1
  BY <1>1, <1>4
<1>6. \A n \in 1 .. k : n \in 1 .. Len(bs2) /\ n # k + 1 /\ n \in 1 .. Len(bs)
  BY <1>1, <1>4 DEF k
<1>7. k + 1 \in 1 .. Len(bs2) /\ k + 1 \notin 1 .. k
  BY <1>1, <1>4
<1>8. IsBlocks(bs2)
  BY <1>1, <1>2, <1>3, <1>5, <1>6 DEF IsBlocks
<1>9. \A n \in 1 .. k : Terminated(bs2, n) <=> Terminated(bs, n)
  BY <1>2 DEF Terminated
<1>10. ~Terminated(bs2, k + 1)
  BY <1>2, <1>3 DEF Terminated
<1>11. Sealed(bs2)
  <2>1. ASSUME NEW b \in 1 .. Len(bs2), NEW n \in 1 .. Len(bs2[b].code) - 1
        PROVE  bs2[b].code[n].op \notin Terminators
    <3>1. CASE b \in 1 .. k
      BY <1>1, <1>2, <1>6, <2>1, <3>1 DEF Graph, Sealed
    <3>2. CASE b = k + 1
      <4>1. bs2[b].code = <<>>
        BY <1>2, <1>3, <3>2
      <4>2. Len(bs2[b].code) = 0
        BY <4>1, EmptyIs
      <4>q. QED
        BY <4>2
    <3>q. QED
      BY <1>5, <3>1, <3>2
  <2>q. QED
    BY <2>1 DEF Sealed
<1>12. Linked(bs2)
  <2>1. ASSUME NEW b \in 1 .. Len(bs2)
        PROVE  Range(bs2[b].pre) \cup Range(bs2[b].succ) \subseteq 1 .. Len(bs2)
    <3>1. CASE b \in 1 .. k
      <4>1. Range(bs[b].pre) \cup Range(bs[b].succ) \subseteq 1 .. Len(bs)
        BY <1>1, <1>6, <3>1 DEF Graph, Linked
      <4>q. QED
        BY <1>1, <1>2, <1>4, <3>1, <4>1 DEF k
    <3>2. CASE b = k + 1
      BY <1>2, <1>3, <3>2, EmptyIs
    <3>q. QED
      BY <1>5, <3>1, <3>2
  <2>q. QED
    BY <2>1 DEF Linked
<1>13. Counted(bs2)
  <2>1. ASSUME NEW b \in 1 .. Len(bs2), NEW c \in 1 .. Len(bs2)
        PROVE  Count(bs2[b].succ, c) = Count(bs2[c].pre, b)
    <3>1. CASE b \in 1 .. k /\ c \in 1 .. k
      BY <1>1, <1>2, <1>6, <3>1 DEF Graph, Counted
    <3>2. CASE b = k + 1 /\ c = k + 1
      BY <1>2, <1>3, <3>2, EmptyIs
    <3>3. CASE b \in 1 .. k /\ c = k + 1
      <4>1. Range(bs[b].succ) \subseteq 1 .. Len(bs)
        BY <1>1, <1>6, <3>3 DEF Graph, Linked
      <4>2. c \notin Range(bs[b].succ) /\ IsSeq(bs[b].succ)
        BY <1>1, <1>6, <1>7, <3>3, <4>1, SeqIs DEF IsBlocks, IsBlock, k
      <4>3. Count(bs[b].succ, c) = 0
        BY <4>2, CountIn
      <4>q. QED
        BY <1>2, <1>3, <3>3, <4>3, EmptyIs
    <3>4. CASE b = k + 1 /\ c \in 1 .. k
      <4>1. Range(bs[c].pre) \subseteq 1 .. Len(bs)
        BY <1>1, <1>6, <3>4 DEF Graph, Linked
      <4>2. b \notin Range(bs[c].pre) /\ IsSeq(bs[c].pre)
        BY <1>1, <1>6, <1>7, <3>4, <4>1, SeqIs DEF IsBlocks, IsBlock, k
      <4>3. Count(bs[c].pre, b) = 0
        BY <4>2, CountIn
      <4>q. QED
        BY <1>2, <1>3, <3>4, <4>3, EmptyIs
    <3>q. QED
      BY <1>5, <3>1, <3>2, <3>3, <3>4
  <2>q. QED
    BY <2>1 DEF Counted
<1>14. Branching(bs2)
  <2>1. ASSUME NEW b \in 1 .. Len(bs2)
        PROVE  Range(bs2[b].succ) = IF Terminated(bs2, b) THEN Targets(Last(bs2[b].code)) ELSE {}
    <3>1. CASE b \in 1 .. k
      BY <1>1, <1>2, <1>6, <1>9, <3>1 DEF Graph, Branching
    <3>2. CASE b = k + 1
      BY <1>2, <1>3, <1>10, <3>2, EmptyIs
    <3>q. QED
      BY <1>5, <3>1, <3>2
  <2>q. QED
    BY <2>1 DEF Branching
<1>15. Homely(bs2)
  <2>1. ASSUME NEW b \in 1 .. Len(bs2), bs2[b].fun # "removed", NEW c \in Range(bs2[b].succ)
        PROVE  bs2[c].fun = bs2[b].fun
    <3>1. CASE b \in 1 .. k
      <4>1. c \in Range(bs[b].succ) /\ bs[b].fun # "removed"
        BY <1>2, <2>1, <3>1
      <4>2. c \in 1 .. k /\ bs[c].fun = bs[b].fun
        BY <1>1, <1>6, <3>1, <4>1 DEF Graph, Linked, Homely, k
      <4>q. QED
        BY <1>2, <3>1, <4>2
    <3>2. CASE b = k + 1
      BY <1>2, <1>3, <2>1, <3>2, EmptyIs
    <3>q. QED
      BY <1>5, <3>1, <3>2
  <2>q. QED
    BY <2>1 DEF Homely
<1>16. Graph(bs2)
  BY <1>8, <1>11, <1>12, <1>13, <1>14, <1>15 DEF Graph
<1>q. QED
  BY <1>1, <1>2, <1>3, <1>9, <1>10, <1>16 DEF k

LEMMA Added ==
  ASSUME NEW bs, NEW at, NEW W, NEW f, Building(bs, at, W, f), NEW bs2, bs2 = Grown(bs, f)
  PROVE  LET n == Len(bs) + 1
         IN /\ Building(bs2, at, W \cup {n}, f) /\ Kept(bs, bs2, {}) /\ Len(bs2) = n /\ Len(bs) \in Nat
            /\ bs2[n].pre = <<>> /\ bs2[n].fun = f /\ n \notin W
            /\ Terminated(bs2, at) <=> Terminated(bs, at)
<1> DEFINE k == Len(bs)
<1>16. Graph(bs)
  BY DEF Building
<1>1. k \in Nat /\ at \in 1 .. k
  BY <1>16, AddedBlock DEF Building
<1>2. /\ Graph(bs2) /\ Len(bs2) = k + 1
      /\ \A n \in 1 .. k : bs2[n] = bs[n] /\ (Terminated(bs2, n) <=> Terminated(bs, n))
      /\ bs2[k + 1].fun = f /\ bs2[k + 1].code = <<>> /\ bs2[k + 1].pre = <<>>
  BY <1>16, AddedBlock
<1> HIDE DEF k
<1>4. Len(bs2) = k + 1
  BY <1>2
<1>5. \A n \in 1 .. Len(bs2) : n \in 1 .. k \/ n = k + 1
  BY <1>1, <1>4
<1>6. \A n \in 1 .. k : n \in 1 .. Len(bs2) /\ n # k + 1 /\ n \in 1 .. Len(bs)
  BY <1>1, <1>4 DEF k
<1>7. k + 1 \in 1 .. Len(bs2) /\ k + 1 \notin 1 .. k
  BY <1>1, <1>4
<1>17. W \subseteq 1 .. k /\ at \notin W /\ bs[at].fun = f
  BY DEF Building, k
<1>18. \A b \in W \cup {k + 1} : bs2[b].code = <<>> /\ bs2[b].fun = f
  <2>1. \A b \in W : bs[b].code = <<>> /\ bs[b].fun = f
    BY DEF Building
  <2>q. QED
    BY <1>2, <1>17, <2>1
<1>19. Complete(bs2, (W \cup {k + 1}) \cup {at})
  <2>1. ASSUME NEW b \in 1 .. Len(bs2), bs2[b].fun # "removed", ~Terminated(bs2, b), b # k + 1
        PROVE  b \in W \cup {at}
    <3>1. b \in 1 .. Len(bs) /\ bs[b].fun # "removed" /\ ~Terminated(bs, b)
      BY <1>2, <1>5, <1>6, <2>1
    <3>q. QED
      BY <3>1 DEF Building, Complete
  <2>q. QED
    BY <2>1 DEF Complete
<1>20. Building(bs2, at, W \cup {k + 1}, f)
  BY <1>1, <1>2, <1>6, <1>7, <1>17, <1>18, <1>19 DEF Building
<1>21. Kept(bs, bs2, {})
  <2>1. Len(bs) \in Nat /\ Len(bs2) \in Nat /\ Len(bs) <= Len(bs2)
    BY <1>1, <1>4 DEF k
  <2>q. QED
    BY <1>2, <2>1 DEF Kept, k
<1>q. QED
  BY <1>1, <1>2, <1>7, <1>17, <1>20, <1>21 DEF k

\* A block nothing goes to is removed.
ButFor(b, bs, bs2) ==
  /\ Len(bs2) = Len(bs) /\ Len(bs) \in Nat
  /\ \A n \in 1 .. Len(bs) : /\ bs2[n].pre = bs[n].pre
                             /\ n # b => bs2[n].fun = bs[n].fun
                             /\ Terminated(bs2, n) <=> Terminated(bs, n)

LEMMA Discarded ==
  ASSUME NEW bs, NEW at, NEW W, NEW f, Building(bs, at, W, f), NEW b \in W, bs[b].pre = <<>>,
         NEW bs2, bs2 = SetFun(bs, b, "removed")
  PROVE  Building(bs2, at, W \ {b}, f) /\ ButFor(b, bs, bs2)
<1>1. Graph(bs) /\ IsBlocks(bs) /\ b \in 1 .. Len(bs) /\ at \in 1 .. Len(bs) /\ at # b /\ Len(bs) \in Nat
  BY DEF Building, Graph, IsBlocks, IsSeq
<1>2. /\ IsBlocks(bs2) /\ Len(bs2) = Len(bs)
      /\ \A n \in 1 .. Len(bs) :
           /\ bs2[n].code = bs[n].code /\ bs2[n].pre = bs[n].pre /\ bs2[n].succ = bs[n].succ
           /\ bs2[n].fun = IF n = b THEN "removed" ELSE bs[n].fun
  BY <1>1, WithFun
<1>3. \A n \in 1 .. Len(bs) : Terminated(bs2, n) <=> Terminated(bs, n)
  BY <1>2 DEF Terminated
<1>4. Len(bs2) = Len(bs)
  BY <1>2
<1>5. Sealed(bs2) /\ Counted(bs2) /\ Linked(bs2)
  BY <1>1, <1>2, <1>4 DEF Graph, Sealed, Counted, Linked
<1>6. Branching(bs2)
  BY <1>1, <1>2, <1>3, <1>4 DEF Graph, Branching
<1>7. Homely(bs2)
  <2>1. ASSUME NEW n \in 1 .. Len(bs2), bs2[n].fun # "removed", NEW c \in Range(bs2[n].succ)
        PROVE  bs2[c].fun = bs2[n].fun
    <3>1. n \in 1 .. Len(bs) /\ c \in Range(bs[n].succ) /\ bs[n].fun # "removed" /\ bs2[n].fun = bs[n].fun
      BY <1>2, <1>4, <2>1
    <3>2. c \in 1 .. Len(bs) /\ bs[c].fun = bs[n].fun
      BY <1>1, <3>1 DEF Graph, Linked, Homely
    <3>3. c # b
      <4>1. ASSUME c = b PROVE FALSE
        <5>1. Count(bs[n].succ, c) = 0
          BY <1>1, <3>1, <4>1, EmptyIs DEF Graph, Counted
        <5>2. IsSeq(bs[n].succ)
          BY <1>1, <3>1, SeqIs DEF IsBlocks, IsBlock
        <5>q. QED
          BY <3>1, <5>1, <5>2, CountIn
      <4>q. QED
        BY <4>1
    <3>q. QED
      BY <1>2, <3>1, <3>2, <3>3
  <2>q. QED
    BY <2>1 DEF Homely
<1>8. Graph(bs2)
  BY <1>2, <1>5, <1>6, <1>7 DEF Graph
<1>9. at \in 1 .. Len(bs2) /\ bs2[at].fun = f /\ at \notin W \ {b} /\ W \ {b} \subseteq 1 .. Len(bs2)
  BY <1>1, <1>2, <1>4 DEF Building
<1>10. \A n \in W \ {b} : bs2[n].code = <<>> /\ bs2[n].fun = f
  <2>1. ASSUME NEW n \in W \ {b}
        PROVE  bs2[n].code = <<>> /\ bs2[n].fun = f
    <3>1. n \in 1 .. Len(bs) /\ bs[n].code = <<>> /\ bs[n].fun = f
      BY DEF Building
    <3>q. QED
      BY <1>2, <3>1
  <2>q. QED
    BY <2>1
<1>11. Complete(bs2, (W \ {b}) \cup {at})
  <2>1. ASSUME NEW n \in 1 .. Len(bs2), bs2[n].fun # "removed", ~Terminated(bs2, n)
        PROVE  n \in (W \ {b}) \cup {at}
    <3>1. n \in 1 .. Len(bs) /\ n # b /\ bs[n].fun # "removed" /\ ~Terminated(bs, n)
      BY <1>2, <1>3, <1>4, <2>1
    <3>q. QED
      BY <3>1 DEF Building, Complete
  <2>q. QED
    BY <2>1 DEF Complete
<1>12. Building(bs2, at, W \ {b}, f)
  BY <1>8, <1>9, <1>10, <1>11 DEF Building
<1>q. QED
  BY <1>1, <1>2, <1>3, <1>12 DEF ButFor

\* The builder goes on with a block that is to be filled.
LEMMA Resumed ==
  ASSUME NEW bs, NEW at, NEW W, NEW f, Building(bs, at, W, f), Terminated(bs, at), NEW b \in W
  PROVE  Building(bs, b, W \ {b}, f) /\ ~Terminated(bs, b)
<1>1. b \in 1 .. Len(bs) /\ bs[b].fun = f /\ bs[b].code = <<>>
  BY DEF Building
<1>2. ~Terminated(bs, b)
  BY <1>1 DEF Terminated
<1>3. Complete(bs, (W \ {b}) \cup {b})
  <2>1. ASSUME NEW n \in 1 .. Len(bs), bs[n].fun # "removed", ~Terminated(bs, n)
        PROVE  n \in (W \ {b}) \cup {b}
    <3>1. n \in W \cup {at} /\ n # at
      BY <2>1 DEF Building, Complete
    <3>q. QED
      BY <3>1
  <2>q. QED
    BY <2>1 DEF Complete
<1>q. QED
  BY <1>1, <1>2, <1>3 DEF Building

-----------------------------------------------------------------------------
(* What the builder does to a context: the blocks, the insert point and the  *)
(* value made last, that came from the blocks bs.                            *)

IsContext(c) == c = [bs |-> c.bs, at |-> c.at, v |-> c.v]

\* Open for more instructions, and closed by a terminator.
Ready(c, W, f, bs) ==
  IsContext(c) /\ Building(c.bs, c.at, W, f) /\ ~Terminated(c.bs, c.at) /\ Kept(bs, c.bs, {})

Closed(c, W, f, bs, X) ==
  IsContext(c) /\ Building(c.bs, c.at, W, f) /\ Terminated(c.bs, c.at) /\ Kept(bs, c.bs, X)

Instruction(op, t, args) == [op |-> op, ty |-> t, args |-> args]

LEMMA GenIs ==
  ASSUME NEW c, NEW op, NEW t, NEW args
  PROVE  LET x == Gen(c, op, t, args)
         IN /\ IsContext(x) /\ x.at = c.at /\ x.v.ty = t
            /\ x.bs = AddCode(c.bs, c.at, Instruction(op, t, args))
<1> DEFINE i == Instruction(op, t, args)
           x == Emit(c, i)
<1>1. Gen(c, op, t, args) = x
  BY DEF Gen, Instruction
<1>2. i.ty = t
  BY DEF Instruction
<1> HIDE DEF i
<1>3. IsContext(x) /\ x.at = c.at /\ x.v = Value(i.ty, <<"inst", c.at, Len(c.bs[c.at].code) + 1>>)
  BY DEF Emit, IsContext
<1>4. x.bs = AddCode(c.bs, c.at, i)
  BY DEF Emit, AddCode
<1>5. x.v.ty = t
  BY <1>2, <1>3 DEF Value
<1>q. QED
  BY <1>1, <1>3, <1>4, <1>5 DEF i

LEMMA GenReady ==
  ASSUME NEW c, NEW W, NEW f, NEW bs, Ready(c, W, f, bs), NEW op, op \notin Terminators, NEW t, NEW args
  PROVE  LET x == Gen(c, op, t, args)
         IN Ready(x, W, f, bs) /\ x.at = c.at /\ x.v.ty = t /\ Len(x.bs) = Len(c.bs)
<1> DEFINE x == Gen(c, op, t, args)
           i == Instruction(op, t, args)
           bs1 == c.bs
           at == c.at
           bs2 == x.bs
<1>1. IsContext(x) /\ x.at = at /\ x.v.ty = t /\ bs2 = AddCode(bs1, at, i)
  BY GenIs
<1>2. i.op \notin Terminators
  BY DEF Instruction
<1>3. Building(bs1, at, W, f) /\ ~Terminated(bs1, at) /\ Kept(bs, bs1, {})
  BY DEF Ready
<1>4. bs2 = AddCode(bs1, at, i)
  BY <1>1
<1>9. x.bs = bs2
  OBVIOUS
<1> HIDE DEF i, bs1, at, bs2
<1>5. /\ Building(bs2, at, W, f) /\ Kept(bs1, bs2, {}) /\ Len(bs2) = Len(bs1)
      /\ ~Terminated(bs2, at)
  BY <1>2, <1>3, <1>4, Generated
<1>6. Kept(bs, bs2, {})
  <2>1. Kept(bs, bs2, {} \cup {})
    BY <1>3, <1>5, KeptTwice
  <2>q. QED
    BY <2>1
<1> HIDE DEF x
<1>7. Ready(x, W, f, bs)
  BY <1>1, <1>5, <1>6, <1>9 DEF Ready
<1>q. QED
  BY <1>1, <1>5, <1>7, <1>9 DEF at, x, bs1

LEMMA GenRet ==
  ASSUME NEW c, NEW W, NEW f, NEW bs, Ready(c, W, f, bs), NEW args, \A n \in DOMAIN args : args[n].ty # Label
  PROVE  LET x == Gen(c, "ret", Void, args)
         IN Closed(x, W, f, bs, {}) /\ x.at = c.at /\ Len(x.bs) = Len(c.bs)
<1> DEFINE x == Gen(c, "ret", Void, args)
           i == Instruction("ret", Void, args)
           bs1 == c.bs
           at == c.at
           bs2 == x.bs
<1>1. IsContext(x) /\ x.at = at /\ bs2 = AddCode(bs1, at, i)
  BY GenIs
<1>2. i.op \in Terminators /\ Targets(i) = {}
  BY DEF Terminators, Targets, Instruction
<1>3. Building(bs1, at, W, f) /\ ~Terminated(bs1, at) /\ Kept(bs, bs1, {})
  BY DEF Ready
<1>4. bs2 = AddCode(bs1, at, i)
  BY <1>1
<1>9. x.bs = bs2
  OBVIOUS
<1> HIDE DEF i, bs1, at, bs2
<1>5. /\ Building(bs2, at, W, f) /\ Kept(bs1, bs2, {}) /\ Len(bs2) = Len(bs1)
      /\ Terminated(bs2, at)
  BY <1>2, <1>3, <1>4, Generated
<1>6. Kept(bs, bs2, {})
  <2>1. Kept(bs, bs2, {} \cup {})
    BY <1>3, <1>5, KeptTwice
  <2>q. QED
    BY <2>1
<1> HIDE DEF x
<1>7. Closed(x, W, f, bs, {})
  BY <1>1, <1>5, <1>6, <1>9 DEF Closed
<1>q. QED
  BY <1>1, <1>5, <1>7, <1>9 DEF at, x, bs1

LEMMA BrIs ==
  ASSUME NEW c, IsContext(c), NEW b, c.bs[c.at].succ = <<>>, c.at \in DOMAIN c.bs, b \in DOMAIN c.bs,
         "succ" \in DOMAIN c.bs[c.at]
  PROVE  LET x == Br(c, b)
             i == Instruction("br", Void, <<BlockRef(b)>>)
         IN /\ IsContext(x) /\ x.at = c.at
            /\ x.bs = Joined(c.bs, b, c.at, i)
            /\ OneWay(i, b)
<1> DEFINE y == Link(c, b)
           bs == c.bs
           at == c.at
           i == Instruction("br", Void, <<BlockRef(b)>>)
           x == Gen(y, "br", Void, <<BlockRef(b)>>)
<1>1. y = [c EXCEPT !.bs = [[bs EXCEPT ![b].pre = Append(@, at)] EXCEPT ![at].succ = Append(@, b)]]
  BY DEF Link, IsContext
<1>2. y.at = at /\ y.bs = [AddPre(bs, b, at) EXCEPT ![at].succ = Append(@, b)]
  BY <1>1 DEF IsContext, AddPre
<1>3. AddPre(bs, b, at)[at].succ = <<>>
  BY DEF AddPre
<1>4. y.bs = SetSucc(AddPre(bs, b, at), at, Append(<<>>, b))
  BY <1>2, <1>3 DEF SetSucc
<1> HIDE DEF y
<1>5. IsContext(x) /\ x.at = at /\ x.bs = AddCode(y.bs, at, i)
  BY <1>2, GenIs
<1>6. Targets(i) = {b}
  <2> DEFINE args == <<BlockRef(b)>>
  <2>1. DOMAIN args = {1} /\ args[1].ty = Label /\ args[1].ref[2] = b
    BY DEF BlockRef, Value
  <2>2. i.args = args
    BY DEF Instruction
  <2> HIDE DEF i, args
  <2>q. QED
    BY <2>1, <2>2 DEF Targets
<1>7. Br(c, b) = x
  BY DEF Br, y
<1>8. x.bs = Joined(bs, b, at, i)
  BY <1>4, <1>5 DEF Joined
<1>9. OneWay(i, b)
  BY <1>6 DEF OneWay
<1>q. QED
  BY <1>5, <1>7, <1>8, <1>9

LEMMA BlockParts ==
  ASSUME NEW bs, IsBlocks(bs), NEW b \in 1 .. Len(bs)
  PROVE  b \in DOMAIN bs /\ {"fun", "code", "pre", "succ"} = DOMAIN bs[b]
<1>1. b \in DOMAIN bs /\ IsBlock(bs[b])
  BY DEF IsBlocks, IsSeq
<1> DEFINE r == bs[b]
<1>2. r = [fun |-> r.fun, code |-> r.code, pre |-> r.pre, succ |-> r.succ]
  BY <1>1 DEF IsBlock
<1> HIDE DEF r
<1>3. DOMAIN r = {"fun", "code", "pre", "succ"}
  BY <1>2
<1>q. QED
  BY <1>1, <1>3 DEF r

LEMMA BrClosed ==
  ASSUME NEW c, NEW W, NEW f, NEW bs, Ready(c, W, f, bs), NEW b \in 1 .. Len(c.bs), c.bs[b].fun = f
  PROVE  LET x == Br(c, b)
         IN Closed(x, W, f, bs, {b}) /\ x.at = c.at /\ Len(x.bs) = Len(c.bs)
<1> DEFINE x == Br(c, b)
           bs1 == c.bs
           at == c.at
           i == Instruction("br", Void, <<BlockRef(b)>>)
           bs2 == x.bs
<1>1. Building(bs1, at, W, f) /\ ~Terminated(bs1, at) /\ Kept(bs, bs1, {}) /\ IsContext(c)
  BY DEF Ready
<1>2. Graph(bs1) /\ IsBlocks(bs1) /\ at \in 1 .. Len(bs1)
  BY <1>1 DEF Building, Graph
<1>3. bs1[at].succ = <<>> /\ at \in DOMAIN bs1 /\ b \in DOMAIN bs1 /\ "succ" \in DOMAIN bs1[at]
  BY <1>1, <1>2, AtTheEnd, BlockParts
<1>4. /\ IsContext(x) /\ x.at = at
      /\ bs2 = Joined(bs1, b, at, i)
      /\ OneWay(i, b)
  BY <1>1, <1>3, BrIs
<1>5. i.op = "br"
  BY DEF Instruction
<1>6. b \in 1 .. Len(bs1) /\ bs1[b].fun = f
  OBVIOUS
<1>7. x.bs = bs2
  OBVIOUS
<1>14. bs2 = Joined(bs1, b, at, i)
  BY <1>4
<1>15. OneWay(i, b)
  BY <1>4
<1> HIDE DEF bs1, at, i, bs2
<1>8. /\ Building(bs2, at, W, f) /\ Kept(bs1, bs2, {b}) /\ Len(bs2) = Len(bs1)
      /\ Terminated(bs2, at)
  <2>1. Building(bs1, at, W, f)
    BY <1>1
  <2>2. ~Terminated(bs1, at)
    BY <1>1
  <2>3. b \in 1 .. Len(bs1)
    BY <1>6
  <2>4. bs1[b].fun = f
    BY <1>6
  <2>q. QED
    BY ONLY <2>1, <2>2, <2>3, <2>4, <1>5, <1>14, <1>15, GoneTo, SMTT(60)
<1>9. Kept(bs, bs2, {b})
  <2>1. Kept(bs, bs2, {} \cup {b})
    BY <1>1, <1>8, KeptTwice
  <2>2. {} \cup {b} = {b}
    OBVIOUS
  <2>q. QED
    BY <2>1, <2>2
<1> HIDE DEF x
<1>10. Closed(x, W, f, bs, {b})
  BY <1>4, <1>7, <1>8, <1>9 DEF Closed
<1>q. QED
  BY <1>4, <1>7, <1>8, <1>10 DEF at, x, bs1

LEMMA CondBrIs ==
  ASSUME NEW c, IsContext(c), NEW cond, cond.ty # Label, NEW b, NEW d, b # d,
         c.bs[c.at].succ = <<>>, c.at \in DOMAIN c.bs, b \in DOMAIN c.bs, d \in DOMAIN c.bs,
         "succ" \in DOMAIN c.bs[c.at]
  PROVE  LET x == CondBr(c, cond, b, d)
             i == Instruction("br", Void, <<cond, BlockRef(b), BlockRef(d)>>)
         IN /\ IsContext(x) /\ x.at = c.at
            /\ x.bs = Forked(c.bs, b, d, c.at, i)
            /\ TwoWays(i, b, d)
<1> DEFINE y == [c EXCEPT !.bs[b].pre = Append(@, c.at), !.bs[d].pre = Append(@, c.at),
                          !.bs[c.at].succ = @ \o <<d, b>>]
           bs == c.bs
           at == c.at
           i == Instruction("br", Void, <<cond, BlockRef(b), BlockRef(d)>>)
           x == Gen(y, "br", Void, <<cond, BlockRef(b), BlockRef(d)>>)
           pre == AddPre(AddPre(bs, b, at), d, at)
<1>1. y = [c EXCEPT !.bs = [[[bs EXCEPT ![b].pre = Append(@, at)] EXCEPT ![d].pre = Append(@, at)]
                              EXCEPT ![at].succ = @ \o <<d, b>>]]
  BY DEF IsContext
<1>2. y.at = at /\ y.bs = [pre EXCEPT ![at].succ = @ \o <<d, b>>]
  BY <1>1 DEF IsContext, AddPre
<1>3. pre[at].succ = <<>>
  BY DEF AddPre
<1>4. y.bs = SetSucc(pre, at, <<d, b>>)
  <2>1. IsSeq(<<d, b>>)
    <3> DEFINE v == <<d, b>>
    <3>1. v = [k \in 1 .. 2 |-> v[k]]
      OBVIOUS
    <3> HIDE DEF v
    <3>2. IsSeq(v)
      BY <3>1, FunctionSeq
    <3>q. QED
      BY <3>2 DEF v
  <2>2. <<>> \o <<d, b>> = <<d, b>>
    BY <2>1, EmptyConcat
  <2> HIDE DEF pre, y
  <2>q. QED
    BY <1>2, <1>3, <2>2 DEF SetSucc
<1> HIDE DEF y
<1>5. IsContext(x) /\ x.at = at /\ x.bs = AddCode(y.bs, at, i)
  BY <1>2, GenIs
<1>6. Targets(i) = {b, d}
  <2> DEFINE args == <<cond, BlockRef(b), BlockRef(d)>>
  <2>1. /\ DOMAIN args = {1, 2, 3} /\ args[1].ty # Label /\ args[2].ty = Label /\ args[2].ref[2] = b
        /\ args[3].ty = Label /\ args[3].ref[2] = d
    BY DEF BlockRef, Value
  <2>2. i.args = args
    BY DEF Instruction
  <2> HIDE DEF i, args
  <2>3. {m \in DOMAIN args : args[m].ty = Label} = {2, 3}
    BY <2>1
  <2>q. QED
    BY <2>1, <2>2, <2>3 DEF Targets
<1>7. CondBr(c, cond, b, d) = x
  BY DEF CondBr, y
<1>8. x.bs = Forked(bs, b, d, at, i)
  BY <1>4, <1>5 DEF Forked
<1>9. TwoWays(i, b, d)
  BY <1>6 DEF TwoWays
<1>q. QED
  BY <1>5, <1>7, <1>8, <1>9

Both(b, d) == {b, d}

LEMMA CondBrClosed ==
  ASSUME NEW c, NEW W, NEW f, NEW bs, Ready(c, W, f, bs), NEW cond, cond.ty # Label,
         NEW b \in 1 .. Len(c.bs), c.bs[b].fun = f, NEW d \in 1 .. Len(c.bs), c.bs[d].fun = f, b # d
  PROVE  LET x == CondBr(c, cond, b, d)
         IN Closed(x, W, f, bs, Both(b, d)) /\ x.at = c.at /\ Len(x.bs) = Len(c.bs)
<1> DEFINE x == CondBr(c, cond, b, d)
           bs1 == c.bs
           at == c.at
           i == Instruction("br", Void, <<cond, BlockRef(b), BlockRef(d)>>)
           bs2 == x.bs
           T == {b, d}
<1>1. Building(bs1, at, W, f) /\ ~Terminated(bs1, at) /\ Kept(bs, bs1, {}) /\ IsContext(c)
  BY DEF Ready
<1>2. Graph(bs1) /\ IsBlocks(bs1) /\ at \in 1 .. Len(bs1)
  BY <1>1 DEF Building, Graph
<1>3. bs1[at].succ = <<>> /\ at \in DOMAIN bs1 /\ b \in DOMAIN bs1 /\ d \in DOMAIN bs1 /\ "succ" \in DOMAIN bs1[at]
  BY <1>1, <1>2, AtTheEnd, BlockParts
<1>4. /\ IsContext(x) /\ x.at = at
      /\ bs2 = Forked(bs1, b, d, at, i)
      /\ TwoWays(i, b, d)
  BY <1>1, <1>3, CondBrIs
<1>5. i.op = "br"
  BY DEF Instruction
<1>6. b \in 1 .. Len(bs1) /\ bs1[b].fun = f /\ d \in 1 .. Len(bs1) /\ bs1[d].fun = f
  OBVIOUS
<1>7. x.bs = bs2
  OBVIOUS
<1>14. bs2 = Forked(bs1, b, d, at, i)
  BY <1>4
<1>15. TwoWays(i, b, d)
  BY <1>4
<1> HIDE DEF bs1, at, i, bs2
<1>8. /\ Building(bs2, at, W, f) /\ Kept(bs1, bs2, T) /\ Len(bs2) = Len(bs1)
      /\ Terminated(bs2, at)
  <2>1. Building(bs1, at, W, f)
    BY <1>1
  <2>2. ~Terminated(bs1, at)
    BY <1>1
  <2>3. b \in 1 .. Len(bs1)
    BY <1>6
  <2>4. bs1[b].fun = f
    BY <1>6
  <2>5. d \in 1 .. Len(bs1)
    BY <1>6
  <2>6. bs1[d].fun = f
    BY <1>6
  <2>7. b # d
    OBVIOUS
  <2>8. /\ Building(bs2, at, W, f) /\ Kept(bs1, bs2, {b, d}) /\ Len(bs2) = Len(bs1)
        /\ Terminated(bs2, at)
    BY ONLY <2>1, <2>2, <2>3, <2>4, <2>5, <2>6, <2>7, <1>5, <1>14, <1>15, ForkedTo
  <2>q. QED
    BY <2>8
<1> HIDE DEF T
<1>9. Kept(bs, bs2, T)
  <2>1. Kept(bs, bs2, {} \cup T)
    BY <1>1, <1>8, KeptTwice
  <2>2. {} \cup T = T
    OBVIOUS
  <2>q. QED
    BY <2>1, <2>2
<1> HIDE DEF x
<1>10. Closed(x, W, f, bs, T)
  BY <1>4, <1>7, <1>8, <1>9 DEF Closed
<1>q. QED
  BY <1>4, <1>7, <1>8, <1>10 DEF at, x, bs1, T, Both

LEMMA CreatedReady ==
  ASSUME NEW c, NEW W, NEW bs, Ready(c, W, cur_fun.ref[2], bs)
  PROVE  LET x == Created(c)
             n == Len(c.bs) + 1
         IN /\ Ready(x, W \cup {n}, cur_fun.ref[2], bs) /\ x.at = c.at /\ Len(x.bs) = n /\ Len(c.bs) \in Nat
            /\ x.bs[n].pre = <<>> /\ x.bs[n].fun = cur_fun.ref[2] /\ x.v = c.v /\ n \notin W
<1> DEFINE f == cur_fun.ref[2]
           x == Created(c)
           n == Len(c.bs) + 1
           bs1 == c.bs
           at == c.at
           bs2 == x.bs
<1>1. Building(bs1, at, W, f) /\ ~Terminated(bs1, at) /\ Kept(bs, bs1, {}) /\ IsContext(c)
  BY DEF Ready
<1>2. x.at = at /\ x.v = c.v /\ IsContext(x) /\ bs2 = Grown(bs1, f)
  BY <1>1 DEF Created, IsContext, Grown
<1>3. x.bs = bs2 /\ n = Len(bs1) + 1
  OBVIOUS
<1>8. c.at = at
  OBVIOUS
<1>4. bs2 = Grown(bs1, f)
  BY <1>2
<1> HIDE DEF f, bs1, at, bs2
<1>5. /\ Building(bs2, at, W \cup {Len(bs1) + 1}, f) /\ Kept(bs1, bs2, {}) /\ Len(bs2) = Len(bs1) + 1 /\ Len(bs1) \in Nat
      /\ bs2[Len(bs1) + 1].pre = <<>> /\ bs2[Len(bs1) + 1].fun = f /\ Len(bs1) + 1 \notin W
      /\ Terminated(bs2, at) <=> Terminated(bs1, at)
  <2>1. Building(bs1, at, W, f)
    BY <1>1
  <2>q. QED
    BY ONLY <2>1, <1>4, Added
<1>6. Kept(bs, bs2, {})
  <2>1. Kept(bs, bs2, {} \cup {})
    BY <1>1, <1>5, KeptTwice
  <2>q. QED
    BY <2>1
<1> HIDE DEF x
<1>7. Ready(x, W \cup {Len(bs1) + 1}, f, bs)
  BY <1>1, <1>2, <1>3, <1>5, <1>6 DEF Ready
<1>q. QED
  BY <1>2, <1>3, <1>5, <1>7, <1>8 DEF f, x, bs1

LEMMA AtReady ==
  ASSUME NEW c, NEW W, NEW f, NEW bs, NEW X, Closed(c, W, f, bs, X), NEW b \in W,
         \A n \in 1 .. Len(bs) : n \notin X
  PROVE  LET x == At(c, b)
         IN Ready(x, W \ {b}, f, bs) /\ x.at = b /\ x.bs = c.bs
<1> DEFINE x == At(c, b)
<1>1. IsContext(c) /\ Building(c.bs, c.at, W, f) /\ Terminated(c.bs, c.at) /\ Kept(bs, c.bs, X)
  BY DEF Closed
<1>2. IsContext(x) /\ x.at = b /\ x.bs = c.bs
  BY <1>1 DEF At, IsContext
<1> HIDE DEF x
<1>3. Building(x.bs, x.at, W \ {b}, f) /\ ~Terminated(x.bs, x.at)
  BY <1>1, <1>2, Resumed
<1>4. Kept(bs, x.bs, {})
  BY <1>1, <1>2 DEF Kept
<1>5. Ready(x, W \ {b}, f, bs)
  BY <1>2, <1>3, <1>4 DEF Ready
<1>q. QED
  BY <1>2, <1>5 DEF x

LEMMA ValueReady ==
  ASSUME NEW c, NEW W, NEW f, NEW bs, Ready(c, W, f, bs), NEW v
  PROVE  LET x == [c EXCEPT !.v = v]
         IN Ready(x, W, f, bs) /\ x.at = c.at /\ x.v = v /\ x.bs = c.bs
<1> DEFINE x == [c EXCEPT !.v = v]
<1>1. IsContext(c)
  BY DEF Ready
<1>2. IsContext(x) /\ x.at = c.at /\ x.v = v /\ x.bs = c.bs
  BY <1>1 DEF IsContext
<1> HIDE DEF x
<1>3. Ready(x, W, f, bs)
  BY <1>2 DEF Ready
<1>q. QED
  BY <1>2, <1>3 DEF x

LEMMA ConvertReady ==
  ASSUME NEW c, NEW W, NEW f, NEW bs, Ready(c, W, f, bs), NEW v, NEW t
  PROVE  LET x == Convert(c, v, t)
         IN Ready(x, W, f, bs) /\ x.at = c.at /\ x.v.ty \in {I32, Float} /\ Len(x.bs) = Len(c.bs)
<1>1. "fptosi" \notin Terminators /\ "sitofp" \notin Terminators
  BY DEF Terminators
<1>2. CASE t = I32
  <2>1. Convert(c, v, t) = Gen(c, "fptosi", I32, <<v>>)
    BY <1>2 DEF Convert
  <2>q. QED
    BY <1>1, <2>1, GenReady
<1>3. CASE t # I32
  <2>1. Convert(c, v, t) = Gen(c, "sitofp", Float, <<v>>)
    BY <1>3 DEF Convert
  <2>q. QED
    BY <1>1, <2>1, GenReady
<1>q. QED
  BY <1>2, <1>3

LEMMA NonZeroReady ==
  ASSUME NEW c, NEW W, NEW f, NEW bs, Ready(c, W, f, bs), NEW v
  PROVE  LET x == NonZero(c, v)
         IN Ready(x, W, f, bs) /\ x.at = c.at /\ x.v.ty = Bit /\ Len(x.bs) = Len(c.bs)
<1>1. "icmp_ne0" \notin Terminators /\ "fcmp_ne0" \notin Terminators
  BY DEF Terminators
<1>2. CASE IsIntegerType(v.ty)
  <2>1. NonZero(c, v) = Gen(c, "icmp_ne0", Bit, <<v>>)
    BY <1>2 DEF NonZero
  <2>q. QED
    BY <1>1, <2>1, GenReady
<1>3. CASE ~IsIntegerType(v.ty)
  <2>1. NonZero(c, v) = Gen(c, "fcmp_ne0", Bit, <<v>>)
    BY <1>3 DEF NonZero
  <2>q. QED
    BY <1>1, <2>1, GenReady
<1>q. QED
  BY <1>2, <1>3

LEMMA DifferentTypes == Bit # Label /\ I32 # Label /\ Float # Label /\ Void # Label
BY DEF Bit, Label, I32, Float, Void

LEMMA RetClosed ==
  ASSUME NEW c, NEW W, NEW f, NEW bs, Ready(c, W, f, bs), cur_fun.ret \in {I32, Float, Void}
  PROVE  LET x == DefaultRet(c)
         IN Closed(x, W, f, bs, {}) /\ x.at = c.at /\ Len(x.bs) = Len(c.bs)
<1>1. CASE cur_fun.ret = Void
  <2>1. DefaultRet(c) = Gen(c, "ret", Void, <<>>)
    BY <1>1 DEF DefaultRet
  <2> DEFINE e == <<>>
  <2>2. \A n \in DOMAIN e : e[n].ty # Label
    OBVIOUS
  <2>3. DefaultRet(c) = Gen(c, "ret", Void, e)
    BY <2>1
  <2> HIDE DEF e
  <2>q. QED
    BY <2>2, <2>3, GenRet
<1>2. CASE cur_fun.ret # Void
  <2> DEFINE e == <<Const(cur_fun.ret)>>
  <2>1. DefaultRet(c) = Gen(c, "ret", Void, e)
    BY <1>2 DEF DefaultRet
  <2>2. \A n \in DOMAIN e : e[n].ty # Label
    BY DifferentTypes DEF Const, Value
  <2> HIDE DEF e
  <2>q. QED
    BY <2>1, <2>2, GenRet
<1>q. QED
  BY <1>1, <1>2

-----------------------------------------------------------------------------
(* The actions that leave the plan as it is: what they do to the blocks.     *)

\* The builder may append instructions.
Free == Ready(Here, ToFill(todo), cur_fun.ref[2], blocks)

\* It has done so, and may go on or not.
Wrote == /\ Building(blocks', insert', ToFill(todo), cur_fun.ref[2])
         /\ Kept(blocks, blocks', {})
         /\ cur_fun' = cur_fun

WroteOpen == Wrote /\ ~Terminated(blocks', insert')

LEMMA KeptSame ==
  ASSUME NEW bs, NEW at, NEW W, NEW f, Building(bs, at, W, f)
  PROVE  Kept(bs, bs, {})
BY DEF Building, Graph, IsBlocks, IsSeq, Kept

LEMMA StartFree ==
  ASSUME Tasks(todo), BlockInv, NEW t, Doing(t), InFunction(todo), t \notin Guards \cup {"end-of-compound"}
  PROVE  /\ Free /\ Here.bs = blocks /\ Here.at = insert /\ Here.v = tmp_val
         /\ cur_fun.ret \in {I32, Float, Void}
<1>1. todo # <<>> /\ Task = todo[1] /\ Task.do = t
  BY FirstTask
<1>2. InBody(todo, blocks, insert, cur_fun)
  BY DEF BlockInv, Blocks
<1>3. Building(blocks, insert, ToFill(todo), cur_fun.ref[2]) /\ ~Terminated(blocks, insert)
  BY <1>1, <1>2 DEF InBody
<1>4. cur_fun.ret \in {I32, Float, Void}
  BY <1>2 DEF InBody
<1>5. IsContext(Here) /\ Here.bs = blocks /\ Here.at = insert /\ Here.v = tmp_val
  BY DEF Here, IsContext
<1>6. Free
  BY <1>3, <1>5, KeptSame DEF Free, Ready
<1>q. QED
  BY <1>4, <1>5, <1>6

LEMMA FreeIdle ==
  ASSUME Free, blocks' = blocks, insert' = insert, cur_fun' = cur_fun
  PROVE  WroteOpen
<1>1. Building(blocks, insert, ToFill(todo), cur_fun.ref[2]) /\ ~Terminated(blocks, insert) /\ Kept(blocks, blocks, {})
  BY DEF Free, Ready, Here
<1>q. QED
  BY <1>1 DEF WroteOpen, Wrote

LEMMA FreeWrote ==
  ASSUME NEW x, Ready(x, ToFill(todo), cur_fun.ref[2], blocks), blocks' = x.bs, insert' = x.at, cur_fun' = cur_fun
  PROVE  WroteOpen
BY DEF WroteOpen, Wrote, Ready

LEMMA ClosedWrote ==
  ASSUME NEW x, Closed(x, ToFill(todo), cur_fun.ref[2], blocks, {}), blocks' = x.bs, insert' = x.at, cur_fun' = cur_fun
  PROVE  Wrote
BY DEF Wrote, Closed

\* Lists of tasks that are neither at the end of a statement nor of a block.
LEMMA NoGuards ==
  \A t \in ExpressionKinds \cup {"parameters", "statement-list", "expression-stmt", "selection-stmt", "return-stmt",
                                 "return-value", "element", "assign-to", "store", "right-operand", "operate",
                                 "args", "arg", "if", "iteration-stmt", "while", "compound-stmt",
                                 "var-declaration"} :
    t \notin Guards \cup {"end-of-compound"}
BY DEF ExpressionKinds, Guards

\* Those that only look at the tree.
LEMMA IdleSteps ==
  ASSUME Tasks(todo), BlockInv, InFunction(todo),
         \/ NextStatement \/ ExpressionStmt \/ SelectionStmt \/ Num \/ IndexedVar
         \/ AssignExpression \/ AssignTo \/ Binary \/ RightOperand \/ CallExpression \/ NextArg
  PROVE  WroteOpen
<1>1. blocks' = blocks /\ insert' = insert /\ cur_fun' = cur_fun
  BY DEF NextStatement, ExpressionStmt, SelectionStmt, Num, IndexedVar, AssignExpression, AssignTo, Binary,
         RightOperand, CallExpression, NextArg
<1>2. \E t \in ExpressionKinds \cup {"statement-list", "expression-stmt", "selection-stmt", "assign-to",
                                     "right-operand", "args"} : Doing(t)
  BY DEF NextStatement, ExpressionStmt, SelectionStmt, Num, IndexedVar, AssignExpression, AssignTo, Binary,
         RightOperand, CallExpression, NextArg, ExpressionKinds
<1>3. PICK t : Doing(t) /\ t \notin Guards \cup {"end-of-compound"}
  BY <1>2, NoGuards
<1>4. Free
  BY <1>3, StartFree
<1>q. QED
  BY <1>1, <1>4, FreeIdle

LEMMA ParameterStep ==
  ASSUME Tasks(todo), BlockInv, InFunction(todo), Parameter
  PROVE  WroteOpen
<1>1. Doing("parameters") /\ cur_fun' = cur_fun
  BY DEF Parameter
<1>2. Free
  BY <1>1, NoGuards, StartFree
<1>3. CASE Task.done = Len(Task.node.params)
  <2>1. blocks' = blocks /\ insert' = insert
    BY <1>3 DEF Parameter
  <2>q. QED
    BY <1>1, <1>2, <2>1, FreeIdle
<1>4. CASE Task.done # Len(Task.node.params)
  <2> DEFINE n == Task.done + 1
             p == Task.node.params[n]
             c == Alloca(Here, ParamType(p), p.decl)
             a == <<Value(ParamType(p), <<"arg", n>>), c.v>>
             x == Gen(c, "store", Void, a)
             W == ToFill(todo)
             f == cur_fun.ref[2]
  <2>1. blocks' = x.bs /\ insert' = x.at
    BY <1>4 DEF Parameter, BuiltOnly
  <2>2. c = Gen(Here, "alloca", Ptr(ParamType(p)), <<Value(ParamType(p), <<"decl", p.decl>>)>>)
    BY DEF Alloca
  <2> HIDE DEF a
  <2>3. "alloca" \notin Terminators /\ "store" \notin Terminators
    BY DEF Terminators
  <2>4. Ready(Here, W, f, blocks)
    BY <1>2 DEF Free
  <2> HIDE DEF p, c, W, f
  <2>5. Ready(c, W, f, blocks)
    BY <2>2, <2>3, <2>4, GenReady
  <2>6. Ready(x, W, f, blocks)
    BY <2>3, <2>5, GenReady
  <2> HIDE DEF x
  <2>q. QED
    BY <1>1, <2>1, <2>6, FreeWrote DEF W, f
<1>q. QED
  BY <1>3, <1>4

LEMMA VarStep ==
  ASSUME Tasks(todo), BlockInv, InFunction(todo), Var
  PROVE  WroteOpen
<1>1. Doing("var") /\ cur_fun' = cur_fun
  BY DEF Var
<1>2. Free
  BY <1>1, NoGuards, StartFree DEF ExpressionKinds
<1> DEFINE v == Find(scope, Task.node.id)
           W == ToFill(todo)
           f == cur_fun.ref[2]
           t1 == Ptr(Tail(Tail(v.ty)))
           a1 == <<v, Const(I32)>>
           t2 == Tail(v.ty)
           a2 == <<v>>
           arr == Head(Tail(v.ty)) = "arr"
           x == IF require_lvalue THEN [Here EXCEPT !.v = v]
                ELSE IF arr THEN Gen(Here, "gep", t1, a1) ELSE Gen(Here, "load", t2, a2)
<1>3. blocks' = x.bs /\ insert' = x.at
  BY DEF Var, Built
<1>4. Ready(Here, W, f, blocks)
  BY <1>2 DEF Free
<1>5. "gep" \notin Terminators /\ "load" \notin Terminators
  BY DEF Terminators
<1> HIDE DEF v, W, f, t1, t2, a1, a2, arr
<1>6. Ready([Here EXCEPT !.v = v], W, f, blocks)
  BY <1>4, ValueReady
<1>7. Ready(Gen(Here, "gep", t1, a1), W, f, blocks)
  BY <1>4, <1>5, GenReady
<1>8. Ready(Gen(Here, "load", t2, a2), W, f, blocks)
  BY <1>4, <1>5, GenReady
<1>9. Ready(x, W, f, blocks)
  BY <1>6, <1>7, <1>8
<1> HIDE DEF x
<1>q. QED
  BY <1>1, <1>3, <1>9, FreeWrote DEF W, f

LEMMA AssignStoreStep ==
  ASSUME Tasks(todo), BlockInv, InFunction(todo), AssignStore
  PROVE  WroteOpen
<1>1. Doing("store") /\ cur_fun' = cur_fun
  BY DEF AssignStore
<1>2. Free
  BY <1>1, NoGuards, StartFree
<1> DEFINE addr == tmp_val
           same == Tail(addr.ty) = Task.result.ty
           t == IF Task.result.ty = I32 THEN Float ELSE I32
           c == IF same THEN [Here EXCEPT !.v = Task.result] ELSE Convert(Here, Task.result, t)
           a == <<c.v, addr>>
           x == Gen(c, "store", Void, a)
           y == [x EXCEPT !.v = c.v]
           W == ToFill(todo)
           f == cur_fun.ref[2]
<1>3. blocks' = y.bs /\ insert' = y.at
  BY DEF AssignStore, Built
<1>4. Ready(Here, W, f, blocks)
  BY <1>2 DEF Free
<1>5. "store" \notin Terminators
  BY DEF Terminators
<1> HIDE DEF same, t, a, W, f
<1>6. Ready(c, W, f, blocks)
  BY <1>4, ValueReady, ConvertReady
<1> HIDE DEF c
<1>7. Ready(x, W, f, blocks)
  BY <1>5, <1>6, GenReady
<1> HIDE DEF x
<1>8. Ready(y, W, f, blocks)
  BY <1>7, ValueReady
<1> HIDE DEF y
<1>q. QED
  BY <1>1, <1>3, <1>8, FreeWrote DEF W, f

LEMMA OperateStep ==
  ASSUME Tasks(todo), BlockInv, InFunction(todo), Operate
  PROVE  WroteOpen
<1>1. Doing("operate") /\ cur_fun' = cur_fun
  BY DEF Operate
<1>2. Free
  BY <1>1, NoGuards, StartFree
<1> DEFINE l == Task.l_val
           r == tmp_val
           is_int == l.ty = r.ty /\ IsIntegerType(l.ty)
           b1 == l.ty # r.ty /\ IsIntegerType(l.ty)
           b2 == l.ty # r.ty /\ ~IsIntegerType(l.ty)
           rel == Task.op \in Relops
           op == Task.op
           cl == IF b1 THEN Convert(Here, l, Float) ELSE [Here EXCEPT !.v = l]
           cr == IF b2 THEN Convert(cl, r, Float) ELSE [cl EXCEPT !.v = r]
           t == IF rel THEN Bit ELSE IF is_int THEN I32 ELSE Float
           a == <<cl.v, cr.v>>
           c == Gen(cr, op, t, a)
           x == IF rel THEN Gen(c, "zext", I32, <<c.v>>) ELSE c
           W == ToFill(todo)
           f == cur_fun.ref[2]
<1>3. blocks' = x.bs /\ insert' = x.at
  BY DEF Operate, Built
<1>4. Ready(Here, W, f, blocks)
  BY <1>2 DEF Free
<1>5. "zext" \notin Terminators /\ op \notin Terminators
  <2>1. Task.op \in Binops
    BY <1>1, FirstTask DEF IsTask
  <2>q. QED
    BY <2>1 DEF Terminators, Binops, Relops
<1> HIDE DEF l, r, b1, b2, rel, op, t, a, W, f
<1>6. Ready(cl, W, f, blocks)
  BY <1>4, ValueReady, ConvertReady
<1> HIDE DEF cl
<1>7. Ready(cr, W, f, blocks)
  BY <1>6, ValueReady, ConvertReady
<1> HIDE DEF cr
<1>8. Ready(c, W, f, blocks)
  BY <1>5, <1>7, GenReady
<1> HIDE DEF c
<1>9. Ready(x, W, f, blocks)
  BY <1>5, <1>8, GenReady
<1> HIDE DEF x
<1>q. QED
  BY <1>1, <1>3, <1>9, FreeWrote DEF W, f

LEMMA ArgStep ==
  ASSUME Tasks(todo), BlockInv, InFunction(todo), Arg
  PROVE  WroteOpen
<1>1. Doing("arg") /\ cur_fun' = cur_fun
  BY DEF Arg
<1>2. Free
  BY <1>1, NoGuards, StartFree
<1> DEFINE param == Task.fun.params[Len(Task.done) + 1]
           b == ~IsPointerType(tmp_val.ty) /\ param # tmp_val.ty
           t == IF IsIntegerType(tmp_val.ty) THEN Float ELSE I32
           c == IF b THEN Convert(Here, tmp_val, t) ELSE Here
           W == ToFill(todo)
           f == cur_fun.ref[2]
<1>3. blocks' = c.bs /\ insert' = c.at
  BY DEF Arg, Built
<1>4. Ready(Here, W, f, blocks)
  BY <1>2 DEF Free
<1> HIDE DEF b, t, W, f
<1>5. Ready(c, W, f, blocks)
  BY <1>4, ConvertReady
<1> HIDE DEF c
<1>q. QED
  BY <1>1, <1>3, <1>5, FreeWrote DEF W, f

LEMMA MakeCallStep ==
  ASSUME Tasks(todo), BlockInv, InFunction(todo), MakeCall
  PROVE  WroteOpen
<1>1. Doing("args") /\ cur_fun' = cur_fun
  BY DEF MakeCall
<1>2. Free
  BY <1>1, NoGuards, StartFree
<1> DEFINE t == Task.fun.ret
           a == <<Task.fun>> \o Task.done
           x == Gen(Here, "call", t, a)
           W == ToFill(todo)
           f == cur_fun.ref[2]
<1>3. blocks' = x.bs /\ insert' = x.at
  BY DEF MakeCall, Built
<1>4. Ready(Here, W, f, blocks) /\ "call" \notin Terminators
  BY <1>2 DEF Free, Terminators
<1> HIDE DEF t, a, W, f
<1>5. Ready(x, W, f, blocks)
  BY <1>4, GenReady
<1> HIDE DEF x
<1>q. QED
  BY <1>1, <1>3, <1>5, FreeWrote DEF W, f

LEMMA ReturnStmtStep ==
  ASSUME Tasks(todo), BlockInv, InFunction(todo), ReturnStmt
  PROVE  Wrote /\ (Task.node.e # None => WroteOpen)
<1>1. Doing("return-stmt") /\ cur_fun' = cur_fun
  BY DEF ReturnStmt
<1>2. Free
  BY <1>1, NoGuards, StartFree
<1>3. CASE Task.node.e = None
  <2> DEFINE a == <<>>
             x == Gen(Here, "ret", Void, a)
             W == ToFill(todo)
             f == cur_fun.ref[2]
  <2>1. blocks' = x.bs /\ insert' = x.at
    BY <1>3 DEF ReturnStmt, BuiltOnly
  <2>2. \A n \in DOMAIN a : a[n].ty # Label
    OBVIOUS
  <2>3. Ready(Here, W, f, blocks)
    BY <1>2 DEF Free
  <2> HIDE DEF a, W, f
  <2>4. Closed(x, W, f, blocks, {})
    BY <2>2, <2>3, GenRet
  <2> HIDE DEF x
  <2>q. QED
    BY <1>1, <1>3, <2>1, <2>4, ClosedWrote DEF W, f
<1>4. CASE Task.node.e # None
  <2>1. blocks' = blocks /\ insert' = insert
    BY <1>4 DEF ReturnStmt
  <2>2. WroteOpen
    BY <1>1, <1>2, <2>1, FreeIdle
  <2>q. QED
    BY <2>2 DEF WroteOpen
<1>q. QED
  BY <1>3, <1>4

LEMMA ReturnValueStep ==
  ASSUME Tasks(todo), BlockInv, InFunction(todo), ReturnValue
  PROVE  Wrote
<1>1. Doing("return-value") /\ cur_fun' = cur_fun
  BY DEF ReturnValue
<1>2. Free /\ cur_fun.ret \in {I32, Float, Void} /\ Here.v = tmp_val
  BY <1>1, NoGuards, StartFree
<1> DEFINE ret == cur_fun.ret
           same == tmp_val.ty = ret
           c == IF same THEN Here ELSE Convert(Here, tmp_val, ret)
           a == <<c.v>>
           x == Gen(c, "ret", Void, a)
           y == [x EXCEPT !.v = c.v]
           W == ToFill(todo)
           f == cur_fun.ref[2]
<1>3. blocks' = y.bs /\ insert' = y.at
  BY DEF ReturnValue, Built
<1>4. Ready(Here, W, f, blocks)
  BY <1>2 DEF Free
<1>5. same => Here.v.ty \in {I32, Float, Void}
  BY <1>2
<1> HIDE DEF same, W, f, ret
<1>6. Ready(c, W, f, blocks) /\ c.v.ty \in {I32, Float, Void}
  BY <1>4, <1>5, ConvertReady
<1> HIDE DEF c
<1>7. c.v.ty # Label
  BY <1>6, DifferentTypes
<1>8. \A n \in DOMAIN a : a[n].ty # Label
  BY <1>7
<1> HIDE DEF a
<1>9. Closed(x, W, f, blocks, {})
  BY <1>6, <1>8, GenRet
<1> HIDE DEF x
<1>10. y.bs = x.bs /\ y.at = x.at
  BY <1>9 DEF Closed, IsContext
<1> HIDE DEF y
<1>11. blocks' = x.bs /\ insert' = x.at
  BY <1>3, <1>10
<1>q. QED
  BY <1>1, <1>9, <1>11, ClosedWrote DEF W, f

\* A negative index: two blocks more, the first of which ends with a return.
LEMMA ElementStep ==
  ASSUME Tasks(todo), BlockInv, InFunction(todo), Element
  PROVE  WroteOpen
<1>1. Doing("element") /\ cur_fun' = cur_fun
  BY DEF Element
<1>2. Free /\ cur_fun.ret \in {I32, Float, Void} /\ Here.bs = blocks
  BY <1>1, NoGuards, StartFree
<1> DEFINE exceptBB == Len(blocks) + 1
           contBB == Len(blocks) + 2
           var == Task.var
           float == tmp_val.ty = Float
           c0 == Created(Here)
           c1 == Created(c0)
           c2 == IF float THEN Convert(c1, tmp_val, I32) ELSE c1
           val == c2.v
           a3 == <<val>>
           c3 == Gen(c2, "icmp_lt0", Bit, a3)
           b4 == CondBr(c3, c3.v, exceptBB, contBB)
           c4 == At(b4, exceptBB)
           a5 == <<Find(scope, "neg_idx_except")>>
           b5 == Gen(c4, "call", Void, a5)
           c5 == DefaultRet(b5)
           c6 == At(c5, contBB)
           kind == Head(Tail(var.ty))
           t7 == Tail(var.ty)
           a7 == <<var>>
           load == Gen(c6, "load", t7, a7)
           t8 == load.v.ty
           a8 == <<load.v, val>>
           t9 == Ptr(Tail(Tail(var.ty)))
           a9 == <<var, val>>
           t10 == var.ty
           ptr == CASE kind = "ptr" -> Gen(load, "gep", t8, a8)
                    [] kind = "arr" -> Gen(c6, "gep", t9, a9)
                    [] OTHER        -> Gen(c6, "gep", t10, a9)
           t11 == Tail(ptr.v.ty)
           a11 == <<ptr.v>>
           x == IF Task.lvalue THEN ptr ELSE Gen(ptr, "load", t11, a11)
           W == ToFill(todo)
           f == cur_fun.ref[2]
           W1 == W \cup {exceptBB}
           W2 == W1 \cup {contBB}
           k == Len(blocks)
<1>3. blocks' = x.bs /\ insert' = x.at
  BY DEF Element, Built
<1> HIDE DEF x, t11, a11, ptr, t10, a9, t9, a8, t8, load, a7, t7, kind, c6, c5, b5, a5, c4, b4, c3, a3, val, c2,
             float, var
<1>4. Ready(Here, W, f, blocks)
  BY <1>2 DEF Free
<1>5. /\ Ready(c0, W1, f, blocks) /\ Len(c0.bs) = k + 1 /\ k \in Nat /\ c0.bs[k + 1].fun = f /\ k + 1 \notin W
  BY <1>2, <1>4, CreatedReady
<1> HIDE DEF c0, W, W1, W2
<1>6. /\ Ready(c1, W1 \cup {Len(c0.bs) + 1}, f, blocks) /\ Len(c1.bs) = Len(c0.bs) + 1
      /\ c1.bs[Len(c0.bs) + 1].fun = f /\ Len(c0.bs) + 1 \notin W1
  BY <1>5, CreatedReady
<1>7. Len(c0.bs) + 1 = contBB
  BY <1>5
<1>8. Ready(c1, W2, f, blocks) /\ Len(c1.bs) = k + 2 /\ contBB \notin W1
  BY <1>5, <1>6, <1>7 DEF W2
<1> HIDE DEF c1, f
<1>9. Ready(c2, W2, f, blocks) /\ Len(c2.bs) = k + 2
  BY <1>8, ConvertReady DEF c2
<1>10. /\ "icmp_lt0" \notin Terminators /\ "call" \notin Terminators /\ "load" \notin Terminators
       /\ "gep" \notin Terminators
  BY DEF Terminators
<1>11. Ready(c3, W2, f, blocks) /\ Len(c3.bs) = k + 2 /\ c3.v.ty = Bit
  BY <1>9, <1>10, GenReady DEF c3
<1>12. exceptBB \in W2 /\ contBB \in W2 /\ exceptBB # contBB
  BY <1>5 DEF W1, W2
<1>13. Building(c3.bs, c3.at, W2, f)
  BY <1>11 DEF Ready
<1>14. /\ exceptBB \in 1 .. Len(c3.bs) /\ contBB \in 1 .. Len(c3.bs)
       /\ c3.bs[exceptBB].fun = f /\ c3.bs[contBB].fun = f
  BY <1>12, <1>13 DEF Building
<1> DEFINE X == Both(exceptBB, contBB)
<1>15. Closed(b4, W2, f, blocks, X)
  BY <1>11, <1>12, <1>14, DifferentTypes, CondBrClosed DEF b4
<1>16. \A n \in 1 .. Len(blocks) : n \notin X
  BY <1>5 DEF Both
<1> HIDE DEF X
<1>17. Ready(c4, W2 \ {exceptBB}, f, blocks)
  BY <1>12, <1>15, <1>16, AtReady DEF c4
<1>18. Ready(b5, W2 \ {exceptBB}, f, blocks)
  BY <1>10, <1>17, GenReady DEF b5
<1>19. Closed(c5, W2 \ {exceptBB}, f, blocks, {})
  BY <1>2, <1>18, RetClosed DEF c5
<1>20. contBB \in W2 \ {exceptBB}
  BY <1>12
<1>21. Ready(c6, (W2 \ {exceptBB}) \ {contBB}, f, blocks)
  BY <1>19, <1>20, AtReady DEF c6
<1>22. (W2 \ {exceptBB}) \ {contBB} = W
  BY <1>5, <1>8 DEF W1, W2
<1>23. Ready(c6, W, f, blocks)
  BY <1>21, <1>22
<1>24. Ready(load, W, f, blocks)
  BY <1>10, <1>23, GenReady DEF load
<1>25. Ready(ptr, W, f, blocks)
  <2>1. Ready(Gen(load, "gep", t8, a8), W, f, blocks)
    BY <1>10, <1>24, GenReady
  <2>2. Ready(Gen(c6, "gep", t9, a9), W, f, blocks)
    BY <1>10, <1>23, GenReady
  <2>3. Ready(Gen(c6, "gep", t10, a9), W, f, blocks)
    BY <1>10, <1>23, GenReady
  <2>4. CASE kind = "ptr"
    <3>1. ptr = Gen(load, "gep", t8, a8)
      BY <2>4 DEF ptr
    <3>q. QED
      BY <2>1, <3>1
  <2>5. CASE kind = "arr"
    <3>1. ptr = Gen(c6, "gep", t9, a9)
      BY <2>5 DEF ptr
    <3>q. QED
      BY <2>2, <3>1
  <2>6. CASE kind \notin {"ptr", "arr"}
    <3>1. ptr = Gen(c6, "gep", t10, a9)
      BY <2>6 DEF ptr
    <3>q. QED
      BY <2>3, <3>1
  <2>q. QED
    BY <2>4, <2>5, <2>6
<1>26. Ready(Gen(ptr, "load", t11, a11), W, f, blocks)
  BY <1>10, <1>25, GenReady
<1>27. Ready(x, W, f, blocks)
  BY <1>25, <1>26 DEF x
<1>q. QED
  BY <1>1, <1>3, <1>27, FreeWrote DEF W, f

\* The statement after which the others are not visited is one that has met a return.
LEMMA AfterStatementStep ==
  ASSUME Tasks(todo), BlockInv, InFunction(todo), AfterStatement
  PROVE  /\ Wrote
         /\ Terminated(blocks', insert') => todo'[1].do = "end-of-compound"
<1>1. blocks' = blocks /\ insert' = insert /\ cur_fun' = cur_fun
  BY DEF AfterStatement
<1>2. Building(blocks, insert, ToFill(todo), cur_fun.ref[2])
  BY DEF BlockInv, Blocks, InBody
<1>3. Wrote
  BY <1>1, <1>2, KeptSame DEF Wrote
<1>4. Terminated(blocks, insert) => todo'[1].do = "end-of-compound"
  BY PlainSteps
<1>q. QED
  BY <1>1, <1>3, <1>4

LEMMA PlainWrites ==
  ASSUME Tasks(todo), BlockInv, PlainNext
  PROVE  /\ Wrote
         /\ Terminated(blocks', insert') => todo'[1].do \in Guards \cup {"end-of-compound"}
<1>1. InFunction(todo)
  BY PlainSteps
<1>2. CASE \/ NextStatement \/ ExpressionStmt \/ SelectionStmt \/ Num \/ IndexedVar
           \/ AssignExpression \/ AssignTo \/ Binary \/ RightOperand \/ CallExpression \/ NextArg
  BY <1>1, <1>2, IdleSteps DEF WroteOpen
<1>3. CASE Parameter
  BY <1>1, <1>3, ParameterStep DEF WroteOpen
<1>4. CASE Var
  BY <1>1, <1>4, VarStep DEF WroteOpen
<1>5. CASE AssignStore
  BY <1>1, <1>5, AssignStoreStep DEF WroteOpen
<1>6. CASE Operate
  BY <1>1, <1>6, OperateStep DEF WroteOpen
<1>7. CASE Arg
  BY <1>1, <1>7, ArgStep DEF WroteOpen
<1>8. CASE MakeCall
  BY <1>1, <1>8, MakeCallStep DEF WroteOpen
<1>9. CASE Element
  BY <1>1, <1>9, ElementStep DEF WroteOpen
<1>10. CASE ReturnStmt
  <2>1. Wrote /\ (Task.node.e # None => WroteOpen)
    BY <1>1, <1>10, ReturnStmtStep
  <2>2. Task.node.e = None => todo'[1].do \in Guards
    BY <1>10, PlainSteps
  <2>q. QED
    BY <2>1, <2>2 DEF WroteOpen
<1>11. CASE ReturnValue
  <2>1. Wrote
    BY <1>1, <1>11, ReturnValueStep
  <2>2. todo'[1].do \in Guards
    BY <1>11, PlainSteps
  <2>q. QED
    BY <2>1, <2>2
<1>12. CASE AfterStatement
  BY <1>1, <1>12, AfterStatementStep
<1>q. QED
  BY <1>2, <1>3, <1>4, <1>5, <1>6, <1>7, <1>8, <1>9, <1>10, <1>11, <1>12 DEF PlainNext

\* What is left of a plan, where the blocks it names are as they were.
Shorter(q, p) ==
  /\ Disjoint(p)
  /\ ToFill(p) \subseteq ToFill(q) /\ Needless(p) \subseteq Needless(q) /\ LoopHeads(p) \subseteq LoopHeads(q)

LEMMA PlanLeft ==
  ASSUME NEW q, NEW bs, NEW f, Plan(q, bs, f), NEW p, Shorter(q, p),
         NEW bs2, Len(bs) \in Nat, Len(bs2) \in Nat, Len(bs) <= Len(bs2),
         \A b \in Needless(p) : bs2[b].pre = bs[b].pre,
         \A b \in LoopHeads(p) : bs2[b].fun = bs[b].fun
  PROVE  Plan(p, bs2, f)
<1>1. \A b \in Needless(p) : bs2[b].pre = <<>>
  BY DEF Plan, Shorter
<1>2. \A b \in 1 .. Len(bs) : b \in 1 .. Len(bs2)
  OBVIOUS
<1>3. \A b \in LoopHeads(p) : b \in (1 .. Len(bs2)) \ ToFill(p) /\ bs2[b].fun = f
  BY <1>2 DEF Plan, Shorter
<1>q. QED
  BY <1>1, <1>3 DEF Plan, Shorter

\* The plan gets blocks to fill and to go back to that are new.
Longer(r, p, F, S, H) ==
  /\ Disjoint(p) /\ ToFill(p) = F \cup ToFill(r) /\ Needless(p) = S \cup Needless(r)
  /\ LoopHeads(p) = H \cup LoopHeads(r)

LEMMA PlanGrown ==
  ASSUME NEW r, NEW bs, NEW f, Plan(r, bs, f), ToFill(r) \subseteq 1 .. Len(bs),
         NEW bs2, Kept(bs, bs2, {}), NEW F, F \cap (1 .. Len(bs)) = {}, NEW S, NEW H,
         NEW p, Longer(r, p, F, S, H),
         \A b \in S : bs2[b].pre = <<>>,
         \A b \in H : b \in (1 .. Len(bs2)) \ ToFill(p) /\ bs2[b].fun = f
  PROVE  Plan(p, bs2, f)
<1>1. \A b \in 1 .. Len(bs) : bs2[b].fun = bs[b].fun /\ bs2[b].pre = bs[b].pre /\ b \in 1 .. Len(bs2)
  BY DEF Kept
<1>2. Needless(r) \subseteq ToFill(r)
  BY DEF Needless, ToFill, Spares, Fills
<1>5. /\ Disjoint(p) /\ ToFill(p) = F \cup ToFill(r) /\ Needless(p) = S \cup Needless(r)
      /\ LoopHeads(p) = H \cup LoopHeads(r)
  BY DEF Longer
<1>3. \A b \in Needless(p) : bs2[b].pre = <<>>
  BY <1>1, <1>2, <1>5 DEF Plan
<1>4. \A b \in LoopHeads(p) : b \in (1 .. Len(bs2)) \ ToFill(p) /\ bs2[b].fun = f
  BY <1>1, <1>5 DEF Plan
<1>q. QED
  BY <1>3, <1>4, <1>5 DEF Plan

\* The builder has written to its block, and what is to be done has changed in nothing
\* that matters for the blocks.
LEMMA BodyKept ==
  ASSUME BlockInv, InFunction(todo), InFunction(todo'), SamePlan(todo, todo'), Wrote,
         Terminated(blocks', insert') => todo'[1].do \in Guards \cup {"end-of-compound"}
  PROVE  BlockInv'
<1> DEFINE f == cur_fun.ref[2]
<1>2. /\ Building(blocks, insert, ToFill(todo), f)
      /\ Plan(todo, blocks, f) /\ cur_fun.ret \in {I32, Float, Void}
  BY DEF BlockInv, Blocks, InBody
<1>3. Building(blocks', insert', ToFill(todo), f) /\ Kept(blocks, blocks', {}) /\ cur_fun' = cur_fun
  BY DEF Wrote
<1>4. /\ ToFill(todo') = ToFill(todo) /\ Needless(todo') = Needless(todo) /\ LoopHeads(todo') = LoopHeads(todo)
      /\ Disjoint(todo')
  BY <1>2 DEF SamePlan, Plan
<1>5. ToFill(todo) \subseteq 1 .. Len(blocks)
  BY <1>2 DEF Building
<1> HIDE DEF f
<1>6. Plan(todo', blocks', f)
  <2> DEFINE E == {}
  <2>1. /\ Longer(todo, todo', E, E, E)
        /\ E \cap (1 .. Len(blocks)) = {} /\ \A b : b \notin E
    BY <1>4 DEF Longer
  <2> HIDE DEF E
  <2>q. QED
    BY <1>2, <1>3, <1>4, <1>5, <2>1, PlanGrown
<1>7. Building(blocks', insert', ToFill(todo'), f)
  BY <1>3, <1>4
<1>8. InBody(todo', blocks', insert', cur_fun')
  BY <1>2, <1>3, <1>6, <1>7 DEF InBody, f
<1>9. Blocks(todo', blocks', insert', cur_fun')
  BY <1>8 DEF Blocks
<1>q. QED
  BY <1>9 DEF BlockInv

LEMMA PlainBuilds ==
  ASSUME Tasks(todo), BlockInv, PlainNext
  PROVE  BlockInv'
<1>1. InFunction(todo) /\ InFunction(todo') /\ SamePlan(todo, todo')
  BY PlainSteps DEF Moved
<1>q. QED
  BY <1>1, PlainWrites, BodyKept

-----------------------------------------------------------------------------
(* The other actions: what is left to do, and the blocks.                    *)

\* The builder is in a function while there is something to leave.
LEMMA EndsInFunction ==
  ASSUME NEW q, Tasks(q)
  PROVE  IsSeq(q) /\ (Ends(q) = 0 <=> ~InFunction(q))
<1>1. IsSeq(q) /\ \A n \in 1 .. Len(q) : q[n].do \notin DeclKinds => \E m \in n .. Len(q) : q[m].do = "end-of-function"
  BY DEF Tasks
<1>2. Len(q) \in Nat
  BY <1>1 DEF IsSeq
<1>3. ASSUME ~InFunction(q), NEW n \in 1 .. Len(q) PROVE q[n].do \notin EndKinds
  <2>1. \A m \in 1 .. Len(q) : q[m].do # "end-of-function"
    BY <1>1, <1>3, InFunctionEnds
  <2>2. \A m \in n .. Len(q) : m \in 1 .. Len(q)
    BY <1>2, <1>3
  <2>3. q[n].do \in DeclKinds
    BY <1>1, <1>3, <2>1, <2>2
  <2>q. QED
    BY <2>3 DEF DeclKinds, EndKinds
<1>q. QED
  BY <1>1, <1>3, InFunctionEnds

LEMMA VarDeclarationStep ==
  ASSUME Tasks(todo), ScopeInv, BlockInv, VarDeclaration
  PROVE  Tasks(todo') /\ Ends(todo') = Ends(todo) /\ BlockInv'
<1>1. Doing("var-declaration") /\ Then(<<>>) /\ cur_fun' = cur_fun
  BY DEF VarDeclaration
<1>2. todo # <<>> /\ todo[1].do = "var-declaration" /\ todo' = Tail(todo)
  BY <1>1, FirstTask
<1>3. /\ Tasks(todo') /\ Ends(todo') = Ends(todo) /\ SamePlan(todo, todo')
      /\ InFunction(todo) <=> InFunction(todo')
  BY <1>2, PopDeclaration
<1>4. Len(scope) = 1 + Ends(todo) /\ (Ends(todo) = 0 <=> ~InFunction(todo)) /\ Ends(todo) \in Nat
  <2>1. Ends(Tail(todo)) \in Nat
    BY <1>2, EndsInFunction, EndsFirst
  <2>q. QED
    BY <1>2, <1>3, <2>1, EndsInFunction DEF ScopeInv
<1>5. CASE InFunction(todo)
  <2>1. Len(scope) # 1
    BY <1>4, <1>5
  <2> DEFINE d == Task.node
             c == Alloca(Here, VarType(d), d.decl)
             W == ToFill(todo)
             f == cur_fun.ref[2]
  <2>2. blocks' = c.bs /\ insert' = c.at
    BY <2>1 DEF VarDeclaration, BuiltOnly
  <2>3. c = Gen(Here, "alloca", Ptr(VarType(d)), <<Value(VarType(d), <<"decl", d.decl>>)>>)
    BY DEF Alloca
  <2>4. "alloca" \notin Terminators
    BY DEF Terminators
  <2>5. Ready(Here, W, f, blocks)
    BY <1>1, <1>5, NoGuards, StartFree DEF Free
  <2> HIDE DEF d, c, W, f
  <2>6. Ready(c, W, f, blocks)
    BY <2>3, <2>4, <2>5, GenReady
  <2>7. WroteOpen
    BY <1>1, <2>2, <2>6, FreeWrote DEF W, f
  <2>q. QED
    BY <1>3, <1>5, <2>7, BodyKept DEF WroteOpen
<1>6. CASE ~InFunction(todo)
  <2>1. Len(scope) = 1
    BY <1>4, <1>6
  <2>2. blocks' = blocks
    BY <2>1 DEF VarDeclaration
  <2>3. Graph(blocks') /\ Complete(blocks', {})
    BY <1>6, <2>2 DEF BlockInv, Blocks
  <2>q. QED
    BY <1>3, <1>6, <2>3 DEF BlockInv, Blocks
<1>q. QED
  BY <1>3, <1>5, <1>6

LEMMA FunDeclarationStep ==
  ASSUME Tasks(todo), BlockInv, FunDeclaration
  PROVE  Tasks(todo') /\ Ends(todo) = 0 /\ Ends(todo') = 1 /\ BlockInv'
<1> DEFINE d   == Task.node
           ret == IF d.ret = "void" THEN Void ELSE IF d.ret = "int" THEN I32 ELSE Float
           b   == Len(blocks) + 1
           a1  == [do |-> "parameters", node |-> d, done |-> 0]
           a2  == Visit(d.body)
           a3  == [do |-> "end-of-function"]
           f   == d.id
<1>1. Doing("fun-declaration") /\ Then(<<a1, a2, a3>>)
  BY DEF FunDeclaration
<1>2. todo # <<>> /\ todo[1].do = "fun-declaration" /\ todo[1] = Task /\ IsTask(Task) /\ Task.do = "fun-declaration"
  BY <1>1, FirstTask
<1>3. d.body \in Statement /\ d.body.k = "compound-stmt"
  <2>1. d \in Nodes /\ d.k = "fun-declaration"
    BY <1>2 DEF IsTask, DeclKinds
  <2>q. QED
    BY <2>1, NodesAssumption DEF IsNode
<1>4. Plain(a2) /\ a2.do = "compound-stmt"
  BY <1>3, VisitPlain
<1>5. Plain(a1) /\ a1.do = "parameters"
  BY DEF Plain, IsTask, Inner, Light, StatementTasks, StatementKinds, ExpressionTasks, ExpressionKinds, OtherTasks, DeclKinds
<1>6. IsTask(a3) /\ a3.do = "end-of-function"
  BY DEF IsTask, StatementTasks, StatementKinds, ExpressionTasks, ExpressionKinds, OtherTasks, DeclKinds
<1>7. cur_fun'.ref[2] = f /\ cur_fun'.ret \in {I32, Float, Void}
  BY DEF FunDeclaration, Fun
<1>8. blocks' = Append(blocks, NewBlock(f)) /\ insert' = b
  BY DEF FunDeclaration, BuiltOnly
<1> HIDE DEF a1, a2, a3
<1>9. todo' = <<a1, a2, a3>> \o Tail(todo)
  BY <1>1 DEF Then
<1>10. /\ ~InFunction(todo) /\ Ends(todo) = 0
       /\ Tasks(todo') /\ InFunction(todo') /\ Ends(todo') = 1
       /\ ToFill(todo') = {} /\ Needless(todo') = {} /\ LoopHeads(todo') = {} /\ Disjoint(todo')
  BY <1>2, <1>4, <1>5, <1>6, <1>9, PushFunction
<1>11. Graph(blocks) /\ Complete(blocks, {})
  BY <1>10 DEF BlockInv, Blocks
<1> HIDE DEF f
<1>12. blocks' = Grown(blocks, f)
  BY <1>8 DEF Grown
<1>13. /\ Graph(blocks') /\ Len(blocks) \in Nat /\ Len(blocks') = b
       /\ \A n \in 1 .. Len(blocks) : blocks'[n] = blocks[n] /\ (Terminated(blocks', n) <=> Terminated(blocks, n))
       /\ ~Terminated(blocks', b) /\ blocks'[b].fun = f
  BY <1>11, <1>12, AddedBlock
<1>14. Complete(blocks', {} \cup {insert'})
  <2>1. ASSUME NEW n \in 1 .. Len(blocks'), blocks'[n].fun # "removed", ~Terminated(blocks', n), n # b
        PROVE  FALSE
    <3>1. n \in 1 .. Len(blocks)
      BY <1>13, <2>1
    <3>2. blocks[n].fun # "removed" /\ ~Terminated(blocks, n)
      BY <1>13, <2>1, <3>1
    <3>q. QED
      BY <1>11, <3>1, <3>2 DEF Complete
  <2>q. QED
    BY <1>8, <2>1 DEF Complete
<1>15. insert' \in 1 .. Len(blocks')
  BY <1>8, <1>13
<1>16. Building(blocks', insert', {}, f)
  BY <1>8, <1>13, <1>14, <1>15 DEF Building
<1>17. Plan(todo', blocks', f)
  BY <1>10 DEF Plan
<1>18. InBody(todo', blocks', insert', cur_fun')
  BY <1>7, <1>8, <1>10, <1>13, <1>16, <1>17 DEF InBody
<1>q. QED
  BY <1>10, <1>18 DEF BlockInv, Blocks

\* What the builder has before it in a function.
LEMMA InBodyParts ==
  ASSUME BlockInv, InFunction(todo)
  PROVE  /\ Building(blocks, insert, ToFill(todo), cur_fun.ref[2])
         /\ Plan(todo, blocks, cur_fun.ref[2])
         /\ cur_fun.ret \in {I32, Float, Void}
         /\ Kept(blocks, blocks, {})
         /\ IsContext(Here) /\ Here.bs = blocks /\ Here.at = insert
<1>1. /\ Building(blocks, insert, ToFill(todo), cur_fun.ref[2])
      /\ Plan(todo, blocks, cur_fun.ref[2])
      /\ cur_fun.ret \in {I32, Float, Void}
  BY DEF BlockInv, Blocks, InBody
<1>2. IsContext(Here) /\ Here.bs = blocks /\ Here.at = insert
  BY DEF Here, IsContext
<1>q. QED
  BY <1>1, <1>2, KeptSame

LEMMA EndFunctionStep ==
  ASSUME Tasks(todo), BlockInv, EndFunction
  PROVE  Tasks(todo') /\ Ends(todo) = 1 /\ Ends(todo') = 0 /\ BlockInv'
<1> DEFINE x == IF Terminated(blocks, insert) THEN Here ELSE DefaultRet(Here)
           f == cur_fun.ref[2]
           W == ToFill(todo)
<1>1. Doing("end-of-function") /\ Then(<<>>) /\ blocks' = x.bs
  BY DEF EndFunction, BuiltOnly
<1>2. todo # <<>> /\ todo[1].do = "end-of-function" /\ todo' = Tail(todo)
  BY <1>1, FirstTask
<1>3. Tasks(todo') /\ Ends(todo) = 1 /\ Ends(todo') = 0 /\ InFunction(todo) /\ ~InFunction(todo') /\ W = {}
  BY <1>2, PopFunction
<1>4. /\ Building(blocks, insert, W, f) /\ cur_fun.ret \in {I32, Float, Void} /\ Kept(blocks, blocks, {})
      /\ IsContext(Here) /\ Here.bs = blocks /\ Here.at = insert
  BY <1>3, InBodyParts
<1> HIDE DEF f, W
<1>5. Building(x.bs, x.at, W, f) /\ Terminated(x.bs, x.at)
  <2>1. CASE Terminated(blocks, insert)
    BY <1>4, <2>1
  <2>2. CASE ~Terminated(blocks, insert)
    <3>1. Ready(Here, W, f, blocks)
      BY <1>4, <2>2 DEF Ready
    <3>2. Closed(DefaultRet(Here), W, f, blocks, {})
      BY <1>4, <3>1, RetClosed
    <3>3. x = DefaultRet(Here)
      BY <2>2
    <3>q. QED
      BY <3>2, <3>3 DEF Closed
  <2>q. QED
    BY <2>1, <2>2
<1> HIDE DEF x
<1>6. Graph(blocks') /\ Complete(blocks', {})
  <2>1. Graph(x.bs) /\ Complete(x.bs, W \cup {x.at})
    BY <1>5 DEF Building
  <2>2. Complete(x.bs, {})
    BY <1>3, <1>5, <2>1 DEF Complete
  <2>q. QED
    BY <1>1, <2>1, <2>2
<1>q. QED
  BY <1>3, <1>6 DEF BlockInv, Blocks

LEMMA CompoundStmtStep ==
  ASSUME Tasks(todo), BlockInv, CompoundStmt
  PROVE  Tasks(todo') /\ Ends(todo') = Ends(todo) + 1 /\ BlockInv'
<1> DEFINE ds == Task.node.decls
           s  == [n \in DOMAIN ds |-> Visit(ds[n])]
           b  == [do |-> "statement-list", rest |-> Task.node.stmts]
           c  == [do |-> "end-of-compound"]
           v  == <<b, c>>
<1>1. Doing("compound-stmt") /\ Then(s \o v) /\ cur_fun' = cur_fun /\ insert' = insert /\ blocks' = blocks
  BY DEF CompoundStmt
<1>2. todo # <<>> /\ todo[1].do = "compound-stmt" /\ todo[1] = Task /\ IsTask(Task) /\ Task.do = "compound-stmt"
  BY <1>1, FirstTask
<1>3. ds \in Seq(Variable) /\ Task.node.stmts \in Seq(Statement)
  <2>1. Task.node \in Nodes /\ Task.node.k = "compound-stmt"
    BY <1>2 DEF IsTask, StatementKinds
  <2>q. QED
    BY <2>1, NodesAssumption DEF IsNode
<1>4. IsSeq(s) /\ \A n \in 1 .. Len(s) : IsTask(s[n]) /\ s[n].do = "var-declaration"
  <2>1. IsSeq(ds) /\ \A n \in 1 .. Len(ds) : ds[n] \in Variable
    BY <1>3, SeqIs
  <2>2. DOMAIN ds = 1 .. Len(ds) /\ Len(ds) \in Nat
    BY <2>1 DEF IsSeq
  <2>3. IsSeq(s) /\ Len(s) = Len(ds)
    <3>1. s = [n \in 1 .. Len(ds) |-> s[n]]
      BY <2>2
    <3> HIDE DEF s
    <3>q. QED
      BY <2>2, <3>1, FunctionSeq
  <2>4. ASSUME NEW n \in 1 .. Len(s) PROVE IsTask(s[n]) /\ s[n].do = "var-declaration"
    <3>1. n \in DOMAIN ds /\ ds[n] \in Variable
      BY <2>1, <2>2, <2>3
    <3>2. ds[n] \in Declaration /\ ds[n].k = "var-declaration"
      BY <3>1 DEF Variable, Declaration
    <3>3. s[n] = Visit(ds[n])
      BY <3>1
    <3>q. QED
      BY <3>2, <3>3, VisitDeclaration
  <2>q. QED
    BY <2>3, <2>4
<1>5. Plain(b) /\ b.do = "statement-list"
  BY <1>3, PlainTasks
<1>6. IsTask(c) /\ c.do = "end-of-compound"
  BY DEF IsTask, StatementTasks, StatementKinds, ExpressionTasks, ExpressionKinds, OtherTasks, DeclKinds
<1> HIDE DEF b, c, s
<1>7. todo' = Instead(s, v, todo)
  BY <1>1 DEF Then, Instead
<1>11. v = Pair(b, c)
  BY DEF Pair
<1> HIDE DEF v
<1>8. /\ Tasks(todo') /\ InFunction(todo) /\ InFunction(todo') /\ Ends(todo') = Ends(todo) + 1
      /\ SamePlan(todo, todo')
  <2>1. Tasks(todo) /\ todo # <<>> /\ todo[1].do = "compound-stmt"
    BY <1>2
  <2>2. IsSeq(s)
    BY <1>4
  <2>3. \A n \in 1 .. Len(s) : IsTask(s[n]) /\ s[n].do = "var-declaration"
    BY <1>4
  <2>q. QED
    BY ONLY <2>1, <2>2, <2>3, <1>5, <1>6, <1>7, <1>11, PushCompound
<1>9. Free
  BY <1>1, <1>8, NoGuards, StartFree
<1>10. WroteOpen
  BY <1>1, <1>9, FreeIdle
<1>q. QED
  BY <1>8, <1>10, BodyKept DEF WroteOpen

LEMMA EndCompoundStep ==
  ASSUME Tasks(todo), BlockInv, EndCompound
  PROVE  Tasks(todo') /\ Ends(todo) = Ends(todo') + 1 /\ Ends(todo') \in Nat /\ BlockInv'
<1>1. Doing("end-of-compound") /\ Then(<<>>) /\ cur_fun' = cur_fun /\ insert' = insert /\ blocks' = blocks
  BY DEF EndCompound
<1>2. todo # <<>> /\ todo[1].do = "end-of-compound" /\ todo' = Tail(todo)
  BY <1>1, FirstTask
<1>3. Inner(todo[1]) /\ Light(todo[1])
  BY <1>2 DEF Inner, Light, DeclKinds
<1>4. /\ Tasks(todo') /\ InFunction(todo) /\ InFunction(todo') /\ Ends(todo') \in Nat
      /\ MayFollow("end-of-compound", todo'[1].do) /\ Ends(todo) = Ends(todo') + 1 /\ SamePlan(todo, todo')
  BY <1>2, <1>3, PopTask
<1>5. todo'[1].do \in Guards
  BY <1>4 DEF MayFollow, StatementTasks
<1>6. Wrote
  BY <1>1, <1>4, InBodyParts DEF Wrote
<1>q. QED
  BY <1>4, <1>5, <1>6, BodyKept

\* The builder is in a block it has not closed, with a plan for what follows.
LEMMA OpenBody ==
  ASSUME InFunction(todo'), cur_fun' = cur_fun, cur_fun.ret \in {I32, Float, Void},
         Building(blocks', insert', ToFill(todo'), cur_fun.ref[2]), ~Terminated(blocks', insert'),
         Plan(todo', blocks', cur_fun.ref[2])
  PROVE  BlockInv'
<1>1. InBody(todo', blocks', insert', cur_fun')
  BY DEF InBody
<1>q. QED
  BY <1>1 DEF BlockInv, Blocks

\* A value is compared with zero, and the builder goes on where it is not.
KeptBut(bs, bs2, b, d) == Kept(bs, bs2, {b, d})
Branched(c, v, b, d) == At(CondBr(NonZero(c, v), NonZero(c, v).v, b, d), b)

LEMMA BranchedReady ==
  ASSUME NEW c, NEW W, NEW f, NEW bs, Ready(c, W, f, bs), NEW v, NEW b \in W, NEW d \in W, b # d,
         \A n \in 1 .. Len(bs) : n # b /\ n # d
  PROVE  LET x == Branched(c, v, b, d)
         IN Ready(x, W \ {b}, f, bs) /\ KeptBut(c.bs, x.bs, b, d)
<1> DEFINE c1 == NonZero(c, v)
           c2 == CondBr(c1, c1.v, b, d)
           x  == At(c2, b)
           X  == Both(b, d)
<1>1. Ready(c, W, f, c.bs)
  <2>1. Building(c.bs, c.at, W, f)
    BY DEF Ready
  <2>q. QED
    BY <2>1, KeptSame DEF Ready
<1>2. Ready(c1, W, f, bs) /\ c1.v.ty = Bit /\ Len(c1.bs) = Len(c.bs)
  BY NonZeroReady
<1>3. Ready(c1, W, f, c.bs)
  BY <1>1, NonZeroReady
<1> HIDE DEF c1
<1>4. Building(c1.bs, c1.at, W, f)
  BY <1>2 DEF Ready
<1>5. /\ b \in 1 .. Len(c1.bs) /\ d \in 1 .. Len(c1.bs)
      /\ c1.bs[b].fun = f /\ c1.bs[d].fun = f
  BY <1>4 DEF Building
<1>6. Closed(c2, W, f, bs, X)
  <2>1. Ready(c1, W, f, bs) /\ c1.v.ty # Label
    BY <1>2, DifferentTypes
  <2>2. b # d
    OBVIOUS
  <2>q. QED
    BY ONLY <1>5, <2>1, <2>2, CondBrClosed
<1>12. Len(c2.bs) = Len(c1.bs)
  BY <1>2, <1>5, DifferentTypes, CondBrClosed
<1>7. Closed(c2, W, f, c.bs, X)
  BY <1>2, <1>3, <1>5, DifferentTypes, CondBrClosed
<1> HIDE DEF c2
<1>8. \A n \in 1 .. Len(bs) : n \notin X
  BY DEF Both
<1> HIDE DEF X
<1>9. Ready(x, W \ {b}, f, bs) /\ x.at = b /\ x.bs = c2.bs
  BY <1>6, <1>8, AtReady
<1>10. Kept(c.bs, x.bs, X) /\ Len(x.bs) = Len(c.bs)
  BY <1>2, <1>7, <1>9, <1>12 DEF Closed
<1> HIDE DEF x
<1>11. x = Branched(c, v, b, d)
  BY DEF Branched, x, c2, c1
<1>q. QED
  BY <1>9, <1>10, <1>11 DEF X, KeptBut, Both

LEMMA SelectionBranchStep ==
  ASSUME Tasks(todo), BlockInv, SelectionBranch
  PROVE  Tasks(todo') /\ Ends(todo') = Ends(todo) /\ BlockInv'
<1> DEFINE k == Len(blocks)
           hasElse == Task.node.else # None
           d == IF hasElse THEN k + 2 ELSE k + 3
           e == k + 1
           c1 == Created(Here)
           c2 == Created(c1)
           c3 == Created(c2)
           x  == Branched(c3, tmp_val, e, d)
           r  == Tail(todo)
           a  == Visit(Task.node.then)
           b  == [do |-> "end-of-if", node |-> Task.node, falseBB |-> k + 2, contBB |-> k + 3]
           W  == ToFill(todo)
           f  == cur_fun.ref[2]
           W1 == W \cup {k + 1}
           W2 == W1 \cup {k + 2}
           W3 == W2 \cup {k + 3}
<1>1. Doing("if") /\ cur_fun' = cur_fun /\ Then(<<a, b>>)
  BY DEF SelectionBranch
<1>2. blocks' = x.bs /\ insert' = x.at
  BY DEF SelectionBranch, BuiltOnly, Branched
<1>3. Facing("if")
  BY <1>1, PlainTask DEF StatementTasks
<1>4. /\ InFunction(todo) /\ todo # <<>> /\ todo[1] = Task /\ Plain(todo[1]) /\ IsTask(Task) /\ Task.do = "if"
      /\ MayFollow("if", r[1].do)
  BY <1>3 DEF Facing
<1>5. Tasks(r) /\ InFunction(r) /\ Ends(r) = Ends(todo) /\ SamePlan(todo, r)
  BY <1>4, MovedOn DEF Moved
<1>6. Task.node.then \in Statement
  <2>1. Task.node \in Nodes /\ Task.node.k = "selection-stmt"
    BY <1>4 DEF IsTask
  <2>q. QED
    BY <2>1, NodesAssumption DEF IsNode
<1>7. Plain(a) /\ a.do \in StatementKinds
  BY <1>6, VisitPlain
<1>8. IsTask(b) /\ Inner(b) /\ b.do = "end-of-if"
  <2>1. Task.node \in Nodes /\ Task.node.k = "selection-stmt"
    BY <1>4 DEF IsTask
  <2>q. QED
    BY <2>1 DEF IsTask, Inner, StatementTasks, StatementKinds, ExpressionTasks, ExpressionKinds, OtherTasks, DeclKinds
<1>9. Fills(b) = {k + 2, k + 3} /\ Spares(b) = (IF hasElse THEN {} ELSE {k + 2}) /\ Heads(b) = {}
      /\ b.falseBB = k + 2 /\ b.contBB = k + 3
  BY DEF Fills, Spares, Heads
<1> HIDE DEF a, b
<1>10. MayFollow(a.do, b.do) /\ MayFollow(b.do, r[1].do) /\ b.do # "end-of-compound"
  <2>1. MayFollow(a.do, "end-of-if")
    BY <1>7, Follows DEF StatementTasks, Guards, StatementKinds, ExpressionTasks, ExpressionKinds
  <2>2. MayFollow("end-of-if", r[1].do)
    BY <1>4, Follows DEF StatementTasks
  <2>q. QED
    BY <1>8, <2>1, <2>2
<1>11. todo' = Pair(a, b) \o r
  BY <1>1 DEF Then, Pair
<1> HIDE DEF r, hasElse, k
<1>12. /\ Tasks(todo') /\ InFunction(todo') /\ Ends(todo') = Ends(r)
       /\ ToFill(todo') = Fills(b) \cup ToFill(r)
       /\ Needless(todo') = Spares(b) \cup Needless(r)
       /\ LoopHeads(todo') = Heads(b) \cup LoopHeads(r)
       /\ Disjoint(todo') <=> /\ Disjoint(r)
                              /\ b.do = "end-of-if" => b.falseBB # b.contBB
                              /\ Fills(b) \cap ToFill(r) = {}
  <2>1. Tasks(r) /\ InFunction(r)
    BY <1>5
  <2>2. Tasks(todo') /\ Hung(b, r, todo')
    BY ONLY <2>1, <1>7, <1>8, <1>10, <1>11, PushBranch
  <2>q. QED
    BY <2>2 DEF Hung
<1>13. /\ Building(blocks, insert, W, f) /\ Plan(todo, blocks, f)
  BY <1>4, InBodyParts
<1>14. /\ Plan(r, blocks, f) /\ ToFill(r) = W
  BY <1>5, <1>13 DEF Plan, SamePlan
<1>15. W \subseteq 1 .. k /\ k \in Nat
  BY <1>13 DEF Building, Graph, IsBlocks, IsSeq, k
\* The blocks.
<1>16. Ready(Here, W, f, blocks) /\ cur_fun.ret \in {I32, Float, Void} /\ Len(Here.bs) = k
  BY <1>1, <1>4, NoGuards, StartFree DEF Free, k
<1> HIDE DEF W
<1>17. /\ Ready(c1, W1, f, blocks) /\ Len(c1.bs) = k + 1
  BY <1>16, CreatedReady
<1> HIDE DEF c1, W1
<1>18. /\ Ready(c2, W1 \cup {Len(c1.bs) + 1}, f, blocks) /\ Len(c2.bs) = Len(c1.bs) + 1
       /\ c2.bs[Len(c1.bs) + 1].pre = <<>>
  BY <1>17, CreatedReady
<1>19. Len(c1.bs) + 1 = k + 2
  BY <1>15, <1>17
<1>20. Ready(c2, W2, f, blocks) /\ Len(c2.bs) = k + 2 /\ c2.bs[k + 2].pre = <<>>
  BY <1>18, <1>19
<1> HIDE DEF c2, W2
<1>21. Ready(c2, W2, f, c2.bs)
  <2>1. Building(c2.bs, c2.at, W2, f)
    BY <1>20 DEF Ready
  <2>q. QED
    BY <1>20, <2>1, KeptSame DEF Ready
<1>22. Len(c2.bs) + 1 = k + 3
  BY <1>15, <1>20
<1>23. /\ Ready(c3, W2 \cup {Len(c2.bs) + 1}, f, blocks)
  BY <1>20, CreatedReady
<1>24. Ready(c3, W2 \cup {Len(c2.bs) + 1}, f, c2.bs)
  BY <1>21, CreatedReady
<1>25. Ready(c3, W3, f, blocks) /\ Kept(c2.bs, c3.bs, {})
  BY <1>22, <1>23, <1>24 DEF Ready
<1> HIDE DEF c3
<1>26. e \in W3 /\ d \in W3 /\ e # d /\ \A n \in 1 .. Len(blocks) : n # e /\ n # d
  BY <1>15 DEF W1, W2, k
<1> HIDE DEF d, e, W3
<1>27. Ready(x, W3 \ {e}, f, blocks) /\ KeptBut(c3.bs, x.bs, e, d)
  <2>1. Ready(c3, W3, f, blocks)
    BY <1>25
  <2>2. Ready(x, W3 \ {e}, f, blocks)
    BY ONLY <1>26, <2>1, BranchedReady
  <2>4. KeptBut(c3.bs, x.bs, e, d)
    BY ONLY <1>26, <2>1, BranchedReady
  <2>q. QED
    BY <2>2, <2>4
<1>28. ~hasElse => x.bs[k + 2].pre = <<>>
  <2>1. k + 2 \in 1 .. Len(c2.bs)
    BY <1>15, <1>20
  <2>2. c3.bs[k + 2].pre = <<>> /\ k + 2 \in 1 .. Len(c3.bs)
    BY <1>20, <1>25, <2>1 DEF Kept
  <2>3. ~hasElse => k + 2 \notin {e, d}
    BY <1>15 DEF d, e
  <2>q. QED
    BY <1>27, <2>2, <2>3 DEF Kept, KeptBut
<1> HIDE DEF x
<1>29. W3 \ {e} = Fills(b) \cup ToFill(r)
  BY <1>9, <1>14, <1>15 DEF W3, W2, W1, e
<1>30. Disjoint(todo') /\ Fills(b) \cap (1 .. Len(blocks)) = {}
  <2>1. Fills(b) \cap (1 .. Len(blocks)) = {}
    BY <1>9, <1>15 DEF k
  <2>2. b.falseBB # b.contBB
    BY <1>9, <1>15
  <2>3. Disjoint(r) /\ ToFill(r) \subseteq 1 .. Len(blocks)
    BY <1>14, <1>15 DEF Plan, k
  <2>q. QED
    BY <1>12, <2>1, <2>2, <2>3
<1>31. Building(blocks', insert', ToFill(todo'), f) /\ ~Terminated(blocks', insert') /\ Kept(blocks, blocks', {})
  BY <1>2, <1>12, <1>27, <1>29 DEF Ready
<1>32. Plan(todo', blocks', f)
  <2>1. \A n \in Spares(b) : blocks'[n].pre = <<>>
    BY <1>2, <1>9, <1>28
  <2>2. \A n \in Heads(b) : n \in (1 .. Len(blocks')) \ ToFill(todo') /\ blocks'[n].fun = f
    BY <1>9
  <2>3. ToFill(r) \subseteq 1 .. Len(blocks)
    BY <1>14, <1>15 DEF k
  <2>4. Longer(r, todo', Fills(b), Spares(b), Heads(b))
    BY <1>12, <1>30 DEF Longer
  <2>q. QED
    BY <1>14, <1>30, <1>31, <2>1, <2>2, <2>3, <2>4, PlanGrown
<1>33. BlockInv'
  BY <1>1, <1>12, <1>16, <1>31, <1>32, OpenBody
<1>q. QED
  BY <1>5, <1>12, <1>33

LEMMA IterationStmtStep ==
  ASSUME Tasks(todo), BlockInv, IterationStmt
  PROVE  Tasks(todo') /\ Ends(todo') = Ends(todo) /\ BlockInv'
<1> DEFINE k  == Len(blocks)
           e  == k + 1
           c1 == Created(Here)
           c2 == BrUnlessTerminated(c1, e)
           x  == At(c2, e)
           r  == Tail(todo)
           a  == Visit(Task.node.e)
           b  == [do |-> "while", node |-> Task.node, exprBB |-> e]
           W  == ToFill(todo)
           f  == cur_fun.ref[2]
           W1 == W \cup {e}
<1>1. Doing("iteration-stmt") /\ cur_fun' = cur_fun /\ Then(<<a, b>>)
  BY DEF IterationStmt
<1>2. blocks' = x.bs /\ insert' = x.at
  BY DEF IterationStmt, BuiltOnly
<1>3. Facing("iteration-stmt")
  BY <1>1, PlainTask DEF StatementTasks, StatementKinds
<1>4. /\ InFunction(todo) /\ todo # <<>> /\ todo[1] = Task /\ Plain(todo[1]) /\ IsTask(Task)
      /\ Task.do = "iteration-stmt" /\ MayFollow("iteration-stmt", r[1].do)
  BY <1>3 DEF Facing
<1>5. Tasks(r) /\ InFunction(r) /\ Ends(r) = Ends(todo) /\ SamePlan(todo, r)
  BY <1>4, MovedOn DEF Moved
<1>6. Task.node \in Nodes /\ Task.node.e \in Expression /\ Task.node.k = "iteration-stmt"
  BY <1>4, Children
<1>7. Plain(a) /\ a.do \in ExpressionKinds
  BY <1>6, VisitPlain
<1>8. IsTask(b) /\ Inner(b) /\ b.do = "while"
  BY <1>6 DEF IsTask, Inner, StatementTasks, StatementKinds, ExpressionTasks, ExpressionKinds, OtherTasks, DeclKinds
<1>9. Fills(b) = {} /\ Spares(b) = {} /\ Heads(b) = {e}
  BY DEF Fills, Spares, Heads
<1> HIDE DEF a, b
<1>10. MayFollow(a.do, b.do) /\ MayFollow(b.do, r[1].do) /\ b.do # "end-of-compound"
  <2>1. MayFollow(a.do, "while")
    BY <1>7, Chains
  <2>2. MayFollow("while", r[1].do)
    BY <1>4, Follows DEF StatementTasks, StatementKinds
  <2>q. QED
    BY <1>8, <2>1, <2>2
<1>11. todo' = Pair(a, b) \o r
  BY <1>1 DEF Then, Pair
<1> HIDE DEF r
<1>12. Tasks(todo') /\ Hung(b, r, todo')
  <2>1. Tasks(r) /\ InFunction(r)
    BY <1>5
  <2>q. QED
    BY ONLY <2>1, <1>7, <1>8, <1>10, <1>11, PushBranch
<1>13. /\ InFunction(todo') /\ Ends(todo') = Ends(r) /\ ToFill(todo') = ToFill(r)
       /\ Needless(todo') = Spares(b) \cup Needless(r)
       /\ LoopHeads(todo') = Heads(b) \cup LoopHeads(r)
       /\ Disjoint(todo') <=> Disjoint(r)
  BY <1>8, <1>9, <1>12 DEF Hung
<1>14. /\ Building(blocks, insert, W, f) /\ Plan(todo, blocks, f)
  BY <1>4, InBodyParts
<1>15. /\ Plan(r, blocks, f) /\ ToFill(r) = W
  BY <1>5, <1>14 DEF Plan, SamePlan
<1> HIDE DEF k
<1>16. W \subseteq 1 .. k /\ k \in Nat
  BY <1>14 DEF Building, Graph, IsBlocks, IsSeq, k
<1>17. Ready(Here, W, f, blocks) /\ cur_fun.ret \in {I32, Float, Void} /\ Len(Here.bs) = k
  BY <1>1, <1>4, NoGuards, StartFree DEF Free, k
<1> HIDE DEF W
<1>18. Ready(c1, W1, f, blocks) /\ Len(c1.bs) = e /\ c1.bs[e].fun = f /\ e \notin W
  BY <1>17, CreatedReady
<1> HIDE DEF c1
<1>19. c2 = Br(c1, e)
  BY <1>18 DEF BrUnlessTerminated, Ready
<1>20. e \in 1 .. Len(c1.bs) /\ e \in W1 /\ \A n \in 1 .. Len(blocks) : n \notin {e}
  BY <1>16, <1>18 DEF k
<1> HIDE DEF c2, W1, e
<1>21. Closed(c2, W1, f, blocks, {e})
  <2>1. Closed(Br(c1, e), W1, f, blocks, {e})
    BY <1>18, <1>20, BrClosed
  <2>q. QED
    BY <1>19, <2>1
<1>22. Ready(x, W1 \ {e}, f, blocks)
  <2> DEFINE X == {e}
  <2>1. Closed(c2, W1, f, blocks, X) /\ \A n \in 1 .. Len(blocks) : n \notin X
    BY <1>20, <1>21
  <2> HIDE DEF X
  <2>q. QED
    BY <1>20, <2>1, AtReady
<1>23. W1 \ {e} = W
  BY <1>18 DEF W1
<1>24. /\ e \in (1 .. Len(x.bs)) \ W /\ x.bs[e].fun = f
  <2>1. x.bs = c2.bs /\ x.at = e
    BY <1>21 DEF At, Closed, IsContext
  <2>2. Building(x.bs, x.at, W, f)
    BY <1>22, <1>23 DEF Ready
  <2>q. QED
    BY <2>1, <2>2 DEF Building
<1> HIDE DEF x
<1>25. Building(blocks', insert', ToFill(todo'), f) /\ ~Terminated(blocks', insert') /\ Kept(blocks, blocks', {})
  BY <1>2, <1>13, <1>15, <1>22, <1>23 DEF Ready
<1>26. Plan(todo', blocks', f)
  <2> DEFINE F == {}
  <2>1. \A n \in Spares(b) : blocks'[n].pre = <<>>
    BY <1>9
  <2>2. \A n \in Heads(b) : n \in (1 .. Len(blocks')) \ ToFill(todo') /\ blocks'[n].fun = f
    BY <1>2, <1>9, <1>13, <1>15, <1>24
  <2>3. ToFill(r) \subseteq 1 .. Len(blocks) /\ Disjoint(todo')
    BY <1>13, <1>15, <1>16 DEF k, Plan
  <2>4. F \cap (1 .. Len(blocks)) = {} /\ Longer(r, todo', F, Spares(b), Heads(b))
    BY <1>13, <2>3 DEF Longer
  <2> HIDE DEF F
  <2>5. Plan(r, blocks, f) /\ Kept(blocks, blocks', {})
    BY <1>15, <1>25
  <2>q. QED
    BY ONLY <2>1, <2>2, <2>3, <2>4, <2>5, PlanGrown
<1>27. BlockInv'
  BY <1>1, <1>13, <1>17, <1>25, <1>26, OpenBody
<1>q. QED
  BY <1>5, <1>12, <1>13, <1>27

LEMMA IterationBranchStep ==
  ASSUME Tasks(todo), BlockInv, IterationBranch
  PROVE  Tasks(todo') /\ Ends(todo') = Ends(todo) /\ BlockInv'
<1> DEFINE k  == Len(blocks)
           e  == k + 1
           d  == k + 2
           c1 == Created(Here)
           c2 == Created(c1)
           x  == Branched(c2, tmp_val, e, d)
           r  == Tail(todo)
           h  == Task.exprBB
           a  == Visit(Task.node.body)
           b  == [do |-> "end-of-while", exprBB |-> h, contBB |-> d]
           W  == ToFill(todo)
           f  == cur_fun.ref[2]
           W1 == W \cup {e}
           W2 == W1 \cup {d}
<1>1. Doing("while") /\ cur_fun' = cur_fun /\ Then(<<a, b>>)
  BY DEF IterationBranch
<1>2. blocks' = x.bs /\ insert' = x.at
  BY DEF IterationBranch, BuiltOnly, Branched
<1>3. todo # <<>> /\ IsSeq(todo) /\ todo[1] = Task /\ IsTask(Task) /\ Task.do = "while"
  BY <1>1, FirstTask
<1>4. Inner(todo[1])
  BY <1>3 DEF Inner, DeclKinds
<1>5. /\ Tasks(r) /\ InFunction(todo) /\ InFunction(r) /\ MayFollow("while", r[1].do) /\ Ends(r) \in Nat
      /\ Ends(todo) = Ends(r) + 0
  BY <1>3, <1>4, PopTask
<1>28. Ends(todo) = Ends(r)
  BY <1>5
<1>29. /\ ToFill(todo) = Fills(Task) \cup ToFill(r) /\ Needless(todo) = Spares(Task) \cup Needless(r)
       /\ LoopHeads(todo) = Heads(Task) \cup LoopHeads(r) /\ (Disjoint(todo) => Disjoint(r))
  BY <1>3, PlanFirst
<1>30. Fills(Task) = {} /\ Spares(Task) = {} /\ Heads(Task) = {h}
  BY <1>3 DEF Fills, Spares, Heads
<1>6. Task.node.body \in Statement
  <2>1. Task.node \in Nodes /\ Task.node.k = "iteration-stmt"
    BY <1>3 DEF IsTask
  <2>q. QED
    BY <2>1, NodesAssumption DEF IsNode
<1>7. Plain(a) /\ a.do \in StatementKinds
  BY <1>6, VisitPlain
<1>8. IsTask(b) /\ Inner(b) /\ b.do = "end-of-while"
  BY DEF IsTask, Inner, StatementTasks, StatementKinds, ExpressionTasks, ExpressionKinds, OtherTasks, DeclKinds
<1>9. Fills(b) = {d} /\ Spares(b) = {} /\ Heads(b) = {h}
  BY DEF Fills, Spares, Heads
<1> HIDE DEF a, b, h
<1>10. MayFollow(a.do, b.do) /\ MayFollow(b.do, r[1].do) /\ b.do # "end-of-compound"
  <2>1. MayFollow(a.do, "end-of-while")
    BY <1>7, Follows DEF StatementTasks, Guards, StatementKinds, ExpressionTasks, ExpressionKinds
  <2>2. MayFollow("end-of-while", r[1].do)
    BY <1>5, Follows DEF StatementTasks
  <2>q. QED
    BY <1>8, <2>1, <2>2
<1>11. todo' = Pair(a, b) \o r
  BY <1>1 DEF Then, Pair
<1> HIDE DEF r
<1>12. Tasks(todo') /\ Hung(b, r, todo')
  <2>1. Tasks(r) /\ InFunction(r)
    BY <1>5
  <2>q. QED
    BY ONLY <2>1, <1>7, <1>8, <1>10, <1>11, PushBranch
<1>13. /\ InFunction(todo') /\ Ends(todo') = Ends(r) /\ ToFill(todo') = {d} \cup ToFill(r)
       /\ Needless(todo') = Spares(b) \cup Needless(r)
       /\ LoopHeads(todo') = Heads(b) \cup LoopHeads(r)
       /\ Disjoint(todo') <=> Disjoint(r) /\ {d} \cap ToFill(r) = {}
  BY <1>8, <1>9, <1>12 DEF Hung
<1>14. /\ Building(blocks, insert, W, f) /\ Plan(todo, blocks, f)
  BY <1>5, InBodyParts
<1> HIDE DEF k
<1>16. W \subseteq 1 .. k /\ k \in Nat
  BY <1>14 DEF Building, Graph, IsBlocks, IsSeq, k
<1>15. Plan(r, blocks, f) /\ ToFill(r) = W /\ h \in (1 .. k) \ W /\ blocks[h].fun = f
  <2>1. ToFill(r) = W /\ Needless(r) = Needless(todo)
    BY <1>29, <1>30
  <2>2. \A n \in LoopHeads(todo) : n \in (1 .. Len(blocks)) \ ToFill(todo) /\ blocks[n].fun = f
    BY <1>14 DEF Plan
  <2>q. QED
    BY <1>14, <1>29, <1>30, <2>1, <2>2 DEF Plan, k
<1>17. Ready(Here, W, f, blocks) /\ cur_fun.ret \in {I32, Float, Void} /\ Len(Here.bs) = k
  BY <1>1, <1>5, NoGuards, StartFree DEF Free, k
<1> HIDE DEF W
<1>18. Ready(c1, W1, f, blocks) /\ Len(c1.bs) = e
  BY <1>17, CreatedReady
<1> HIDE DEF c1, W1
<1>19. Len(c1.bs) + 1 = d
  BY <1>16, <1>18
<1>20. Ready(c2, W1 \cup {Len(c1.bs) + 1}, f, blocks)
  BY <1>18, CreatedReady
<1>21. Ready(c2, W2, f, blocks)
  BY <1>19, <1>20
<1>22. e \in W2 /\ d \in W2 /\ e # d /\ \A n \in 1 .. Len(blocks) : n # e /\ n # d
  BY <1>16 DEF W1, k
<1>23. W2 \ {e} = {d} \cup ToFill(r) /\ {d} \cap (1 .. Len(blocks)) = {} /\ h # d
  BY <1>15, <1>16 DEF W1, k
<1> HIDE DEF c2, W2, d, e
<1>24. Ready(x, W2 \ {e}, f, blocks)
  <2>q. QED
    BY ONLY <1>21, <1>22, BranchedReady
<1> HIDE DEF x
<1>25. Building(blocks', insert', ToFill(todo'), f) /\ ~Terminated(blocks', insert') /\ Kept(blocks, blocks', {})
  BY <1>2, <1>13, <1>23, <1>24 DEF Ready
<1>26. Plan(todo', blocks', f)
  <2>1. \A n \in Spares(b) : blocks'[n].pre = <<>>
    BY <1>9
  <2>2. \A n \in 1 .. Len(blocks) : n \in 1 .. Len(blocks') /\ blocks'[n].fun = blocks[n].fun
    BY <1>25 DEF Kept
  <2>3. \A n \in Heads(b) : n \in (1 .. Len(blocks')) \ ToFill(todo') /\ blocks'[n].fun = f
    BY <1>9, <1>13, <1>15, <1>23, <2>2 DEF k
  <2>4. ToFill(r) \subseteq 1 .. Len(blocks)
    BY <1>15, <1>16 DEF k
  <2>5. Disjoint(todo')
    BY <1>13, <1>15, <1>23, <2>4 DEF Plan
  <2> DEFINE F == {d}
  <2>6. F \cap (1 .. Len(blocks)) = {} /\ Longer(r, todo', F, Spares(b), Heads(b))
    BY <1>13, <1>23, <2>5 DEF Longer
  <2> HIDE DEF F
  <2>7. Plan(r, blocks, f) /\ Kept(blocks, blocks', {})
    BY <1>15, <1>25
  <2>q. QED
    BY ONLY <2>1, <2>3, <2>4, <2>6, <2>7, PlanGrown
<1>27. BlockInv'
  BY <1>1, <1>13, <1>17, <1>25, <1>26, OpenBody
<1>q. QED
  BY <1>12, <1>13, <1>27, <1>28

\* The builder closes its block with a branch, unless it is closed.
LEMMA BrUnlessClosed ==
  ASSUME NEW c, IsContext(c), NEW W, NEW f, Building(c.bs, c.at, W, f),
         NEW b \in 1 .. Len(c.bs), c.bs[b].fun = f
  PROVE  LET x == BrUnlessTerminated(c, b)
         IN Closed(x, W, f, c.bs, {b})
<1> DEFINE X == {b}
           x == BrUnlessTerminated(c, b)
<1>1. Kept(c.bs, c.bs, {})
  BY KeptSame
<1>2. CASE Terminated(c.bs, c.at)
  <2>1. x = c
    BY <1>2 DEF BrUnlessTerminated
  <2>2. Kept(c.bs, c.bs, X)
    BY <1>1 DEF Kept
  <2> HIDE DEF x, X
  <2>3. Closed(x, W, f, c.bs, X)
    BY <1>2, <2>1, <2>2 DEF Closed
  <2>q. QED
    BY <2>3 DEF x, X
<1>3. CASE ~Terminated(c.bs, c.at)
  <2>1. Ready(c, W, f, c.bs)
    BY <1>1, <1>3 DEF Ready
  <2>2. Closed(Br(c, b), W, f, c.bs, X)
    BY <2>1, BrClosed
  <2>3. x = Br(c, b)
    BY <1>3 DEF BrUnlessTerminated
  <2> HIDE DEF x, X
  <2>4. Closed(x, W, f, c.bs, X)
    BY <2>2, <2>3
  <2>q. QED
    BY <2>4 DEF x, X
<1>q. QED
  BY <1>2, <1>3

\* A block without edges is removed.
LEMMA RemovedIs ==
  ASSUME NEW c, IsContext(c), IsBlocks(c.bs), NEW b \in 1 .. Len(c.bs), c.bs[b].pre = <<>>, c.bs[b].succ = <<>>
  PROVE  LET x == Removed(c, b)
         IN IsContext(x) /\ x.at = c.at /\ x.bs = SetFun(c.bs, b, "removed")
<1> DEFINE bs == c.bs
           g  == [n \in DOMAIN bs |-> IF n = b THEN [bs[n] EXCEPT !.fun = "removed"] ELSE Forget(bs, n, b)]
<1>1. IsContext(Removed(c, b)) /\ Removed(c, b).at = c.at /\ Removed(c, b).bs = g
  BY DEF Removed, IsContext
<1>2. bs = [n \in 1 .. Len(bs) |-> bs[n]] /\ b \in 1 .. Len(bs) /\ \A n \in 1 .. Len(bs) : IsBlock(bs[n])
  BY DEF IsBlocks, IsSeq
<1>3. bs[b].pre = <<>> /\ bs[b].succ = <<>>
  OBVIOUS
<1> HIDE DEF bs
<1>4. ASSUME NEW n \in 1 .. Len(bs) PROVE Forget(bs, n, b) = bs[n]
  <2> DEFINE p == bs[n]
  <2>1. n \notin Range(bs[b].succ) /\ n \notin Range(bs[b].pre)
    BY <1>3, EmptyIs
  <2>2. Forget(bs, n, b) = [bs[n] EXCEPT !.pre = bs[n].pre, !.succ = bs[n].succ]
    BY <2>1 DEF Forget
  <2>3. p = [fun |-> p.fun, code |-> p.code, pre |-> p.pre, succ |-> p.succ]
    BY <1>2 DEF IsBlock
  <2> HIDE DEF p
  <2>4. [p EXCEPT !.pre = p.pre, !.succ = p.succ] = p
    BY <2>3
  <2>q. QED
    BY <2>2, <2>4 DEF p
<1>5. g = [bs EXCEPT ![b].fun = "removed"]
  <2> DEFINE s == [bs EXCEPT ![b].fun = "removed"]
  <2>1. DOMAIN bs = 1 .. Len(bs)
    BY <1>2
  <2>2. \A n \in 1 .. Len(bs) : g[n] = s[n]
    BY <1>2, <1>4, <2>1
  <2>3. g = [n \in 1 .. Len(bs) |-> g[n]] /\ s = [n \in 1 .. Len(bs) |-> s[n]]
    BY <1>2, <2>1
  <2> HIDE DEF g, s
  <2>4. g = s
    BY <2>2, <2>3
  <2>q. QED
    BY <2>4 DEF s
<1> HIDE DEF g
<1>q. QED
  BY <1>1, <1>5 DEF SetFun, bs

\* The end of a branch: the builder goes from its block to block b, and on with block d.
Behind(x, W, f, bs, b, d) ==
  Building(x.bs, d, W \ {d}, f) /\ ~Terminated(x.bs, d) /\ Kept(bs, x.bs, {b})

LEMMA GoneBehind ==
  ASSUME NEW W, NEW f, Building(blocks, insert, W, f), NEW b \in 1 .. Len(blocks), blocks[b].fun = f, NEW d \in W
  PROVE  LET x == BrUnlessTerminated(Here, b)
         IN Behind(x, W, f, blocks, b, d) /\ Closed(x, W, f, blocks, {b})
<1> DEFINE x == BrUnlessTerminated(Here, b)
           X == {b}
<1>1. IsContext(Here) /\ Here.bs = blocks /\ Here.at = insert
  BY DEF Here, IsContext
<1>2. Closed(x, W, f, Here.bs, X)
  BY <1>1, BrUnlessClosed
<1> HIDE DEF x, X
<1>3. Closed(x, W, f, blocks, X)
  BY <1>1, <1>2
<1>4. Building(x.bs, x.at, W, f) /\ Terminated(x.bs, x.at) /\ Kept(blocks, x.bs, X)
  BY <1>3 DEF Closed
<1>5. Building(x.bs, d, W \ {d}, f) /\ ~Terminated(x.bs, d)
  BY <1>4, Resumed
<1>6. Behind(x, W, f, blocks, b, d)
  BY <1>4, <1>5 DEF Behind, X
<1>q. QED
  BY <1>3, <1>6 DEF x, X

\* What is behind the end of a branch.
LeftBehind(q, r) ==
  /\ Tasks(r) /\ InFunction(q) /\ InFunction(r) /\ Ends(r) = Ends(q) /\ r[1].do \in Guards
  /\ ToFill(q) = Fills(q[1]) \cup ToFill(r)
  /\ Needless(q) = Spares(q[1]) \cup Needless(r)
  /\ LoopHeads(q) = Heads(q[1]) \cup LoopHeads(r)
  /\ Disjoint(q) => /\ Disjoint(r)
                    /\ q[1].do = "end-of-if" => q[1].falseBB # q[1].contBB
                    /\ Fills(q[1]) \cap ToFill(r) = {}
  /\ Needless(r) \subseteq ToFill(r)

LEMMA PopBranch ==
  ASSUME NEW q, Tasks(q), q # <<>>, q[1].do \in {"end-of-if", "end-of-else", "end-of-while"}
  PROVE  LeftBehind(q, Tail(q))
<1> DEFINE r == Tail(q)
<1>1. Inner(q[1]) /\ q[1].do # "end-of-compound" /\ q[1].do \in StatementTasks
  BY DEF Inner, DeclKinds, StatementTasks
<1>2. /\ Tasks(r) /\ InFunction(q) /\ InFunction(r) /\ MayFollow(q[1].do, r[1].do) /\ Ends(r) \in Nat
      /\ Ends(q) = Ends(r) + 0
  BY <1>1, PopTask
<1>3. Ends(r) = Ends(q)
  BY <1>2
<1>4. r[1].do \in Guards
  BY <1>1, <1>2 DEF MayFollow
<1>5. IsSeq(q)
  BY DEF Tasks
<1>6. /\ ToFill(q) = Fills(q[1]) \cup ToFill(r)
      /\ Needless(q) = Spares(q[1]) \cup Needless(r)
      /\ LoopHeads(q) = Heads(q[1]) \cup LoopHeads(r)
      /\ Disjoint(q) <=> /\ Disjoint(r)
                         /\ q[1].do = "end-of-if" => q[1].falseBB # q[1].contBB
                         /\ Fills(q[1]) \cap ToFill(r) = {}
  BY <1>5, PlanFirst
<1>7. Needless(r) \subseteq ToFill(r)
  BY DEF Needless, ToFill, Spares, Fills
<1> HIDE DEF r
<1>q. QED
  BY <1>2, <1>3, <1>4, <1>6, <1>7 DEF r, LeftBehind

LEMMA AtIs ==
  ASSUME NEW c, IsContext(c), NEW b
  PROVE  At(c, b).bs = c.bs /\ At(c, b).at = b
BY DEF At, IsContext

LEMMA EndElseStep ==
  ASSUME Tasks(todo), BlockInv, EndElse
  PROVE  Tasks(todo') /\ Ends(todo') = Ends(todo) /\ BlockInv'
<1> DEFINE b == Task.contBB
           x == BrUnlessTerminated(Here, b)
           r == Tail(todo)
           W == ToFill(todo)
           f == cur_fun.ref[2]
<1>1. Doing("end-of-else") /\ cur_fun' = cur_fun /\ Then(<<>>)
  BY DEF EndElse
<1>2. blocks' = At(x, b).bs /\ insert' = At(x, b).at
  BY DEF EndElse, BuiltOnly
<1>3. todo # <<>> /\ todo[1] = Task /\ Task.do = "end-of-else" /\ todo' = r
  BY <1>1, FirstTask
<1>4. Fills(Task) = {b} /\ Spares(Task) = {} /\ Heads(Task) = {}
  BY <1>3 DEF Fills, Spares, Heads
<1> HIDE DEF b
<1>5. /\ Tasks(r) /\ InFunction(todo) /\ InFunction(r) /\ Ends(r) = Ends(todo)
      /\ W = {b} \cup ToFill(r) /\ Needless(todo) = Needless(r) /\ LoopHeads(todo) = LoopHeads(r)
      /\ Disjoint(todo) => Disjoint(r) /\ {b} \cap ToFill(r) = {}
      /\ Needless(r) \subseteq ToFill(r)
  <2>1. LeftBehind(todo, r)
    BY <1>3, PopBranch
  <2>q. QED
    BY <1>3, <1>4, <2>1 DEF LeftBehind
<1>6. /\ Building(blocks, insert, W, f) /\ Plan(todo, blocks, f) /\ cur_fun.ret \in {I32, Float, Void}
  BY <1>5, InBodyParts
<1>7. Disjoint(r) /\ b \notin ToFill(r)
  BY <1>5, <1>6 DEF Plan
<1>8. b \in W /\ b \in 1 .. Len(blocks) /\ blocks[b].fun = f
  BY <1>5, <1>6 DEF Building
<1> HIDE DEF f
<1>9. Behind(x, W, f, blocks, b, b) /\ Closed(x, W, f, blocks, {b})
  BY <1>6, <1>8, GoneBehind
<1> HIDE DEF x
<1>14. blocks' = x.bs /\ insert' = b
  BY <1>2, <1>9, AtIs DEF Closed
<1>10. W \ {b} = ToFill(r)
  BY <1>5, <1>7
<1>11. /\ Building(blocks', insert', ToFill(r), f) /\ ~Terminated(blocks', insert') /\ Kept(blocks, blocks', {b})
  BY <1>9, <1>10, <1>14 DEF Behind
<1> HIDE DEF r
<1>12. Plan(r, blocks', f)
  <2>1. Shorter(todo, r)
    BY <1>5, <1>7 DEF Shorter
  <2>2. /\ Len(blocks) \in Nat /\ Len(blocks') \in Nat /\ Len(blocks) <= Len(blocks')
        /\ \A n \in 1 .. Len(blocks) : blocks'[n].fun = blocks[n].fun /\ (n # b => blocks'[n].pre = blocks[n].pre)
    BY <1>11 DEF Kept
  <2>3. \A n \in Needless(r) : blocks'[n].pre = blocks[n].pre
    BY <1>5, <1>6, <1>7, <2>2 DEF Building
  <2>4. \A n \in LoopHeads(r) : blocks'[n].fun = blocks[n].fun
    BY <1>5, <1>6, <2>2 DEF Plan
  <2>5. Plan(todo, blocks, f) /\ Len(blocks) \in Nat /\ Len(blocks') \in Nat /\ Len(blocks) <= Len(blocks')
    BY <1>6, <2>2
  <2>q. QED
    BY ONLY <2>1, <2>3, <2>4, <2>5, PlanLeft
<1>13. BlockInv'
  BY <1>1, <1>3, <1>5, <1>6, <1>11, <1>12, OpenBody DEF f
<1>q. QED
  BY <1>3, <1>5, <1>13

LEMMA EndWhileStep ==
  ASSUME Tasks(todo), BlockInv, EndWhile
  PROVE  Tasks(todo') /\ Ends(todo') = Ends(todo) /\ BlockInv'
<1> DEFINE b == Task.contBB
           h == Task.exprBB
           x == BrUnlessTerminated(Here, h)
           r == Tail(todo)
           W == ToFill(todo)
           f == cur_fun.ref[2]
<1>1. Doing("end-of-while") /\ cur_fun' = cur_fun /\ Then(<<>>)
  BY DEF EndWhile
<1>2. blocks' = At(x, b).bs /\ insert' = At(x, b).at
  BY DEF EndWhile, BuiltOnly
<1>3. todo # <<>> /\ todo[1] = Task /\ Task.do = "end-of-while" /\ todo' = r
  BY <1>1, FirstTask
<1>4. Fills(Task) = {b} /\ Spares(Task) = {} /\ Heads(Task) = {h}
  BY <1>3 DEF Fills, Spares, Heads
<1> HIDE DEF b, h
<1>5. /\ Tasks(r) /\ InFunction(todo) /\ InFunction(r) /\ Ends(r) = Ends(todo)
      /\ W = {b} \cup ToFill(r) /\ Needless(todo) = Needless(r) /\ LoopHeads(todo) = {h} \cup LoopHeads(r)
      /\ Disjoint(todo) => Disjoint(r) /\ {b} \cap ToFill(r) = {}
      /\ Needless(r) \subseteq ToFill(r)
  <2>1. LeftBehind(todo, r)
    BY <1>3, PopBranch
  <2>q. QED
    BY <1>3, <1>4, <2>1 DEF LeftBehind
<1>6. /\ Building(blocks, insert, W, f) /\ Plan(todo, blocks, f) /\ cur_fun.ret \in {I32, Float, Void}
  BY <1>5, InBodyParts
<1>7. Disjoint(r) /\ b \notin ToFill(r)
  BY <1>5, <1>6 DEF Plan
<1>8. b \in W /\ h \in (1 .. Len(blocks)) \ W /\ blocks[h].fun = f
  BY <1>5, <1>6 DEF Plan
<1> HIDE DEF f
<1>9. Behind(x, W, f, blocks, h, b) /\ Closed(x, W, f, blocks, {h})
  BY <1>6, <1>8, GoneBehind
<1> HIDE DEF x
<1>14. blocks' = x.bs /\ insert' = b
  BY <1>2, <1>9, AtIs DEF Closed
<1>10. W \ {b} = ToFill(r)
  BY <1>5, <1>7
<1>11. /\ Building(blocks', insert', ToFill(r), f) /\ ~Terminated(blocks', insert') /\ Kept(blocks, blocks', {h})
  BY <1>9, <1>10, <1>14 DEF Behind
<1> HIDE DEF r
<1>12. Plan(r, blocks', f)
  <2>1. Shorter(todo, r)
    BY <1>5, <1>7 DEF Shorter
  <2>2. /\ Len(blocks) \in Nat /\ Len(blocks') \in Nat /\ Len(blocks) <= Len(blocks')
        /\ \A n \in 1 .. Len(blocks) : blocks'[n].fun = blocks[n].fun /\ (n # h => blocks'[n].pre = blocks[n].pre)
    BY <1>11 DEF Kept
  <2>3. \A n \in Needless(r) : blocks'[n].pre = blocks[n].pre
    BY <1>5, <1>6, <1>8, <2>2 DEF Building
  <2>4. \A n \in LoopHeads(r) : blocks'[n].fun = blocks[n].fun
    BY <1>5, <1>6, <2>2 DEF Plan
  <2>5. Plan(todo, blocks, f) /\ Len(blocks) \in Nat /\ Len(blocks') \in Nat /\ Len(blocks) <= Len(blocks')
    BY <1>6, <2>2
  <2>q. QED
    BY ONLY <2>1, <2>3, <2>4, <2>5, PlanLeft
<1>13. BlockInv'
  BY <1>1, <1>3, <1>5, <1>6, <1>11, <1>12, OpenBody DEF f
<1>q. QED
  BY <1>3, <1>5, <1>13

LEMMA EndIfStep ==
  ASSUME Tasks(todo), BlockInv, EndIf
  PROVE  Tasks(todo') /\ Ends(todo') = Ends(todo) /\ BlockInv'
<1> DEFINE b == Task.contBB
           d == Task.falseBB
           hasElse == Task.node.else # None
           x == BrUnlessTerminated(Here, b)
           r == Tail(todo)
           W == ToFill(todo)
           f == cur_fun.ref[2]
<1>1. Doing("end-of-if") /\ cur_fun' = cur_fun
  BY DEF EndIf
<1>2. todo # <<>> /\ todo[1] = Task /\ IsTask(Task) /\ Task.do = "end-of-if" /\ (Then(<<>>) => todo' = r)
  BY <1>1, FirstTask
<1>3. /\ hasElse => /\ blocks' = At(x, d).bs /\ insert' = At(x, d).at
                    /\ Then(<<Visit(Task.node.else), [do |-> "end-of-else", contBB |-> b]>>)
      /\ ~hasElse => /\ blocks' = At(Removed(x, d), b).bs /\ insert' = At(Removed(x, d), b).at
                     /\ Then(<<>>)
  BY DEF EndIf, BuiltOnly
<1>4. Fills(Task) = {d, b} /\ Spares(Task) = (IF hasElse THEN {} ELSE {d}) /\ Heads(Task) = {}
      /\ Task.falseBB = d /\ Task.contBB = b
  BY <1>2 DEF Fills, Spares, Heads
<1>20. hasElse => Task.node.else \in Statement
  <2>1. Task.node \in Nodes /\ Task.node.k = "selection-stmt"
    BY <1>2 DEF IsTask
  <2>q. QED
    BY <2>1, NodesAssumption DEF IsNode
<1> HIDE DEF b, d
<1>5. /\ Tasks(r) /\ InFunction(todo) /\ InFunction(r) /\ Ends(r) = Ends(todo) /\ r[1].do \in Guards
      /\ W = {d, b} \cup ToFill(r) /\ Needless(todo) = Spares(Task) \cup Needless(r) /\ LoopHeads(todo) = LoopHeads(r)
      /\ Disjoint(todo) => Disjoint(r) /\ d # b /\ {d, b} \cap ToFill(r) = {}
      /\ Needless(r) \subseteq ToFill(r)
  <2>1. LeftBehind(todo, r)
    BY <1>2, PopBranch
  <2>q. QED
    BY <1>2, <1>4, <2>1 DEF LeftBehind
<1>6. /\ Building(blocks, insert, W, f) /\ Plan(todo, blocks, f) /\ cur_fun.ret \in {I32, Float, Void}
  BY <1>5, InBodyParts
<1>7. Disjoint(r) /\ d # b /\ b \notin ToFill(r) /\ d \notin ToFill(r)
  BY <1>5, <1>6 DEF Plan
<1>8. /\ b \in W /\ b \in 1 .. Len(blocks) /\ blocks[b].fun = f
      /\ d \in W /\ d \in 1 .. Len(blocks) /\ ToFill(r) \subseteq 1 .. Len(blocks)
  BY <1>5, <1>6 DEF Building
<1>9. \A n \in LoopHeads(r) : n \in (1 .. Len(blocks)) \ W
  BY <1>5, <1>6 DEF Plan
<1> HIDE DEF f
<1>10. Behind(x, W, f, blocks, b, d) /\ Closed(x, W, f, blocks, {b})
  BY <1>6, <1>8, GoneBehind
<1>11. IsContext(x) /\ Building(x.bs, x.at, W, f) /\ Terminated(x.bs, x.at)
  BY <1>10 DEF Closed
<1> HIDE DEF x
<1>12. /\ Len(blocks) \in Nat /\ Len(x.bs) \in Nat /\ Len(blocks) <= Len(x.bs)
       /\ \A n \in 1 .. Len(blocks) : x.bs[n].fun = blocks[n].fun /\ (n # b => x.bs[n].pre = blocks[n].pre)
  BY <1>10 DEF Behind, Kept
<1>13. \A n \in Needless(r) : n # b /\ n # d /\ n \in 1 .. Len(blocks)
  BY <1>5, <1>7, <1>8
\* The other branch is to be built.
<1>14. CASE hasElse
  <2> DEFINE u == Visit(Task.node.else)
             v == [do |-> "end-of-else", contBB |-> b]
  <2>1. Plain(u) /\ u.do \in StatementKinds
    BY <1>14, <1>20, VisitPlain
  <2>2. IsTask(v) /\ Inner(v) /\ v.do = "end-of-else"
    BY DEF IsTask, Inner, StatementTasks, StatementKinds, ExpressionTasks, ExpressionKinds, OtherTasks, DeclKinds
  <2>3. Fills(v) = {b} /\ Spares(v) = {} /\ Heads(v) = {}
    BY DEF Fills, Spares, Heads
  <2>4. Then(<<u, v>>)
    BY <1>3, <1>14
  <2> HIDE DEF u, v
  <2>5. todo' = Pair(u, v) \o r
    BY <2>4 DEF Then, Pair
  <2>6. MayFollow(u.do, v.do) /\ MayFollow(v.do, r[1].do) /\ v.do # "end-of-compound"
    <3>1. MayFollow(u.do, "end-of-else")
      BY <2>1, Follows DEF StatementTasks, Guards, StatementKinds, ExpressionTasks, ExpressionKinds
    <3>2. MayFollow("end-of-else", r[1].do)
      BY <1>5, Follows DEF StatementTasks
    <3>q. QED
      BY <2>2, <3>1, <3>2
  <2> HIDE DEF r
  <2>7. Tasks(todo') /\ Hung(v, r, todo')
    <3>1. Tasks(r) /\ InFunction(r)
      BY <1>5
    <3>q. QED
      BY ONLY <3>1, <2>1, <2>2, <2>5, <2>6, PushBranch
  <2>8. /\ InFunction(todo') /\ Ends(todo') = Ends(r) /\ ToFill(todo') = {b} \cup ToFill(r)
        /\ Needless(todo') = Needless(r) /\ LoopHeads(todo') = LoopHeads(r)
        /\ Disjoint(todo') <=> Disjoint(r) /\ {b} \cap ToFill(r) = {}
    BY <2>2, <2>3, <2>7 DEF Hung
  <2>9. blocks' = x.bs /\ insert' = d
    BY <1>3, <1>11, <1>14, AtIs
  <2>10. W \ {d} = ToFill(todo')
    BY <1>5, <1>7, <2>8
  <2>11. Building(blocks', insert', ToFill(todo'), f) /\ ~Terminated(blocks', insert')
    BY <1>10, <2>9, <2>10 DEF Behind
  <2>12. Plan(todo', blocks', f)
    <3>1. Shorter(todo, todo')
      BY <1>5, <1>7, <2>8 DEF Shorter
    <3>2. \A n \in Needless(todo') : blocks'[n].pre = blocks[n].pre
      BY <1>12, <1>13, <2>8, <2>9
    <3>3. \A n \in LoopHeads(todo') : blocks'[n].fun = blocks[n].fun
      BY <1>9, <1>12, <2>8, <2>9
    <3>4. Plan(todo, blocks, f) /\ Len(blocks) \in Nat /\ Len(blocks') \in Nat /\ Len(blocks) <= Len(blocks')
      BY <1>6, <1>12, <2>9
    <3>q. QED
      BY ONLY <3>1, <3>2, <3>3, <3>4, PlanLeft
  <2>13. BlockInv'
    BY <1>1, <1>6, <2>8, <2>11, <2>12, OpenBody DEF f
  <2>q. QED
    BY <1>5, <2>7, <2>8, <2>13
\* The block of the other branch is needless.
<1>15. CASE ~hasElse
  <2> DEFINE y == Removed(x, d)
  <2>1. blocks' = At(y, b).bs /\ insert' = At(y, b).at /\ todo' = r
    BY <1>2, <1>3, <1>15
  <2> HIDE DEF r
  <2>2. x.bs[d].pre = <<>>
    <3>1. d \in Needless(todo)
      BY <1>4, <1>5, <1>15
    <3>2. blocks[d].pre = <<>>
      BY <1>6, <3>1 DEF Plan
    <3>q. QED
      BY <1>7, <1>8, <1>12, <3>2
  <2>3. /\ Graph(x.bs) /\ IsBlocks(x.bs) /\ d \in 1 .. Len(x.bs) /\ ~Terminated(x.bs, d)
    <3>1. Graph(x.bs) /\ IsBlocks(x.bs)
      BY <1>11 DEF Building, Graph
    <3>2. d \in 1 .. Len(x.bs)
      BY <1>8, <1>12
    <3>q. QED
      BY <1>10, <3>1, <3>2 DEF Behind
  <2>4. x.bs[d].succ = <<>>
    BY <2>3, AtTheEnd
  <2>5. IsContext(y) /\ y.bs = SetFun(x.bs, d, "removed")
    BY <1>11, <2>2, <2>3, <2>4, RemovedIs
  <2> HIDE DEF y
  <2>6. blocks' = y.bs /\ insert' = b
    BY <2>1, <2>5, AtIs
  <2>7. /\ Building(y.bs, x.at, W \ {d}, f) /\ Len(y.bs) = Len(x.bs)
        /\ \A n \in 1 .. Len(x.bs) : /\ y.bs[n].pre = x.bs[n].pre
                                     /\ n # d => y.bs[n].fun = x.bs[n].fun
                                     /\ Terminated(y.bs, n) <=> Terminated(x.bs, n)
    <3>1. Building(x.bs, x.at, W, f) /\ d \in W /\ y.bs = SetFun(x.bs, d, "removed")
      BY <1>8, <1>11, <2>5
    <3>2. Building(y.bs, x.at, W \ {d}, f) /\ ButFor(d, x.bs, y.bs)
      BY ONLY <2>2, <3>1, Discarded
    <3>q. QED
      BY <3>2 DEF ButFor
  <2>8. Terminated(y.bs, x.at)
    <3>1. x.at \in 1 .. Len(x.bs)
      BY <1>11 DEF Building
    <3>q. QED
      BY <1>11, <2>7, <3>1
  <2> DEFINE V == W \ {d}
  <2>9. b \in V /\ V \ {b} = ToFill(r)
    BY <1>5, <1>7, <1>8
  <2>10. Building(y.bs, x.at, V, f)
    BY <2>7
  <2> HIDE DEF V
  <2>11. Building(y.bs, b, V \ {b}, f) /\ ~Terminated(y.bs, b)
    BY <2>8, <2>9, <2>10, Resumed
  <2>12. Building(blocks', insert', ToFill(todo'), f) /\ ~Terminated(blocks', insert')
    BY <2>1, <2>6, <2>9, <2>11
  <2>13. Plan(todo', blocks', f)
    <3>1. Shorter(todo, r)
      BY <1>5, <1>7 DEF Shorter
    <3>2. \A n \in 1 .. Len(blocks) : n \in 1 .. Len(x.bs)
      BY <1>12
    <3>3. \A n \in Needless(r) : blocks'[n].pre = blocks[n].pre
      BY <1>12, <1>13, <2>6, <2>7, <3>2
    <3>4. \A n \in LoopHeads(r) : blocks'[n].fun = blocks[n].fun
      BY <1>8, <1>9, <1>12, <2>6, <2>7, <3>2
    <3>5. Plan(todo, blocks, f) /\ Len(blocks) \in Nat /\ Len(blocks') \in Nat /\ Len(blocks) <= Len(blocks')
      BY <1>6, <1>12, <2>6, <2>7
    <3>6. Plan(r, blocks', f)
      BY ONLY <3>1, <3>3, <3>4, <3>5, PlanLeft
    <3>q. QED
      BY <2>1, <3>6
  <2>14. InFunction(todo')
    BY <1>5, <2>1
  <2>15. BlockInv'
    BY <1>1, <1>6, <2>12, <2>13, <2>14, OpenBody DEF f
  <2>q. QED
    BY <1>5, <2>1, <2>15
<1>q. QED
  BY <1>14, <1>15

-----------------------------------------------------------------------------
(* The scopes.                                                               *)

LEMMA BindSeq ==
  ASSUME NEW sc, IsSeq(sc), sc # <<>>, NEW id, NEW v
  PROVE  IsSeq(Bind(sc, id, v)) /\ Len(Bind(sc, id, v)) = Len(sc)
<1> DEFINE s == Bind(sc, id, v)
<1>1. Len(sc) \in Nat /\ DOMAIN sc = 1 .. Len(sc)
  BY DEF IsSeq
<1>2. s = [n \in 1 .. Len(sc) |-> s[n]]
  BY <1>1 DEF Bind
<1> HIDE DEF s
<1>3. IsSeq(s) /\ Len(s) = Len(sc)
  BY <1>1, <1>2, FunctionSeq
<1>q. QED
  BY <1>3 DEF s

\* An address is wanted of a variable only.
LEMMA NoRequest ==
  ASSUME ScopeInv, NEW t, Doing(t), t # "var"
  PROVE  require_lvalue = FALSE
BY DEF ScopeInv, Doing

LEMMA ScopeStep ==
  ASSUME IsSeq(scope'), Len(scope') = 1 + Ends(todo'), require_lvalue' = FALSE
  PROVE  ScopeInv'
BY DEF ScopeInv

LEMMA ScopeParts ==
  ASSUME Tasks(todo), ScopeInv
  PROVE  IsSeq(scope) /\ Len(scope) = 1 + Ends(todo) /\ Ends(todo) \in Nat /\ scope # <<>>
<1>1. IsSeq(scope) /\ Len(scope) = 1 + Ends(todo)
  BY DEF ScopeInv
<1>2. Ends(todo) \in Nat
  <2>1. IsSeq(todo)
    BY DEF Tasks
  <2>2. CASE todo = <<>>
    BY <2>1, <2>2, InFunctionEnds, EmptyIs
  <2>3. CASE todo # <<>>
    <3>1. Ends(Tail(todo)) \in Nat /\ Ends(todo) = Ends(Tail(todo)) + (IF todo[1].do \in EndKinds THEN 1 ELSE 0)
      BY <2>1, <2>3, EndsFirst
    <3>q. QED
      BY <3>1
  <2>q. QED
    BY <2>2, <2>3
<1>3. Len(scope) >= 1
  BY <1>1, <1>2
<1>q. QED
  BY <1>1, <1>2, <1>3, NotEmpty

LEMMA PlainScopes ==
  ASSUME Tasks(todo), ScopeInv, PlainNext
  PROVE  ScopeInv'
<1>1. Ends(todo') = Ends(todo) /\ Tasks(todo') /\ todo' # <<>>
  BY PlainSteps DEF Moved
<1>2. IsSeq(scope) /\ Len(scope) = 1 + Ends(todo) /\ scope # <<>>
  BY ScopeParts
<1>3. IsSeq(scope') /\ Len(scope') = 1 + Ends(todo')
  <2>1. CASE Parameter
    <3>1. scope' = scope \/ \E id, v : scope' = Bind(scope, id, v)
      BY <2>1 DEF Parameter
    <3>2. IsSeq(scope') /\ Len(scope') = Len(scope)
      BY <1>2, <3>1, BindSeq
    <3>q. QED
      BY <1>1, <1>2, <3>2
  <2>2. CASE \/ NextStatement \/ AfterStatement \/ ExpressionStmt \/ SelectionStmt
             \/ ReturnStmt \/ ReturnValue \/ Num \/ Var \/ IndexedVar \/ Element
             \/ AssignExpression \/ AssignTo \/ AssignStore \/ Binary \/ RightOperand \/ Operate
             \/ CallExpression \/ NextArg \/ Arg \/ MakeCall
    <3>1. scope' = scope
      BY <2>2 DEF NextStatement, AfterStatement, ExpressionStmt, SelectionStmt, ReturnStmt, ReturnValue, Num, Var,
           IndexedVar, Element, AssignExpression, AssignTo, AssignStore, Binary, RightOperand, Operate,
           CallExpression, NextArg, Arg, MakeCall
    <3>q. QED
      BY <1>1, <1>2, <3>1
  <2>q. QED
    BY <2>1, <2>2 DEF PlainNext
<1>4. CASE Var \/ IndexedVar
  <2>1. require_lvalue' = FALSE
    BY <1>4 DEF Var, IndexedVar
  <2>q. QED
    BY <1>3, <2>1, ScopeStep
<1>5. CASE Element
  <2>1. require_lvalue = FALSE
    BY <1>5, NoRequest DEF Element
  <2>2. require_lvalue' = FALSE
    BY <1>5, <2>1 DEF Element
  <2>q. QED
    BY <1>3, <2>2, ScopeStep
<1>6. CASE AssignTo
  <2>1. todo'[1].do = "var" /\ Len(todo') > 1 /\ todo'[2].do = "store"
    BY <1>6, PlainSteps
  <2>2. IsSeq(todo')
    BY <1>1 DEF Tasks
  <2>3. Head(todo') = todo'[1]
    BY <1>1, <2>2, Thens
  <2>4. Doing("var")'
    BY <1>1, <2>1, <2>3 DEF Doing, Task
  <2>5. require_lvalue' = TRUE
    BY <1>6 DEF AssignTo
  <2>q. QED
    BY <1>3, <2>1, <2>4, <2>5 DEF ScopeInv
<1>7. CASE \/ Parameter \/ NextStatement \/ AfterStatement \/ ExpressionStmt \/ SelectionStmt
           \/ ReturnStmt \/ ReturnValue \/ Num
           \/ AssignExpression \/ AssignStore \/ Binary \/ RightOperand \/ Operate
           \/ CallExpression \/ NextArg \/ Arg \/ MakeCall
  <2>1. require_lvalue' = require_lvalue
    BY <1>7 DEF Parameter, NextStatement, AfterStatement, ExpressionStmt, SelectionStmt, ReturnStmt, ReturnValue, Num,
         AssignExpression, AssignStore, Binary, RightOperand, Operate, CallExpression, NextArg, Arg, MakeCall
  <2>2. \E t : Doing(t) /\ t # "var"
    BY SMTT(30), <1>7 DEF Parameter, NextStatement, AfterStatement, ExpressionStmt, SelectionStmt, ReturnStmt, ReturnValue, Num,
         AssignExpression, AssignStore, Binary, RightOperand, Operate, CallExpression, NextArg, Arg, MakeCall
  <2>3. require_lvalue' = FALSE
    BY <2>1, <2>2, NoRequest
  <2>q. QED
    BY <1>3, <2>3, ScopeStep
<1>q. QED
  BY <1>4, <1>5, <1>6, <1>7 DEF PlainNext

\* The actions that are not plain.
LEMMA OtherScopes ==
  ASSUME Tasks(todo), ScopeInv, BlockInv,
         \/ VarDeclaration \/ FunDeclaration \/ EndFunction \/ CompoundStmt \/ EndCompound
         \/ SelectionBranch \/ EndIf \/ EndElse \/ IterationStmt \/ IterationBranch \/ EndWhile
  PROVE  ScopeInv'
<1>1. IsSeq(scope) /\ Len(scope) = 1 + Ends(todo) /\ scope # <<>> /\ Ends(todo) \in Nat
  BY ScopeParts
<1>2. require_lvalue' = FALSE
  <2>1. require_lvalue' = require_lvalue
    BY DEF VarDeclaration, FunDeclaration, EndFunction, CompoundStmt, EndCompound,
           SelectionBranch, EndIf, EndElse, IterationStmt, IterationBranch, EndWhile
  <2>2. \E t : Doing(t) /\ t # "var"
    BY DEF VarDeclaration, FunDeclaration, EndFunction, CompoundStmt, EndCompound,
           SelectionBranch, EndIf, EndElse, IterationStmt, IterationBranch, EndWhile
  <2>q. QED
    BY <2>1, <2>2, NoRequest
<1> SUFFICES IsSeq(scope') /\ Len(scope') = 1 + Ends(todo')
  BY <1>2, ScopeStep
<1>3. CASE VarDeclaration
  <2>1. \E id, v : scope' = Bind(scope, id, v)
    BY <1>3 DEF VarDeclaration
  <2>2. IsSeq(scope') /\ Len(scope') = Len(scope)
    BY <1>1, <2>1, BindSeq
  <2>3. Ends(todo') = Ends(todo)
    BY <1>3, VarDeclarationStep
  <2>q. QED
    BY <1>1, <2>2, <2>3
<1>4. CASE FunDeclaration
  <2>1. PICK id, v : scope' = Append(Bind(scope, id, v), <<>>)
    BY <1>4 DEF FunDeclaration
  <2> DEFINE sc == Bind(scope, id, v)
  <2>2. IsSeq(sc) /\ Len(sc) = Len(scope)
    BY <1>1, BindSeq
  <2>3. scope' = Append(sc, <<>>)
    BY <2>1
  <2> HIDE DEF sc
  <2>4. IsSeq(scope') /\ Len(scope') = Len(sc) + 1
    BY <2>2, <2>3, AppendSeq
  <2>5. Ends(todo) = 0 /\ Ends(todo') = 1
    BY <1>4, FunDeclarationStep
  <2>q. QED
    BY <1>1, <2>2, <2>4, <2>5
<1>5. CASE CompoundStmt
  <2>1. scope' = Append(scope, <<>>)
    BY <1>5 DEF CompoundStmt
  <2>2. IsSeq(scope') /\ Len(scope') = Len(scope) + 1
    BY <1>1, <2>1, AppendSeq
  <2>3. Ends(todo') = Ends(todo) + 1
    BY <1>5, CompoundStmtStep
  <2>q. QED
    BY <1>1, <2>2, <2>3
<1>6. CASE EndFunction \/ EndCompound
  <2>1. scope' = Front(scope)
    BY <1>6 DEF EndFunction, EndCompound
  <2>2. IsSeq(scope') /\ Len(scope') = Len(scope) - 1
    BY <1>1, <2>1, FrontSeq
  <2>3. Ends(todo) = Ends(todo') + 1 /\ Ends(todo') \in Nat
    <3>1. CASE EndFunction
      <4>1. Ends(todo) = 1 /\ Ends(todo') = 0
        BY <3>1, EndFunctionStep
      <4>q. QED
        BY <4>1
    <3>2. CASE EndCompound
      BY <3>2, EndCompoundStep
    <3>q. QED
      BY <1>6, <3>1, <3>2
  <2>q. QED
    BY <1>1, <2>2, <2>3
<1>7. CASE SelectionBranch \/ EndIf \/ EndElse \/ IterationStmt \/ IterationBranch \/ EndWhile
  <2>1. scope' = scope
    BY <1>7 DEF SelectionBranch, EndIf, EndElse, IterationStmt, IterationBranch, EndWhile
  <2>2. Ends(todo') = Ends(todo)
    BY <1>7, SelectionBranchStep, EndIfStep, EndElseStep, IterationStmtStep, IterationBranchStep, EndWhileStep
  <2>q. QED
    BY <1>1, <2>1, <2>2
<1>q. QED
  BY <1>3, <1>4, <1>5, <1>6, <1>7

-----------------------------------------------------------------------------
(* The theorems.                                                             *)

LEMMA InitIInv == Init => IInv
<1> SUFFICES ASSUME Init PROVE IInv
  OBVIOUS
<1>1. prog \in Seq(Declaration) /\ todo = [n \in DOMAIN prog |-> Visit(prog[n])]
  BY ProgramsAssumption DEF Init
<1>2. IsSeq(prog) /\ (\A n \in 1 .. Len(prog) : prog[n] \in Declaration) /\ DOMAIN prog = 1 .. Len(prog) /\ Len(prog) \in Nat
  <2>1. IsSeq(prog) /\ \A n \in 1 .. Len(prog) : prog[n] \in Declaration
    BY <1>1, SeqIs
  <2>q. QED
    BY <2>1 DEF IsSeq
<1>3. IsSeq(todo) /\ Len(todo) = Len(prog)
  <2>1. todo = [n \in 1 .. Len(prog) |-> todo[n]]
    BY <1>1, <1>2
  <2>q. QED
    BY <1>2, <2>1, FunctionSeq
<1>4. ASSUME NEW n \in 1 .. Len(todo) PROVE IsTask(todo[n]) /\ todo[n].do \in DeclKinds
  <2>1. todo[n] = Visit(prog[n]) /\ prog[n] \in Declaration
    BY <1>1, <1>2, <1>3
  <2>q. QED
    BY <2>1, VisitDeclaration
<1>5. Tasks(todo)
  <2>1. \A n \in 1 .. Len(todo) : n - 1 \in 1 .. Len(todo) \/ n = 1
    BY <1>2, <1>3
  <2>2. \A n \in 1 .. Len(todo) - 1 : n \in 1 .. Len(todo)
    BY <1>2, <1>3
  <2>3. \A n \in 1 .. Len(todo) - 1 : MayFollow(todo[n].do, todo[n + 1].do)
    BY <1>4, <2>2 DEF MayFollow, DeclKinds, StatementTasks, StatementKinds, ExpressionTasks, ExpressionKinds
  <2>4. ASSUME NEW n \in 1 .. Len(todo), NEW m \in n + 1 .. Len(todo) PROVE todo[m].do \in DeclKinds
    <3>1. m \in 1 .. Len(todo)
      BY <1>2, <1>3, <2>4
    <3>q. QED
      BY <1>4, <3>1
  <2>q. QED
    BY <1>3, <1>4, <2>3, <2>4 DEF Tasks
<1>6. ~InFunction(todo) /\ Ends(todo) = 0
  BY <1>3, <1>4, OnlyDeclarations
<1>7. ScopeInv
  <2>1. scope = <<Runtime>> /\ require_lvalue = FALSE
    BY DEF Init
  <2>2. IsSeq(scope) /\ Len(scope) = 1
    BY <2>1, UnitSeq
  <2>3. Len(scope) = 1 + Ends(todo)
    BY <1>6, <2>2
  <2>4. require_lvalue \in BOOLEAN /\ ~require_lvalue
    BY <2>1
  <2>q. QED
    BY <2>2, <2>3, <2>4 DEF ScopeInv
<1>8. Graph(blocks) /\ Complete(blocks, {})
  <2>1. blocks = <<>>
    BY DEF Init
  <2>2. IsSeq(blocks) /\ 1 .. Len(blocks) = {}
    BY <2>1, EmptyIs
  <2>q. QED
    BY <2>2 DEF Graph, IsBlocks, Sealed, Counted, Branching, Linked, Homely, Complete
<1>q. QED
  BY <1>5, <1>6, <1>7, <1>8 DEF IInv, BlockInv, Blocks

LEMMA NextIInv == IInv /\ [Next]_vars => IInv'
<1> SUFFICES ASSUME IInv, [Next]_vars PROVE IInv'
  OBVIOUS
<1>1. Tasks(todo) /\ ScopeInv /\ BlockInv
  BY DEF IInv
<1>2. CASE PlainNext
  <2>1. Tasks(todo')
    BY <1>1, <1>2, PlainSteps DEF Moved
  <2>2. ScopeInv'
    BY <1>1, <1>2, PlainScopes
  <2>3. BlockInv'
    BY <1>1, <1>2, PlainBuilds
  <2>q. QED
    BY <2>1, <2>2, <2>3 DEF IInv
<1>3. CASE \/ VarDeclaration \/ FunDeclaration \/ EndFunction \/ CompoundStmt \/ EndCompound
           \/ SelectionBranch \/ EndIf \/ EndElse \/ IterationStmt \/ IterationBranch \/ EndWhile
  <2>1. ScopeInv'
    BY <1>1, <1>3, OtherScopes
  <2>2. Tasks(todo') /\ BlockInv'
    BY <1>1, <1>3, VarDeclarationStep, FunDeclarationStep, EndFunctionStep, CompoundStmtStep, EndCompoundStep,
       SelectionBranchStep, EndIfStep, EndElseStep, IterationStmtStep, IterationBranchStep, EndWhileStep
  <2>q. QED
    BY <2>1, <2>2 DEF IInv
<1>4. CASE UNCHANGED vars
  BY <1>1, <1>4 DEF vars, IInv, ScopeInv, BlockInv, Doing, Task
<1>q. QED
  BY <1>2, <1>3, <1>4 DEF Next, PlainNext

\* The tasks, the scopes and the blocks fit together in every state.
THEOREM Invariance == Spec => []IInv
BY InitIInv, NextIInv, PTL DEF Spec

LEMMA IInvScopes == IInv => ScopesMatch
BY DEF IInv, ScopeInv, ScopesMatch, Ends, EndKinds

\* The scopes entered are those whose visit has not ended, whatever returns cut short
\* the statements in them, and only an assignment asks for an address.
THEOREM ScopesMatching == Spec => []ScopesMatch
BY Invariance, IInvScopes, PTL

LEMMA IInvBlocks == IInv => WellFormed
<1> SUFFICES ASSUME IInv PROVE WellFormed
  OBVIOUS
<1>1. Graph(blocks) /\ (~InFunction(todo) => Complete(blocks, {}))
  BY DEF IInv, BlockInv, Blocks, InBody, Building
<1>2. DOMAIN blocks = 1 .. Len(blocks)
  BY <1>1 DEF Graph, IsBlocks, IsSeq
<1>3. \A b \in DOMAIN blocks : \A n \in 1 .. Len(Code(b)) - 1 : Code(b)[n].op \notin {"ret", "br"}
  BY <1>1, <1>2 DEF Graph, Sealed, Code, Terminators
<1>4. \A b, c \in DOMAIN blocks : Count(blocks[b].succ, c) = Count(blocks[c].pre, b)
  BY <1>1, <1>2 DEF Graph, Counted
<1>5. \A b \in DOMAIN blocks : \A c :
        c \in Range(blocks[b].succ) <=> Terminated(blocks, b) /\ c \in Targets(Last(Code(b)))
  BY <1>1, <1>2 DEF Graph, Branching, Code
<1>6. ASSUME todo = <<>>, NEW b \in InUse
      PROVE  /\ Terminated(blocks, b)
             /\ \A c \in Targets(Last(Code(b))) : blocks[c].fun = blocks[b].fun
  <2>1. b \in 1 .. Len(blocks) /\ blocks[b].fun # "removed"
    BY <1>2, <1>6 DEF InUse
  <2>2. ~InFunction(todo)
    BY <1>6, InFunctionEnds, EmptyIs
  <2>3. Terminated(blocks, b)
    BY <1>1, <2>1, <2>2 DEF Complete
  <2>4. \A c \in Targets(Last(Code(b))) : c \in Range(blocks[b].succ)
    BY <1>2, <1>5, <2>1, <2>3
  <2>q. QED
    BY <1>1, <2>1, <2>3, <2>4 DEF Graph, Homely
<1>q. QED
  BY <1>3, <1>4, <1>5, <1>6 DEF WellFormed

\* Nothing is behind a terminator, the lists of predecessors and successors tell the
\* edges, and in the end every block has a terminator and branches in its function.
THEOREM BlocksWellFormed == Spec => []WellFormed
BY Invariance, IInvBlocks, PTL

-----------------------------------------------------------------------------
(* Types.                                                                    *)

Helper == "neg_idx_except"

\* What a variable is a variable of: a number, an array of numbers, or a pointer to them.
Pointees  == Numbers \cup {Arr(t) : t \in Numbers} \cup {Ptr(t) : t \in Numbers}
Addresses == {Ptr(t) : t \in Numbers}

FunTyped(v) == /\ v.ty = <<"fun">> /\ v.ret \in {I32, Float, Void} /\ IsSeq(v.params)
               /\ \A m \in 1 .. Len(v.params) : v.params[m] \in Numbers \cup Addresses
VarTyped(v) == \E p \in Pointees : v.ty = Ptr(p)

\* The helper is the one of the run time, in every scope.
ScopeTyped(sc) ==
  /\ \A l \in 1 .. Len(sc) : \A id \in DOMAIN sc[l] : sc[l][id] # None /\ (FunTyped(sc[l][id]) \/ VarTyped(sc[l][id]))
  /\ Helper \in DOMAIN sc[1] /\ sc[1][Helper] = Fun(Helper, Void, <<>>)
  /\ \A l \in 2 .. Len(sc) : Helper \notin DOMAIN sc[l]

-----------------------------------------------------------------------------
(* The tasks and the values they hand on.                                    *)

\* Entering a function: the parameters done so far.
Entering(t) == /\ t = [do |-> "parameters", node |-> t.node, done |-> t.done]
               /\ t.node \in Nodes /\ t.node.k = "fun-declaration" /\ t.done \in 0 .. Len(t.node.params)

CallTyped(sc, t) ==
  /\ t = [do |-> t.do, fun |-> t.fun, rest |-> t.rest, done |-> t.done] /\ FunTyped(t.fun)
  /\ IsSeq(t.done) /\ Len(t.done) + Len(t.rest) = Len(t.fun.params)
  /\ \A m \in 1 .. Len(t.done) : t.done[m].ty = t.fun.params[m]
  /\ \A m \in 1 .. Len(t.rest) : Fits(sc, t.rest[m], t.fun.params[Len(t.done) + m])

\* The values a task has kept, and what is still to be visited, have the types they should.
TaskTyped(sc, ret, pr, t) ==
  /\ t.do = "assign-to"        => IsNumber(sc, t.node.var)
  /\ t.do = "right-operand"    => IsNumber(sc, t.node.r)
  /\ t.do = "operate"          => t.l_val.ty \in Numbers
  /\ t.do = "store"            => t.result.ty \in Numbers
  /\ t.do = "element"          => VarTyped(t.var) /\ t.lvalue \in BOOLEAN
  /\ t.do \in {"args", "arg"}  => CallTyped(sc, t)
  /\ t.do = "return-value"     => ret \in Numbers
  /\ t.do = "fun-declaration"  => \E n \in DOMAIN pr : pr[n] = t.node
  /\ t.do = "parameters"       => Entering(t)

\* The types of the value tmp_val has after a task, and of the one another waits for.
OfCall(ret) == IF ret = Void THEN {Void} ELSE Numbers
Given(sc, lv, t) ==
  IF (t.do = "var" /\ lv) \/ (t.do = "element" /\ t.lvalue) THEN Addresses
  ELSE IF t.do \in ExpressionKinds THEN TypesOf(sc, t.node)
  ELSE IF t.do \in {"args", "arg"} THEN OfCall(t.fun.ret)
  ELSE Numbers
Wanted(t) ==
  IF t.do = "store" THEN Addresses
  ELSE IF t.do = "arg" THEN Accepted(t.fun.params[Len(t.done) + 1])
  ELSE Numbers

\* Tasks of expressions lie above all others, and what waits for a value below them.
TasksTyped(q, sc, ret, pr, lv) ==
  /\ \A n \in 1 .. Len(q) : TaskTyped(sc, ret, pr, q[n])
  /\ \A m, n \in 1 .. Len(q) :
       m < n /\ q[n].do \in ExpressionTasks \cup Takers => q[m].do \in ExpressionTasks
  /\ \A n \in 1 .. Len(q) - 1 : q[n].do \in ExpressionTasks /\ q[n + 1].do \in Takers =>
       Given(sc, lv /\ n = 1, q[n]) \subseteq Wanted(q[n + 1])

ValueTyped(q, v) ==
  /\ v = None \/ v.ty \in Numbers \cup Addresses \cup {Void}
  /\ q # <<>> /\ q[1].do \in Takers => v.ty \in Wanted(q[1])

\* The function being built is one of the program.
RetType(d) == IF d.ret = "void" THEN Void ELSE IF d.ret = "int" THEN I32 ELSE Float
Declared(pr, fun) ==
  \E n \in DOMAIN pr : pr[n].k = "fun-declaration" /\ pr[n].id = fun.ref[2] /\ fun.ret = RetType(pr[n])

RightBlocks(bs) ==
  \A b \in 1 .. Len(bs) : bs[b].fun # "removed" => \A n \in 1 .. Len(bs[b].code) : RightTypes(bs[b].code[n], Signature(prog, bs[b].fun))

TypeInv ==
  /\ ScopeTyped(scope)
  /\ TasksTyped(todo, scope, cur_fun.ret, prog, require_lvalue) /\ ValueTyped(todo, tmp_val)
  /\ require_lvalue => IsNumber(scope, Task.node)
  /\ InFunction(todo) => Declared(prog, cur_fun)
  /\ RightBlocks(blocks)
  /\ insert \in 0 .. Len(blocks)

-----------------------------------------------------------------------------
(* Facts about types.                                                        *)

LEMMA UnitType ==
  ASSUME NEW a
  PROVE  IsSeq(<<a>>) /\ Head(<<a>>) = a /\ Len(<<a>>) = 1
<1>1. IsSeq(<<a>>) /\ Len(<<a>>) = 1 /\ <<a>>[1] = a
  BY UnitSeq
<1>2. <<a>> # <<>>
  OBVIOUS
<1>q. QED
  BY <1>1, <1>2, Thens

LEMMA ScalarTypes ==
  /\ IsSeq(I32) /\ Head(I32) = "i32" /\ IsSeq(Float) /\ Head(Float) = "float"
  /\ IsSeq(Void) /\ Head(Void) = "void" /\ IsSeq(Bit) /\ Head(Bit) = "i1" /\ Head(<<"fun">>) = "fun"
  /\ Len(I32) = 1 /\ Len(Float) = 1 /\ Len(Void) = 1
BY UnitType DEF I32, Float, Void, Bit

LEMMA ScalarsDiffer ==
  /\ I32 # Float /\ I32 # Void /\ Float # Void /\ Bit # I32 /\ Bit # Float
  /\ IsIntegerType(I32) /\ ~IsIntegerType(Float) /\ ~IsPointerType(I32) /\ ~IsPointerType(Float)
  /\ ~IsPointerType(Void)
<1>1. I32 # Float /\ I32 # Void /\ Float # Void /\ Bit # I32 /\ Bit # Float
  BY DEF I32, Float, Void, Bit
<1>2. IsIntegerType(I32) /\ ~IsIntegerType(Float)
  BY <1>1 DEF IsIntegerType
<1>3. ~IsPointerType(I32) /\ ~IsPointerType(Float) /\ ~IsPointerType(Void)
  BY ScalarTypes DEF IsPointerType
<1>q. QED
  BY <1>1, <1>2, <1>3

LEMMA PointerTypes ==
  ASSUME NEW t, IsSeq(t)
  PROVE  /\ IsSeq(Ptr(t)) /\ Head(Ptr(t)) = "ptr" /\ Tail(Ptr(t)) = t /\ Len(Ptr(t)) = Len(t) + 1
         /\ IsSeq(Arr(t)) /\ Head(Arr(t)) = "arr" /\ Tail(Arr(t)) = t
         /\ IsPointerType(Ptr(t)) /\ Ptr(t) \notin {I32, Float, Void, Bit, <<"fun">>}
         /\ Arr(t) \notin Numbers
<1>1. IsSeq(Ptr(t)) /\ Head(Ptr(t)) = "ptr" /\ Tail(Ptr(t)) = t /\ Len(Ptr(t)) = Len(t) + 1
  BY TailOfCons, Thens DEF Ptr
<1>2. IsSeq(Arr(t)) /\ Head(Arr(t)) = "arr" /\ Tail(Arr(t)) = t
  BY TailOfCons, Thens DEF Arr
<1>3. Ptr(t) \notin {I32, Float, Void, Bit, <<"fun">>}
  BY <1>1, ScalarTypes
<1>4. Arr(t) \notin Numbers
  BY <1>2, ScalarTypes DEF Numbers
<1>q. QED
  BY <1>1, <1>2, <1>3, <1>4 DEF IsPointerType

LEMMA NumberTypes ==
  ASSUME NEW t \in Numbers
  PROVE  /\ IsSeq(t) /\ Head(t) \notin {"ptr", "arr"} /\ ~IsPointerType(t)
         /\ Ptr(t) \in Addresses /\ t # Void /\ t # Bit /\ Ptr(t) \notin Numbers /\ Ptr(Ptr(t)) \notin Addresses
<1>1. IsSeq(t) /\ Head(t) \notin {"ptr", "arr"} /\ ~IsPointerType(t) /\ t # Void /\ t # Bit
  BY ScalarTypes, ScalarsDiffer DEF Numbers
<1>2. Ptr(t) \in Addresses
  BY DEF Addresses
<1>3. Ptr(t) \notin Numbers /\ IsSeq(Ptr(t)) /\ Tail(Ptr(Ptr(t))) = Ptr(t)
  BY <1>1, PointerTypes DEF Numbers
<1>4. ASSUME NEW u \in Numbers PROVE Ptr(Ptr(t)) # Ptr(u)
  <2>1. Tail(Ptr(u)) = u
    BY ScalarTypes, PointerTypes DEF Numbers
  <2>q. QED
    BY <1>3, <2>1
<1>5. Ptr(Ptr(t)) \notin Addresses
  BY <1>4 DEF Addresses
<1>q. QED
  BY <1>1, <1>2, <1>3, <1>5

\* The three kinds of variables.
LEMMA Variables ==
  ASSUME NEW v, VarTyped(v)
  PROVE  /\ v.ty # <<"fun">>
         /\ \E t \in Numbers :
            \/ v.ty = Ptr(t) /\ Tail(v.ty) = t /\ Tail(v.ty) \in Numbers
            \/ /\ v.ty = Ptr(Arr(t)) /\ Tail(v.ty) \notin Numbers /\ Head(Tail(v.ty)) = "arr"
               /\ Tail(Tail(v.ty)) = t
            \/ /\ v.ty = Ptr(Ptr(t)) /\ Tail(v.ty) \notin Numbers /\ Head(Tail(v.ty)) = "ptr"
               /\ Tail(Tail(v.ty)) = t /\ Tail(v.ty) = Ptr(t)
<1>1. PICK p \in Pointees : v.ty = Ptr(p)
  BY DEF VarTyped
<1>2. CASE p \in Numbers
  <2>1. IsSeq(p)
    BY <1>2, NumberTypes
  <2>2. v.ty # <<"fun">> /\ Tail(v.ty) = p
    BY <1>1, <2>1, PointerTypes
  <2>q. QED
    BY <1>1, <1>2, <2>2
<1>3. CASE \E t \in Numbers : p = Arr(t)
  <2>1. PICK t \in Numbers : p = Arr(t)
    BY <1>3
  <2>2. IsSeq(t)
    BY NumberTypes
  <2>3. IsSeq(p) /\ Head(p) = "arr" /\ Tail(p) = t /\ p \notin Numbers
    BY <2>1, <2>2, PointerTypes
  <2>4. v.ty # <<"fun">> /\ Tail(v.ty) = p
    BY <1>1, <2>3, PointerTypes
  <2>q. QED
    BY <1>1, <2>1, <2>3, <2>4
<1>4. CASE \E t \in Numbers : p = Ptr(t)
  <2>1. PICK t \in Numbers : p = Ptr(t)
    BY <1>4
  <2>2. IsSeq(t) /\ Ptr(t) \notin Numbers
    BY NumberTypes
  <2>3. IsSeq(p) /\ Head(p) = "ptr" /\ Tail(p) = t /\ p \notin Numbers
    BY <2>1, <2>2, PointerTypes
  <2>4. v.ty # <<"fun">> /\ Tail(v.ty) = p
    BY <1>1, <2>3, PointerTypes
  <2>q. QED
    BY <1>1, <2>1, <2>3, <2>4
<1>q. QED
  BY <1>2, <1>3, <1>4 DEF Pointees

-----------------------------------------------------------------------------
(* Instructions with operands of the right types.                            *)

Right(op, t, args, f) == RightTypes(Instruction(op, t, args), Signature(prog, f))

LEMMA RightUnary ==
  ASSUME NEW t, NEW v, NEW f
  PROVE  /\ Right("alloca", t, <<v>>, f)
         /\ v.ty = Ptr(t) => Right("load", t, <<v>>, f)
         /\ IsIntegerType(v.ty) => Right("icmp_ne0", t, <<v>>, f)
         /\ v.ty = Float => Right("fcmp_ne0", t, <<v>>, f) /\ Right("fptosi", t, <<v>>, f)
         /\ v.ty = I32 => Right("icmp_lt0", t, <<v>>, f) /\ Right("sitofp", t, <<v>>, f)
         /\ v.ty = Bit => Right("zext", t, <<v>>, f)
BY DEF Right, RightTypes, Instruction

LEMMA RightStore ==
  ASSUME NEW t, NEW v, NEW a, a.ty = Ptr(v.ty), NEW f
  PROVE  Right("store", t, <<v, a>>, f)
BY DEF Right, RightTypes, Instruction

LEMMA RightGep ==
  ASSUME NEW t, IsSeq(t), NEW v, v.ty = Ptr(t) \/ v.ty = Ptr(Arr(t)), NEW n, n.ty = I32, NEW f
  PROVE  Right("gep", Ptr(t), <<v, n>>, f)
<1> DEFINE p == Ptr(t)
<1>1. Tail(p) = t
  BY PointerTypes
<1>2. v.ty = p \/ v.ty = Ptr(Arr(Tail(p)))
  BY <1>1
<1> HIDE DEF p
<1>3. Right("gep", p, <<v, n>>, f)
  BY <1>2 DEF Right, RightTypes, Instruction
<1>q. QED
  BY <1>3 DEF p

LEMMA RightOperation ==
  ASSUME NEW op \in Binops, NEW t, NEW l, NEW r, l.ty = r.ty, l.ty \in Numbers, NEW f,
         t = (IF op \in Relops THEN Bit ELSE l.ty)
  PROVE  Right(op, t, <<l, r>>, f)
<1>1. op \notin {"alloca", "store", "load", "gep", "icmp_ne0", "fcmp_ne0", "icmp_lt0", "zext", "fptosi", "sitofp",
                 "br", "ret", "call"}
  BY DEF Binops, Relops
<1> DEFINE i == Instruction(op, t, <<l, r>>)
<1>2. i.op = op /\ i.ty = t /\ i.args[1] = l /\ i.args[2] = r
  BY DEF Instruction
<1> HIDE DEF i
<1>3. RightTypes(i, Signature(prog, f))
  BY <1>1, <1>2 DEF RightTypes, Numbers
<1>q. QED
  BY <1>3 DEF Right, i

LEMMA RightBranch ==
  ASSUME NEW b, NEW d, NEW cond, cond.ty = Bit, NEW f
  PROVE  Right("br", Void, <<BlockRef(b)>>, f) /\ Right("br", Void, <<cond, BlockRef(b), BlockRef(d)>>, f)
<1>1. Right("br", Void, <<cond, BlockRef(b), BlockRef(d)>>, f)
  BY DEF Right, RightTypes, Instruction
<1>2. Right("br", Void, <<BlockRef(b)>>, f)
  <2> DEFINE args == <<BlockRef(b)>>
             i == Instruction("br", Void, args)
  <2>1. Len(args) = 1
    BY UnitSeq
  <2>2. i.op = "br" /\ i.args = args
    BY DEF Instruction
  <2> HIDE DEF i, args
  <2>3. RightTypes(i, Signature(prog, f))
    BY <2>1, <2>2 DEF RightTypes
  <2>q. QED
    BY <2>3 DEF Right, i, args
<1>q. QED
  BY <1>1, <1>2

\* No function is declared twice.
Unique == \A m, n \in DOMAIN prog :
            prog[m].k = "fun-declaration" /\ prog[n].k = "fun-declaration" /\ prog[m].id = prog[n].id => m = n

LEMMA SignatureIs ==
  ASSUME Unique, Declared(prog, cur_fun)
  PROVE  RetType(Signature(prog, cur_fun.ref[2])) = cur_fun.ret
<1> DEFINE f == cur_fun.ref[2]
           P(n) == prog[n].k = "fun-declaration" /\ prog[n].id = f
           d == CHOOSE n \in DOMAIN prog : P(n)
<1>1. PICK n \in DOMAIN prog : P(n) /\ cur_fun.ret = RetType(prog[n])
  BY DEF Declared
<1>2. d \in DOMAIN prog /\ P(d)
  BY <1>1
<1>3. d = n
  BY <1>1, <1>2 DEF Unique
<1>4. Signature(prog, f) = prog[d]
  BY DEF Signature
<1> HIDE DEF d
<1>q. QED
  BY <1>1, <1>3, <1>4

LEMMA RightRet ==
  ASSUME NEW f, NEW ret, RetType(Signature(prog, f)) = ret
  PROVE  /\ ret = Void => Right("ret", Void, <<>>, f)
         /\ \A v : ret \in Numbers /\ v.ty = ret => Right("ret", Void, <<v>>, f)
<1> DEFINE d == Signature(prog, f)
           none == <<>>
           types == IF d.ret = "void" THEN <<>> ELSE IF d.ret = "int" THEN <<I32>> ELSE <<Float>>
<1>1. ret = Void => types = <<>>
  BY ScalarsDiffer DEF RetType
<1>2. ret \in Numbers => types = <<ret>>
  BY ScalarsDiffer DEF RetType, Numbers
<1>3. ASSUME ret = Void PROVE Right("ret", Void, none, f)
  <2> DEFINE i == Instruction("ret", Void, none)
  <2>1. [n \in DOMAIN none |-> none[n].ty] = <<>>
    OBVIOUS
  <2>2. i.op = "ret" /\ i.args = none
    BY DEF Instruction
  <2>3. [n \in DOMAIN none |-> none[n].ty] = types
    BY <1>1, <1>3, <2>1
  <2> HIDE DEF i, none
  <2>4. RightTypes(i, Signature(prog, f))
    BY <2>2, <2>3 DEF RightTypes
  <2>q. QED
    BY <2>4 DEF Right, i
<1>4. ASSUME NEW v, ret \in Numbers, v.ty = ret PROVE Right("ret", Void, <<v>>, f)
  <2> DEFINE args == <<v>>
             i == Instruction("ret", Void, args)
  <2>1. [n \in DOMAIN args |-> args[n].ty] = <<ret>>
    BY <1>4
  <2>2. i.op = "ret" /\ i.args = args
    BY DEF Instruction
  <2>3. [n \in DOMAIN args |-> args[n].ty] = types
    BY <1>2, <1>4, <2>1
  <2> HIDE DEF i, args
  <2>4. RightTypes(i, Signature(prog, f))
    BY <2>2, <2>3 DEF RightTypes
  <2>q. QED
    BY <2>4 DEF Right, i, args
<1>q. QED
  BY <1>3, <1>4 DEF none

LEMMA RightCall ==
  ASSUME NEW t, NEW fun, IsSeq(fun.params), NEW s, IsSeq(s), Len(s) = Len(fun.params),
         \A m \in 1 .. Len(s) : s[m].ty = fun.params[m], NEW f
  PROVE  Right("call", t, <<fun>> \o s, f)
<1> DEFINE a == <<fun>> \o s
           i == Instruction("call", t, a)
           p == fun.params
<1>1. IsSeq(a) /\ Len(a) = Len(s) + 1 /\ a[1] = fun /\ \A n \in 1 .. Len(s) : a[n + 1] = s[n]
  BY ConsSeq
<1>2. Len(a) - 1 = Len(p) /\ Len(s) \in Nat
  BY <1>1 DEF IsSeq
<1>3. i.op = "call" /\ i.args = a
  BY DEF Instruction
<1>4. p = [n \in 1 .. Len(p) |-> p[n]]
  BY DEF IsSeq
<1>5. i.args[1].params = p
  BY <1>1, <1>3
<1>6. \A m \in 1 .. Len(p) : s[m].ty = p[m]
  OBVIOUS
<1> HIDE DEF a, i, p
<1>7. [n \in 1 .. Len(a) - 1 |-> a[n + 1].ty] = p
  BY <1>1, <1>2, <1>4, <1>6
<1>8. RightTypes(i, Signature(prog, f))
  BY <1>3, <1>5, <1>7 DEF RightTypes
<1>q. QED
  BY <1>8 DEF Right, i, a

-----------------------------------------------------------------------------
(* What the builder writes.                                                  *)

Shaped(bs) == /\ IsSeq(bs)
              /\ \A b \in 1 .. Len(bs) : /\ DOMAIN bs[b] = {"fun", "code", "pre", "succ"} /\ IsSeq(bs[b].code)
                                         /\ bs[b] = [x \in {"fun", "code", "pre", "succ"} |-> bs[b][x]]

\* All blocks have right code, and the one appended to and those behind the k-th are of f.
Sound(c, f, k) ==
  /\ IsContext(c) /\ Shaped(c.bs) /\ RightBlocks(c.bs)
  /\ c.at \in 1 .. Len(c.bs) /\ c.bs[c.at].fun = f
  /\ k \in Nat /\ \A n \in 1 .. Len(c.bs) : n > k => c.bs[n].fun = f

SetField(bs, b, field, v) == [bs EXCEPT ![b][field] = v]

LEMMA FieldChanged ==
  ASSUME NEW bs, Shaped(bs), NEW b \in 1 .. Len(bs), NEW field \in {"fun", "code", "pre", "succ"}, NEW v,
         field = "code" => IsSeq(v), NEW bs2, bs2 = SetField(bs, b, field, v)
  PROVE  /\ Shaped(bs2) /\ Len(bs2) = Len(bs)
         /\ bs2[b][field] = v /\ \A g \in {"fun", "code", "pre", "succ"} : g # field => bs2[b][g] = bs[b][g]
         /\ \A n \in 1 .. Len(bs) : n # b => bs2[n] = bs[n]
<1> DEFINE F == {"fun", "code", "pre", "succ"}
           l == Len(bs)
<1>1. l \in Nat /\ bs = [n \in 1 .. l |-> bs[n]] /\ DOMAIN bs[b] = F
  BY DEF Shaped, IsSeq
<1>2. /\ bs2[b] = [bs[b] EXCEPT ![field] = v]
      /\ \A n \in 1 .. l : n # b => bs2[n] = bs[n]
  BY <1>1 DEF SetField
<1>3. bs2 = [n \in 1 .. l |-> bs2[n]]
  BY <1>1 DEF SetField
<1>4. IsSeq(bs2) /\ Len(bs2) = l
  <2> HIDE DEF l
  <2>q. QED
    BY <1>1, <1>3, FunctionSeq
<1>5. bs2[b][field] = v /\ \A g \in F : g # field => bs2[b][g] = bs[b][g]
  BY <1>1, <1>2
<1>6. DOMAIN bs2[b] = F /\ bs2[b] = [x \in F |-> bs2[b][x]]
  BY <1>1, <1>2
<1>7. IsSeq(bs2[b].code)
  BY <1>5 DEF Shaped
<1>8. \A n \in 1 .. l : DOMAIN bs2[n] = F /\ IsSeq(bs2[n].code) /\ bs2[n] = [x \in F |-> bs2[n][x]]
  BY <1>2, <1>6, <1>7 DEF Shaped
<1>9. Shaped(bs2)
  BY <1>4, <1>8 DEF Shaped
<1>q. QED
  BY <1>2, <1>4, <1>5, <1>9

\* Only the lists of edges are other ones.
SameCode(bs, bs2) ==
  /\ Shaped(bs2) /\ Len(bs2) = Len(bs)
  /\ \A b \in 1 .. Len(bs) : bs2[b].fun = bs[b].fun /\ bs2[b].code = bs[b].code

LEMMA EdgesChanged ==
  ASSUME NEW bs, Shaped(bs), NEW b \in 1 .. Len(bs), NEW v
  PROVE  SameCode(bs, [bs EXCEPT ![b].pre = v]) /\ SameCode(bs, [bs EXCEPT ![b].succ = v])
<1>1. ASSUME NEW field \in {"pre", "succ"}, NEW bs2, bs2 = SetField(bs, b, field, v)
      PROVE  SameCode(bs, bs2)
  <2>1. /\ Shaped(bs2) /\ Len(bs2) = Len(bs)
        /\ \A g \in {"fun", "code", "pre", "succ"} : g # field => bs2[b][g] = bs[b][g]
        /\ \A n \in 1 .. Len(bs) : n # b => bs2[n] = bs[n]
    <3>1. field # "code" /\ field \in {"fun", "code", "pre", "succ"}
      OBVIOUS
    <3>q. QED
      BY <1>1, <3>1, FieldChanged
  <2>2. bs2[b].fun = bs[b].fun /\ bs2[b].code = bs[b].code
    BY <1>1, <2>1
  <2>q. QED
    BY <2>1, <2>2 DEF SameCode
<1>2. SameCode(bs, SetField(bs, b, "pre", v)) /\ SameCode(bs, SetField(bs, b, "succ", v))
  BY <1>1
<1>q. QED
  BY <1>2 DEF SetField

LEMMA SameCodeTwice ==
  ASSUME NEW a, NEW b, SameCode(a, b), NEW c, SameCode(b, c)
  PROVE  SameCode(a, c)
BY DEF SameCode

LEMMA SameCodeSound ==
  ASSUME NEW c, NEW f, NEW k, Sound(c, f, k), NEW d, IsContext(d), d.at = c.at, SameCode(c.bs, d.bs)
  PROVE  Sound(d, f, k) /\ Len(d.bs) = Len(c.bs)
<1>1. Shaped(d.bs) /\ Len(d.bs) = Len(c.bs)
      /\ \A b \in 1 .. Len(c.bs) : d.bs[b].fun = c.bs[b].fun /\ d.bs[b].code = c.bs[b].code
  BY DEF SameCode
<1>2. RightBlocks(d.bs)
  BY <1>1 DEF RightBlocks, Sound
<1>q. QED
  BY <1>1, <1>2 DEF Sound

LEMMA GenSound ==
  ASSUME NEW c, NEW f, NEW k, Sound(c, f, k), NEW op, NEW t, NEW args, Right(op, t, args, f)
  PROVE  LET x == Gen(c, op, t, args)
         IN Sound(x, f, k) /\ Len(x.bs) = Len(c.bs) /\ x.v.ty = t
<1> DEFINE x == Gen(c, op, t, args)
           bs == c.bs
           i == Instruction(op, t, args)
           code == Append(bs[c.at].code, i)
<1>1. IsContext(x) /\ x.at = c.at /\ x.v.ty = t /\ x.bs = AddCode(bs, c.at, i)
  BY GenIs
<1>2. Shaped(bs) /\ c.at \in 1 .. Len(bs) /\ bs[c.at].fun = f /\ RightBlocks(bs)
  BY DEF Sound
<1>3. IsSeq(bs[c.at].code)
  BY <1>2 DEF Shaped
<1>4. /\ IsSeq(code) /\ Len(code) = Len(bs[c.at].code) + 1
      /\ \A n \in 1 .. Len(bs[c.at].code) : code[n] = bs[c.at].code[n]
      /\ code[Len(bs[c.at].code) + 1] = i
  BY <1>3, AppendSeq
<1>5. x.bs = [bs EXCEPT ![c.at]["code"] = code]
  BY <1>1 DEF AddCode
<1>6. RightTypes(i, Signature(prog, f))
  BY DEF Right
<1> HIDE DEF x, code, i
<1>7. /\ Shaped(x.bs) /\ Len(x.bs) = Len(bs)
      /\ x.bs[c.at].code = code /\ x.bs[c.at].fun = f
      /\ \A n \in 1 .. Len(bs) : n # c.at => x.bs[n] = bs[n]
  <2> DEFINE at == c.at
             bs2 == x.bs
             bs1 == bs
  <2>1. bs2 = SetField(bs1, at, "code", code) /\ Shaped(bs1) /\ at \in 1 .. Len(bs1) /\ IsSeq(code)
    BY <1>2, <1>4, <1>5 DEF SetField
  <2>2. bs1[at].fun = f
    BY <1>2
  <2> HIDE DEF at, bs1, bs2
  <2>3. /\ Shaped(bs2) /\ Len(bs2) = Len(bs1)
        /\ bs2[at]["code"] = code /\ \A g \in {"fun", "code", "pre", "succ"} : g # "code" => bs2[at][g] = bs1[at][g]
        /\ \A n \in 1 .. Len(bs1) : n # at => bs2[n] = bs1[n]
    BY <2>1, FieldChanged
  <2>4. bs2[at].fun = bs1[at].fun
    BY <2>3
  <2>q. QED
    BY <2>2, <2>3, <2>4 DEF at, bs1, bs2
<1>8. ASSUME NEW b \in 1 .. Len(x.bs), x.bs[b].fun # "removed", NEW n \in 1 .. Len(x.bs[b].code)
      PROVE  RightTypes(x.bs[b].code[n], Signature(prog, x.bs[b].fun))
  <2>1. CASE b # c.at
    BY <1>2, <1>7, <1>8, <2>1 DEF RightBlocks
  <2>2. CASE b = c.at
    <3>1. n = Len(bs[c.at].code) + 1 \/ n \in 1 .. Len(bs[c.at].code)
      BY SMTT(30), <1>3, <1>4, <1>7, <1>8, <2>2 DEF IsSeq
    <3>2. CASE n \in 1 .. Len(bs[c.at].code)
      BY <1>2, <1>4, <1>7, <1>8, <2>2, <3>2 DEF RightBlocks
    <3>3. CASE n = Len(bs[c.at].code) + 1
      BY <1>4, <1>6, <1>7, <2>2, <3>3
    <3>q. QED
      BY <3>1, <3>2, <3>3
  <2>q. QED
    BY <2>1, <2>2
<1>9. RightBlocks(x.bs)
  BY <1>8 DEF RightBlocks
<1>10. \A n \in 1 .. Len(x.bs) : n > k => x.bs[n].fun = f
  BY <1>2, <1>7 DEF Sound
<1>11. Sound(x, f, k)
  BY <1>1, <1>2, <1>7, <1>9, <1>10 DEF Sound
<1>q. QED
  BY <1>1, <1>7, <1>11 DEF x

LEMMA ValueSound ==
  ASSUME NEW c, NEW f, NEW k, Sound(c, f, k), NEW v
  PROVE  LET x == [c EXCEPT !.v = v]
         IN Sound(x, f, k) /\ Len(x.bs) = Len(c.bs) /\ x.v = v /\ x.bs = c.bs
<1> DEFINE x == [c EXCEPT !.v = v]
<1>1. IsContext(x) /\ x.at = c.at /\ x.bs = c.bs /\ x.v = v
  BY DEF Sound, IsContext
<1> HIDE DEF x
<1>2. Sound(x, f, k)
  BY <1>1 DEF Sound
<1>q. QED
  BY <1>1, <1>2 DEF x

LEMMA AtSound ==
  ASSUME NEW c, NEW f, NEW k, Sound(c, f, k), NEW b \in 1 .. Len(c.bs), b > k
  PROVE  LET x == At(c, b)
         IN Sound(x, f, k) /\ x.bs = c.bs
<1> DEFINE x == At(c, b)
<1>1. IsContext(x) /\ x.at = b /\ x.bs = c.bs
  BY DEF Sound, IsContext, At
<1> HIDE DEF x
<1>2. Sound(x, f, k)
  BY <1>1 DEF Sound
<1>q. QED
  BY <1>1, <1>2 DEF x

LEMMA ConvertSound ==
  ASSUME NEW c, NEW f, NEW k, Sound(c, f, k), NEW v, v.ty \in Numbers, NEW t \in Numbers, v.ty # t
  PROVE  LET x == Convert(c, v, t)
         IN Sound(x, f, k) /\ Len(x.bs) = Len(c.bs) /\ x.v.ty = t
<1>1. CASE t = I32
  <2>1. v.ty = Float
    BY <1>1 DEF Numbers
  <2>2. Convert(c, v, t) = Gen(c, "fptosi", I32, <<v>>)
    BY <1>1 DEF Convert
  <2>3. Right("fptosi", I32, <<v>>, f)
    BY <2>1, RightUnary
  <2>q. QED
    BY <1>1, <2>2, <2>3, GenSound
<1>2. CASE t # I32
  <2>1. v.ty = I32 /\ t = Float
    BY <1>2 DEF Numbers
  <2>2. Convert(c, v, t) = Gen(c, "sitofp", Float, <<v>>)
    BY <1>2 DEF Convert
  <2>3. Right("sitofp", Float, <<v>>, f)
    BY <2>1, RightUnary
  <2>q. QED
    BY <2>1, <2>2, <2>3, GenSound
<1>q. QED
  BY <1>1, <1>2

LEMMA NonZeroSound ==
  ASSUME NEW c, NEW f, NEW k, Sound(c, f, k), NEW v, v.ty \in Numbers
  PROVE  LET x == NonZero(c, v)
         IN Sound(x, f, k) /\ Len(x.bs) = Len(c.bs) /\ x.v.ty = Bit
<1>1. CASE IsIntegerType(v.ty)
  <2>1. NonZero(c, v) = Gen(c, "icmp_ne0", Bit, <<v>>)
    BY <1>1 DEF NonZero
  <2>2. Right("icmp_ne0", Bit, <<v>>, f)
    BY <1>1, RightUnary
  <2>q. QED
    BY <2>1, <2>2, GenSound
<1>2. CASE ~IsIntegerType(v.ty)
  <2>1. NonZero(c, v) = Gen(c, "fcmp_ne0", Bit, <<v>>)
    BY <1>2 DEF NonZero
  <2>2. v.ty = Float
    BY <1>2, ScalarsDiffer DEF Numbers
  <2>3. Right("fcmp_ne0", Bit, <<v>>, f)
    BY <2>2, RightUnary
  <2>q. QED
    BY <2>1, <2>3, GenSound
<1>q. QED
  BY <1>1, <1>2

LEMMA DefaultRetSound ==
  ASSUME Unique, Declared(prog, cur_fun), cur_fun.ret \in {I32, Float, Void},
         NEW c, NEW k, Sound(c, cur_fun.ref[2], k)
  PROVE  LET x == DefaultRet(c)
         IN Sound(x, cur_fun.ref[2], k) /\ Len(x.bs) = Len(c.bs)
<1> DEFINE f == cur_fun.ref[2]
           ret == cur_fun.ret
<1>1. RetType(Signature(prog, f)) = ret
  BY SignatureIs
<1> HIDE DEF f
<1>2. CASE ret = Void
  <2>1. Right("ret", Void, <<>>, f)
    BY <1>1, <1>2, RightRet
  <2>2. DefaultRet(c) = Gen(c, "ret", Void, <<>>)
    BY <1>2 DEF DefaultRet
  <2>q. QED
    BY <2>1, <2>2, GenSound DEF f
<1>3. CASE ret # Void
  <2>1. ret \in Numbers /\ Const(ret).ty = ret
    BY <1>3 DEF Numbers, Const, Value
  <2>2. Right("ret", Void, <<Const(ret)>>, f)
    BY <1>1, <2>1, RightRet
  <2>3. DefaultRet(c) = Gen(c, "ret", Void, <<Const(ret)>>)
    BY <1>3 DEF DefaultRet
  <2>q. QED
    BY <2>2, <2>3, GenSound DEF f
<1>q. QED
  BY <1>2, <1>3

LEMMA LinkSound ==
  ASSUME NEW c, NEW f, NEW k, Sound(c, f, k), NEW b \in 1 .. Len(c.bs)
  PROVE  LET x == Link(c, b)
         IN Sound(x, f, k) /\ Len(x.bs) = Len(c.bs)
<1> DEFINE x == Link(c, b)
           bs == c.bs
           p == Append(bs[b].pre, c.at)
           bs1 == [bs EXCEPT ![b].pre = p]
           s == Append(bs1[c.at].succ, b)
           bs2 == [bs1 EXCEPT ![c.at].succ = s]
<1>1. x = [c EXCEPT !.bs = bs2]
  BY ZenonT(40) DEF Link, Sound, IsContext
<1>2. IsContext(x) /\ x.at = c.at /\ x.bs = bs2
  BY <1>1 DEF Sound, IsContext
<1>3. Shaped(bs) /\ b \in 1 .. Len(bs) /\ c.at \in 1 .. Len(bs)
  BY DEF Sound
<1> HIDE DEF p, s
<1>4. SameCode(bs, bs1)
  BY <1>3, EdgesChanged
<1>5. Shaped(bs1) /\ c.at \in 1 .. Len(bs1)
  BY <1>3, <1>4 DEF SameCode
<1> HIDE DEF bs1
<1>6. SameCode(bs1, bs2)
  BY <1>5, EdgesChanged
<1> HIDE DEF bs2
<1>7. SameCode(bs, bs2)
  BY <1>4, <1>6, SameCodeTwice
<1> HIDE DEF x
<1>8. Sound(x, f, k) /\ Len(x.bs) = Len(c.bs)
  BY <1>2, <1>7, SameCodeSound
<1>q. QED
  BY <1>8 DEF x

LEMMA BrSound ==
  ASSUME NEW c, NEW f, NEW k, Sound(c, f, k), NEW b \in 1 .. Len(c.bs)
  PROVE  LET x == Br(c, b)
         IN Sound(x, f, k) /\ Len(x.bs) = Len(c.bs)
<1>1. Sound(Link(c, b), f, k) /\ Len(Link(c, b).bs) = Len(c.bs)
  BY LinkSound
<1>2. Right("br", Void, <<BlockRef(b)>>, f)
  <2> DEFINE cond == Value(Bit, <<>>)
  <2>1. cond.ty = Bit
    BY DEF Value
  <2>q. QED
    BY <2>1, RightBranch
<1>q. QED
  BY <1>1, <1>2, GenSound DEF Br

LEMMA BrUnlessSound ==
  ASSUME NEW c, NEW f, NEW k, Sound(c, f, k), NEW b \in 1 .. Len(c.bs)
  PROVE  LET x == BrUnlessTerminated(c, b)
         IN Sound(x, f, k) /\ Len(x.bs) = Len(c.bs)
<1>1. CASE Terminated(c.bs, c.at)
  BY <1>1 DEF BrUnlessTerminated
<1>2. CASE ~Terminated(c.bs, c.at)
  BY <1>2, BrSound DEF BrUnlessTerminated
<1>q. QED
  BY <1>1, <1>2

LEMMA CondBrSound ==
  ASSUME NEW c, NEW f, NEW k, Sound(c, f, k), NEW cond, cond.ty = Bit, NEW b \in 1 .. Len(c.bs), NEW d \in 1 .. Len(c.bs),
         b # d
  PROVE  LET x == CondBr(c, cond, b, d)
         IN Sound(x, f, k) /\ Len(x.bs) = Len(c.bs)
<1> DEFINE bs == c.bs
           p == Append(bs[b].pre, c.at)
           bs1 == [bs EXCEPT ![b].pre = p]
           q == Append(bs1[d].pre, c.at)
           bs2 == [bs1 EXCEPT ![d].pre = q]
           s == bs2[c.at].succ \o <<d, b>>
           bs3 == [bs2 EXCEPT ![c.at].succ = s]
           y == [c EXCEPT !.bs[b].pre = Append(@, c.at), !.bs[d].pre = Append(@, c.at),
                          !.bs[c.at].succ = @ \o <<d, b>>]
           args == <<cond, BlockRef(b), BlockRef(d)>>
<1>0. IsContext(c)
  BY DEF Sound
<1>a. y = [c EXCEPT !.bs = [[[bs EXCEPT ![b].pre = Append(@, c.at)] EXCEPT ![d].pre = Append(@, c.at)]
                              EXCEPT ![c.at].succ = @ \o <<d, b>>]]
  <2>1. /\ c.at \in DOMAIN bs /\ b \in DOMAIN bs /\ d \in DOMAIN bs
        /\ "succ" \in DOMAIN bs[c.at] /\ "pre" \in DOMAIN bs[d]
    BY DEF Sound, Shaped, IsSeq
  <2>q. QED
    BY <1>0, <2>1 DEF IsContext
<1>1. y = [c EXCEPT !.bs = bs3]
  BY ONLY ZenonT(40), SMTT(30), <1>a
<1>2. IsContext(y) /\ y.at = c.at /\ y.bs = bs3
  <2> HIDE DEF y, bs3
  <2>q. QED
    BY ONLY <1>0, <1>1 DEF IsContext
<1>3. Shaped(bs) /\ b \in 1 .. Len(bs) /\ d \in 1 .. Len(bs) /\ c.at \in 1 .. Len(bs)
  BY DEF Sound
<1> HIDE DEF p, q, s
<1>4. SameCode(bs, bs1)
  BY <1>3, EdgesChanged
<1>5. Shaped(bs1) /\ d \in 1 .. Len(bs1) /\ c.at \in 1 .. Len(bs1)
  BY <1>3, <1>4 DEF SameCode
<1> HIDE DEF bs1
<1>6. SameCode(bs1, bs2)
  BY <1>5, EdgesChanged
<1>7. Shaped(bs2) /\ c.at \in 1 .. Len(bs2)
  BY <1>5, <1>6 DEF SameCode
<1> HIDE DEF bs2
<1>8. SameCode(bs2, bs3)
  BY <1>7, EdgesChanged
<1> HIDE DEF bs3
<1>9. SameCode(bs, bs3)
  BY <1>4, <1>6, <1>8, SameCodeTwice
<1>10. CondBr(c, cond, b, d) = Gen(y, "br", Void, args)
  BY DEF CondBr
<1>11. Right("br", Void, args, f)
  BY RightBranch
<1> HIDE DEF y, args
<1>12. Sound(y, f, k) /\ Len(y.bs) = Len(c.bs)
  BY <1>2, <1>9, SameCodeSound
<1>q. QED
  BY <1>10, <1>11, <1>12, GenSound

LEMMA CreatedSound ==
  ASSUME NEW c, NEW k, Sound(c, cur_fun.ref[2], k)
  PROVE  LET x == Created(c)
         IN Sound(x, cur_fun.ref[2], k) /\ Len(x.bs) = Len(c.bs) + 1 /\ x.v = c.v
<1> DEFINE f == cur_fun.ref[2]
           bs == c.bs
           n == NewBlock(f)
           bs2 == Append(bs, n)
           l == Len(bs)
           x == Created(c)
<1>1. IsContext(x) /\ x.at = c.at /\ x.v = c.v /\ x.bs = bs2
  <2>1. IsContext(c)
    BY DEF Sound
  <2>2. x = [c EXCEPT !.bs = bs2]
    BY DEF Created
  <2> HIDE DEF x, bs2
  <2>q. QED
    BY <2>1, <2>2 DEF IsContext
<1>2. /\ DOMAIN n = {"fun", "code", "pre", "succ"} /\ n = [y \in {"fun", "code", "pre", "succ"} |-> n[y]]
      /\ n.code = <<>> /\ n.fun = f
  BY DEF NewBlock
<1>3. IsSeq(n.code) /\ Len(n.code) = 0
  BY <1>2, EmptySeq, SeqIs
<1>4. Shaped(bs) /\ RightBlocks(bs) /\ c.at \in 1 .. l /\ bs[c.at].fun = f /\ k \in Nat /\ l \in Nat
  BY DEF Sound, Shaped, IsSeq
<1> HIDE DEF n
<1>5. /\ IsSeq(bs2) /\ Len(bs2) = l + 1 /\ bs2[l + 1] = n
      /\ \A b \in 1 .. l : bs2[b] = bs[b]
  BY <1>4, AppendSeq DEF Shaped
<1> HIDE DEF bs2, x, f
<1>6. Shaped(bs2)
  BY <1>2, <1>3, <1>4, <1>5 DEF Shaped
<1>7. RightBlocks(bs2)
  <2>1. ASSUME NEW b \in 1 .. Len(bs2), bs2[b].fun # "removed", NEW m \in 1 .. Len(bs2[b].code)
        PROVE  RightTypes(bs2[b].code[m], Signature(prog, bs2[b].fun))
    <3>1. b \in 1 .. l
      BY <1>3, <1>4, <1>5, <2>1
    <3>q. QED
      BY <1>4, <1>5, <2>1, <3>1 DEF RightBlocks
  <2>q. QED
    BY <2>1 DEF RightBlocks
<1>8. \A b \in 1 .. Len(bs2) : b > k => bs2[b].fun = f
  <2>1. ASSUME NEW b \in 1 .. Len(bs2), b > k PROVE bs2[b].fun = f
    <3>1. CASE b \in 1 .. l
      BY <1>5, <2>1, <3>1 DEF Sound, f
    <3>2. CASE b = l + 1
      BY <1>2, <1>5, <3>2
    <3>q. QED
      BY <1>4, <1>5, <3>1, <3>2
  <2>q. QED
    BY <2>1
<1>9. Sound(x, f, k)
  BY <1>1, <1>4, <1>5, <1>6, <1>7, <1>8 DEF Sound
<1>q. QED
  BY <1>1, <1>5, <1>9 DEF x, f

LEMMA RemovedRight ==
  ASSUME NEW c, NEW f, NEW k, Sound(c, f, k), NEW b
  PROVE  RightBlocks(Removed(c, b).bs) /\ Len(Removed(c, b).bs) = Len(c.bs)
<1> DEFINE bs == c.bs
           l == Len(bs)
           bs2 == [n \in DOMAIN bs |-> IF n = b THEN [bs[n] EXCEPT !.fun = "removed"] ELSE Forget(bs, n, b)]
<1>1. Removed(c, b).bs = bs2
  BY DEF Removed, Sound, IsContext
<1>2. Shaped(bs) /\ RightBlocks(bs) /\ DOMAIN bs = 1 .. l /\ l \in Nat
  BY DEF Sound, Shaped, IsSeq
<1>3. bs2 = [n \in 1 .. l |-> bs2[n]]
  BY <1>2
<1>4. Len(bs2) = l
  <2> HIDE DEF bs2, l
  <2>q. QED
    BY <1>2, <1>3, FunctionSeq
<1>5. ASSUME NEW n \in 1 .. l, bs2[n].fun # "removed"
      PROVE  bs2[n].fun = bs[n].fun /\ bs2[n].code = bs[n].code
  <2>1. DOMAIN bs[n] = {"fun", "code", "pre", "succ"}
    BY <1>2 DEF Shaped
  <2>2. CASE n = b
    BY <1>2, <1>5, <2>1, <2>2
  <2>3. CASE n # b
    BY ZenonT(40), <1>2, <2>1, <2>3 DEF Forget
  <2>q. QED
    BY <2>2, <2>3
<1> HIDE DEF bs2
<1>6. RightBlocks(bs2)
  BY <1>2, <1>4, <1>5 DEF RightBlocks
<1>q. QED
  BY <1>1, <1>4, <1>6

\* The builder in a function, before a step.
LEMMA HereSound ==
  ASSUME BlockInv, InFunction(todo), TypeInv
  PROVE  /\ Sound(Here, cur_fun.ref[2], Len(blocks)) /\ Here.bs = blocks /\ Here.at = insert /\ Here.v = tmp_val
         /\ cur_fun.ret \in {I32, Float, Void} /\ Declared(prog, cur_fun) /\ Len(blocks) \in Nat
<1>1. InBody(todo, blocks, insert, cur_fun)
  BY DEF BlockInv, Blocks
<1>2. /\ IsBlocks(blocks) /\ insert \in 1 .. Len(blocks) /\ blocks[insert].fun = cur_fun.ref[2]
      /\ cur_fun.ret \in {I32, Float, Void}
  BY <1>1 DEF InBody, Building, Graph
<1>3. IsContext(Here) /\ Here.bs = blocks /\ Here.at = insert /\ Here.v = tmp_val
  BY DEF Here, IsContext
<1>4. ASSUME NEW b \in 1 .. Len(blocks)
      PROVE  /\ DOMAIN blocks[b] = {"fun", "code", "pre", "succ"} /\ IsSeq(blocks[b].code)
             /\ blocks[b] = [x \in {"fun", "code", "pre", "succ"} |-> blocks[b][x]]
  <2> DEFINE r == blocks[b]
  <2>1. r = [fun |-> r.fun, code |-> r.code, pre |-> r.pre, succ |-> r.succ] /\ IsSeq(r.code)
    BY <1>2 DEF IsBlocks, IsBlock
  <2> HIDE DEF r
  <2>2. DOMAIN r = {"fun", "code", "pre", "succ"} /\ r = [x \in {"fun", "code", "pre", "succ"} |-> r[x]]
    BY <2>1
  <2>q. QED
    BY <2>1, <2>2 DEF r
<1>5. Shaped(blocks) /\ Len(blocks) \in Nat
  BY <1>2, <1>4 DEF Shaped, IsBlocks, IsSeq
<1>6. RightBlocks(blocks) /\ Declared(prog, cur_fun)
  BY DEF TypeInv
<1>q. QED
  BY <1>2, <1>3, <1>5, <1>6 DEF Sound

-----------------------------------------------------------------------------
(* The scopes.                                                               *)

\* The library's relation on Nat, with the operator it is given written out.
LessThan == {r \in Nat \X Nat : r[1] < r[2]}

LEMMA LessThanWellFounded == IsWellFoundedOn(LessThan, Nat)
BY NatLessThanWellFounded, Zenon DEF OpToRel, LessThan

LEMMA GreatestLevel ==
  ASSUME NEW l \in Nat, NEW S, S \subseteq 1 .. l, S # {}
  PROVE  Max(S) \in S /\ \A y \in S : Max(S) >= y
<1> DEFINE N == {l - x : x \in S}
<1>1. N \subseteq Nat /\ N # {}
  <2>1. \A x \in S : l - x \in Nat
    OBVIOUS
  <2>2. N \subseteq Nat
    BY <2>1
  <2>3. PICK x \in S : TRUE
    OBVIOUS
  <2>4. l - x \in N
    BY <2>3
  <2>q. QED
    BY <2>2, <2>4
<1>2. PICK n \in N : \A m \in N : ~(<<m, n>> \in LessThan)
  <2> HIDE DEF N
  <2>q. QED
    BY <1>1, WFMin, LessThanWellFounded
<1>3. PICK x \in S : n = l - x
  BY <1>2
<1>4. ASSUME NEW y \in S PROVE x >= y
  <2>1. l - y \in N /\ l - y \in Nat /\ l - x \in Nat /\ x \in Nat /\ y \in Nat
    BY <1>3
  <2>2. ~(l - y < l - x)
    BY <1>2, <1>3, <2>1 DEF LessThan
  <2>q. QED
    BY <2>1, <2>2
<1>q. QED
  BY <1>4 DEF Max

Bindings(sc, id) == {n \in DOMAIN sc : id \in DOMAIN sc[n]}

LEMMA FindIs ==
  ASSUME NEW sc, IsSeq(sc), NEW id
  PROVE  LET l == Max(Bindings(sc, id))
         IN \/ Bindings(sc, id) = {} /\ Find(sc, id) = None
            \/ l \in 1 .. Len(sc) /\ id \in DOMAIN sc[l] /\ Find(sc, id) = sc[l][id]
<1>1. Bindings(sc, id) \subseteq 1 .. Len(sc) /\ Len(sc) \in Nat
  BY DEF Bindings, IsSeq
<1>2. CASE Bindings(sc, id) = {}
  BY <1>2 DEF Find, Bindings
<1>3. CASE Bindings(sc, id) # {}
  <2> DEFINE l == Max(Bindings(sc, id))
  <2>1. l \in Bindings(sc, id)
    BY <1>1, <1>3, GreatestLevel
  <2>2. Find(sc, id) = sc[l][id]
    BY <1>3 DEF Find, Bindings
  <2>3. l \in 1 .. Len(sc) /\ id \in DOMAIN sc[l]
    BY <1>1, <2>1 DEF Bindings
  <2>q. QED
    BY <2>2, <2>3
<1>q. QED
  BY <1>2, <1>3

LEMMA FunctionOrVariable ==
  ASSUME NEW v
  PROVE  /\ v # None /\ (FunTyped(v) \/ VarTyped(v)) => (IsFunction(v) => FunTyped(v)) /\ (IsVariable(v) => VarTyped(v))
         /\ ~IsFunction(None) /\ ~IsVariable(None)
<1>1. VarTyped(v) => v.ty # <<"fun">>
  BY Variables
<1>2. FunTyped(v) => v.ty = <<"fun">>
  BY DEF FunTyped
<1>q. QED
  BY <1>1, <1>2 DEF IsFunction, IsVariable

LEMMA FindTyped ==
  ASSUME NEW sc, IsSeq(sc), ScopeTyped(sc), NEW id
  PROVE  LET v == Find(sc, id) IN (IsFunction(v) => FunTyped(v)) /\ (IsVariable(v) => VarTyped(v))
<1> DEFINE v == Find(sc, id)
<1>1. v = None \/ (v # None /\ (FunTyped(v) \/ VarTyped(v)))
  BY FindIs DEF ScopeTyped
<1> HIDE DEF v
<1>2. (IsFunction(v) => FunTyped(v)) /\ (IsVariable(v) => VarTyped(v))
  BY <1>1, FunctionOrVariable
<1>q. QED
  BY <1>2 DEF v

LEMMA FindHelper ==
  ASSUME NEW sc, IsSeq(sc), sc # <<>>, ScopeTyped(sc)
  PROVE  Find(sc, Helper) = Fun(Helper, Void, <<>>)
<1>1. Len(sc) \in Nat /\ Len(sc) >= 1 /\ DOMAIN sc = 1 .. Len(sc)
  BY NotEmpty DEF IsSeq
<1>2. 1 \in Bindings(sc, Helper)
  BY <1>1 DEF ScopeTyped, Bindings
<1> DEFINE l == Max(Bindings(sc, Helper))
<1>3. l \in 1 .. Len(sc) /\ Helper \in DOMAIN sc[l] /\ Find(sc, Helper) = sc[l][Helper]
  BY <1>2, FindIs
<1> HIDE DEF l
<1>4. l = 1
  BY <1>1, <1>3 DEF ScopeTyped
<1>q. QED
  BY <1>3, <1>4 DEF ScopeTyped

LEMMA BindTyped ==
  ASSUME NEW sc, IsSeq(sc), sc # <<>>, ScopeTyped(sc), NEW id, IsName(id), NEW v, v # None, FunTyped(v) \/ VarTyped(v)
  PROVE  ScopeTyped(Bind(sc, id, v))
<1> DEFINE s == Bind(sc, id, v)
           l == Len(sc)
           m == [x \in DOMAIN sc[l] \cup {id} |-> IF x \in DOMAIN sc[l] THEN sc[l][x] ELSE v]
<1>1. l \in Nat /\ l >= 1 /\ DOMAIN sc = 1 .. l
  BY NotEmpty DEF IsSeq
<1>2. Len(s) = l
  BY BindSeq
<1>3. /\ DOMAIN m = DOMAIN sc[l] \cup {id}
      /\ \A x \in DOMAIN m : m[x] = v \/ (x \in DOMAIN sc[l] /\ m[x] = sc[l][x])
      /\ \A x \in DOMAIN sc[l] : m[x] = sc[l][x]
  OBVIOUS
<1>4. s = [sc EXCEPT ![l] = m]
  BY DEF Bind
<1> HIDE DEF m
<1>5. s[l] = m /\ \A n \in 1 .. l : n # l => s[n] = sc[n]
  BY <1>1, <1>4
<1>6. id # Helper
  BY DEF IsName, Helper
<1> HIDE DEF s, l
<1>7. ASSUME NEW n \in 1 .. l
      PROVE  /\ \A x \in DOMAIN s[n] : s[n][x] = v \/ (x \in DOMAIN sc[n] /\ s[n][x] = sc[n][x])
             /\ Helper \in DOMAIN s[n] <=> Helper \in DOMAIN sc[n]
             /\ Helper \in DOMAIN sc[n] => s[n][Helper] = sc[n][Helper]
  <2>1. CASE n # l
    BY <1>5, <2>1
  <2>2. CASE n = l
    BY <1>3, <1>5, <1>6, <2>2
  <2>q. QED
    BY <2>1, <2>2
<1>8. \A n \in 1 .. l : \A x \in DOMAIN s[n] : s[n][x] # None /\ (FunTyped(s[n][x]) \/ VarTyped(s[n][x]))
  BY <1>7 DEF ScopeTyped, l
<1>9. /\ Helper \in DOMAIN s[1] /\ s[1][Helper] = Fun(Helper, Void, <<>>)
      /\ \A n \in 2 .. l : Helper \notin DOMAIN s[n]
  BY <1>1, <1>7 DEF ScopeTyped, l
<1>10. ScopeTyped(s)
  BY <1>2, <1>8, <1>9 DEF ScopeTyped
<1>q. QED
  BY <1>10 DEF s

LEMMA RuntimeTyped == ScopeTyped(<<Runtime>>)
<1> DEFINE s == <<Runtime>>
<1>1. Len(s) = 1 /\ s[1] = Runtime
  OBVIOUS
<1>2. FunTyped(Runtime.input) /\ FunTyped(Runtime.output) /\ FunTyped(Runtime.outputFloat) /\ FunTyped(Runtime.neg_idx_except)
  BY UnitSeq, EmptyIs DEF Runtime, Fun, FunTyped, Numbers
<1>3. \A id \in DOMAIN Runtime : FunTyped(Runtime[id]) /\ Runtime[id] # None
  BY SMTT(30), <1>2 DEF Runtime, Fun, None
<1>4. Helper \in DOMAIN Runtime /\ Runtime[Helper] = Fun(Helper, Void, <<>>)
  BY DEF Runtime, Helper
<1> HIDE DEF s
<1>5. ScopeTyped(s)
  BY <1>1, <1>3, <1>4 DEF ScopeTyped
<1>q. QED
  BY <1>5 DEF s

LEMMA EnterTyped ==
  ASSUME NEW sc, IsSeq(sc), sc # <<>>, ScopeTyped(sc)
  PROVE  ScopeTyped(Append(sc, <<>>)) /\ IsSeq(Append(sc, <<>>)) /\ Append(sc, <<>>) # <<>>
<1> DEFINE e == <<>>
           s == Append(sc, e)
           l == Len(sc)
<1>1. l \in Nat /\ l >= 1
  BY NotEmpty DEF IsSeq
<1>2. DOMAIN e = {}
  BY EmptyIs DEF IsSeq
<1> HIDE DEF e
<1>3. IsSeq(s) /\ Len(s) = l + 1 /\ s[l + 1] = e /\ s # <<>> /\ \A n \in 1 .. l : s[n] = sc[n]
  BY AppendSeq
<1> HIDE DEF s, l
<1>4. ScopeTyped(s)
  <2>1. \A n \in 1 .. Len(s) : n \in 1 .. l \/ n = l + 1
    BY <1>1, <1>3
  <2>2. \A n \in 1 .. Len(s) : \A x \in DOMAIN s[n] : n \in 1 .. l /\ s[n] = sc[n]
    BY <1>2, <1>3, <2>1
  <2>3. \A n \in 1 .. Len(s) : \A x \in DOMAIN s[n] : s[n][x] # None /\ (FunTyped(s[n][x]) \/ VarTyped(s[n][x]))
    BY <2>2 DEF ScopeTyped, l
  <2>4. Helper \in DOMAIN s[1] /\ s[1][Helper] = Fun(Helper, Void, <<>>)
    BY <1>1, <1>3 DEF ScopeTyped, l
  <2>5. \A n \in 2 .. Len(s) : Helper \notin DOMAIN s[n]
    BY <1>1, <1>2, <1>3, <2>1 DEF ScopeTyped, l
  <2>q. QED
    BY <2>3, <2>4, <2>5 DEF ScopeTyped
<1>q. QED
  BY <1>3, <1>4 DEF e, s

LEMMA LeaveTyped ==
  ASSUME NEW sc, IsSeq(sc), sc # <<>>, ScopeTyped(sc), Len(Front(sc)) >= 1
  PROVE  ScopeTyped(Front(sc))
<1> DEFINE s == Front(sc)
           l == Len(sc)
<1>1. l \in Nat /\ l >= 1
  BY NotEmpty DEF IsSeq
<1>2. IsSeq(s) /\ Len(s) = l - 1
  BY FrontSeq
<1>3. \A n \in 1 .. l - 1 : s[n] = sc[n]
  BY <1>1 DEF Front, SubSeq
<1> HIDE DEF s, l
<1>4. \A n \in 1 .. Len(s) : n \in 1 .. l /\ s[n] = sc[n]
  BY <1>1, <1>2, <1>3
<1>5. Len(s) >= 1
  BY DEF s
<1>6. \A n \in 1 .. Len(s) : \A x \in DOMAIN s[n] : s[n][x] # None /\ (FunTyped(s[n][x]) \/ VarTyped(s[n][x]))
  BY <1>4 DEF ScopeTyped, l
<1>7. Helper \in DOMAIN s[1] /\ s[1][Helper] = Fun(Helper, Void, <<>>)
  BY <1>1, <1>2, <1>4, <1>5 DEF ScopeTyped
<1>8. \A n \in 2 .. Len(s) : Helper \notin DOMAIN s[n]
  BY <1>1, <1>2, <1>4 DEF ScopeTyped, l
<1>9. ScopeTyped(s)
  BY <1>6, <1>7, <1>8 DEF ScopeTyped
<1>q. QED
  BY <1>9 DEF s


-----------------------------------------------------------------------------
(* The tasks.                                                                *)

\* A task no expression is in progress in.
Calm(pr, t)    == /\ t.do \notin ExpressionTasks \cup Takers
                  /\ t.do = "fun-declaration" => \E n \in DOMAIN pr : pr[n] = t.node
                  /\ t.do = "parameters" => Entering(t)
AllCalm(pr, q) == \A n \in 1 .. Len(q) : Calm(pr, q[n])

LEMMA CalmTyped ==
  ASSUME NEW q, IsSeq(q), NEW pr, AllCalm(pr, q), NEW sc, NEW ret, NEW lv
  PROVE  TasksTyped(q, sc, ret, pr, lv) /\ (q # <<>> => q[1].do \notin Takers)
<1>1. ASSUME NEW n \in 1 .. Len(q)
      PROVE  TaskTyped(sc, ret, pr, q[n]) /\ q[n].do \notin ExpressionTasks \cup Takers
  <2> DEFINE t == q[n]
  <2>1. Calm(pr, t)
    BY DEF AllCalm
  <2> HIDE DEF t
  <2>2. t.do \notin {"assign-to", "right-operand", "operate", "store", "element", "args", "arg", "return-value"}
    BY <2>1 DEF Calm, ExpressionTasks, Takers
  <2>3. TaskTyped(sc, ret, pr, t)
    BY <2>1, <2>2 DEF TaskTyped, Calm
  <2>q. QED
    BY <2>1, <2>3 DEF Calm, t
<1>2. \A n \in 1 .. Len(q) - 1 : n \in 1 .. Len(q)
  BY DEF IsSeq
<1>3. TasksTyped(q, sc, ret, pr, lv)
  BY <1>1, <1>2 DEF TasksTyped
<1>4. q # <<>> => 1 \in 1 .. Len(q)
  BY NotEmpty DEF IsSeq
<1>q. QED
  BY <1>1, <1>3, <1>4

LEMMA CalmBehind ==
  ASSUME NEW q, IsSeq(q), q # <<>>, NEW sc, NEW ret, NEW pr, NEW lv, TasksTyped(q, sc, ret, pr, lv),
         q[1].do \notin ExpressionTasks
  PROVE  AllCalm(pr, Tail(q))
<1> DEFINE r == Tail(q)
<1>1. /\ Len(q) \in Nat \ {0} /\ IsSeq(r) /\ Len(r) = Len(q) - 1 /\ 1 \in 1 .. Len(q)
      /\ \A n \in 1 .. Len(q) - 1 : n + 1 \in 1 .. Len(q) /\ r[n] = q[n + 1]
  BY FirstOrLater
<1> HIDE DEF r
<1>2. ASSUME NEW n \in 1 .. Len(r) PROVE Calm(pr, r[n])
  <2>1. n + 1 \in 1 .. Len(q) /\ r[n] = q[n + 1] /\ 1 < n + 1
    BY <1>1
  <2>2. q[n + 1].do \notin ExpressionTasks \cup Takers
    BY <1>1, <2>1 DEF TasksTyped
  <2>3. TaskTyped(sc, ret, pr, q[n + 1])
    BY <2>1 DEF TasksTyped
  <2>q. QED
    BY <2>1, <2>2, <2>3 DEF TaskTyped, Calm
<1>q. QED
  BY <1>2 DEF AllCalm, r

LEMMA CalmConcat ==
  ASSUME NEW s, IsSeq(s), NEW r, IsSeq(r), NEW pr, AllCalm(pr, s), AllCalm(pr, r)
  PROVE  AllCalm(pr, s \o r) /\ IsSeq(s \o r)
<1> DEFINE q == s \o r
<1>1. /\ IsSeq(q) /\ Len(q) = Len(s) + Len(r)
      /\ \A n \in 1 .. Len(s) : q[n] = s[n]
      /\ \A n \in 1 .. Len(r) : q[Len(s) + n] = r[n]
  BY ConcatSeq
<1> HIDE DEF q
<1>2. Len(s) \in Nat /\ Len(r) \in Nat
  BY DEF IsSeq
<1>3. ASSUME NEW n \in 1 .. Len(q) PROVE Calm(pr, q[n])
  <2>1. CASE n <= Len(s)
    BY <1>1, <1>2, <2>1 DEF AllCalm
  <2>2. CASE n > Len(s)
    <3> DEFINE m == n - Len(s)
    <3>1. m \in 1 .. Len(r) /\ Len(s) + m = n
      BY <1>1, <1>2, <2>2
    <3>2. q[Len(s) + m] = r[m]
      BY <1>1, <3>1
    <3>q. QED
      BY <3>1, <3>2 DEF AllCalm
  <2>q. QED
    BY <1>1, <1>2, <2>1, <2>2
<1>q. QED
  BY <1>1, <1>3 DEF AllCalm, q

LEMMA GivenSame ==
  ASSUME NEW sc, NEW a \in BOOLEAN, NEW b \in BOOLEAN, a <=> b, NEW t
  PROVE  Given(sc, a, t) = Given(sc, b, t)
<1>1. a = b
  OBVIOUS
<1>q. QED
  BY <1>1

LEMMA PushFirst ==
  ASSUME NEW p, IsSeq(p), p # <<>>, NEW sc, NEW ret, NEW pr, TasksTyped(p, sc, ret, pr, FALSE),
         NEW a, a.do \in ExpressionTasks, TaskTyped(sc, ret, pr, a), NEW lv \in BOOLEAN,
         p[1].do \in Takers => Given(sc, lv, a) \subseteq Wanted(p[1])
  PROVE  TasksTyped(<<a>> \o p, sc, ret, pr, lv)
<1> DEFINE q == <<a>> \o p
<1>1. IsSeq(q) /\ Len(q) = Len(p) + 1 /\ q[1] = a /\ q # <<>>
      /\ \A n \in 1 .. Len(p) : q[n + 1] = p[n]
  BY ConsSeq, TailOfCons
<1> HIDE DEF q
<1>2. Len(p) \in Nat /\ Len(p) >= 1
  BY NotEmpty DEF IsSeq
<1>3. \A n \in 1 .. Len(q) : n = 1 \/ (n - 1 \in 1 .. Len(p) /\ q[n] = p[n - 1])
  <2>1. ASSUME NEW n \in 1 .. Len(q), n # 1 PROVE n - 1 \in 1 .. Len(p) /\ q[n] = p[n - 1]
    <3>1. n - 1 \in 1 .. Len(p) /\ (n - 1) + 1 = n
      BY <1>1, <1>2, <2>1
    <3>2. q[(n - 1) + 1] = p[n - 1]
      BY <1>1, <3>1
    <3>q. QED
      BY <3>1, <3>2
  <2>q. QED
    BY <2>1
<1>4. ASSUME NEW n \in 1 .. Len(q) PROVE TaskTyped(sc, ret, pr, q[n])
  <2>1. CASE n = 1
    BY <1>1, <2>1
  <2>2. CASE n # 1
    BY <1>3, <2>2 DEF TasksTyped
  <2>q. QED
    BY <2>1, <2>2
<1>5. ASSUME NEW m \in 1 .. Len(q), NEW n \in 1 .. Len(q), m < n, q[n].do \in ExpressionTasks \cup Takers
      PROVE  q[m].do \in ExpressionTasks
  <2>1. CASE m = 1
    BY <1>1, <2>1
  <2>2. CASE m # 1
    <3>1. m - 1 \in 1 .. Len(p) /\ n - 1 \in 1 .. Len(p) /\ q[n] = p[n - 1] /\ q[m] = p[m - 1] /\ m - 1 < n - 1
      BY <1>3, <1>5, <2>2
    <3>q. QED
      BY <1>5, <3>1 DEF TasksTyped
  <2>q. QED
    BY <2>1, <2>2
<1>6. ASSUME NEW n \in 1 .. Len(q) - 1, q[n].do \in ExpressionTasks, q[n + 1].do \in Takers
      PROVE  Given(sc, lv /\ n = 1, q[n]) \subseteq Wanted(q[n + 1])
  <2>1. CASE n = 1
    <3>1. q[n + 1] = p[1] /\ q[n] = a
      BY <1>1, <1>2, <2>1
    <3>2. Given(sc, lv /\ n = 1, a) = Given(sc, lv, a)
      BY <2>1, GivenSame
    <3>q. QED
      BY <1>6, <3>1, <3>2
  <2>2. CASE n # 1
    <3> DEFINE m == n - 1
    <3>1. m \in 1 .. Len(p) - 1 /\ m + 1 = n /\ n \in 1 .. Len(p) /\ n \in 1 .. Len(q) /\ q[n + 1] = p[n]
      BY <1>1, <1>2, <2>2
    <3>2. q[n] = p[m]
      BY <1>3, <2>2, <3>1
    <3>3. Given(sc, FALSE /\ m = 1, p[m]) \subseteq Wanted(p[n])
      BY <1>6, <3>1, <3>2 DEF TasksTyped
    <3>4. Given(sc, FALSE /\ m = 1, p[m]) = Given(sc, lv /\ n = 1, p[m])
      BY <2>2, GivenSame
    <3>q. QED
      BY <3>1, <3>2, <3>3, <3>4
  <2>q. QED
    BY <2>1, <2>2
<1>7. TasksTyped(q, sc, ret, pr, lv)
  BY <1>4, <1>5, <1>6 DEF TasksTyped
<1>q. QED
  BY <1>7 DEF q

LEMMA PushTaker ==
  ASSUME NEW p, IsSeq(p), NEW pr, AllCalm(pr, p), NEW sc, NEW ret, NEW b, TaskTyped(sc, ret, pr, b),
         b.do \notin ExpressionTasks
  PROVE  TasksTyped(<<b>> \o p, sc, ret, pr, FALSE)
<1> DEFINE q == <<b>> \o p
<1>1. IsSeq(q) /\ Len(q) = Len(p) + 1 /\ q[1] = b /\ q # <<>>
      /\ \A n \in 1 .. Len(p) : q[n + 1] = p[n]
  BY ConsSeq, TailOfCons
<1> HIDE DEF q
<1>2. Len(p) \in Nat
  BY DEF IsSeq
<1>3. ASSUME NEW n \in 1 .. Len(q), n # 1 PROVE n - 1 \in 1 .. Len(p) /\ q[n] = p[n - 1]
  <2>1. n - 1 \in 1 .. Len(p) /\ (n - 1) + 1 = n
    BY <1>1, <1>2, <1>3
  <2>2. q[(n - 1) + 1] = p[n - 1]
    BY <1>1, <2>1
  <2>q. QED
    BY <2>1, <2>2
<1>4. TasksTyped(p, sc, ret, pr, FALSE)
  BY CalmTyped
<1>5. ASSUME NEW n \in 1 .. Len(q) PROVE TaskTyped(sc, ret, pr, q[n])
  <2>1. CASE n = 1
    BY <1>1, <2>1
  <2>2. CASE n # 1
    BY <1>3, <1>4, <2>2 DEF TasksTyped
  <2>q. QED
    BY <2>1, <2>2
<1>6. ASSUME NEW n \in 1 .. Len(q), n # 1 PROVE q[n].do \notin ExpressionTasks \cup Takers
  BY <1>3, <1>6 DEF AllCalm, Calm
<1>7. ASSUME NEW m \in 1 .. Len(q), NEW n \in 1 .. Len(q), m < n, q[n].do \in ExpressionTasks \cup Takers
      PROVE  q[m].do \in ExpressionTasks
  <2>1. n # 1
    BY <1>7
  <2>q. QED
    BY <1>6, <1>7, <2>1
<1>8. ASSUME NEW n \in 1 .. Len(q) - 1 PROVE q[n + 1].do \notin Takers
  <2>1. n + 1 \in 1 .. Len(q) /\ n + 1 # 1
    BY <1>1, <1>2
  <2>q. QED
    BY <1>6, <2>1
<1>9. TasksTyped(q, sc, ret, pr, FALSE)
  BY <1>5, <1>7, <1>8 DEF TasksTyped
<1>q. QED
  BY <1>9 DEF q

LEMMA PopExpression ==
  ASSUME NEW q, IsSeq(q), q # <<>>, Tail(q) # <<>>, NEW sc, NEW ret, NEW pr, NEW lv \in BOOLEAN, TasksTyped(q, sc, ret, pr, lv),
         q[1].do \in ExpressionTasks
  PROVE  LET r == Tail(q)
         IN /\ TasksTyped(r, sc, ret, pr, FALSE) /\ TaskTyped(sc, ret, pr, q[1])
            /\ r[1].do \in Takers => Given(sc, lv, q[1]) \subseteq Wanted(r[1])
<1> DEFINE r == Tail(q)
<1>1. /\ Len(q) \in Nat \ {0} /\ IsSeq(r) /\ Len(r) = Len(q) - 1 /\ 1 \in 1 .. Len(q)
      /\ \A n \in 1 .. Len(q) - 1 : n + 1 \in 1 .. Len(q) /\ r[n] = q[n + 1]
  BY FirstOrLater
<1> HIDE DEF r
<1>2. Len(r) >= 1 /\ Len(r) \in Nat
  BY <1>1, NotEmpty DEF IsSeq, r
<1>3. ASSUME NEW n \in 1 .. Len(r) PROVE TaskTyped(sc, ret, pr, r[n])
  BY <1>1 DEF TasksTyped
<1>4. ASSUME NEW m \in 1 .. Len(r), NEW n \in 1 .. Len(r), m < n, r[n].do \in ExpressionTasks \cup Takers
      PROVE  r[m].do \in ExpressionTasks
  <2>1. m + 1 \in 1 .. Len(q) /\ n + 1 \in 1 .. Len(q) /\ m + 1 < n + 1 /\ r[m] = q[m + 1] /\ r[n] = q[n + 1]
    BY <1>1, <1>4
  <2>q. QED
    BY <1>4, <2>1 DEF TasksTyped
<1>5. ASSUME NEW n \in 1 .. Len(r) - 1, r[n].do \in ExpressionTasks, r[n + 1].do \in Takers
      PROVE  Given(sc, FALSE /\ n = 1, r[n]) \subseteq Wanted(r[n + 1])
  <2> DEFINE m == n + 1
  <2>1. m \in 1 .. Len(q) - 1 /\ r[n] = q[m] /\ r[n + 1] = q[m + 1] /\ m # 1
    BY <1>1, <1>2
  <2> HIDE DEF m
  <2>2. Given(sc, lv /\ m = 1, q[m]) \subseteq Wanted(q[m + 1])
    BY <1>5, <2>1 DEF TasksTyped
  <2>3. Given(sc, lv /\ m = 1, q[m]) = Given(sc, FALSE /\ n = 1, q[m])
    BY <2>1, GivenSame
  <2>q. QED
    BY <2>1, <2>2, <2>3
<1>6. ASSUME r[1].do \in Takers PROVE Given(sc, lv, q[1]) \subseteq Wanted(r[1])
  <2>1. 1 \in 1 .. Len(q) - 1 /\ r[1] = q[1 + 1]
    BY <1>1, <1>2
  <2>2. Given(sc, lv /\ 1 = 1, q[1]) \subseteq Wanted(q[1 + 1])
    BY <1>6, <2>1 DEF TasksTyped
  <2>3. Given(sc, lv /\ 1 = 1, q[1]) = Given(sc, lv, q[1])
    BY GivenSame
  <2>q. QED
    BY <2>1, <2>2, <2>3
<1>7. TasksTyped(r, sc, ret, pr, FALSE)
  BY <1>3, <1>4, <1>5 DEF TasksTyped
<1>8. TaskTyped(sc, ret, pr, q[1])
  BY <1>1 DEF TasksTyped
<1>q. QED
  BY <1>6, <1>7, <1>8 DEF r


LEMMA CalmTuples ==
  ASSUME NEW pr, NEW a, NEW b, NEW c
  PROVE  /\ IsSeq(<<>>) /\ AllCalm(pr, <<>>)
         /\ Calm(pr, a) => IsSeq(<<a>>) /\ AllCalm(pr, <<a>>)
         /\ Calm(pr, a) /\ Calm(pr, b) => IsSeq(<<a, b>>) /\ AllCalm(pr, <<a, b>>)
         /\ Calm(pr, a) /\ Calm(pr, b) /\ Calm(pr, c) => IsSeq(<<a, b, c>>) /\ AllCalm(pr, <<a, b, c>>)
<1>1. IsSeq(<<>>) /\ AllCalm(pr, <<>>)
  <2>1. IsSeq(<<>>) /\ Len(<<>>) = 0
    BY EmptyIs
  <2>q. QED
    BY <2>1 DEF AllCalm
<1>2. Calm(pr, a) => IsSeq(<<a>>) /\ AllCalm(pr, <<a>>)
  <2>1. IsSeq(<<a>>) /\ Len(<<a>>) = 1 /\ <<a>>[1] = a
    BY UnitSeq
  <2>q. QED
    BY <2>1 DEF AllCalm
<1>3. IsSeq(<<a, b>>)
  BY DEF IsSeq
<1>4. IsSeq(<<a, b, c>>)
  BY DEF IsSeq
<1>5. Calm(pr, a) /\ Calm(pr, b) => AllCalm(pr, <<a, b>>)
  BY DEF AllCalm
<1>6. Calm(pr, a) /\ Calm(pr, b) /\ Calm(pr, c) => AllCalm(pr, <<a, b, c>>)
  BY DEF AllCalm
<1>q. QED
  BY <1>1, <1>2, <1>3, <1>4, <1>5, <1>6

LEMMA CalmKinds ==
  ASSUME NEW pr
  PROVE  /\ \A t : t.do \in {"end-of-function", "statement-list", "end-of-compound", "after-statement",
                             "end-of-if", "end-of-else", "end-of-while"} => Calm(pr, t)
         /\ \A t : t.do = "parameters" /\ Entering(t) => Calm(pr, t)
         /\ \A n \in Statement \cup Variable : Calm(pr, Visit(n))
<1>1. \A t : t.do \in {"end-of-function", "statement-list", "end-of-compound", "after-statement",
                       "end-of-if", "end-of-else", "end-of-while"} => Calm(pr, t)
  BY DEF Calm, ExpressionTasks, ExpressionKinds, Takers
<1>2. \A t : t.do = "parameters" /\ Entering(t) => Calm(pr, t)
  BY DEF Calm, ExpressionTasks, ExpressionKinds, Takers
<1>3. ASSUME NEW n \in Statement \cup Variable PROVE Calm(pr, Visit(n))
  <2> DEFINE v == Visit(n)
  <2>1. v.do \in StatementKinds \cup {"var-declaration"}
    BY DEF Statement, Variable, Visit
  <2> HIDE DEF v
  <2>2. Calm(pr, v)
    BY <2>1 DEF Calm, StatementKinds, ExpressionTasks, ExpressionKinds, Takers
  <2>q. QED
    BY <2>2 DEF v
<1>q. QED
  BY <1>1, <1>2, <1>3

\* The types are those of the program, which does not change.
LEMMA SameProgram ==
  ASSUME prog' = prog, RightBlocks(blocks')
  PROVE  RightBlocks(blocks)'
BY DEF RightBlocks

ValueOk(v) == v = None \/ v.ty \in Numbers \cup Addresses \cup {Void}

\* After a step that leaves no expression in progress.
LEMMA CalmStep ==
  ASSUME Tasks(todo), TypeInv, NEW t, Doing(t), t \notin ExpressionTasks,
         NEW s, IsSeq(s), AllCalm(prog, s), Then(s), prog' = prog, require_lvalue' = FALSE,
         ScopeTyped(scope'), ValueOk(tmp_val'), InFunction(todo') => Declared(prog, cur_fun'),
         RightBlocks(blocks'), insert' \in 0 .. Len(blocks')
  PROVE  TypeInv'
<1>1. todo # <<>> /\ IsSeq(todo) /\ todo[1].do = t /\ todo' = s \o Tail(todo)
  BY FirstTask DEF Then
<1>2. AllCalm(prog, Tail(todo)) /\ IsSeq(Tail(todo))
  BY <1>1, CalmBehind, FirstOrLater DEF TypeInv
<1>3. AllCalm(prog, todo') /\ IsSeq(todo')
  BY <1>1, <1>2, CalmConcat
<1>4. TasksTyped(todo', scope', cur_fun'.ret, prog, FALSE) /\ (todo' # <<>> => todo'[1].do \notin Takers)
  BY <1>3, CalmTyped
<1>5. ValueTyped(todo', tmp_val')
  BY <1>4 DEF ValueTyped, ValueOk
<1>6. TasksTyped(todo', scope', cur_fun'.ret, prog', require_lvalue')
  BY <1>4
<1>7. InFunction(todo') => Declared(prog', cur_fun')
  OBVIOUS
<1>8. (require_lvalue => IsNumber(scope, Task.node))'
  BY Zenon
<1>a. ScopeTyped(scope)'
  OBVIOUS
<1>b. TasksTyped(todo, scope, cur_fun.ret, prog, require_lvalue)'
  BY <1>6
<1>c. ValueTyped(todo, tmp_val)'
  BY <1>5
<1>d. (InFunction(todo) => Declared(prog, cur_fun))'
  BY <1>7
<1>e. RightBlocks(blocks)'
  BY SameProgram
<1>f. (insert \in 0 .. Len(blocks))'
  OBVIOUS
<1>q. QED
  BY <1>a, <1>b, <1>c, <1>d, <1>e, <1>f, <1>8, Zenon DEF TypeInv

\* In a function the step stays in it, and the insert point is a block.
LEMMA StillInside ==
  ASSUME IInv, IInv', NEW t, Doing(t), t \notin DeclKinds \cup {"end-of-function"}, NEW s, IsSeq(s), Then(s)
  PROVE  InFunction(todo) /\ InFunction(todo') /\ insert' \in 0 .. Len(blocks') /\ (t # "var" => require_lvalue = FALSE)
<1>1. todo # <<>> /\ todo[1].do = t /\ todo' = s \o Tail(todo) /\ Tasks(todo) /\ ScopeInv
  BY FirstTask DEF Then, IInv
<1>2. InFunction(todo) /\ InFunction(Tail(todo)) /\ IsSeq(Tail(todo))
  BY <1>1, TasksTail DEF Inner
<1>3. InFunction(todo')
  <2> DEFINE r == Tail(todo)
             q == s \o r
  <2>1. PICK n \in DOMAIN r : r[n].do = "end-of-function"
    BY <1>2 DEF InFunction
  <2>2. /\ IsSeq(q) /\ Len(q) = Len(s) + Len(r)
        /\ \A m \in 1 .. Len(r) : q[Len(s) + m] = r[m]
    BY <1>2, ConcatSeq
  <2> HIDE DEF q, r
  <2>3. DOMAIN q = 1 .. Len(q) /\ n \in 1 .. Len(r) /\ Len(s) \in Nat /\ Len(r) \in Nat
    BY <1>2, <2>1, <2>2 DEF IsSeq, r
  <2>5. Len(s) + n \in DOMAIN q /\ q[Len(s) + n] = r[n]
    BY <2>2, <2>3
  <2>4. InFunction(q)
    BY <2>1, <2>5 DEF InFunction
  <2>q. QED
    BY <1>1, <2>4 DEF q, r
<1>4. insert' \in 0 .. Len(blocks')
  BY <1>3 DEF IInv, BlockInv, Blocks, InBody, Building
<1>5. t # "var" => require_lvalue = FALSE
  BY <1>1, NoRequest
<1>q. QED
  BY <1>2, <1>3, <1>4, <1>5

LEMMA InsideStep ==
  ASSUME IInv, IInv', TypeInv, NEW t, Doing(t), t \notin ExpressionTasks \cup DeclKinds \cup {"end-of-function"},
         NEW s, IsSeq(s), AllCalm(prog, s), Then(s), prog' = prog, require_lvalue' = require_lvalue, cur_fun' = cur_fun,
         ScopeTyped(scope'), ValueOk(tmp_val'), RightBlocks(blocks')
  PROVE  TypeInv'
<1>1. InFunction(todo) /\ insert' \in 0 .. Len(blocks') /\ (t # "var" => require_lvalue = FALSE) /\ Tasks(todo)
  BY StillInside DEF IInv
<1>2. t # "var"
  BY DEF ExpressionTasks, ExpressionKinds
<1>3. Declared(prog, cur_fun')
  BY <1>1 DEF TypeInv
<1>q. QED
  BY <1>1, <1>2, <1>3, CalmStep

\* The tasks all statements can be.
LEMMA Steps ==
  /\ {"parameters", "compound-stmt", "statement-list", "after-statement", "end-of-compound", "expression-stmt", "if",
      "end-of-if", "end-of-else", "while", "end-of-while", "iteration-stmt", "return-stmt", "return-value", "selection-stmt"}
     \cap (ExpressionTasks \cup DeclKinds \cup {"end-of-function"}) = {}
  /\ {"var-declaration", "fun-declaration", "end-of-function"} \cap ExpressionTasks = {}
BY DEF ExpressionTasks, ExpressionKinds, DeclKinds

LEMMA Holding ==
  ASSUME TypeInv
  PROVE  ScopeTyped(scope) /\ ValueOk(tmp_val) /\ RightBlocks(blocks) /\ insert \in 0 .. Len(blocks)
BY DEF TypeInv, ValueTyped, ValueOk

LEMMA IdleTypes ==
  ASSUME IInv, IInv', TypeInv, NextStatement \/ AfterStatement \/ (ExpressionStmt /\ Task.node.e = None)
  PROVE  TypeInv'
<1>1. ScopeTyped(scope') /\ ValueOk(tmp_val') /\ RightBlocks(blocks') /\ prog' = prog /\ cur_fun' = cur_fun
      /\ require_lvalue' = require_lvalue
  BY Holding DEF NextStatement, AfterStatement, ExpressionStmt
<1>2. PICK t \in {"statement-list", "after-statement", "expression-stmt"} : Doing(t) /\ IsTask(Task) /\ Task.do = t
  BY FirstTask DEF NextStatement, AfterStatement, ExpressionStmt, IInv
<1>3. \E s : IsSeq(s) /\ AllCalm(prog, s) /\ Then(s)
  <2>1. CASE Then(<<>>)
    BY <2>1, CalmTuples
  <2>2. CASE NextStatement /\ Task.rest # <<>>
    <3> DEFINE a == Visit(Head(Task.rest))
               b == [do |-> "after-statement", rest |-> Tail(Task.rest)]
    <3>1. Then(<<a, b>>) /\ Task.do = "statement-list"
      BY <2>2 DEF NextStatement, Doing
    <3>2. Calm(prog, a)
      BY <1>2, <2>2, <3>1, Children, CalmKinds
    <3>4. b.do = "after-statement"
      OBVIOUS
    <3> HIDE DEF a, b
    <3>3. Calm(prog, b)
      BY <3>4, CalmKinds
    <3>q. QED
      BY <3>1, <3>2, <3>3, CalmTuples
  <2>3. CASE AfterStatement /\ ~Then(<<>>)
    <3> DEFINE a == [do |-> "statement-list", rest |-> Task.rest]
    <3>1. Then(<<a>>)
      BY <2>3 DEF AfterStatement
    <3>3. a.do = "statement-list"
      OBVIOUS
    <3> HIDE DEF a
    <3>2. Calm(prog, a)
      BY <3>3, CalmKinds
    <3>q. QED
      BY <3>1, <3>2, CalmTuples
  <2>q. QED
    BY <2>1, <2>2, <2>3 DEF NextStatement, AfterStatement, ExpressionStmt
<1>4. t \notin ExpressionTasks \cup DeclKinds \cup {"end-of-function"}
  BY <1>2, Steps
<1>q. QED
  BY <1>1, <1>2, <1>3, <1>4, InsideStep


-----------------------------------------------------------------------------
(* Statements and declarations.                                              *)

\* Variables of all kinds.
LEMMA DeclaredTypes ==
  ASSUME NEW d, NEW r
  PROVE  /\ VarTyped(Value(Ptr(VarType(d)), r)) /\ Value(Ptr(VarType(d)), r) # None
         /\ \A v : v.ty = Ptr(VarType(d)) \/ v.ty = Ptr(ParamType(d)) => VarTyped(v)
         /\ ParamType(d) \in Numbers \cup Addresses
<1>1. ElementType(d) \in Numbers
  BY DEF ElementType, Numbers
<1>2. VarType(d) \in Pointees /\ ParamType(d) \in Pointees
  BY <1>1 DEF VarType, ParamType, Pointees
<1>3. ParamType(d) \in Numbers \cup Addresses
  BY <1>1 DEF ParamType, Addresses
<1>4. Value(Ptr(VarType(d)), r).ty = Ptr(VarType(d)) /\ Value(Ptr(VarType(d)), r) # None
  BY DEF Value, None
<1>q. QED
  BY <1>2, <1>3, <1>4 DEF VarTyped

LEMMA GenValue ==
  ASSUME NEW c, NEW op, NEW t, NEW args
  PROVE  Gen(c, op, t, args).v # None /\ Gen(c, op, t, args).v.ty = t
<1> DEFINE i == [op |-> op, ty |-> t, args |-> args]
           r == <<"inst", c.at, Len(c.bs[c.at].code) + 1>>
<1>1. i.ty = t /\ Gen(c, op, t, args) = Emit(c, i)
  BY DEF Gen
<1> HIDE DEF i
<1>2. Gen(c, op, t, args).v = Value(t, r)
  BY <1>1 DEF Emit
<1> HIDE DEF r
<1>3. Value(t, r).ty = t /\ Value(t, r) # None
  BY DEF Value, None
<1>q. QED
  BY <1>2, <1>3

LEMMA AllocaSound ==
  ASSUME NEW c, NEW f, NEW k, Sound(c, f, k), NEW t, NEW d
  PROVE  LET x == Alloca(c, t, d)
         IN Sound(x, f, k) /\ Len(x.bs) = Len(c.bs) /\ x.v.ty = Ptr(t) /\ x.v # None
<1> DEFINE v == Value(t, <<"decl", d>>)
<1>1. Alloca(c, t, d) = Gen(c, "alloca", Ptr(t), <<v>>)
  BY DEF Alloca
<1> HIDE DEF v
<1>2. Right("alloca", Ptr(t), <<v>>, f)
  BY RightUnary
<1>q. QED
  BY <1>1, <1>2, GenSound, GenValue

LEMMA SoundParts ==
  ASSUME NEW c, NEW f, NEW k, Sound(c, f, k)
  PROVE  RightBlocks(c.bs) /\ c.at \in 0 .. Len(c.bs)
BY DEF Sound

LEMMA ParameterTypes ==
  ASSUME IInv, IInv', TypeInv, Parameter
  PROVE  TypeInv'
<1>1. /\ Doing("parameters") /\ prog' = prog /\ cur_fun' = cur_fun /\ require_lvalue' = require_lvalue
      /\ tmp_val' = tmp_val
  BY SMTT(30) DEF Parameter, BuiltOnly
<1>2. todo # <<>> /\ IsSeq(todo) /\ todo[1] = Task /\ Task.do = "parameters" /\ InFunction(todo)
  BY <1>1, FirstTask, PlainTask DEF Facing, IInv
<1>3. Entering(Task)
  <2>1. 1 \in 1 .. Len(todo)
    BY <1>2, NotEmpty DEF IsSeq
  <2>q. QED
    BY <1>2, <2>1 DEF TypeInv, TasksTyped, TaskTyped
<1>4. "parameters" \notin ExpressionTasks \cup DeclKinds \cup {"end-of-function"}
  BY Steps
<1>5. CASE Task.done = Len(Task.node.params)
  <2>1. Then(<<>>) /\ scope' = scope /\ blocks' = blocks
    BY <1>5 DEF Parameter
  <2>2. IsSeq(<<>>) /\ AllCalm(prog, <<>>)
    BY CalmTuples
  <2>q. QED
    BY <1>1, <1>4, <2>1, <2>2, Holding, InsideStep
<1>6. CASE Task.done # Len(Task.node.params)
  <2> DEFINE n == Task.done + 1
             p == Task.node.params[n]
             c == Alloca(Here, ParamType(p), p.decl)
             a == Value(ParamType(p), <<"arg", n>>)
             x == Gen(c, "store", Void, <<a, c.v>>)
             t == [Task EXCEPT !.done = n]
             f == cur_fun.ref[2]
             k == Len(blocks)
  <2>1. blocks' = x.bs /\ scope' = Bind(scope, p.id, c.v) /\ Then(<<t>>)
    BY ZenonT(40), <1>6 DEF Parameter, BuiltOnly
  <2>2. Task.node.params \in Seq({q \in Range(Task.node.params) : IsName(q.id)})
    BY <1>3, NodesAssumption DEF Entering, IsNode
  <2>3. Len(Task.node.params) \in Nat /\ n \in 1 .. Len(Task.node.params)
    BY <1>3, <1>6, <2>2, SeqIs DEF Entering, IsSeq
  <2>4. IsName(p.id)
    BY <2>2, <2>3, SeqIs
  <2>5. Entering(t) /\ t.do = "parameters"
    <3>1. t = [do |-> "parameters", node |-> Task.node, done |-> n]
      BY <1>3 DEF Entering
    <3> HIDE DEF t, n
    <3>q. QED
      BY <1>3, <2>3, <3>1 DEF Entering
  <2>6. Sound(Here, f, k)
    BY <1>2, HereSound DEF IInv
  <2>7. a.ty = ParamType(p)
    BY DEF Value
  <2>15. c.v.ty = Ptr(ParamType(p)) /\ c.v # None /\ Sound(c, f, k)
    BY <2>6, AllocaSound
  <2>10. VarTyped(c.v) /\ c.v.ty = Ptr(a.ty) /\ c.v # None /\ Sound(c, f, k)
    BY ZenonT(40), <2>7, <2>15, DeclaredTypes
  <2>11. scope # <<>> /\ IsSeq(scope)
    BY ScopeParts DEF IInv
  <2> HIDE DEF n, p, c, a, t, f, k
  <2>8. Calm(prog, t)
    BY <2>5, CalmKinds
  <2>9. IsSeq(<<t>>) /\ AllCalm(prog, <<t>>)
    BY <2>8, CalmTuples
  <2>12. RightBlocks(x.bs)
    BY <2>10, RightStore, GenSound, SoundParts
  <2>13. ScopeTyped(Bind(scope, p.id, c.v))
    BY <2>4, <2>10, <2>11, Holding, BindTyped
  <2> HIDE DEF x
  <2>14. ScopeTyped(scope') /\ RightBlocks(blocks')
    BY <2>1, <2>12, <2>13
  <2>q. QED
    BY <1>1, <1>4, <2>1, <2>9, <2>14, Holding, InsideStep
<1>q. QED
  BY <1>5, <1>6

LEMMA CompoundTypes ==
  ASSUME IInv, IInv', TypeInv, CompoundStmt
  PROVE  TypeInv'
<1> DEFINE ds == Task.node.decls
           a  == [do |-> "statement-list", rest |-> Task.node.stmts]
           b  == [do |-> "end-of-compound"]
           s  == [n \in DOMAIN ds |-> Visit(ds[n])]
<1>1. /\ Doing("compound-stmt") /\ UNCHANGED <<prog, tmp_val, require_lvalue, cur_fun, insert, blocks>>
      /\ scope' = Append(scope, <<>>) /\ Then(s \o <<a, b>>)
  BY DEF CompoundStmt
<1>2. IsSeq(s) /\ AllCalm(prog, s)
  <2>1. Task.node \in Nodes /\ Task.node.k = "compound-stmt"
    BY <1>1, FirstTask DEF IInv, IsTask, StatementKinds
  <2>2. ds \in Seq(Variable)
    BY <2>1, NodesAssumption DEF IsNode
  <2> HIDE DEF ds
  <2>3. DOMAIN ds = 1 .. Len(ds) /\ Len(ds) \in Nat /\ \A n \in 1 .. Len(ds) : ds[n] \in Variable
    BY <2>2, SeqIs DEF IsSeq
  <2>4. s = [n \in 1 .. Len(ds) |-> s[n]] /\ \A n \in 1 .. Len(ds) : s[n] = Visit(ds[n])
    BY <2>3
  <2> HIDE DEF s
  <2>5. IsSeq(s) /\ Len(s) = Len(ds)
    BY <2>3, <2>4, FunctionSeq
  <2>q. QED
    BY <2>3, <2>4, <2>5, CalmKinds DEF AllCalm
<1>3. IsSeq(<<a, b>>) /\ AllCalm(prog, <<a, b>>)
  <2>1. a.do = "statement-list" /\ b.do = "end-of-compound"
    OBVIOUS
  <2> HIDE DEF a, b
  <2>2. Calm(prog, a) /\ Calm(prog, b)
    BY <2>1, CalmKinds
  <2>q. QED
    BY <2>2, CalmTuples
<1> HIDE DEF s, a, b
<1>4. IsSeq(s \o <<a, b>>) /\ AllCalm(prog, s \o <<a, b>>)
  BY <1>2, <1>3, CalmConcat
<1>5. ScopeTyped(scope')
  BY <1>1, Holding, ScopeParts, EnterTyped DEF IInv
<1>6. "compound-stmt" \notin ExpressionTasks \cup DeclKinds \cup {"end-of-function"}
  BY Steps
<1>7. ValueOk(tmp_val') /\ RightBlocks(blocks')
  BY <1>1, Holding
<1>q. QED
  BY <1>1, <1>4, <1>5, <1>6, <1>7, InsideStep

LEMMA LeftScope ==
  ASSUME IInv, IInv', TypeInv, scope' = Front(scope)
  PROVE  ScopeTyped(scope')
<1>1. scope # <<>> /\ IsSeq(scope)
  BY ScopeParts DEF IInv
<1>2. Len(scope') >= 1
  <2>1. Len(scope') = 1 + Ends(todo') /\ IsSeq(todo')
    BY DEF IInv, ScopeInv, Tasks
  <2>2. Len(scope') \in Nat
    BY <1>1, FrontSeq DEF IsSeq
  <2>3. Ends(todo') \in Nat
    <3>1. CASE todo' = <<>>
      BY <2>1, <3>1, InFunctionEnds, EmptyIs
    <3>2. CASE todo' # <<>>
      <4>1. Ends(Tail(todo')) \in Nat /\ Ends(todo') = Ends(Tail(todo')) + (IF todo'[1].do \in EndKinds THEN 1 ELSE 0)
        BY <2>1, <3>2, EndsFirst
      <4>q. QED
        BY <4>1
    <3>q. QED
      BY <3>1, <3>2
  <2>q. QED
    BY <2>1, <2>3
<1>q. QED
  BY <1>1, <1>2, Holding, LeaveTyped

LEMMA EndCompoundTypes ==
  ASSUME IInv, IInv', TypeInv, EndCompound
  PROVE  TypeInv'
<1>1. /\ Doing("end-of-compound") /\ UNCHANGED <<prog, tmp_val, require_lvalue, cur_fun, insert, blocks>>
      /\ scope' = Front(scope) /\ Then(<<>>)
  BY DEF EndCompound
<1>2. ScopeTyped(scope')
  BY <1>1, LeftScope
<1>3. "end-of-compound" \notin ExpressionTasks \cup DeclKinds \cup {"end-of-function"}
  BY Steps
<1>4. ValueOk(tmp_val') /\ RightBlocks(blocks') /\ IsSeq(<<>>) /\ AllCalm(prog, <<>>)
  BY <1>1, Holding, CalmTuples
<1>q. QED
  BY <1>1, <1>2, <1>3, <1>4, InsideStep

LEMMA EndFunctionTypes ==
  ASSUME IInv, IInv', TypeInv, Unique, EndFunction
  PROVE  TypeInv'
<1> DEFINE x == IF Terminated(blocks, insert) THEN Here ELSE DefaultRet(Here)
           f == cur_fun.ref[2]
           k == Len(blocks)
<1>1. /\ Doing("end-of-function") /\ UNCHANGED <<prog, require_lvalue, cur_fun, tmp_val>>
      /\ scope' = Front(scope) /\ Then(<<>>) /\ blocks' = x.bs /\ insert' = x.at
  BY DEF EndFunction, BuiltOnly
<1>2. todo # <<>> /\ todo[1].do = "end-of-function" /\ todo' = Tail(todo) /\ IsSeq(todo)
  BY <1>1, FirstTask DEF IInv
<1>3. InFunction(todo) /\ ~InFunction(todo')
  BY <1>2, TasksTail, InFunctionFirst DEF IInv
<1>4. Sound(Here, f, k) /\ cur_fun.ret \in {I32, Float, Void} /\ Declared(prog, cur_fun)
  BY <1>3, HereSound DEF IInv
<1>5. Sound(x, f, k)
  BY <1>4, DefaultRetSound
<1> HIDE DEF x, f, k
<1>6. RightBlocks(blocks') /\ insert' \in 0 .. Len(blocks')
  BY <1>1, <1>5, SoundParts
<1>7. ScopeTyped(scope')
  BY <1>1, LeftScope
<1>8. require_lvalue' = FALSE
  BY <1>1, NoRequest DEF IInv
<1>9. "end-of-function" \notin ExpressionTasks
  BY Steps
<1>10. ValueOk(tmp_val') /\ IsSeq(<<>>) /\ AllCalm(prog, <<>>) /\ Tasks(todo)
  BY <1>1, Holding, CalmTuples DEF IInv
<1>q. QED
  BY <1>1, <1>3, <1>6, <1>7, <1>8, <1>9, <1>10, CalmStep


LEMMA GlobalBlocks ==
  ASSUME IInv
  PROVE  IsBlocks(blocks) /\ IsSeq(blocks)
<1>1. IsBlocks(blocks)
  BY DEF IInv, BlockInv, Blocks, InBody, Building, Graph
<1>q. QED
  BY <1>1 DEF IsBlocks

LEMMA VarDeclarationTypes ==
  ASSUME IInv, IInv', TypeInv, VarDeclaration
  PROVE  TypeInv'
<1> DEFINE d == Task.node
           c == Alloca(Here, VarType(d), d.decl)
           g == Value(Ptr(VarType(d)), <<"global", d.decl>>)
           f == cur_fun.ref[2]
           k == Len(blocks)
<1>1. Doing("var-declaration") /\ Then(<<>>) /\ UNCHANGED <<prog, require_lvalue, cur_fun>>
  BY DEF VarDeclaration
<1>2. todo # <<>> /\ todo[1] = Task /\ Task.do = "var-declaration" /\ todo' = Tail(todo) /\ IsTask(Task) /\ IsSeq(todo)
  BY <1>1, FirstTask DEF IInv
<1>3. IsName(d.id)
  <2>1. Task.node \in Nodes /\ Task.node.k = "var-declaration"
    BY <1>2 DEF IsTask, DeclKinds
  <2>q. QED
    BY <2>1, NodesAssumption DEF IsNode
<1>4. InFunction(todo') => InFunction(todo)
  BY <1>2, InFunctionFirst
<1>5. scope # <<>> /\ IsSeq(scope) /\ Len(scope) = 1 + Ends(todo) /\ (Ends(todo) = 0 <=> ~InFunction(todo)) /\ Ends(todo) \in Nat
  <2>1. scope # <<>> /\ IsSeq(scope) /\ Len(scope) = 1 + Ends(todo) /\ Ends(todo) \in Nat
    BY ScopeParts DEF IInv
  <2>2. Ends(todo) = 0 <=> ~InFunction(todo)
    BY EndsInFunction DEF IInv
  <2>q. QED
    BY <2>1, <2>2
<1>6. require_lvalue' = FALSE
  BY <1>1, NoRequest DEF IInv
<1>7. "var-declaration" \notin ExpressionTasks /\ IsSeq(<<>>) /\ AllCalm(prog, <<>>) /\ Tasks(todo)
  BY Steps, CalmTuples DEF IInv
<1>8. InFunction(todo') => Declared(prog, cur_fun')
  BY <1>1, <1>4 DEF TypeInv
<1>9. CASE Len(scope) = 1
  <2>1. scope' = Bind(scope, d.id, g) /\ blocks' = blocks /\ insert' = insert /\ tmp_val' = tmp_val
    BY <1>9 DEF VarDeclaration
  <2>2. VarTyped(g) /\ g # None
    BY DeclaredTypes
  <2> HIDE DEF d, g
  <2>3. ScopeTyped(scope') /\ ValueOk(tmp_val') /\ RightBlocks(blocks') /\ insert' \in 0 .. Len(blocks')
    BY <1>3, <1>5, <2>1, <2>2, Holding, BindTyped
  <2>q. QED
    BY <1>1, <1>6, <1>7, <1>8, <2>3, CalmStep
<1>10. CASE Len(scope) # 1
  <2>1. scope' = Bind(scope, d.id, c.v) /\ blocks' = c.bs /\ insert' = c.at /\ tmp_val' = tmp_val
    BY <1>10 DEF VarDeclaration, BuiltOnly
  <2>2. Sound(Here, f, k)
    BY <1>5, <1>10, HereSound DEF IInv
  <2> HIDE DEF f, k
  <2>3. c.v.ty = Ptr(VarType(d)) /\ c.v # None /\ Sound(c, f, k)
    BY <2>2, AllocaSound
  <2>4. VarTyped(c.v)
    BY <2>3, DeclaredTypes
  <2> HIDE DEF d, c
  <2>5. ScopeTyped(scope') /\ ValueOk(tmp_val') /\ RightBlocks(blocks') /\ insert' \in 0 .. Len(blocks')
    BY <1>3, <1>5, <2>1, <2>3, <2>4, Holding, BindTyped, SoundParts
  <2>q. QED
    BY <1>1, <1>6, <1>7, <1>8, <2>5, CalmStep
<1>q. QED
  BY <1>9, <1>10

LEMMA NewBlockRight ==
  ASSUME NEW bs, IsSeq(bs), RightBlocks(bs), NEW f
  PROVE  RightBlocks(Append(bs, NewBlock(f))) /\ Len(Append(bs, NewBlock(f))) = Len(bs) + 1 /\ Len(bs) \in Nat
<1> DEFINE n == NewBlock(f)
           x == Append(bs, n)
<1>1. /\ IsSeq(x) /\ Len(x) = Len(bs) + 1 /\ x[Len(bs) + 1] = n
      /\ \A b \in 1 .. Len(bs) : x[b] = bs[b]
  BY AppendSeq
<1>2. Len(n.code) = 0 /\ Len(bs) \in Nat
  BY EmptyIs DEF NewBlock, IsSeq
<1> HIDE DEF x, n
<1>3. ASSUME NEW b \in 1 .. Len(x), x[b].fun # "removed", NEW m \in 1 .. Len(x[b].code)
      PROVE  RightTypes(x[b].code[m], Signature(prog, x[b].fun))
  <2>1. b # Len(bs) + 1
    BY <1>1, <1>2, <1>3
  <2>2. b \in 1 .. Len(bs) /\ x[b] = bs[b]
    BY <1>1, <1>2, <2>1
  <2>q. QED
    BY <1>3, <2>2 DEF RightBlocks
<1>4. RightBlocks(x)
  BY <1>3 DEF RightBlocks
<1>q. QED
  BY <1>1, <1>2, <1>4 DEF x, n

LEMMA FunDeclarationTypes ==
  ASSUME IInv, IInv', TypeInv, FunDeclaration
  PROVE  TypeInv'
<1> DEFINE d   == Task.node
           ret == IF d.ret = "void" THEN Void ELSE IF d.ret = "int" THEN I32 ELSE Float
           ps  == [n \in DOMAIN d.params |-> ParamType(d.params[n])]
           fun == Fun(d.id, ret, ps)
           bs  == Append(blocks, NewBlock(d.id))
           a   == [do |-> "parameters", node |-> d, done |-> 0]
           b   == Visit(d.body)
           e   == [do |-> "end-of-function"]
<1>1. /\ Doing("fun-declaration") /\ Then(<<a, b, e>>) /\ UNCHANGED <<prog, require_lvalue, tmp_val>>
      /\ cur_fun' = fun /\ scope' = Append(Bind(scope, d.id, fun), <<>>)
      /\ blocks' = bs /\ insert' = Len(blocks) + 1
  BY DEF FunDeclaration, BuiltOnly
<1>2. todo # <<>> /\ todo[1] = Task /\ Task.do = "fun-declaration" /\ IsTask(Task) /\ IsSeq(todo)
  BY <1>1, FirstTask DEF IInv
<1>3. d \in Nodes /\ d.k = "fun-declaration"
  BY <1>2 DEF IsTask, DeclKinds
<1>4. IsName(d.id) /\ d.body \in Statement /\ d.params \in Seq({p \in Range(d.params) : IsName(p.id)})
  BY <1>3, NodesAssumption DEF IsNode
<1>5. Len(d.params) \in Nat /\ DOMAIN d.params = 1 .. Len(d.params)
  BY <1>4, SeqIs DEF IsSeq
<1>6. Declared(prog, fun)
  <2>1. 1 \in 1 .. Len(todo)
    BY <1>2, NotEmpty DEF IsSeq
  <2>2. PICK n \in DOMAIN prog : prog[n] = d
    BY <1>2, <2>1 DEF TypeInv, TasksTyped, TaskTyped
  <2>3. fun.ref[2] = d.id /\ fun.ret = RetType(d)
    BY DEF Fun, RetType
  <2> HIDE DEF fun
  <2>q. QED
    BY <1>3, <2>2, <2>3 DEF Declared
<1>7. FunTyped(fun) /\ fun # None
  <2>1. ps = [n \in 1 .. Len(d.params) |-> ps[n]] /\ \A n \in 1 .. Len(d.params) : ps[n] = ParamType(d.params[n])
    BY <1>5
  <2>2. fun.ty = <<"fun">> /\ fun.ret = ret /\ fun.params = ps /\ fun # None
    BY DEF Fun, None
  <2> HIDE DEF fun, ps
  <2>3. IsSeq(ps) /\ Len(ps) = Len(d.params)
    BY <1>5, <2>1, FunctionSeq
  <2>4. \A n \in 1 .. Len(ps) : ps[n] \in Numbers \cup Addresses
    BY <2>1, <2>3, DeclaredTypes
  <2>q. QED
    BY <2>2, <2>3, <2>4 DEF FunTyped
<1> HIDE DEF fun, ps, ret
<1>8. ScopeTyped(scope')
  <2> DEFINE sc == Bind(scope, d.id, fun)
  <2>1. scope # <<>> /\ IsSeq(scope)
    BY ScopeParts DEF IInv
  <2>2. IsSeq(sc) /\ Len(sc) = Len(scope) /\ ScopeTyped(sc)
    BY <1>4, <1>7, <2>1, BindSeq, BindTyped, Holding
  <2> HIDE DEF sc
  <2>3. sc # <<>>
    BY <2>1, <2>2, NotEmpty
  <2>4. ScopeTyped(Append(sc, <<>>))
    BY <2>2, <2>3, EnterTyped
  <2>q. QED
    BY <1>1, <2>4 DEF sc
<1>9. RightBlocks(bs) /\ Len(bs) = Len(blocks) + 1 /\ Len(blocks) \in Nat
  BY GlobalBlocks, Holding, NewBlockRight
<1>10. IsSeq(<<a, b, e>>) /\ AllCalm(prog, <<a, b, e>>)
  <2>1. a.do = "parameters" /\ Entering(a)
    <3>1. a = [do |-> "parameters", node |-> d, done |-> 0] /\ a.node = d /\ a.done = 0
      OBVIOUS
    <3> HIDE DEF a, d
    <3>q. QED
      BY <1>3, <1>5, <3>1 DEF Entering
  <2>2. e.do = "end-of-function"
    OBVIOUS
  <2>3. Calm(prog, b)
    BY ONLY <1>4, CalmKinds
  <2> HIDE DEF a, b, e
  <2>4. Calm(prog, a)
    BY ONLY <2>1, CalmKinds
  <2>5. Calm(prog, e)
    BY ONLY <2>2, CalmKinds
  <2>q. QED
    BY <2>3, <2>4, <2>5, CalmTuples
<1> HIDE DEF bs, a, b, e
<1>11. RightBlocks(blocks') /\ insert' \in 0 .. Len(blocks')
  BY <1>1, <1>9
<1>12. require_lvalue' = FALSE
  BY <1>1, NoRequest DEF IInv
<1>13. "fun-declaration" \notin ExpressionTasks /\ Tasks(todo) /\ ValueOk(tmp_val')
  BY <1>1, Steps, Holding DEF IInv
<1>14. Declared(prog, cur_fun')
  BY <1>1, <1>6
<1>q. QED
  BY <1>1, <1>8, <1>10, <1>11, <1>12, <1>13, <1>14, CalmStep


-----------------------------------------------------------------------------
(* Branches and returns.                                                     *)

\* What is known of a task in a function, and of the value it waits for.
LEMMA Within ==
  ASSUME IInv, TypeInv, NEW t, Doing(t), t \notin DeclKinds \cup {"end-of-function"}
  PROVE  /\ InFunction(todo) /\ todo # <<>> /\ IsSeq(todo) /\ todo[1] = Task /\ Task.do = t /\ IsTask(Task)
         /\ IsSeq(Tail(todo)) /\ Tail(todo) # <<>>
         /\ Sound(Here, cur_fun.ref[2], Len(blocks)) /\ Here.v = tmp_val /\ Len(blocks) \in Nat
         /\ cur_fun.ret \in {I32, Float, Void} /\ Declared(prog, cur_fun)
         /\ TaskTyped(scope, cur_fun.ret, prog, Task)
         /\ t \in Takers => tmp_val.ty \in Wanted(Task)
         /\ Fills(Task) \cup Heads(Task) \subseteq 1 .. Len(blocks)
<1>1. todo # <<>> /\ IsSeq(todo) /\ todo[1] = Task /\ Task.do = t /\ IsTask(Task)
  BY FirstTask DEF IInv
<1>2. InFunction(todo) /\ IsSeq(Tail(todo)) /\ Tail(todo) # <<>>
  BY <1>1, TasksTail DEF IInv, Inner
<1>3. /\ Sound(Here, cur_fun.ref[2], Len(blocks)) /\ Here.v = tmp_val /\ Len(blocks) \in Nat
      /\ cur_fun.ret \in {I32, Float, Void} /\ Declared(prog, cur_fun)
  BY <1>2, HereSound DEF IInv
<1>4. 1 \in 1 .. Len(todo)
  BY <1>1, NotEmpty DEF IsSeq
<1>5. TaskTyped(scope, cur_fun.ret, prog, Task)
  BY <1>1, <1>4 DEF TypeInv, TasksTyped
<1>6. t \in Takers => tmp_val.ty \in Wanted(Task)
  BY <1>1 DEF TypeInv, ValueTyped
<1>7. Fills(Task) \cup Heads(Task) \subseteq 1 .. Len(blocks)
  <2>1. Building(blocks, insert, ToFill(todo), cur_fun.ref[2]) /\ Plan(todo, blocks, cur_fun.ref[2])
    BY <1>2 DEF IInv, BlockInv, Blocks, InBody
  <2>2. ToFill(todo) \subseteq 1 .. Len(blocks) /\ LoopHeads(todo) \subseteq 1 .. Len(blocks)
    BY <2>1 DEF Building, Plan
  <2>3. Fills(Task) \subseteq ToFill(todo) /\ Heads(Task) \subseteq LoopHeads(todo)
    BY <1>1, PlanFirst
  <2>q. QED
    BY <2>2, <2>3
<1>q. QED
  BY <1>1, <1>2, <1>3, <1>5, <1>6, <1>7

LEMMA AtBlocks ==
  ASSUME NEW c, NEW f, NEW k, Sound(c, f, k), NEW b
  PROVE  At(c, b).bs = c.bs /\ RightBlocks(At(c, b).bs)
BY AtIs DEF Sound

LEMMA ForkRight ==
  ASSUME NEW c, NEW f, NEW k, Sound(c, f, k), NEW v, v.ty \in Numbers,
         NEW b \in 1 .. Len(c.bs), NEW d \in 1 .. Len(c.bs), b # d
  PROVE  RightBlocks(Branched(c, v, b, d).bs)
<1> DEFINE x == NonZero(c, v)
           y == CondBr(x, x.v, b, d)
<1>1. Sound(x, f, k) /\ Len(x.bs) = Len(c.bs) /\ x.v.ty = Bit
  BY NonZeroSound
<1>2. Branched(c, v, b, d) = At(y, b)
  BY DEF Branched
<1> HIDE DEF x
<1>3. b \in 1 .. Len(x.bs) /\ d \in 1 .. Len(x.bs)
  BY <1>1
<1>4. Sound(y, f, k)
  BY <1>1, <1>3, CondBrSound
<1> HIDE DEF y
<1>q. QED
  BY <1>2, <1>4, AtBlocks

LEMMA SelectionTypes ==
  ASSUME IInv, IInv', TypeInv, SelectionBranch
  PROVE  TypeInv'
<1> DEFINE k  == Len(blocks)
           d  == IF Task.node.else # None THEN k + 2 ELSE k + 3
           c1 == Created(Here)
           c2 == Created(c1)
           c3 == Created(c2)
           f  == cur_fun.ref[2]
           a  == Visit(Task.node.then)
           b  == [do |-> "end-of-if", node |-> Task.node, falseBB |-> k + 2, contBB |-> k + 3]
<1>1. /\ Doing("if") /\ Then(<<a, b>>) /\ UNCHANGED <<prog, require_lvalue, scope, cur_fun, tmp_val>>
      /\ blocks' = Branched(c3, tmp_val, k + 1, d).bs
  BY DEF SelectionBranch, BuiltOnly, Branched
<1>2. "if" \notin ExpressionTasks \cup DeclKinds \cup {"end-of-function"} /\ "if" \in Takers
  BY Steps DEF Takers
<1>3. /\ IsTask(Task) /\ Task.do = "if" /\ Sound(Here, f, k) /\ tmp_val.ty \in Wanted(Task) /\ k \in Nat /\ Here.bs = blocks
  BY <1>1, <1>2, Within DEF Here
<1>4. tmp_val.ty \in Numbers
  BY <1>3 DEF Wanted
<1>5. Calm(prog, a)
  <2>1. Task.node \in Nodes /\ Task.node.k = "selection-stmt"
    BY <1>3 DEF IsTask
  <2>2. Task.node.then \in Statement
    BY <2>1, NodesAssumption DEF IsNode
  <2>q. QED
    BY <2>2, CalmKinds
<1>6. b.do = "end-of-if"
  OBVIOUS
<1>7. d \in {k + 2, k + 3}
  OBVIOUS
<1> HIDE DEF a, b, d
<1>15. Calm(prog, b)
  BY <1>6, CalmKinds
<1>8. IsSeq(<<a, b>>) /\ AllCalm(prog, <<a, b>>)
  BY <1>5, <1>15, CalmTuples
<1>9. Sound(c1, f, k) /\ Len(c1.bs) = k + 1
  BY <1>3, CreatedSound
<1> HIDE DEF c1
<1>10. Sound(c2, f, k) /\ Len(c2.bs) = k + 1 + 1
  BY <1>9, CreatedSound
<1> HIDE DEF c2
<1>11. Sound(c3, f, k) /\ Len(c3.bs) = k + 1 + 1 + 1
  BY <1>10, CreatedSound
<1> HIDE DEF c3, k
<1>12. k + 1 \in 1 .. Len(c3.bs) /\ d \in 1 .. Len(c3.bs) /\ k + 1 # d
  BY <1>3, <1>7, <1>11
<1>13. RightBlocks(blocks')
  BY <1>1, <1>4, <1>11, <1>12, ForkRight
<1>14. ScopeTyped(scope') /\ ValueOk(tmp_val')
  BY <1>1, Holding
<1>q. QED
  BY <1>1, <1>2, <1>8, <1>13, <1>14, InsideStep

LEMMA IterationTypes ==
  ASSUME IInv, IInv', TypeInv, IterationBranch
  PROVE  TypeInv'
<1> DEFINE k  == Len(blocks)
           c1 == Created(Here)
           c2 == Created(c1)
           f  == cur_fun.ref[2]
           a  == Visit(Task.node.body)
           b  == [do |-> "end-of-while", exprBB |-> Task.exprBB, contBB |-> k + 2]
<1>1. /\ Doing("while") /\ Then(<<a, b>>) /\ UNCHANGED <<prog, require_lvalue, scope, cur_fun, tmp_val>>
      /\ blocks' = Branched(c2, tmp_val, k + 1, k + 2).bs
  BY DEF IterationBranch, BuiltOnly, Branched
<1>2. "while" \notin ExpressionTasks \cup DeclKinds \cup {"end-of-function"} /\ "while" \in Takers
  BY Steps DEF Takers
<1>3. /\ IsTask(Task) /\ Task.do = "while" /\ Sound(Here, f, k) /\ tmp_val.ty \in Wanted(Task) /\ k \in Nat /\ Here.bs = blocks
  BY <1>1, <1>2, Within DEF Here
<1>4. tmp_val.ty \in Numbers
  BY <1>3 DEF Wanted
<1>5. Calm(prog, a)
  <2>1. Task.node \in Nodes /\ Task.node.k = "iteration-stmt"
    BY <1>3 DEF IsTask
  <2>2. Task.node.body \in Statement
    BY <2>1, NodesAssumption DEF IsNode
  <2>q. QED
    BY <2>2, CalmKinds
<1>6. b.do = "end-of-while"
  OBVIOUS
<1> HIDE DEF a, b
<1>15. Calm(prog, b)
  BY <1>6, CalmKinds
<1>8. IsSeq(<<a, b>>) /\ AllCalm(prog, <<a, b>>)
  BY <1>5, <1>15, CalmTuples
<1>9. Sound(c1, f, k) /\ Len(c1.bs) = k + 1
  BY <1>3, CreatedSound
<1> HIDE DEF c1
<1>10. Sound(c2, f, k) /\ Len(c2.bs) = k + 1 + 1
  BY <1>9, CreatedSound
<1> HIDE DEF c2, k
<1>12. k + 1 \in 1 .. Len(c2.bs) /\ k + 2 \in 1 .. Len(c2.bs) /\ k + 1 # k + 2
  BY <1>3, <1>10
<1>13. RightBlocks(blocks')
  BY <1>1, <1>4, <1>10, <1>12, ForkRight
<1>14. ScopeTyped(scope') /\ ValueOk(tmp_val')
  BY <1>1, Holding
<1>q. QED
  BY <1>1, <1>2, <1>8, <1>13, <1>14, InsideStep

LEMMA EndBranchTypes ==
  ASSUME IInv, IInv', TypeInv, EndElse \/ EndWhile
  PROVE  TypeInv'
<1> DEFINE f == cur_fun.ref[2]
           k == Len(blocks)
           d == Task.contBB
           b == IF Task.do = "end-of-else" THEN d ELSE Task.exprBB
<1>1. PICK t \in {"end-of-else", "end-of-while"} :
        /\ Doing(t) /\ Then(<<>>) /\ UNCHANGED <<prog, require_lvalue, scope, cur_fun, tmp_val>>
        /\ blocks' = At(BrUnlessTerminated(Here, b), d).bs
  BY DEF EndElse, EndWhile, BuiltOnly, Doing
<1>2. t \notin ExpressionTasks \cup DeclKinds \cup {"end-of-function"}
  BY Steps
<1>3. Task.do = t /\ Sound(Here, f, k) /\ Fills(Task) \cup Heads(Task) \subseteq 1 .. k /\ Here.bs = blocks
  BY <1>1, <1>2, Within DEF Here
<1>4. b \in 1 .. k
  BY <1>1, <1>3 DEF Fills, Heads
<1> DEFINE x == BrUnlessTerminated(Here, b)
<1>5. Sound(x, f, k)
  BY <1>3, <1>4, BrUnlessSound
<1>6. blocks' = At(x, d).bs
  BY <1>1
<1> HIDE DEF x
<1>7. RightBlocks(blocks')
  BY <1>5, <1>6, AtBlocks
<1>8. ScopeTyped(scope') /\ ValueOk(tmp_val') /\ IsSeq(<<>>) /\ AllCalm(prog, <<>>)
  BY <1>1, Holding, CalmTuples
<1>q. QED
  BY <1>1, <1>2, <1>7, <1>8, InsideStep

LEMMA EndIfTypes ==
  ASSUME IInv, IInv', TypeInv, EndIf
  PROVE  TypeInv'
<1> DEFINE b == Task.contBB
           d == Task.falseBB
           x == BrUnlessTerminated(Here, b)
           f == cur_fun.ref[2]
           k == Len(blocks)
           a == Visit(Task.node.else)
           e == [do |-> "end-of-else", contBB |-> b]
<1>1. Doing("end-of-if") /\ UNCHANGED <<prog, require_lvalue, scope, cur_fun, tmp_val>>
  BY DEF EndIf, BuiltOnly
<1>2. "end-of-if" \notin ExpressionTasks \cup DeclKinds \cup {"end-of-function"}
  BY Steps
<1>3. Task.do = "end-of-if" /\ IsTask(Task) /\ Sound(Here, f, k) /\ Fills(Task) \subseteq 1 .. k /\ Here.bs = blocks
  BY <1>1, <1>2, Within DEF Here
<1>4. b \in 1 .. k
  BY <1>3 DEF Fills
<1>5. Sound(x, f, k)
  BY <1>3, <1>4, BrUnlessSound
<1>6. ScopeTyped(scope') /\ ValueOk(tmp_val')
  BY <1>1, Holding
<1>7. CASE Task.node.else = None
  <2> DEFINE y == Removed(x, d)
  <2>1. Then(<<>>) /\ blocks' = At(y, b).bs
    BY <1>7 DEF EndIf, BuiltOnly
  <2>2. RightBlocks(y.bs) /\ IsContext(y)
    <3>1. RightBlocks(y.bs)
      BY <1>5, RemovedRight
    <3>2. IsContext(x)
      BY <1>5 DEF Sound
    <3> HIDE DEF x
    <3>3. IsContext(y)
      BY <3>2 DEF Removed, IsContext
    <3>q. QED
      BY <3>1, <3>3 DEF x
  <2> HIDE DEF y
  <2>3. RightBlocks(blocks')
    BY <2>1, <2>2, AtIs
  <2>q. QED
    BY <1>1, <1>2, <1>6, <2>1, <2>3, CalmTuples, InsideStep
<1>8. CASE Task.node.else # None
  <2>1. Then(<<a, e>>) /\ blocks' = At(x, d).bs
    BY <1>8 DEF EndIf, BuiltOnly
  <2>2. Calm(prog, a)
    <3>1. Task.node \in Nodes /\ Task.node.k = "selection-stmt"
      BY <1>3 DEF IsTask
    <3>2. Task.node.else \in Statement
      BY <1>8, <3>1, NodesAssumption DEF IsNode
    <3>q. QED
      BY <3>2, CalmKinds
  <2>3. e.do = "end-of-else"
    OBVIOUS
  <2> HIDE DEF a, e, x
  <2>6. Calm(prog, e)
    BY <2>3, CalmKinds
  <2>4. IsSeq(<<a, e>>) /\ AllCalm(prog, <<a, e>>)
    BY <2>2, <2>6, CalmTuples
  <2>5. RightBlocks(blocks')
    BY <1>5, <2>1, AtBlocks
  <2>q. QED
    BY <1>1, <1>2, <1>6, <2>1, <2>4, <2>5, InsideStep
<1>q. QED
  BY <1>7, <1>8


LEMMA LegalNode ==
  ASSUME Legal, Tasks(todo), NEW t \in ExpressionKinds \cup StatementKinds, Doing(t)
  PROVE  LegalVisit(scope, cur_fun.ret, Task.node) /\ Task.node.k = t
<1>1. IsTask(Task) /\ Task.do = t /\ todo # <<>>
  BY FirstTask
<1>q. QED
  BY <1>1 DEF Legal, IsTask

LEMMA ReturnTypes ==
  ASSUME IInv, IInv', TypeInv, Legal, Unique, ReturnStmt, Task.node.e = None
  PROVE  TypeInv'
<1> DEFINE f == cur_fun.ref[2]
           k == Len(blocks)
           x == Gen(Here, "ret", Void, <<>>)
<1>1. /\ Doing("return-stmt") /\ Then(<<>>) /\ UNCHANGED <<prog, require_lvalue, scope, cur_fun, tmp_val>>
      /\ blocks' = x.bs
  BY DEF ReturnStmt, BuiltOnly
<1>2. "return-stmt" \notin ExpressionTasks \cup DeclKinds \cup {"end-of-function"} /\ "return-stmt" \in StatementKinds
  BY Steps DEF StatementKinds
<1>3. Sound(Here, f, k) /\ Declared(prog, cur_fun)
  BY <1>1, <1>2, Within
<1>4. cur_fun.ret = Void
  BY <1>1, <1>2, LegalNode DEF LegalVisit, IInv
<1>5. Right("ret", Void, <<>>, f)
  BY <1>3, <1>4, SignatureIs, RightRet
<1>6. RightBlocks(x.bs)
  BY <1>3, <1>5, GenSound, SoundParts
<1> HIDE DEF x
<1>7. ScopeTyped(scope') /\ ValueOk(tmp_val') /\ IsSeq(<<>>) /\ AllCalm(prog, <<>>) /\ RightBlocks(blocks')
  BY <1>1, <1>6, Holding, CalmTuples
<1>q. QED
  BY <1>1, <1>2, <1>7, InsideStep

LEMMA ReturnValueTypes ==
  ASSUME IInv, IInv', TypeInv, Unique, ReturnValue
  PROVE  TypeInv'
<1> DEFINE ret == cur_fun.ret
           f == cur_fun.ref[2]
           k == Len(blocks)
           same == tmp_val.ty = ret
           c == IF same THEN Here ELSE Convert(Here, tmp_val, ret)
           x == Gen(c, "ret", Void, <<c.v>>)
           y == [x EXCEPT !.v = c.v]
<1>1. /\ Doing("return-value") /\ Then(<<>>) /\ UNCHANGED <<prog, require_lvalue, scope, cur_fun>>
      /\ blocks' = y.bs /\ tmp_val' = y.v
  BY DEF ReturnValue, Built
<1>2. "return-value" \notin ExpressionTasks \cup DeclKinds \cup {"end-of-function"} /\ "return-value" \in Takers
  BY Steps DEF Takers
<1>3. /\ Sound(Here, f, k) /\ Declared(prog, cur_fun) /\ tmp_val.ty \in Wanted(Task) /\ Task.do = "return-value"
      /\ Here.v = tmp_val /\ TaskTyped(scope, cur_fun.ret, prog, Task)
  BY <1>1, <1>2, Within
<1>4. tmp_val.ty \in Numbers /\ ret \in Numbers
  BY <1>3 DEF Wanted, TaskTyped
<1>5. Sound(c, f, k) /\ c.v.ty = ret
  <2>1. CASE same
    BY <1>3, <2>1
  <2>2. CASE ~same
    BY <1>3, <1>4, <2>2, ConvertSound
  <2>q. QED
    BY <2>1, <2>2
<1>6. RetType(Signature(prog, f)) = ret
  BY <1>3, SignatureIs
<1> HIDE DEF ret, c, f, k
<1>7. Right("ret", Void, <<c.v>>, f)
  BY <1>4, <1>5, <1>6, RightRet
<1>8. Sound(x, f, k)
  BY <1>5, <1>7, GenSound
<1> HIDE DEF x
<1>9. Sound(y, f, k) /\ y.v = c.v
  BY <1>8, ValueSound
<1> HIDE DEF y
<1>10. RightBlocks(blocks') /\ ValueOk(tmp_val')
  BY <1>1, <1>4, <1>5, <1>9, SoundParts DEF ValueOk
<1>11. ScopeTyped(scope') /\ IsSeq(<<>>) /\ AllCalm(prog, <<>>)
  BY <1>1, Holding, CalmTuples
<1>q. QED
  BY <1>1, <1>2, <1>10, <1>11, InsideStep

-----------------------------------------------------------------------------
(* Visits of expressions.                                                    *)

LEMMA VisitGiven ==
  ASSUME NEW e \in Expression, NEW sc, NEW ret, NEW pr
  PROVE  /\ Given(sc, FALSE, Visit(e)) = TypesOf(sc, e) /\ TaskTyped(sc, ret, pr, Visit(e))
         /\ Visit(e).do \in ExpressionTasks /\ Visit(e).do \notin Takers
         /\ e.k = "var" => Given(sc, TRUE, Visit(e)) = Addresses
<1> DEFINE v == Visit(e)
<1>1. v.do = e.k /\ v.node = e /\ e.k \in ExpressionKinds
  BY DEF Visit, Expression
<1> HIDE DEF v
<1>2. v.do \notin {"element", "args", "arg", "assign-to", "right-operand", "operate", "store", "return-value",
                   "fun-declaration", "parameters"}
  BY <1>1 DEF ExpressionKinds
<1>3. TaskTyped(sc, ret, pr, v)
  BY <1>2 DEF TaskTyped
<1>4. Given(sc, FALSE, v) = TypesOf(sc, e)
  BY <1>1, <1>2 DEF Given
<1>5. v.do \in ExpressionTasks /\ v.do \notin Takers
  BY <1>1 DEF ExpressionTasks, ExpressionKinds, Takers
<1>6. e.k = "var" => Given(sc, TRUE, v) = Addresses
  BY <1>1 DEF Given
<1>q. QED
  BY <1>3, <1>4, <1>5, <1>6 DEF v

\* What is left to show of a step in a function.
LEMMA TypeStep ==
  ASSUME TypeInv, InFunction(todo), prog' = prog, scope' = scope, cur_fun' = cur_fun,
         TasksTyped(todo', scope, cur_fun.ret, prog, require_lvalue'), ValueTyped(todo', tmp_val'),
         (require_lvalue => IsNumber(scope, Task.node))', RightBlocks(blocks'), insert' \in 0 .. Len(blocks')
  PROVE  TypeInv'
<1>1. ScopeTyped(scope)' /\ (InFunction(todo) => Declared(prog, cur_fun))'
  BY DEF TypeInv
<1>2. TasksTyped(todo, scope, cur_fun.ret, prog, require_lvalue)'
  OBVIOUS
<1>3. RightBlocks(blocks)'
  BY SameProgram
<1>4. ValueTyped(todo, tmp_val)' /\ (insert \in 0 .. Len(blocks))'
  OBVIOUS
<1>q. QED
  BY <1>1, <1>2, <1>3, <1>4, Zenon DEF TypeInv

\* An expression, and what waits for its value.
LEMMA PushPair ==
  ASSUME NEW p, IsSeq(p), NEW sc, NEW ret, NEW pr, NEW lv \in BOOLEAN,
         NEW a, a.do \in ExpressionTasks, TaskTyped(sc, ret, pr, a),
         NEW b, b.do \in Takers, TaskTyped(sc, ret, pr, b), Given(sc, lv, a) \subseteq Wanted(b),
         \/ b.do \notin ExpressionTasks /\ AllCalm(pr, p)
         \/ /\ b.do \in ExpressionTasks /\ p # <<>> /\ TasksTyped(p, sc, ret, pr, FALSE)
            /\ p[1].do \in Takers => Given(sc, FALSE, b) \subseteq Wanted(p[1])
  PROVE  TasksTyped(<<a, b>> \o p, sc, ret, pr, lv)
<1> DEFINE q == <<b>> \o p
<1>1. IsSeq(q) /\ q[1] = b /\ q # <<>>
  BY ConsSeq, TailOfCons
<1>2. TasksTyped(q, sc, ret, pr, FALSE)
  <2>1. CASE b.do \notin ExpressionTasks
    <3>1. AllCalm(pr, p)
      BY <2>1
    <3>q. QED
      BY <2>1, <3>1, PushTaker
  <2>2. CASE b.do \in ExpressionTasks
    <3>1. FALSE \in BOOLEAN /\ p # <<>> /\ TasksTyped(p, sc, ret, pr, FALSE)
          /\ (p[1].do \in Takers => Given(sc, FALSE, b) \subseteq Wanted(p[1]))
      BY <2>2
    <3>q. QED
      BY <2>2, <3>1, PushFirst
  <2>q. QED
    BY <2>1, <2>2
<1>3. <<a, b>> \o p = <<a>> \o q
  BY ConsTwo
<1> HIDE DEF q
<1>4. TasksTyped(<<a>> \o q, sc, ret, pr, lv)
  BY <1>1, <1>2, PushFirst
<1>q. QED
  BY <1>3, <1>4

\* A statement begins an expression, and something waits for its value.
LEMMA AskStep ==
  ASSUME IInv, IInv', TypeInv, NEW t, Doing(t), t \notin ExpressionTasks \cup DeclKinds \cup {"end-of-function"},
         NEW e \in Expression, NEW b, b.do \in {"if", "while", "return-value"}, TaskTyped(scope, cur_fun.ret, prog, b),
         IsNumber(scope, e), Then(<<Visit(e), b>>),
         UNCHANGED <<prog, require_lvalue, scope, cur_fun, tmp_val>>, RightBlocks(blocks')
  PROVE  TypeInv'
<1> DEFINE a == Visit(e)
           r == Tail(todo)
           ret == cur_fun.ret
<1>1. todo # <<>> /\ IsSeq(todo) /\ todo[1].do = t /\ todo' = <<a, b>> \o r
  BY FirstTask DEF Then, IInv
<1>2. IsSeq(r) /\ AllCalm(prog, r)
  BY <1>1, FirstOrLater, CalmBehind DEF TypeInv
<1>3. IsSeq(<<a, b>>)
  BY DEF IsSeq
<1> HIDE DEF a
<1>4. InFunction(todo) /\ insert' \in 0 .. Len(blocks') /\ require_lvalue' = FALSE
  <2>1. t # "var"
    BY DEF ExpressionTasks, ExpressionKinds
  <2>q. QED
    BY <1>3, <2>1, StillInside DEF a
<1>5. b.do \notin ExpressionTasks /\ b.do \in Takers
  BY DEF ExpressionTasks, ExpressionKinds, Takers
<1>8. /\ Given(scope, FALSE, a) \subseteq Wanted(b) /\ a.do \in ExpressionTasks /\ a.do \notin Takers
      /\ TaskTyped(scope, ret, prog, a) /\ TaskTyped(scope, ret, prog, b) /\ FALSE \in BOOLEAN
  <2>1. Wanted(b) = Numbers
    BY DEF Wanted
  <2>q. QED
    BY <2>1, VisitGiven DEF IsNumber, a
<1> HIDE DEF r, ret
<1>6. TasksTyped(<<a, b>> \o r, scope, ret, prog, FALSE)
  BY <1>2, <1>5, <1>8, PushPair
<1>7. todo'[1] = a
  <2>1. (<<b>> \o r)[1] = b /\ IsSeq(<<b>> \o r)
    BY <1>2, ConsSeq
  <2>q. QED
    BY <1>1, <1>2, <2>1, ConsTwo, ConsSeq
<1>9. TasksTyped(todo', scope, ret, prog, FALSE) /\ todo'[1] = a
  BY <1>1, <1>6, <1>7
<1>10. ValueTyped(todo', tmp_val')
  BY <1>8, <1>9, Holding DEF ValueTyped, ValueOk
<1>11. (require_lvalue => IsNumber(scope, Task.node))'
  BY <1>4, Zenon
<1>12. TasksTyped(todo', scope, cur_fun.ret, prog, require_lvalue')
  BY <1>4, <1>9 DEF ret
<1>q. QED
  BY <1>4, <1>10, <1>11, <1>12, TypeStep


LEMMA WaiterTyped ==
  ASSUME NEW sc, NEW ret, NEW pr, NEW b, b.do \in {"if", "while"} \/ (b.do = "return-value" /\ ret \in Numbers)
  PROVE  TaskTyped(sc, ret, pr, b)
BY DEF TaskTyped

LEMMA QuestionTypes ==
  ASSUME IInv, IInv', TypeInv, Legal, SelectionStmt \/ IterationStmt \/ (ReturnStmt /\ Task.node.e # None)
  PROVE  TypeInv'
<1>0. /\ {"selection-stmt", "iteration-stmt", "return-stmt"} \cap (ExpressionTasks \cup DeclKinds \cup {"end-of-function"}) = {}
      /\ {"selection-stmt", "iteration-stmt", "return-stmt"} \subseteq ExpressionKinds \cup StatementKinds
  BY Steps DEF StatementKinds
<1>1. PICK t \in {"selection-stmt", "iteration-stmt", "return-stmt"} :
           Doing(t) /\ IsTask(Task) /\ Task.do = t /\ LegalVisit(scope, cur_fun.ret, Task.node) /\ Task.node.k = t
  BY <1>0, FirstTask, LegalNode DEF SelectionStmt, IterationStmt, ReturnStmt, IInv
<1>2. t \notin ExpressionTasks \cup DeclKinds \cup {"end-of-function"}
  BY <1>0
<1>3. RightBlocks(blocks) /\ Sound(Here, cur_fun.ref[2], Len(blocks)) /\ Here.v = tmp_val /\ cur_fun.ret \in {I32, Float, Void}
  BY <1>1, <1>2, Within, Holding
<1>4. CASE SelectionStmt
  <2> DEFINE e == Task.node.e
             b == [do |-> "if", node |-> Task.node]
  <2>1. Task.do = "selection-stmt" /\ Then(<<Visit(e), b>>) /\ blocks' = blocks
        /\ UNCHANGED <<prog, require_lvalue, scope, cur_fun, tmp_val>>
    BY <1>4 DEF SelectionStmt, Doing
  <2>2. e \in Expression /\ IsNumber(scope, e)
    BY <1>1, <2>1, Children DEF LegalVisit
  <2>3. b.do = "if"
    OBVIOUS
  <2> HIDE DEF b, e
  <2>4. TaskTyped(scope, cur_fun.ret, prog, b)
    BY <2>3, WaiterTyped
  <2>q. QED
    BY <1>1, <1>2, <1>3, <2>1, <2>2, <2>3, <2>4, AskStep
<1>5. CASE IterationStmt
  <2> DEFINE e == Task.node.e
             k == Len(blocks)
             b == [do |-> "while", node |-> Task.node, exprBB |-> k + 1]
             c == Created(Here)
             d == BrUnlessTerminated(c, k + 1)
  <2>1. /\ Task.do = "iteration-stmt" /\ Then(<<Visit(e), b>>) /\ blocks' = At(d, k + 1).bs
        /\ UNCHANGED <<prog, require_lvalue, scope, cur_fun, tmp_val>>
    BY <1>5 DEF IterationStmt, Doing, BuiltOnly
  <2>2. e \in Expression /\ IsNumber(scope, e)
    BY <1>1, <2>1, Children DEF LegalVisit
  <2>3. b.do = "while"
    OBVIOUS
  <2> HIDE DEF b, e
  <2>4. TaskTyped(scope, cur_fun.ret, prog, b)
    BY <2>3, WaiterTyped
  <2>5. k \in Nat /\ Here.bs = blocks
    BY <1>1, <1>2, Within DEF Here
  <2>6. Sound(c, cur_fun.ref[2], k) /\ Len(c.bs) = k + 1
    BY <1>3, <2>5, CreatedSound
  <2>7. k + 1 \in 1 .. Len(c.bs)
    BY <2>5, <2>6
  <2> HIDE DEF c, k
  <2>8. Sound(d, cur_fun.ref[2], k)
    BY <2>6, <2>7, BrUnlessSound
  <2> HIDE DEF d
  <2>9. RightBlocks(blocks')
    BY <2>1, <2>8, AtBlocks
  <2>q. QED
    BY <1>1, <1>2, <2>1, <2>2, <2>3, <2>4, <2>9, AskStep
<1>6. CASE ReturnStmt /\ Task.node.e # None
  <2> DEFINE e == Task.node.e
             b == [do |-> "return-value"]
  <2>1. Task.do = "return-stmt" /\ Then(<<Visit(e), b>>) /\ blocks' = blocks
        /\ UNCHANGED <<prog, require_lvalue, scope, cur_fun, tmp_val>>
    BY <1>6 DEF ReturnStmt, Doing
  <2>2. e \in Expression /\ IsNumber(scope, e) /\ cur_fun.ret # Void
    BY <1>1, <1>6, <2>1, Children DEF LegalVisit
  <2>3. b.do = "return-value" /\ cur_fun.ret \in Numbers
    BY <1>3, <2>2 DEF Numbers
  <2> HIDE DEF b, e
  <2>4. TaskTyped(scope, cur_fun.ret, prog, b)
    BY <2>3, WaiterTyped
  <2>q. QED
    BY <1>1, <1>2, <1>3, <2>1, <2>2, <2>3, <2>4, AskStep
<1>q. QED
  BY <1>4, <1>5, <1>6

LEMMA ExpressionStmtTypes ==
  ASSUME IInv, IInv', TypeInv, ExpressionStmt, Task.node.e # None
  PROVE  TypeInv'
<1> DEFINE a == Visit(Task.node.e)
           r == Tail(todo)
           ret == cur_fun.ret
<1>1. Doing("expression-stmt") /\ Then(<<a>>) /\ UNCHANGED <<prog, require_lvalue, scope, cur_fun, tmp_val, blocks>>
  BY DEF ExpressionStmt
<1>2. "expression-stmt" \notin ExpressionTasks \cup DeclKinds \cup {"end-of-function"}
  BY Steps
<1>3. /\ todo # <<>> /\ IsSeq(todo) /\ todo[1] = Task /\ Task.do = "expression-stmt" /\ IsTask(Task) /\ IsSeq(r) /\ r # <<>>
      /\ InFunction(todo)
  BY <1>1, <1>2, Within
<1>4. AllCalm(prog, r)
  BY <1>2, <1>3, CalmBehind DEF TypeInv
<1>5. TasksTyped(r, scope, ret, prog, FALSE) /\ r[1].do \notin Takers
  BY <1>3, <1>4, CalmTyped
<1>6. a.do \in ExpressionTasks /\ a.do \notin Takers /\ TaskTyped(scope, ret, prog, a) /\ FALSE \in BOOLEAN
  BY <1>3, Children, VisitGiven
<1>7. IsSeq(<<a>>) /\ todo' = <<a>> \o r
  BY <1>1, UnitSeq DEF Then
<1> HIDE DEF a
<1>8. insert' \in 0 .. Len(blocks') /\ require_lvalue' = FALSE
  <2>1. require_lvalue = FALSE
    BY <1>1, NoRequest DEF IInv
  <2>2. IsSeq(<<a>>) /\ Then(<<a>>)
    BY <1>1, <1>7
  <2>q. QED
    BY <1>1, <1>2, <2>1, <2>2, StillInside
<1> HIDE DEF r, ret
<1>9. TasksTyped(<<a>> \o r, scope, ret, prog, FALSE)
  BY <1>3, <1>5, <1>6, PushFirst
<1>10. TasksTyped(todo', scope, cur_fun.ret, prog, require_lvalue') /\ todo'[1] = a
  BY <1>3, <1>7, <1>8, <1>9, ConsSeq DEF ret
<1>11. ValueTyped(todo', tmp_val') /\ RightBlocks(blocks')
  BY <1>1, <1>6, <1>10, Holding DEF ValueTyped, ValueOk
<1>12. (require_lvalue => IsNumber(scope, Task.node))'
  BY <1>8, Zenon
<1>q. QED
  BY <1>1, <1>3, <1>8, <1>10, <1>11, <1>12, TypeStep


-----------------------------------------------------------------------------
(* Steps of expressions.                                                     *)

\* What lies below an expression waits for one of its values.
LEMMA Below ==
  ASSUME IInv, TypeInv, NEW t \in ExpressionTasks, Doing(t)
  PROVE  LET r == Tail(todo)
         IN /\ IsSeq(r) /\ r # <<>> /\ TasksTyped(r, scope, cur_fun.ret, prog, FALSE)
            /\ r[1].do \in Takers => Given(scope, require_lvalue, Task) \subseteq Wanted(r[1])
            /\ t \notin DeclKinds \cup {"end-of-function"}
            /\ InFunction(todo) /\ todo # <<>> /\ IsSeq(todo) /\ Task.do = t /\ IsTask(Task)
            /\ TaskTyped(scope, cur_fun.ret, prog, Task) /\ (t \in Takers => tmp_val.ty \in Wanted(Task))
<1>1. t \notin DeclKinds \cup {"end-of-function"}
  BY DEF ExpressionTasks, ExpressionKinds, DeclKinds
<1> DEFINE r == Tail(todo)
           ret == cur_fun.ret
<1>2. /\ InFunction(todo) /\ todo # <<>> /\ IsSeq(todo) /\ todo[1] = Task /\ Task.do = t /\ IsTask(Task)
      /\ IsSeq(r) /\ r # <<>>
      /\ TaskTyped(scope, ret, prog, Task) /\ (t \in Takers => tmp_val.ty \in Wanted(Task))
  BY <1>1, Within
<1>3. require_lvalue \in BOOLEAN /\ TasksTyped(todo, scope, ret, prog, require_lvalue)
  BY DEF IInv, ScopeInv, TypeInv
<1>4. /\ TasksTyped(r, scope, ret, prog, FALSE)
      /\ r[1].do \in Takers => Given(scope, require_lvalue, todo[1]) \subseteq Wanted(r[1])
  BY <1>2, <1>3, PopExpression
<1>q. QED
  BY <1>1, <1>2, <1>4

LEMMA Finish ==
  ASSUME IInv, IInv', TypeInv, NEW t \in ExpressionTasks, Doing(t), Then(<<>>), UNCHANGED <<prog, scope, cur_fun>>,
         require_lvalue' = FALSE, RightBlocks(blocks'), ValueOk(tmp_val'), tmp_val'.ty \in Given(scope, require_lvalue, Task)
  PROVE  TypeInv'
<1> DEFINE r == Tail(todo)
           none == <<>>
<1>1. /\ IsSeq(r) /\ r # <<>> /\ TasksTyped(r, scope, cur_fun.ret, prog, FALSE)
      /\ r[1].do \in Takers => Given(scope, require_lvalue, Task) \subseteq Wanted(r[1])
      /\ t \notin DeclKinds \cup {"end-of-function"} /\ InFunction(todo)
  BY Below
<1>2. todo' = r
  BY FirstTask DEF IInv
<1> HIDE DEF r
<1>3. IsSeq(none) /\ Then(none)
  BY EmptyIs
<1> HIDE DEF none
<1>4. insert' \in 0 .. Len(blocks')
  BY <1>1, <1>3, StillInside
<1>5. TasksTyped(todo', scope, cur_fun.ret, prog, require_lvalue')
  BY <1>1, <1>2
<1>6. ValueTyped(todo', tmp_val')
  BY <1>1, <1>2 DEF ValueTyped, ValueOk
<1>7. (require_lvalue => IsNumber(scope, Task.node))'
  BY Zenon
<1>8. prog' = prog /\ scope' = scope /\ cur_fun' = cur_fun
  OBVIOUS
<1>q. QED
  BY <1>1, <1>4, <1>5, <1>6, <1>7, <1>8, TypeStep

LEMMA GoOnOne ==
  ASSUME IInv, IInv', TypeInv, NEW t \in ExpressionTasks, Doing(t), NEW a, Then(<<a>>), UNCHANGED <<prog, scope, cur_fun>>,
         a.do \in ExpressionTasks, a.do \notin Takers, TaskTyped(scope, cur_fun.ret, prog, a),
         Given(scope, FALSE, a) \subseteq Given(scope, require_lvalue, Task),
         require_lvalue' = FALSE, RightBlocks(blocks'), ValueOk(tmp_val')
  PROVE  TypeInv'
<1> DEFINE r == Tail(todo)
           s == <<a>>
           ret == cur_fun.ret
<1>1. /\ IsSeq(r) /\ r # <<>> /\ TasksTyped(r, scope, ret, prog, FALSE)
      /\ r[1].do \in Takers => Given(scope, require_lvalue, Task) \subseteq Wanted(r[1])
      /\ t \notin DeclKinds \cup {"end-of-function"} /\ InFunction(todo)
  BY Below
<1>2. IsSeq(s) /\ Then(s) /\ todo' = <<a>> \o r
  BY UnitSeq DEF Then
<1> HIDE DEF r, s, ret
<1>4. insert' \in 0 .. Len(blocks')
  BY <1>1, <1>2, StillInside
<1>3. FALSE \in BOOLEAN /\ TaskTyped(scope, ret, prog, a) /\ (r[1].do \in Takers => Given(scope, FALSE, a) \subseteq Wanted(r[1]))
  BY <1>1 DEF ret
<1>8. TasksTyped(<<a>> \o r, scope, ret, prog, FALSE)
  BY <1>1, <1>3, PushFirst
<1>5. TasksTyped(todo', scope, cur_fun.ret, prog, require_lvalue') /\ todo'[1] = a
  BY <1>1, <1>2, <1>8, ConsSeq DEF ret
<1>6. ValueTyped(todo', tmp_val')
  BY <1>5 DEF ValueTyped, ValueOk
<1>7. (require_lvalue => IsNumber(scope, Task.node))'
  BY Zenon
<1>9. prog' = prog /\ scope' = scope /\ cur_fun' = cur_fun
  OBVIOUS
<1>q. QED
  BY <1>1, <1>4, <1>5, <1>6, <1>7, <1>9, TypeStep

LEMMA GoOnTwo ==
  ASSUME IInv, IInv', TypeInv, NEW t \in ExpressionTasks, Doing(t), NEW a, NEW b, Then(<<a, b>>),
         UNCHANGED <<prog, scope, cur_fun, blocks, tmp_val>>,
         a.do \in ExpressionTasks, a.do \notin Takers, TaskTyped(scope, cur_fun.ret, prog, a),
         b.do \in ExpressionTasks, b.do \in Takers, TaskTyped(scope, cur_fun.ret, prog, b),
         Given(scope, FALSE, b) \subseteq Given(scope, require_lvalue, Task),
         NEW lv \in BOOLEAN, require_lvalue' = lv, Given(scope, lv, a) \subseteq Wanted(b), lv => IsNumber(scope, a.node)
  PROVE  TypeInv'
<1> DEFINE r == Tail(todo)
           s == <<a, b>>
           ret == cur_fun.ret
<1>1. /\ IsSeq(r) /\ r # <<>> /\ TasksTyped(r, scope, ret, prog, FALSE)
      /\ r[1].do \in Takers => Given(scope, require_lvalue, Task) \subseteq Wanted(r[1])
      /\ t \notin DeclKinds \cup {"end-of-function"} /\ InFunction(todo)
  BY Below
<1>2. IsSeq(s) /\ Then(s) /\ todo' = <<a, b>> \o r
  BY DEF Then, IsSeq
<1> HIDE DEF r, s, ret
<1>4. insert' \in 0 .. Len(blocks')
  BY <1>1, <1>2, StillInside
<1>3. /\ TaskTyped(scope, ret, prog, a) /\ TaskTyped(scope, ret, prog, b)
      /\ r[1].do \in Takers => Given(scope, FALSE, b) \subseteq Wanted(r[1])
  BY <1>1 DEF ret
<1>8. TasksTyped(<<a, b>> \o r, scope, ret, prog, lv)
  BY <1>1, <1>3, PushPair
<1>9. todo'[1] = a
  <2>1. (<<b>> \o r)[1] = b /\ IsSeq(<<b>> \o r)
    BY <1>1, ConsSeq
  <2>q. QED
    BY <1>1, <1>2, <2>1, ConsTwo, ConsSeq
<1>5. TasksTyped(todo', scope, cur_fun.ret, prog, require_lvalue')
  BY <1>2, <1>8 DEF ret
<1>6. ValueTyped(todo', tmp_val') /\ RightBlocks(blocks')
  BY <1>9, Holding DEF ValueTyped, ValueOk
<1>7. (require_lvalue => IsNumber(scope, Task.node))'
  <2>1. IsSeq(s) /\ IsSeq(r)
    BY <1>1, <1>2
  <2>2. IsSeq(todo')
    BY <1>2, <2>1, ConcatSeq DEF s
  <2>3. todo' # <<>>
    <3>1. IsSeq(<<b>> \o r)
      BY <1>1, ConsSeq
    <3>q. QED
      BY <1>1, <1>2, <3>1, ConsTwo, ConsSeq, TailOfCons
  <2>4. Task' = a
    BY <1>9, <2>2, <2>3, Thens DEF Task
  <2>5. require_lvalue' => IsNumber(scope', Task'.node)
    BY <2>4
  <2>q. QED
    BY <2>5
<1>10. prog' = prog /\ scope' = scope /\ cur_fun' = cur_fun
  OBVIOUS
<1>q. QED
  BY <1>1, <1>4, <1>5, <1>6, <1>7, <1>10, TypeStep


-----------------------------------------------------------------------------
(* The values of expressions.                                                *)

LEMMA GivenIs ==
  ASSUME NEW sc, NEW lv \in BOOLEAN, NEW t
  PROVE  /\ t.do \in {"num", "assign", "binary"} /\ t.node.k = t.do => Given(sc, lv, t) = Numbers
         /\ t.do \in {"assign-to", "right-operand", "operate", "store"} => Given(sc, lv, t) = Numbers
         /\ t.do \in {"args", "arg"} => Given(sc, lv, t) = OfCall(t.fun.ret)
         /\ t.do = "call" /\ t.node.k = "call" => Given(sc, lv, t) = OfCall(Find(sc, t.node.id).ret)
         /\ t.do = "element" => Given(sc, lv, t) = IF t.lvalue THEN Addresses ELSE Numbers
         /\ t.do = "var" /\ lv => Given(sc, lv, t) = Addresses
         /\ t.do = "var" /\ ~lv => Given(sc, lv, t) = TypesOf(sc, t.node)
<1>1. t.do \in {"num", "assign", "binary"} /\ t.node.k = t.do => Given(sc, lv, t) = Numbers
  BY DEF Given, TypesOf, ExpressionKinds
<1>2. t.do \in {"assign-to", "right-operand", "operate", "store"} => Given(sc, lv, t) = Numbers
  BY DEF Given, ExpressionKinds
<1>3. t.do \in {"args", "arg"} => Given(sc, lv, t) = OfCall(t.fun.ret)
  BY DEF Given, ExpressionKinds
<1>4. t.do = "call" /\ t.node.k = "call" => Given(sc, lv, t) = OfCall(Find(sc, t.node.id).ret)
  BY DEF Given, ExpressionKinds, OfCall, TypesOf
<1>5. t.do = "element" => Given(sc, lv, t) = IF t.lvalue THEN Addresses ELSE Numbers
  BY DEF Given, ExpressionKinds
<1>6. t.do = "var" /\ lv => Given(sc, lv, t) = Addresses
  BY DEF Given
<1>7. t.do = "var" /\ ~lv => Given(sc, lv, t) = TypesOf(sc, t.node)
  BY DEF Given, ExpressionKinds
<1>q. QED
  BY <1>1, <1>2, <1>3, <1>4, <1>5, <1>6, <1>7

\* Of the tasks of expressions, the visits that wait for nothing.
LEMMA Asking ==
  /\ ExpressionKinds \cup {"args"} \subseteq ExpressionTasks \ Takers
  /\ Takers \ {"if", "while", "return-value"} \subseteq ExpressionTasks
  /\ ExpressionTasks \cap (DeclKinds \cup {"end-of-function"}) = {}
BY DEF ExpressionTasks, ExpressionKinds, Takers, DeclKinds

LEMMA NumTypes ==
  ASSUME IInv, IInv', TypeInv, Num
  PROVE  TypeInv'
<1>1. /\ Doing("num") /\ Then(<<>>) /\ UNCHANGED <<prog, scope, cur_fun, require_lvalue, blocks>>
      /\ tmp_val' = Const(ElementType(Task.node))
  BY DEF Num
<1>2. "num" \in ExpressionTasks /\ "num" \in ExpressionKinds
  BY Asking DEF ExpressionKinds
<1>3. require_lvalue = FALSE /\ IsTask(Task) /\ Task.do = "num"
  BY <1>1, NoRequest, FirstTask DEF IInv
<1>4. Given(scope, require_lvalue, Task) = Numbers
  BY <1>2, <1>3, GivenIs DEF IsTask
<1>5. tmp_val'.ty \in Numbers
  BY <1>1 DEF Const, Value, ElementType, Numbers
<1>6. RightBlocks(blocks')
  BY <1>1, Holding
<1>q. QED
  BY <1>1, <1>2, <1>3, <1>4, <1>5, <1>6, Finish DEF ValueOk

LEMMA AssignTypes ==
  ASSUME IInv, IInv', TypeInv, Legal, AssignExpression
  PROVE  TypeInv'
<1> DEFINE a == Visit(Task.node.e)
           b == [do |-> "assign-to", node |-> Task.node]
<1>1. Doing("assign") /\ Then(<<a, b>>) /\ UNCHANGED <<prog, scope, cur_fun, require_lvalue, blocks, tmp_val>>
  BY DEF AssignExpression
<1>2. "assign" \in ExpressionTasks /\ "assign" \in ExpressionKinds /\ b.do \in ExpressionTasks /\ b.do \in Takers /\ FALSE \in BOOLEAN
  BY Asking DEF ExpressionKinds, ExpressionTasks, Takers
<1>3. require_lvalue = FALSE /\ IsTask(Task) /\ Task.do = "assign"
  BY <1>1, NoRequest, FirstTask DEF IInv
<1>4. Task.node.e \in Expression /\ Task.node.k = "assign"
  BY <1>3, Children
<1>5. IsNumber(scope, Task.node.e) /\ IsNumber(scope, Task.node.var)
  BY <1>1, <1>2, <1>4, LegalNode DEF LegalVisit, IInv
<1>6. a.do \in ExpressionTasks /\ a.do \notin Takers /\ TaskTyped(scope, cur_fun.ret, prog, a) /\ Given(scope, FALSE, a) \subseteq Numbers
  BY <1>4, <1>5, VisitGiven DEF IsNumber
<1>7. b.do = "assign-to" /\ b.node = Task.node
  OBVIOUS
<1> HIDE DEF a, b
<1>8. TaskTyped(scope, cur_fun.ret, prog, b) /\ Wanted(b) = Numbers
  BY <1>5, <1>7 DEF TaskTyped, Wanted
<1>9. Given(scope, FALSE, b) = Numbers /\ Given(scope, require_lvalue, Task) = Numbers
  BY <1>2, <1>3, <1>4, <1>7, GivenIs
<1>10. require_lvalue' = FALSE
  BY <1>1, <1>3
<1>q. QED
  BY <1>1, <1>2, <1>6, <1>8, <1>9, <1>10, GoOnTwo

LEMMA AssignToTypes ==
  ASSUME IInv, IInv', TypeInv, AssignTo
  PROVE  TypeInv'
<1> DEFINE a == Visit(Task.node.var)
           b == [do |-> "store", result |-> tmp_val]
<1>1. Doing("assign-to") /\ Then(<<a, b>>) /\ UNCHANGED <<prog, scope, cur_fun, blocks, tmp_val>> /\ require_lvalue' = TRUE
  BY DEF AssignTo
<1>2. /\ "assign-to" \in ExpressionTasks /\ "assign-to" \in Takers /\ b.do \in ExpressionTasks /\ b.do \in Takers
      /\ TRUE \in BOOLEAN
  BY Asking DEF ExpressionTasks, Takers
<1>3. /\ require_lvalue = FALSE /\ IsTask(Task) /\ Task.do = "assign-to"
      /\ TaskTyped(scope, cur_fun.ret, prog, Task) /\ tmp_val.ty \in Wanted(Task)
  BY <1>1, <1>2, NoRequest, Below DEF IInv
<1>4. Task.node.var \in Expression /\ Task.node.var.k = "var"
  BY <1>3, Children
<1>5. IsNumber(scope, Task.node.var) /\ tmp_val.ty \in Numbers
  BY <1>3 DEF TaskTyped, Wanted
<1>6. /\ a.do \in ExpressionTasks /\ a.do \notin Takers /\ TaskTyped(scope, cur_fun.ret, prog, a)
      /\ Given(scope, TRUE, a) = Addresses /\ IsNumber(scope, a.node)
  BY <1>4, <1>5, VisitGiven DEF Visit
<1>7. b.do = "store" /\ b.result = tmp_val
  OBVIOUS
<1> HIDE DEF a, b
<1>8. TaskTyped(scope, cur_fun.ret, prog, b) /\ Wanted(b) = Addresses
  BY <1>5, <1>7 DEF TaskTyped, Wanted
<1>9. Given(scope, FALSE, b) = Numbers /\ Given(scope, require_lvalue, Task) = Numbers
  BY <1>2, <1>3, <1>7, GivenIs
<1>q. QED
  BY <1>1, <1>2, <1>6, <1>8, <1>9, GoOnTwo

LEMMA AssignStoreTypes ==
  ASSUME IInv, IInv', TypeInv, AssignStore
  PROVE  TypeInv'
<1> DEFINE f == cur_fun.ref[2]
           k == Len(blocks)
           l == Task.result
           t == IF l.ty = I32 THEN Float ELSE I32
           same == Tail(tmp_val.ty) = l.ty
           h == [Here EXCEPT !.v = l]
           c == IF same THEN h ELSE Convert(Here, l, t)
           x == Gen(c, "store", Void, <<c.v, tmp_val>>)
           y == [x EXCEPT !.v = c.v]
<1>1. /\ Doing("store") /\ Then(<<>>) /\ UNCHANGED <<prog, require_lvalue, scope, cur_fun>>
      /\ blocks' = y.bs /\ tmp_val' = y.v
  BY DEF AssignStore, Built
<1>2. "store" \in ExpressionTasks /\ "store" \in Takers /\ "store" \notin DeclKinds \cup {"end-of-function"}
  BY Asking DEF ExpressionTasks, Takers
<1>3. /\ Sound(Here, f, k) /\ tmp_val.ty \in Wanted(Task) /\ Task.do = "store"
      /\ TaskTyped(scope, cur_fun.ret, prog, Task) /\ require_lvalue = FALSE
  BY <1>1, <1>2, Within, NoRequest DEF IInv
<1>4. tmp_val.ty \in Addresses /\ l.ty \in Numbers
  BY <1>3 DEF Wanted, TaskTyped
<1>5. PICK n \in Numbers : tmp_val.ty = Ptr(n)
  BY <1>4 DEF Addresses
<1>6. Tail(tmp_val.ty) = n
  BY <1>5, NumberTypes, PointerTypes
<1> HIDE DEF f, k
<1>7. Sound(c, f, k) /\ c.v.ty = n
  <2>1. CASE same
    <3>1. Sound(h, f, k) /\ h.v = l
      BY <1>3, ValueSound
    <3>q. QED
      BY <1>6, <2>1, <3>1
  <2>2. CASE ~same
    <3>1. t = n /\ l.ty # t
      BY <1>4, <1>5, <1>6, <2>2, ScalarsDiffer DEF Numbers
    <3> HIDE DEF t
    <3>2. Sound(Convert(Here, l, t), f, k) /\ Convert(Here, l, t).v.ty = n
      BY <1>3, <1>4, <3>1, ConvertSound
    <3>q. QED
      BY <2>2, <3>2
  <2>q. QED
    BY <2>1, <2>2
<1> HIDE DEF c
<1>8. Right("store", Void, <<c.v, tmp_val>>, f)
  BY <1>5, <1>7, RightStore
<1>9. Sound(x, f, k)
  BY <1>7, <1>8, GenSound
<1> HIDE DEF x
<1>10. Sound(y, f, k) /\ y.v = c.v
  BY <1>9, ValueSound
<1> HIDE DEF y
<1>11. RightBlocks(blocks') /\ tmp_val'.ty \in Numbers /\ ValueOk(tmp_val')
  BY <1>1, <1>5, <1>7, <1>10, SoundParts DEF ValueOk
<1>12. Given(scope, require_lvalue, Task) = Numbers
  BY <1>3, GivenIs
<1>q. QED
  BY <1>1, <1>2, <1>3, <1>11, <1>12, Finish

LEMMA BinaryTypes ==
  ASSUME IInv, IInv', TypeInv, Legal, Binary
  PROVE  TypeInv'
<1> DEFINE a == Visit(Task.node.l)
           b == [do |-> "right-operand", node |-> Task.node]
<1>1. Doing("binary") /\ Then(<<a, b>>) /\ UNCHANGED <<prog, scope, cur_fun, require_lvalue, blocks, tmp_val>>
  BY DEF Binary
<1>2. "binary" \in ExpressionTasks /\ "binary" \in ExpressionKinds /\ b.do \in ExpressionTasks /\ b.do \in Takers /\ FALSE \in BOOLEAN
  BY Asking DEF ExpressionKinds, ExpressionTasks, Takers
<1>3. require_lvalue = FALSE /\ IsTask(Task) /\ Task.do = "binary"
  BY <1>1, NoRequest, FirstTask DEF IInv
<1>4. Task.node.l \in Expression /\ Task.node.k = "binary"
  BY <1>3, Children
<1>5. IsNumber(scope, Task.node.l) /\ IsNumber(scope, Task.node.r)
  BY <1>1, <1>2, <1>4, LegalNode DEF LegalVisit, IInv
<1>6. a.do \in ExpressionTasks /\ a.do \notin Takers /\ TaskTyped(scope, cur_fun.ret, prog, a) /\ Given(scope, FALSE, a) \subseteq Numbers
  BY <1>4, <1>5, VisitGiven DEF IsNumber
<1>7. b.do = "right-operand" /\ b.node = Task.node
  OBVIOUS
<1> HIDE DEF a, b
<1>8. TaskTyped(scope, cur_fun.ret, prog, b) /\ Wanted(b) = Numbers
  BY <1>5, <1>7 DEF TaskTyped, Wanted
<1>9. Given(scope, FALSE, b) = Numbers /\ Given(scope, require_lvalue, Task) = Numbers
  BY <1>2, <1>3, <1>4, <1>7, GivenIs
<1>10. require_lvalue' = FALSE
  BY <1>1, <1>3
<1>q. QED
  BY <1>1, <1>2, <1>6, <1>8, <1>9, <1>10, GoOnTwo

LEMMA RightOperandTypes ==
  ASSUME IInv, IInv', TypeInv, RightOperand
  PROVE  TypeInv'
<1> DEFINE a == Visit(Task.node.r)
           b == [do |-> "operate", op |-> Task.node.op, l_val |-> tmp_val]
<1>1. Doing("right-operand") /\ Then(<<a, b>>) /\ UNCHANGED <<prog, scope, cur_fun, blocks, tmp_val, require_lvalue>>
  BY DEF RightOperand
<1>2. /\ "right-operand" \in ExpressionTasks /\ "right-operand" \in Takers /\ b.do \in ExpressionTasks /\ b.do \in Takers
      /\ FALSE \in BOOLEAN
  BY Asking DEF ExpressionTasks, Takers
<1>3. /\ require_lvalue = FALSE /\ IsTask(Task) /\ Task.do = "right-operand"
      /\ TaskTyped(scope, cur_fun.ret, prog, Task) /\ tmp_val.ty \in Wanted(Task)
  BY <1>1, <1>2, NoRequest, Below DEF IInv
<1>4. Task.node.r \in Expression
  BY <1>3, Children
<1>5. IsNumber(scope, Task.node.r) /\ tmp_val.ty \in Numbers
  BY <1>3 DEF TaskTyped, Wanted
<1>6. a.do \in ExpressionTasks /\ a.do \notin Takers /\ TaskTyped(scope, cur_fun.ret, prog, a) /\ Given(scope, FALSE, a) \subseteq Numbers
  BY <1>4, <1>5, VisitGiven DEF IsNumber
<1>7. b.do = "operate" /\ b.l_val = tmp_val
  OBVIOUS
<1> HIDE DEF a, b
<1>8. TaskTyped(scope, cur_fun.ret, prog, b) /\ Wanted(b) = Numbers
  BY <1>5, <1>7 DEF TaskTyped, Wanted
<1>9. Given(scope, FALSE, b) = Numbers /\ Given(scope, require_lvalue, Task) = Numbers
  BY <1>2, <1>3, <1>7, GivenIs
<1>10. require_lvalue' = FALSE
  BY <1>1, <1>3
<1>q. QED
  BY <1>1, <1>2, <1>6, <1>8, <1>9, <1>10, GoOnTwo


LEMMA OperateTypes ==
  ASSUME IInv, IInv', TypeInv, Operate
  PROVE  TypeInv'
<1> DEFINE f == cur_fun.ref[2]
           k == Len(blocks)
           l == Task.l_val
           r == tmp_val
           op == Task.op
           left == l.ty # r.ty /\ IsIntegerType(l.ty)
           right == l.ty # r.ty /\ ~IsIntegerType(l.ty)
           is_int == l.ty = r.ty /\ IsIntegerType(l.ty)
           ty == IF op \in Relops THEN Bit ELSE IF is_int THEN I32 ELSE Float
           n == IF is_int THEN I32 ELSE Float
           cl == IF left THEN Convert(Here, l, Float) ELSE [Here EXCEPT !.v = l]
           cr == IF right THEN Convert(cl, r, Float) ELSE [cl EXCEPT !.v = r]
           c == Gen(cr, op, ty, <<cl.v, cr.v>>)
           y == IF op \in Relops THEN Gen(c, "zext", I32, <<c.v>>) ELSE c
<1>1. /\ Doing("operate") /\ Then(<<>>) /\ UNCHANGED <<prog, require_lvalue, scope, cur_fun>>
      /\ blocks' = y.bs /\ tmp_val' = y.v
  BY SMTT(30) DEF Operate, Built
<1>2. "operate" \in ExpressionTasks /\ "operate" \in Takers /\ "operate" \notin DeclKinds \cup {"end-of-function"}
  BY Asking DEF ExpressionTasks, Takers
<1>3. /\ Sound(Here, f, k) /\ tmp_val.ty \in Wanted(Task) /\ Task.do = "operate" /\ IsTask(Task)
      /\ TaskTyped(scope, cur_fun.ret, prog, Task) /\ require_lvalue = FALSE
  BY <1>1, <1>2, Within, NoRequest DEF IInv
<1>4. r.ty \in Numbers /\ l.ty \in Numbers /\ op \in Binops
  BY <1>3 DEF Wanted, TaskTyped, IsTask
<1>5. I32 \in Numbers /\ Float \in Numbers /\ n \in Numbers
  BY DEF Numbers
<1>6. /\ left => l.ty # Float /\ r.ty = Float
      /\ right => r.ty # Float /\ l.ty = Float
      /\ ~left => l.ty = n
      /\ ~right => r.ty = n
      /\ left \/ right => n = Float
  BY <1>4, ScalarsDiffer DEF Numbers
<1> HIDE DEF f, k
<1>7. Sound(cl, f, k) /\ cl.v.ty = n
  <2>1. CASE left
    BY <1>3, <1>4, <1>5, <1>6, <2>1, ConvertSound
  <2>2. CASE ~left
    BY <1>3, <1>6, <2>2, ValueSound
  <2>q. QED
    BY <2>1, <2>2
<1> HIDE DEF cl
<1>8. Sound(cr, f, k) /\ cr.v.ty = n
  <2>1. CASE right
    BY <1>4, <1>5, <1>6, <1>7, <2>1, ConvertSound
  <2>2. CASE ~right
    BY <1>6, <1>7, <2>2, ValueSound
  <2>q. QED
    BY <2>1, <2>2
<1>9. ty = (IF op \in Relops THEN Bit ELSE n)
  OBVIOUS
<1> HIDE DEF cr, ty, n, op
<1>10. Right(op, ty, <<cl.v, cr.v>>, f)
  BY <1>4, <1>5, <1>7, <1>8, <1>9, RightOperation
<1>11. Sound(c, f, k) /\ c.v.ty = ty
  BY <1>8, <1>10, GenSound
<1> HIDE DEF c
<1>12. Sound(y, f, k) /\ y.v.ty \in Numbers
  <2>1. CASE op \in Relops
    <3>1. Right("zext", I32, <<c.v>>, f)
      BY <1>9, <1>11, <2>1, RightUnary
    <3>q. QED
      BY <1>5, <1>11, <2>1, <3>1, GenSound
  <2>2. CASE op \notin Relops
    BY <1>5, <1>9, <1>11, <2>2
  <2>q. QED
    BY <2>1, <2>2
<1> HIDE DEF y
<1>13. RightBlocks(blocks') /\ tmp_val'.ty \in Numbers /\ ValueOk(tmp_val')
  BY <1>1, <1>12, SoundParts DEF ValueOk
<1>14. Given(scope, require_lvalue, Task) = Numbers
  BY <1>3, GivenIs
<1>q. QED
  BY <1>1, <1>2, <1>3, <1>13, <1>14, Finish

LEMMA CallTypes ==
  ASSUME IInv, IInv', TypeInv, Legal, CallExpression
  PROVE  TypeInv'
<1> DEFINE fun == Find(scope, Task.node.id)
           args == Task.node.args
           none == <<>>
           a == [do |-> "args", fun |-> fun, rest |-> args, done |-> none]
<1>1. Doing("call") /\ Then(<<a>>) /\ UNCHANGED <<prog, scope, cur_fun, require_lvalue, blocks, tmp_val>>
  BY DEF CallExpression
<1>2. "call" \in ExpressionTasks /\ "call" \in ExpressionKinds /\ "args" \in ExpressionTasks /\ "args" \notin Takers /\ FALSE \in BOOLEAN
  BY Asking DEF ExpressionKinds
<1>3. require_lvalue = FALSE /\ IsTask(Task) /\ Task.do = "call" /\ ScopeTyped(scope) /\ IsSeq(scope)
  BY <1>1, NoRequest, FirstTask, Holding, ScopeParts DEF IInv
<1>4. LegalVisit(scope, cur_fun.ret, Task.node) /\ Task.node.k = "call" /\ IsSeq(args)
  BY <1>1, <1>2, <1>3, LegalNode, Children, SeqIs DEF IInv
<1>5. /\ IsFunction(fun) /\ Len(args) = Len(fun.params)
      /\ \A m \in 1 .. Len(args) : Fits(scope, args[m], fun.params[m])
  BY <1>4 DEF LegalVisit, IsSeq
<1>6. FunTyped(fun)
  BY <1>3, <1>5, FindTyped
<1>7. a.do = "args" /\ a.fun = fun /\ a.rest = args /\ a.done = none
      /\ a = [do |-> a.do, fun |-> a.fun, rest |-> a.rest, done |-> a.done]
  OBVIOUS
<1>8. IsSeq(none) /\ Len(none) = 0 /\ Len(args) \in Nat
  BY <1>4, EmptyIs DEF IsSeq
<1>9. Given(scope, require_lvalue, Task) = OfCall(fun.ret)
  BY <1>2, <1>3, <1>4, GivenIs
<1> HIDE DEF a, none, fun, args
<1>10. CallTyped(scope, a)
  <2>1. \A m \in 1 .. Len(args) : Len(none) + m = m
    BY <1>8
  <2>2. \A m \in 1 .. Len(a.rest) : Fits(scope, a.rest[m], a.fun.params[Len(a.done) + m])
    BY <1>5, <1>7, <2>1
  <2>q. QED
    BY <1>5, <1>6, <1>7, <1>8, <2>2 DEF CallTyped
<1>11. TaskTyped(scope, cur_fun.ret, prog, a) /\ a.do \in ExpressionTasks /\ a.do \notin Takers
  BY <1>2, <1>7, <1>10 DEF TaskTyped
<1>12. Given(scope, FALSE, a) = OfCall(fun.ret)
  BY <1>2, <1>7, GivenIs
<1>13. RightBlocks(blocks') /\ ValueOk(tmp_val') /\ require_lvalue' = FALSE
  BY <1>1, <1>3, Holding
<1>q. QED
  BY <1>1, <1>2, <1>9, <1>11, <1>12, <1>13, GoOnOne

\* A call in progress, its task at hand.
LEMMA Calling ==
  ASSUME IInv, TypeInv, NEW t \in {"args", "arg"}, Doing(t)
  PROVE  /\ t \in ExpressionTasks /\ require_lvalue = FALSE /\ Task.do = t /\ IsTask(Task)
         /\ CallTyped(scope, Task) /\ IsSeq(Task.rest) /\ IsSeq(Task.done) /\ FunTyped(Task.fun)
         /\ Given(scope, require_lvalue, Task) = OfCall(Task.fun.ret)
<1>1. t \in ExpressionTasks /\ FALSE \in BOOLEAN
  BY DEF ExpressionTasks
<1>2. require_lvalue = FALSE /\ Task.do = t /\ IsTask(Task) /\ TaskTyped(scope, cur_fun.ret, prog, Task)
  BY <1>1, NoRequest, Below DEF IInv
<1>3. CallTyped(scope, Task)
  BY <1>2 DEF TaskTyped
<1>4. IsSeq(Task.rest)
  BY <1>2, SeqIs DEF IsTask
<1>5. IsSeq(Task.done) /\ FunTyped(Task.fun)
  BY <1>3 DEF CallTyped
<1>6. Given(scope, require_lvalue, Task) = OfCall(Task.fun.ret)
  BY <1>1, <1>2, GivenIs
<1>q. QED
  BY <1>1, <1>2, <1>3, <1>4, <1>5, <1>6

LEMMA NextArgTypes ==
  ASSUME IInv, IInv', TypeInv, NextArg
  PROVE  TypeInv'
<1> DEFINE e == Head(Task.rest)
           a == Visit(e)
           b == [Task EXCEPT !.do = "arg"]
           fun == Task.fun
           rest == Task.rest
           done == Task.done
<1>1. /\ Doing("args") /\ Then(<<a, b>>) /\ UNCHANGED <<prog, scope, cur_fun, blocks, tmp_val, require_lvalue>>
      /\ rest # <<>>
  BY DEF NextArg
<1>2. /\ "args" \in ExpressionTasks /\ "arg" \in ExpressionTasks /\ "arg" \in Takers
      /\ FALSE \in BOOLEAN /\ "args" \in {"args", "arg"}
  BY DEF ExpressionTasks, Takers
<1>3. /\ require_lvalue = FALSE /\ IsTask(Task) /\ CallTyped(scope, Task) /\ IsSeq(rest) /\ Task.do = "args"
      /\ Given(scope, require_lvalue, Task) = OfCall(fun.ret)
  BY <1>1, <1>2, Calling
<1>4. e \in Expression /\ e = rest[1] /\ 1 \in 1 .. Len(rest)
  BY <1>1, <1>3, Children, Thens, FirstOrLater
<1>5. b = [do |-> "arg", fun |-> fun, rest |-> rest, done |-> done]
  <2>1. Task = [do |-> Task.do, fun |-> fun, rest |-> rest, done |-> done]
    BY <1>3 DEF CallTyped
  <2>q. QED
    BY <2>1
<1>6. b.do = "arg" /\ b.fun = fun /\ b.rest = rest /\ b.done = done
      /\ b = [do |-> b.do, fun |-> b.fun, rest |-> b.rest, done |-> b.done]
  BY <1>5
<1>7. a.do \in ExpressionTasks /\ a.do \notin Takers /\ TaskTyped(scope, cur_fun.ret, prog, a) /\ Given(scope, FALSE, a) = TypesOf(scope, e)
  BY <1>4, VisitGiven
<1>8. Fits(scope, rest[1], fun.params[Len(done) + 1])
  BY <1>3, <1>4 DEF CallTyped
<1> HIDE DEF a, b
<1>9. CallTyped(scope, b)
  BY <1>3, <1>6 DEF CallTyped
<1>10. TaskTyped(scope, cur_fun.ret, prog, b) /\ Wanted(b) = Accepted(fun.params[Len(done) + 1])
  BY <1>6, <1>9 DEF TaskTyped, Wanted
<1>11. Given(scope, FALSE, a) \subseteq Wanted(b)
  BY <1>4, <1>7, <1>8, <1>10 DEF Fits
<1>12. Given(scope, FALSE, b) = OfCall(fun.ret)
  BY <1>2, <1>6, GivenIs
<1>13. b.do \in ExpressionTasks /\ b.do \in Takers /\ require_lvalue' = FALSE
  BY <1>1, <1>2, <1>3, <1>6
<1> HIDE DEF e, fun, rest, done
<1>q. QED
  BY <1>1, <1>2, <1>3, <1>7, <1>10, <1>11, <1>12, <1>13, GoOnTwo

\* A call in progress, with other arguments.
Answered(t, r, d) == [t EXCEPT !.do = "args", !.rest = r, !.done = d]

LEMMA CallRecord ==
  ASSUME NEW t, NEW x, NEW f, NEW y, NEW z, t = [do |-> x, fun |-> f, rest |-> y, done |-> z], NEW r, NEW d
  PROVE  LET u == Answered(t, r, d)
         IN /\ u.do = "args" /\ u.fun = f /\ u.rest = r /\ u.done = d
            /\ u = [do |-> u.do, fun |-> u.fun, rest |-> u.rest, done |-> u.done]
<1> DEFINE u == Answered(t, r, d)
           v == [do |-> "args", fun |-> f, rest |-> r, done |-> d]
<1>1. DOMAIN u = {"do", "fun", "rest", "done"} /\ DOMAIN v = {"do", "fun", "rest", "done"}
  BY DEF Answered
<1>2. u.do = "args" /\ u.fun = f /\ u.rest = r /\ u.done = d
  BY DEF Answered
<1>3. v.do = "args" /\ v.fun = f /\ v.rest = r /\ v.done = d
  OBVIOUS
<1>4. u = [n \in DOMAIN u |-> u[n]]
  BY DEF Answered
<1>5. v = [n \in DOMAIN v |-> v[n]]
  OBVIOUS
<1> HIDE DEF u, v
<1>6. u = v
  BY <1>1, <1>2, <1>3, <1>4, <1>5
<1>7. u = [do |-> u.do, fun |-> u.fun, rest |-> u.rest, done |-> u.done]
  BY <1>2, <1>6 DEF v
<1>q. QED
  BY <1>2, <1>7 DEF u

LEMMA ArgTypes ==
  ASSUME IInv, IInv', TypeInv, Arg
  PROVE  TypeInv'
<1> DEFINE f == cur_fun.ref[2]
           k == Len(blocks)
           fun == Task.fun
           rest == Task.rest
           done == Task.done
           param == fun.params[Len(done) + 1]
           t == IF IsIntegerType(tmp_val.ty) THEN Float ELSE I32
           convert == ~IsPointerType(tmp_val.ty) /\ param # tmp_val.ty
           c == IF convert THEN Convert(Here, tmp_val, t) ELSE Here
           a == [Task EXCEPT !.do = "args", !.rest = Tail(@), !.done = Append(@, c.v)]
           done2 == Append(done, c.v)
           rest2 == Tail(rest)
<1>1. /\ Doing("arg") /\ Then(<<a>>) /\ UNCHANGED <<prog, require_lvalue, scope, cur_fun>>
      /\ blocks' = c.bs /\ tmp_val' = c.v
  BY DEF Arg, Built
<1>2. "arg" \in ExpressionTasks /\ "arg" \in Takers /\ "arg" \notin DeclKinds \cup {"end-of-function"} /\ "arg" \in {"args", "arg"}
      /\ "args" \in ExpressionTasks /\ "args" \notin Takers /\ FALSE \in BOOLEAN
  BY Asking DEF ExpressionTasks, Takers
<1>3. /\ require_lvalue = FALSE /\ Task.do = "arg" /\ IsTask(Task) /\ CallTyped(scope, Task) /\ IsSeq(rest) /\ IsSeq(done)
      /\ FunTyped(fun) /\ Given(scope, require_lvalue, Task) = OfCall(fun.ret)
  BY <1>1, <1>2, Calling
<1>4. Sound(Here, f, k) /\ Here.v = tmp_val /\ tmp_val.ty \in Wanted(Task)
  BY <1>1, <1>2, Within
<1>5. /\ rest # <<>> /\ Len(rest) >= 1 /\ Len(rest) \in Nat /\ Len(done) \in Nat
      /\ IsSeq(rest2) /\ Len(rest2) = Len(rest) - 1
      /\ \A n \in 1 .. Len(rest) - 1 : n + 1 \in 1 .. Len(rest) /\ rest2[n] = rest[n + 1]
  BY <1>3, FirstOrLater, NotEmpty DEF IsTask, IsSeq
<1>6. Len(done) + Len(rest) = Len(fun.params) /\ Task = [do |-> Task.do, fun |-> fun, rest |-> rest, done |-> done]
      /\ (\A m \in 1 .. Len(done) : done[m].ty = fun.params[m])
      /\ \A m \in 1 .. Len(rest) : Fits(scope, rest[m], fun.params[Len(done) + m])
  BY <1>3 DEF CallTyped
<1>7. param \in Numbers \cup Addresses
  <2>1. Len(done) + 1 \in 1 .. Len(fun.params)
    BY <1>5, <1>6
  <2>q. QED
    BY <1>3, <2>1 DEF FunTyped
<1>8. tmp_val.ty \in Accepted(param)
  BY <1>3, <1>4 DEF Wanted
<1>10. a.do = "args" /\ a.fun = fun /\ a.rest = rest2 /\ a.done = done2
       /\ a = [do |-> a.do, fun |-> a.fun, rest |-> a.rest, done |-> a.done]
  <2> DEFINE do == Task.do
  <2>1. Task = [do |-> do, fun |-> fun, rest |-> rest, done |-> done]
    BY <1>6
  <2>2. a = Answered(Task, rest2, done2)
    BY DEF Answered
  <2> HIDE DEF a, do, fun, rest, done, rest2, done2
  <2>q. QED
    BY <2>1, <2>2, CallRecord
<1> HIDE DEF f, k, param
<1>11. Sound(c, f, k) /\ c.v.ty = param
  <2>1. CASE param \in Numbers
    <3>1. tmp_val.ty \in Numbers
      BY <1>8, <2>1 DEF Accepted
    <3>2. ~IsPointerType(tmp_val.ty)
      BY <3>1, NumberTypes
    <3>3. CASE param = tmp_val.ty
      BY <1>4, <3>3
    <3>4. CASE param # tmp_val.ty
      <4>1. t = param /\ tmp_val.ty # t /\ t \in Numbers
        BY <2>1, <3>1, <3>4, ScalarsDiffer DEF Numbers
      <4> HIDE DEF t
      <4>2. Sound(Convert(Here, tmp_val, t), f, k) /\ Convert(Here, tmp_val, t).v.ty = param
        BY <1>4, <3>1, <4>1, ConvertSound
      <4>q. QED
        BY <3>2, <3>4, <4>2
    <3>q. QED
      BY <3>3, <3>4
  <2>2. CASE param \notin Numbers
    <3>1. tmp_val.ty = param
      BY <1>8, <2>2 DEF Accepted
    <3>q. QED
      BY <1>4, <3>1
  <2>q. QED
    BY <2>1, <2>2
<1> HIDE DEF a, c, fun, rest, done, rest2
<1>12. /\ IsSeq(done2) /\ Len(done2) = Len(done) + 1 /\ done2[Len(done) + 1] = c.v
       /\ \A n \in 1 .. Len(done) : done2[n] = done[n]
  BY <1>3, AppendSeq
<1> HIDE DEF done2
<1>13. CallTyped(scope, a)
  <2>1. Len(done2) + Len(rest2) = Len(fun.params)
    <3>1. Len(done2) = Len(done) + 1 /\ Len(rest2) = Len(rest) - 1 /\ Len(rest) \in Nat /\ Len(done) \in Nat
      BY <1>5, <1>12
    <3>2. Len(done2) + Len(rest2) = Len(done) + Len(rest)
      BY <3>1
    <3>3. Len(done) + Len(rest) = Len(fun.params)
      BY <1>6
    <3>q. QED
      BY <3>2, <3>3
  <2>2. ASSUME NEW m \in 1 .. Len(done2) PROVE done2[m].ty = fun.params[m]
    <3>1. CASE m = Len(done) + 1
      BY <1>11, <1>12, <3>1 DEF param
    <3>2. CASE m # Len(done) + 1
      <4>1. m \in 1 .. Len(done)
        BY <1>5, <1>12, <3>2
      <4>q. QED
        BY <1>6, <1>12, <4>1
    <3>q. QED
      BY <3>1, <3>2
  <2>3. ASSUME NEW m \in 1 .. Len(rest2) PROVE Fits(scope, rest2[m], fun.params[Len(done2) + m])
    <3>1. m \in 1 .. Len(rest) - 1 /\ m + 1 \in 1 .. Len(rest) /\ Len(done) + (m + 1) = Len(done2) + m
      <4>1. Len(done2) = Len(done) + 1 /\ Len(rest2) = Len(rest) - 1 /\ Len(rest) \in Nat /\ Len(done) \in Nat
        BY <1>5, <1>12
      <4>q. QED
        BY <2>3, <4>1
    <3>2. Fits(scope, rest[m + 1], fun.params[Len(done) + (m + 1)])
      BY <1>6, <3>1
    <3>q. QED
      BY <1>5, <3>1, <3>2
  <2>q. QED
    BY <1>3, <1>10, <1>12, <2>1, <2>2, <2>3 DEF CallTyped
<1>14. TaskTyped(scope, cur_fun.ret, prog, a) /\ a.do \in ExpressionTasks /\ a.do \notin Takers
  BY <1>2, <1>10, <1>13 DEF TaskTyped
<1>15. Given(scope, FALSE, a) = OfCall(fun.ret)
  BY <1>2, <1>10, GivenIs
<1>16. RightBlocks(blocks') /\ ValueOk(tmp_val') /\ require_lvalue' = FALSE
  BY <1>1, <1>3, <1>7, <1>11, SoundParts DEF ValueOk
<1>q. QED
  BY <1>1, <1>2, <1>3, <1>14, <1>15, <1>16, GoOnOne

LEMMA MakeCallTypes ==
  ASSUME IInv, IInv', TypeInv, MakeCall
  PROVE  TypeInv'
<1> DEFINE f == cur_fun.ref[2]
           k == Len(blocks)
           fun == Task.fun
           done == Task.done
           none == <<>>
           x == Gen(Here, "call", fun.ret, <<fun>> \o done)
<1>1. /\ Doing("args") /\ Then(<<>>) /\ UNCHANGED <<prog, require_lvalue, scope, cur_fun>>
      /\ blocks' = x.bs /\ tmp_val' = x.v /\ Task.rest = none
  BY DEF MakeCall, Built
<1>2. "args" \in ExpressionTasks /\ "args" \notin DeclKinds \cup {"end-of-function"} /\ "args" \in {"args", "arg"}
  BY Asking DEF ExpressionTasks
<1>3. /\ require_lvalue = FALSE /\ CallTyped(scope, Task) /\ IsSeq(done)
      /\ FunTyped(fun) /\ Given(scope, require_lvalue, Task) = OfCall(fun.ret)
  BY <1>1, <1>2, Calling
<1>4. Sound(Here, f, k)
  BY <1>1, <1>2, Within
<1>5. Len(none) = 0 /\ Len(done) \in Nat
  BY <1>3, EmptyIs DEF IsSeq
<1> HIDE DEF none
<1>6. Len(done) = Len(fun.params) /\ \A m \in 1 .. Len(done) : done[m].ty = fun.params[m]
  BY <1>1, <1>3, <1>5 DEF CallTyped
<1>7. IsSeq(fun.params) /\ fun.ret \in {I32, Float, Void}
  BY <1>3 DEF FunTyped
<1> HIDE DEF f, k
<1>8. Right("call", fun.ret, <<fun>> \o done, f)
  BY <1>3, <1>6, <1>7, RightCall
<1>9. Sound(x, f, k) /\ x.v.ty = fun.ret
  BY <1>4, <1>8, GenSound
<1> HIDE DEF x
<1>10. fun.ret \in OfCall(fun.ret) /\ fun.ret \in Numbers \cup {Void}
  BY <1>7 DEF OfCall, Numbers
<1>11. RightBlocks(blocks') /\ ValueOk(tmp_val') /\ tmp_val'.ty \in Given(scope, require_lvalue, Task) /\ require_lvalue' = FALSE
  BY <1>1, <1>3, <1>9, <1>10, SoundParts DEF ValueOk
<1> HIDE DEF fun, done
<1>q. QED
  BY <1>1, <1>2, <1>11, Finish


LEMMA VarTypes ==
  ASSUME IInv, IInv', TypeInv, Legal, Var
  PROVE  TypeInv'
<1> DEFINE f == cur_fun.ref[2]
           k == Len(blocks)
           v == Find(scope, Task.node.id)
           h == [Here EXCEPT !.v = v]
           index == Const(I32)
           base == Tail(v.ty)
           elem == Ptr(Tail(base))
           given == Given(scope, require_lvalue, Task)
           types == TypesOf(scope, Task.node)
           address == Gen(Here, "gep", elem, <<v, index>>)
           load == Gen(Here, "load", base, <<v>>)
           c == IF require_lvalue THEN h ELSE IF Head(base) = "arr" THEN address ELSE load
<1>1. /\ Doing("var") /\ Then(<<>>) /\ UNCHANGED <<prog, scope, cur_fun>> /\ require_lvalue' = FALSE
      /\ blocks' = c.bs /\ tmp_val' = c.v /\ Task.node.index = None
  BY DEF Var, Built
<1>2. "var" \in ExpressionTasks /\ "var" \in ExpressionKinds /\ "var" \notin DeclKinds \cup {"end-of-function"}
  BY Asking DEF ExpressionKinds
<1>3. Sound(Here, f, k) /\ Task.do = "var" /\ require_lvalue \in BOOLEAN
  BY <1>1, <1>2, Within DEF IInv, ScopeInv
<1>4. LegalVisit(scope, cur_fun.ret, Task.node) /\ Task.node.k = "var"
  BY <1>1, <1>2, LegalNode DEF IInv
<1>5. VarTyped(v)
  <2>1. ScopeTyped(scope) /\ IsSeq(scope)
    BY Holding, ScopeParts DEF IInv
  <2>2. IsVariable(v)
    BY <1>4 DEF LegalVisit
  <2>q. QED
    BY <2>1, <2>2, FindTyped
<1>6. types = IF base \notin Numbers THEN {elem} ELSE Numbers
  BY <1>1, <1>4 DEF TypesOf
<1>7. require_lvalue => types \subseteq Numbers
  BY DEF TypeInv, IsNumber
<1>8. (require_lvalue => given = Addresses) /\ (~require_lvalue => given = types)
  BY <1>3, GivenIs
<1>9. PICK t \in Numbers :
        \/ v.ty = Ptr(t) /\ base = t /\ base \in Numbers
        \/ /\ v.ty = Ptr(Arr(t)) /\ base \notin Numbers /\ Head(base) = "arr" /\ elem = Ptr(t)
        \/ /\ v.ty = Ptr(Ptr(t)) /\ base \notin Numbers /\ Head(base) = "ptr" /\ elem = Ptr(t) /\ base = Ptr(t)
  BY <1>5, Variables
<1>10. IsSeq(t) /\ Head(t) # "arr" /\ Ptr(t) \in Addresses /\ Ptr(t) \notin Numbers
  BY NumberTypes
<1>11. index.ty = I32
  BY DEF Const, Value
<1> HIDE DEF f, k, v, index, base, elem, given, types
<1>12. Sound(c, f, k) /\ c.v.ty \in given /\ c.v.ty \in Numbers \cup Addresses
  <2>1. CASE require_lvalue
    <3>1. v.ty = Ptr(t)
      BY <1>6, <1>7, <1>9, <1>10, <2>1
    <3>2. Sound(h, f, k) /\ h.v = v
      BY <1>3, ValueSound
    <3>3. c = h
      BY <2>1
    <3>4. v.ty \in given /\ v.ty \in Addresses
      BY <1>8, <1>10, <2>1, <3>1
    <3> HIDE DEF c, h
    <3>q. QED
      BY <3>2, <3>3, <3>4
  <2>2. CASE ~require_lvalue /\ Head(base) = "arr"
    <3>1. v.ty = Ptr(Arr(t)) /\ base \notin Numbers /\ elem = Ptr(t)
      BY <1>9, <1>10, <2>2
    <3>2. Right("gep", elem, <<v, index>>, f)
      BY <1>10, <1>11, <3>1, RightGep
    <3>3. Sound(address, f, k) /\ address.v.ty = elem
      BY <1>3, <3>2, GenSound
    <3>4. c = address
      BY <2>2
    <3>5. elem \in given /\ elem \in Addresses
      BY <1>6, <1>8, <1>10, <2>2, <3>1
    <3> HIDE DEF c, address
    <3>q. QED
      BY <3>3, <3>4, <3>5
  <2>3. CASE ~require_lvalue /\ Head(base) # "arr"
    <3>1. \/ v.ty = Ptr(t) /\ base = t
          \/ v.ty = Ptr(Ptr(t)) /\ base = Ptr(t) /\ base \notin Numbers /\ elem = Ptr(t)
      BY <1>9, <2>3
    <3>2. v.ty = Ptr(base)
      BY <3>1
    <3>3. Right("load", base, <<v>>, f)
      BY <3>2, RightUnary
    <3>4. Sound(load, f, k) /\ load.v.ty = base
      BY <1>3, <3>3, GenSound
    <3>5. c = load
      BY <2>3
    <3>6. base \in given /\ base \in Numbers \cup Addresses
      BY <1>6, <1>8, <1>10, <2>3, <3>1
    <3> HIDE DEF c, load
    <3>q. QED
      BY <3>4, <3>5, <3>6
  <2>q. QED
    BY <1>3, <2>1, <2>2, <2>3
<1> HIDE DEF c
<1>13. RightBlocks(blocks') /\ ValueOk(tmp_val') /\ tmp_val'.ty \in given
  BY <1>1, <1>12, SoundParts DEF ValueOk
<1>14. require_lvalue' = FALSE /\ Then(<<>>) /\ UNCHANGED <<prog, scope, cur_fun>>
  BY <1>1
<1>q. QED
  BY <1>1, <1>2, <1>13, <1>14, Finish DEF given

LEMMA IndexedVarTypes ==
  ASSUME IInv, IInv', TypeInv, Legal, IndexedVar
  PROVE  TypeInv'
<1> DEFINE v == Find(scope, Task.node.id)
           e == Task.node.index
           lv == require_lvalue
           given == Given(scope, require_lvalue, Task)
           wanted == IF lv THEN Addresses ELSE Numbers
           a == Visit(e)
           b == [do |-> "element", var |-> v, lvalue |-> lv]
<1>1. /\ Doing("var") /\ Then(<<a, b>>) /\ UNCHANGED <<prog, scope, cur_fun, blocks, tmp_val>> /\ require_lvalue' = FALSE
      /\ e # None
  BY DEF IndexedVar
<1>2. /\ "var" \in ExpressionTasks /\ "var" \in ExpressionKinds /\ b.do \in ExpressionTasks /\ b.do \in Takers
      /\ FALSE \in BOOLEAN
  BY Asking DEF ExpressionKinds, ExpressionTasks, Takers
<1>3. Task.do = "var" /\ lv \in BOOLEAN /\ IsTask(Task)
  BY <1>1, FirstTask DEF IInv, ScopeInv
<1>4. LegalVisit(scope, cur_fun.ret, Task.node) /\ Task.node.k = "var"
  BY <1>1, <1>2, LegalNode DEF IInv
<1>5. VarTyped(v) /\ IsNumber(scope, e)
  <2>1. ScopeTyped(scope) /\ IsSeq(scope)
    BY Holding, ScopeParts DEF IInv
  <2>2. IsVariable(v) /\ IsNumber(scope, e)
    BY <1>1, <1>4 DEF LegalVisit
  <2>q. QED
    BY <2>1, <2>2, FindTyped
<1>6. e \in Expression
  BY <1>1, <1>3, Children
<1>7. a.do \in ExpressionTasks /\ a.do \notin Takers /\ TaskTyped(scope, cur_fun.ret, prog, a) /\ Given(scope, FALSE, a) \subseteq Numbers
  BY <1>5, <1>6, VisitGiven DEF IsNumber
<1>8. TypesOf(scope, Task.node) = Numbers
  BY <1>1, <1>4 DEF TypesOf
<1>9. b.do = "element" /\ b.var = v /\ b.lvalue = lv
  OBVIOUS
<1> HIDE DEF a, b, v
<1>10. TaskTyped(scope, cur_fun.ret, prog, b) /\ Wanted(b) = Numbers
  BY <1>3, <1>5, <1>9 DEF TaskTyped, Wanted
<1>11. Given(scope, FALSE, b) = wanted
  BY <1>2, <1>9, GivenIs
<1>12. given = wanted
  <2>1. CASE lv
    BY <1>3, <2>1, GivenIs
  <2>2. CASE ~lv
    BY <1>3, <1>8, <2>2, GivenIs
  <2>q. QED
    BY <2>1, <2>2
<1> HIDE DEF given, wanted
<1>14. Given(scope, FALSE, b) \subseteq given
  BY <1>11, <1>12
<1>q. QED
  BY <1>1, <1>2, <1>7, <1>10, <1>14, GoOnTwo DEF given

\* A call of the helper of the run time.
LEMMA HelperRight ==
  ASSUME NEW sc, IsSeq(sc), sc # <<>>, ScopeTyped(sc), NEW f
  PROVE  Right("call", Void, <<Find(sc, "neg_idx_except")>>, f)
<1> DEFINE fun == Fun(Helper, Void, <<>>)
           none == <<>>
<1>1. Find(sc, "neg_idx_except") = fun
  BY FindHelper DEF Helper
<1>2. fun.params = none /\ IsSeq(none) /\ Len(none) = 0
  BY EmptyIs DEF Fun
<1> HIDE DEF fun, none
<1>3. <<fun>> \o none = <<fun>>
  <2> DEFINE q == <<fun>> \o none
             u == <<fun>>
  <2>0. IsSeq(q) /\ Len(q) = Len(none) + 1 /\ q[1] = fun
    BY ZenonT(40), <1>2, ConsSeq
  <2>1. IsSeq(q) /\ Len(q) = 1 /\ q[1] = fun
    BY <1>2, <2>0
  <2>2. IsSeq(u) /\ Len(u) = 1 /\ u[1] = fun
    BY UnitSeq
  <2> HIDE DEF q, u
  <2>3. q = [n \in 1 .. 1 |-> q[n]] /\ u = [n \in 1 .. 1 |-> u[n]]
    BY <2>1, <2>2 DEF IsSeq
  <2>4. \A n \in 1 .. 1 : q[n] = u[n]
    BY <2>1, <2>2
  <2>5. q = u
    BY <2>3, <2>4
  <2>q. QED
    BY <2>5 DEF q, u
<1>4. \A m \in 1 .. Len(none) : none[m].ty = fun.params[m]
  BY <1>2
<1>5. Right("call", Void, <<fun>> \o none, f)
  BY <1>2, <1>4, RightCall
<1>q. QED
  BY <1>1, <1>3, <1>5

LEMMA ElementTypes ==
  ASSUME IInv, IInv', TypeInv, Unique, Element
  PROVE  TypeInv'
<1> DEFINE f    == cur_fun.ref[2]
           k    == Len(blocks)
           var  == Task.var
           c0   == Created(Here)
           c1   == Created(c0)
           c2   == IF tmp_val.ty = Float THEN Convert(c1, tmp_val, I32) ELSE c1
           val  == c2.v
           c3   == Gen(c2, "icmp_lt0", Bit, <<val>>)
           c3b  == CondBr(c3, c3.v, k + 1, k + 2)
           c4   == At(c3b, k + 1)
           c4b  == Gen(c4, "call", Void, <<Find(scope, "neg_idx_except")>>)
           c5   == DefaultRet(c4b)
           c6   == At(c5, k + 2)
           base == Tail(var.ty)
           elem == Ptr(Tail(base))
           kind == Head(base)
           load == Gen(c6, "load", base, <<var>>)
           viaPtr == Gen(load, "gep", load.v.ty, <<load.v, val>>)
           viaArr == Gen(c6, "gep", elem, <<var, val>>)
           plain  == Gen(c6, "gep", var.ty, <<var, val>>)
           ptr  == CASE kind = "ptr" -> viaPtr [] kind = "arr" -> viaArr [] OTHER -> plain
           t3   == Tail(ptr.v.ty)
           y    == IF Task.lvalue THEN ptr ELSE Gen(ptr, "load", t3, <<ptr.v>>)
<1>1. /\ Doing("element") /\ Then(<<>>) /\ UNCHANGED <<prog, scope, cur_fun>>
      /\ blocks' = y.bs /\ tmp_val' = y.v /\ require_lvalue' = (IF Task.lvalue THEN FALSE ELSE require_lvalue)
  BY ZenonT(40) DEF Element, Built
<1>2. "element" \in ExpressionTasks /\ "element" \in Takers /\ "element" \notin DeclKinds \cup {"end-of-function"}
  BY Asking DEF ExpressionTasks, Takers
<1>3. /\ Sound(Here, f, k) /\ Here.v = tmp_val /\ Here.bs = blocks /\ tmp_val.ty \in Wanted(Task) /\ Task.do = "element" /\ k \in Nat
      /\ TaskTyped(scope, cur_fun.ret, prog, Task) /\ require_lvalue = FALSE
      /\ cur_fun.ret \in {I32, Float, Void} /\ Declared(prog, cur_fun)
  BY ZenonT(40), <1>1, <1>2, Within, NoRequest DEF IInv, Here
<1>4. ScopeTyped(scope) /\ IsSeq(scope) /\ scope # <<>>
  BY Holding, ScopeParts DEF IInv
<1>5. tmp_val.ty \in Numbers /\ VarTyped(var) /\ Task.lvalue \in BOOLEAN
  BY <1>3 DEF Wanted, TaskTyped
<1>6. Given(scope, require_lvalue, Task) = IF Task.lvalue THEN Addresses ELSE Numbers
  BY <1>3, GivenIs
<1>7. PICK t \in Numbers :
        \/ var.ty = Ptr(t) /\ base = t
        \/ /\ var.ty = Ptr(Arr(t)) /\ kind = "arr" /\ elem = Ptr(t)
        \/ /\ var.ty = Ptr(Ptr(t)) /\ kind = "ptr" /\ base = Ptr(t)
  BY <1>5, Variables
<1>8. IsSeq(t) /\ Head(t) \notin {"ptr", "arr"} /\ Ptr(t) \in Addresses /\ Tail(Ptr(t)) = t
  BY NumberTypes, PointerTypes
<1>9. Sound(c0, f, k) /\ Len(c0.bs) = k + 1 /\ c0.v = tmp_val
  BY <1>3, CreatedSound
<1> HIDE DEF c0
<1>10. Sound(c1, f, k) /\ Len(c1.bs) = k + 2 /\ c1.v = tmp_val
  <2>1. Sound(c1, f, k) /\ Len(c1.bs) = Len(c0.bs) + 1 /\ c1.v = c0.v
    BY <1>9, CreatedSound
  <2> HIDE DEF c1, k
  <2>q. QED
    BY <1>3, <1>9, <2>1
<1> HIDE DEF c1, k
<1>11. Sound(c2, f, k) /\ Len(c2.bs) = k + 2 /\ val.ty = I32
  <2>1. CASE tmp_val.ty = Float
    <3>1. I32 \in Numbers /\ tmp_val.ty # I32
      BY <2>1, ScalarsDiffer DEF Numbers
    <3>q. QED
      BY <1>5, <1>10, <2>1, <3>1, ConvertSound
  <2>2. CASE tmp_val.ty # Float
    BY <1>5, <1>10, <2>2 DEF Numbers
  <2>q. QED
    BY <2>1, <2>2
<1> HIDE DEF c2, val, f, var, base, elem
<1>12. Sound(c3, f, k) /\ Len(c3.bs) = k + 2 /\ c3.v.ty = Bit
  <2>1. Right("icmp_lt0", Bit, <<val>>, f)
    BY <1>11, RightUnary
  <2>q. QED
    BY <1>11, <2>1, GenSound
<1> HIDE DEF c3
<1>13. k + 1 \in 1 .. Len(c3.bs) /\ k + 2 \in 1 .. Len(c3.bs) /\ k + 1 # k + 2 /\ k + 1 > k /\ k + 2 > k
  BY <1>3, <1>12
<1>14. Sound(c3b, f, k) /\ Len(c3b.bs) = k + 2
  BY <1>12, <1>13, CondBrSound
<1> HIDE DEF c3b
<1>15. Sound(c4, f, k) /\ Len(c4.bs) = k + 2
  BY <1>12, <1>13, <1>14, AtSound
<1> HIDE DEF c4
<1>16. Sound(c4b, f, k) /\ Len(c4b.bs) = k + 2
  <2>1. Right("call", Void, <<Find(scope, "neg_idx_except")>>, f)
    BY <1>4, HelperRight
  <2>q. QED
    BY <1>15, <2>1, GenSound
<1> HIDE DEF c4b
<1>17. Sound(c5, f, k) /\ Len(c5.bs) = k + 2
  BY <1>3, <1>16, DefaultRetSound DEF f
<1> HIDE DEF c5
<1>18. Sound(c6, f, k)
  BY <1>12, <1>13, <1>17, AtSound
<1> HIDE DEF c6
<1>19. Sound(ptr, f, k) /\ ptr.v.ty = Ptr(t)
  <2>1. CASE var.ty = Ptr(t) /\ base = t
    <3>1. ptr = plain
      BY <1>8, <2>1
    <3>2. Right("gep", Ptr(t), <<var, val>>, f)
      BY <1>8, <1>11, <2>1, RightGep
    <3>3. Sound(plain, f, k) /\ plain.v.ty = Ptr(t)
      BY <1>18, <2>1, <3>2, GenSound
    <3>q. QED
      BY <3>1, <3>3
  <2>2. CASE var.ty = Ptr(Arr(t)) /\ kind = "arr" /\ elem = Ptr(t)
    <3>1. ptr = viaArr
      BY <2>2
    <3>2. Right("gep", elem, <<var, val>>, f)
      BY <1>8, <1>11, <2>2, RightGep
    <3>3. Sound(viaArr, f, k) /\ viaArr.v.ty = elem
      BY <1>18, <3>2, GenSound
    <3>q. QED
      BY <2>2, <3>1, <3>3
  <2>3. CASE var.ty = Ptr(Ptr(t)) /\ kind = "ptr" /\ base = Ptr(t)
    <3>1. ptr = viaPtr
      BY <2>3
    <3>2. Right("load", base, <<var>>, f)
      BY <2>3, RightUnary
    <3>3. Sound(load, f, k) /\ load.v.ty = base
      BY <1>18, <3>2, GenSound
    <3> HIDE DEF load
    <3>4. Right("gep", load.v.ty, <<load.v, val>>, f)
      BY <1>8, <1>11, <2>3, <3>3, RightGep
    <3>5. Sound(viaPtr, f, k) /\ viaPtr.v.ty = load.v.ty
      BY <3>3, <3>4, GenSound
    <3>q. QED
      BY <2>3, <3>1, <3>3, <3>5
  <2>q. QED
    BY <1>7, <2>1, <2>2, <2>3
<1> HIDE DEF ptr
<1>20. Sound(y, f, k) /\ y.v.ty \in Given(scope, require_lvalue, Task) /\ ValueOk(y.v)
  <2>1. CASE Task.lvalue
    BY <1>6, <1>8, <1>19, <2>1 DEF ValueOk
  <2>2. CASE ~Task.lvalue
    <3> DEFINE l == Gen(ptr, "load", t3, <<ptr.v>>)
    <3>1. t3 = t /\ ptr.v.ty = Ptr(t3)
      BY <1>8, <1>19
    <3> HIDE DEF t3
    <3>2. Right("load", t3, <<ptr.v>>, f)
      BY <3>1, RightUnary
    <3>3. Sound(l, f, k) /\ l.v.ty = t3
      BY <1>19, <3>2, GenSound
    <3>4. y = l
      BY <2>2
    <3> HIDE DEF l, y
    <3>q. QED
      BY <1>6, <2>2, <3>1, <3>3, <3>4 DEF ValueOk
  <2>q. QED
    BY <1>5, <2>1, <2>2
<1> HIDE DEF y
<1>21. RightBlocks(blocks') /\ ValueOk(tmp_val') /\ tmp_val'.ty \in Given(scope, require_lvalue, Task) /\ require_lvalue' = FALSE
  BY <1>1, <1>3, <1>5, <1>20, SoundParts
<1>q. QED
  BY <1>1, <1>2, <1>21, Finish


-----------------------------------------------------------------------------
(* The invariant of the types.                                               *)

LEMMA InitTypeInv == Init => TypeInv
<1> SUFFICES ASSUME Init PROVE TypeInv
  OBVIOUS
<1>1. prog \in Seq(Declaration) /\ todo = [n \in DOMAIN prog |-> Visit(prog[n])]
  BY ProgramsAssumption DEF Init
<1>2. IsSeq(prog) /\ (\A n \in 1 .. Len(prog) : prog[n] \in Declaration) /\ DOMAIN prog = 1 .. Len(prog) /\ Len(prog) \in Nat
  <2>1. IsSeq(prog) /\ \A n \in 1 .. Len(prog) : prog[n] \in Declaration
    BY <1>1, SeqIs
  <2>q. QED
    BY <2>1 DEF IsSeq
<1>3. Len(todo) = Len(prog) /\ IsSeq(todo)
  <2>1. IsSeq(todo)
    BY InitIInv DEF IInv, Tasks
  <2>2. todo = [n \in 1 .. Len(prog) |-> todo[n]]
    BY <1>1, <1>2
  <2>q. QED
    BY <1>2, <2>1, <2>2, FunctionSeq
<1>4. ASSUME NEW n \in 1 .. Len(todo) PROVE Calm(prog, todo[n]) /\ todo[n].do \in DeclKinds
  <2> DEFINE t == todo[n]
  <2>1. n \in DOMAIN prog /\ t = Visit(prog[n]) /\ prog[n] \in Declaration
    BY <1>1, <1>2, <1>3
  <2>2. t.node = prog[n] /\ t.do \in DeclKinds
    BY <2>1 DEF Visit, Declaration, DeclKinds
  <2> HIDE DEF t
  <2>3. Calm(prog, t)
    BY <2>1, <2>2 DEF Calm, DeclKinds, ExpressionTasks, ExpressionKinds, Takers
  <2>q. QED
    BY <2>2, <2>3 DEF t
<1>5. AllCalm(prog, todo)
  BY <1>4 DEF AllCalm
<1>6. TasksTyped(todo, scope, cur_fun.ret, prog, require_lvalue) /\ (todo # <<>> => todo[1].do \notin Takers)
  BY <1>3, <1>5, CalmTyped
<1>7. ValueTyped(todo, tmp_val)
  BY <1>6 DEF ValueTyped, Init
<1>8. ~InFunction(todo)
  BY <1>3, <1>4 DEF InFunction, IsSeq, DeclKinds
<1>9. scope = <<Runtime>> /\ require_lvalue = FALSE /\ blocks = <<>> /\ insert = 0
  BY DEF Init
<1>10. ScopeTyped(scope)
  BY <1>9, RuntimeTyped
<1>11. Len(blocks) = 0
  BY <1>9, EmptyIs
<1>12. RightBlocks(blocks) /\ insert \in 0 .. Len(blocks)
  BY <1>9, <1>11 DEF RightBlocks
<1>q. QED
  BY <1>6, <1>7, <1>8, <1>9, <1>10, <1>12 DEF TypeInv

LEMMA NextTypeInv == IInv /\ IInv' /\ Legal /\ TypeInv /\ [Next]_vars => TypeInv'
<1> SUFFICES ASSUME IInv, IInv', Legal, TypeInv, [Next]_vars PROVE TypeInv'
  OBVIOUS
<1>0. Unique
  BY DEF Legal, Unique
<1>1. CASE VarDeclaration \/ FunDeclaration \/ Parameter \/ EndFunction
  BY <1>0, <1>1, VarDeclarationTypes, FunDeclarationTypes, ParameterTypes, EndFunctionTypes
<1>2. CASE CompoundStmt \/ NextStatement \/ AfterStatement \/ EndCompound \/ ExpressionStmt
  BY <1>2, CompoundTypes, IdleTypes, EndCompoundTypes, ExpressionStmtTypes
<1>3. CASE SelectionStmt \/ SelectionBranch \/ EndIf \/ EndElse
  BY <1>3, QuestionTypes, SelectionTypes, EndIfTypes, EndBranchTypes
<1>4. CASE IterationStmt \/ IterationBranch \/ EndWhile \/ ReturnStmt \/ ReturnValue
  BY <1>0, <1>4, QuestionTypes, IterationTypes, EndBranchTypes, ReturnTypes, ReturnValueTypes
<1>5. CASE Num \/ Var \/ IndexedVar \/ Element \/ AssignExpression \/ AssignTo \/ AssignStore
  BY <1>0, <1>5, NumTypes, VarTypes, IndexedVarTypes, ElementTypes, AssignTypes, AssignToTypes, AssignStoreTypes
<1>6. CASE Binary \/ RightOperand \/ Operate \/ CallExpression \/ NextArg \/ Arg \/ MakeCall
  BY <1>6, BinaryTypes, RightOperandTypes, OperateTypes, CallTypes, NextArgTypes, ArgTypes, MakeCallTypes
<1>7. CASE UNCHANGED vars
  BY <1>7 DEF vars, TypeInv, Task, RightBlocks
<1>q. QED
  BY <1>1, <1>2, <1>3, <1>4, <1>5, <1>6, <1>7 DEF Next

\* Of a legal program, the tasks, the value and the scopes have the types they are waited for with.
THEOREM TypesInvariance == Spec /\ []Legal => []TypeInv
BY InitTypeInv, NextTypeInv, Invariance, PTL DEF Spec

\* Every instruction built for a legal program gets operands of the types it asks for.
THEOREM TypesAgreeing == Spec /\ []Legal => []TypesAgree
<1>1. IInv /\ TypeInv => TypesAgree
  <2> SUFFICES ASSUME IInv, TypeInv PROVE TypesAgree
    OBVIOUS
  <2>1. Graph(blocks)
    BY DEF IInv, BlockInv, Blocks, InBody, Building
  <2>2. /\ DOMAIN blocks = 1 .. Len(blocks)
        /\ \A b \in 1 .. Len(blocks) : DOMAIN Code(b) = 1 .. Len(Code(b))
    BY <2>1 DEF Graph, IsBlocks, IsBlock, IsSeq, Code
  <2>3. ASSUME NEW b \in InUse, NEW n \in DOMAIN Code(b)
        PROVE  RightTypes(Code(b)[n], Signature(prog, blocks[b].fun))
    BY <2>2 DEF TypeInv, RightBlocks, InUse, Code
  <2>q. QED
    BY <2>3 DEF TypesAgree
<1>q. QED
  BY <1>1, TypesInvariance, Invariance, PTL

LEMMA AllTyped ==
  ASSUME NEW t
  PROVE  /\ t \in Numbers \cup Addresses \cup {Void} => Len(t) > 0
         /\ \A v : FunTyped(v) \/ VarTyped(v) => Len(v.ty) > 0
<1>1. ASSUME NEW n \in Numbers
      PROVE  IsSeq(n) /\ Len(n) = 1 /\ Len(Ptr(n)) = 2 /\ IsSeq(Ptr(n)) /\ IsSeq(Arr(n))
  <2>1. IsSeq(n) /\ Len(n) = 1
    BY ScalarTypes DEF Numbers
  <2>2. IsSeq(Ptr(n)) /\ Len(Ptr(n)) = Len(n) + 1 /\ IsSeq(Arr(n))
    BY <2>1, PointerTypes
  <2>q. QED
    BY <2>1, <2>2
<1>2. t \in Numbers \cup Addresses \cup {Void} => Len(t) > 0
  BY <1>1, ScalarTypes DEF Addresses
<1>3. \A p \in Pointees : IsSeq(p)
  BY <1>1 DEF Pointees
<1>4. \A p : IsSeq(p) => Len(Ptr(p)) > 0
  BY PointerTypes DEF IsSeq
<1>5. ASSUME NEW v, VarTyped(v) PROVE Len(v.ty) > 0
  BY <1>3, <1>4, <1>5 DEF VarTyped
<1>6. ASSUME NEW v, FunTyped(v) PROVE Len(v.ty) > 0
  <2>1. Len(<<"fun">>) = 1
    BY UnitSeq
  <2>q. QED
    BY <1>6, <2>1 DEF FunTyped
<1>q. QED
  BY <1>2, <1>5, <1>6

\* Tasks, scopes and blocks have their shapes while a legal program is built.
THEOREM Typing == Spec /\ []Legal => []TypeOK
<1>1. IInv /\ TypeInv => TypeOK
  <2> SUFFICES ASSUME IInv, TypeInv PROVE TypeOK
    OBVIOUS
  <2>1. \A n \in DOMAIN todo : "do" \in DOMAIN todo[n]
    BY DEF IInv, Tasks, IsTask, IsSeq
  <2>2. tmp_val = None \/ Len(tmp_val.ty) > 0
    BY AllTyped DEF TypeInv, ValueTyped
  <2>3. IsSeq(scope) /\ Len(scope) >= 1 /\ DOMAIN scope = 1 .. Len(scope)
    BY ScopeParts, NotEmpty DEF IInv, IsSeq
  <2>4. \A n \in DOMAIN scope : \A id \in DOMAIN scope[n] : Len(scope[n][id].ty) > 0
    BY <2>3, AllTyped DEF TypeInv, ScopeTyped
  <2>5. Graph(blocks)
    BY DEF IInv, BlockInv, Blocks, InBody, Building
  <2>6. DOMAIN blocks = 1 .. Len(blocks)
    BY <2>5 DEF Graph, IsBlocks, IsSeq
  <2>7. ASSUME NEW b \in DOMAIN blocks PROVE Range(blocks[b].pre \o blocks[b].succ) \subseteq DOMAIN blocks
    <3> DEFINE p == blocks[b].pre
               s == blocks[b].succ
               q == p \o s
    <3>1. p \in Seq(Nat) /\ s \in Seq(Nat) /\ Range(p) \cup Range(s) \subseteq 1 .. Len(blocks)
      BY <2>5, <2>6 DEF Graph, IsBlocks, IsBlock, Linked
    <3> HIDE DEF p, s
    <3>2. IsSeq(p) /\ IsSeq(s)
      BY <3>1, SeqIs
    <3>3. /\ IsSeq(q) /\ Len(q) = Len(p) + Len(s)
          /\ \A n \in 1 .. Len(p) : q[n] = p[n]
          /\ \A n \in 1 .. Len(s) : q[Len(p) + n] = s[n]
      BY <3>2, ConcatSeq
    <3> HIDE DEF q
    <3>4. /\ DOMAIN q = 1 .. Len(q) /\ DOMAIN p = 1 .. Len(p) /\ DOMAIN s = 1 .. Len(s)
          /\ Len(p) \in Nat /\ Len(s) \in Nat
      BY <3>2, <3>3 DEF IsSeq
    <3>5. ASSUME NEW n \in DOMAIN q PROVE q[n] \in 1 .. Len(blocks)
      <4>1. CASE n <= Len(p)
        <5>1. n \in DOMAIN p /\ q[n] = p[n]
          BY <3>3, <3>4, <4>1
        <5>q. QED
          BY <3>1, <5>1 DEF Range
      <4>2. CASE n > Len(p)
        <5>1. n - Len(p) \in DOMAIN s /\ Len(p) + (n - Len(p)) = n
          BY <3>3, <3>4, <4>2
        <5>2. q[n] = s[n - Len(p)]
          BY <3>3, <3>4, <5>1
        <5>q. QED
          BY <3>1, <5>1, <5>2 DEF Range
      <4>q. QED
        BY <3>3, <3>4, <4>1, <4>2
    <3>q. QED
      BY <2>6, <3>5 DEF Range, p, s, q
  <2>8. require_lvalue \in BOOLEAN /\ insert \in 0 .. Len(blocks)
    BY DEF IInv, ScopeInv, TypeInv
  <2>q. QED
    BY <2>1, <2>2, <2>3, <2>4, <2>7, <2>8 DEF TypeOK
<1>q. QED
  BY <1>1, TypesInvariance, Invariance, PTL

=============================================================================
