------------------------------- MODULE MCTCC -------------------------------
(***************************************************************************)
(* The sources TCC is run on: all expressions of two operators over some   *)
(* operands, and programs that meet every statement and every limit of the *)
(* compiler.                                                               *)
(***************************************************************************)
EXTENDS TCC

x == <<"x">>
y == <<"y">>
z == <<"x", "y">>
long == <<"x", "y", "x">>
N(n) == <<Num(n)>>
V(name) == <<Id(name)>>
O(op) == <<Token(op)>>
Neg(n) == <<Token("-"), Num(n)>>
Show(e) == PrintStmt(<<"%", "d">>, <<e>>)
Say(c) == PrintStmt(<<c>>, <<>>)

(* x op y op n, x op (y op n), and the unary operators *)
Arithmetic == {"+", "-", "*", "/", "%", "<<", ">>", "<", ">", "<=", ">=", "==", "!="}
Operands == {<<N(100), N(7), 2>>, <<Neg(100), N(3), 3>>, <<N(5), Neg(1), 0>>}
Expression(v, e) == <<Assign(x, "=", v[1]), Assign(y, "=", v[2]), Assign(z, "=", e), Show(V(z)), Show(V(x))>>
Chains == {Expression(v, V(x) \o O(f) \o V(y) \o O(g) \o N(v[3])) : v \in Operands, f \in Arithmetic, g \in Arithmetic}
Nested == {Expression(v, V(x) \o O(f) \o Wrapped("(", V(y) \o O(g) \o N(v[3]), ")")) :
              v \in Operands, f \in Arithmetic, g \in Arithmetic}
Unary == {Expression(v, O(f) \o V(x) \o O(g) \o O(h) \o V(y)) :
              v \in Operands, f \in {"-", "!", "~", "++", "--", "+"}, g \in {"-", "*", "<"}, h \in {"-", "!", "~"}}
Steps == {Expression(v, V(x) \o O(f) \o O(g) \o V(y)) : v \in Operands, f \in {"++", "--"}, g \in {"+", "-", "<", "/"}}
Expressions == Chains \cup Nested \cup Unary \cup Steps

Loop == While(V(x) \o O("<") \o N(3), <<Show(V(x)), Assign(x, "+=", N(1))>>)
Count(step) == For(Assign(x, "=", N(0)), V(x) \o O("<") \o N(2), step, <<Show(V(x)), Block(<<Say("a")>>)>>)
Let(n) == Decl("int", x, N(n))

Statements == {
    <<>>,
    <<Return(N(4))>>,
    <<Let(1), Loop, Say("b"), Return(N(2))>>,
    <<Let(9), Loop, Say("b")>>,
    <<Count(StepStmt(x, "++")), Say("b")>>,
    <<If(O("!") \o N(0), <<Say("b")>>, <<>>), Count(StepStmt(x, "++"))>>,
    <<PrintStmt(<<"%", "s", "a">>, <<<<Str(<<>>)>>>>)>>,
    <<Count(Assign(x, "=", V(x) \o O("+") \o N(1))), Show(V(x))>>,
    <<Let(5), Decl("int", y, V(x)), If(V(x) \o O("==") \o V(y), <<Say("a")>>, <<>>), Say("b")>>,
    <<Let(5), If(V(x) \o O(">") \o N(6), <<Say("a")>>, <<>>), If(O("!") \o N(0), <<Say("b")>>, <<>>), Say("a")>>,
    <<Let(7), Assign(x, "-=", N(2)), Assign(x, "*=", N(3)), Assign(x, "/=", N(4)), Show(V(x)), Assign(x, "%=", N(2)), Show(V(x))>>,
    <<Let(6), Assign(y, "=", O("&") \o V(x)), Assign(z, "=", O("*") \o V(y)), Show(V(z))>>,
    <<Let(3), PrintStmt(<<"a", "%", "x", "%", "c">>, <<V(x), N(1)>>), PrintStmt(<<"%", "%", "b">>, <<>>)>>,
    <<PrintStmt(<<"%", "s", "NL">>, <<<<Str(<<"a", "\"">>)>>>>), Exit(N(6)), Say("b")>>,
    <<Assign(x, "=", <<Id(PidName), Token("("), Token(")")>>), Show(V(x)), Do(PidName, <<>>), Do(MallocName, N(4))>>,
    <<Do(AsmName, <<Str(<<"n", "o">>)>>), Say("a")>>,
    <<Let(4), For(Skip, <<>>, Skip, <<Say("a"), Exit(N(1))>>)>>,
    <<Let(1), Assign(x, "=", V(x) \o O("/") \o N(0)), Say("a")>>,
    <<Let(1), Decl("int", y, N(2)), Decl("char", z, N(1)), For(Assign(z, "=", N(0)), V(z) \o O("<") \o N(1), StepStmt(z, "++"), <<Say("a")>>), Assign(x, "=", V(z) \o O("++")), Show(V(x))>>,
    <<Decl("char", x, N(1)), For(Assign(x, "=", N(0)), V(x) \o O("<") \o N(1), StepStmt(x, "++"), <<Say("a")>>), Show(N(1))>>,
    <<Let(2), For(Skip, V(x), StepStmt(x, "--"), <<Show(V(x))>>)>> }

(* Sources the compiler handles differently from C, or that meet its limits. *)
Differing == {
    <<Let(0), If(V(x), <<Say("a")>>, <<Say("b")>>)>>,
    <<Let(0), If(V(x), <<Say("a")>>, <<If(N(1), <<Say("b")>>, <<Say("a")>>)>>)>>,
    <<Let(0), While(V(x) \o O("<") \o N(2), <<If(V(x), <<Say("a")>>, <<>>), Assign(x, "+=", N(1))>>)>>,
    <<Let(0), Bare(V(x), <<Say("a")>>), Say("b")>>,
    <<Let(0), If(V(x), <<Say("a")>>, <<>>), For(Skip, <<>>, Skip, <<Exit(N(1))>>)>>,
    <<Let(1), If(V(x) \o O("&&") \o N(1), <<Say("a")>>, <<>>)>>,
    <<Let(1), Assign(x, "=", V(x) \o O("||") \o N(0)), Show(V(x))>>,
    <<Let(6), Assign(x, "=", V(x) \o O("&") \o N(3)), Show(V(x))>>,
    <<Let(6), Assign(x, "=", V(x) \o O("|") \o N(1)), Show(V(x))>>,
    <<Let(6), StepStmt(x, "++"), Show(V(x))>>,
    <<Let(1), If(V(x), <<Return(N(1))>>, <<>>), Say("a"), Return(N(0))>>,
    <<Let(5), Return(V(x))>>,
    <<Decl("int", x, Neg(1)), Show(V(x))>>,
    <<Let(1), Block(<<Decl("int", x, N(2)), Show(V(x))>>), Show(V(x))>>,
    <<Decl("char", x, N(1)), Decl("char", y, N(1)), Decl("int", z, N(9)), Assign(x, "=", V(x) \o O("+") \o V(y)), Show(V(z))>>,
    <<Decl("char", x, N(1)), Assign(x, "+=", N(1)), Show(V(x))>>,
    <<Decl("int", long, N(1)), Assign(long, "=", N(2)), Show(N(1))>>,
    <<Assign(x, "=", N(1) \o O("+") \o V(y)), Show(V(x))>>,
    <<Assign(x, "=", N(1) \o O("+") \o <<Id(PidName), Token("("), Num(2), Token(","), Num(3), Token(")")>>), Show(V(x))>>,
    <<Assign(x, "=", N(1) \o O("+") \o <<Id(PidName), Token("("), Num(2), Token(","), Num(3), Token(","), Num(4), Token(")")>>)>>,
    <<Assign(x, "=", <<Id(MallocName), Token("("), Num(2), Token(")")>>), Do(MallocName, V(x))>>,
    <<Let(1), For(Decl("int", y, N(0)), V(y) \o O("<") \o N(2), StepStmt(y, "++"), <<Show(V(x))>>)>>,
    <<Count(Assign(x, "+=", N(1)))>>,
    <<For(Assign(x, "=", N(0)), Wrapped("(", V(x) \o O("<") \o N(1), ")"), StepStmt(x, "++"), <<Say("a")>>)>>,
    <<Let(1), Show(V(x) \o O("+") \o N(1))>>,
    <<PrintStmt(<<"a", "%", "u", "b">>, <<N(1)>>)>>,
    <<Do(AsmName, <<Str(SysCallText)>>)>>,
    <<Assign(x, "=", N(135)), Show(V(x))>>,
    <<PrintStmt(<<"a", "b", "a", "b", "a", "b", "a">>, <<>>)>>,
    <<Say("a"), Say("b"), Say("a"), Say("b"), Say("a"), Say("b")>>,
    <<PrintStmt(<<"a", "b", "a", "b", "a", "b">>, <<>>), PrintStmt(<<"a", "b", "a", "b", "a", "b">>, <<>>)>> }
    \cup {<<Let(1), Decl("int", y, V(x)), Assign(z, "=", V(y)), Decl("int", <<"y", "x">>, N(2)), Decl("int", <<"y", "y">>, N(2))>>}

(* As long as the code buffer and the tokens allow, and longer. *)
Three == PrintStmt(<<"%", "d", "%", "d", "%", "d">>, <<N(1), N(2), N(3)>>)
OnesTo(n) == [k \in 1 .. 2 * n - 1 |-> IF k % 2 = 1 THEN Num(1) ELSE Token("+")]
Long == {<<Do(MallocName, OnesTo(n))>> : n \in 49 .. 51} \cup {[k \in 1 .. n |-> Three] : n \in 4 .. 9}

MCSources == [stmts : Expressions, layout : {"tight"}]
             \cup [stmts : Statements \cup Differing, layout : {"spaced", "tight", "comments"}]
             \cup [stmts : Long, layout : {"spaced"}]

=============================================================================
