------------------------------ MODULE CSource ------------------------------
(***************************************************************************)
(* The C sources given to the in-kernel compiler: what they say, token by  *)
(* token and character by character, and what they mean.  This is the C    *)
(* language as far as the compiler's programs use it, the reference its    *)
(* output is compared with; it is defined over the structure of a          *)
(* statement and over whole expressions, not by reading tokens in order.   *)
(***************************************************************************)
EXTENDS TCCExpr

(***************************************************************************)
(* Statements: the kind, an operator or type, a name or text, an           *)
(* expression, more expressions, and two bodies.                           *)
(***************************************************************************)
S(k, o, x, e, g, a, b) == [k |-> k, o |-> o, x |-> x, e |-> e, g |-> g, a |-> a, b |-> b]
Decl(type, x, e) == S("decl", type, x, e, <<>>, <<>>, <<>>)
Assign(x, op, e) == S("assign", op, x, e, <<>>, <<>>, <<>>)
StepStmt(x, op) == S("step", op, x, <<>>, <<>>, <<>>, <<>>)
If(e, a, b) == S("if", "", <<>>, e, <<>>, a, b)
Bare(e, a) == S("bare", "", <<>>, e, <<>>, a, <<>>)          \* an if without braces
While(e, a) == S("while", "", <<>>, e, <<>>, a, <<>>)
For(init, e, step, a) == S("for", "", <<>>, e, <<>>, a, <<init, step>>)
Block(a) == S("block", "", <<>>, <<>>, <<>>, a, <<>>)
PrintStmt(fmt, args) == S("print", "", fmt, <<>>, args, <<>>, <<>>)
Exit(e) == S("exit", "", <<>>, e, <<>>, <<>>, <<>>)
Return(e) == S("return", "", <<>>, e, <<>>, <<>>, <<>>)
Do(name, e) == S("call", "", name, e, <<>>, <<>>, <<>>)     \* a call whose value is not used
Skip == S("skip", "", <<>>, <<>>, <<>>, <<>>, <<>>)

Letters(a, b, c) == <<a, b, c>>
AsmName == <<"a", "s", "m">>
MallocName == <<"m", "a", "l", "l", "o", "c">>
PidName == <<"g", "e", "t", "p", "i", "d">>
PrintName == <<"p", "r", "i", "n", "t">>
ExitName == <<"e", "x", "i", "t">>
SysCallText == <<"i", "n", "t">>
Percent == 1      \* the code of a percent sign
Pid == 3          \* what getpid returns

(***************************************************************************)
(* The tokens of a source, and its text.                                   *)
(***************************************************************************)
Wrapped(open, toks, close) == <<Token(open)>> \o toks \o <<Token(close)>>
JoinArgs(args) == FoldLeft(LAMBDA acc, e : acc \o <<Token(",")>> \o e, <<>>, args)
RECURSIVE StmtTokens(_), BodyTokens(_)
BodyTokens(stmts) == FoldLeft(LAMBDA acc, s : acc \o StmtTokens(s), <<>>, stmts)
Clause(s) == IF s.k = "skip" THEN <<>> ELSE Front(StmtTokens(s))
StmtTokens(s) ==
    LET semi == <<Token(";")>>
        body == Wrapped("{", BodyTokens(s.a), "}")
        test == Wrapped("(", s.e, ")")
    IN CASE s.k = "decl" -> <<Token(s.o), Id(s.x)>> \o (IF s.e = <<>> THEN <<>> ELSE <<Token("=")>> \o s.e) \o semi
         [] s.k = "assign" -> <<Id(s.x), Token(s.o)>> \o s.e \o semi
         [] s.k = "step" -> <<Id(s.x), Token(s.o)>> \o semi
         [] s.k = "if" -> <<Token("if")>> \o test \o body
                              \o (IF s.b = <<>> THEN <<>>
                                  ELSE IF s.b[1].k = "if" THEN <<Token("else")>> \o StmtTokens(s.b[1])
                                  ELSE <<Token("else")>> \o Wrapped("{", BodyTokens(s.b), "}"))
         [] s.k = "bare" -> <<Token("if")>> \o test \o BodyTokens(s.a)
         [] s.k = "while" -> <<Token("while")>> \o test \o body
         [] s.k = "for" -> <<Token("for")>> \o Wrapped("(", Clause(s.b[1]) \o semi \o s.e \o semi \o Clause(s.b[2]), ")") \o body
         [] s.k = "block" -> body
         [] s.k = "print" -> <<Id(PrintName)>> \o Wrapped("(", <<Str(s.x)>> \o JoinArgs(s.g), ")") \o semi
         [] s.k = "exit" -> <<Id(ExitName)>> \o test \o semi
         [] s.k = "return" -> <<Token("return")>> \o s.e \o semi
         [] s.k = "call" -> <<Id(s.x)>> \o test \o semi
         [] s.k = "skip" -> semi
SourceTokens(stmts) ==
    <<Token("int"), Id(Letters("m", "a", "i")), Token("("), Token(")")>> \o Wrapped("{", BodyTokens(stmts), "}")

Digits(n) == IF n < 10 THEN <<ToString(n)>>
             ELSE IF n < 100 THEN <<ToString(n \div 10), ToString(n % 10)>>
             ELSE <<ToString(n \div 100), ToString((n \div 10) % 10), ToString(n % 10)>>
OpChars(t) == IF t \in OneCharOps \cup {"|"} THEN <<t>>
              ELSE LET cs == CHOOSE cs \in (OneCharOps \cup {"|"}) \X (OneCharOps \cup {"|"}) : cs[1] \o cs[2] = t IN cs
Quoted(c) == CASE c = "NL" -> <<"\\", "n">> [] c = "\"" -> <<"\\", "\"">> [] OTHER -> <<c>>
Spelling(tok) ==
    CASE tok.t = "num" -> Digits(tok.n)
      [] tok.t = "id" -> tok.id
      [] tok.t = "str" -> <<"\"">> \o FoldLeft(LAMBDA acc, c : acc \o Quoted(c), <<>>, tok.id) \o <<"\"">>
      [] tok.t \in DOMAIN Keywords -> Keywords[tok.t]
      [] OTHER -> OpChars(tok.t)
(* Two tokens that would be read as something else without a blank between them. *)
Merge(a, b) ==
    LET c == Last(Spelling(a))
        d == Head(Spelling(b))
        word == Alpha \cup Digit
    IN (c \in word /\ d \in word /\ a.t # "str") \/ (c \o d) \in TwoCharOps \cup {"//", "/*"}
Gap(layout, a, b) ==
    CASE layout = "spaced" -> <<" ">>
      [] layout = "tight" -> IF Merge(a, b) THEN <<"NL">> ELSE <<>>
      [] layout = "comments" -> IF b.t = ";" THEN <<"/", "*", "*", ";", "*", "/">>
                                  ELSE IF a.t \in {";", "{", "("} THEN <<" ", "/", "/", "x", "NL">>
                                  ELSE <<"TAB">>
RECURSIVE Between(_, _, _, _)
Between(toks, layout, j, k) ==
    IF j = k THEN (IF j = 1 THEN <<>> ELSE Gap(layout, toks[j - 1], toks[j])) \o Spelling(toks[j])
    ELSE Between(toks, layout, j, (j + k) \div 2) \o Between(toks, layout, (j + k) \div 2 + 1, k)
Text(toks, layout) == Between(toks, layout, 1, Len(toks))

(***************************************************************************)
(* What a source means.  The machine m has the variables, what has been    *)
(* printed, whether it is running, and the exit code.                      *)
(***************************************************************************)
Levels == <<{"||"}, {"&&"}, {"|"}, {"&"}, {"==", "!="}, {"<", ">", "<=", ">="}, {"<<", ">>"}, {"+", "-"}, {"*", "/", "%"}>>
DepthAt(ts, k) == Cardinality({j \in 1 .. k : ts[j].t = "("}) - Cardinality({j \in 1 .. k : ts[j].t = ")"})
EndsOperand(ts, k) == k > 0 /\ (ts[k].t \in {"num", "id", ")"} \/ (ts[k].t \in {"++", "--"} /\ k > 1 /\ ts[k - 1].t = "id"))
Binary(ts, level) == {k \in 2 .. Len(ts) : ts[k].t \in Levels[level] /\ DepthAt(ts, k) = 0 /\ EndsOperand(ts, k - 1)}
Loosest(ts) == {l \in 1 .. Len(Levels) : Binary(ts, l) # {}}
LastOf(T) == CHOOSE k \in T : \A j \in T : j <= k
Truth(b) == IF b THEN 1 ELSE 0
Quotient(a, b) == LET q == (IF a < 0 THEN -a ELSE a) \div (IF b < 0 THEN -b ELSE b) IN IF (a < 0) = (b < 0) THEN q ELSE -q
Undefined(op, a, b) == op \in {"/", "%"} /\ (b = 0 \/ (a = -Half /\ b = -1))
Bits == CHOOSE n \in 1 .. 32 : 2 ^ n = Word
Value(op, a, b) ==
    CASE op = "+" -> Signed(a + b)
      [] op = "-" -> Signed(a - b)
      [] op = "*" -> Signed(a * b)
      [] op = "/" -> Quotient(a, b)
      [] op = "%" -> a - b * Quotient(a, b)
      [] op = "<<" -> Signed(a * 2 ^ (b % Bits))
      [] op = ">>" -> a \div 2 ^ (b % Bits)
      [] op = "<" -> Truth(a < b)
      [] op = ">" -> Truth(a > b)
      [] op = "<=" -> Truth(a <= b)
      [] op = ">=" -> Truth(a >= b)
      [] op = "==" -> Truth(a = b)
      [] op = "!=" -> Truth(a # b)
      [] op = "-u" -> Signed(-b)
      [] op = "~" -> -b - 1
      [] op = "!" -> Truth(b = 0)
      [] OTHER -> b

(* What is printed: text, numbers, which SYS_PRINT_HEX gives a 0x in front, and single characters. *)
Char(v) == [k |-> "char", c |-> "", v |-> v]
Printed(c) == [k |-> "text", c |-> c, v |-> 0]
PrintedInt(v) == [k |-> "int", c |-> "", v |-> v]
PrintedHex(v) == [k |-> "hex", c |-> "", v |-> v % Word]
Start == [env |-> <<>>, types |-> <<>>, names |-> <<>>, out |-> <<>>, v |-> 0, st |-> "running", exit |-> 0]
(* Assigning converts to the variable's type; the compiler's dialect lets an assignment declare an int. *)
Bind(m, x, v) ==
    LET w == IF x \in DOMAIN m.types /\ m.types[x] = "char" THEN SignedByte(v) ELSE v
    IN [m EXCEPT !.env = (x :> w) @@ @, !.v = w, !.names = IF x \in Range(@) THEN @ ELSE Append(@, x)]
With(m, v) == [m EXCEPT !.v = v]
Trap(m) == [m EXCEPT !.st = "trapped"]

RECURSIVE Eval(_, _)
Both(op, left, m2) ==
    IF m2.st # "running" \/ Undefined(op, left, m2.v) THEN Trap(m2) ELSE With(m2, Value(op, left, m2.v))
Split(ts, m) ==
    LET l == First(Loosest(ts))
        k == LastOf(Binary(ts, l))
        op == ts[k].t
        m1 == Eval(SubSeq(ts, 1, k - 1), m)
        m2 == Eval(SubSeq(ts, k + 1, Len(ts)), m1)
    IN IF m1.st # "running" THEN m1 ELSE
       CASE op = "&&" -> IF m1.v = 0 THEN With(m1, 0) ELSE With(m2, Truth(m2.v # 0))
         [] op = "||" -> IF m1.v # 0 THEN With(m1, 1) ELSE With(m2, Truth(m2.v # 0))
         [] OTHER -> Both(op, m1.v, m2)
OneMore(op) == IF op = "++" THEN 1 ELSE -1
(* An expression: the loosest operator furthest to the right divides it, else it is a prefix or primary. *)
Eval(ts, m) ==
    LET t == ts[1].t
        rest == Tail(ts)
        sub == Eval(rest, m)
    IN IF Loosest(ts) # {} THEN Split(ts, m) ELSE
       CASE t = "num" -> With(m, Signed(ts[1].n))
         [] t = "id" ->
                IF rest = <<>> THEN With(m, m.env[ts[1].id])
                ELSE IF rest[1].t \in {"++", "--"}
                THEN With(Bind(m, ts[1].id, Signed(m.env[ts[1].id] + OneMore(rest[1].t))), m.env[ts[1].id])
                ELSE With(m, Pid)
         [] t = "(" -> Eval(SubSeq(ts, 2, Len(ts) - 1), m)
         [] t \in {"++", "--"} -> Bind(m, rest[1].id, Signed(m.env[rest[1].id] + OneMore(t)))
         [] t = "&" -> With(m, Word + CHOOSE k \in 1 .. Len(m.names) : m.names[k] = rest[1].id)
         [] t = "*" -> With(sub, sub.env[sub.names[sub.v - Word]])
         [] OTHER -> IF sub.st # "running" THEN sub ELSE With(sub, Value(IF t = "-" THEN "-u" ELSE t, 0, sub.v))

RECURSIVE Formatted(_, _, _)
Formatted(fmt, args, m) ==
    LET v == Eval(args[1], m).v
        Rest(items, more) == Formatted(SubSeq(fmt, 3, Len(fmt)), more, [m EXCEPT !.out = @ \o items])
    IN IF fmt = <<>> THEN m
       ELSE IF Len(fmt) = 1 \/ fmt[1] # "%" THEN Formatted(Tail(fmt), args, [m EXCEPT !.out = Append(@, Printed(fmt[1]))])
       ELSE
       CASE fmt[2] = "%" -> Rest(<<Char(Percent)>>, args)
         [] fmt[2] \in {"d", "i"} -> Rest(<<PrintedInt(v)>>, Tail(args))
         [] fmt[2] = "x" -> Rest(<<PrintedHex(v)>>, Tail(args))
         [] fmt[2] = "c" -> Rest(<<Char(SignedByte(v))>>, Tail(args))
         [] fmt[2] = "s" -> Rest([k \in 1 .. Len(args[1][1].id) |-> Printed(args[1][1].id[k])], Tail(args))
         [] OTHER -> Formatted(Tail(fmt), args, [m EXCEPT !.out = Append(@, Printed(fmt[1]))])

RECURSIVE Exec(_, _), ExecAll(_, _)
ExecAll(stmts, m) == FoldLeft(LAMBDA n, s : Exec(s, n), m, stmts)
(* A block's own variables are forgotten at its end. *)
ExecBlock(stmts, m) ==
    LET own == {stmts[k].x : k \in {j \in 1 .. Len(stmts) : stmts[j].k = "decl"}}
        n == ExecAll(stmts, m)
    IN [n EXCEPT !.env = [x \in DOMAIN @ \ (own \ DOMAIN m.env) |-> IF x \in own THEN m.env[x] ELSE @[x]]]
Exec(s, m) ==
    LET test == Eval(s.e, m)
        old == m.env[s.x]
        op == CASE s.o = "+=" -> "+" [] s.o = "-=" -> "-" [] s.o = "*=" -> "*" [] s.o = "/=" -> "/" [] s.o = "%=" -> "%"
        both == Both(op, old, test)
        typed == [m EXCEPT !.types = (s.x :> s.o) @@ @]
        init == Exec(s.b[1], m)
        for == While(IF s.e = <<>> THEN <<Num(1)>> ELSE s.e, Append(s.a, s.b[2]))
    IN IF m.st # "running" \/ s.k = "skip" THEN m ELSE
       CASE s.k = "decl" -> IF s.e = <<>> THEN typed ELSE Bind(typed, s.x, test.v)
         [] s.k = "assign" /\ s.o = "=" -> IF test.st = "running" THEN Bind(test, s.x, test.v) ELSE test
         [] s.k = "assign" /\ s.o # "=" -> IF both.st = "running" THEN Bind(both, s.x, both.v) ELSE both
         [] s.k = "step" -> Bind(m, s.x, Signed(old + OneMore(s.o)))
         [] s.k \in {"if", "bare"} -> IF test.st # "running" THEN test
                                      ELSE ExecBlock(IF test.v # 0 THEN s.a ELSE s.b, test)
         [] s.k = "while" -> IF test.st # "running" \/ test.v = 0 THEN test
                             ELSE Exec(s, ExecBlock(s.a, test))
         [] s.k = "for" -> Exec(for, init)
         [] s.k = "block" -> ExecBlock(s.a, m)
         [] s.k = "print" -> Formatted(s.x, s.g, m)
         [] s.k \in {"exit", "return"} -> IF s.e = <<>> THEN [m EXCEPT !.st = "exited"]
                                          ELSE IF test.st # "running" THEN test
                                          ELSE [test EXCEPT !.st = "exited", !.exit = test.v]
         [] s.k = "call" -> m
(* The end of main is a return of 0. *)
Means(stmts) == LET m == ExecAll(stmts, Start) IN IF m.st = "running" THEN [m EXCEPT !.st = "exited"] ELSE m

=============================================================================
