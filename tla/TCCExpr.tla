------------------------------ MODULE TCCExpr ------------------------------
(***************************************************************************)
(* The tokenizer, the symbol table and the expression parser of the        *)
(* in-kernel C compiler (src/src/bin/tcc.c, symtab.c, expr.c).  A source   *)
(* text is a sequence of characters.  The parser works on a record p:      *)
(*   toks, i   the tokens and the next one to read                         *)
(*   ok        no parser on the way has returned -1                        *)
(*   code      the instructions emitted, each at its byte position         *)
(*   sym       the symbol table, in the order of its slots                 *)
(*   odd       the hazards met, for the properties                         *)
(* next to the fields of module TCC.  Machine words are four bytes of      *)
(* Radix values (256 in the code), so that all of them can be tried.       *)
(***************************************************************************)
EXTENDS Integers, SequencesExt

CONSTANTS Radix,      \* the values of a byte
          MaxTokens,  \* the 1024 tokens of tcc_compile_string
          StrMax,     \* the characters of a literal, str_val[1024]
          IdentMax,   \* the characters of an identifier, ident[256]
          NameMax,    \* SYM_NAME_MAX - 1
          SymMax,     \* SYM_TABLE_SIZE
          Disp8,      \* 128: the offsets of the short addressing form
          MaxFuncs,   \* MAX_FUNCS
          MaxRelocs,  \* MAX_RELOCS
          MaxArgs     \* MAX_FUNC_ARGS

Word == Radix * Radix * Radix * Radix
Half == Word \div 2
Signed(v) == ((v + Half) % Word) - Half
SignedByte(v) == ((v + Radix \div 2) % Radix) - (Radix \div 2)
Upper(a, b) == IF a < b THEN b ELSE a

(***************************************************************************)
(* The tokenizer.                                                          *)
(***************************************************************************)
Token(t) == [t |-> t, id |-> <<>>, n |-> 0]
Num(n) == [Token("num") EXCEPT !.n = n]
Id(name) == [Token("id") EXCEPT !.id = name]
Str(text) == [Token("str") EXCEPT !.id = text]
EndOfFile == Token("eof")

Blank == {" ", "TAB", "NL", "CR"}
Digit == {"0", "1", "2", "3", "4", "5", "6", "7", "8", "9"}
Alpha == {"a", "b", "c", "d", "e", "f", "g", "h", "i", "l", "m", "n", "o", "p", "r", "s", "t",
          "u", "v", "w", "x", "y"}
DigitValue == [c \in Digit |-> CHOOSE n \in 0 .. 9 : ToString(n) = c]
Keywords == [int |-> <<"i", "n", "t">>, char |-> <<"c", "h", "a", "r">>, void |-> <<"v", "o", "i", "d">>,
             return |-> <<"r", "e", "t", "u", "r", "n">>, if |-> <<"i", "f">>, else |-> <<"e", "l", "s", "e">>,
             while |-> <<"w", "h", "i", "l", "e">>, for |-> <<"f", "o", "r">>]
OneCharOps == {"+", "-", "*", "/", "%", "=", "!", "<", ">", ";", ",", "(", ")", "{", "}", "[", "]", "&", "~"}
TwoCharOps == {"++", "+=", "--", "-=", "*=", "/=", "%=", "==", "!=", "<<", "<=", ">>", ">=", "&&", "||"}

CharAt(src, p) == IF p <= Len(src) THEN src[p] ELSE "NUL"
First(S) == CHOOSE q \in S : \A r \in S : q <= r
(* The first position from p on whose character is not of the class. *)
SkipClass(src, p, class) == First({q \in p .. Len(src) + 1 : CharAt(src, q) \notin class})
(* Where a comment that starts at p ends: a line's at its newline, the other after its mark. *)
AfterComment(src, p) ==
    IF CharAt(src, p + 1) = "/"
    THEN First({q \in p .. Len(src) + 1 : CharAt(src, q) \in {"NL", "NUL"}})
    ELSE LET q == First({r \in p + 2 .. Upper(p + 2, Len(src) + 1) :
                            r > Len(src) \/ (CharAt(src, r) = "*" /\ CharAt(src, r + 1) = "/")})
         IN IF q > Len(src) THEN q ELSE q + 2

(* The value of a number: digits are dropped once a further one could overflow. *)
AddDigit(v, c) == IF v > (Half - 1) \div 10 THEN v ELSE Signed(v * 10 + DigitValue[c])
NumberValue(digits) == FoldLeft(AddDigit, 0, digits)
lookup_keyword(name) ==
    IF \E k \in DOMAIN Keywords : Keywords[k] = name
    THEN Token(CHOOSE k \in DOMAIN Keywords : Keywords[k] = name)
    ELSE Id(name)

Escape(c) == CASE c = "n" -> "NL" [] c = "t" -> "TAB" [] c = "r" -> "CR" [] OTHER -> c
RECURSIVE Literal(_, _, _)
(* The characters of a string literal from p on and where it ends; a literal that is too long ends early. *)
Literal(src, p, text) ==
    LET c == CharAt(src, p) IN
    IF c \in {"\"", "NUL"} \/ Len(text) >= StrMax
    THEN [text |-> text, next |-> IF c = "\"" THEN p + 1 ELSE p]
    ELSE IF c = "\\" /\ CharAt(src, p + 1) # "NUL"
    THEN Literal(src, p + 2, Append(text, Escape(src[p + 1])))
    ELSE Literal(src, p + 1, Append(text, c))

(* The token that starts at p and the position behind it; "none" is a comment, "error" is dropped. *)
LexOne(src, p) ==
    LET c == CharAt(src, p)
        two == c \o CharAt(src, p + 1)
        Found(tok, next) == [tok |-> tok, next |-> next]
    IN IF two \in {"//", "/*"} THEN Found(Token("none"), AfterComment(src, p))
       ELSE IF two \in TwoCharOps THEN Found(Token(two), p + 2)
       ELSE
       CASE c \in OneCharOps -> Found(Token(c), p + 1)
         [] c \in Digit -> LET q == SkipClass(src, p, Digit)
                           IN Found(Num(NumberValue(SubSeq(src, p, q - 1))), q)
         [] c = "\"" -> LET l == Literal(src, p + 1, <<>>) IN Found(Str(l.text), l.next)
         [] c \in Alpha -> LET q == SkipClass(src, p, Alpha \cup Digit)
                               last == IF q - p > IdentMax THEN p + IdentMax ELSE q
                           IN Found(lookup_keyword(SubSeq(src, p, last - 1)), q)
         [] OTHER -> Found(Token("error"), p + 1)

RECURSIVE LexFrom(_, _, _)
LexFrom(src, p, toks) ==
    LET q == SkipClass(src, p, Blank) IN
    IF q > Len(src) \/ Len(toks) >= MaxTokens THEN toks
    ELSE LET r == LexOne(src, q)
         IN LexFrom(src, r.next, IF r.tok.t \in {"none", "error"} THEN toks ELSE Append(toks, r.tok))

(* The end mark is stored only where there is room for it. *)
EndMark(toks) == IF Len(toks) < MaxTokens THEN Append(toks, EndOfFile) ELSE toks
tokenize_c_code(src) == EndMark(LexFrom(src, 1, <<>>))

(* The token k places ahead; behind the tokens the memory holds anything. *)
TokAt(p, q) == IF q <= Len(p.toks) THEN p.toks[q] ELSE Token("unknown")
Ahead(p, k) == TokAt(p, p.i + k)
Odd(p, hazards) == [p EXCEPT !.odd = @ \cup hazards]
OddIf(p, cond, hazard) == IF cond THEN Odd(p, {hazard}) ELSE p

(***************************************************************************)
(* The symbol table.  All variables are added at scope level 1 and no      *)
(* scope is ever left; a lookup takes the last entry with the name.        *)
(***************************************************************************)
sym_type_size(type) == IF type = "char" THEN 1 ELSE 4
symtab_add(sym, name, type, offset) ==
    IF (\E k \in 1 .. Len(sym) : sym[k].name = name) \/ Len(sym) >= SymMax THEN sym
    ELSE Append(sym, [name |-> IF Len(name) > NameMax THEN SubSeq(name, 1, NameMax) ELSE name,
                      type |-> type, offset |-> offset])
Known(sym, name) == \E k \in 1 .. Len(sym) : sym[k].name = name
symtab_lookup(sym, name) ==
    sym[CHOOSE k \in 1 .. Len(sym) : sym[k].name = name /\ \A j \in k + 1 .. Len(sym) : sym[j].name # name]
(***************************************************************************)
(* The instructions: mnemonic, operand, length in bytes.                   *)
(***************************************************************************)
I(op, arg, len) == [op |-> op, arg |-> arg, len |-> len]
Near(offset) == offset >= -Disp8 /\ offset < Disp8
Framed(op, offset, len) == I(op, offset, IF Near(offset) THEN len ELSE len + 3)
MovEax(n) == I("mov eax,n", n, 5)
MovEbx(n) == I("mov ebx,n", n, 5)
Load(sym) == Framed("mov eax,[ebp+n]", sym.offset, 3)
LoadEbx(sym) == Framed("mov ebx,[ebp+n]", sym.offset, 3)
LoadByte(sym) == Framed("movsx eax,[ebp+n]", sym.offset, 4)
Store(offset) == Framed("mov [ebp+n],eax", offset, 3)
StoreByte(offset) == Framed("mov [ebp+n],al", offset, 3)
Lea(sym) == Framed("lea eax,[ebp+n]", sym.offset, 3)
Push == I("push eax", 0, 1)
PopEbx == I("pop ebx", 0, 1)
PopEax == I("pop eax", 0, 1)
Int80 == I("int 80", 0, 2)
AddOne == I("add eax,n", 1, 5)
SubOne == I("add eax,n", -1, 3)
Swapped == <<I("mov ecx,eax", 0, 2), I("mov eax,ebx", 0, 2)>>
SetAl(cond) == <<I(cond, 0, 3), I("movzx eax,al", 0, 3)>>
Compare(cond) == Swapped \o <<I("cmp eax,ecx", 0, 2)>> \o SetAl(cond)
Divide == <<I("xchg eax,ebx", 0, 1), I("cdq", 0, 1), I("idiv ebx", 0, 2)>>
Remainder == I("mov eax,edx", 0, 2)
(* The truth of the right operand, with the jumps of && and || around it. *)
ShortCut(jump, otherwise) ==
    <<I("test ebx", 0, 2), I(jump, 5, 2), I("test eax", 0, 2)>> \o SetAl("setne")
        \o <<I("jmp", 3, 2), otherwise>>
(* left in ebx, right in eax, the result in eax *)
Apply(op) ==
    CASE op = "<<" -> Swapped \o <<I("shl eax,cl", 0, 2)>>
      [] op = ">>" -> Swapped \o <<I("shr eax,cl", 0, 2)>>
      [] op = "+" -> <<I("add eax,ebx", 0, 2)>>
      [] op = "-" -> Swapped \o <<I("sub eax,ecx", 0, 2)>>
      [] op = "*" -> <<I("imul eax,ebx", 0, 3)>>
      [] op = "/" -> Divide
      [] op = "%" -> Append(Divide, Remainder)
      [] op = "<" -> Compare("setl")
      [] op = ">" -> Compare("setg")
      [] op = "<=" -> Compare("setle")
      [] op = ">=" -> Compare("setge")
      [] op = "==" -> Compare("sete")
      [] op = "!=" -> Compare("setne")
      [] op = "&&" -> ShortCut("jz", I("xor eax,eax", 0, 2))
      [] op = "||" -> ShortCut("jnz", MovEax(1))
Negations(op) ==
    CASE op = "+" -> <<>>
      [] op = "-" -> <<I("neg eax", 0, 2)>>
      [] op = "~" -> <<I("not eax", 0, 2)>>
      [] op = "!" -> <<Push, I("xor eax,eax", 0, 2), PopEbx, I("cmp eax,ebx", 0, 2)>> \o SetAl("sete")

EndOf(code) == IF code = <<>> THEN 0 ELSE LET l == Last(code) IN l.at + l.len
EmitOne(code, ins) == Append(code, [at |-> EndOf(code), op |-> ins.op, arg |-> ins.arg, len |-> ins.len])
(* Nothing more happens once a parser has failed; what it emitted stays. *)
Emit(p, instructions) == IF p.ok THEN [p EXCEPT !.code = FoldLeft(EmitOne, @, instructions)] ELSE p
Adv(p, k) == IF p.ok THEN [p EXCEPT !.i = @ + k] ELSE p
Fail(p, hazard) == IF p.ok THEN Odd([p EXCEPT !.ok = FALSE], {hazard}) ELSE p

(***************************************************************************)
(* Expressions, by precedence climbing.                                    *)
(***************************************************************************)
(* Mutant: shifts bind as tight as sums. *)
expr_get_precedence_shift(t) ==
    CASE t \in {"*", "/", "%"} -> 8
      [] t \in {"+", "-", "<<", ">>"} -> 7
      [] t \in {"<", ">", "<=", ">="} -> 5
      [] t \in {"==", "!="} -> 4
      [] t = "&&" -> 3
      [] t = "||" -> 2
      [] OTHER -> 0
expr_get_precedence(t) ==
    CASE t \in {"*", "/", "%"} -> 8
      [] t \in {"+", "-"} -> 7
      [] t \in {"<<", ">>"} -> 6
      [] t \in {"<", ">", "<=", ">="} -> 5
      [] t \in {"==", "!="} -> 4
      [] t = "&&" -> 3
      [] t = "||" -> 2
      [] OTHER -> 0

(* Mutant: the value before the step stays on the stack. *)
PostStep_left(sym, step) ==
    IF sym.type = "char"
    THEN <<LoadByte(sym), Push, step, StoreByte(sym.offset), PopEax>>
    ELSE <<Push, Load(sym), step, Store(sym.offset)>>
(* x++, x-- with the value before it and ++x, --x with the value after it *)
PostStep(sym, step) ==
    IF sym.type = "char"
    THEN <<LoadByte(sym), Push, step, StoreByte(sym.offset), PopEax>>
    ELSE <<Push, Load(sym), step, Store(sym.offset), PopEax>>
PreStep(sym, step) ==
    IF sym.type = "char"
    THEN <<LoadByte(sym), step, StoreByte(sym.offset), LoadByte(sym)>>
    ELSE <<Load(sym), step, Store(sym.offset), Load(sym)>>
StepOf(t) == IF t = "++" THEN AddOne ELSE SubOne

Variable(p) ==
    IF ~ Known(p.sym, Ahead(p, 0).id) THEN Fail(p, "undefined")
    ELSE LET sym == symtab_lookup(p.sym, Ahead(p, 0).id)
             q == Adv(Emit(p, <<IF sym.type = "char" THEN LoadByte(sym) ELSE Load(sym)>>), 1)
         IN IF Ahead(q, 0).t \in {"++", "--"}
            THEN Adv(Emit(q, PostStep(sym, StepOf(Ahead(q, 0).t))), 1)
            ELSE q

(* &x, ++x and --x: the operand must be a variable *)
OnVariable(p) ==
    LET op == Ahead(p, 0).t
        q == Adv(p, 1)
    IN IF Ahead(q, 0).t # "id" \/ ~ Known(p.sym, Ahead(q, 0).id) THEN Fail(q, "undefined")
       ELSE LET sym == symtab_lookup(p.sym, Ahead(q, 0).id)
            IN Adv(Emit(q, IF op = "&" THEN <<Lea(sym)>> ELSE PreStep(sym, StepOf(op))), 1)

(* The parenthesis or comma that ends the argument starting at q. *)
Opened(p, q, r) == Cardinality({k \in q .. r - 1 : TokAt(p, k).t = "("})
                   - Cardinality({k \in q .. r - 1 : TokAt(p, k).t = ")"})
ArgEnds(p, q) == {r \in q .. Len(p.toks) : TokAt(p, r).t \in {")", ","} /\ Opened(p, q, r) = 0}
RECURSIVE ArgStarts(_, _)
(* The arguments of a call, and behind them the position the scan stopped at. *)
ArgStarts(p, q) ==   \* (the parentheses of the sources match)
    IF TokAt(p, q).t \in {")", "eof"} \/ ArgEnds(p, q) = {} THEN <<q>>
    ELSE LET r == First(ArgEnds(p, q)) IN <<q>> \o ArgStarts(p, IF TokAt(p, r).t = "," THEN r + 1 ELSE r)

register_external_symbol(p, name) ==
    IF Len(p.funcs) >= MaxFuncs \/ name \in Range(p.funcs) THEN p ELSE [p EXCEPT !.funcs = Append(@, name)]
add_relocation(p, at) ==
    IF Len(p.relocs) >= MaxRelocs THEN p ELSE [p EXCEPT !.relocs = Append(@, at)]

RECURSIVE parse_primary(_), parse_expr_1(_, _), Climb(_, _), Tighter(_, _), Arguments(_, _)
expr_parse(p) == parse_expr_1([p EXCEPT !.ok = TRUE], 0)

(* The arguments are evaluated and pushed from the last to the first. *)
Arguments(p, starts) ==
    IF starts = <<>> THEN p
    ELSE Arguments(Emit(parse_expr_1([p EXCEPT !.i = Last(starts)], 0), <<Push>>), Front(starts))
(* No function is ever defined, so every call is to an external symbol whose relocation is left behind. *)
Call(p) ==
    LET starts == ArgStarts(p, p.i + 2)
        q == Arguments(p, Front(starts))
        r == [q EXCEPT !.i = Last(starts)]
        s == add_relocation(register_external_symbol(r, Ahead(p, 0).id), EndOf(r.code) + 1)
        pushed == Len(starts) - 1
    IN IF pushed > MaxArgs THEN Fail([p EXCEPT !.i = starts[MaxArgs + 1]], "call")
       ELSE IF ~ q.ok THEN q
       ELSE Odd(Emit(Adv(s, IF Ahead(r, 0).t = ")" THEN 1 ELSE 0),
                     <<I("call", 0, 5)>> \o IF pushed > 0 THEN <<I("add esp,n", 4 * pushed, 6)>> ELSE <<>>), {"call"})

Parenthesized(p) ==
    LET q == expr_parse(Adv(p, 1)) IN IF Ahead(q, 0).t = ")" THEN Adv(q, 1) ELSE Fail(q, "syntax")

parse_primary(p) ==
    LET t == Ahead(p, 0) IN
    IF ~ p.ok THEN p ELSE
    CASE t.t = "num" -> Adv(Emit(p, <<MovEax(t.n)>>), 1)
      [] t.t = "id" /\ Ahead(p, 1).t = "(" -> Call(p)
      [] t.t = "id" /\ Ahead(p, 1).t = "[" -> Fail(p, "syntax")   \* no variable is ever an array
      [] t.t = "id" /\ Ahead(p, 1).t \notin {"(", "["} -> Variable(p)
      [] t.t = "(" -> Parenthesized(p)
      [] t.t \in {"&", "++", "--"} -> OnVariable(p)
      [] t.t = "*" -> Emit(parse_primary(Adv(p, 1)), <<I("mov eax,[eax]", 0, 2)>>)
      [] t.t \in {"+", "-", "!", "~"} -> Emit(parse_primary(Adv(p, 1)), Negations(t.t))
      [] OTHER -> Fail(p, "syntax")

Binds(p, prec) == p.ok /\ expr_get_precedence(Ahead(p, 0).t) > prec
(* Operators that bind tighter than the one just read go to the right operand. *)
Tighter(p, prec) ==
    IF ~ Binds(p, prec) THEN p
    ELSE Tighter(Climb(p, expr_get_precedence(Ahead(p, 0).t)), prec)
Climb(p, min_prec) ==
    LET op == Ahead(p, 0).t
        prec == expr_get_precedence(op)
        right == Tighter(parse_primary(Emit(Adv(p, 1), <<Push>>)), prec)
    IN IF ~ Binds(p, 0) \/ prec < min_prec THEN p
       ELSE Climb(OddIf(Emit(right, <<PopEbx>> \o Apply(op)), op \in {"&&", "||"}, "shortcut"), min_prec)
parse_expr_1(p, min_prec) == Climb(parse_primary(p), min_prec)

=============================================================================
