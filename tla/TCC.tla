-------------------------------- MODULE TCC --------------------------------
(***************************************************************************)
(* The in-kernel C compiler (src/src/bin/tcc.c): parse_c_tokens turns the  *)
(* tokens of a source into machine code in one pass, one statement at a    *)
(* time, and the program it makes is then run.  What the program prints    *)
(* and its exit code are compared with what the source means (CSource).    *)
(***************************************************************************)
EXTENDS CSource

CONSTANTS Sources,     \* the statements of the sources and the layout of their text
          CodeSize,    \* the 4096 bytes of code_buffer
          Slack,       \* the 200 bytes a statement is given
          StrTable,    \* the 1024 bytes of string_table
          PatchMax,    \* the 64 entries of print_patch_positions
          FrameAlign,  \* 16: the alignment of the locals
          StackBytes,  \* bound: the bytes of the stack
          MaxOut       \* bound: what a program prints

ASSUME Sizes == Slack < CodeSize /\ FrameAlign > 0 /\ MaxTokens > 0 /\ StackBytes < Half

VARIABLES prog,    \* the source and its layout
          phase,   \* "source", "parse", "link", "run" or "over"
          cc,      \* the locals of parse_c_tokens
          cpu,     \* the processor and the memory of the compiled program
          shr      \* history: a negative value was shifted right

vars == <<prog, phase, cc, cpu, shr>>

(***************************************************************************)
(* parse_c_tokens.                                                         *)
(***************************************************************************)
BaseAddr == 2 * Word    \* 0x08048080, outside of the stack's addresses
NewParser(toks) ==
    [toks |-> toks, i |-> 1, ok |-> TRUE, odd |-> {}, sym |-> <<>>, funcs |-> <<>>, relocs |-> <<>>,
     code |-> FoldLeft(EmitOne, <<>>, <<I("push ebp", 0, 1), I("mov ebp,esp", 0, 2), I("sub esp,n", 0, 6)>>),
     next_offset |-> -4, total |-> 0, strs |-> <<>>, patches |-> {}, exit_code |-> 0,
     type |-> "none", part |-> "none", outer |-> 0, jz |-> 0, jmp |-> 0, top |-> 0, inc |-> 0,
     empty |-> FALSE, depth |-> 0]
Pos(p) == EndOf(p.code)
Find(p, q, kinds) == First({r \in q .. Upper(q, Len(p.toks) + 1) : TokAt(p, r).t \in kinds \cup {"eof", "unknown"}})
Past(p, q, kind) == IF TokAt(p, q).t = kind THEN q + 1 ELSE q
(* Behind the next semicolon. *)
SkipPast(p, q) == [p EXCEPT !.i = Past(p, Find(p, q, {";"}), ";")]

(* A variable gets the next place in the frame, whether or not its name could be added. *)
Declare(p, name, type) ==
    LET q == OddIf(OddIf(p, Known(p.sym, name), "redeclared"), Len(name) > NameMax \/ Len(p.sym) >= SymMax, "undefined")
    IN OddIf([q EXCEPT !.sym = symtab_add(@, name, type, p.next_offset), !.total = @ + sym_type_size(type),
                       !.next_offset = @ - sym_type_size(type)],
             \E k \in 1 .. Len(p.sym) : p.sym[k].type = "char", "char")

(* int main() {: the parameters and the brace are skipped *)
function_header(p) ==
    LET name == IF Ahead(p, 1).t = "*" THEN 2 ELSE 1
        q == Past(p, Find(p, p.i + name + 2, {")"}), ")")
    IN [p EXCEPT !.i = Past(p, q, "{")]

(***************************************************************************)
(* print and printf.                                                       *)
(***************************************************************************)
PrintNames == {PrintName, Append(PrintName, "f")}
(* Text goes to the string table, its address is patched in at the end.  Text without room is dropped. *)
PrintText(p, text) ==
    IF Len(p.strs) + Len(text) + 1 > StrTable THEN Odd(p, {"strings_full"})
    ELSE LET q == Emit(p, <<MovEax(0), MovEbx(Len(p.strs)), Int80>>)
         IN OddIf([q EXCEPT !.strs = @ \o text \o <<"NUL">>,
                            !.patches = IF Cardinality(@) < PatchMax THEN @ \cup {Len(q.code) - 1} ELSE @],
                  Cardinality(p.patches) >= PatchMax, "patches_full")
PrintLiteral(p, text) == IF text = <<>> THEN p ELSE PrintText(p, text)
RECURSIVE ArgAt(_, _)
ArgAt(p, k) == IF k = 0 THEN p.i + 4 ELSE LET r == Find(p, ArgAt(p, k - 1), {",", ")"}) IN Past(p, r, ",")
PrintArg(p, k, sysno) ==
    LET a == ArgAt(p, k)
        t == TokAt(p, a)
        known == t.t = "id" /\ Known(p.sym, t.id)
        value == CASE t.t = "num" -> MovEbx(t.n)
                   [] known -> LoadEbx(symtab_lookup(p.sym, t.id))
                   [] OTHER -> MovEbx(0)
        q == OddIf(OddIf(p, TokAt(p, a + 1).t \notin {",", ")"}, "argument"),
                   known /\ symtab_lookup(p.sym, t.id).type = "char", "char")
    IN OddIf(Emit(q, <<value, MovEax(sysno), Int80>>), t.t = "id" /\ ~ known, "undefined")
(* %s with a literal prints it, with a variable what it points to; anything else is dropped. *)
PrintString(p, k) ==
    LET t == TokAt(p, ArgAt(p, k)) IN
    CASE t.t = "str" -> PrintText(p, t.id)
      [] t.t = "id" -> Odd(PrintArg(p, k, 0), {"argument"})
      [] OTHER -> Odd(p, {"argument"})
SysNo(spec) == CASE spec \in {"d", "i"} -> 11 [] spec \in {"x", "X"} -> 18 [] spec = "c" -> 12

RECURSIVE PrintFrom(_, _, _, _, _)
(* f is the position in the format, lit where the text not yet printed starts, k the next argument *)
PrintFrom(p, fmt, f, lit, k) ==
    LET spec == fmt[f + 1]
        q == PrintLiteral(p, SubSeq(fmt, lit, f - 1))
    IN IF f > Len(fmt) THEN PrintLiteral(p, SubSeq(fmt, lit, Len(fmt)))
       ELSE IF f = Len(fmt) \/ fmt[f] # "%" THEN PrintFrom(p, fmt, f + 1, lit, k)
       ELSE
       CASE spec = "%" -> PrintFrom(Emit(q, <<MovEax(12), MovEbx(Percent), Int80>>), fmt, f + 2, f + 2, k)
         [] spec \in {"d", "i", "x", "X", "c"} -> PrintFrom(PrintArg(q, k, SysNo(spec)), fmt, f + 2, f + 2, k + 1)
         [] spec = "s" -> PrintFrom(PrintString(q, k), fmt, f + 2, f + 2, k + 1)
         [] OTHER -> PrintFrom(Odd(q, {"format"}), fmt, f + 1, lit, k)
print(p) == SkipPast(PrintFrom(p, Ahead(p, 2).id, 1, 1, 0), p.i + 3)

(***************************************************************************)
(* Simple statements.                                                      *)
(***************************************************************************)
malloc(p) == Adv(Emit(p, <<MovEbx(Ahead(p, 2).n), MovEax(7), Int80>>), 4)
(* The exit code is that of the last return in the text; returning does not leave the program. *)
IsLast(p, q) == TokAt(p, q).t = ";" /\ TokAt(p, q + 1).t = "}" /\ TokAt(p, q + 2).t = "eof"
return(p) ==
    IF Ahead(p, 1).t = "num"
    THEN OddIf([Adv(p, 3) EXCEPT !.exit_code = Ahead(p, 1).n], ~ IsLast(p, p.i + 2), "return")
    ELSE OddIf(Adv(p, 2), ~ IsLast(p, p.i + 1), "return")
asm(p) ==
    LET t == TokAt(p, Find(p, p.i + 1, {"str"})) IN
    SkipPast(IF t.t = "str" /\ t.id = SysCallText THEN Odd(Emit(p, <<Int80>>), {"asm"}) ELSE p, p.i)

RECURSIVE DeclareFrom(_, _, _)
(* Every name up to the semicolon is declared; the initial value is one number or variable. *)
DeclareFrom(p, j, type) ==
    LET t == TokAt(p, j)
        init == TokAt(p, j + 2)
        known == init.t = "id" /\ Known(Declare(p, t.id, type).sym, init.id)
        value == CASE init.t = "num" -> MovEax(init.n)
                   [] known -> Load(symtab_lookup(Declare(p, t.id, type).sym, init.id))
                   [] OTHER -> MovEax(0)
        q == Declare(p, t.id, type)
        set == OddIf(Emit(q, <<value, Store(p.next_offset)>>),
                     TokAt(p, j + 3).t \notin {",", ";"} \/ (init.t # "num" /\ ~ known), "initial")
    IN CASE t.t \in {";", "eof", "unknown"} -> p
         [] t.t = "id" /\ TokAt(p, j + 1).t = "=" -> DeclareFrom(set, Past(p, j + 3, ","), type)
         [] t.t = "id" /\ TokAt(p, j + 1).t # "=" -> DeclareFrom(q, Past(p, j + 1, ","), type)
         [] OTHER -> DeclareFrom(p, Past(p, j + 1, ","), type)
declaration(p) == SkipPast(DeclareFrom(p, p.i + 1, Ahead(p, 0).t), p.i)

(* After the value the rest of the statement is skipped, whatever it is. *)
Rest(p, q) == SkipPast(OddIf(p, TokAt(p, q).t # ";", "rest"), q)
CompoundOp(t) == CASE t = "+=" -> <<I("add eax,ebx", 0, 2)>>
                   [] t = "-=" -> <<I("sub eax,ebx", 0, 2)>>
                   [] t = "*=" -> <<I("imul eax,ebx", 0, 3)>>
                   [] t = "/=" -> Tail(Divide)
                   [] t = "%=" -> Append(Tail(Divide), Remainder)
SetCompound(p, sym, q) ==
    IF q.ok
    THEN Rest(OddIf(Emit(q, <<Push, Load(sym), PopEbx>> \o CompoundOp(Ahead(p, 1).t) \o <<Store(sym.offset)>>),
                    sym.type = "char", "char"), q.i)
    ELSE [q EXCEPT !.i = p.i + 1, !.ok = TRUE]
compound(p) ==
    IF Known(p.sym, Ahead(p, 0).id)
    THEN SetCompound(p, symtab_lookup(p.sym, Ahead(p, 0).id), expr_parse([p EXCEPT !.i = @ + 2]))
    ELSE Odd(Adv(p, 1), {"undefined"})

(* An unknown variable is declared by assigning to it. *)
Assignable(p) == LET name == Ahead(p, 0).id IN IF Known(p.sym, name) THEN p ELSE Declare(p, name, "int")
(* x = expr, with i behind the expression; a failed expression leaves its code, and x alone *)
SetVariable(p) ==
    Emit(expr_parse([p EXCEPT !.i = @ + 2]), <<Store(symtab_lookup(p.sym, Ahead(p, 0).id).offset)>>)
Assigned(p, q) == IF q.ok THEN Rest(q, q.i) ELSE SkipPast([q EXCEPT !.ok = TRUE], p.i)
PidTo(p) == Emit(p, <<MovEax(15), Int80, Store(symtab_lookup(p.sym, Ahead(p, 0).id).offset)>>)
AssignTo(p) ==
    LET call == Ahead(p, 2).t = "id" /\ Ahead(p, 3).t = "(" IN
    IF ~ Known(p.sym, Ahead(p, 0).id) THEN SkipPast(p, p.i)
    ELSE IF call /\ Ahead(p, 2).id = PidName /\ Ahead(p, 4).t = ")" THEN [PidTo(p) EXCEPT !.i = Past(p, p.i + 5, ";")]
    ELSE IF call THEN Odd(SkipPast(p, p.i + 2), {"call"})
    ELSE Assigned(p, SetVariable(p))
assignment(p) == AssignTo(Assignable(p))

(* getpid(); exit(N); and calls of anything else, which are skipped *)
builtin(p) ==
    LET name == Ahead(p, 0).id
        q == CASE name = PidName /\ Ahead(p, 2).t = ")" -> Adv(Emit(p, <<MovEax(15), Int80>>), 3)
               [] name = ExitName /\ Ahead(p, 2).t = "num" /\ Ahead(p, 3).t = ")" ->
                      Adv(Emit(p, <<MovEbx(Ahead(p, 2).n), MovEax(1), Int80>>), 4)
               [] OTHER -> Odd([p EXCEPT !.i = Find(p, p.i + 1, {";"})], {"call"})
    IN [q EXCEPT !.i = Past(q, q.i, ";")]
(***************************************************************************)
(* Control flow.  There is one set of ctrl_ variables, so one construct    *)
(* can be open at a time.                                                  *)
(***************************************************************************)
(* Mutant: the displacement is counted from the start of the jump. *)
PatchHere_start(p, k) == [p EXCEPT !.code[k].arg = Pos(p) - p.code[k].at]
(* A jump emitted with displacement 0 is made to lead here. *)
PatchHere(p, k) == [p EXCEPT !.code[k].arg = Pos(p) - (p.code[k].at + p.code[k].len)]
JumpBack(p) == Emit(p, <<I("jmp", p.top - (Pos(p) + 5), 5)>>)
Closed(p) == [p EXCEPT !.type = "none", !.part = "none", !.depth = @ - 1]

(* The end of what follows the condition; with an else, a jump over it is emitted behind the patched place. *)
EndThen(p) ==
    LET q == [PatchHere(p, p.jz) EXCEPT !.i = @ + 1]
        r == Emit(q, <<I("jmp", 0, 5)>>)
        brace == Ahead(q, 1).t = "{"
    IN IF Ahead(q, 0).t = "else"
       THEN OddIf([r EXCEPT !.jmp = Len(r.code), !.part = "else", !.outer = r.depth,
                            !.depth = IF brace THEN @ + 1 ELSE @, !.i = IF brace THEN @ + 2 ELSE @ + 1,
                            !.odd = @ \cup {"else"}], ~ brace, "brace")
       ELSE Closed(q)
EndElse(p) == [Closed(IF p.jmp # 0 THEN PatchHere(p, p.jmp) ELSE p) EXCEPT !.jmp = 0, !.i = @ + 1]

(* The step of a for: i++, i-- or i = expr; any other one is left out. *)
StepInPlace(p, q) == [q EXCEPT !.i = p.i, !.ok = TRUE]
ForStep(p) ==
    LET t == TokAt(p, p.inc)
        op == TokAt(p, p.inc + 1).t
        sym == symtab_lookup(p.sym, t.id)
        step == I("add eax,n", IF op = "++" THEN 1 ELSE -1, 3)
    IN IF p.inc = 0 \/ t.t \in {";", ")"} THEN p
       ELSE IF t.t # "id" \/ op \notin {"++", "--", "="} THEN Odd(p, {"for_step"})
       ELSE IF ~ Known(p.sym, t.id)
       THEN Odd(IF op = "=" THEN StepInPlace(p, expr_parse([p EXCEPT !.i = p.inc + 2])) ELSE p, {"undefined"})
       ELSE IF op = "=" THEN StepInPlace(p, SetVariable([p EXCEPT !.i = p.inc]))
       ELSE IF sym.type = "char" THEN Emit(p, <<LoadByte(sym), step, StoreByte(sym.offset)>>)
       ELSE Emit(p, <<Load(sym), step, Store(sym.offset)>>)
PatchExit(p, q) == IF p.jz # 0 THEN PatchHere(q, p.jz) ELSE q
EndLoop(p) ==
    [Closed(PatchExit(p, JumpBack(IF p.type = "for" THEN ForStep(p) ELSE p))) EXCEPT !.part = p.part, !.i = @ + 1]
close_brace(p) ==
    LET ends == p.depth = p.outer + 1 IN
    CASE p.type = "if" /\ p.part = "then" /\ ends -> EndThen(p)
      [] p.type = "if" /\ p.part = "else" /\ ends -> EndElse(p)
      [] p.type \in {"while", "for"} /\ ends -> EndLoop(p)
      [] OTHER -> [p EXCEPT !.depth = @ - 1, !.i = @ + 1]
open_brace(p) == [p EXCEPT !.depth = @ + 1, !.i = @ + 1]

(* for (init; a declaration there is skipped, as is anything but an assignment *)
PastSemi(p) == [p EXCEPT !.i = Past(p, p.i, ";")]
ForAssign(p) == IF Known(p.sym, Ahead(p, 0).id) THEN [SetVariable(p) EXCEPT !.ok = TRUE] ELSE p
ForInit(p) ==
    CASE Ahead(p, 0).t = ";" -> Adv(p, 1)
      [] Ahead(p, 0).t = "id" /\ Ahead(p, 1).t = "=" -> PastSemi(ForAssign(Assignable(p)))
      [] OTHER -> Odd(SkipPast(p, p.i), {"for_init"})
(* The jump taken when the condition is false. *)
JumpIfFalse(p) == IF p.ok THEN [Emit(p, <<I("test eax", 0, 2), I("jz", 0, 6)>>) EXCEPT !.jz = Len(p.code) + 2] ELSE p
Condition(p) == JumpIfFalse(expr_parse([p EXCEPT !.top = Pos(p)]))
(* for (...; condition; step): the step is remembered for the end of the body.  c is where the condition ends; *)
(* once a for has had no condition, it is taken to be where it starts.                                        *)
ForClause(p, q, c) ==
    IF TokAt(p, c).t = ";" THEN [q EXCEPT !.inc = c + 1, !.i = Past(p, Find(p, c + 1, {")"}), ")")]
    ELSE Odd([q EXCEPT !.i = Past(p, c, ")")], {"for_head"})
ForTail(p, q) ==
    IF q.ok
    THEN OddIf(ForClause(p, q, IF q.empty THEN p.i ELSE Find(p, p.i, {";", ")"})),
               IF q.jz = p.jz THEN p.jz # 0 ELSE p.empty, "stale")
    ELSE [q EXCEPT !.i = p.i]
ForHead(p) == ForTail(p, IF Ahead(p, 0).t \in {";", ")"} THEN [p EXCEPT !.empty = TRUE] ELSE Condition(p))
(* if and while: parentheses are required, and a condition between them *)
PlainTail(p, q) ==
    IF ~ q.ok THEN [q EXCEPT !.i = p.i]
    ELSE IF Ahead(q, 0).t # ")" THEN Fail(q, "syntax")
    ELSE JumpIfFalse(Adv(q, 1))
PlainHead(p) ==
    IF Ahead(p, 0).t # "(" THEN Fail(p, "syntax")
    ELSE IF Ahead(p, 1).t = ")" THEN Fail(Adv(p, 1), "syntax")
    ELSE PlainTail(Adv(p, 1), expr_parse([Adv(p, 1) EXCEPT !.top = Pos(p)]))
ControlHead(p, kind) == IF kind # "for" THEN PlainHead(p)
                 ELSE IF Ahead(p, 0).t # "(" THEN Fail(p, "syntax")
                 ELSE ForHead(ForInit(Adv(p, 1)))
Enter(p, kind) ==
    IF p.ok
    THEN OddIf(OddIf([p EXCEPT !.type = kind, !.part = "then", !.outer = p.depth,
                               !.top = IF kind = "for" /\ p.empty THEN Pos(p) ELSE @], p.type # "none", "nested"),
               Ahead(p, 0).t # "{", "brace")
    ELSE [p EXCEPT !.ok = TRUE]
control(p) == Enter(ControlHead([p EXCEPT !.top = Pos(p), !.i = @ + 1], Ahead(p, 0).t), Ahead(p, 0).t)

(* Anything else is skipped a token at a time. *)
other(p) == Adv(OddIf(p, Ahead(p, 0).t # ";", "ignored"), 1)

Statement(p) ==
    LET a == Ahead(p, 0)
        b == Ahead(p, 1).t
        c == Ahead(p, 2).t
    IN IF a.t \in {"int", "char", "void"} /\ (IF b = "*" THEN c = "id" /\ Ahead(p, 3).t = "(" ELSE b = "id" /\ c = "(") THEN "function"
       ELSE IF a.t = "id" /\ a.id \in PrintNames /\ b = "(" /\ c = "str" THEN "print"
       ELSE IF a.t = "id" /\ a.id = MallocName /\ b = "(" /\ c = "num" /\ Ahead(p, 3).t = ")" THEN "malloc"
       ELSE IF a.t = "id" /\ a.id = AsmName THEN "asm"
       ELSE
       CASE a.t = "return" -> "return"
         [] a.t \in {"int", "char"} /\ b = "id" -> "declaration"
         [] a.t = "}" -> "close"
         [] a.t = "{" -> "open"
         [] a.t = "id" /\ b \in {"+=", "-=", "*=", "/=", "%="} -> "compound"
         [] a.t = "id" /\ b = "=" -> "assignment"
         [] a.t = "id" /\ b = "(" -> "builtin"
         [] a.t \in {"if", "while", "for"} -> "control"
         [] OTHER -> "other"

(* The frame is rounded up and the addresses of the strings, which follow the code, are filled in. *)
Frame(total) == ((total + FrameAlign - 1) \div FrameAlign) * FrameAlign
Epilogue(p) == Emit([p EXCEPT !.code[3].arg = Frame(p.total)],
                    <<I("mov ebp,esp", 0, 2), I("pop ebp", 0, 1), MovEax(1), MovEbx(p.exit_code), Int80>>)
PatchStrings(p) ==
    [p EXCEPT !.code = [k \in 1 .. Len(@) |->
        IF k \in p.patches THEN [@[k] EXCEPT !.arg = BaseAddr + Pos(p) + @] ELSE @[k]]]
(***************************************************************************)
(* The processor.  Stack addresses are negative, 0 is the top; the code    *)
(* is at the positions the compiler gave it.                               *)
(***************************************************************************)
Idle == [eip |-> 0, eax |-> 0, ebx |-> 0, ecx |-> 0, edx |-> 0, esp |-> 0, ebp |-> 0, cmp |-> <<0, 0>>,
         mem |-> [a \in -StackBytes .. -1 |-> 0], out |-> <<>>, st |-> "idle", exit |-> 0]
Trapped(c) == [c EXCEPT !.st = "trapped"]
Mapped(a) == a >= -StackBytes /\ a + 3 <= -1
Set(c, reg, v) == [c EXCEPT ![reg] = Signed(v)]
ByteOf(v, k) == (v \div Radix ^ k) % Radix
ReadWord(c, a) == Signed(c.mem[a] + Radix * c.mem[a + 1] + Radix * Radix * c.mem[a + 2] + Radix * Radix * Radix * c.mem[a + 3])
LoadTo(c, reg, a) == IF Mapped(a) THEN Set(c, reg, ReadWord(c, a)) ELSE Trapped(c)
StoreTo(c, a, v) ==
    IF Mapped(a) THEN [c EXCEPT !.mem = [b \in DOMAIN @ |-> IF b \in a .. a + 3 THEN ByteOf(v, b - a) ELSE @[b]]]
    ELSE Trapped(c)
PushOn(c, v) == StoreTo([c EXCEPT !.esp = @ - 4], c.esp - 4, v)
PopTo(c, reg) == [LoadTo(c, reg, c.esp) EXCEPT !.esp = @ + 4]
Jump(c, ins, taken) == IF taken THEN [c EXCEPT !.eip = @ + ins.arg] ELSE c
Holds(cond, l, r) == CASE cond = "sete" -> l = r [] cond = "setne" -> l # r [] cond = "setl" -> l < r
                       [] cond = "setle" -> l <= r [] cond = "setg" -> l > r [] cond = "setge" -> l >= r
(* A string's characters up to its end; an address outside the strings is not followed. *)
StringAt(p, a) ==
    LET k == a - (BaseAddr + Pos(p)) + 1
        end == First({j \in k .. Len(p.strs) : p.strs[j] = "NUL"})
    IN IF k \in 1 .. Len(p.strs) THEN [j \in 1 .. end - k |-> Printed(p.strs[k + j - 1])] ELSE <<Printed("?")>>
SysExit(c) == [c EXCEPT !.st = "exited", !.exit = c.ebx]
System(c, p) ==
    CASE c.eax = 0 -> [c EXCEPT !.out = @ \o StringAt(p, c.ebx)]
      [] c.eax = 1 -> SysExit(c)
      [] c.eax = 7 -> Set(c, "eax", 0)
      [] c.eax = 11 -> [c EXCEPT !.out = Append(@, PrintedInt(c.ebx))]
      [] c.eax = 12 -> [c EXCEPT !.out = Append(@, Char(SignedByte(c.ebx)))]
      [] c.eax = 15 -> Set(c, "eax", Pid)
      [] c.eax = 18 -> [c EXCEPT !.out = Append(@, PrintedHex(c.ebx))]
      [] OTHER -> Trapped(c)
(* c is the processor with eip behind the instruction *)
Step(c, ins, p) ==
    LET op == ins.op IN
    CASE op = "push ebp" -> PushOn(c, c.ebp)
      [] op = "pop ebp" -> PopTo(c, "ebp")
      [] op = "mov ebp,esp" -> [c EXCEPT !.ebp = c.esp]
      [] op = "sub esp,n" -> [c EXCEPT !.esp = @ - ins.arg]
      [] op = "add esp,n" -> [c EXCEPT !.esp = @ + ins.arg]
      [] op = "mov eax,n" -> Set(c, "eax", ins.arg)
      [] op = "mov ebx,n" -> [c EXCEPT !.ebx = ins.arg]
      [] op = "mov eax,[ebp+n]" -> LoadTo(c, "eax", c.ebp + ins.arg)
      [] op = "mov ebx,[ebp+n]" -> LoadTo(c, "ebx", c.ebp + ins.arg)
      [] op = "movsx eax,[ebp+n]" -> Set(c, "eax", SignedByte(c.mem[c.ebp + ins.arg]))
      [] op = "mov [ebp+n],eax" -> StoreTo(c, c.ebp + ins.arg, c.eax)
      [] op = "mov [ebp+n],al" -> [c EXCEPT !.mem[c.ebp + ins.arg] = ByteOf(c.eax, 0)]
      [] op = "lea eax,[ebp+n]" -> Set(c, "eax", c.ebp + ins.arg)
      [] op = "mov eax,[eax]" -> LoadTo(c, "eax", c.eax)
      [] op = "push eax" -> PushOn(c, c.eax)
      [] op = "pop eax" -> PopTo(c, "eax")
      [] op = "pop ebx" -> PopTo(c, "ebx")
      [] op = "mov ecx,eax" -> Set(c, "ecx", c.eax)
      [] op = "mov eax,ebx" -> Set(c, "eax", c.ebx)
      [] op = "mov eax,edx" -> Set(c, "eax", c.edx)
      [] op = "xchg eax,ebx" -> Set(Set(c, "eax", c.ebx), "ebx", c.eax)
      [] op = "add eax,n" -> Set(c, "eax", c.eax + ins.arg)
      [] op = "add eax,ebx" -> Set(c, "eax", c.eax + c.ebx)
      [] op = "sub eax,ebx" -> Set(c, "eax", c.eax - c.ebx)
      [] op = "sub eax,ecx" -> Set(c, "eax", c.eax - c.ecx)
      [] op = "imul eax,ebx" -> Set(c, "eax", c.eax * c.ebx)
      [] op = "cdq" -> Set(c, "edx", IF c.eax < 0 THEN -1 ELSE 0)
      [] op = "idiv ebx" -> IF Undefined("/", c.eax, c.ebx) THEN Trapped(c)
                            ELSE Set(Set(c, "eax", Quotient(c.eax, c.ebx)), "edx", c.eax - c.ebx * Quotient(c.eax, c.ebx))
      [] op = "shl eax,cl" -> Set(c, "eax", c.eax * 2 ^ (c.ecx % Bits))
      [] op = "shr eax,cl" -> Set(c, "eax", (c.eax % Word) \div 2 ^ (c.ecx % Bits))
      [] op = "neg eax" -> Set(c, "eax", -c.eax)
      [] op = "not eax" -> Set(c, "eax", -c.eax - 1)
      [] op = "xor eax,eax" -> Set(c, "eax", 0)
      [] op = "cmp eax,ebx" -> [c EXCEPT !.cmp = <<c.eax, c.ebx>>]
      [] op = "cmp eax,ecx" -> [c EXCEPT !.cmp = <<c.eax, c.ecx>>]
      [] op = "test eax" -> [c EXCEPT !.cmp = <<c.eax, 0>>]
      [] op = "test ebx" -> [c EXCEPT !.cmp = <<c.ebx, 0>>]
      [] op \in {"sete", "setne", "setl", "setle", "setg", "setge"} ->
             Set(c, "eax", c.eax - (c.eax % Radix) + Truth(Holds(op, c.cmp[1], c.cmp[2])))
      [] op = "movzx eax,al" -> Set(c, "eax", c.eax % Radix)
      [] op = "jz" -> Jump(c, ins, c.cmp[1] = c.cmp[2])
      [] op = "jnz" -> Jump(c, ins, c.cmp[1] # c.cmp[2])
      [] op = "jmp" -> Jump(c, ins, TRUE)
      [] op = "call" -> Jump(PushOn(c, Signed(c.eip)), ins, TRUE)
      [] op = "int 80" -> System(c, p)
Fetched(c, p) == {k \in 1 .. Len(p.code) : p.code[k].at = c.eip}

(***************************************************************************)
(* Compiling and running.                                                  *)
(***************************************************************************)
(* A source within the tokenizer's limits: on numbers, names, literals, and in all; | is no token. *)
Lexable(toks) == /\ Len(toks) < MaxTokens
                 /\ \A k \in 1 .. Len(toks) : /\ toks[k].n < Half /\ toks[k].t # "|"
                                             /\ Len(toks[k].id) <= (IF toks[k].t = "str" THEN StrMax ELSE IdentMax)

Init == /\ prog \in Sources
        /\ phase = "source" /\ cc = NewParser(<<>>) /\ cpu = Idle /\ shr = FALSE

Tokenize == /\ phase = "source"
            /\ cc' = OddIf(NewParser(tokenize_c_code(Text(SourceTokens(prog.stmts), prog.layout))),
                           ~ Lexable(SourceTokens(prog.stmts)), "lexer")
            /\ phase' = "parse"
            /\ UNCHANGED <<prog, cpu, shr>>

More(p) == Ahead(p, 0).t # "eof" /\ Pos(p) < CodeSize - Slack
(* One round of parse_c_tokens' loop. *)
Parse(kind, p) ==
    /\ phase = "parse" /\ More(cc) /\ cc.i <= Len(cc.toks)
    /\ Statement(cc) = kind
    /\ cc' = p
    /\ UNCHANGED <<prog, phase, cpu, shr>>
FunctionHeader == Parse("function", function_header(cc))
PrintCall == Parse("print", print(cc))
Malloc == Parse("malloc", malloc(cc))
ReturnStmt == Parse("return", return(cc))
Asm == Parse("asm", asm(cc))
Declaration == Parse("declaration", declaration(cc))
CloseBrace == Parse("close", close_brace(cc))
OpenBrace == Parse("open", open_brace(cc))
Compound == Parse("compound", compound(cc))
Assignment == Parse("assignment", assignment(cc))
Builtin == Parse("builtin", builtin(cc))
Control == Parse("control", control(cc))
Other == Parse("other", other(cc))
(* Without an end mark the parser goes on in memory behind the tokens. *)
Runaway == /\ phase = "parse" /\ More(cc) /\ cc.i > Len(cc.toks)
           /\ cc' = Odd(cc, {"runaway"}) /\ phase' = "over"
           /\ UNCHANGED <<prog, cpu, shr>>
Finish == /\ phase = "parse" /\ ~ More(cc)
          /\ cc' = OddIf(PatchStrings(Epilogue(cc)), Ahead(cc, 0).t # "eof", "code_full")
          /\ phase' = "link"
          /\ UNCHANGED <<prog, cpu, shr>>
(* generate_elf32 needs memory for the image; the loader starts the program at its first instruction. *)
Link == /\ phase = "link"
        /\ \/ phase' = "run" /\ cpu' = [cpu EXCEPT !.st = "running"]
           \/ phase' = "over" /\ UNCHANGED cpu
        /\ UNCHANGED <<prog, cc, shr>>
(* Jumping into an instruction, or out of the code, is where the program is lost. *)
Execute == /\ phase = "run" /\ Len(cpu.out) <= MaxOut
           /\ IF Fetched(cpu, cc) = {} THEN cpu' = Trapped(cpu) /\ UNCHANGED shr
              ELSE LET ins == cc.code[First(Fetched(cpu, cc))]
                   IN /\ cpu' = Step([cpu EXCEPT !.eip = ins.at + ins.len], ins, cc)
                      /\ shr' = (shr \/ (ins.op = "shr eax,cl" /\ cpu.eax < 0))
           /\ phase' = IF cpu'.st = "running" THEN "run" ELSE "over"
           /\ UNCHANGED <<prog, cc>>

Next == \/ Tokenize \/ FunctionHeader \/ PrintCall \/ Malloc \/ ReturnStmt \/ Asm \/ Declaration \/ CloseBrace
        \/ OpenBrace \/ Compound \/ Assignment \/ Builtin \/ Control \/ Other \/ Runaway \/ Finish \/ Link \/ Execute
Ended == phase = "over" \/ Len(cpu.out) > MaxOut
Spec == Init /\ [][Next]_vars /\ ([]<>Ended \/ []<><<Next>>_vars)

(***************************************************************************)
(* Properties.                                                             *)
(***************************************************************************)
(* The parser stays inside its tokens, and the phases and registers have their types. *)
TypeOK ==
    /\ prog \in Sources
    /\ phase \in {"source", "parse", "link", "run", "over"}
    /\ cc.i \in 1 .. Len(cc.toks) + 3 /\ cc.ok
    /\ cc.type \in {"none", "if", "while", "for"} /\ cc.part \in {"none", "then", "else"}
    /\ {cc.jz, cc.jmp} \subseteq 0 .. Len(cc.code)
    /\ Len(cc.strs) <= StrTable /\ Len(cc.sym) <= SymMax /\ Cardinality(cc.patches) <= PatchMax
    /\ cpu.st \in {"idle", "running", "exited", "trapped"}
    /\ \A r \in {cpu.eax, cpu.ecx, cpu.edx} : r \in -Half .. Half - 1
    /\ shr \in BOOLEAN

Handled == cc.odd = {} /\ ~ shr
AsMeant == LET m == Means(prog.stmts) IN cpu.out = m.out /\ cpu.st = m.st /\ cpu.exit = m.exit
(* parse_c_tokens: compiling a source ends, and the program, if it can be started, ends having printed     *)
(* what its source means and with the exit code its source means, unless the compiler met a construct it   *)
(* is known to handle differently.                                                                         *)
PrintsWhatItMeans == <>(~ Handled \/ (phase = "over" /\ (cpu.st # "idle" => AsMeant)))

(* Every expression leaves the stack as it found it: at each system call and each condition's test the    *)
(* stack pointer is at the end of the locals again.                                                       *)
StackBalanced ==
    \A k \in Fetched(cpu, cc) :
        phase = "run" /\ k < Len(cc.code) /\ cc.code[k].op \in {"int 80", "test eax"}
            /\ cc.odd \cap {"call", "undefined", "syntax", "shortcut"} = {}
        => cpu.esp = cpu.ebp - Frame(cc.total)

(* Back-patching: when the code is complete every jump in it leads to the start of an instruction. *)
JumpsLand ==
    phase = "run" /\ "shortcut" \notin cc.odd =>
        \A k \in 1 .. Len(cc.code) : cc.code[k].op \in {"jz", "jnz", "jmp"} =>
            \E j \in 1 .. Len(cc.code) : cc.code[j].at = cc.code[k].at + cc.code[k].len + cc.code[k].arg

=============================================================================
