--------------------------------- MODULE Expr ---------------------------------
(* The expression compiler and its virtual machine (expr.c): next() and      *)
(* expr() turn a text into instructions, expr_run() executes them on the     *)
(* fields of an event. What they compute is compared with the meaning of the *)
(* syntax tree the text was printed from, with the precedences of the help.  *)
(* A number or an identifier is one character of the text, with its value. A *)
(* byte has ByteBits bits, so that a long, of eight bytes, can be enumerated. *)
EXTENDS ExprTree, Integers, Sequences, FiniteSetsExt, SequencesExt, Bitwise

CONSTANTS ByteBits, Programs, Memories

VARIABLES program, given, state, code, pc, stack, a, mem
vars == <<program, given, state, code, pc, stack, a, mem>>

(* Words of 8 bytes, and the bytes in memory. *)
Width == 8 * ByteBits
Signed(v, w) == ((v + 2^(w - 1)) % 2^w) - 2^(w - 1)
Wrap(v) == Signed(v, Width)
DataBase == 100
Load(m, p, n) ==
    Signed(MapThenSumSet(LAMBDA k : m[p + k] * 2^(ByteBits * k), 0..(n - 1)), n * ByteBits)
Store(m, p, n, v) ==
    [q \in DOMAIN m |-> IF q \in p..(p + n - 1)
                        THEN ((v % 2^Width) \div 2^(ByteBits * (q - p))) % 2^ByteBits ELSE m[q]]

(* Tokens with a precedence, in the order of the enumeration; all others are *)
(* below. Opcodes and types are the numbers they are in the code: the        *)
(* compiler recognizes an lvalue by the word LI before the last one.         *)
Levels == <<"Assign", "Cond", "Lor", "Lan", "Or", "Xor", "And", "Eq", "Ne", "Lt", "Gt", "Le", "Ge",
            "Shl", "Shr", "Add", "Sub", "Mul", "Div", "Mod", "Inc", "Dec", "Brak">>
Level(tk) == SelectInSeq(Levels, LAMBDA l : l = tk)

Op == [IMM |-> 1, JMP |-> 2, BZ |-> 4, BNZ |-> 5, ADJ |-> 7, LI |-> 8, SI |-> 9, PSH |-> 11,
       Or |-> 12, Xor |-> 13, And |-> 14, Eq |-> 15, Ne |-> 16, Lt |-> 17, Gt |-> 18, Le |-> 19, Ge |-> 20,
       Shl |-> 21, Shr |-> 22, Add |-> 23, Sub |-> 24, Mul |-> 25, Div |-> 26, Mod |-> 27,
       NTHL |-> 30, NTHS |-> 31, EXIT |-> 33]
INT == 2
ARRAY == 4
PTR == 8
Size(ty) == IF ty >= PTR THEN 8 ELSE 2^ty
\* What ++ adds, and what an index is multiplied by.
Scale(ty) == IF ty >= PTR + PTR THEN 8 ELSE IF ty >= PTR THEN 2^(ty - PTR) ELSE 1

(* The symbol table: fields of the event, and the library. *)
Symbols == [c  |-> [class |-> "Glo", type |-> 0,         value |-> DataBase],
            h  |-> [class |-> "Glo", type |-> 1 + ARRAY, value |-> DataBase + 2],
            x  |-> [class |-> "Glo", type |-> INT,       value |-> DataBase + 6],
            ntohl |-> [class |-> "Sys", type |-> INT,   value |-> Op.NTHL],
            ntohs |-> [class |-> "Sys", type |-> 1, value |-> Op.NTHS]]

-----------------------------------------------------------------------------
(* next(): the longest token at the current position. *)
Two == [ch \in {"=", "+", "-", "!", "<", ">", "|", "&"} |->
          CASE ch = "=" -> [second |-> <<"=">>, tk |-> <<"Eq">>]
            [] ch = "+" -> [second |-> <<"+">>, tk |-> <<"Inc">>]
            [] ch = "-" -> [second |-> <<"-">>, tk |-> <<"Dec">>]
            [] ch = "!" -> [second |-> <<"=">>, tk |-> <<"Ne">>]
            [] ch = "<" -> [second |-> <<"=", "<">>, tk |-> <<"Le", "Shl">>]
            [] ch = ">" -> [second |-> <<"=", ">">>, tk |-> <<"Ge", "Shr">>]
            [] ch = "|" -> [second |-> <<"|">>, tk |-> <<"Lor">>]
            [] ch = "&" -> [second |-> <<"&">>, tk |-> <<"Lan">>]]
One == [ch \in {"=", "+", "-", "<", ">", "|", "&", "^", "%", "*", "/", "[", "?", "0", "a", "t"} |->
          CASE ch = "=" -> "Assign" [] ch = "+" -> "Add" [] ch = "-" -> "Sub" [] ch = "<" -> "Lt"
            [] ch = ">" -> "Gt"     [] ch = "|" -> "Or"  [] ch = "&" -> "And" [] ch = "^" -> "Xor"
            [] ch = "%" -> "Mod"    [] ch = "*" -> "Mul" [] ch = "/" -> "Div" [] ch = "[" -> "Brak"
            [] ch = "?" -> "Cond"   [] ch = "0" -> "Num" [] ch = "a" -> "Id"  [] ch = "t" -> "Int"]

\* s.p is where the text goes on; s.tk and s.val are the current token.
next(s) ==
    LET q == Min({i \in s.p..Len(s.text) : s.text[i].ch # " "} \cup {Len(s.text) + 1})
        ch == s.text[q].ch
        k == IF ch \in DOMAIN Two /\ q < Len(s.text)
             THEN SelectInSeq(Two[ch].second, LAMBDA c : c = s.text[q + 1].ch) ELSE 0
    IN  IF q > Len(s.text) THEN [s EXCEPT !.p = q, !.tk = "eof"]
        ELSE IF k > 0 THEN [s EXCEPT !.p = q + 2, !.tk = Two[ch].tk[k]]
        ELSE [s EXCEPT !.p = q + 1, !.tk = IF ch \in DOMAIN One THEN One[ch] ELSE ch, !.val = s.text[q].v]

-----------------------------------------------------------------------------
(* expr(): s.e are the words emitted so far, s.ty the type of what they      *)
(* compute. After synerr() nothing else is done.                             *)
Emit(s, words) == [s EXCEPT !.e = @ \o words]
Typed(s, ty) == [s EXCEPT !.ty = ty]
synerr(s) == [s EXCEPT !.err = TRUE]
Expect(s, tk) == IF s.err \/ s.tk # tk THEN synerr(s) ELSE next(s)
Here(s) == 1000 + Len(s.e)
Patch(s, d, target) == [s EXCEPT !.e[d] = target]
IsLvalue(s) == Len(s.e) >= 2 /\ s.e[Len(s.e) - 1] = Op.LI
\* Drop the load: the address stays in the register.
Unload(s) == [s EXCEPT !.e = SubSeq(@, 1, Len(@) - 2)]

RECURSIVE Stars(_)
Stars(s) == IF s.tk = "Mul" THEN Stars([next(s) EXCEPT !.ty = s.ty + PTR]) ELSE s

\* The level of the right operand: what binds more tightly.
RightLevelSame(tk) == tk
RightLevel(tk) ==
    CASE tk = "Lor" -> "Lan"   [] tk = "Lan" -> "Or"   [] tk = "Or" -> "Xor"   [] tk = "Xor" -> "And"
      [] tk = "And" -> "Eq"    [] tk \in {"Eq", "Ne"} -> "Lt"
      [] tk \in {"Lt", "Gt", "Le", "Ge"} -> "Shl"      [] tk \in {"Shl", "Shr"} -> "Add"
      [] tk \in {"Add", "Sub"} -> "Mul"                [] tk \in {"Mul", "Div", "Mod"} -> "Inc"
      [] tk \in {"Assign", "Cond", "Brak"} -> "Assign"
\* What is emitted between the operands.
Between(tk) ==
    CASE tk \in {"Cond", "Lan"} -> <<Op.BZ, 0>>   [] tk = "Lor" -> <<Op.BNZ, 0>>   [] OTHER -> <<Op.PSH>>

\* A unary operator at s, or a cast to ty, and its operand.
Applied(s, ty, t) ==
    CASE t.err -> t
      [] s.tk = "(" -> Typed(t, ty)
      [] s.tk = "Mul" -> IF t.ty < PTR THEN synerr(t)
                         ELSE Typed(Emit(t, <<Op.LI, Size(t.ty - PTR)>>), t.ty - PTR)
      [] s.tk = "And" -> IF ~IsLvalue(t) THEN synerr(t) ELSE Typed(Unload(t), t.ty + PTR)
      [] s.tk = "!" -> Typed(Emit(t, <<Op.PSH, Op.IMM, 0, Op.Eq>>), INT)
      [] s.tk = "~" -> Typed(Emit(t, <<Op.PSH, Op.IMM, -1, Op.Xor>>), INT)
      [] s.tk = "Add" -> Typed(t, INT)
      [] s.tk = "Sub" -> Typed(Emit(t, <<Op.Mul>>), INT)
      [] s.tk \in {"Inc", "Dec"} ->
            IF ~IsLvalue(t) THEN synerr(t)
            ELSE Emit(Unload(t), <<Op.PSH, Op.LI, Last(t.e), Op.PSH, Op.IMM, Scale(t.ty),
                                   IF s.tk = "Inc" THEN Op.Add ELSE Op.Sub, Op.SI, Size(t.ty)>>)
      [] OTHER -> synerr(s)

\* sizeof, and an identifier that is not called.
SizeOfType(t) ==
    LET u == Stars(Typed(next(t), t.val))
    IN  IF t.err \/ t.tk # "Int" THEN synerr(t)
        ELSE Typed(Emit(Expect(u, ")"), <<Op.IMM, Size(u.ty)>>), INT)
Field(n, sym) ==
    IF sym.class # "Glo" THEN synerr(n)
    ELSE IF sym.type \div ARRAY % 2 = 1 THEN Typed(Emit(n, <<Op.IMM, sym.value>>), sym.type - ARRAY + PTR)
    ELSE Typed(Emit(n, <<Op.IMM, sym.value, Op.LI, Size(sym.type)>>), sym.type)

RECURSIVE expr(_, _), Climb(_, _), Args(_, _)
\* The operand at the start: a number, a field, a call, a parenthesis or a unary operator.
Prefix(s) ==
    LET n == next(s)
        cast == s.tk = "(" /\ n.tk = "Int"
        to == IF cast THEN Stars(Typed(next(n), n.val)) ELSE n
    IN
    CASE s.tk = "Num" -> Typed(next(Emit(s, <<Op.IMM, s.val>>)), INT)
      [] s.tk = "sizeof" -> SizeOfType(Expect(n, "("))
      [] s.tk = "Id" -> IF n.tk = "(" THEN Args(next(n), [sym |-> Symbols[s.val], n |-> 0])
                        ELSE Field(n, Symbols[s.val])
      [] s.tk = "(" /\ ~cast -> Expect(expr("Assign", n), ")")
      [] s.tk = "Sub" /\ n.tk = "Num" -> Typed(next(Emit(n, <<Op.IMM, -n.val>>)), INT)
      [] cast \/ s.tk \in {"Mul", "And", "!", "~", "Add", "Sub", "Inc", "Dec"} ->
            Applied(s, to.ty, expr("Inc", IF cast THEN Expect(to, ")")
                                          ELSE IF s.tk = "Sub" /\ n.tk # "Num" THEN Emit(n, <<Op.IMM, -1, Op.PSH>>)
                                          ELSE n))
      [] OTHER -> synerr(s)

\* The arguments of a call are pushed, and dropped after it.
Args(s, f) ==
    IF s.err THEN s
    ELSE IF s.tk # ")"
         THEN LET t == Emit(expr("Assign", s), <<Op.PSH>>)
              IN  Args(IF t.tk = "," THEN next(t) ELSE t, [f EXCEPT !.n = @ + 1])
    ELSE IF f.sym.class # "Sys" THEN synerr(s)
    ELSE Typed(Emit(next(s), <<f.sym.value>> \o IF f.n > 0 THEN <<Op.ADJ, f.n>> ELSE <<>>), f.sym.type)

\* A postfix operator after s.
PostStep(s) ==
    LET inc == IF s.tk = "Inc" THEN <<Op.Add, Op.Sub>> ELSE <<Op.Sub, Op.Add>>
    IN  IF ~IsLvalue(s) THEN synerr(s)
        ELSE next(Emit(Unload(s), <<Op.PSH, Op.LI, Last(s.e), Op.PSH, Op.IMM, Scale(s.ty), inc[1],
                                    Op.SI, Size(s.ty), Op.PSH, Op.IMM, Scale(s.ty), inc[2]>>))

\* A binary operator after s, with its right operand r. An index or an addend
\* of a pointer is multiplied by the size of what it points to.
Scaled(t, r) == IF t > PTR THEN Emit(r, <<Op.PSH, Op.IMM, Scale(t), Op.Mul>>) ELSE r
Binary(s, r) ==
    CASE r.err -> r
      [] s.tk = "Assign" -> Typed(Emit(r, <<Op.SI, Size(s.ty)>>), s.ty)
      [] s.tk \in {"Lor", "Lan"} -> Typed(Patch(r, Len(s.e) + 2, Here(r) + 1), INT)
      [] s.tk = "Add" -> Typed(Emit(Scaled(s.ty, r), <<Op.Add>>), s.ty)
      [] s.tk = "Sub" ->
            IF s.ty > PTR /\ s.ty = r.ty
            THEN Typed(Emit(r, <<Op.Sub, Op.PSH, Op.IMM, Scale(s.ty), Op.Div>>), INT)
            ELSE Typed(Emit(Scaled(s.ty, r), <<Op.Sub>>), s.ty)
      [] s.tk = "Brak" ->
            IF r.tk # "]" \/ s.ty < PTR THEN synerr(r)
            ELSE Typed(Emit(Scaled(s.ty, next(r)), <<Op.Add, Op.LI, Size(s.ty - PTR)>>), s.ty - PTR)
      [] s.tk = "Cond" ->
            IF r.tk # ":" THEN synerr(r)
            ELSE LET no == expr("Cond", Emit(Patch(next(r), Len(s.e) + 2, Here(r) + 3), <<Op.JMP, 0>>))
                 IN  Patch(no, Len(r.e) + 2, Here(no) + 1)
      [] OTHER -> Typed(Emit(r, <<Op[s.tk]>>), INT)

Operator(s) ==
    CASE s.tk \in {"Inc", "Dec"} -> PostStep(s)
      [] s.tk = "Assign" /\ ~IsLvalue(s) -> synerr(s)
      [] OTHER -> Binary(s, expr(RightLevel(s.tk),
                       Emit(IF s.tk = "Assign" THEN Unload(next(s)) ELSE next(s), Between(s.tk))))

\* Precedence climbing.
Climb(lev, s) == IF s.err \/ Level(s.tk) < Level(lev) THEN s ELSE Climb(lev, Operator(s))
expr(lev, s) == IF s.err THEN s ELSE Climb(lev, Prefix(s))

(* expr_compile(): expressions separated by commas; the last is the result. *)
RECURSIVE CommaList(_)
CommaList(t) == IF ~t.err /\ t.tk = "," THEN CommaList(expr("Assign", next(t))) ELSE Emit(t, <<Op.EXIT>>)
Compiled(text) ==
    CommaList(expr("Assign", next([text |-> text, p |-> 1, tk |-> "eof", val |-> 0, e |-> <<>>, ty |-> INT,
                                   err |-> FALSE])))

-----------------------------------------------------------------------------
(* A syntax tree, and its text: an operand stands in parentheses when it     *)
(* binds less tightly than its place asks for, by the table of the help.     *)
Precedence(op) ==
    CASE op \in {"Mul", "Div", "Mod"} -> 3      [] op \in {"Add", "Sub"} -> 4    [] op \in {"Shl", "Shr"} -> 5
      [] op \in {"Lt", "Le", "Gt", "Ge"} -> 6   [] op \in {"Eq", "Ne"} -> 7      [] op = "And" -> 8
      [] op = "Xor" -> 9   [] op = "Or" -> 10   [] op = "Lan" -> 11              [] op = "Lor" -> 12
Binds(t) ==
    CASE t.k = "bin" -> Precedence(t.op)   [] t.k \in {"un", "cast", "sizeof"} -> 2
      [] t.k = "step" -> IF t.post THEN 1 ELSE 2
      [] t.k = "cond" -> 13   [] t.k = "assign" -> 14   [] t.k = "comma" -> 15   [] OTHER -> 1

Char(c) == <<[ch |-> c, v |-> 0], [ch |-> " ", v |-> 0]>>
Val(c, v) == <<[ch |-> c, v |-> v], [ch |-> " ", v |-> 0]>>
Sign(op) ==
    IF op \in {"Eq", "Ne", "Le", "Ge", "Shl", "Shr", "Lan", "Lor", "Inc", "Dec"}
    THEN LET c == CHOOSE c \in DOMAIN Two : Contains(Two[c].tk, op)
         IN  <<[ch |-> c, v |-> 0]>> \o Char(Two[c].second[SelectInSeq(Two[c].tk, LAMBDA x : x = op)])
    ELSE IF op \in {"!", "~"} THEN Char(op)
    ELSE Char(CHOOSE c \in DOMAIN One : One[c] = op)
TypeName(ty) == Val("t", ty % PTR) \o FlattenSeq([i \in 1..(ty \div PTR) |-> Char("*")])

RECURSIVE Text(_)
Text(t) ==
    LET Within(x, p) == IF Binds(x) <= p THEN Text(x) ELSE Char("(") \o Text(x) \o Char(")") IN
    CASE t.k = "num" -> Val("0", t.v)
      [] t.k = "var" -> Val("a", t.n)
      [] t.k = "un" -> Sign(t.op) \o Within(t.x, 2)
      [] t.k = "bin" -> Within(t.x, Binds(t)) \o Sign(t.op) \o Within(t.y, Binds(t) - 1)
      [] t.k = "step" -> IF t.post THEN Within(t.x, 1) \o Sign(t.op) ELSE Sign(t.op) \o Within(t.x, 2)
      [] t.k = "cond" -> Within(t.c, 12) \o Char("?") \o Within(t.x, 14) \o Char(":") \o Within(t.y, 13)
      [] t.k = "assign" -> Within(t.x, 2) \o Char("=") \o Within(t.y, 14)
      [] t.k = "index" -> Within(t.x, 1) \o Char("[") \o Within(t.y, 14) \o Char("]")
      [] t.k = "call" -> Val("a", t.f) \o Char("(") \o Within(t.x, 14) \o Char(")")
      [] t.k = "cast" -> Char("(") \o TypeName(t.ty) \o Char(")") \o Within(t.x, 2)
      [] t.k = "sizeof" -> Char("sizeof") \o Char("(") \o TypeName(t.ty) \o Char(")")
      [] t.k = "comma" -> Within(t.x, 15) \o Char(",") \o Within(t.y, 14)

-----------------------------------------------------------------------------
(* The operations of the machine, on longs. Division by zero, and of the     *)
(* smallest long by -1, raises SIGFPE; a shift takes its count modulo the    *)
(* width, as the processor does.                                             *)
Bits(v) == v % 2^Width
Abs(v) == IF v < 0 THEN -v ELSE v
Quotient(l, r) == LET q == Abs(l) \div Abs(r) IN IF (l < 0) = (r < 0) THEN q ELSE -q
Traps(l, r) == r = 0 \/ (r = -1 /\ l = -(2^(Width - 1)))
Truth(b) == IF b THEN 1 ELSE 0
Calc(op, l, r) ==
    CASE op = "Or" -> Wrap(Bits(l) | Bits(r))    [] op = "Xor" -> Wrap(Bits(l) ^^ Bits(r))
      [] op = "And" -> Wrap(Bits(l) & Bits(r))   [] op = "Eq" -> Truth(l = r)   [] op = "Ne" -> Truth(l # r)
      [] op = "Lt" -> Truth(l < r)   [] op = "Gt" -> Truth(l > r)   [] op = "Le" -> Truth(l <= r)
      [] op = "Ge" -> Truth(l >= r)  [] op = "Shl" -> Wrap(Bits(l) * 2^(r % Width) % 2^Width)
      [] op = "Shr" -> l \div 2^(r % Width)
      [] op = "Add" -> Wrap(l + r)   [] op = "Sub" -> Wrap(l - r)   [] op = "Mul" -> Wrap(l * r)
      [] op = "Div" -> Quotient(l, r)   [] op = "Mod" -> l - r * Quotient(l, r)
\* ntohl() and ntohs(): the low n bytes, reversed and sign-extended.
Swapped(v, n) == LET byte(k) == Bits(v) \div 2^(ByteBits * k) % 2^ByteBits
                 IN  Signed(MapThenSumSet(LAMBDA k : byte(k) * 2^(ByteBits * (n - 1 - k)), 0..(n - 1)), n * ByteBits)

(* expr_run(): one instruction per step; the stack's top is its head. *)
Insn == code[pc]
Operand == code[pc + 1]
Running == state = "running"
Go(n) == pc' = pc + n
Target == Operand - 1000

expr_compile(t, m) ==
    /\ state = "none"
    /\ program' = t /\ given' = m /\ mem' = m
    /\ \E s \in {Compiled(Text(t))} :
         IF s.err THEN state' = "refused" /\ UNCHANGED code
         ELSE state' = "running" /\ code' = s.e
    /\ UNCHANGED <<pc, stack, a>>

LoadImmediate ==
    /\ Running /\ Insn = Op.IMM
    /\ a' = Operand /\ Go(2)
    /\ UNCHANGED <<program, given, state, code, stack, mem>>

Jump ==
    /\ Running /\ Insn \in {Op.JMP, Op.BZ, Op.BNZ}
    /\ pc' = IF \/ Insn = Op.JMP
                \/ Insn = Op.BZ /\ a = 0
                \/ Insn = Op.BNZ /\ a # 0 THEN Target ELSE pc + 2
    /\ UNCHANGED <<program, given, state, code, stack, a, mem>>

Adjust ==
    /\ Running /\ Insn = Op.ADJ
    /\ stack' = SubSeq(stack, Operand + 1, Len(stack)) /\ Go(2)
    /\ UNCHANGED <<program, given, state, code, a, mem>>

LoadInt ==
    /\ Running /\ Insn = Op.LI
    /\ a' = Load(mem, a, Operand) /\ Go(2)
    /\ UNCHANGED <<program, given, state, code, stack, mem>>

StoreInt ==
    /\ Running /\ Insn = Op.SI
    /\ mem' = Store(mem, Head(stack), Operand, a)
    /\ stack' = Tail(stack) /\ Go(2)
    /\ UNCHANGED <<program, given, state, code, a>>

Push ==
    /\ Running /\ Insn = Op.PSH
    /\ stack' = <<a>> \o stack /\ Go(1)
    /\ UNCHANGED <<program, given, state, code, a, mem>>

Calculate ==
    /\ Running
    /\ \E op \in DOMAIN Op :
         /\ Op[op] = Insn /\ Insn \in Op.Or..Op.Mod
         /\ IF op \in {"Div", "Mod"} /\ Traps(Head(stack), a)
            THEN state' = "SIGFPE" /\ UNCHANGED <<pc, stack, a>>
            ELSE /\ a' = Calc(op, Head(stack), a)
                 /\ stack' = Tail(stack) /\ Go(1)
                 /\ UNCHANGED state
    /\ UNCHANGED <<program, given, code, mem>>

Library ==
    /\ Running /\ Insn \in {Op.NTHL, Op.NTHS}
    /\ a' = Swapped(Head(stack), IF Insn = Op.NTHL THEN 4 ELSE 2) /\ Go(1)
    /\ UNCHANGED <<program, given, state, code, stack, mem>>

Exit ==
    /\ Running /\ Insn = Op.EXIT
    /\ state' = "done"
    /\ UNCHANGED <<program, given, code, pc, stack, a, mem>>

Init ==
    /\ program = Num(0) /\ given = <<>> /\ mem = <<>>
    /\ state = "none" /\ code = <<>> /\ pc = 1 /\ stack = <<>> /\ a = 0

Next == \/ \E t \in Programs, m \in Memories : expr_compile(t, m)
        \/ LoadImmediate \/ Jump \/ Adjust \/ LoadInt \/ StoreInt \/ Push \/ Calculate
        \/ Library \/ Exit
Spec == Init /\ [][Next]_vars

-----------------------------------------------------------------------------
(* The meaning of a tree: [v, m, ok], its value, the memory after it, and    *)
(* whether C defines it. Operations are on longs; only memory is narrow.     *)
RECURSIVE TypeOf(_)
TypeOf(t) ==
    CASE t.k = "var" -> LET ty == Symbols[t.n].type IN IF ty >= ARRAY THEN ty - ARRAY + PTR ELSE ty
      [] t.k \in {"step", "assign"} -> TypeOf(t.x)
      [] t.k = "index" \/ (t.k = "un" /\ t.op = "Mul") -> TypeOf(t.x) - PTR
      [] t.k = "un" /\ t.op = "And" -> TypeOf(t.x) + PTR
      [] t.k = "bin" /\ t.op = "Add" -> TypeOf(t.x)
      [] t.k = "bin" /\ t.op = "Sub" -> IF TypeOf(t.y) >= PTR THEN INT ELSE TypeOf(t.x)
      [] t.k \in {"cond", "comma"} -> TypeOf(t.y)
      [] t.k = "cast" -> t.ty
      [] t.k = "call" -> Symbols[t.f].type
      [] OTHER -> INT

RECURSIVE Meaning(_, _), Place(_, _)
\* What one step of a value of the type is: pointers move by what they point to.
Unit(t) == IF TypeOf(t) >= PTR THEN Size(TypeOf(t) - PTR) ELSE 1
Meaning(t, m) ==
    LET x == Meaning(t.x, m)
        y == Meaning(t.y, x.m)
        c == Meaning(t.c, m)
        p == Place(t.x, m)
        both(v) == [v |-> v, m |-> y.m, ok |-> x.ok /\ y.ok]
        old == Load(p.m, p.v, Size(TypeOf(t.x)))
        stepped == Wrap(old + (IF t.op = "Inc" THEN 1 ELSE -1) * Unit(t.x))
        rhs == Meaning(t.y, p.m)
    IN
    CASE t.k = "num" -> [v |-> t.v, m |-> m, ok |-> TRUE]
      [] t.k = "sizeof" -> [v |-> Size(t.ty), m |-> m, ok |-> TRUE]
      [] t.k = "var" /\ Symbols[t.n].type >= ARRAY -> [v |-> Symbols[t.n].value, m |-> m, ok |-> TRUE]
      [] t.k \in {"var", "index"} /\ ~(t.k = "var" /\ Symbols[t.n].type >= ARRAY) ->
            LET q == Place(t, m) IN [q EXCEPT !.v = Load(q.m, q.v, Size(TypeOf(t)))]
      [] t.k = "cast" -> x
      [] t.k = "call" -> [x EXCEPT !.v = Swapped(x.v, IF t.f = "ntohl" THEN 4 ELSE 2)]
      [] t.k = "comma" -> both(y.v)
      [] t.k = "un" ->
            (CASE t.op = "Mul" -> [x EXCEPT !.v = Load(x.m, x.v, Size(TypeOf(t)))]
               [] t.op = "And" -> p
               [] t.op = "Add" -> x
               [] t.op = "Sub" -> [x EXCEPT !.v = Wrap(-x.v)]
               [] t.op = "!" -> [x EXCEPT !.v = Truth(x.v = 0)]
               [] t.op = "~" -> [x EXCEPT !.v = -1 - x.v])
      [] t.k = "step" -> [v |-> IF t.post THEN old ELSE stepped,
                          m |-> Store(p.m, p.v, Size(TypeOf(t.x)), stepped), ok |-> p.ok]
      [] t.k = "assign" -> [rhs EXCEPT !.m = Store(rhs.m, p.v, Size(TypeOf(t.x)), rhs.v), !.ok = @ /\ p.ok]
      [] t.k = "cond" -> LET b == Meaning(IF c.v # 0 THEN t.x ELSE t.y, c.m) IN [b EXCEPT !.ok = @ /\ c.ok]
      [] t.k = "bin" /\ t.op \in {"Lor", "Lan"} -> IF (x.v # 0) = (t.op = "Lor") THEN x ELSE both(y.v)
      [] t.k = "bin" /\ t.op \in {"Div", "Mod"} ->
            IF Traps(x.v, y.v) THEN [both(0) EXCEPT !.ok = FALSE] ELSE both(Calc(t.op, x.v, y.v))
      [] t.k = "bin" /\ t.op = "Sub" /\ TypeOf(t.y) >= PTR -> both(Quotient(x.v - y.v, Unit(t.x)))
      [] t.k = "bin" /\ t.op \in {"Add", "Sub"} /\ TypeOf(t.y) < PTR -> both(Calc(t.op, x.v, y.v * Unit(t.x)))
      [] OTHER -> both(Calc(t.op, x.v, y.v))
Place(t, m) ==
    CASE t.k = "var" -> [v |-> Symbols[t.n].value, m |-> m, ok |-> TRUE]
      [] t.k = "un" -> Meaning(t.x, m)
      [] t.k = "index" -> LET x == Meaning(t.x, m)
                              y == Meaning(t.y, x.m)
                          IN  [y EXCEPT !.v = x.v + y.v * Unit(t.x), !.ok = @ /\ x.ok]

(* Every text is accepted and computes what its tree means by the documented *)
(* precedences: the register at EXIT, every store to memory, the operands    *)
(* left on the stack, the short circuits and the pointer arithmetic; only a  *)
(* division by zero stops it.                                                *)
RunsAsWritten ==
    LET w == Meaning(program, given) IN
    CASE state = "done" -> w.ok /\ a = w.v /\ mem = w.m /\ stack = <<>>
      [] state = "SIGFPE" -> ~w.ok
      [] OTHER -> state # "refused"
================================================================================
