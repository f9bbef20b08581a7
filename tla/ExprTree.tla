------------------------------- MODULE ExprTree -------------------------------
(***************************************************************************)
(* Syntax trees of the expressions of expr.c: operators have the names of  *)
(* its tokens, types are its numbers.                                      *)
(***************************************************************************)
Num(v) == [k |-> "num", v |-> v]
Var(n) == [k |-> "var", n |-> n]
Unary(op, x) == [k |-> "un", op |-> op, x |-> x]
Bin(op, x, y) == [k |-> "bin", op |-> op, x |-> x, y |-> y]
Step(op, post, x) == [k |-> "step", op |-> op, post |-> post, x |-> x]
CondOf(c, x, y) == [k |-> "cond", c |-> c, x |-> x, y |-> y]
Assigned(x, y) == [k |-> "assign", x |-> x, y |-> y]
Index(x, y) == [k |-> "index", x |-> x, y |-> y]
Call(f, x) == [k |-> "call", f |-> f, x |-> x]
Cast(ty, x) == [k |-> "cast", ty |-> ty, x |-> x]
SizeOf(ty) == [k |-> "sizeof", ty |-> ty]
Comma(x, y) == [k |-> "comma", x |-> x, y |-> y]
================================================================================
