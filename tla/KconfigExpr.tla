---------------------------- MODULE KconfigExpr ----------------------------
(***************************************************************************)
(* The simplification of whole expressions (support/kconfig/expr.c) by the *)
(* rules of KconfigRules, as pure operators.  The C code rewrites in place *)
(* and counts its rewrites in trans_count; here an operator returns the    *)
(* new expression, and with it the count where the code uses it.           *)
(***************************************************************************)
EXTENDS KconfigRules

\* expr_calc_value
RECURSIVE Value(_, _)
Value(e, v) == ValueStep(LAMBDA x : Value(x, v), e, v)

\* expr_eliminate_yn
RECURSIVE EliminateYn(_)
EliminateYn(e) == YnStep(EliminateYn, e)

\* The operands of one level of && or ||.
RECURSIVE Leaves(_, _), WithLeaves(_, _, _)
Leaves(op, e) == LeavesStep(LAMBDA x : Leaves(op, x), op, e)
WithLeaves(op, e, ls) ==
    WithLeavesStep(LAMBDA x : Leaves(op, x), LAMBDA x, s : WithLeaves(op, x, s), op, e, ls)

\* __expr_eliminate_eq, expr_eliminate_eq, expr_eq
RECURSIVE ExprEq(_, _), CancelFrom(_, _, _), CancelEqual(_, _, _), EliminateEq(_, _)
CancelFrom(op, ls, k) ==
    IF k = Len(ls[1]) * Len(ls[2]) THEN ls ELSE CancelFrom(op, CancelRound(ExprEq, op, ls, k), k + 1)
CancelEqual(op, e1, e2) ==
    LET ls == CancelFrom(op, <<Leaves(op, e1), Leaves(op, e2)>>, 0)
    IN  <<WithLeaves(op, e1, ls[1]), WithLeaves(op, e2, ls[2])>>
EliminateEq(e1, e2) == EliminateEqStep(CancelEqual, EliminateYn, e1, e2)
ExprEq(e1, e2) == ExprEqStep(ExprEq, EliminateEq, e1, e2)

\* expr_eliminate_dups1 on one tree.
RECURSIVE JoinFrom(_, _, _), EliminateDups1(_)
JoinFrom(op, res, k) ==
    IF k = Len(res.ls) * Len(res.ls) THEN res
    ELSE JoinFrom(op, JoinRound(EliminateDups1, ExprEq, op, res, k), k + 1)
Rejoined(e, res) == [e |-> WithLeaves(e.op, e, res.ls), count |-> res.count]
EliminateDups1(e) ==
    IF e.op \notin Logical THEN [e |-> e, count |-> 0]
    ELSE Rejoined(e, JoinFrom(e.op, [ls |-> Leaves(e.op, e), count |-> 0], 0))

\* expr_eliminate_dups: until nothing is joined any more.
RECURSIVE EliminateDups(_)
AfterPass(pass) == IF pass.count = 0 THEN pass.e ELSE EliminateDups(EliminateYn(pass.e))
EliminateDups(e) == AfterPass(EliminateDups1(e))

\* expr_transform, expr_trans_bool
RECURSIVE Transform(_), TransBool(_)
Transform(e) == TransformStep(Transform, e)
TransBool(e) == BareStep(TransBool, e)

\* expr_trans_compare: `e op c' as comparisons of e's symbols; op is = or !=.
RECURSIVE TransCompare(_, _, _)
TransCompare(e, op, c) ==
    LET Negated(x) == IF op = "!=" THEN Not(x) ELSE x
        Level == CASE c = "y" -> e.op [] c = "n" -> Dual(e.op)
    IN
    CASE e.op = "null" -> Negated(Sym(c))
      [] e.op \in Logical -> Negated(Two(Level, TransCompare(e.l, "=", c), TransCompare(e.r, "=", c)))
      [] e.op = "not" -> TransCompare(e.l, Opposite[op], c)
      [] e.op = "sym" -> Comp(op, e.s, c)
      [] OTHER -> CASE c = "y" -> Negated(e)
                    [] c = "m" -> Sym(IF op = "=" THEN "n" ELSE "y")
                    [] c = "n" -> IF op = "=" THEN Not(e) ELSE e

\* expr_contains_symbol, expr_depends_symbol
RECURSIVE ContainsSymbol(_, _), DependsSymbol(_, _)
ContainsSymbol(e, s) == ContainsStep(LAMBDA x : ContainsSymbol(x, s), e, s)
DependsSymbol(e, s) == DependsStep(LAMBDA x : DependsSymbol(x, s), e, s)
=============================================================================
