---------------------------- MODULE KconfigRules ----------------------------
(***************************************************************************)
(* Dependency expressions of kconfig and the rules by which they are       *)
(* simplified (support/kconfig/expr.c), each as a pure operator on one     *)
(* level of an expression.  What is recursive in the code takes the result *)
(* for the levels below as a parameter (the operators called ...Step and   *)
(* ...Round); KconfigExpr closes the recursion.                            *)
(*                                                                         *)
(* An expression is Null or a record: a symbol, a comparison of a symbol   *)
(* with a constant or another symbol, or a logical operation.  Symbols are *)
(* bool or tristate; int, hex and string symbols, lists and ranges are     *)
(* left out.                                                               *)
(***************************************************************************)
EXTENDS Integers, Sequences

CONSTANTS Bools,        \* the bool symbols
          Tristates,    \* the tristate symbols
          Modules       \* modules_sym: a bool, or "n" when no symbol has `option modules'

Consts == {"y", "m", "n"}
Symbols == Bools \cup Tristates

ASSUME ModulesAssumption == Modules \in Bools \cup {"n"}
\* A symbol has one type, and y, m and n are symbols of their own.
ASSUME SymbolsAssumption == Bools \cap Tristates = {} /\ Symbols \cap Consts = {}

Null == [op |-> "null"]
Sym(s) == [op |-> "sym", s |-> s]
Not(e) == [op |-> "not", l |-> e]
Two(op, e1, e2) == [op |-> op, l |-> e1, r |-> e2]
Comp(op, s, t) == [op |-> op, s |-> s, t |-> t]

\* expr_alloc_and, expr_alloc_or: no node for a missing operand.
Alloc(op, e1, e2) == IF e1 = Null THEN e2 ELSE IF e2 = Null THEN e1 ELSE Two(op, e1, e2)
And(e1, e2) == Alloc("and", e1, e2)
Or(e1, e2) == Alloc("or", e1, e2)

Logical == {"and", "or"}
Opposite == [x \in {"=", "!=", "<", ">=", ">", "<="} |->
               CASE x = "=" -> "!=" [] x = "!=" -> "=" [] x = "<" -> ">=" [] x = ">=" -> "<"
                 [] x = ">" -> "<=" [] x = "<=" -> ">"]
Dual(op) == IF op = "and" THEN "or" ELSE "and"
Neutral(op) == IF op = "and" THEN Sym("y") ELSE Sym("n")

-----------------------------------------------------------------------------
(* The value of an expression, n = 0, m = 1, y = 2.                         *)

Least(i, j) == IF i < j THEN i ELSE j
Greatest(i, j) == IF i < j THEN j ELSE i

\* Values that sym_calc_value can give to the symbols: a bool is never m, nor is
\* a tristate when there are no modules.
Assignments == {v \in [Symbols -> 0..2] :
                  /\ \A b \in Bools : v[b] # 1
                  /\ (Modules = "n" \/ v[Modules] = 0) => \A t \in Tristates : v[t] # 1}

SymValue(s, v) == CASE s = "y" -> 2 [] s = "m" -> 1 [] s = "n" -> 0 [] OTHER -> v[s]

\* Two symbols are compared by value.  The constants y, m and n have no type, so
\* that a comparison with one of them is strcmp's: m before n before y.
ByName(i) == CASE i = 0 -> 1 [] i = 1 -> 0 [] i = 2 -> 2
Difference(s, t, v) == IF t \in Consts THEN ByName(SymValue(s, v)) - ByName(SymValue(t, v))
                                       ELSE v[s] - v[t]
Holds(op, d) == CASE op = "=" -> d = 0 [] op = "!=" -> d # 0 [] op = "<" -> d < 0
                  [] op = ">=" -> d >= 0 [] op = ">" -> d > 0 [] op = "<=" -> d <= 0

\* expr_calc_value, of what is no logical operation, and of one from its operands' values.
LeafValue(e, v) ==
    CASE e.op = "null" -> 2
      [] e.op = "sym" -> SymValue(e.s, v)
      [] OTHER -> IF Holds(e.op, Difference(e.s, e.t, v)) THEN 2 ELSE 0
LevelValue(op, i, j) == IF op = "and" THEN Least(i, j) ELSE Greatest(i, j)

ValueStep(Calc(_), e, v) ==
    CASE e.op = "not" -> 2 - Calc(e.l)
      [] e.op \in Logical -> LevelValue(e.op, Calc(e.l), Calc(e.r))
      [] OTHER -> LeafValue(e, v)

-----------------------------------------------------------------------------
(* The operands of one level of && or ||.                                    *)

\* expr_eliminate_yn: y and n as operands, once those are simplified.
Yn(op, l, r) ==
    LET absorbing == Neutral(Dual(op))
    IN  IF l = absorbing \/ r = absorbing THEN absorbing
        ELSE IF l = Neutral(op) THEN r
        ELSE IF r = Neutral(op) THEN l
        ELSE Two(op, l, r)
YnStep(Elim(_), e) == IF e.op \in Logical THEN Yn(e.op, Elim(e.l), Elim(e.r)) ELSE e

\* The operands of op in e, however its operations are nested, and e with others.
LeavesStep(Below(_), op, e) == IF e.op = op THEN Below(e.l) \o Below(e.r) ELSE <<e>>
WithLeavesStep(Below(_), With(_, _), op, e, ls) ==
    IF e.op # op THEN ls[1]
    ELSE LET k == Len(Below(e.l))
         IN  Two(op, With(e.l, SubSeq(ls, 1, k)), With(e.r, SubSeq(ls, k + 1, Len(ls))))

\* The pairs of an operand and one of ls, in order: pair k.
Row(k, ls) == 1 + (k \div Len(ls))
Column(k, ls) == 1 + (k % Len(ls))

-----------------------------------------------------------------------------
(* What two levels have in common.                                           *)

\* __expr_eliminate_eq: operands ls1[i] and ls2[j], which are equal, become neutral.
Cancelled(op, ls1, ls2, i, j) == <<[ls1 EXCEPT ![i] = Neutral(op)], [ls2 EXCEPT ![j] = Neutral(op)]>>

\* Every operand of one expression is compared with every operand of the other.
CancelRound(Eq(_, _), op, ls, k) ==
    LET i == Row(k, ls[2])
        j == Column(k, ls[2])
    IN  IF (ls[1][i] = ls[2][j] /\ ls[1][i] \in {Sym("y"), Sym("n")}) \/ ~Eq(ls[1][i], ls[2][j])
        THEN ls
        ELSE Cancelled(op, ls[1], ls[2], i, j)

\* expr_eliminate_eq: what two expressions have in common is removed from both.
EliminateEqStep(Cancel(_, _, _), Elim(_), e1, e2) ==
    IF Null \in {e1, e2} THEN <<e1, e2>>
    ELSE LET p == IF e1.op \in Logical THEN Cancel(e1.op, e1, e2) ELSE <<e1, e2>>
             q == IF p[1].op # p[2].op /\ p[2].op \in Logical THEN Cancel(p[2].op, p[1], p[2]) ELSE p
         IN  <<Elim(q[1]), Elim(q[2])>>

\* expr_eq: equal up to the order of the operands.
ExprEqStep(Eq(_, _), ElimEq(_, _), e1, e2) ==
    /\ e1.op = e2.op
    /\ CASE e1.op = "not" -> Eq(e1.l, e2.l)
         [] e1.op \in Logical -> LET p == ElimEq(e1, e2)
                                 IN  p[1].op = "sym" /\ p[1] = p[2]
         [] OTHER -> e1 = e2

-----------------------------------------------------------------------------
(* Joining two operands: the expression that replaces both, or Null.         *)

Joinable == {"=", "!=", "sym", "not"}

\* The symbol that both operands are about.
About(e) == IF e.op = "not" THEN e.l.s ELSE e.s
SameSymbol(e1, e2) ==
    /\ {e1.op, e2.op} \subseteq Joinable
    /\ e1.op = "not" => e1.l.op \in {"=", "!=", "sym"}
    /\ e2.op = "not" => e2.l.op = "sym"
    /\ About(e1) = About(e2)
    /\ About(e1) \in Symbols

Both(e1, e2, op) == e1.op = op /\ e2.op = op
IsConst(t) == t \in Consts
Third(e1, e2) == CHOOSE c \in Consts : c \notin {e1.t, e2.t}

\* One operand is the symbol itself, the other compares it with a constant.
With(e1, e2, op, c) == \/ e1.op = "sym" /\ e2.op = op /\ e2.t = c
                       \/ e2.op = "sym" /\ e1.op = op /\ e1.t = c

\* expr_join_or and expr_join_and, for operands that differ and are about one symbol.
JoinOr(e1, e2) ==
    LET a == About(e1)
    IN  CASE a \in Tristates /\ Both(e1, e2, "=") /\ e1.t # e2.t /\ IsConst(e1.t) /\ IsConst(e2.t)
               -> Comp("!=", a, Third(e1, e2))
          [] a \in Bools /\ \/ e1 = Not(e2) /\ e2.op = "sym"
                            \/ e2 = Not(e1) /\ e1.op = "sym"
               -> Sym("y")
          [] OTHER -> Null

\* What a comment of the code says of one rule (expr.c:561): a!='m' && a!='n' as a='m'.
JoinAndAsCommented(e1, e2) ==
    IF Both(e1, e2, "!=") /\ {e1.t, e2.t} = {"m", "n"} THEN Comp("=", About(e1), "m") ELSE Null

JoinAnd(e1, e2) ==
    LET a == About(e1)
        Equation(e, f) == e.op = "=" /\ f.op = "!=" /\ IsConst(e.t) /\ IsConst(f.t)
        Decide(e, f) == IF e.t # f.t THEN Comp("=", a, e.t) ELSE Sym("n")
    IN  CASE With(e1, e2, "=", "y") -> Comp("=", a, "y")
          [] With(e1, e2, "!=", "n") -> Sym(a)
          [] With(e1, e2, "!=", "m") -> Comp("=", a, "y")
          [] a \in Tristates /\ Equation(e1, e2) -> Decide(e1, e2)
          [] a \in Tristates /\ Equation(e2, e1) -> Decide(e2, e1)
          [] a \in Tristates /\ Both(e1, e2, "!=") /\ e1.t # e2.t /\ IsConst(e1.t) /\ IsConst(e2.t)
               -> Comp("=", a, Third(e1, e2))
          [] OTHER -> Null

\* Two operands that expr_eq does not find equal.
JoinUnequal(op, e1, e2) == IF ~SameSymbol(e1, e2) THEN Null
                           ELSE IF op = "or" THEN JoinOr(e1, e2) ELSE JoinAnd(e1, e2)

\* expr_eliminate_dups1: what operand f and an operand simplified to inner.e become.
Joined(op, inner, f, join) ==
    IF join = Null THEN [e1 |-> inner.e, e2 |-> f, count |-> inner.count]
                   ELSE [e1 |-> Neutral(op), e2 |-> join, count |-> inner.count + 1]

\* Operands i and j of a level give way to both.
WithBoth(ls, i, j, both) == [ls EXCEPT ![i] = both.e1, ![j] = both.e2]

\* Every operand is joined with every other, in order; an operand that is of the
\* other operation is simplified first.
JoinRound(Dups(_), Eq(_, _), op, res, k) ==
    LET i == Row(k, res.ls)
        j == Column(k, res.ls)
        Unless(inner, f) == Joined(op, inner, f, IF Eq(inner.e, f) THEN inner.e ELSE JoinUnequal(op, inner.e, f))
        After(both) == [ls |-> WithBoth(res.ls, i, j, both), count |-> res.count + both.count]
    IN  IF i = j THEN res ELSE After(Unless(Dups(res.ls[i]), res.ls[j]))

-----------------------------------------------------------------------------
(* Normalisation.                                                            *)

\* A bool compared with a constant: the symbol, its negation, or a constant.
BoolComparison(e) ==
    IF e.s \in Bools /\ e.op \in {"=", "!="} /\ IsConst(e.t)
    THEN IF e.t = "m" THEN Sym(IF e.op = "=" THEN "n" ELSE "y")
         ELSE IF (e.op = "=") = (e.t = "y") THEN Sym(e.s) ELSE Not(Sym(e.s))
    ELSE e

\* !(a && b) as !a || !b, and !(a || b) as !a && !b.
PushedKeepsOp(x) == Two(x.op, Not(x.l), Not(x.r))
Pushed(x) == Two(Dual(x.op), Not(x.l), Not(x.r))

\* The negation of what is neither one nor a logical operation.
Complement(x) ==
    CASE x.op \in DOMAIN Opposite -> Comp(Opposite[x.op], x.s, x.t)
      [] x.op = "sym" /\ IsConst(x.s) ->
           Sym(CASE x.s = "y" -> "n" [] x.s = "m" -> "m" [] x.s = "n" -> "y")
      [] OTHER -> Not(x)

\* expr_transform: negations are pushed down to symbols.
TransformStep(Trans(_), e) ==
    CASE e.op \in {"null", "sym"} -> e
      [] e.op \in Logical -> Two(e.op, Trans(e.l), Trans(e.r))
      [] e.op = "not" ->
           LET x == Trans(e.l) IN
           CASE x.op = "not" -> Trans(x.l)
             [] x.op \in Logical -> Trans(Pushed(x))
             [] OTHER -> Complement(x)
      [] OTHER -> BoolComparison(e)

\* expr_trans_bool: FOO!=n as FOO, for the conditions of symbols that are not tristate.
Bare(e) == IF e.op = "!=" /\ e.s \in Tristates /\ e.t = "n" THEN Sym(e.s) ELSE e
BareStep(Trans(_), e) ==
    CASE e.op \in Logical -> Two(e.op, Trans(e.l), Trans(e.r))
      [] e.op = "not" -> Not(Trans(e.l))
      [] OTHER -> Bare(e)

-----------------------------------------------------------------------------
(* Symbols in an expression.                                                 *)

ContainsStep(Contains(_), e, s) ==
    CASE e.op \in Logical -> Contains(e.l) \/ Contains(e.r)
      [] e.op = "not" -> Contains(e.l)
      [] e.op = "sym" -> e.s = s
      [] e.op = "null" -> FALSE
      [] OTHER -> s \in {e.s, e.t}

\* expr_depends_symbol, of what is no &&: e is n whenever s is.
LeafDepends(e, s) ==
    CASE e.op = "sym" -> e.s = s
      [] e.op = "=" -> e.s = s /\ e.t \in {"y", "m"}
      [] e.op = "!=" -> e.s = s /\ e.t = "n"
      [] OTHER -> FALSE
DependsStep(Depends(_), e, s) == IF e.op = "and" THEN Depends(e.l) \/ Depends(e.r) ELSE LeafDepends(e, s)
=============================================================================
